-------------------------- MODULE FlashStoreProofs --------------------------
(***************************************************************************)
(* Proofs about FlashStore for every number of blocks, slots, cells and    *)
(* losses of power, and for values of every length.                        *)
(*                                                                         *)
(* What is well formed at every moment power may go depends on what the    *)
(* running call has still to do, so the invariant relates the sectors to   *)
(* the rest of the plan: every entry to come finds its slot and its name   *)
(* free and the slots in front of it taken, every byte to come finds its   *)
(* cell erased (EntryPlan, MaskPlan, RootPlan, DataPlan, Covered).  The    *)
(* proof has two halves.  One operation done leaves sectors on which the   *)
(* rest can be done (NamesStep, RootStep, DataStep).  The plan a call      *)
(* begins with can be done on the sectors it has read (GoodPlan); for the  *)
(* loops that write entries and namespaces back this is an induction.      *)
(*                                                                         *)
(* What a key reads back depends on the rest of the plan as well, and on   *)
(* where it is cut off.  A run of a plan is the sectors after each of its  *)
(* operations (Run); the rest of a plan serves the keys if in every run of *)
(* it a key not at risk is safe at every place, and at the end every key   *)
(* holds what it should (Serves, KeepInv).  One operation done leaves a    *)
(* rest that serves, since a run of the rest is a run of the plan without  *)
(* its first state; the plan of each call serves the keys from the start   *)
(* (WriteServes, CleanServes, ClearServes, EnsureServes, EraseServes), and *)
(* a safe key is what bk_read_data finds (SafeReads).                      *)
(***************************************************************************)
EXTENDS FlashStore, FiniteSetTheorems, WellFoundedInduction, TLAPS

-----------------------------------------------------------------------------
(* Naturals.                                                               *)

\* Every set of naturals that is not empty has a least element.
LEMMA LeastNatural ==
    ASSUME NEW T, T \subseteq Nat, T # {}
    PROVE  \E x \in T : \A y \in T : x <= y
<1> DEFINE R == {ss \in Nat \X Nat : ss[1] < ss[2]}
<1>1. IsWellFoundedOn(R, Nat)
  BY NatLessThanWellFounded DEF OpToRel
<1> HIDE DEF R
<1>2. \E x \in T : \A y \in T : ~(<<y, x>> \in R)
  BY <1>1, WFMin
<1>3. PICK x \in T : \A y \in T : ~(<<y, x>> \in R)
  BY <1>2
<1>4. \A y \in T : ~(y < x)
  BY <1>3 DEF R
<1> QED
  BY <1>4

\* Induction over the naturals from m, for a property given as a set.
LEMMA InductionFrom ==
    ASSUME NEW m \in Nat, NEW S, m \in S,
           \A n \in Nat : n >= m /\ n \in S => n + 1 \in S
    PROVE  \A n \in Nat : n >= m => n \in S
<1> DEFINE T == {n \in Nat : n >= m /\ n \notin S}
<1> SUFFICES ASSUME T # {} PROVE FALSE
  OBVIOUS
<1>1. PICK x \in T : \A y \in T : x <= y
  BY LeastNatural
<1>2. x # m /\ x \in Nat /\ x >= m
  OBVIOUS
<1>3. x - 1 \in Nat /\ x - 1 >= m /\ x - 1 \notin T
  BY <1>1, <1>2
<1>4. (x - 1) + 1 \in S
  BY <1>3
<1> QED
  BY <1>2, <1>4

-----------------------------------------------------------------------------
(* The flash.                                                              *)

Flag == {"ERASED", "USING", "MASK"}

EntrySet == [flag : Flag, name : Names \cup {None}, off : Nat, len : Nat]

\* What a cell can hold.
Cell == {Erased, <<Garbage, 0>>} \cup {Byte(v, i) : v \in Values, i \in Nat}

Sectors ==
    /\ root \in [BlockIds -> Spaces \cup {None}]
    /\ names \in [BlockIds -> [1 .. Slots -> EntrySet]]
    /\ data \in [BlockIds -> [1 .. Cells -> Cell]]

\* Where the bytes of an entry end.
End(e) == e.off + e.len

\* The entries E of a name sector: they lie inside the data sector, those not
\* used yet come last and are erased in every bit, the data lie one behind the
\* other, masked or not, and no name is in use twice.
GoodNames(E) ==
    /\ \A s \in 1 .. Slots : /\ End(E[s]) < Cells
                             /\ E[s].flag = "ERASED" => E[s] = NoEntry
                             /\ E[s].flag = "USING" => E[s].name \in Names
    /\ \A s, t \in 1 .. Slots : s < t /\ E[s].flag = "ERASED" => E[t].flag = "ERASED"
    /\ \A s, t \in 1 .. Slots :
           s < t /\ E[s].flag # "ERASED" /\ E[t].flag # "ERASED" => End(E[s]) <= E[t].off
    /\ \A s, t \in 1 .. Slots :
           E[s].flag = "USING" /\ E[t].flag = "USING" /\ E[s].name = E[t].name => s = t

-----------------------------------------------------------------------------
(* Plans.                                                                  *)

\* Operations on the flash.
Op == [op : {"eraseRoot"}]
      \cup [op : {"eraseNames", "eraseData"}, b : BlockIds]
      \cup [op : {"root"}, b : BlockIds, ns : Spaces]
      \cup [op : {"entry"}, b : BlockIds, s : 1 .. Slots, e : EntrySet]
      \cup [op : {"mask"}, b : BlockIds, s : 1 .. Slots]
      \cup [op : {"data"}, b : BlockIds, off : Nat, bytes : Seq(Cell)]

Is(o, kind, b) == o.op = kind /\ o.b = b

\* An operation on block b of that kind comes before place i of plan p.
Before(p, i, kind, b) == \E j \in 1 .. (i - 1) : Is(p[j], kind, b)

\* The entry at place i of plan p can be programmed when its turn comes: by
\* then the sector is wiped, or all its entries lie before this one and the one
\* of the same name is masked.
EntryFree(p, i, N) ==
    LET b == p[i].b
        e == p[i].e
    IN  \/ Before(p, i, "eraseNames", b)
        \/ \A t \in 1 .. Slots : N[b][t].flag # "ERASED" =>
               /\ t < p[i].s
               /\ End(N[b][t]) <= e.off
               /\ N[b][t].flag = "USING" /\ N[b][t].name = e.name =>
                      \E j \in 1 .. (i - 1) : Is(p[j], "mask", b) /\ p[j].s = t

\* By then the slots in front of it are taken.
EntryNext(p, i, N) ==
    LET b == p[i].b
    IN  \A t \in 1 .. (p[i].s - 1) :
            \/ \E j \in 1 .. (i - 1) : Is(p[j], "entry", b) /\ p[j].s = t
            \/ N[b][t].flag # "ERASED" /\ ~Before(p, i, "eraseNames", b)

\* Later entries for the same sector go behind it, and nothing wipes it again.
EntryLater(p, i) ==
    LET b == p[i].b
        e == p[i].e
    IN  \A j \in DOMAIN p : i < j =>
            /\ ~Is(p[j], "eraseNames", b)
            /\ Is(p[j], "entry", b) => /\ p[i].s < p[j].s
                                       /\ e.name # p[j].e.name
                                       /\ End(e) <= p[j].e.off

\* What plan p does to the name sectors N.
EntryPlan(p, N) ==
    \A i \in DOMAIN p : p[i].op = "entry" =>
        /\ p[i].e.flag = "USING" /\ p[i].e.name \in Names /\ End(p[i].e) < Cells
        /\ EntryFree(p, i, N)
        /\ EntryNext(p, i, N)
        /\ EntryLater(p, i)

\* What plan p masks in the name sectors N is not erased.
MaskPlan(p, N) ==
    \A i \in DOMAIN p : p[i].op = "mask" =>
        /\ N[p[i].b][p[i].s].flag # "ERASED"
        /\ ~Before(p, i, "eraseNames", p[i].b)

\* What plan p does to the root sector R: a namespace is entered where none is,
\* and only if no other block has it.
RootPlan(p, R) ==
    \A i \in DOMAIN p : p[i].op = "root" =>
        /\ \/ \E j \in 1 .. (i - 1) : p[j].op = "eraseRoot"
           \/ R[p[i].b] = None /\ \A c \in BlockIds : R[c] # p[i].ns
        /\ \A j \in DOMAIN p : i < j /\ p[j].op = "root" =>
               p[i].b # p[j].b /\ p[i].ns # p[j].ns

\* What plan p does to the data sectors D: bytes go to erased cells, behind each
\* other, an entry behind them follows, and a wiped name sector is followed by
\* wiped data.
DataPlan(p, D) ==
    /\ \A i \in DOMAIN p : p[i].op = "data" =>
           LET b == p[i].b
               end == p[i].off + Len(p[i].bytes)
           IN  /\ end < Cells
               /\ \/ Before(p, i, "eraseData", b)
                  \/ \A c \in 1 .. Cells : p[i].off < c /\ c <= end => D[b][c] = Erased
               /\ \A j \in DOMAIN p : i < j /\ Is(p[j], "data", b) => end <= p[j].off
               /\ \E j \in DOMAIN p : i < j /\ Is(p[j], "entry", b) /\ end <= End(p[j].e)
    /\ \A i \in DOMAIN p : p[i].op = "eraseNames" =>
           \E j \in DOMAIN p : i < j /\ Is(p[j], "eraseData", p[i].b)

\* Every cell in use lies before the end of an entry, there already or to come,
\* or will be erased.
Covered(p, N, D) ==
    \A b \in BlockIds : \A c \in 1 .. Cells : D[b][c] # Erased =>
        \/ \E t \in 1 .. Slots : N[b][t].flag # "ERASED" /\ c <= End(N[b][t])
        \/ \E i \in DOMAIN p : Is(p[i], "entry", b) /\ c <= End(p[i].e)
        \/ \E i \in DOMAIN p : Is(p[i], "eraseData", b)

StoreInv ==
    /\ Sectors
    /\ plan \in Seq(Op)
    /\ call \in Calls \cup {None}
    /\ call = None => plan = <<>>
    /\ kept \in [Keys -> Values \cup {None}]
    /\ unsure \subseteq Keys /\ crashes \in 0 .. MaxCrashes
    /\ \A b \in BlockIds : GoodNames(names[b])
    /\ OneBlockPerSpace
    /\ EntryPlan(plan, names)
    /\ MaskPlan(plan, names)
    /\ RootPlan(plan, root)
    /\ crashes = 0 => DataPlan(plan, data) /\ Covered(plan, names, data)

-----------------------------------------------------------------------------
(* Operations and what is left of a plan.                                  *)

\* The fields of an operation.
LEMMA OpFields ==
    ASSUME NEW o \in Op
    PROVE  /\ o.op \in {"eraseRoot", "eraseNames", "eraseData", "root", "entry",
                        "mask", "data"}
           /\ o.op # "eraseRoot" => o.b \in BlockIds
           /\ o.op = "root" => o.ns \in Spaces
           /\ o.op = "entry" => o.s \in 1 .. Slots /\ o.e \in EntrySet
           /\ o.op = "mask" => o.s \in 1 .. Slots
           /\ o.op = "data" => o.off \in Nat /\ o.bytes \in Seq(Cell)
  BY DEF Op

\* The first operation and the rest.
LEMMA TailPlan ==
    ASSUME NEW p \in Seq(Op), p # <<>>
    PROVE  /\ Len(p) \in Nat \ {0} /\ DOMAIN p = 1 .. Len(p) /\ 1 \in DOMAIN p
           /\ Head(p) = p[1] /\ p[1] \in Op
           /\ Tail(p) \in Seq(Op)
           /\ DOMAIN Tail(p) = 1 .. (Len(p) - 1)
           /\ \A i \in DOMAIN Tail(p) : i + 1 \in DOMAIN p /\ Tail(p)[i] = p[i + 1]
  OBVIOUS

\* What came before a place came first, or before it in the rest.
LEMMA BeforeTail ==
    ASSUME NEW p \in Seq(Op), p # <<>>, NEW i \in DOMAIN Tail(p), NEW kind, NEW b
    PROVE  Before(p, i + 1, kind, b) <=>
               Is(p[1], kind, b) \/ Before(Tail(p), i, kind, b)
<1>1. /\ DOMAIN Tail(p) = 1 .. (Len(p) - 1) /\ Len(p) \in Nat \ {0}
      /\ \A j \in DOMAIN Tail(p) : Tail(p)[j] = p[j + 1]
  BY TailPlan
<1>2. ASSUME Before(p, i + 1, kind, b)
      PROVE  Is(p[1], kind, b) \/ Before(Tail(p), i, kind, b)
  <2>1. PICK j \in 1 .. i : Is(p[j], kind, b)
    BY <1>1, <1>2 DEF Before
  <2>2. CASE j = 1
    BY <2>1, <2>2
  <2>3. CASE j # 1
    <3>1. j - 1 \in 1 .. (i - 1) /\ j - 1 \in DOMAIN Tail(p) /\ (j - 1) + 1 = j
      BY <1>1, <2>3
    <3>2. Is(Tail(p)[j - 1], kind, b)
      BY <1>1, <2>1, <3>1
    <3> QED
      BY <3>1, <3>2 DEF Before
  <2> QED
    BY <2>2, <2>3
<1>3. ASSUME Is(p[1], kind, b)
      PROVE  Before(p, i + 1, kind, b)
  BY <1>1, <1>3 DEF Before
<1>4. ASSUME Before(Tail(p), i, kind, b)
      PROVE  Before(p, i + 1, kind, b)
  <2>1. PICK j \in 1 .. (i - 1) : Is(Tail(p)[j], kind, b)
    BY <1>4 DEF Before
  <2>2. j + 1 \in 1 .. ((i + 1) - 1) /\ j \in DOMAIN Tail(p)
    BY <1>1
  <2>3. Is(p[j + 1], kind, b)
    BY <1>1, <2>1, <2>2
  <2> QED
    BY <2>2, <2>3 DEF Before
<1> QED
  BY <1>2, <1>3, <1>4

-----------------------------------------------------------------------------
(* Name sectors.                                                           *)

NameSectors == [BlockIds -> [1 .. Slots -> EntrySet]]

\* An empty sector is a good one.
LEMMA EmptyNamesGood ==
    EmptyNames \in [1 .. Slots -> EntrySet] /\ GoodNames(EmptyNames)
<1>1. NoEntry \in EntrySet /\ NoEntry.flag = "ERASED" /\ End(NoEntry) = 0
  BY DEF NoEntry, EntrySet, Flag, End
<1>2. \A s \in 1 .. Slots : EmptyNames[s] = NoEntry
  BY DEF EmptyNames
<1>3. EmptyNames \in [1 .. Slots -> EntrySet]
  BY <1>1 DEF EmptyNames
<1> QED
  BY <1>1, <1>2, <1>3, StoreAssumption DEF GoodNames

\* The rest of a plan keeps what was said of the whole, of entries that the
\* first operation has nothing to do with: kinds, later operations.
LEMMA EntryLaterTail ==
    ASSUME NEW p \in Seq(Op), p # <<>>, NEW i \in DOMAIN Tail(p),
           EntryLater(p, i + 1)
    PROVE  EntryLater(Tail(p), i)
<1>1. /\ DOMAIN Tail(p) = 1 .. (Len(p) - 1) /\ Len(p) \in Nat \ {0}
      /\ \A j \in DOMAIN Tail(p) : j + 1 \in DOMAIN p /\ Tail(p)[j] = p[j + 1]
  BY TailPlan
<1>2. \A j \in DOMAIN Tail(p) : i < j => i + 1 < j + 1
  BY <1>1
<1> QED
  BY <1>1, <1>2 DEF EntryLater

\* The name sectors after operation o.
NamesAfter(o, N) ==
    CASE o.op = "eraseNames" -> [N EXCEPT ![o.b] = EmptyNames]
      [] o.op = "entry" -> [N EXCEPT ![o.b][o.s] = o.e]
      [] o.op = "mask" -> [N EXCEPT ![o.b][o.s].flag = "MASK"]
      [] OTHER -> N

\* One slot is programmed.
PutAt(N, b, s, x) == [N EXCEPT ![b][s] = x]

LEMMA PutSlot ==
    ASSUME NEW N \in NameSectors, NEW b \in BlockIds, NEW s \in 1 .. Slots,
           NEW x \in EntrySet
    PROVE  /\ PutAt(N, b, s, x) \in NameSectors
           /\ PutAt(N, b, s, x)[b][s] = x
           /\ \A c \in BlockIds : \A t \in 1 .. Slots :
                  ~(c = b /\ t = s) => PutAt(N, b, s, x)[c][t] = N[c][t]
<1> DEFINE E == [N[b] EXCEPT ![s] = x]
           M == PutAt(N, b, s, x)
<1>1. N[b] \in [1 .. Slots -> EntrySet]
  BY DEF NameSectors
<1>2. /\ E \in [1 .. Slots -> EntrySet] /\ E[s] = x
      /\ \A t \in 1 .. Slots : t # s => E[t] = N[b][t]
  BY <1>1
<1>3. M = [N EXCEPT ![b] = E]
  BY DEF PutAt
<1> HIDE DEF E, M
<1>4. M \in NameSectors /\ M[b] = E /\ \A c \in BlockIds : c # b => M[c] = N[c]
  BY <1>2, <1>3 DEF NameSectors
<1>5. /\ M \in NameSectors /\ M[b][s] = x
      /\ \A c \in BlockIds : \A t \in 1 .. Slots :
             ~(c = b /\ t = s) => M[c][t] = N[c][t]
  BY <1>2, <1>4
<1> QED
  BY <1>5 DEF M

\* Slot by slot.
LEMMA SlotsAfter ==
    ASSUME NEW N \in NameSectors, NEW o \in Op, NEW M, M = NamesAfter(o, N)
    PROVE  /\ M \in NameSectors
           /\ \A b \in BlockIds : \A t \in 1 .. Slots :
                  /\ Is(o, "eraseNames", b) => M[b] = EmptyNames /\ M[b][t] = NoEntry
                  /\ Is(o, "entry", b) /\ o.s = t => M[b][t] = o.e
                  /\ Is(o, "mask", b) /\ o.s = t =>
                         /\ M[b][t].flag = "MASK"
                         /\ M[b][t].name = N[b][t].name
                         /\ M[b][t].off = N[b][t].off
                         /\ M[b][t].len = N[b][t].len
                  /\ /\ ~Is(o, "eraseNames", b)
                     /\ ~(Is(o, "entry", b) /\ o.s = t)
                     /\ ~(Is(o, "mask", b) /\ o.s = t)
                     => M[b][t] = N[b][t]
<1>1. CASE o.op = "eraseNames"
  <2>1. M = [N EXCEPT ![o.b] = EmptyNames] /\ o.b \in BlockIds
    BY <1>1, OpFields DEF NamesAfter
  <2>2. \A t \in 1 .. Slots : EmptyNames[t] = NoEntry
    BY DEF EmptyNames
  <2>3. M \in NameSectors
    BY <2>1, EmptyNamesGood DEF NameSectors
  <2> QED
    BY <1>1, <2>1, <2>2, <2>3 DEF Is, NameSectors
<1>2. CASE o.op = "entry"
  <2>1. /\ M = PutAt(N, o.b, o.s, o.e)
        /\ o.b \in BlockIds /\ o.s \in 1 .. Slots /\ o.e \in EntrySet
    BY <1>2, OpFields DEF NamesAfter, PutAt
  <2>2. /\ M \in NameSectors /\ M[o.b][o.s] = o.e
        /\ \A b \in BlockIds : \A t \in 1 .. Slots :
               ~(b = o.b /\ t = o.s) => M[b][t] = N[b][t]
    BY <2>1, PutSlot
  <2>3. \A b \in BlockIds : ~Is(o, "eraseNames", b) /\ ~Is(o, "mask", b)
    BY <1>2 DEF Is
  <2>4. \A b \in BlockIds : Is(o, "entry", b) <=> b = o.b
    BY <1>2 DEF Is
  <2> QED
    BY <2>2, <2>3, <2>4
<1>3. CASE o.op = "mask"
  <2>1. /\ M = [N EXCEPT ![o.b][o.s].flag = "MASK"]
        /\ o.b \in BlockIds /\ o.s \in 1 .. Slots
    BY <1>3, OpFields DEF NamesAfter
  <2> DEFINE x == [N[o.b][o.s] EXCEPT !.flag = "MASK"]
  <2>2. N[o.b][o.s] \in EntrySet
    BY <2>1 DEF NameSectors
  <2>3. /\ x \in EntrySet /\ x.flag = "MASK" /\ x.name = N[o.b][o.s].name
        /\ x.off = N[o.b][o.s].off /\ x.len = N[o.b][o.s].len
    BY <2>2 DEF EntrySet, Flag
  <2>4. M = PutAt(N, o.b, o.s, x)
    BY <2>1 DEF PutAt
  <2> HIDE DEF x
  <2>41. o.b \in BlockIds /\ o.s \in 1 .. Slots /\ x \in EntrySet
    BY <2>1, <2>3
  <2>5. /\ M \in NameSectors /\ M[o.b][o.s] = x
        /\ \A b \in BlockIds : \A t \in 1 .. Slots :
               ~(b = o.b /\ t = o.s) => M[b][t] = N[b][t]
    BY <2>4, <2>41, PutSlot, SMTT(30)
  <2>6. \A b \in BlockIds : ~Is(o, "eraseNames", b) /\ ~Is(o, "entry", b)
    BY <1>3 DEF Is
  <2>7. \A b \in BlockIds : Is(o, "mask", b) <=> b = o.b
    BY <1>3 DEF Is
  <2> QED
    BY <2>3, <2>5, <2>6, <2>7
<1>4. CASE o.op \notin {"eraseNames", "entry", "mask"}
  BY <1>4 DEF NamesAfter, Is
<1> QED
  BY <1>1, <1>2, <1>3, <1>4

\* The numbers of an entry.
LEMMA EntryNumbers ==
    ASSUME NEW e \in EntrySet
    PROVE  e.off \in Nat /\ e.len \in Nat /\ End(e) \in Nat /\ e.flag \in Flag
  BY DEF EntrySet, End

\* The first operation leaves good sectors, and the rest of the plan can be
\* done on them.
LEMMA NamesStep ==
    ASSUME NEW p \in Seq(Op), p # <<>>, NEW N \in NameSectors,
           EntryPlan(p, N), MaskPlan(p, N), \A b \in BlockIds : GoodNames(N[b]),
           NEW M, M = NamesAfter(p[1], N)
    PROVE  /\ M \in NameSectors
           /\ \A b \in BlockIds : GoodNames(M[b])
           /\ EntryPlan(Tail(p), M) /\ MaskPlan(Tail(p), M)
<1> DEFINE o == p[1]
           q == Tail(p)
<1>1. /\ Len(p) \in Nat \ {0} /\ DOMAIN p = 1 .. Len(p) /\ 1 \in DOMAIN p
      /\ o \in Op /\ q \in Seq(Op) /\ DOMAIN q = 1 .. (Len(p) - 1)
      /\ \A i \in DOMAIN q : i + 1 \in DOMAIN p /\ q[i] = p[i + 1]
  BY TailPlan
<1> HIDE DEF o, q
<1>2. /\ M \in NameSectors
      /\ \A b \in BlockIds : \A t \in 1 .. Slots :
             /\ Is(o, "eraseNames", b) => M[b] = EmptyNames /\ M[b][t] = NoEntry
             /\ Is(o, "entry", b) /\ o.s = t => M[b][t] = o.e
             /\ Is(o, "mask", b) /\ o.s = t =>
                    /\ M[b][t].flag = "MASK"
                    /\ M[b][t].name = N[b][t].name
                    /\ M[b][t].off = N[b][t].off
                    /\ M[b][t].len = N[b][t].len
             /\ /\ ~Is(o, "eraseNames", b)
                /\ ~(Is(o, "entry", b) /\ o.s = t)
                /\ ~(Is(o, "mask", b) /\ o.s = t)
                => M[b][t] = N[b][t]
  BY <1>1, SlotsAfter DEF o
<1>3. NoEntry.flag = "ERASED"
  BY DEF NoEntry
<1>4. \A b \in BlockIds : \A t \in 1 .. Slots :
         N[b][t] \in EntrySet /\ M[b][t] \in EntrySet
  BY <1>2 DEF NameSectors
<1>5. \A b \in BlockIds : \A t \in 1 .. Slots :
         Is(o, "mask", b) /\ o.s = t => End(M[b][t]) = End(N[b][t])
  BY <1>2 DEF End
<1>6. o.op = "entry" =>
         /\ o.b \in BlockIds /\ o.s \in 1 .. Slots /\ o.e \in EntrySet
         /\ o.e.flag = "USING" /\ o.e.name \in Names /\ End(o.e) < Cells
         /\ EntryFree(p, 1, N) /\ EntryNext(p, 1, N) /\ EntryLater(p, 1)
  BY <1>1, OpFields DEF EntryPlan, o
<1>61. o.op = "mask" => N[o.b][o.s].flag # "ERASED"
  BY <1>1 DEF MaskPlan, o
<1>7. ASSUME NEW b \in BlockIds
      PROVE  GoodNames(M[b])
  <2>1. CASE Is(o, "eraseNames", b)
    <3>1. 1 \in 1 .. Slots
      BY StoreAssumption
    <3> QED
      BY <1>2, <2>1, <3>1, EmptyNamesGood
  <2>2. CASE Is(o, "entry", b)
    <3>1. /\ b = o.b /\ o.s \in 1 .. Slots /\ o.e \in EntrySet
          /\ o.e.flag = "USING" /\ o.e.name \in Names /\ End(o.e) < Cells
      BY <1>6, <2>2 DEF Is
    <3>2. ~Before(p, 1, "eraseNames", b)
      BY DEF Before
    <3>3. \A t \in 1 .. Slots : N[b][t].flag # "ERASED" =>
               /\ t < o.s
               /\ End(N[b][t]) <= o.e.off
               /\ ~(N[b][t].flag = "USING" /\ N[b][t].name = o.e.name)
      BY <1>6, <2>2, <3>1, <3>2 DEF EntryFree, Is, o
    <3>4. \A t \in 1 .. Slots : t < o.s => N[b][t].flag # "ERASED"
      <4>1. \A t \in 1 .. (o.s - 1) : N[b][t].flag # "ERASED"
        BY <1>6, <2>2, <3>1 DEF EntryNext, Is, o
      <4>2. \A t \in 1 .. Slots : t < o.s => t \in 1 .. (o.s - 1)
        BY <3>1, StoreAssumption
      <4> QED
        BY <4>1, <4>2
    <3>5. M[b][o.s] = o.e /\ \A t \in 1 .. Slots : t # o.s => M[b][t] = N[b][t]
      BY <1>2, <2>2, <3>1 DEF Is
    <3>6. GoodNames(N[b])
      OBVIOUS
    <3>7. \A s \in 1 .. Slots : /\ End(M[b][s]) < Cells
                                /\ M[b][s].flag = "ERASED" => M[b][s] = NoEntry
                                /\ M[b][s].flag = "USING" => M[b][s].name \in Names
      BY <3>1, <3>5, <3>6 DEF GoodNames
    <3>8. \A s, t \in 1 .. Slots :
             s < t /\ M[b][s].flag = "ERASED" => M[b][t].flag = "ERASED"
      BY <3>1, <3>4, <3>5, <3>6 DEF GoodNames
    <3>9. \A s, t \in 1 .. Slots :
             s < t /\ M[b][s].flag # "ERASED" /\ M[b][t].flag # "ERASED"
             => End(M[b][s]) <= M[b][t].off
      BY <3>1, <3>3, <3>5, <3>6 DEF GoodNames
    <3>10. \A s, t \in 1 .. Slots :
              M[b][s].flag = "USING" /\ M[b][t].flag = "USING"
                  /\ M[b][s].name = M[b][t].name => s = t
      BY <3>1, <3>3, <3>5, <3>6, SMTT(30) DEF GoodNames
    <3> QED
      BY <3>7, <3>8, <3>9, <3>10 DEF GoodNames
  <2>3. CASE Is(o, "mask", b)
    <3>1. \A t \in 1 .. Slots :
             /\ M[b][t].off = N[b][t].off /\ End(M[b][t]) = End(N[b][t])
             /\ M[b][t].name = N[b][t].name
             /\ M[b][t].flag = "USING" => N[b][t].flag = "USING"
             /\ M[b][t].flag = "ERASED" => M[b][t] = N[b][t]
             /\ M[b][t].flag # "ERASED" => N[b][t].flag # "ERASED"
             /\ t # o.s => M[b][t] = N[b][t]
      BY <1>2, <1>5, <1>61, <2>3 DEF Is
    <3>2. GoodNames(N[b])
      OBVIOUS
    <3>3. \A s \in 1 .. Slots : /\ End(M[b][s]) < Cells
                                /\ M[b][s].flag = "ERASED" => M[b][s] = NoEntry
                                /\ M[b][s].flag = "USING" => M[b][s].name \in Names
      BY <3>1, <3>2 DEF GoodNames
    <3> QED
      BY <3>1, <3>2, <3>3 DEF GoodNames
  <2>4. CASE ~Is(o, "eraseNames", b) /\ ~Is(o, "entry", b) /\ ~Is(o, "mask", b)
    <3>1. \A t \in 1 .. Slots : M[b][t] = N[b][t]
      BY <1>2, <2>4
    <3> QED
      BY <3>1 DEF GoodNames
  <2> QED
    BY <2>1, <2>2, <2>3, <2>4
<1>8. EntryPlan(q, M)
  <2> SUFFICES ASSUME NEW i \in DOMAIN q, q[i].op = "entry"
               PROVE  /\ q[i].e.flag = "USING" /\ q[i].e.name \in Names
                      /\ End(q[i].e) < Cells
                      /\ EntryFree(q, i, M) /\ EntryNext(q, i, M) /\ EntryLater(q, i)
    BY DEF EntryPlan
  <2> DEFINE b == q[i].b
             e == q[i].e
  <2>1. /\ i + 1 \in DOMAIN p /\ p[i + 1] = q[i] /\ q[i] \in Op
        /\ i \in Nat /\ i + 1 > 1
    BY <1>1
  <2>2. /\ b \in BlockIds /\ q[i].s \in 1 .. Slots /\ e \in EntrySet
        /\ e.flag = "USING" /\ e.name \in Names /\ End(e) < Cells
        /\ EntryFree(p, i + 1, N) /\ EntryNext(p, i + 1, N) /\ EntryLater(p, i + 1)
    BY <2>1, OpFields DEF EntryPlan
  <2>3. Before(p, i + 1, "eraseNames", b) <=>
            Is(o, "eraseNames", b) \/ Before(q, i, "eraseNames", b)
    BY BeforeTail DEF o, q
  <2>4. EntryFree(q, i, M)
    <3>1. CASE Before(q, i, "eraseNames", b)
      BY <3>1, SMTT(30) DEF EntryFree
    <3>2. CASE Is(o, "eraseNames", b)
      BY <1>2, <1>3, <2>2, <3>2 DEF EntryFree
    <3>3. CASE ~Before(p, i + 1, "eraseNames", b)
      <4> SUFFICES ASSUME NEW t \in 1 .. Slots, M[b][t].flag # "ERASED"
                   PROVE  /\ t < q[i].s
                          /\ End(M[b][t]) <= e.off
                          /\ M[b][t].flag = "USING" /\ M[b][t].name = e.name =>
                                 \E j \in 1 .. (i - 1) : Is(q[j], "mask", b) /\ q[j].s = t
        BY DEF EntryFree
      <4>1. N[b][t].flag # "ERASED" =>
               /\ t < q[i].s
               /\ End(N[b][t]) <= e.off
               /\ N[b][t].flag = "USING" /\ N[b][t].name = e.name =>
                      \E j \in 1 .. ((i + 1) - 1) : Is(p[j], "mask", b) /\ p[j].s = t
        BY <2>1, <2>2, <3>3 DEF EntryFree
      <4>2. CASE Is(o, "entry", b) /\ o.s = t
        <5>1. M[b][t] = o.e
          BY <1>2, <2>2, <4>2
        <5>2. o.s < q[i].s /\ o.e.name # e.name /\ End(o.e) <= e.off
          <6>1. Is(q[i], "entry", b) /\ o.b = b /\ EntryLater(p, 1)
            BY <1>6, <4>2 DEF Is
          <6> QED
            BY <2>1, <6>1 DEF EntryLater, o
        <5> QED
          BY <4>2, <5>1, <5>2
      <4>3. CASE Is(o, "mask", b) /\ o.s = t
        <5>1. M[b][t].flag = "MASK" /\ End(M[b][t]) = End(N[b][t])
          BY <1>2, <1>5, <2>2, <4>3
        <5>2. N[b][t].flag # "ERASED"
          BY <1>61, <4>3 DEF Is
        <5> QED
          BY <4>1, <5>1, <5>2
      <4>4. CASE ~(Is(o, "entry", b) /\ o.s = t) /\ ~(Is(o, "mask", b) /\ o.s = t)
        <5>1. M[b][t] = N[b][t]
          BY <1>2, <2>2, <2>3, <3>3, <4>4
        <5>2. ASSUME NEW j \in 1 .. ((i + 1) - 1), Is(p[j], "mask", b), p[j].s = t
              PROVE  j - 1 \in 1 .. (i - 1) /\ Is(q[j - 1], "mask", b) /\ q[j - 1].s = t
          <6>1. j # 1
            BY <4>4, <5>2 DEF o
          <6>2. j - 1 \in 1 .. (i - 1) /\ j - 1 \in DOMAIN q /\ (j - 1) + 1 = j
            BY <1>1, <6>1
          <6>3. q[j - 1] = p[j]
            BY <1>1, <6>2
          <6> QED
            BY <5>2, <6>2, <6>3
        <5> QED
          BY <4>1, <5>1, <5>2
      <4> QED
        BY <4>2, <4>3, <4>4
    <3> QED
      BY <2>3, <3>1, <3>2, <3>3
  <2>5. EntryNext(q, i, M)
    <3> SUFFICES ASSUME NEW t \in 1 .. (q[i].s - 1)
                 PROVE  \/ \E j \in 1 .. (i - 1) : Is(q[j], "entry", b) /\ q[j].s = t
                        \/ M[b][t].flag # "ERASED" /\ ~Before(q, i, "eraseNames", b)
      BY DEF EntryNext
    <3>0. t \in 1 .. Slots
      BY <2>2, StoreAssumption
    <3>1. \/ \E j \in 1 .. ((i + 1) - 1) : Is(p[j], "entry", b) /\ p[j].s = t
          \/ N[b][t].flag # "ERASED" /\ ~Before(p, i + 1, "eraseNames", b)
      BY <2>1, <2>2 DEF EntryNext
    <3>2. CASE N[b][t].flag # "ERASED" /\ ~Before(p, i + 1, "eraseNames", b)
      <4>1. ~Is(o, "eraseNames", b) /\ ~Before(q, i, "eraseNames", b)
        BY <2>3, <3>2
      <4>2. M[b][t].flag # "ERASED"
        BY <1>2, <1>6, <2>2, <3>0, <3>2, <4>1 DEF Is
      <4> QED
        BY <4>1, <4>2
    <3>3. ASSUME NEW j \in 1 .. ((i + 1) - 1), Is(p[j], "entry", b), p[j].s = t
          PROVE  \/ \E k \in 1 .. (i - 1) : Is(q[k], "entry", b) /\ q[k].s = t
                 \/ M[b][t].flag # "ERASED" /\ ~Before(q, i, "eraseNames", b)
      <4>1. CASE j = 1
        <5>1. Is(o, "entry", b) /\ o.s = t
          BY <3>3, <4>1 DEF o
        <5>2. M[b][t] = o.e /\ o.e.flag = "USING" /\ EntryLater(p, 1) /\ o.b = b
          BY <1>2, <1>6, <2>2, <3>0, <5>1 DEF Is
        <5>3. ~Before(q, i, "eraseNames", b)
          <6> SUFFICES ASSUME NEW k \in 1 .. (i - 1), Is(q[k], "eraseNames", b)
                       PROVE  FALSE
            BY DEF Before
          <6>1. k \in DOMAIN q /\ 1 < k + 1
            BY <1>1, <2>1
          <6>2. k + 1 \in DOMAIN p /\ q[k] = p[k + 1]
            BY <1>1, <6>1
          <6> QED
            BY <5>2, <6>1, <6>2 DEF EntryLater, o
        <5> QED
          BY <5>2, <5>3
      <4>2. CASE j # 1
        <5>1. j - 1 \in 1 .. (i - 1) /\ j - 1 \in DOMAIN q /\ (j - 1) + 1 = j
          BY <1>1, <4>2
        <5>2. q[j - 1] = p[j]
          BY <1>1, <5>1
        <5> QED
          BY <3>3, <5>1, <5>2
      <4> QED
        BY <4>1, <4>2
    <3> QED
      BY <3>1, <3>2, <3>3
  <2>6. EntryLater(q, i)
    BY <2>2, EntryLaterTail DEF q
  <2> QED
    BY <2>2, <2>4, <2>5, <2>6
<1>9. MaskPlan(q, M)
  <2> SUFFICES ASSUME NEW i \in DOMAIN q, q[i].op = "mask"
               PROVE  /\ M[q[i].b][q[i].s].flag # "ERASED"
                      /\ ~Before(q, i, "eraseNames", q[i].b)
    BY DEF MaskPlan
  <2>1. i + 1 \in DOMAIN p /\ p[i + 1] = q[i] /\ q[i] \in Op
    BY <1>1
  <2>2. /\ q[i].b \in BlockIds /\ q[i].s \in 1 .. Slots
        /\ N[q[i].b][q[i].s].flag # "ERASED"
        /\ ~Before(p, i + 1, "eraseNames", q[i].b)
    BY <2>1, OpFields DEF MaskPlan
  <2>3. ~Is(o, "eraseNames", q[i].b) /\ ~Before(q, i, "eraseNames", q[i].b)
    BY <2>2, BeforeTail DEF o, q
  <2> QED
    BY <1>2, <1>6, <2>2, <2>3 DEF Is
<1> QED
  BY <1>2, <1>7, <1>8, <1>9 DEF q

-----------------------------------------------------------------------------
(* The root sector.                                                        *)

RootSectors == [BlockIds -> Spaces \cup {None}]

OneBlock(R) == \A b, c \in BlockIds : R[b] # None /\ R[b] = R[c] => b = c

\* The root sector after operation o.
RootAfter(o, R) ==
    CASE o.op = "eraseRoot" -> [b \in BlockIds |-> None]
      [] o.op = "root" -> [R EXCEPT ![o.b] = o.ns]
      [] OTHER -> R

\* The first operation gives no namespace a second block, and neither will the
\* rest of the plan.
LEMMA RootStep ==
    ASSUME NEW p \in Seq(Op), p # <<>>, NEW R \in RootSectors,
           RootPlan(p, R), OneBlock(R), NEW X, X = RootAfter(p[1], R)
    PROVE  X \in RootSectors /\ OneBlock(X) /\ RootPlan(Tail(p), X)
<1> DEFINE o == p[1]
           q == Tail(p)
<1>1. /\ Len(p) \in Nat \ {0} /\ DOMAIN p = 1 .. Len(p) /\ 1 \in DOMAIN p
      /\ o \in Op /\ q \in Seq(Op) /\ DOMAIN q = 1 .. (Len(p) - 1)
      /\ \A i \in DOMAIN q : i + 1 \in DOMAIN p /\ q[i] = p[i + 1]
  BY TailPlan
<1>2. \A i \in DOMAIN q : q[i] \in Op /\ (q[i].op = "root" => q[i].b \in BlockIds
                                                          /\ q[i].ns \in Spaces)
  BY <1>1, OpFields
<1>3. None \notin Spaces
  BY StoreAssumption
<1> HIDE DEF o, q
<1>4. CASE o.op = "eraseRoot"
  <2>1. X = [b \in BlockIds |-> None]
    BY <1>4 DEF RootAfter, o
  <2>2. \A i, j \in DOMAIN q : i < j => i + 1 < j + 1
    BY <1>1
  <2>3. RootPlan(q, X)
    BY <1>1, <1>2, <1>3, <2>1, <2>2 DEF RootPlan
  <2> QED
    BY <2>1, <2>3 DEF RootSectors, OneBlock, q
<1>5. CASE o.op = "root"
  <2>1. X = [R EXCEPT ![o.b] = o.ns] /\ o.b \in BlockIds /\ o.ns \in Spaces
    BY <1>1, <1>5, OpFields DEF RootAfter, o
  <2>2. /\ X \in RootSectors /\ X[o.b] = o.ns
        /\ \A c \in BlockIds : c # o.b => X[c] = R[c]
    BY <2>1 DEF RootSectors
  <2>3. \A c \in BlockIds : R[c] # o.ns
    BY <1>1, <1>5 DEF RootPlan, o
  <2>4. OneBlock(X)
    BY <2>2, <2>3 DEF OneBlock
  <2>5. RootPlan(q, X)
    <3> SUFFICES ASSUME NEW i \in DOMAIN q, q[i].op = "root"
                 PROVE  /\ \/ \E j \in 1 .. (i - 1) : q[j].op = "eraseRoot"
                           \/ X[q[i].b] = None /\ \A c \in BlockIds : X[c] # q[i].ns
                        /\ \A j \in DOMAIN q : i < j /\ q[j].op = "root" =>
                               q[i].b # q[j].b /\ q[i].ns # q[j].ns
      BY DEF RootPlan
    <3>1. /\ i \in Nat /\ i + 1 \in DOMAIN p /\ q[i] = p[i + 1] /\ 1 < i + 1
          /\ \A j \in DOMAIN q : i < j => i + 1 < j + 1
      BY <1>1
    <3>2. /\ \/ \E j \in 1 .. ((i + 1) - 1) : p[j].op = "eraseRoot"
             \/ R[q[i].b] = None /\ \A c \in BlockIds : R[c] # q[i].ns
          /\ \A j \in DOMAIN p : i + 1 < j /\ p[j].op = "root" =>
                 q[i].b # p[j].b /\ q[i].ns # p[j].ns
          /\ o.b # q[i].b /\ o.ns # q[i].ns
      BY <1>1, <1>5, <3>1 DEF RootPlan, o
    <3>3. \A j \in DOMAIN q : i < j /\ q[j].op = "root" =>
              q[i].b # q[j].b /\ q[i].ns # q[j].ns
      BY <1>1, <3>1, <3>2
    <3>4. ASSUME NEW j \in 1 .. ((i + 1) - 1), p[j].op = "eraseRoot"
          PROVE  j - 1 \in 1 .. (i - 1) /\ q[j - 1].op = "eraseRoot"
      <4>1. j # 1
        BY <1>5, <3>4 DEF o
      <4>2. j - 1 \in 1 .. (i - 1) /\ j - 1 \in DOMAIN q /\ (j - 1) + 1 = j
        BY <1>1, <3>1, <4>1
      <4> QED
        BY <1>1, <3>4, <4>2
    <3>5. CASE R[q[i].b] = None /\ \A c \in BlockIds : R[c] # q[i].ns
      BY <1>2, <2>2, <3>2, <3>3, <3>5
    <3> QED
      BY <3>2, <3>3, <3>4, <3>5
  <2> QED
    BY <2>2, <2>4, <2>5 DEF q
<1>6. CASE o.op \notin {"eraseRoot", "root"}
  <2>1. X = R
    BY <1>6 DEF RootAfter, o
  <2>2. RootPlan(q, R)
    <3> SUFFICES ASSUME NEW i \in DOMAIN q, q[i].op = "root"
                 PROVE  /\ \/ \E j \in 1 .. (i - 1) : q[j].op = "eraseRoot"
                           \/ R[q[i].b] = None /\ \A c \in BlockIds : R[c] # q[i].ns
                        /\ \A j \in DOMAIN q : i < j /\ q[j].op = "root" =>
                               q[i].b # q[j].b /\ q[i].ns # q[j].ns
      BY DEF RootPlan
    <3>1. /\ i \in Nat /\ i + 1 \in DOMAIN p /\ q[i] = p[i + 1]
          /\ \A j \in DOMAIN q : i < j => i + 1 < j + 1
      BY <1>1
    <3>2. /\ \/ \E j \in 1 .. ((i + 1) - 1) : p[j].op = "eraseRoot"
             \/ R[q[i].b] = None /\ \A c \in BlockIds : R[c] # q[i].ns
          /\ \A j \in DOMAIN p : i + 1 < j /\ p[j].op = "root" =>
                 q[i].b # p[j].b /\ q[i].ns # p[j].ns
      BY <3>1 DEF RootPlan
    <3>3. \A j \in DOMAIN q : i < j /\ q[j].op = "root" =>
              q[i].b # q[j].b /\ q[i].ns # q[j].ns
      BY <1>1, <3>1, <3>2
    <3>4. ASSUME NEW j \in 1 .. ((i + 1) - 1), p[j].op = "eraseRoot"
          PROVE  j - 1 \in 1 .. (i - 1) /\ q[j - 1].op = "eraseRoot"
      <4>1. j # 1
        BY <1>6, <3>4 DEF o
      <4>2. j - 1 \in 1 .. (i - 1) /\ j - 1 \in DOMAIN q /\ (j - 1) + 1 = j
        BY <1>1, <3>1, <4>1
      <4> QED
        BY <1>1, <3>4, <4>2
    <3> QED
      BY <3>2, <3>3, <3>4
  <2> QED
    BY <2>1, <2>2 DEF q
<1> QED
  BY <1>4, <1>5, <1>6

-----------------------------------------------------------------------------
(* Data sectors.                                                           *)

DataSectors == [BlockIds -> [1 .. Cells -> Cell]]

\* The data sectors after operation o.
DataAfter(o, D) ==
    CASE o.op = "eraseData" -> [D EXCEPT ![o.b] = EmptyData]
      [] o.op = "data" ->
           [D EXCEPT ![o.b] =
               [c \in 1 .. Cells |->
                   IF c - o.off \in DOMAIN o.bytes
                   THEN Program(@[c], o.bytes[c - o.off]) ELSE @[c]]]
      [] OTHER -> D

\* Cell by cell.
LEMMA CellsAfter ==
    ASSUME NEW D \in DataSectors, NEW o \in Op, NEW X, X = DataAfter(o, D)
    PROVE  /\ X \in DataSectors
           /\ \A b \in BlockIds : \A c \in 1 .. Cells :
                  /\ Is(o, "eraseData", b) => X[b][c] = Erased
                  /\ /\ ~Is(o, "eraseData", b)
                     /\ ~(/\ Is(o, "data", b)
                          /\ o.off < c /\ c <= o.off + Len(o.bytes))
                     => X[b][c] = D[b][c]
<1>1. Erased \in Cell /\ <<Garbage, 0>> \in Cell
  BY DEF Cell
<1>2. CASE o.op = "eraseData"
  <2>1. X = [D EXCEPT ![o.b] = EmptyData] /\ o.b \in BlockIds
    BY <1>2, OpFields DEF DataAfter
  <2>2. EmptyData \in [1 .. Cells -> Cell] /\ \A c \in 1 .. Cells : EmptyData[c] = Erased
    BY <1>1 DEF EmptyData
  <2> QED
    BY <1>2, <2>1, <2>2 DEF Is, DataSectors
<1>3. CASE o.op = "data"
  <2> DEFINE F == [c \in 1 .. Cells |->
                     IF c - o.off \in DOMAIN o.bytes
                     THEN Program(D[o.b][c], o.bytes[c - o.off]) ELSE D[o.b][c]]
  <2>1. X = [D EXCEPT ![o.b] = F]
    BY <1>3 DEF DataAfter
  <2>2. o.b \in BlockIds /\ o.off \in Nat /\ o.bytes \in Seq(Cell)
    BY <1>3, OpFields
  <2>3. \A x, y \in Cell : Program(x, y) \in Cell
    BY <1>1 DEF Program
  <2>4. D[o.b] \in [1 .. Cells -> Cell]
    BY <2>2 DEF DataSectors
  <2>5. DOMAIN o.bytes = 1 .. Len(o.bytes) /\ Len(o.bytes) \in Nat
        /\ \A c \in DOMAIN o.bytes : o.bytes[c] \in Cell
    BY <2>2
  <2>6. F \in [1 .. Cells -> Cell]
    BY <2>3, <2>4, <2>5
  <2>7. \A c \in 1 .. Cells :
           ~(o.off < c /\ c <= o.off + Len(o.bytes)) => F[c] = D[o.b][c]
    <3>1. \A c \in 1 .. Cells : c - o.off \in 1 .. Len(o.bytes) =>
             o.off < c /\ c <= o.off + Len(o.bytes)
      BY <2>2, <2>5, StoreAssumption
    <3> QED
      BY <2>5, <3>1
  <2> HIDE DEF F
  <2>8. X \in DataSectors /\ X[o.b] = F /\ \A b \in BlockIds : b # o.b => X[b] = D[b]
    BY <2>1, <2>2, <2>6 DEF DataSectors
  <2>9. \A b \in BlockIds : ~Is(o, "eraseData", b) /\ (Is(o, "data", b) <=> b = o.b)
    BY <1>3 DEF Is
  <2> QED
    BY <2>7, <2>8, <2>9
<1>4. CASE o.op \notin {"eraseData", "data"}
  BY <1>4 DEF DataAfter, Is
<1> QED
  BY <1>2, <1>3, <1>4

\* As long as no call was interrupted: the rest of the plan programs erased
\* cells, and no cell in use is forgotten.
LEMMA DataStep ==
    ASSUME NEW p \in Seq(Op), p # <<>>, NEW N \in NameSectors, NEW D \in DataSectors,
           EntryPlan(p, N), DataPlan(p, D), Covered(p, N, D),
           NEW M, M = NamesAfter(p[1], N), NEW X, X = DataAfter(p[1], D)
    PROVE  DataPlan(Tail(p), X) /\ Covered(Tail(p), M, X)
<1> DEFINE o == p[1]
           q == Tail(p)
           end(i) == p[i].off + Len(p[i].bytes)
<1>1. /\ Len(p) \in Nat \ {0} /\ DOMAIN p = 1 .. Len(p) /\ 1 \in DOMAIN p
      /\ o \in Op /\ q \in Seq(Op) /\ DOMAIN q = 1 .. (Len(p) - 1)
      /\ \A i \in DOMAIN q : i + 1 \in DOMAIN p /\ q[i] = p[i + 1]
  BY TailPlan
<1> HIDE DEF o, q
<1>2. \A i \in DOMAIN p : 1 < i => i - 1 \in DOMAIN q /\ q[i - 1] = p[i]
  <2>1. \A i \in DOMAIN p : 1 < i => i - 1 \in DOMAIN q /\ (i - 1) + 1 = i
    BY <1>1
  <2> QED
    BY <1>1, <2>1
<1>3. \A b \in BlockIds : \A c \in 1 .. Cells :
         /\ Is(o, "eraseData", b) => X[b][c] = Erased
         /\ /\ ~Is(o, "eraseData", b)
            /\ ~(Is(o, "data", b) /\ o.off < c /\ c <= o.off + Len(o.bytes))
            => X[b][c] = D[b][c]
  BY <1>1, CellsAfter DEF o
<1>4. /\ M \in NameSectors
      /\ \A b \in BlockIds : \A t \in 1 .. Slots :
             /\ Is(o, "entry", b) /\ o.s = t => M[b][t] = o.e
             /\ Is(o, "mask", b) /\ o.s = t =>
                    /\ M[b][t].flag = "MASK"
                    /\ M[b][t].off = N[b][t].off
                    /\ M[b][t].len = N[b][t].len
             /\ /\ ~Is(o, "eraseNames", b)
                /\ ~(Is(o, "entry", b) /\ o.s = t)
                /\ ~(Is(o, "mask", b) /\ o.s = t)
                => M[b][t] = N[b][t]
  BY <1>1, SlotsAfter DEF o
<1>5. \A i \in DOMAIN p : p[i].op = "data" =>
         LET b == p[i].b
         IN  /\ end(i) < Cells
             /\ \/ Before(p, i, "eraseData", b)
                \/ \A c \in 1 .. Cells : p[i].off < c /\ c <= end(i) => D[b][c] = Erased
             /\ \A j \in DOMAIN p : i < j /\ Is(p[j], "data", b) => end(i) <= p[j].off
             /\ \E j \in DOMAIN p : i < j /\ Is(p[j], "entry", b) /\ end(i) <= End(p[j].e)
  BY DEF DataPlan
<1>6. \A i \in DOMAIN p : p[i].op = "eraseNames" =>
         \E j \in DOMAIN p : i < j /\ Is(p[j], "eraseData", p[i].b)
  BY DEF DataPlan
<1>7. DataPlan(q, X)
  <2>1. ASSUME NEW i \in DOMAIN q, q[i].op = "data"
        PROVE  LET b == q[i].b
                   last == q[i].off + Len(q[i].bytes)
               IN  /\ last < Cells
                   /\ \/ Before(q, i, "eraseData", b)
                      \/ \A c \in 1 .. Cells : q[i].off < c /\ c <= last => X[b][c] = Erased
                   /\ \A j \in DOMAIN q : i < j /\ Is(q[j], "data", b) => last <= q[j].off
                   /\ \E j \in DOMAIN q : i < j /\ Is(q[j], "entry", b) /\ last <= End(q[j].e)
    <3> DEFINE b == q[i].b
               last == q[i].off + Len(q[i].bytes)
    <3>1. /\ i + 1 \in DOMAIN p /\ p[i + 1] = q[i] /\ q[i] \in Op /\ end(i + 1) = last
          /\ i \in Nat /\ 1 < i + 1
          /\ \A j \in DOMAIN q : i < j => i + 1 < j + 1
          /\ \A j \in DOMAIN p : i + 1 < j => i < j - 1 /\ 1 < j
      BY <1>1
    <3>2. b \in BlockIds /\ q[i].off \in Nat /\ q[i].bytes \in Seq(Cell)
      BY <2>1, <3>1, OpFields
    <3>3. /\ last < Cells
          /\ \/ Before(p, i + 1, "eraseData", b)
             \/ \A c \in 1 .. Cells : q[i].off < c /\ c <= last => D[b][c] = Erased
          /\ \A j \in DOMAIN p : i + 1 < j /\ Is(p[j], "data", b) => last <= p[j].off
          /\ \E j \in DOMAIN p : i + 1 < j /\ Is(p[j], "entry", b) /\ last <= End(p[j].e)
      BY <1>5, <2>1, <3>1
    <3> HIDE DEF last
    <3>4. \A j \in DOMAIN q : i < j /\ Is(q[j], "data", b) => last <= q[j].off
      BY <1>1, <3>1, <3>3
    <3>5. \E j \in DOMAIN q : i < j /\ Is(q[j], "entry", b) /\ last <= End(q[j].e)
      BY <1>2, <3>1, <3>3
    <3>6. Before(p, i + 1, "eraseData", b) <=>
              Is(o, "eraseData", b) \/ Before(q, i, "eraseData", b)
      BY BeforeTail DEF o, q
    <3>7. ASSUME ~Before(q, i, "eraseData", b),
                 NEW c \in 1 .. Cells, q[i].off < c, c <= last
          PROVE  X[b][c] = Erased
      <4>1. CASE Is(o, "eraseData", b)
        BY <1>3, <3>2, <4>1
      <4>2. CASE ~Is(o, "eraseData", b)
        <5>1. D[b][c] = Erased
          BY <3>3, <3>6, <3>7, <4>2
        <5>2. ~(Is(o, "data", b) /\ o.off < c /\ c <= o.off + Len(o.bytes))
          <6> SUFFICES ASSUME Is(o, "data", b), c <= o.off + Len(o.bytes) PROVE FALSE
            OBVIOUS
          <6>1. o.op = "data" /\ o.b = b /\ Is(q[i], "data", b)
            BY <2>1 DEF Is
          <6>2. end(1) <= q[i].off
            BY <1>1, <1>5, <3>1, <6>1 DEF o
          <6>3. o.off \in Nat /\ o.bytes \in Seq(Cell)
            BY <1>1, <6>1, OpFields
          <6>4. end(1) = o.off + Len(o.bytes) /\ end(1) \in Nat
            BY <6>3 DEF o
          <6> QED
            BY <3>2, <3>7, <6>2, <6>4
        <5> QED
          BY <1>3, <3>2, <4>2, <5>1, <5>2
      <4> QED
        BY <4>1, <4>2
    <3> QED
      BY <3>3, <3>4, <3>5, <3>7 DEF last
  <2>2. ASSUME NEW i \in DOMAIN q, q[i].op = "eraseNames"
        PROVE  \E j \in DOMAIN q : i < j /\ Is(q[j], "eraseData", q[i].b)
    <3>1. /\ i + 1 \in DOMAIN p /\ p[i + 1] = q[i]
          /\ \A j \in DOMAIN p : i + 1 < j => i < j - 1 /\ 1 < j
      BY <1>1
    <3> QED
      BY <1>2, <1>6, <2>2, <3>1
  <2> QED
    BY <2>1, <2>2 DEF DataPlan
<1>8. ASSUME NEW b \in BlockIds, NEW c \in 1 .. Cells, X[b][c] # Erased
      PROVE  \/ \E t \in 1 .. Slots : M[b][t].flag # "ERASED" /\ c <= End(M[b][t])
             \/ \E i \in DOMAIN q : Is(q[i], "entry", b) /\ c <= End(q[i].e)
             \/ \E i \in DOMAIN q : Is(q[i], "eraseData", b)
  <2>1. ~Is(o, "eraseData", b)
    BY <1>3, <1>8
  <2>2. \A i \in DOMAIN p : i # 1 => 1 < i
    BY <1>1
  <2>3. CASE Is(o, "data", b) /\ o.off < c /\ c <= o.off + Len(o.bytes)
    <3>1. PICK j \in DOMAIN p : 1 < j /\ Is(p[j], "entry", b) /\ end(1) <= End(p[j].e)
      BY <1>1, <1>5, <2>3 DEF Is, o
    <3>2. j - 1 \in DOMAIN q /\ q[j - 1] = p[j]
      BY <1>2, <3>1
    <3>3. o.off \in Nat /\ o.bytes \in Seq(Cell)
      BY <1>1, <2>3, OpFields DEF Is
    <3>4. p[j].e \in EntrySet
      BY <1>1, <3>1, <3>2, OpFields DEF Is
    <3>5. end(1) \in Nat /\ c <= end(1) /\ End(p[j].e) \in Nat
      BY <2>3, <3>3, <3>4, EntryNumbers DEF o
    <3> HIDE DEF end
    <3>6. c <= End(q[j - 1].e)
      BY <3>1, <3>2, <3>5
    <3> QED
      BY <3>1, <3>2, <3>6
  <2>4. CASE ~(Is(o, "data", b) /\ o.off < c /\ c <= o.off + Len(o.bytes))
    <3>1. D[b][c] # Erased
      BY <1>3, <1>8, <2>1, <2>4
    <3>2. CASE \E i \in DOMAIN p : Is(p[i], "eraseData", b)
      <4>1. PICK i \in DOMAIN p : Is(p[i], "eraseData", b)
        BY <3>2
      <4>2. 1 < i
        BY <2>1, <2>2, <4>1 DEF o
      <4> QED
        BY <1>2, <4>1, <4>2
    <3>3. ASSUME NEW i \in DOMAIN p, Is(p[i], "entry", b), c <= End(p[i].e)
          PROVE  \/ \E t \in 1 .. Slots : M[b][t].flag # "ERASED" /\ c <= End(M[b][t])
                 \/ \E j \in DOMAIN q : Is(q[j], "entry", b) /\ c <= End(q[j].e)
      <4>1. CASE i = 1
        <5>1. /\ Is(o, "entry", b) /\ o.s \in 1 .. Slots /\ o.e.flag = "USING"
              /\ c <= End(o.e)
          BY <1>1, <3>3, <4>1, OpFields DEF EntryPlan, Is, o
        <5>2. M[b][o.s] = o.e
          BY <1>4, <5>1
        <5> QED
          BY <5>1, <5>2
      <4>2. CASE i # 1
        BY <1>2, <2>2, <3>3, <4>2
      <4> QED
        BY <4>1, <4>2
    <3>4. ASSUME NEW t \in 1 .. Slots, N[b][t].flag # "ERASED", c <= End(N[b][t])
          PROVE  \/ \E u \in 1 .. Slots : M[b][u].flag # "ERASED" /\ c <= End(M[b][u])
                 \/ \E i \in DOMAIN q : Is(q[i], "eraseData", b)
      <4>1. CASE Is(o, "eraseNames", b)
        <5>1. PICK j \in DOMAIN p : 1 < j /\ Is(p[j], "eraseData", b)
          BY <1>1, <1>6, <4>1 DEF Is, o
        <5> QED
          BY <1>2, <5>1
      <4>2. CASE Is(o, "entry", b) /\ o.s = t
        <5>1. EntryFree(p, 1, N) /\ ~Before(p, 1, "eraseNames", b) /\ o.b = b
          BY <1>1, <4>2 DEF EntryPlan, Before, Is, o
        <5>2. t < o.s
          BY <3>4, <5>1 DEF EntryFree, o
        <5> QED
          BY <4>2, <5>2, StoreAssumption
      <4>3. CASE Is(o, "mask", b) /\ o.s = t
        <5>1. M[b][t].flag # "ERASED" /\ End(M[b][t]) = End(N[b][t])
          BY <1>4, <4>3 DEF End
        <5> QED
          BY <3>4, <5>1
      <4>4. CASE /\ ~Is(o, "eraseNames", b)
                 /\ ~(Is(o, "entry", b) /\ o.s = t)
                 /\ ~(Is(o, "mask", b) /\ o.s = t)
        BY <1>4, <3>4, <4>4
      <4> QED
        BY <4>1, <4>2, <4>3, <4>4
    <3> QED
      BY <3>1, <3>2, <3>3, <3>4 DEF Covered
  <2> QED
    BY <2>3, <2>4
<1> QED
  BY <1>7, <1>8 DEF Covered, q

-----------------------------------------------------------------------------
(* Plans that begin.                                                       *)

\* Plan p can be done on the sectors R, N and D; clean says that no call was
\* interrupted so far.
GoodPlan(p, R, N, D, clean) ==
    /\ p \in Seq(Op)
    /\ EntryPlan(p, N)
    /\ MaskPlan(p, N)
    /\ RootPlan(p, R)
    /\ clean => DataPlan(p, D)

\* Nothing to do is a good plan.
LEMMA EmptyPlan ==
    ASSUME NEW R, NEW N, NEW D, NEW clean
    PROVE  GoodPlan(<<>>, R, N, D, clean)
<1>1. <<>> \in Seq(Op) /\ DOMAIN <<>> = {}
  OBVIOUS
<1> QED
  BY <1>1 DEF GoodPlan, EntryPlan, MaskPlan, RootPlan, DataPlan

\* An operation and a plan behind it.
LEMMA ConsPlan ==
    ASSUME NEW o \in Op, NEW p \in Seq(Op)
    PROVE  LET q == <<o>> \o p
           IN  /\ q \in Seq(Op) /\ q # <<>> /\ q[1] = o /\ Tail(q) = p
               /\ DOMAIN q = 1 .. (Len(p) + 1)
               /\ DOMAIN p = 1 .. Len(p) /\ Len(p) \in Nat
               /\ \A i \in DOMAIN p : i + 1 \in DOMAIN q /\ q[i + 1] = p[i]
               /\ \A i \in DOMAIN q : i # 1 => i - 1 \in DOMAIN p /\ q[i] = p[i - 1]
<1> DEFINE q == <<o>> \o p
<1>1. /\ q \in Seq(Op) /\ q # <<>> /\ q[1] = o /\ DOMAIN q = 1 .. (Len(p) + 1)
      /\ DOMAIN p = 1 .. Len(p) /\ Len(p) \in Nat
      /\ \A i \in 1 .. Len(p) : q[i + 1] = p[i]
  OBVIOUS
<1>2. Tail(q) = p
  OBVIOUS
<1> HIDE DEF q
<1>3. \A i \in DOMAIN q : i # 1 => i - 1 \in DOMAIN p /\ (i - 1) + 1 = i
  BY <1>1
<1>4. \A i \in DOMAIN p : i + 1 \in DOMAIN q
  BY <1>1
<1>5. /\ \A i \in DOMAIN p : i + 1 \in DOMAIN q /\ q[i + 1] = p[i]
      /\ \A i \in DOMAIN q : i # 1 => i - 1 \in DOMAIN p /\ q[i] = p[i - 1]
  BY <1>1, <1>3, <1>4
<1> QED
  BY <1>1, <1>2, <1>5 DEF q

\* Entries that can be programmed after o, which programs none, can be
\* programmed by the plan that begins with o.
LEMMA ConsEntries ==
    ASSUME NEW o \in Op, NEW p \in Seq(Op), NEW N \in NameSectors,
           o.op # "entry", o.op = "mask" => N[o.b][o.s].flag # "ERASED",
           NEW M, M = NamesAfter(o, N), EntryPlan(p, M), MaskPlan(p, M)
    PROVE  EntryPlan(<<o>> \o p, N) /\ MaskPlan(<<o>> \o p, N)
<1> DEFINE q == <<o>> \o p
<1>1. /\ q \in Seq(Op) /\ q # <<>> /\ q[1] = o /\ Tail(q) = p
      /\ DOMAIN q = 1 .. (Len(p) + 1)
      /\ DOMAIN p = 1 .. Len(p) /\ Len(p) \in Nat
      /\ \A i \in DOMAIN p : i + 1 \in DOMAIN q /\ q[i + 1] = p[i]
      /\ \A i \in DOMAIN q : i # 1 => i - 1 \in DOMAIN p /\ q[i] = p[i - 1]
  BY ConsPlan
<1> HIDE DEF q
<1>2. /\ M \in NameSectors
      /\ \A b \in BlockIds : \A t \in 1 .. Slots :
             /\ Is(o, "eraseNames", b) => M[b][t] = NoEntry
             /\ Is(o, "mask", b) /\ o.s = t =>
                    /\ M[b][t].flag = "MASK"
                    /\ M[b][t].name = N[b][t].name
                    /\ M[b][t].off = N[b][t].off
                    /\ M[b][t].len = N[b][t].len
             /\ /\ ~Is(o, "eraseNames", b)
                /\ ~(Is(o, "mask", b) /\ o.s = t)
                => M[b][t] = N[b][t]
  <2>1. /\ M \in NameSectors
        /\ \A b \in BlockIds : \A t \in 1 .. Slots :
               /\ Is(o, "eraseNames", b) => M[b] = EmptyNames /\ M[b][t] = NoEntry
               /\ Is(o, "entry", b) /\ o.s = t => M[b][t] = o.e
               /\ Is(o, "mask", b) /\ o.s = t =>
                      /\ M[b][t].flag = "MASK"
                      /\ M[b][t].name = N[b][t].name
                      /\ M[b][t].off = N[b][t].off
                      /\ M[b][t].len = N[b][t].len
               /\ /\ ~Is(o, "eraseNames", b)
                  /\ ~(Is(o, "entry", b) /\ o.s = t)
                  /\ ~(Is(o, "mask", b) /\ o.s = t)
                  => M[b][t] = N[b][t]
    BY SlotsAfter
  <2>2. \A b : ~Is(o, "entry", b)
    BY DEF Is
  <2> QED
    BY <2>1, <2>2
<1>3. NoEntry.flag = "ERASED"
  BY DEF NoEntry
<1>4. \A i \in DOMAIN p : \A b :
         Before(q, i + 1, "eraseNames", b) <=>
             Is(o, "eraseNames", b) \/ Before(p, i, "eraseNames", b)
  <2> SUFFICES ASSUME NEW i \in DOMAIN p, NEW b
               PROVE  Before(q, i + 1, "eraseNames", b) <=>
                          Is(o, "eraseNames", b) \/ Before(p, i, "eraseNames", b)
    OBVIOUS
  <2>1. i \in DOMAIN Tail(q)
    BY <1>1
  <2> QED
    BY <1>1, <2>1, BeforeTail
<1>5. \A b \in BlockIds : \A t \in 1 .. Slots : ~Is(o, "eraseNames", b) =>
         /\ M[b][t].flag # "ERASED" <=> N[b][t].flag # "ERASED"
         /\ End(M[b][t]) = End(N[b][t]) /\ M[b][t].name = N[b][t].name
         /\ ~(Is(o, "mask", b) /\ o.s = t) => M[b][t].flag = N[b][t].flag
  BY <1>2 DEF Is, End
<1>6. ASSUME NEW i \in DOMAIN q, q[i].op = "entry"
      PROVE  /\ q[i].e.flag = "USING" /\ q[i].e.name \in Names /\ End(q[i].e) < Cells
             /\ EntryFree(q, i, N) /\ EntryNext(q, i, N) /\ EntryLater(q, i)
  <2> DEFINE k == i - 1
             b == p[k].b
             e == p[k].e
  <2>1. k \in DOMAIN p /\ q[i] = p[k] /\ k + 1 = i /\ k \in Nat
    BY <1>1, <1>6
  <2>2. /\ b \in BlockIds /\ p[k].s \in 1 .. Slots /\ e.flag = "USING"
        /\ e.name \in Names /\ End(e) < Cells
        /\ EntryFree(p, k, M) /\ EntryNext(p, k, M) /\ EntryLater(p, k)
    BY <1>1, <1>6, <2>1, OpFields DEF EntryPlan
  <2> HIDE DEF k
  <2>3. \A j \in 1 .. (k - 1) : j + 1 \in 1 .. (i - 1) /\ q[j + 1] = p[j]
    <3>1. \A j \in 1 .. (k - 1) : j \in DOMAIN p /\ j + 1 \in 1 .. (i - 1)
      BY <1>1, <2>1
    <3> QED
      BY <1>1, <3>1
  <2>4. EntryFree(q, i, N)
    <3>1. CASE Before(p, k, "eraseNames", b) \/ Is(o, "eraseNames", b)
      BY <1>4, <2>1, <3>1 DEF EntryFree
    <3>2. CASE ~Before(p, k, "eraseNames", b) /\ ~Is(o, "eraseNames", b)
      <4> SUFFICES ASSUME NEW t \in 1 .. Slots, N[b][t].flag # "ERASED"
                   PROVE  /\ t < p[k].s
                          /\ End(N[b][t]) <= e.off
                          /\ N[b][t].flag = "USING" /\ N[b][t].name = e.name =>
                                 \E j \in 1 .. (i - 1) : Is(q[j], "mask", b) /\ q[j].s = t
        BY <2>1 DEF EntryFree
      <4>1. M[b][t].flag # "ERASED"
        BY <1>5, <2>2, <3>2
      <4>2. /\ t < p[k].s
            /\ End(M[b][t]) <= e.off
            /\ M[b][t].flag = "USING" /\ M[b][t].name = e.name =>
                   \E j \in 1 .. (k - 1) : Is(p[j], "mask", b) /\ p[j].s = t
        BY <2>2, <3>2, <4>1 DEF EntryFree
      <4>3. ASSUME N[b][t].flag = "USING", N[b][t].name = e.name
            PROVE  \E j \in 1 .. (i - 1) : Is(q[j], "mask", b) /\ q[j].s = t
        <5>1. CASE Is(o, "mask", b) /\ o.s = t
          <6>1. 1 \in 1 .. (i - 1)
            BY <1>1, <2>1
          <6> QED
            BY <1>1, <5>1, <6>1
        <5>2. CASE ~(Is(o, "mask", b) /\ o.s = t)
          <6>1. M[b][t].flag = "USING" /\ M[b][t].name = e.name
            BY <1>5, <2>2, <3>2, <4>3, <5>2
          <6> QED
            BY <2>3, <4>2, <6>1
        <5> QED
          BY <5>1, <5>2
      <4> QED
        BY <1>5, <2>2, <3>2, <4>2, <4>3
    <3> QED
      BY <3>1, <3>2
  <2>5. EntryNext(q, i, N)
    <3> SUFFICES ASSUME NEW t \in 1 .. (p[k].s - 1)
                 PROVE  \/ \E j \in 1 .. (i - 1) : Is(q[j], "entry", b) /\ q[j].s = t
                        \/ N[b][t].flag # "ERASED" /\ ~Before(q, i, "eraseNames", b)
      BY <2>1 DEF EntryNext
    <3>1. t \in 1 .. Slots
      BY <2>2, StoreAssumption
    <3>2. \/ \E j \in 1 .. (k - 1) : Is(p[j], "entry", b) /\ p[j].s = t
          \/ M[b][t].flag # "ERASED" /\ ~Before(p, k, "eraseNames", b)
      BY <2>2 DEF EntryNext
    <3>3. CASE M[b][t].flag # "ERASED" /\ ~Before(p, k, "eraseNames", b)
      <4>1. ~Is(o, "eraseNames", b)
        BY <1>2, <1>3, <2>2, <3>1, <3>3
      <4> QED
        BY <1>4, <1>5, <2>1, <2>2, <3>1, <3>3, <4>1
    <3> QED
      BY <2>3, <3>2, <3>3
  <2>6. EntryLater(q, i)
    <3>1. \A j \in DOMAIN q : i < j => j # 1 /\ k < j - 1
      BY <1>1, <2>1
    <3> QED
      BY <1>1, <2>1, <2>2, <3>1 DEF EntryLater
  <2> QED
    BY <2>1, <2>2, <2>4, <2>5, <2>6
<1>7. ASSUME NEW i \in DOMAIN q, q[i].op = "mask"
      PROVE  N[q[i].b][q[i].s].flag # "ERASED" /\ ~Before(q, i, "eraseNames", q[i].b)
  <2>1. CASE i = 1
    <3>1. ~Before(q, i, "eraseNames", q[i].b)
      BY <2>1 DEF Before
    <3> QED
      BY <1>1, <1>7, <2>1, <3>1
  <2>2. CASE i # 1
    <3>1. i - 1 \in DOMAIN p /\ q[i] = p[i - 1] /\ (i - 1) + 1 = i
      BY <1>1, <2>2
    <3>2. q[i].b \in BlockIds /\ q[i].s \in 1 .. Slots
      BY <1>1, <1>7, <3>1, OpFields
    <3>3. M[q[i].b][q[i].s].flag # "ERASED" /\ ~Before(p, i - 1, "eraseNames", q[i].b)
      BY <1>7, <3>1 DEF MaskPlan
    <3>4. ~Is(o, "eraseNames", q[i].b)
      BY <1>2, <1>3, <3>2, <3>3
    <3>5. ~Before(q, i, "eraseNames", q[i].b)
      BY <1>4, <3>1, <3>3, <3>4
    <3> QED
      BY <1>5, <3>2, <3>3, <3>4, <3>5
  <2> QED
    BY <2>1, <2>2
<1> QED
  BY <1>6, <1>7 DEF EntryPlan, MaskPlan, q

\* The same of namespaces: a plan enters one at its beginning, or erases the
\* root first.
LEMMA ConsRoots ==
    ASSUME NEW o \in Op, NEW p \in Seq(Op), NEW R \in RootSectors,
           o.op = "root" =>
               /\ R[o.b] = None /\ \A c \in BlockIds : R[c] # o.ns
               /\ \A i \in DOMAIN p : p[i].op # "root",
           RootPlan(p, RootAfter(o, R))
    PROVE  RootPlan(<<o>> \o p, R)
<1> DEFINE q == <<o>> \o p
<1>1. /\ q \in Seq(Op) /\ q # <<>> /\ q[1] = o /\ Tail(q) = p
      /\ DOMAIN q = 1 .. (Len(p) + 1)
      /\ DOMAIN p = 1 .. Len(p) /\ Len(p) \in Nat
      /\ \A i \in DOMAIN p : i + 1 \in DOMAIN q /\ q[i + 1] = p[i]
      /\ \A i \in DOMAIN q : i # 1 => i - 1 \in DOMAIN p /\ q[i] = p[i - 1]
  BY ConsPlan
<1> HIDE DEF q
<1>2. CASE o.op = "root"
  <2>1. \A i \in DOMAIN q : q[i].op = "root" => i = 1
    BY <1>1, <1>2
  <2>2. \A j \in DOMAIN q : 1 < j => j # 1
    BY <1>1
  <2> QED
    BY <1>1, <1>2, <2>1, <2>2 DEF RootPlan, q
<1>3. CASE o.op # "root"
  <2>1. o.op # "eraseRoot" => RootAfter(o, R) = R
    BY <1>3 DEF RootAfter
  <2> SUFFICES ASSUME NEW i \in DOMAIN q, q[i].op = "root"
               PROVE  /\ \/ \E j \in 1 .. (i - 1) : q[j].op = "eraseRoot"
                         \/ R[q[i].b] = None /\ \A c \in BlockIds : R[c] # q[i].ns
                      /\ \A j \in DOMAIN q : i < j /\ q[j].op = "root" =>
                             q[i].b # q[j].b /\ q[i].ns # q[j].ns
    BY DEF RootPlan, q
  <2>2. i # 1 /\ i - 1 \in DOMAIN p /\ q[i] = p[i - 1]
    BY <1>1, <1>3
  <2>3. /\ \/ \E j \in 1 .. ((i - 1) - 1) : p[j].op = "eraseRoot"
           \/ /\ RootAfter(o, R)[q[i].b] = None
              /\ \A c \in BlockIds : RootAfter(o, R)[c] # q[i].ns
        /\ \A j \in DOMAIN p : i - 1 < j /\ p[j].op = "root" =>
               q[i].b # p[j].b /\ q[i].ns # p[j].ns
    BY <2>2 DEF RootPlan
  <2>4. \A j \in DOMAIN q : i < j => j # 1 /\ i - 1 < j - 1
    BY <1>1
  <2>5. \A j \in 1 .. ((i - 1) - 1) : j + 1 \in 1 .. (i - 1) /\ q[j + 1] = p[j]
    <3>1. \A j \in 1 .. ((i - 1) - 1) : j + 1 \in 1 .. (i - 1) /\ j \in DOMAIN p
      BY <1>1, <2>2
    <3> QED
      BY <1>1, <3>1
  <2>6. o.op = "eraseRoot" => \E j \in 1 .. (i - 1) : q[j].op = "eraseRoot"
    <3>1. 1 \in 1 .. (i - 1)
      BY <1>1, <2>2
    <3> QED
      BY <1>1, <3>1
  <2>7. \A j \in DOMAIN q : i < j /\ q[j].op = "root" =>
            q[i].b # q[j].b /\ q[i].ns # q[j].ns
    BY <1>1, <2>3, <2>4
  <2>8. \/ \E j \in 1 .. (i - 1) : q[j].op = "eraseRoot"
        \/ R[q[i].b] = None /\ \A c \in BlockIds : R[c] # q[i].ns
    BY <2>1, <2>3, <2>5, <2>6
  <2> QED
    BY <2>7, <2>8
<1> QED
  BY <1>2, <1>3

\* And of data; a wiped name sector needs its data wiped too.
LEMMA ConsData ==
    ASSUME NEW o \in Op, NEW p \in Seq(Op), NEW D \in DataSectors,
           o.op # "data",
           o.op = "eraseNames" => \E j \in DOMAIN p : Is(p[j], "eraseData", o.b),
           NEW X, X = DataAfter(o, D), DataPlan(p, X)
    PROVE  DataPlan(<<o>> \o p, D)
<1> DEFINE q == <<o>> \o p
<1>1. /\ q \in Seq(Op) /\ q # <<>> /\ q[1] = o /\ Tail(q) = p
      /\ DOMAIN q = 1 .. (Len(p) + 1)
      /\ DOMAIN p = 1 .. Len(p) /\ Len(p) \in Nat
      /\ \A i \in DOMAIN p : i + 1 \in DOMAIN q /\ q[i + 1] = p[i]
      /\ \A i \in DOMAIN q : i # 1 => i - 1 \in DOMAIN p /\ q[i] = p[i - 1]
  BY ConsPlan
<1> HIDE DEF q
<1>2. \A b \in BlockIds : \A c \in 1 .. Cells :
         ~Is(o, "eraseData", b) => X[b][c] = D[b][c]
  BY CellsAfter DEF Is
<1>3. ASSUME NEW i \in DOMAIN q, q[i].op = "data"
      PROVE  LET b == q[i].b
                 end == q[i].off + Len(q[i].bytes)
             IN  /\ end < Cells
                 /\ \/ Before(q, i, "eraseData", b)
                    \/ \A c \in 1 .. Cells : q[i].off < c /\ c <= end => D[b][c] = Erased
                 /\ \A j \in DOMAIN q : i < j /\ Is(q[j], "data", b) => end <= q[j].off
                 /\ \E j \in DOMAIN q : i < j /\ Is(q[j], "entry", b) /\ end <= End(q[j].e)
  <2> DEFINE k == i - 1
             b == q[i].b
             end == q[i].off + Len(q[i].bytes)
  <2>1. k \in DOMAIN p /\ q[i] = p[k] /\ k + 1 = i
    BY <1>1, <1>3
  <2>2. /\ end < Cells
        /\ \/ Before(p, k, "eraseData", b)
           \/ \A c \in 1 .. Cells : q[i].off < c /\ c <= end => X[b][c] = Erased
        /\ \A j \in DOMAIN p : k < j /\ Is(p[j], "data", b) => end <= p[j].off
        /\ \E j \in DOMAIN p : k < j /\ Is(p[j], "entry", b) /\ end <= End(p[j].e)
    BY <1>3, <2>1 DEF DataPlan
  <2>3. q[i] \in Op
    BY <1>1
  <2>4. b \in BlockIds
    BY <1>3, <2>3, OpFields
  <2> HIDE DEF end, k
  <2>5. \A j \in DOMAIN q : i < j /\ Is(q[j], "data", b) => end <= q[j].off
    <3>1. \A j \in DOMAIN q : i < j => j # 1 /\ k < j - 1
      BY <1>1, <2>1
    <3> QED
      BY <1>1, <2>2, <3>1
  <2>6. \E j \in DOMAIN q : i < j /\ Is(q[j], "entry", b) /\ end <= End(q[j].e)
    <3>1. \A j \in DOMAIN p : k < j => i < j + 1
      BY <1>1, <2>1
    <3> QED
      BY <1>1, <2>2, <3>1
  <2>7. Before(q, i, "eraseData", b) <=>
            Is(o, "eraseData", b) \/ Before(p, k, "eraseData", b)
    <3>1. k \in DOMAIN Tail(q)
      BY <1>1, <2>1
    <3> QED
      BY <1>1, <2>1, <3>1, BeforeTail
  <2>8. \/ Before(q, i, "eraseData", b)
        \/ \A c \in 1 .. Cells : q[i].off < c /\ c <= end => D[b][c] = Erased
    BY <1>2, <2>2, <2>4, <2>7
  <2> QED
    BY <2>2, <2>5, <2>6, <2>8 DEF end
<1>4. ASSUME NEW i \in DOMAIN q, q[i].op = "eraseNames"
      PROVE  \E j \in DOMAIN q : i < j /\ Is(q[j], "eraseData", q[i].b)
  <2>1. CASE i = 1
    <3>1. PICK j \in DOMAIN p : Is(p[j], "eraseData", o.b)
      BY <1>1, <1>4, <2>1
    <3>2. i < j + 1 /\ j + 1 \in DOMAIN q /\ q[j + 1] = p[j]
      BY <1>1, <2>1
    <3> QED
      BY <1>1, <2>1, <3>1, <3>2
  <2>2. CASE i # 1
    <3>1. i - 1 \in DOMAIN p /\ q[i] = p[i - 1]
      BY <1>1, <2>2
    <3>2. PICK j \in DOMAIN p : i - 1 < j /\ Is(p[j], "eraseData", q[i].b)
      BY <1>4, <3>1 DEF DataPlan
    <3>3. i < j + 1 /\ j + 1 \in DOMAIN q /\ q[j + 1] = p[j]
      BY <1>1, <3>2
    <3> QED
      BY <3>2, <3>3
  <2> QED
    BY <2>1, <2>2
<1> QED
  BY <1>3, <1>4 DEF DataPlan, q

\* The three together.
LEMMA ConsGood ==
    ASSUME NEW o \in Op, NEW p, NEW R \in RootSectors, NEW N \in NameSectors,
           NEW D \in DataSectors, NEW clean,
           o.op \notin {"entry", "data"},
           o.op = "mask" => N[o.b][o.s].flag # "ERASED",
           o.op = "root" =>
               /\ R[o.b] = None /\ \A c \in BlockIds : R[c] # o.ns
               /\ \A i \in DOMAIN p : p[i].op # "root",
           o.op = "eraseNames" => \E j \in DOMAIN p : Is(p[j], "eraseData", o.b),
           GoodPlan(p, RootAfter(o, R), NamesAfter(o, N), DataAfter(o, D), clean)
    PROVE  GoodPlan(<<o>> \o p, R, N, D, clean)
<1>1. p \in Seq(Op)
  BY DEF GoodPlan
<1>2. <<o>> \o p \in Seq(Op)
  BY <1>1, ConsPlan
<1>3. EntryPlan(<<o>> \o p, N) /\ MaskPlan(<<o>> \o p, N)
  BY <1>1, ConsEntries DEF GoodPlan
<1>4. RootPlan(<<o>> \o p, R)
  BY <1>1, ConsRoots DEF GoodPlan
<1>5. clean => DataPlan(<<o>> \o p, D)
  BY <1>1, ConsData DEF GoodPlan
<1> QED
  BY <1>2, <1>3, <1>4, <1>5 DEF GoodPlan

-----------------------------------------------------------------------------
(* What is written one behind the other.                                   *)

\* Plan p writes data and entries to block b and does nothing else: the entries
\* go to the slots u0 + 1 .. u, the data to the cells behind x0 and not behind x,
\* each behind the one before it and in front of its entry, and the names are
\* different ones of T.
Tight(p, b, u0, u, x0, x, T) ==
    /\ p \in Seq(Op)
    /\ \A i \in DOMAIN p : p[i].b = b /\ p[i].op \in {"data", "entry"}
    /\ \A i \in DOMAIN p : p[i].op = "entry" =>
           /\ p[i].e.flag = "USING" /\ p[i].e.name \in T
           /\ u0 < p[i].s /\ p[i].s <= u
           /\ x0 <= p[i].e.off /\ End(p[i].e) <= x
           /\ \A t \in (u0 + 1) .. (p[i].s - 1) :
                  \E j \in 1 .. (i - 1) : p[j].op = "entry" /\ p[j].s = t
           /\ \A j \in DOMAIN p : i < j /\ p[j].op = "entry" =>
                  /\ p[i].s < p[j].s
                  /\ p[i].e.name # p[j].e.name
                  /\ End(p[i].e) <= p[j].e.off
    /\ \A i \in DOMAIN p : p[i].op = "data" =>
           LET end == p[i].off + Len(p[i].bytes)
           IN  /\ x0 <= p[i].off /\ end <= x
               /\ \A j \in DOMAIN p : i < j /\ p[j].op = "data" => end <= p[j].off
               /\ \E j \in DOMAIN p : i < j /\ p[j].op = "entry" /\ end <= End(p[j].e)
    /\ \A t \in (u0 + 1) .. u : \E j \in DOMAIN p : p[j].op = "entry" /\ p[j].s = t

\* Nothing written.
LEMMA TightEmpty ==
    ASSUME NEW b, NEW u \in Nat, NEW x \in Nat
    PROVE  Tight(<<>>, b, u, u, x, x, {})
<1>1. <<>> \in Seq(Op) /\ DOMAIN <<>> = {}
  OBVIOUS
<1>2. (u + 1) .. u = {}
  OBVIOUS
<1> QED
  BY <1>1, <1>2 DEF Tight

\* One more value and its entry.
LEMMA TightAppend ==
    ASSUME NEW b \in BlockIds, NEW u0 \in Nat, NEW u \in Nat, u0 <= u,
           NEW x0 \in Nat, NEW x \in Nat, x0 <= x, NEW T, NEW p,
           Tight(p, b, u0, u, x0, x, T),
           NEW n \in Names, n \notin T, NEW bytes \in Seq(Cell), u + 1 <= Slots
    PROVE  Tight(p \o <<PutData(b, x, bytes), PutEntry(b, u + 1, Entry(n, x, Len(bytes)))>>,
                 b, u0, u + 1, x0, x + Len(bytes), T \cup {n})
<1> DEFINE d == PutData(b, x, bytes)
           g == Entry(n, x, Len(bytes))
           f == PutEntry(b, u + 1, g)
           q == p \o <<d, f>>
           L == Len(p)
           y == x + Len(bytes)
<1>1. Len(bytes) \in Nat /\ y \in Nat
  OBVIOUS
<1>2. g \in EntrySet /\ End(g) = y /\ g.flag = "USING" /\ g.name = n /\ g.off = x
  BY <1>1 DEF EntrySet, Flag, Entry, End
<1>3. u + 1 \in 1 .. Slots
  BY StoreAssumption
<1> HIDE DEF g
<1>4. d \in Op /\ d.op = "data" /\ d.b = b /\ d.off = x /\ d.bytes = bytes
  BY DEF Op, PutData
<1>5. f \in Op /\ f.op = "entry" /\ f.b = b /\ f.s = u + 1 /\ f.e = g
  BY <1>2, <1>3 DEF Op, PutEntry
<1>6. p \in Seq(Op)
  BY DEF Tight
<1> HIDE DEF d, f, y
<1>7. /\ L \in Nat /\ DOMAIN p = 1 .. L /\ DOMAIN q = 1 .. (L + 2) /\ q \in Seq(Op)
      /\ q[L + 1] = d /\ q[L + 2] = f
      /\ \A i \in 1 .. L : q[i] = p[i]
  BY <1>4, <1>5, <1>6
<1> HIDE DEF q, L
<1>8. \A i \in DOMAIN q : i \in DOMAIN p \/ i = L + 1 \/ i = L + 2
  BY <1>7
<1>9. \A i \in DOMAIN p : i \in DOMAIN q /\ i \in Nat /\ i < L + 1 /\ i < L + 2 /\ q[i] = p[i]
  BY <1>7
<1>10. /\ L + 1 \in DOMAIN q /\ L + 2 \in DOMAIN q /\ L + 1 < L + 2
       /\ \A j \in DOMAIN q : L + 1 < j => j = L + 2
       /\ \A j \in DOMAIN q : ~(L + 2 < j)
  BY <1>7
<1>11. \A i \in DOMAIN q : q[i].b = b /\ q[i].op \in {"data", "entry"}
  BY <1>4, <1>5, <1>7, <1>8, <1>9 DEF Tight
<1>12. ASSUME NEW i \in DOMAIN q, q[i].op = "entry"
       PROVE  /\ q[i].e.flag = "USING" /\ q[i].e.name \in T \cup {n}
              /\ u0 < q[i].s /\ q[i].s <= u + 1
              /\ x0 <= q[i].e.off /\ End(q[i].e) <= y
              /\ \A t \in (u0 + 1) .. (q[i].s - 1) :
                     \E j \in 1 .. (i - 1) : q[j].op = "entry" /\ q[j].s = t
              /\ \A j \in DOMAIN q : i < j /\ q[j].op = "entry" =>
                     /\ q[i].s < q[j].s
                     /\ q[i].e.name # q[j].e.name
                     /\ End(q[i].e) <= q[j].e.off
  <2>1. CASE i \in DOMAIN p
    <3>1. /\ p[i].op = "entry" /\ q[i] = p[i] /\ p[i] \in Op
      BY <1>6, <1>9, <1>12, <2>1
    <3>2. p[i].s \in Nat /\ p[i].e \in EntrySet /\ End(p[i].e) \in Nat
      BY <3>1, OpFields, EntryNumbers, StoreAssumption
    <3>3. /\ p[i].e.flag = "USING" /\ p[i].e.name \in T
          /\ u0 < p[i].s /\ p[i].s <= u
          /\ x0 <= p[i].e.off /\ End(p[i].e) <= x
          /\ \A t \in (u0 + 1) .. (p[i].s - 1) :
                 \E j \in 1 .. (i - 1) : p[j].op = "entry" /\ p[j].s = t
          /\ \A j \in DOMAIN p : i < j /\ p[j].op = "entry" =>
                 /\ p[i].s < p[j].s
                 /\ p[i].e.name # p[j].e.name
                 /\ End(p[i].e) <= p[j].e.off
      BY <2>1, <3>1 DEF Tight
    <3>4. p[i].s <= u + 1 /\ End(p[i].e) <= y /\ p[i].s < u + 1
      BY <1>1, <3>2, <3>3 DEF y
    <3>5. \A j \in 1 .. (i - 1) : q[j] = p[j]
      BY <1>7, <2>1
    <3>6. \A j \in DOMAIN q : i < j /\ q[j].op = "entry" =>
              /\ p[i].s < q[j].s
              /\ p[i].e.name # q[j].e.name
              /\ End(p[i].e) <= q[j].e.off
      BY <1>2, <1>4, <1>5, <1>7, <1>8, <1>9, <3>3, <3>4, SMTT(30)
    <3> QED
      BY <3>1, <3>3, <3>4, <3>5, <3>6
  <2>2. CASE i = L + 1
    BY <1>4, <1>7, <1>12, <2>2
  <2>3. CASE i = L + 2
    <3>1. q[i] = f /\ (u + 1) - 1 = u
      BY <1>7, <2>3
    <3>2. \A t \in (u0 + 1) .. u : \E j \in DOMAIN p : p[j].op = "entry" /\ p[j].s = t
      BY DEF Tight
    <3>3. \A j \in DOMAIN p : j \in 1 .. (i - 1) /\ q[j] = p[j]
      BY <1>7, <2>3
    <3>4. \A t \in (u0 + 1) .. u :
              \E j \in 1 .. (i - 1) : q[j].op = "entry" /\ q[j].s = t
      BY <3>2, <3>3
    <3>5. u0 < u + 1 /\ x0 <= g.off /\ End(g) <= y
      BY <1>1, <1>2
    <3>6. \A j \in DOMAIN q : ~(i < j)
      BY <1>10, <2>3
    <3> QED
      BY <1>2, <1>5, <3>1, <3>4, <3>5, <3>6
  <2> QED
    BY <1>8, <2>1, <2>2, <2>3
<1>13. ASSUME NEW i \in DOMAIN q, q[i].op = "data"
       PROVE  LET end == q[i].off + Len(q[i].bytes)
              IN  /\ x0 <= q[i].off /\ end <= y
                  /\ \A j \in DOMAIN q : i < j /\ q[j].op = "data" => end <= q[j].off
                  /\ \E j \in DOMAIN q : i < j /\ q[j].op = "entry" /\ end <= End(q[j].e)
  <2>1. CASE i \in DOMAIN p
    <3> DEFINE end == p[i].off + Len(p[i].bytes)
    <3>1. p[i].op = "data" /\ q[i] = p[i] /\ p[i] \in Op
      BY <1>6, <1>9, <1>13, <2>1
    <3>2. p[i].off \in Nat /\ p[i].bytes \in Seq(Cell)
      BY <3>1, OpFields
    <3>3. end \in Nat
      <4>1. Len(p[i].bytes) \in Nat
        BY <3>2
      <4> QED
        BY <3>2, <4>1, SMTT(30)
    <3>4. /\ x0 <= p[i].off /\ end <= x
          /\ \A j \in DOMAIN p : i < j /\ p[j].op = "data" => end <= p[j].off
          /\ \E j \in DOMAIN p : i < j /\ p[j].op = "entry" /\ end <= End(p[j].e)
      BY <2>1, <3>1 DEF Tight
    <3> HIDE DEF end
    <3>5. end <= y
      BY <1>1, <3>3, <3>4 DEF y
    <3>6. \A j \in DOMAIN q : i < j /\ q[j].op = "data" => end <= q[j].off
      BY <1>4, <1>5, <1>7, <1>8, <1>9, <3>4
    <3>7. \E j \in DOMAIN q : i < j /\ q[j].op = "entry" /\ end <= End(q[j].e)
      BY <1>9, <3>4
    <3> QED
      BY <3>1, <3>4, <3>5, <3>6, <3>7 DEF end
  <2>2. CASE i = L + 1
    <3>1. q[i] = d /\ x + Len(bytes) = y /\ y <= y
      BY <1>1, <1>7, <2>2 DEF y
    <3>2. \A j \in DOMAIN q : i < j => q[j] = f
      BY <1>7, <1>10, <2>2
    <3>3. \E j \in DOMAIN q : i < j /\ q[j].op = "entry" /\ y <= End(q[j].e)
      BY <1>2, <1>5, <1>7, <1>10, <2>2, <3>1
    <3> QED
      BY <1>4, <1>5, <3>1, <3>2, <3>3
  <2>3. CASE i = L + 2
    BY <1>5, <1>7, <1>13, <2>3
  <2> QED
    BY <1>8, <2>1, <2>2, <2>3
<1>14. \A t \in (u0 + 1) .. (u + 1) : \E j \in DOMAIN q : q[j].op = "entry" /\ q[j].s = t
  <2>1. \A t \in (u0 + 1) .. u : \E j \in DOMAIN p : p[j].op = "entry" /\ p[j].s = t
    BY DEF Tight
  <2>2. \A t \in (u0 + 1) .. (u + 1) : t = u + 1 \/ t \in (u0 + 1) .. u
    OBVIOUS
  <2>3. \A t \in (u0 + 1) .. u : \E j \in DOMAIN q : q[j].op = "entry" /\ q[j].s = t
    BY <1>9, <2>1
  <2>4. L + 2 \in DOMAIN q /\ q[L + 2].op = "entry" /\ q[L + 2].s = u + 1
    BY <1>5, <1>7, <1>10
  <2> QED
    BY <2>2, <2>3, <2>4
<1>15. Tight(q, b, u0, u + 1, x0, y, T \cup {n})
  BY <1>7, <1>11, <1>12, <1>13, <1>14 DEF Tight
<1> QED
  BY <1>15 DEF q, d, f, g, y

\* In the name sector E the slots behind u0 are free and no others, what is in use
\* ends before x0, and none of the names T is in use.
FreeBehind(E, u0, x0, T) ==
    /\ \A t \in 1 .. Slots : E[t].flag # "ERASED" =>
           /\ t <= u0 /\ End(E[t]) <= x0
           /\ E[t].flag = "USING" => E[t].name \notin T
    /\ \A t \in 1 .. Slots : t <= u0 => E[t].flag # "ERASED"

\* In the data sector F the cells behind x0 are erased.
ErasedBehind(F, x0) == \A c \in 1 .. Cells : x0 < c => F[c] = Erased

\* Such a plan can be done where the slots and the cells it uses are free and
\* its names are not in use.
LEMMA TightGood ==
    ASSUME NEW b \in BlockIds, NEW u0 \in Nat, NEW u \in Nat,
           NEW x0 \in Nat, NEW x \in Nat, x < Cells, NEW T, T \subseteq Names,
           NEW p, Tight(p, b, u0, u, x0, x, T),
           NEW R, NEW N \in NameSectors, NEW D, NEW clean,
           FreeBehind(N[b], u0, x0, T), clean => ErasedBehind(D[b], x0)
    PROVE  GoodPlan(p, R, N, D, clean)
<1>0. /\ \A t \in 1 .. Slots : N[b][t].flag # "ERASED" =>
             /\ t <= u0 /\ End(N[b][t]) <= x0
             /\ N[b][t].flag = "USING" => N[b][t].name \notin T
      /\ \A t \in 1 .. Slots : t <= u0 => N[b][t].flag # "ERASED"
  BY DEF FreeBehind
<1>1. /\ p \in Seq(Op)
      /\ \A i \in DOMAIN p : p[i].b = b /\ p[i].op \in {"data", "entry"} /\ p[i] \in Op
  BY DEF Tight
<1>2. DOMAIN p = 1 .. Len(p) /\ Len(p) \in Nat
  BY <1>1
<1>3. \A i \in DOMAIN p : \A j \in 1 .. (i - 1) : j \in DOMAIN p
  BY <1>2
<1>4. \A i \in DOMAIN p : ~Before(p, i, "eraseNames", b)
  BY <1>1, <1>3 DEF Before, Is
<1>5. \A t \in 1 .. Slots : N[b][t] \in EntrySet /\ End(N[b][t]) \in Nat
  BY EntryNumbers DEF NameSectors
<1>6. ASSUME NEW i \in DOMAIN p, p[i].op = "entry"
      PROVE  /\ p[i].e.flag = "USING" /\ p[i].e.name \in Names /\ End(p[i].e) < Cells
             /\ EntryFree(p, i, N) /\ EntryNext(p, i, N) /\ EntryLater(p, i)
  <2>1. p[i].s \in 1 .. Slots /\ p[i].s \in Nat /\ p[i].e \in EntrySet
    BY <1>1, <1>6, OpFields, StoreAssumption
  <2>2. End(p[i].e) \in Nat /\ p[i].e.off \in Nat
    BY <2>1, EntryNumbers
  <2>3. /\ p[i].e.flag = "USING" /\ p[i].e.name \in T
        /\ u0 < p[i].s /\ p[i].s <= u
        /\ x0 <= p[i].e.off /\ End(p[i].e) <= x
        /\ \A t \in (u0 + 1) .. (p[i].s - 1) :
               \E j \in 1 .. (i - 1) : p[j].op = "entry" /\ p[j].s = t
        /\ \A j \in DOMAIN p : i < j /\ p[j].op = "entry" =>
               /\ p[i].s < p[j].s
               /\ p[i].e.name # p[j].e.name
               /\ End(p[i].e) <= p[j].e.off
    BY <1>6 DEF Tight
  <2>4. End(p[i].e) < Cells
    BY <2>2, <2>3, StoreAssumption
  <2>5. EntryFree(p, i, N)
    <3>1. ASSUME NEW t \in 1 .. Slots, N[b][t].flag # "ERASED"
          PROVE  t < p[i].s /\ End(N[b][t]) <= p[i].e.off
      <4>1. t <= u0 /\ End(N[b][t]) <= x0 /\ t \in Nat
        BY <1>0, <3>1, StoreAssumption
      <4> QED
        BY <1>5, <2>1, <2>2, <2>3, <4>1
    <3>2. \A t \in 1 .. Slots :
              ~(N[b][t].flag = "USING" /\ N[b][t].name = p[i].e.name)
      BY <1>0, <2>3
    <3> QED
      BY <1>1, <3>1, <3>2 DEF EntryFree
  <2>6. EntryNext(p, i, N)
    <3> SUFFICES ASSUME NEW t \in 1 .. (p[i].s - 1)
                 PROVE  \/ \E j \in 1 .. (i - 1) : Is(p[j], "entry", b) /\ p[j].s = t
                        \/ N[b][t].flag # "ERASED"
      BY <1>1, <1>4 DEF EntryNext
    <3>1. CASE t <= u0
      <4>1. t \in 1 .. Slots
        BY <2>1, StoreAssumption
      <4> QED
        BY <1>0, <3>1, <4>1
    <3>2. CASE ~(t <= u0)
      <4>1. t \in (u0 + 1) .. (p[i].s - 1)
        BY <2>1, <3>2
      <4>2. PICK j \in 1 .. (i - 1) : p[j].op = "entry" /\ p[j].s = t
        BY <2>3, <4>1
      <4> QED
        BY <1>1, <1>3, <4>2 DEF Is
    <3> QED
      BY <3>1, <3>2
  <2>7. EntryLater(p, i)
    BY <1>1, <2>3 DEF EntryLater, Is
  <2> QED
    BY <2>3, <2>4, <2>5, <2>6, <2>7
<1>7. EntryPlan(p, N)
  BY <1>6 DEF EntryPlan
<1>8. MaskPlan(p, N) /\ RootPlan(p, R)
  BY <1>1 DEF MaskPlan, RootPlan
<1>9. ASSUME clean PROVE DataPlan(p, D)
  <2>1. ASSUME NEW i \in DOMAIN p, p[i].op = "data"
        PROVE  LET end == p[i].off + Len(p[i].bytes)
               IN  /\ end < Cells
                   /\ \A c \in 1 .. Cells : p[i].off < c /\ c <= end => D[b][c] = Erased
                   /\ \A j \in DOMAIN p : i < j /\ Is(p[j], "data", b) => end <= p[j].off
                   /\ \E j \in DOMAIN p : i < j /\ Is(p[j], "entry", b) /\ end <= End(p[j].e)
    <3> DEFINE end == p[i].off + Len(p[i].bytes)
    <3>1. p[i].off \in Nat /\ p[i].bytes \in Seq(Cell)
      BY <1>1, <2>1, OpFields
    <3>2. end \in Nat
      BY <3>1
    <3>3. /\ x0 <= p[i].off /\ end <= x
          /\ \A j \in DOMAIN p : i < j /\ p[j].op = "data" => end <= p[j].off
          /\ \E j \in DOMAIN p : i < j /\ p[j].op = "entry" /\ end <= End(p[j].e)
      BY <2>1 DEF Tight
    <3> HIDE DEF end
    <3>4. end < Cells
      BY <3>2, <3>3, StoreAssumption
    <3>5. \A c \in 1 .. Cells : p[i].off < c => x0 < c
      BY <3>1, <3>3, StoreAssumption
    <3>6. \A c \in 1 .. Cells : p[i].off < c /\ c <= end => D[b][c] = Erased
      BY <1>9, <3>5 DEF ErasedBehind
    <3>7. /\ \A j \in DOMAIN p : i < j /\ Is(p[j], "data", b) => end <= p[j].off
          /\ \E j \in DOMAIN p : i < j /\ Is(p[j], "entry", b) /\ end <= End(p[j].e)
      BY <1>1, <3>3 DEF Is
    <3> QED
      BY <3>4, <3>6, <3>7 DEF end
  <2> QED
    BY <1>1, <2>1 DEF DataPlan
<1> QED
  BY <1>1, <1>7, <1>8, <1>9 DEF GoodPlan

-----------------------------------------------------------------------------
(* bk_reorganize_name_data.                                                *)

\* The names in use in the first k of the entries E.
LiveTo(E, k) == {E[t].name : t \in {s \in 1 .. Slots : s <= k /\ E[s].flag = "USING"}}

\* What the loop has collected after the first k entries: a plan for an erased
\* block in which nothing lies behind where it lay.
CollectedTo(w, b, E, k) ==
    /\ w.off \in Nat /\ w.used \in Nat /\ w.off < Cells /\ w.used <= k
    /\ Tight(w.steps, b, 0, w.used, 0, w.off, LiveTo(E, k))
    /\ \A t \in 1 .. Slots : k < t /\ E[t].flag # "ERASED" => w.off <= E[t].off
    /\ (\E t \in 1 .. Slots : t <= k /\ E[t].flag # "USING") => w.used < k

\* The bytes of an entry.
LEMMA ContentBytes ==
    ASSUME Sectors, NEW b \in BlockIds, NEW e \in EntrySet, End(e) < Cells
    PROVE  Content(b, e) \in Seq(Cell) /\ Len(Content(b, e)) = e.len
<1>1. e.off \in Nat /\ e.len \in Nat /\ e.off + e.len < Cells
  BY EntryNumbers DEF End
<1>2. data[b] \in [1 .. Cells -> Cell]
  BY DEF Sectors
<1>3. \A i \in 1 .. e.len : e.off + i \in 1 .. Cells
  BY <1>1, StoreAssumption
<1>4. Content(b, e) \in [1 .. e.len -> Cell]
  BY <1>2, <1>3 DEF Content
<1> HIDE DEF Content
<1> QED
  BY <1>1, <1>4

\* One entry more.
WriteBackStep(w, b, e) ==
    IF e.flag # "USING" THEN w
    ELSE [steps |-> w.steps \o
                    <<PutData(b, w.off, Content(b, e)),
                      PutEntry(b, w.used + 1, Entry(e.name, w.off, e.len))>>,
          off |-> w.off + e.len, used |-> w.used + 1]

LEMMA CollectOne ==
    ASSUME Sectors, NEW b \in BlockIds, NEW E \in [1 .. Slots -> EntrySet],
           GoodNames(E), NEW k \in Nat, k + 1 \in 1 .. Slots,
           NEW w, CollectedTo(w, b, E, k)
    PROVE  CollectedTo(WriteBackStep(w, b, E[k + 1]), b, E, k + 1)
<1> DEFINE e == E[k + 1]
           v == WriteBackStep(w, b, e)
<1>1. /\ w.off \in Nat /\ w.used \in Nat /\ w.off < Cells /\ w.used <= k
      /\ Tight(w.steps, b, 0, w.used, 0, w.off, LiveTo(E, k))
      /\ \A t \in 1 .. Slots : k < t /\ E[t].flag # "ERASED" => w.off <= E[t].off
      /\ (\E t \in 1 .. Slots : t <= k /\ E[t].flag # "USING") => w.used < k
  BY DEF CollectedTo
<1>2. e \in EntrySet /\ e.off \in Nat /\ e.len \in Nat /\ End(e) \in Nat
  BY EntryNumbers
<1>3. Slots \in Nat /\ Cells \in Nat
  BY StoreAssumption
<1>4. \A t \in 1 .. Slots : t <= k + 1 <=> t <= k \/ t = k + 1
  BY <1>3
<1>5. \A t \in 1 .. Slots : k + 1 < t => k < t
  BY <1>3
<1>6. CASE e.flag # "USING"
  <2>1. v = w
    BY <1>6 DEF WriteBackStep
  <2>2. LiveTo(E, k + 1) = LiveTo(E, k)
    BY <1>4, <1>6 DEF LiveTo
  <2>3. w.used < k + 1 /\ w.used <= k + 1
    BY <1>1
  <2>4. \A t \in 1 .. Slots : k + 1 < t /\ E[t].flag # "ERASED" => w.off <= E[t].off
    BY <1>1, <1>5
  <2> QED
    BY <1>1, <2>1, <2>2, <2>3, <2>4 DEF CollectedTo
<1>7. CASE e.flag = "USING"
  <2> DEFINE C == Content(b, e)
  <2>1. End(e) < Cells /\ e.name \in Names
    BY <1>7 DEF GoodNames
  <2>2. C \in Seq(Cell) /\ Len(C) = e.len
    BY <1>2, <2>1, ContentBytes
  <2> HIDE DEF C
  <2>3. /\ v.steps = w.steps \o <<PutData(b, w.off, C),
                                  PutEntry(b, w.used + 1, Entry(e.name, w.off, Len(C)))>>
        /\ v.off = w.off + Len(C) /\ v.used = w.used + 1
    BY <1>7, <2>2 DEF WriteBackStep, C
  <2>4. e.name \notin LiveTo(E, k)
    <3> SUFFICES ASSUME NEW t \in 1 .. Slots, t <= k, E[t].flag = "USING", E[t].name = e.name
                 PROVE  FALSE
      BY DEF LiveTo
    <3>1. t = k + 1
      BY <1>7 DEF GoodNames
    <3> QED
      BY <3>1
  <2>5. LiveTo(E, k + 1) = LiveTo(E, k) \cup {e.name}
    BY <1>4, <1>7 DEF LiveTo
  <2>6. w.used + 1 <= Slots /\ 0 <= w.used /\ 0 <= w.off /\ 0 \in Nat
    BY <1>1, <1>3
  <2> HIDE DEF v, e
  <2>7. Tight(v.steps, b, 0, v.used, 0, v.off, LiveTo(E, k + 1))
    <3>1. Tight(w.steps \o <<PutData(b, w.off, C),
                             PutEntry(b, w.used + 1, Entry(e.name, w.off, Len(C)))>>,
                b, 0, w.used + 1, 0, w.off + Len(C), LiveTo(E, k) \cup {e.name})
      BY <1>1, <2>1, <2>2, <2>4, <2>6, TightAppend
    <3> QED
      BY <2>3, <2>5, <3>1
  <2>8. w.off <= e.off
    BY <1>1, <1>7 DEF e
  <2>9. v.off \in Nat /\ v.off <= End(e) /\ v.off < Cells
    BY <1>1, <1>2, <1>3, <2>1, <2>2, <2>3, <2>8 DEF End
  <2>10. v.used \in Nat /\ v.used <= k + 1 /\ (w.used < k => v.used < k + 1)
    BY <1>1, <2>3
  <2>11. \A t \in 1 .. Slots : k + 1 < t /\ E[t].flag # "ERASED" => v.off <= E[t].off
    <3> SUFFICES ASSUME NEW t \in 1 .. Slots, k + 1 < t, E[t].flag # "ERASED"
                 PROVE  v.off <= E[t].off
      OBVIOUS
    <3>1. End(e) <= E[t].off
      BY <1>7 DEF GoodNames, e
    <3>2. E[t].off \in Nat
      BY EntryNumbers
    <3> QED
      BY <1>2, <2>9, <3>1, <3>2
  <2>12. (\E t \in 1 .. Slots : t <= k + 1 /\ E[t].flag # "USING") => v.used < k + 1
    BY <1>1, <1>4, <1>7, <2>10 DEF e
  <2>13. CollectedTo(v, b, E, k + 1)
    BY <2>7, <2>9, <2>10, <2>11, <2>12 DEF CollectedTo
  <2> QED
    BY <2>13 DEF v, e
<1> QED
  BY <1>6, <1>7

\* The loop, round by round.
LoopStart == [steps |-> <<>>, off |-> 0, used |-> 0]

Rounds(U, b, E) == /\ U[0] = LoopStart
                   /\ \A s \in 1 .. Slots : U[s] = WriteBackStep(U[s - 1], b, E[s])

LEMMA WriteBackRounds ==
    ASSUME NEW b, NEW E
    PROVE  \E U : Rounds(U, b, E) /\ WriteBack(b, E) = U[Slots]
<1> DEFINE w0 == [steps |-> <<>>, off |-> 0, used |-> 0]
           IsUpto(f, m) == f = [s \in 0 .. m |-> IF s = 0 THEN w0
                                                 ELSE WriteBackStep(f[s - 1], b, E[s])]
           S == {m \in Nat : \E f : IsUpto(f, m)}
<1>1. Slots \in Nat /\ Cells \in Nat \ {0}
  BY StoreAssumption
<1> HIDE DEF w0
<1>3. 0 \in S
  <2> DEFINE f == [s \in 0 .. 0 |-> w0]
  <2>1. IsUpto(f, 0)
    OBVIOUS
  <2> HIDE DEF f
  <2> QED
    BY <2>1
<1>4. ASSUME NEW m \in Nat, m >= 0, m \in S PROVE m + 1 \in S
  <2>1. PICK f : IsUpto(f, m)
    BY <1>4
  <2> DEFINE q == WriteBackStep(f[m], b, E[m + 1])
             g == [s \in 0 .. (m + 1) |-> IF s = m + 1 THEN q ELSE f[s]]
  <2>2. \A s \in 0 .. m : f[s] = IF s = 0 THEN w0 ELSE WriteBackStep(f[s - 1], b, E[s])
    BY <2>1
  <2>3. g[m + 1] = q /\ \A s \in 0 .. m : g[s] = f[s]
    BY <1>4
  <2>4. ASSUME NEW s \in 0 .. (m + 1)
        PROVE  g[s] = IF s = 0 THEN w0 ELSE WriteBackStep(g[s - 1], b, E[s])
    <3>1. CASE s = m + 1
      <4>1. g[s - 1] = f[m] /\ s # 0
        BY <2>3, <3>1
      <4> QED
        BY <2>3, <3>1, <4>1
    <3>2. CASE s # m + 1
      <4>1. s \in 0 .. m /\ (s # 0 => s - 1 \in 0 .. m)
        BY <3>2
      <4> QED
        BY <2>2, <2>3, <4>1
    <3> QED
      BY <3>1, <3>2
  <2>5. g = [s \in 0 .. (m + 1) |-> g[s]]
    OBVIOUS
  <2> HIDE DEF g
  <2>6. IsUpto(g, m + 1)
    BY <2>4, <2>5
  <2> QED
    BY <2>6
<1> HIDE DEF S
<1>5. Slots \in S
  BY <1>1, <1>3, <1>4, InductionFrom
<1> DEFINE U == CHOOSE h : IsUpto(h, Slots)
<1>6. IsUpto(U, Slots)
  BY <1>5 DEF S
<1>7. WriteBack(b, E) = U[Slots]
  BY DEF WriteBack, WriteBackStep, w0
<1> HIDE DEF U
<1>8. \A s \in 0 .. Slots : U[s] = IF s = 0 THEN w0 ELSE WriteBackStep(U[s - 1], b, E[s])
  BY <1>6
<1>9. U[0] = w0 /\ \A s \in 1 .. Slots : U[s] = WriteBackStep(U[s - 1], b, E[s])
  <2>1. 0 \in 0 .. Slots /\ \A s \in 1 .. Slots : s \in 0 .. Slots /\ s # 0
    BY <1>1
  <2> QED
    BY <1>8, <2>1
<1>10. Rounds(U, b, E)
  BY <1>9 DEF Rounds, LoopStart, w0
<1> QED
  BY <1>7, <1>10

\* After each round, ...
LEMMA RoundsCollect ==
    ASSUME Sectors, NEW b \in BlockIds, NEW E \in [1 .. Slots -> EntrySet], GoodNames(E),
           NEW U, Rounds(U, b, E)
    PROVE  \A m \in 0 .. Slots : CollectedTo(U[m], b, E, m)
<1> DEFINE w0 == LoopStart
<1>1. Slots \in Nat /\ Cells \in Nat \ {0}
  BY StoreAssumption
<1>2. CollectedTo(w0, b, E, 0)
  <2>1. w0.steps = <<>> /\ w0.off = 0 /\ w0.used = 0
    BY DEF LoopStart
  <2>2. \A t \in 1 .. Slots : ~(t <= 0) /\ E[t].off \in Nat
    BY <1>1, EntryNumbers
  <2>3. LiveTo(E, 0) = {}
    BY <2>2 DEF LiveTo
  <2>4. Tight(<<>>, b, 0, 0, 0, 0, {})
    BY TightEmpty
  <2>5. \A t \in 1 .. Slots : 0 <= E[t].off
    BY <2>2
  <2> HIDE DEF w0
  <2> QED
    <3>1. w0.off \in Nat /\ w0.used \in Nat /\ w0.off < Cells /\ w0.used <= 0
      BY <1>1, <2>1
    <3>2. Tight(w0.steps, b, 0, w0.used, 0, w0.off, LiveTo(E, 0))
      BY <2>1, <2>3, <2>4
    <3> QED
      BY <2>1, <2>2, <2>5, <3>1, <3>2 DEF CollectedTo
<1> HIDE DEF w0
<1>8. U[0] = w0 /\ \A s \in 1 .. Slots : U[s] = WriteBackStep(U[s - 1], b, E[s])
  BY DEF Rounds, w0
<1> DEFINE G == {m \in Nat : m > Slots \/ CollectedTo(U[m], b, E, m)}
<1>9. 0 \in G
  BY <1>1, <1>2, <1>8
<1>10. ASSUME NEW m \in Nat, m >= 0, m \in G PROVE m + 1 \in G
  <2>1. CASE m + 1 > Slots
    BY <2>1
  <2>2. CASE m + 1 <= Slots
    <3>1. m + 1 \in 1 .. Slots /\ m + 1 \in 0 .. Slots /\ ~(m > Slots) /\ (m + 1) - 1 = m
      BY <1>1, <2>2
    <3>2. CollectedTo(U[m], b, E, m)
      BY <1>10, <3>1
    <3>3. U[m + 1] = WriteBackStep(U[m], b, E[m + 1])
      BY <1>8, <3>1
    <3>4. CollectedTo(U[m + 1], b, E, m + 1)
      BY <3>1, <3>2, <3>3, CollectOne
    <3> QED
      BY <3>4
  <2> QED
    BY <1>1, <2>1, <2>2
<1> HIDE DEF G
<1>11. \A m \in Nat : m \in G
  BY <1>9, <1>10, InductionFrom
<1>12. \A m \in 0 .. Slots : m \in Nat /\ ~(m > Slots)
  BY <1>1
<1> QED
  BY <1>11, <1>12 DEF G

\* ... and at the end.
LEMMA WriteBackCollects ==
    ASSUME Sectors, NEW b \in BlockIds, NEW E \in [1 .. Slots -> EntrySet], GoodNames(E)
    PROVE  CollectedTo(WriteBack(b, E), b, E, Slots)
<1>1. PICK U : Rounds(U, b, E) /\ WriteBack(b, E) = U[Slots]
  BY WriteBackRounds
<1>2. Slots \in 0 .. Slots
  BY StoreAssumption
<1> QED
  BY <1>1, <1>2, RoundsCollect

\* The first of some slots or blocks.
LEMMA MinIsFirst ==
    ASSUME NEW S, S \subseteq Nat, S # {}
    PROVE  Min(S) \in S /\ \A y \in S : Min(S) <= y
<1>1. \E x \in S : \A y \in S : x <= y
  BY LeastNatural
<1> QED
  BY <1>1 DEF Min

\* The bytes of a value.
LEMMA ValueBytes ==
    ASSUME NEW v \in Values
    PROVE  Length[v] \in Nat /\ Bytes(v) \in Seq(Cell) /\ Len(Bytes(v)) = Length[v]
<1>1. Length[v] \in Nat
  BY StoreAssumption
<1>2. \A i \in 1 .. Length[v] : Byte(v, i) \in Cell
  BY <1>1 DEF Cell
<1>3. Bytes(v) \in [1 .. Length[v] -> Cell]
  BY <1>2 DEF Bytes
<1> HIDE DEF Bytes
<1> QED
  BY <1>1, <1>3

\* Plans one behind the other.
LEMMA PlansAppend ==
    ASSUME NEW p \in Seq(Op), NEW q \in Seq(Op), NEW r \in Seq(Op)
    PROVE  (p \o q) \o r = p \o (q \o r)
  OBVIOUS

LEMMA PlanPlaces ==
    ASSUME NEW p \in Seq(Op), NEW q \in Seq(Op)
    PROVE  /\ p \o q \in Seq(Op) /\ DOMAIN (p \o q) = 1 .. (Len(p) + Len(q))
           /\ \A i \in 1 .. Len(p) : (p \o q)[i] = p[i]
           /\ \A i \in 1 .. Len(q) : (p \o q)[Len(p) + i] = q[i]
<1>1. p \o q \in Seq(Op) /\ DOMAIN (p \o q) = 1 .. (Len(p) + Len(q))
  OBVIOUS
<1>2. \A i \in 1 .. Len(p) : (p \o q)[i] = p[i]
  OBVIOUS
<1>3. \A i \in 1 .. Len(q) : (p \o q)[Len(p) + i] = q[i]
  OBVIOUS
<1> QED
  BY <1>1, <1>2, <1>3

LEMMA TwoAndMore ==
    ASSUME NEW o \in Op, NEW m \in Op, NEW p \in Seq(Op)
    PROVE  <<o, m>> \o p = <<o>> \o (<<m>> \o p)
<1>1. <<o, m>> = <<o>> \o <<m>>
  <2> DEFINE a == <<o, m>>
             c == <<o>> \o <<m>>
  <2>1. a \in Seq(Op) /\ Len(a) = 2 /\ a[1] = o /\ a[2] = m
    OBVIOUS
  <2>2. c \in Seq(Op) /\ Len(c) = 2 /\ c[1] = o /\ c[2] = m
    OBVIOUS
  <2> HIDE DEF a, c
  <2>3. \A i \in 1 .. 2 : a[i] = c[i]
    BY <2>1, <2>2
  <2>4. a = c
    BY <2>1, <2>2, <2>3
  <2> QED
    BY <2>4 DEF a, c
<1>2. <<o>> \in Seq(Op) /\ <<m>> \in Seq(Op)
  OBVIOUS
<1>3. (<<o>> \o <<m>>) \o p = <<o>> \o (<<m>> \o p)
  BY <1>2, PlansAppend
<1> QED
  BY <1>1, <1>3

LEMMA ThreeAndMore ==
    ASSUME NEW o \in Op, NEW m \in Op, NEW k \in Op, NEW p \in Seq(Op)
    PROVE  <<o, m, k>> \o p = <<o>> \o (<<m>> \o (<<k>> \o p))
<1>1. <<o, m, k>> = <<o, m>> \o <<k>>
  <2> DEFINE a == <<o, m, k>>
             c == <<o, m>> \o <<k>>
  <2>1. a \in Seq(Op) /\ Len(a) = 3 /\ a[1] = o /\ a[2] = m /\ a[3] = k
    OBVIOUS
  <2>2. c \in Seq(Op) /\ Len(c) = 3 /\ c[1] = o /\ c[2] = m /\ c[3] = k
    OBVIOUS
  <2> HIDE DEF a, c
  <2>3. \A i \in 1 .. 3 : a[i] = c[i]
    BY <2>1, <2>2
  <2>4. a = c
    BY <2>1, <2>2, <2>3
  <2> QED
    BY <2>4 DEF a, c
<1>2. <<o, m>> \in Seq(Op) /\ <<k>> \in Seq(Op)
  OBVIOUS
<1>3. <<k>> \o p \in Seq(Op)
  BY ConsPlan
<1>4. (<<o, m>> \o <<k>>) \o p = <<o, m>> \o (<<k>> \o p)
  BY <1>2, PlansAppend
<1>5. <<o, m>> \o (<<k>> \o p) = <<o>> \o (<<m>> \o (<<k>> \o p))
  BY <1>3, TwoAndMore
<1> QED
  BY <1>1, <1>4, <1>5

\* A plan that enters no namespace.
NoRoot(p) == \A i \in DOMAIN p : p[i].op # "root"

\* A plan that begins with an operation on names or data, and goes on like p.
LEMMA ConsNoRoot ==
    ASSUME NEW o \in Op, o.op # "root", NEW p \in Seq(Op), NoRoot(p)
    PROVE  NoRoot(<<o>> \o p)
<1> DEFINE q == <<o>> \o p
<1>1. /\ q[1] = o
      /\ \A i \in DOMAIN q : i # 1 => i - 1 \in DOMAIN p /\ q[i] = p[i - 1]
  BY ConsPlan
<1> HIDE DEF q
<1>2. NoRoot(q)
  BY <1>1 DEF NoRoot
<1> QED
  BY <1>2 DEF q

\* Both sectors of a block are erased and then written from the front.
LEMMA ReorganizedGood ==
    ASSUME NEW b \in BlockIds, NEW u \in Nat, NEW x \in Nat, x < Cells,
           NEW T, T \subseteq Names, NEW p, Tight(p, b, 0, u, 0, x, T),
           NEW R \in RootSectors, NEW N \in NameSectors, NEW D \in DataSectors, NEW clean
    PROVE  /\ GoodPlan(<<EraseNames(b), EraseData(b)>> \o p, R, N, D, clean)
           /\ NoRoot(<<EraseNames(b), EraseData(b)>> \o p)
<1> DEFINE o1 == EraseNames(b)
           o2 == EraseData(b)
           N1 == NamesAfter(o1, N)
           D1 == DataAfter(o1, D)
           N2 == NamesAfter(o2, N1)
           D2 == DataAfter(o2, D1)
           R1 == RootAfter(o1, R)
           R2 == RootAfter(o2, R1)
<1>1. /\ o1 \in Op /\ o1.op = "eraseNames" /\ o1.b = b
      /\ o2 \in Op /\ o2.op = "eraseData" /\ o2.b = b
  BY DEF Op, EraseNames, EraseData
<1>2. /\ p \in Seq(Op) /\ NoRoot(p)
  BY DEF Tight, NoRoot
<1> HIDE DEF o1, o2
<1>3. <<o1, o2>> \o p = <<o1>> \o (<<o2>> \o p)
  BY <1>1, <1>2, TwoAndMore
<1>4. R1 = R /\ R2 = R
  BY <1>1 DEF RootAfter
<1>5. N1 \in NameSectors /\ \A t \in 1 .. Slots : N1[b][t] = NoEntry
  BY <1>1, SlotsAfter DEF Is
<1>6. D1 = D
  BY <1>1 DEF DataAfter
<1>7. N2 = N1
  BY <1>1 DEF NamesAfter
<1>8. D2 \in DataSectors /\ \A c \in 1 .. Cells : D2[b][c] = Erased
  BY <1>1, <1>6, CellsAfter DEF Is
<1>9. \A t \in 1 .. Slots : N2[b][t].flag = "ERASED" /\ ~(t <= 0)
  BY <1>5, <1>7, StoreAssumption DEF NoEntry
<1> HIDE DEF N1, D1, N2, D2, R1, R2
<1>10. GoodPlan(p, R2, N2, D2, clean)
  <2>1. FreeBehind(N2[b], 0, 0, T) /\ ErasedBehind(D2[b], 0)
    BY <1>8, <1>9 DEF FreeBehind, ErasedBehind
  <2>2. N2 \in NameSectors /\ 0 \in Nat
    BY <1>5, <1>7
  <2> QED
    BY <2>1, <2>2, TightGood
<1>11. GoodPlan(<<o2>> \o p, R1, N1, D1, clean)
  <2>1. GoodPlan(p, RootAfter(o2, R1), NamesAfter(o2, N1), DataAfter(o2, D1), clean)
    BY <1>10 DEF R2, N2, D2
  <2>2. o2.op \notin {"entry", "data", "mask", "root", "eraseNames"}
    BY <1>1
  <2> QED
    BY <1>1, <1>4, <1>5, <1>6, <2>1, <2>2, ConsGood
<1>12. /\ <<o2>> \o p \in Seq(Op)
       /\ \E j \in DOMAIN (<<o2>> \o p) : Is((<<o2>> \o p)[j], "eraseData", o1.b)
  BY <1>1, <1>2, ConsPlan DEF Is
<1>13. GoodPlan(<<o1>> \o (<<o2>> \o p), R, N, D, clean)
  <2>1. GoodPlan(<<o2>> \o p, RootAfter(o1, R), NamesAfter(o1, N), DataAfter(o1, D), clean)
    BY <1>11 DEF R1, N1, D1
  <2>2. o1.op \notin {"entry", "data", "mask", "root"}
    BY <1>1
  <2> QED
    BY <1>1, <1>12, <2>1, <2>2, ConsGood
<1>14. NoRoot(<<o1>> \o (<<o2>> \o p))
  BY <1>1, <1>2, <1>12, ConsNoRoot
<1> QED
  BY <1>3, <1>13, <1>14 DEF o1, o2

\* bk_reorganize_name_data can be done whenever some entry is not in use.
LEMMA ReorganizeGood ==
    ASSUME Sectors, NEW b \in BlockIds, NEW E \in [1 .. Slots -> EntrySet], GoodNames(E),
           \E t \in 1 .. Slots : E[t].flag # "USING",
           NEW n \in Names, \A t \in 1 .. Slots : E[t].flag = "USING" => E[t].name # n,
           NEW v \in Values,
           NEW R \in RootSectors, NEW N \in NameSectors, NEW D \in DataSectors, NEW clean
    PROVE  /\ GoodPlan(bk_reorganize_name_data(b, E, n, v).steps, R, N, D, clean)
           /\ NoRoot(bk_reorganize_name_data(b, E, n, v).steps)
<1> DEFINE w == WriteBack(b, E)
           q == bk_reorganize_name_data(b, E, n, v)
           ee == <<EraseNames(b), EraseData(b)>>
           T == LiveTo(E, Slots)
<1>1. CollectedTo(w, b, E, Slots)
  BY WriteBackCollects
<1> HIDE DEF w
<1>2. /\ w.off \in Nat /\ w.used \in Nat /\ w.off < Cells
      /\ Tight(w.steps, b, 0, w.used, 0, w.off, T)
  BY <1>1 DEF CollectedTo
<1>3. w.used + 1 <= Slots
  <2>1. \A t \in 1 .. Slots : t <= Slots
    BY StoreAssumption
  <2>2. w.used < Slots
    BY <1>1, <2>1 DEF CollectedTo
  <2> QED
    BY <1>2, <2>2, StoreAssumption
<1>4. T \subseteq Names /\ n \notin T
  BY DEF LiveTo, GoodNames
<1> HIDE DEF T
<1>5. Length[v] \in Nat /\ Bytes(v) \in Seq(Cell) /\ Len(Bytes(v)) = Length[v]
  BY ValueBytes
<1>6. CASE ~Fits(w.off, v)
  <2>1. q.steps = ee \o w.steps
    BY <1>6 DEF bk_reorganize_name_data, Do, w
  <2> HIDE DEF q
  <2>2. GoodPlan(ee \o w.steps, R, N, D, clean) /\ NoRoot(ee \o w.steps)
    BY <1>2, <1>4, ReorganizedGood
  <2>3. GoodPlan(q.steps, R, N, D, clean) /\ NoRoot(q.steps)
    BY <2>1, <2>2
  <2> QED
    BY <2>3 DEF q
<1>7. CASE Fits(w.off, v)
  <2> DEFINE d == <<PutData(b, w.off, Bytes(v)),
                    PutEntry(b, w.used + 1, Entry(n, w.off, Length[v]))>>
             z == w.steps \o d
  <2>1. q.steps = (ee \o w.steps) \o d
    BY <1>7 DEF bk_reorganize_name_data, Do, w
  <2>2. Tight(z, b, 0, w.used + 1, 0, w.off + Length[v], T \cup {n})
    <3>1. 0 <= w.used /\ 0 <= w.off /\ 0 \in Nat
      BY <1>2
    <3> HIDE DEF z, d
    <3>2. Tight(w.steps \o <<PutData(b, w.off, Bytes(v)),
                             PutEntry(b, w.used + 1, Entry(n, w.off, Len(Bytes(v))))>>,
                b, 0, w.used + 1, 0, w.off + Len(Bytes(v)), T \cup {n})
      BY <1>2, <1>3, <1>4, <1>5, <3>1, TightAppend
    <3> QED
      BY <1>5, <3>2 DEF z, d
  <2>3. w.off + Length[v] < Cells /\ w.off + Length[v] \in Nat /\ w.used + 1 \in Nat
    BY <1>2, <1>5, <1>7 DEF Fits
  <2>4. (ee \o w.steps) \o d = ee \o z
    <3>1. EraseNames(b) \in Op /\ EraseData(b) \in Op
      BY DEF Op, EraseNames, EraseData
    <3>2. ee \in Seq(Op)
      BY <3>1
    <3>3. w.steps \in Seq(Op)
      BY <1>2 DEF Tight
    <3>4. Entry(n, w.off, Length[v]) \in EntrySet
      BY <1>2, <1>5 DEF EntrySet, Entry, Flag
    <3>5. PutData(b, w.off, Bytes(v)) \in Op
      BY <1>2, <1>5 DEF Op, PutData
    <3>6. w.used + 1 \in 1 .. Slots
      BY <1>2, <1>3, StoreAssumption
    <3>7. PutEntry(b, w.used + 1, Entry(n, w.off, Length[v])) \in Op
      BY <3>4, <3>6 DEF Op, PutEntry
    <3>8. d \in Seq(Op)
      BY <3>5, <3>7
    <3> HIDE DEF d, ee
    <3> QED
      BY <3>2, <3>3, <3>8, PlansAppend
  <2> HIDE DEF q, z, d
  <2>5. GoodPlan(ee \o z, R, N, D, clean) /\ NoRoot(ee \o z)
    BY <1>4, <2>2, <2>3, ReorganizedGood
  <2>6. GoodPlan(q.steps, R, N, D, clean) /\ NoRoot(q.steps)
    BY <2>1, <2>4, <2>5
  <2> QED
    BY <2>6 DEF q
<1> QED
  BY <1>6, <1>7

\* The first slot not used yet: the slots before it are taken, and a value goes
\* behind the data of all of them.
NextFree(E, s, x) ==
    /\ s \in 1 .. Slots /\ E[s].flag = "ERASED" /\ x \in Nat
    /\ s \in Nat /\ s - 1 \in Nat /\ (s - 1) + 1 = s /\ s <= Slots
    /\ \A t \in 1 .. Slots : t <= s - 1 => E[t].flag # "ERASED"
    /\ \A t \in 1 .. Slots : E[t].flag # "ERASED" => t <= s - 1 /\ End(E[t]) <= x

LEMMA FirstUnused ==
    ASSUME NEW E \in [1 .. Slots -> EntrySet], GoodNames(E),
           NEW Unused, \A t : t \in Unused <=> t \in 1 .. Slots /\ E[t].flag = "ERASED",
           Unused # {}, NEW s, s = Min(Unused), NEW x, x = DataOffset(E, s)
    PROVE  NextFree(E, s, x)
<1>2. Unused \subseteq Nat
  BY StoreAssumption
<1>3. s \in 1 .. Slots /\ E[s].flag = "ERASED" /\ \A t \in Unused : s <= t
  <2>1. Min(Unused) \in Unused /\ \A t \in Unused : Min(Unused) <= t
    BY <1>2, MinIsFirst
  <2> QED
    BY <2>1
<1>4. s \in Nat /\ s - 1 \in Nat /\ (s - 1) + 1 = s /\ s <= Slots
  BY <1>3, StoreAssumption
<1>5. \A t \in 1 .. Slots : t <= s - 1 => E[t].flag # "ERASED"
  <2>1. \A t \in 1 .. Slots : t <= s - 1 => ~(s <= t)
    BY <1>4, StoreAssumption
  <2> QED
    BY <1>3, <2>1
<1>6. \A t \in 1 .. Slots : E[t].flag # "ERASED" => t <= s - 1
  <2> SUFFICES ASSUME NEW t \in 1 .. Slots, E[t].flag # "ERASED" PROVE t <= s - 1
    OBVIOUS
  <2>1. ~(s < t) /\ s # t
    BY <1>3 DEF GoodNames
  <2> QED
    BY <1>4, <2>1, StoreAssumption
<1>7. x \in Nat /\ \A t \in 1 .. Slots : E[t].flag # "ERASED" => End(E[t]) <= x
  <2>1. CASE s = 1
    <3>1. \A t \in 1 .. Slots : ~(t <= s - 1)
      BY <2>1, StoreAssumption
    <3> QED
      BY <1>6, <2>1, <3>1 DEF DataOffset
  <2>2. CASE s # 1
    <3>1. s - 1 \in 1 .. Slots
      BY <1>3, <2>2, StoreAssumption
    <3>2. E[s - 1].flag # "ERASED" /\ E[s - 1] \in EntrySet
      BY <1>4, <1>5, <3>1
    <3>3. x = End(E[s - 1]) /\ x \in Nat /\ E[s - 1].off \in Nat /\ E[s - 1].off <= x
      BY <2>2, <3>2, EntryNumbers DEF DataOffset, End
    <3> SUFFICES ASSUME NEW t \in 1 .. Slots, E[t].flag # "ERASED"
                 PROVE  End(E[t]) <= x
      BY <3>3
    <3>4. End(E[t]) \in Nat
      BY EntryNumbers
    <3>5. CASE t = s - 1
      BY <3>3, <3>5
    <3>6. CASE t # s - 1
      <4>1. t < s - 1
        BY <1>4, <1>6, <3>6, StoreAssumption
      <4>2. End(E[t]) <= E[s - 1].off
        BY <3>1, <3>2, <4>1 DEF GoodNames
      <4> QED
        BY <3>3, <3>4, <4>2
    <3> QED
      BY <3>5, <3>6
  <2> QED
    BY <2>1, <2>2
<1> QED
  BY <1>3, <1>4, <1>5, <1>6, <1>7 DEF NextFree

\* bk_set_name_data_new_addr can be done where the name is not in use and all
\* cells in use belong to entries.
LEMMA NewAddrGood ==
    ASSUME Sectors, NEW b \in BlockIds, NEW E \in [1 .. Slots -> EntrySet], GoodNames(E),
           NEW n \in Names, \A t \in 1 .. Slots : E[t].flag = "USING" => E[t].name # n,
           NEW v \in Values,
           NEW R \in RootSectors, NEW N \in NameSectors, N[b] = E,
           NEW D \in DataSectors, NEW clean,
           clean => \A c \in 1 .. Cells : D[b][c] # Erased =>
                        \E t \in 1 .. Slots : E[t].flag # "ERASED" /\ c <= End(E[t])
    PROVE  /\ GoodPlan(bk_set_name_data_new_addr(b, E, n, v).steps, R, N, D, clean)
           /\ NoRoot(bk_set_name_data_new_addr(b, E, n, v).steps)
<1> DEFINE Unused == {t \in 1 .. Slots : E[t].flag = "ERASED"}
           s == Min(Unused)
           x == DataOffset(E, s)
           q == bk_set_name_data_new_addr(b, E, n, v)
           z == bk_reorganize_name_data(b, E, n, v)
<1>1. (\E t \in 1 .. Slots : E[t].flag # "USING") =>
          GoodPlan(z.steps, R, N, D, clean) /\ NoRoot(z.steps)
  BY ReorganizeGood
<1>2. CASE Unused = {}
  <2>1. CASE \E t \in 1 .. Slots : E[t].flag = "MASK"
    <3>1. q = z
      BY <1>2, <2>1 DEF bk_set_name_data_new_addr
    <3> HIDE DEF q, z
    <3>2. \E t \in 1 .. Slots : E[t].flag # "USING"
      BY <2>1
    <3>3. GoodPlan(q.steps, R, N, D, clean) /\ NoRoot(q.steps)
      BY <1>1, <3>1, <3>2
    <3> QED
      BY <3>3 DEF q
  <2>2. CASE ~\E t \in 1 .. Slots : E[t].flag = "MASK"
    <3>1. q.steps = <<>>
      BY <1>2, <2>2 DEF bk_set_name_data_new_addr, Do
    <3> HIDE DEF q
    <3>2. NoRoot(<<>>)
      BY DEF NoRoot
    <3>3. GoodPlan(q.steps, R, N, D, clean) /\ NoRoot(q.steps)
      BY <3>1, <3>2, EmptyPlan
    <3> QED
      BY <3>3 DEF q
  <2> QED
    BY <2>1, <2>2
<1>3. CASE Unused # {} /\ ~Fits(x, v)
  <2>1. q = z
    BY <1>3 DEF bk_set_name_data_new_addr
  <2> HIDE DEF q, z
  <2>2. \E t \in 1 .. Slots : E[t].flag # "USING"
    BY <1>3
  <2>3. GoodPlan(q.steps, R, N, D, clean) /\ NoRoot(q.steps)
    BY <1>1, <2>1, <2>2
  <2> QED
    BY <2>3 DEF q
<1>4. CASE Unused # {} /\ Fits(x, v)
  <2> DEFINE d == <<PutData(b, x, Bytes(v)), PutEntry(b, s, Entry(n, x, Length[v]))>>
  <2>1. q.steps = d
    BY <1>4 DEF bk_set_name_data_new_addr, Do
  <2>3. /\ s \in 1 .. Slots /\ E[s].flag = "ERASED" /\ x \in Nat
        /\ s \in Nat /\ s - 1 \in Nat /\ (s - 1) + 1 = s /\ s <= Slots
        /\ \A t \in 1 .. Slots : t <= s - 1 => E[t].flag # "ERASED"
        /\ \A t \in 1 .. Slots : E[t].flag # "ERASED" => t <= s - 1 /\ End(E[t]) <= x
    <3>1. /\ Unused # {} /\ s = Min(Unused) /\ x = DataOffset(E, s)
          /\ \A t : t \in Unused <=> t \in 1 .. Slots /\ E[t].flag = "ERASED"
      BY <1>4
    <3> HIDE DEF Unused, s, x
    <3>2. NextFree(E, s, x)
      BY <3>1, FirstUnused
    <3> QED
      BY <3>2 DEF NextFree
  <2> HIDE DEF s, x, q
  <2>4. s - 1 <= s - 1
    BY <2>3
  <2>8. Length[v] \in Nat /\ Bytes(v) \in Seq(Cell) /\ Len(Bytes(v)) = Length[v]
    BY ValueBytes
  <2>9. Tight(d, b, s - 1, s, x, x + Length[v], {n})
    <3>1. Tight(<<>>, b, s - 1, s - 1, x, x, {})
      BY <2>3, TightEmpty
    <3>2. x <= x
      BY <2>3
    <3>3. Tight(<<>> \o <<PutData(b, x, Bytes(v)),
                          PutEntry(b, (s - 1) + 1, Entry(n, x, Len(Bytes(v))))>>,
                b, s - 1, (s - 1) + 1, x, x + Len(Bytes(v)), {} \cup {n})
      BY <2>3, <2>4, <2>8, <3>1, <3>2, TightAppend
    <3>4. <<>> \o d = d
      OBVIOUS
    <3> QED
      BY <2>3, <2>8, <3>3, <3>4
  <2>10. x + Length[v] < Cells /\ x + Length[v] \in Nat
    BY <1>4, <2>3, <2>8 DEF Fits, x
  <2>11. clean => ErasedBehind(D[b], x)
    <3> SUFFICES ASSUME clean, NEW c \in 1 .. Cells, x < c, D[b][c] # Erased
                 PROVE  FALSE
      BY DEF ErasedBehind
    <3>1. PICK t \in 1 .. Slots : E[t].flag # "ERASED" /\ c <= End(E[t])
      OBVIOUS
    <3>2. End(E[t]) <= x /\ End(E[t]) \in Nat
      BY <2>3, <3>1, EntryNumbers
    <3> QED
      BY <2>3, <3>1, <3>2, StoreAssumption
  <2>12. FreeBehind(N[b], s - 1, x, {n}) /\ {n} \subseteq Names
    BY <2>3 DEF FreeBehind
  <2> HIDE DEF d
  <2>13. GoodPlan(d, R, N, D, clean)
    BY <2>3, <2>4, <2>9, <2>10, <2>11, <2>12, TightGood
  <2>14. NoRoot(d)
    BY <2>9 DEF Tight, NoRoot
  <2>15. GoodPlan(q.steps, R, N, D, clean) /\ NoRoot(q.steps)
    BY <2>1, <2>13, <2>14
  <2> QED
    BY <2>15 DEF q
<1> QED
  BY <1>2, <1>3, <1>4

-----------------------------------------------------------------------------
(* The calls.                                                              *)

\* get_name_addr finds the name if it is in use.
LEMMA NameAddr ==
    ASSUME NEW n, NEW E
    PROVE  LET s == get_name_addr(n, E)
           IN  /\ s = 0 => \A t \in 1 .. Slots : E[t].flag = "USING" => E[t].name # n
               /\ s # 0 => s \in 1 .. Slots /\ E[s].flag = "USING" /\ E[s].name = n
<1> DEFINE S == {s \in 1 .. Slots : E[s].flag = "USING" /\ E[s].name = n}
<1>1. S \subseteq Nat /\ 0 \notin S
  BY StoreAssumption
<1>2. S # {} => Min(S) \in S
  BY <1>1, MinIsFirst
<1>3. get_name_addr(n, E) = IF S = {} THEN 0 ELSE Min(S)
  BY DEF get_name_addr
<1> QED
  BY <1>1, <1>2, <1>3

\* get_namespace_addr finds the block of the namespace if there is one.
LEMMA SpaceAddr ==
    ASSUME NEW ns
    PROVE  LET b == get_namespace_addr(ns)
           IN  /\ b = 0 => \A c \in BlockIds : root[c] # ns
               /\ b # 0 => b \in BlockIds /\ root[b] = ns
<1> DEFINE S == {b \in BlockIds : root[b] = ns}
<1>1. S \subseteq Nat /\ 0 \notin S
  BY StoreAssumption DEF BlockIds
<1>2. S # {} => Min(S) \in S
  BY <1>1, MinIsFirst
<1>3. get_namespace_addr(ns) = IF S = {} THEN 0 ELSE Min(S)
  BY DEF get_namespace_addr
<1> QED
  BY <1>1, <1>2, <1>3

\* bk_set_namespace finds a block that no namespace has.
LEMMA FreeBlock ==
    bk_set_namespace # 0 => bk_set_namespace \in BlockIds /\ root[bk_set_namespace] = None
<1> DEFINE S == {b \in BlockIds : root[b] = None}
<1>1. S \subseteq Nat
  BY StoreAssumption DEF BlockIds
<1>2. S # {} => Min(S) \in S
  BY <1>1, MinIsFirst
<1>3. bk_set_namespace = IF S = {} THEN 0 ELSE Min(S)
  BY DEF bk_set_namespace
<1> QED
  BY <1>2, <1>3

\* What a call finds when it begins: the sectors are good and hold no more than
\* their entries say.
Ready ==
    /\ Sectors
    /\ \A b \in BlockIds : GoodNames(names[b])
    /\ OneBlock(root)
    /\ crashes = 0 => Covered(<<>>, names, data)

\* The plan of a call can be done.
GoodCall(p) == GoodPlan(p, root, names, data, crashes = 0)

\* The sectors, by kind.
LEMMA SectorKinds ==
    ASSUME Sectors
    PROVE  root \in RootSectors /\ names \in NameSectors /\ data \in DataSectors
  BY DEF Sectors, RootSectors, NameSectors, DataSectors

\* An entry in use is masked before anything else is done.
LEMMA MaskFirst ==
    ASSUME Ready, NEW b \in BlockIds, NEW s \in 1 .. Slots,
           names[b][s].flag = "USING", NEW R \in RootSectors, NEW p, NoRoot(p),
           GoodPlan(p, R, NamesAfter(Mask(b, s), names), data, crashes = 0)
    PROVE  GoodPlan(<<Mask(b, s)>> \o p, R, names, data, crashes = 0)
<1> DEFINE o == Mask(b, s)
<1>1. o \in Op /\ o.op = "mask" /\ o.b = b /\ o.s = s
  BY DEF Op, Mask
<1> HIDE DEF o
<1>2. RootAfter(o, R) = R /\ DataAfter(o, data) = data
  BY <1>1 DEF RootAfter, DataAfter
<1>3. o.op \notin {"entry", "data", "root", "eraseNames"}
  BY <1>1
<1>4. names[o.b][o.s].flag # "ERASED"
  BY <1>1
<1>5. GoodPlan(p, RootAfter(o, R), NamesAfter(o, names), DataAfter(o, data), crashes = 0)
  BY <1>2 DEF o
<1>6. names \in NameSectors /\ data \in DataSectors
  BY SectorKinds DEF Ready
<1>7. GoodPlan(<<o>> \o p, R, names, data, crashes = 0)
  BY <1>1, <1>3, <1>4, <1>5, <1>6, ConsGood
<1> QED
  BY <1>7 DEF o

\* The entries with one masked.
LEMMA MaskedEntries ==
    ASSUME Ready, NEW b \in BlockIds, NEW s \in 1 .. Slots,
           names[b][s].flag = "USING", NEW M, M = NamesAfter(Mask(b, s), names)
    PROVE  /\ M \in NameSectors /\ GoodNames(M[b])
           /\ M[b] = [names[b] EXCEPT ![s].flag = "MASK"]
           /\ \A t \in 1 .. Slots : M[b][t].flag = "USING" =>
                  names[b][t].flag = "USING" /\ names[b][t].name = M[b][t].name /\ t # s
           /\ \A t \in 1 .. Slots : names[b][t].flag # "ERASED" =>
                  M[b][t].flag # "ERASED" /\ End(M[b][t]) = End(names[b][t])
<1> DEFINE o == Mask(b, s)
           p == <<o>>
<1>1. o \in Op /\ o.op = "mask" /\ o.b = b /\ o.s = s
  BY DEF Op, Mask
<1>2. names \in NameSectors /\ names[b] \in [1 .. Slots -> EntrySet]
  BY DEF Ready, Sectors, NameSectors
<1>3. M = [names EXCEPT ![b][s].flag = "MASK"]
  BY <1>1 DEF NamesAfter
<1>4. M[b] = [names[b] EXCEPT ![s].flag = "MASK"]
  BY <1>2, <1>3 DEF NameSectors
<1> HIDE DEF o
<1>5. p \in Seq(Op) /\ p # <<>> /\ p[1] = o /\ DOMAIN p = {1}
  BY <1>1
<1>6. EntryPlan(p, names)
  BY <1>1, <1>5 DEF EntryPlan
<1>7. MaskPlan(p, names)
  <2>1. ~Before(p, 1, "eraseNames", b)
    BY DEF Before
  <2> QED
    BY <1>1, <1>5, <2>1 DEF MaskPlan
<1> HIDE DEF p
<1>8. M \in NameSectors /\ GoodNames(M[b])
  BY <1>2, <1>5, <1>6, <1>7, NamesStep DEF Ready, o
<1>9. /\ M[b][s].flag = "MASK" /\ M[b][s].off = names[b][s].off
      /\ M[b][s].len = names[b][s].len
      /\ \A t \in 1 .. Slots : t # s => M[b][t] = names[b][t]
  BY <1>1, <1>2, SlotsAfter DEF Is, o
<1>10. End(M[b][s]) = End(names[b][s])
  BY <1>9 DEF End
<1> QED
  BY <1>4, <1>8, <1>9, <1>10

\* The cells in use belong to entries.
LEMMA CellsOwned ==
    ASSUME Ready, crashes = 0, NEW b \in BlockIds, NEW c \in 1 .. Cells,
           data[b][c] # Erased
    PROVE  \E t \in 1 .. Slots : names[b][t].flag # "ERASED" /\ c <= End(names[b][t])
<1>1. DOMAIN <<>> = {}
  OBVIOUS
<1> QED
  BY <1>1 DEF Ready, Covered

\* bk_set_name_data.
LEMMA SetNameDataGood ==
    ASSUME Ready, NEW b \in BlockIds, NEW n \in Names, NEW v \in Values,
           NEW R \in RootSectors
    PROVE  /\ GoodPlan(bk_set_name_data(b, n, v).steps, R, names, data, crashes = 0)
           /\ NoRoot(bk_set_name_data(b, n, v).steps)
<1> DEFINE s == get_name_addr(n, names[b])
           E == [names[b] EXCEPT ![s].flag = "MASK"]
           q == bk_set_name_data(b, n, v)
<1>1. /\ s = 0 => \A t \in 1 .. Slots :
                      names[b][t].flag = "USING" => names[b][t].name # n
      /\ s # 0 => s \in 1 .. Slots /\ names[b][s].flag = "USING" /\ names[b][s].name = n
  BY NameAddr
<1>2. /\ Sectors /\ names \in NameSectors /\ data \in DataSectors
      /\ names[b] \in [1 .. Slots -> EntrySet] /\ GoodNames(names[b])
  BY SectorKinds DEF Ready, NameSectors
<1>3. CASE s = 0
  <2> DEFINE z == bk_set_name_data_new_addr(b, names[b], n, v)
  <2>1. q = z
    BY <1>3 DEF bk_set_name_data
  <2>2. crashes = 0 => \A c \in 1 .. Cells : data[b][c] # Erased =>
            \E t \in 1 .. Slots : names[b][t].flag # "ERASED" /\ c <= End(names[b][t])
    BY CellsOwned
  <2> HIDE DEF q, s
  <2>3. GoodPlan(z.steps, R, names, data, crashes = 0) /\ NoRoot(z.steps)
    BY <1>1, <1>2, <1>3, <2>2, NewAddrGood
  <2> HIDE DEF z
  <2>4. GoodPlan(q.steps, R, names, data, crashes = 0) /\ NoRoot(q.steps)
    BY <2>1, <2>3
  <2> QED
    BY <2>4 DEF q
<1>4. CASE s # 0 /\ Content(b, names[b][s]) = Bytes(v)
  <2>1. q.steps = <<>>
    BY <1>4 DEF bk_set_name_data, Do
  <2> HIDE DEF q
  <2>2. NoRoot(<<>>)
    BY DEF NoRoot
  <2>3. GoodPlan(q.steps, R, names, data, crashes = 0) /\ NoRoot(q.steps)
    BY <2>1, <2>2, EmptyPlan
  <2> QED
    BY <2>3 DEF q
<1>5. CASE s # 0 /\ Content(b, names[b][s]) # Bytes(v)
  <2> DEFINE o == Mask(b, s)
             M == NamesAfter(o, names)
             z == bk_set_name_data_new_addr(b, E, n, v)
  <2>1. q.steps = <<o>> \o z.steps
    BY <1>5 DEF bk_set_name_data, Do
  <2> HIDE DEF q, s
  <2>2. /\ M \in NameSectors /\ GoodNames(M[b]) /\ M[b] = E
        /\ \A t \in 1 .. Slots : M[b][t].flag = "USING" =>
               names[b][t].flag = "USING" /\ names[b][t].name = M[b][t].name /\ t # s
        /\ \A t \in 1 .. Slots : names[b][t].flag # "ERASED" =>
               M[b][t].flag # "ERASED" /\ End(M[b][t]) = End(names[b][t])
    BY <1>1, <1>5, MaskedEntries, SMTT(30)
  <2> HIDE DEF M, E
  <2>3. \A t \in 1 .. Slots : E[t].flag = "USING" => E[t].name # n
    BY <1>1, <1>2, <1>5, <2>2 DEF GoodNames
  <2>4. crashes = 0 => \A c \in 1 .. Cells : data[b][c] # Erased =>
            \E t \in 1 .. Slots : E[t].flag # "ERASED" /\ c <= End(E[t])
    BY <2>2, CellsOwned
  <2>5. E \in [1 .. Slots -> EntrySet] /\ GoodNames(E)
    BY <2>2 DEF NameSectors
  <2>6. GoodPlan(z.steps, R, M, data, crashes = 0) /\ NoRoot(z.steps)
    BY <1>2, <2>2, <2>3, <2>4, <2>5, NewAddrGood
  <2> HIDE DEF z
  <2>7. GoodPlan(<<o>> \o z.steps, R, names, data, crashes = 0)
    BY <1>1, <1>5, <2>6, MaskFirst DEF M
  <2>8. o \in Op /\ o.op # "root"
    BY <1>1, <1>5 DEF Op, Mask
  <2>9. NoRoot(<<o>> \o z.steps)
    BY <2>6, <2>8, ConsNoRoot DEF GoodPlan
  <2>10. GoodPlan(q.steps, R, names, data, crashes = 0) /\ NoRoot(q.steps)
    BY <2>1, <2>7, <2>9
  <2> QED
    BY <2>10 DEF q
<1> QED
  BY <1>3, <1>4, <1>5

\* A namespace is entered in a free block before anything else is done.
LEMMA RootFirst ==
    ASSUME Ready, NEW b \in BlockIds, root[b] = None, NEW ns \in Spaces,
           \A c \in BlockIds : root[c] # ns, NEW p, NoRoot(p),
           \A R \in RootSectors : GoodPlan(p, R, names, data, crashes = 0)
    PROVE  GoodCall(<<PutRoot(b, ns)>> \o p)
<1> DEFINE o == PutRoot(b, ns)
<1>1. o \in Op /\ o.op = "root" /\ o.b = b /\ o.ns = ns
  BY DEF Op, PutRoot
<1>2. root \in RootSectors /\ names \in NameSectors /\ data \in DataSectors
  BY SectorKinds DEF Ready
<1> HIDE DEF o
<1>3. NamesAfter(o, names) = names /\ DataAfter(o, data) = data
  BY <1>1 DEF NamesAfter, DataAfter
<1>4. RootAfter(o, root) \in RootSectors
  BY <1>1, <1>2 DEF RootAfter, RootSectors
<1>5. GoodPlan(p, RootAfter(o, root), NamesAfter(o, names), DataAfter(o, data), crashes = 0)
  BY <1>3, <1>4
<1>6. o.op \notin {"entry", "data", "mask", "eraseNames"}
  BY <1>1
<1>7. /\ root[o.b] = None /\ \A c \in BlockIds : root[c] # o.ns
      /\ \A i \in DOMAIN p : p[i].op # "root"
  BY <1>1 DEF NoRoot
<1>8. GoodPlan(<<o>> \o p, root, names, data, crashes = 0)
  BY <1>1, <1>2, <1>5, <1>6, <1>7, ConsGood
<1> QED
  BY <1>8 DEF GoodCall, o

\* bk_write_data.
LEMMA WriteGood ==
    ASSUME Ready, NEW ns \in Spaces, NEW n \in Names, NEW v \in Values
    PROVE  GoodCall(bk_write_plan(ns, n, v).steps)
<1> DEFINE b == get_namespace_addr(ns)
           f == bk_set_namespace
           q == bk_write_plan(ns, n, v)
<1>1. /\ b = 0 => \A c \in BlockIds : root[c] # ns
      /\ b # 0 => b \in BlockIds
  BY SpaceAddr
<1>2. f # 0 => f \in BlockIds /\ root[f] = None
  BY FreeBlock
<1>3. root \in RootSectors
  BY SectorKinds DEF Ready
<1>4. CASE b # 0
  <2>1. q = bk_set_name_data(b, n, v)
    BY <1>4 DEF bk_write_plan
  <2> HIDE DEF q, b
  <2>2. GoodCall(q.steps)
    BY <1>1, <1>3, <1>4, <2>1, SetNameDataGood DEF GoodCall
  <2> QED
    BY <2>2 DEF q
<1>5. CASE b = 0 /\ f = 0
  <2>1. q.steps = <<>>
    BY <1>5 DEF bk_write_plan, Do
  <2> HIDE DEF q
  <2>2. GoodCall(q.steps)
    BY <2>1, EmptyPlan DEF GoodCall
  <2> QED
    BY <2>2 DEF q
<1>6. CASE b = 0 /\ f # 0
  <2> DEFINE z == bk_set_name_data(f, n, v)
  <2>1. q.steps = <<PutRoot(f, ns)>> \o z.steps
    BY <1>6 DEF bk_write_plan, Do
  <2> HIDE DEF q, f
  <2>2. f \in BlockIds /\ root[f] = None
    BY <1>2, <1>6
  <2>3. /\ \A R \in RootSectors : GoodPlan(z.steps, R, names, data, crashes = 0)
        /\ NoRoot(z.steps)
    BY <1>3, <2>2, SetNameDataGood
  <2> HIDE DEF z
  <2>4. GoodCall(<<PutRoot(f, ns)>> \o z.steps)
    BY <1>1, <1>6, <2>2, <2>3, RootFirst
  <2>5. GoodCall(q.steps)
    BY <2>1, <2>4
  <2> QED
    BY <2>5 DEF q
<1> QED
  BY <1>4, <1>5, <1>6

\* bk_clean_data.
LEMMA CleanGood ==
    ASSUME Ready, NEW ns \in Spaces, NEW n \in Names
    PROVE  GoodCall(bk_clean_plan(ns, n).steps)
<1> DEFINE b == get_namespace_addr(ns)
           s == IF b = 0 THEN 0 ELSE get_name_addr(n, names[b])
           q == bk_clean_plan(ns, n)
<1>1. CASE s = 0
  <2>1. q.steps = <<>>
    BY <1>1 DEF bk_clean_plan, Do
  <2> HIDE DEF q
  <2>2. GoodCall(q.steps)
    BY <2>1, EmptyPlan DEF GoodCall
  <2> QED
    BY <2>2 DEF q
<1>2. CASE s # 0
  <2>1. q.steps = <<Mask(b, s)>>
    BY <1>2 DEF bk_clean_plan, Do
  <2>2. b # 0 /\ s = get_name_addr(n, names[b])
    BY <1>2
  <2>3. b \in BlockIds
    BY <2>2, SpaceAddr
  <2>4. s \in 1 .. Slots /\ names[b][s].flag = "USING"
    BY <1>2, <2>2, NameAddr
  <2> HIDE DEF q, b, s
  <2>5. NoRoot(<<>>) /\ root \in RootSectors
    BY SectorKinds DEF NoRoot, Ready
  <2>6. GoodPlan(<<Mask(b, s)>> \o <<>>, root, names, data, crashes = 0)
    BY <2>3, <2>4, <2>5, EmptyPlan, MaskFirst
  <2>7. Mask(b, s) \in Op
    BY <2>3, <2>4 DEF Op, Mask
  <2>8. <<Mask(b, s)>> \o <<>> = <<Mask(b, s)>>
    BY <2>7
  <2>9. GoodCall(q.steps)
    BY <2>1, <2>6, <2>8 DEF GoodCall
  <2> QED
    BY <2>9 DEF q
<1> QED
  BY <1>1, <1>2

\* bk_ensure_namespace.
LEMMA EnsureGood ==
    ASSUME Ready, NEW ns \in Spaces
    PROVE  GoodCall(bk_ensure_plan(ns).steps)
<1> DEFINE f == bk_set_namespace
           q == bk_ensure_plan(ns)
<1>1. CASE get_namespace_addr(ns) # 0 \/ f = 0
  <2>1. q.steps = <<>>
    BY <1>1 DEF bk_ensure_plan, Do
  <2> HIDE DEF q
  <2>2. GoodCall(q.steps)
    BY <2>1, EmptyPlan DEF GoodCall
  <2> QED
    BY <2>2 DEF q
<1>2. CASE get_namespace_addr(ns) = 0 /\ f # 0
  <2>1. q.steps = <<PutRoot(f, ns)>>
    BY <1>2 DEF bk_ensure_plan, Do
  <2>2. f \in BlockIds /\ root[f] = None /\ \A c \in BlockIds : root[c] # ns
    BY <1>2, FreeBlock, SpaceAddr
  <2> HIDE DEF q, f
  <2>3. NoRoot(<<>>)
    BY DEF NoRoot
  <2>4. GoodCall(<<PutRoot(f, ns)>> \o <<>>)
    BY <2>2, <2>3, EmptyPlan, RootFirst
  <2>5. PutRoot(f, ns) \in Op
    BY <2>2 DEF Op, PutRoot
  <2>6. <<PutRoot(f, ns)>> \o <<>> = <<PutRoot(f, ns)>>
    BY <2>5
  <2>7. GoodCall(q.steps)
    BY <2>1, <2>4, <2>6
  <2> QED
    BY <2>7 DEF q
<1> QED
  BY <1>1, <1>2

\* What bK_clear_namespace has to write back after the first k blocks: the
\* namespaces of some of them, each in its own block.
OthersTo(p, k) ==
    /\ p \in Seq(Op)
    /\ \A i \in DOMAIN p : p[i].op = "root" /\ p[i].b <= k /\ p[i].ns = root[p[i].b]
    /\ \A i, j \in DOMAIN p : i < j => p[i].b # p[j].b

OthersStep(p, b, i) ==
    IF i = b \/ root[i] = None THEN p ELSE Append(p, PutRoot(i, root[i]))

LEMMA OthersOne ==
    ASSUME Sectors, NEW b, NEW k \in Nat, k + 1 \in BlockIds, NEW p, OthersTo(p, k)
    PROVE  OthersTo(OthersStep(p, b, k + 1), k + 1)
<1> DEFINE o == PutRoot(k + 1, root[k + 1])
           q == OthersStep(p, b, k + 1)
<1>1. /\ p \in Seq(Op)
      /\ \A i \in DOMAIN p : p[i].op = "root" /\ p[i].b <= k /\ p[i].ns = root[p[i].b]
      /\ \A i, j \in DOMAIN p : i < j => p[i].b # p[j].b
  BY DEF OthersTo
<1>2. \A i \in DOMAIN p : p[i].b \in BlockIds /\ p[i].b \in Nat
  <2>1. \A i \in DOMAIN p : p[i] \in Op
    BY <1>1
  <2>2. \A i \in DOMAIN p : p[i].b \in BlockIds
    BY <1>1, <2>1, OpFields
  <2> QED
    BY <2>2, StoreAssumption DEF BlockIds
<1>3. \A i \in DOMAIN p : p[i].b <= k + 1 /\ p[i].b # k + 1
  BY <1>1, <1>2
<1>4. CASE k + 1 = b \/ root[k + 1] = None
  <2>1. q = p
    BY <1>4 DEF OthersStep
  <2> HIDE DEF q
  <2>2. OthersTo(q, k + 1)
    BY <1>1, <1>3, <2>1 DEF OthersTo
  <2> QED
    BY <2>2 DEF q
<1>5. CASE ~(k + 1 = b \/ root[k + 1] = None)
  <2>1. q = Append(p, o)
    BY <1>5 DEF OthersStep
  <2>2. root[k + 1] \in Spaces
    BY <1>5 DEF Sectors
  <2>3. o \in Op /\ o.op = "root" /\ o.b = k + 1 /\ o.ns = root[o.b]
    BY <2>2 DEF Op, PutRoot
  <2> DEFINE L == Len(p)
  <2> HIDE DEF o, q
  <2>4. /\ L \in Nat /\ DOMAIN p = 1 .. L /\ q \in Seq(Op) /\ DOMAIN q = 1 .. (L + 1)
        /\ q[L + 1] = o /\ \A i \in 1 .. L : q[i] = p[i]
    BY <1>1, <2>1, <2>3
  <2>5. \A i \in DOMAIN q : (i \in DOMAIN p /\ q[i] = p[i]) \/ (i = L + 1 /\ q[i] = o)
    BY <2>4
  <2>6. \A i \in DOMAIN q : q[i].op = "root" /\ q[i].b <= k + 1 /\ q[i].ns = root[q[i].b]
    BY <1>1, <1>3, <2>3, <2>5
  <2>7. \A i, j \in DOMAIN q : i < j => i # L + 1
    BY <2>4
  <2>8. \A i, j \in DOMAIN q : i < j => q[i].b # q[j].b
    BY <1>1, <1>3, <2>3, <2>5, <2>7
  <2>9. OthersTo(q, k + 1)
    BY <2>4, <2>6, <2>8 DEF OthersTo
  <2> QED
    BY <2>9 DEF q
<1> QED
  BY <1>4, <1>5

\* The loop, round by round.
OthersRounds(U, b) == /\ U[0] = <<>>
                      /\ \A i \in BlockIds : U[i] = OthersStep(U[i - 1], b, i)

LEMMA OthersLoop ==
    ASSUME NEW b
    PROVE  \E U : OthersRounds(U, b) /\ Others(b) = U[Blocks]
<1> DEFINE IsUpto(f, m) == f = [i \in 0 .. m |-> IF i = 0 THEN <<>>
                                                 ELSE OthersStep(f[i - 1], b, i)]
           S == {m \in Nat : \E f : IsUpto(f, m)}
<1>1. Blocks \in Nat
  BY StoreAssumption
<1>3. 0 \in S
  <2> DEFINE f == [i \in 0 .. 0 |-> <<>>]
  <2>1. IsUpto(f, 0)
    OBVIOUS
  <2> HIDE DEF f
  <2> QED
    BY <2>1
<1>4. ASSUME NEW m \in Nat, m >= 0, m \in S PROVE m + 1 \in S
  <2>1. PICK f : IsUpto(f, m)
    BY <1>4
  <2> DEFINE q == OthersStep(f[m], b, m + 1)
             g == [i \in 0 .. (m + 1) |-> IF i = m + 1 THEN q ELSE f[i]]
  <2>2. \A i \in 0 .. m : f[i] = IF i = 0 THEN <<>> ELSE OthersStep(f[i - 1], b, i)
    BY <2>1
  <2>3. g[m + 1] = q /\ \A i \in 0 .. m : g[i] = f[i]
    BY <1>4
  <2>4. ASSUME NEW i \in 0 .. (m + 1)
        PROVE  g[i] = IF i = 0 THEN <<>> ELSE OthersStep(g[i - 1], b, i)
    <3>1. CASE i = m + 1
      <4>1. g[i - 1] = f[m] /\ i # 0
        BY <2>3, <3>1
      <4> QED
        BY <2>3, <3>1, <4>1
    <3>2. CASE i # m + 1
      <4>1. i \in 0 .. m /\ (i # 0 => i - 1 \in 0 .. m)
        BY <3>2
      <4> QED
        BY <2>2, <2>3, <4>1
    <3> QED
      BY <3>1, <3>2
  <2>5. g = [i \in 0 .. (m + 1) |-> g[i]]
    OBVIOUS
  <2> HIDE DEF g
  <2>6. IsUpto(g, m + 1)
    BY <2>4, <2>5
  <2> QED
    BY <2>6
<1> HIDE DEF S
<1>5. Blocks \in S
  BY <1>1, <1>3, <1>4, InductionFrom
<1> DEFINE U == CHOOSE h : IsUpto(h, Blocks)
<1>6. IsUpto(U, Blocks)
  BY <1>5 DEF S
<1>7. Others(b) = U[Blocks]
  BY DEF Others, OthersStep
<1> HIDE DEF U
<1>8. \A i \in 0 .. Blocks : U[i] = IF i = 0 THEN <<>> ELSE OthersStep(U[i - 1], b, i)
  BY <1>6
<1>9. U[0] = <<>> /\ \A i \in BlockIds : U[i] = OthersStep(U[i - 1], b, i)
  <2>1. 0 \in 0 .. Blocks /\ \A i \in BlockIds : i \in 0 .. Blocks /\ i # 0
    BY <1>1 DEF BlockIds
  <2> QED
    BY <1>8, <2>1
<1> QED
  BY <1>7, <1>9 DEF OthersRounds

LEMMA OthersAll ==
    ASSUME Sectors, NEW b
    PROVE  OthersTo(Others(b), Blocks)
<1>1. Blocks \in Nat
  BY StoreAssumption
<1>2. OthersTo(<<>>, 0)
  <2>1. <<>> \in Seq(Op) /\ DOMAIN <<>> = {}
    OBVIOUS
  <2> QED
    BY <2>1 DEF OthersTo
<1>7. PICK U : OthersRounds(U, b) /\ Others(b) = U[Blocks]
  BY OthersLoop
<1>8. U[0] = <<>> /\ \A i \in BlockIds : U[i] = OthersStep(U[i - 1], b, i)
  BY <1>7 DEF OthersRounds
<1> DEFINE G == {m \in Nat : m > Blocks \/ OthersTo(U[m], m)}
<1>9. 0 \in G
  BY <1>1, <1>2, <1>8
<1>10. ASSUME NEW m \in Nat, m >= 0, m \in G PROVE m + 1 \in G
  <2>1. CASE m + 1 > Blocks
    BY <2>1
  <2>2. CASE m + 1 <= Blocks
    <3>1. m + 1 \in BlockIds /\ m + 1 \in 0 .. Blocks /\ ~(m > Blocks) /\ (m + 1) - 1 = m
      BY <1>1, <2>2 DEF BlockIds
    <3>2. OthersTo(U[m], m)
      BY <1>10, <3>1
    <3>3. U[m + 1] = OthersStep(U[m], b, m + 1)
      BY <1>8, <3>1
    <3>4. OthersTo(U[m + 1], m + 1)
      BY <3>1, <3>2, <3>3, OthersOne
    <3> QED
      BY <3>4
  <2> QED
    BY <1>1, <2>1, <2>2
<1> HIDE DEF G
<1>11. Blocks \in G
  BY <1>1, <1>9, <1>10, InductionFrom
<1> QED
  BY <1>1, <1>7, <1>11 DEF G

\* bK_clear_namespace.
LEMMA ClearGood ==
    ASSUME Ready, NEW ns \in Spaces
    PROVE  GoodCall(bk_clear_plan(ns).steps)
<1> DEFINE b == get_namespace_addr(ns)
           q == bk_clear_plan(ns)
           p == Others(b)
           o1 == EraseNames(b)
           o2 == EraseData(b)
           o3 == EraseRoot
           R0 == [c \in BlockIds |-> None]
<1>1. CASE b = 0
  <2>1. q.steps = <<>>
    BY <1>1 DEF bk_clear_plan, Do
  <2> HIDE DEF q
  <2>2. GoodCall(q.steps)
    BY <2>1, EmptyPlan DEF GoodCall
  <2> QED
    BY <2>2 DEF q
<1>2. CASE b # 0
  <2>1. b \in BlockIds
    BY <1>2, SpaceAddr
  <2>2. q.steps = <<o1, o2, o3>> \o p
    BY <1>2 DEF bk_clear_plan, Do
  <2>3. root \in RootSectors /\ names \in NameSectors /\ data \in DataSectors
    BY SectorKinds DEF Ready
  <2>4. OthersTo(p, Blocks)
    BY OthersAll DEF Ready
  <2> HIDE DEF q, b, p
  <2>5. /\ o1 \in Op /\ o1.op = "eraseNames" /\ o1.b = b
        /\ o2 \in Op /\ o2.op = "eraseData" /\ o2.b = b
        /\ o3 \in Op /\ o3.op = "eraseRoot"
    BY <2>1 DEF Op, EraseNames, EraseData, EraseRoot
  <2> HIDE DEF o1, o2, o3
  <2>6. R0 \in RootSectors
    BY DEF RootSectors
  <2>7. \A N, D : GoodPlan(p, R0, N, D, crashes = 0)
    <3>1. /\ p \in Seq(Op)
          /\ \A i \in DOMAIN p : p[i].op = "root" /\ p[i].ns = root[p[i].b]
          /\ \A i, j \in DOMAIN p : i < j => p[i].b # p[j].b
      BY <2>4 DEF OthersTo
    <3>2. \A i \in DOMAIN p : p[i] \in Op
      BY <3>1
    <3>3. \A i \in DOMAIN p : p[i].b \in BlockIds /\ p[i].ns \in Spaces /\ p[i].ns # None
      BY <3>1, <3>2, OpFields, StoreAssumption, SMTT(30)
    <3>4. \A i, j \in DOMAIN p : i < j => p[i].ns # p[j].ns
      BY <3>1, <3>3 DEF Ready, OneBlock
    <3>5. RootPlan(p, R0)
      BY <3>1, <3>3, <3>4 DEF RootPlan
    <3>6. \A N, D : EntryPlan(p, N) /\ MaskPlan(p, N) /\ DataPlan(p, D)
      BY <3>1 DEF EntryPlan, MaskPlan, DataPlan
    <3> QED
      BY <3>1, <3>5, <3>6 DEF GoodPlan
  <2>8. p \in Seq(Op)
    BY <2>4 DEF OthersTo
  <2>9. <<o1, o2, o3>> \o p = <<o1>> \o (<<o2>> \o (<<o3>> \o p))
    BY <2>5, <2>8, ThreeAndMore, SMTT(30)
  <2>10. ASSUME NEW N \in NameSectors, NEW D \in DataSectors
         PROVE  GoodPlan(<<o3>> \o p, root, N, D, crashes = 0)
    <3>1. RootAfter(o3, root) = R0
      BY <2>5 DEF RootAfter
    <3> HIDE DEF R0
    <3>2. GoodPlan(p, RootAfter(o3, root), NamesAfter(o3, N), DataAfter(o3, D), crashes = 0)
      BY <2>7, <3>1
    <3>3. o3.op \notin {"entry", "data", "mask", "root", "eraseNames"}
      BY <2>5
    <3> QED
      BY <2>3, <2>5, <3>2, <3>3, ConsGood
  <2>11. ASSUME NEW N \in NameSectors
         PROVE  GoodPlan(<<o2>> \o (<<o3>> \o p), root, N, data, crashes = 0)
    <3>1. RootAfter(o2, root) = root /\ NamesAfter(o2, N) = N
      BY <2>5 DEF RootAfter, NamesAfter
    <3>2. DataAfter(o2, data) \in DataSectors
      BY <2>3, <2>5, CellsAfter
    <3>3. GoodPlan(<<o3>> \o p, RootAfter(o2, root), NamesAfter(o2, N),
                   DataAfter(o2, data), crashes = 0)
      BY <2>10, <3>1, <3>2
    <3>4. o2.op \notin {"entry", "data", "mask", "root", "eraseNames"}
      BY <2>5
    <3> QED
      BY <2>3, <2>5, <3>3, <3>4, ConsGood
  <2>12. GoodPlan(<<o1>> \o (<<o2>> \o (<<o3>> \o p)), root, names, data, crashes = 0)
    <3> DEFINE z == <<o2>> \o (<<o3>> \o p)
    <3>1. RootAfter(o1, root) = root /\ DataAfter(o1, data) = data
      BY <2>5 DEF RootAfter, DataAfter
    <3>2. NamesAfter(o1, names) \in NameSectors
      BY <2>3, <2>5, SlotsAfter
    <3>3. GoodPlan(z, RootAfter(o1, root), NamesAfter(o1, names),
                   DataAfter(o1, data), crashes = 0)
      BY <2>11, <3>1, <3>2
    <3>4. o1.op \notin {"entry", "data", "mask", "root"}
      BY <2>5
    <3>5. <<o3>> \o p \in Seq(Op)
      BY <2>5, <2>8, ConsPlan
    <3>6. \E j \in DOMAIN z : Is(z[j], "eraseData", o1.b)
      <4>1. z[1] = o2 /\ 1 \in DOMAIN z
        BY <2>5, <3>5, ConsPlan
      <4> HIDE DEF z
      <4> QED
        BY <2>5, <4>1 DEF Is
    <3> HIDE DEF z
    <3>7. GoodPlan(<<o1>> \o z, root, names, data, crashes = 0)
      BY <2>3, <2>5, <3>3, <3>4, <3>6, ConsGood
    <3> QED
      BY <3>7 DEF z
  <2>13. GoodCall(q.steps)
    BY <2>2, <2>9, <2>12 DEF GoodCall
  <2> QED
    BY <2>13 DEF q
<1> QED
  BY <1>1, <1>2

\* What bk_erase_all does: the root, the names of every block, the data of every
\* block.
LEMMA ErasePlan ==
    LET q == bk_erase_plan.steps
    IN  /\ q \in Seq(Op)
        /\ \A i \in DOMAIN q : q[i].op \in {"eraseRoot", "eraseNames", "eraseData"}
        /\ \A i \in DOMAIN q : q[i].op = "eraseNames" => i - 1 \in BlockIds
        /\ 1 \in DOMAIN q /\ q[1].op = "eraseRoot"
        /\ \A b \in BlockIds : b + 1 \in DOMAIN q /\ Is(q[b + 1], "eraseNames", b)
        /\ \A b \in BlockIds : /\ (Blocks + 1) + b \in DOMAIN q
                               /\ Is(q[(Blocks + 1) + b], "eraseData", b)
<1> DEFINE A == [b \in BlockIds |-> EraseNames(b)]
           C == [b \in BlockIds |-> EraseData(b)]
           q == bk_erase_plan.steps
<1>1. \A b \in BlockIds : /\ EraseNames(b) \in Op /\ EraseNames(b).op = "eraseNames"
                          /\ EraseNames(b).b = b
                          /\ EraseData(b) \in Op /\ EraseData(b).op = "eraseData"
                          /\ EraseData(b).b = b
  BY DEF Op, EraseNames, EraseData
<1>2. EraseRoot \in Op /\ EraseRoot.op = "eraseRoot"
  BY DEF Op, EraseRoot
<1>3. Blocks \in Nat /\ BlockIds = 1 .. Blocks
  BY StoreAssumption DEF BlockIds
<1>4. A \in [1 .. Blocks -> Op] /\ C \in [1 .. Blocks -> Op]
  BY <1>1, <1>3
<1>5. /\ \A b \in 1 .. Blocks : A[b].op = "eraseNames" /\ A[b].b = b
      /\ \A b \in 1 .. Blocks : C[b].op = "eraseData" /\ C[b].b = b
  BY <1>1, <1>3
<1>6. q = (<<EraseRoot>> \o A) \o C
  BY DEF bk_erase_plan, Do
<1> HIDE DEF A, C, q
<1>7. A \in Seq(Op) /\ Len(A) = Blocks /\ C \in Seq(Op) /\ Len(C) = Blocks
  BY <1>3, <1>4
<1> DEFINE a == <<EraseRoot>> \o A
<1>8. /\ a \in Seq(Op) /\ a[1] = EraseRoot /\ DOMAIN a = 1 .. (Blocks + 1)
      /\ DOMAIN A = 1 .. Blocks /\ \A i \in DOMAIN A : a[i + 1] = A[i]
  BY <1>2, <1>7, ConsPlan
<1>9. q = a \o C
  BY <1>6
<1> HIDE DEF a
<1>10. Len(a) = Blocks + 1
  BY <1>3, <1>8
<1>11. /\ q \in Seq(Op) /\ DOMAIN q = 1 .. ((Blocks + 1) + Blocks)
       /\ \A i \in 1 .. (Blocks + 1) : q[i] = a[i]
       /\ \A i \in 1 .. Blocks : q[(Blocks + 1) + i] = C[i]
  BY <1>7, <1>8, <1>9, <1>10, PlanPlaces, SMTT(30)
<1>12. /\ 1 \in DOMAIN q /\ 1 \in 1 .. (Blocks + 1)
       /\ \A b \in BlockIds : /\ b \in 1 .. Blocks /\ b + 1 \in 1 .. (Blocks + 1)
                              /\ b + 1 \in DOMAIN q /\ (Blocks + 1) + b \in DOMAIN q
  BY <1>3, <1>11
<1>13. /\ q[1].op = "eraseRoot"
       /\ \A b \in BlockIds : Is(q[b + 1], "eraseNames", b)
       /\ \A b \in BlockIds : Is(q[(Blocks + 1) + b], "eraseData", b)
  BY <1>2, <1>5, <1>8, <1>11, <1>12 DEF Is
<1>14. ASSUME NEW i \in DOMAIN q
       PROVE  /\ q[i].op \in {"eraseRoot", "eraseNames", "eraseData"}
              /\ q[i].op = "eraseNames" => i - 1 \in BlockIds
  <2>1. \/ i = 1
        \/ i - 1 \in BlockIds /\ (i - 1) + 1 = i
        \/ i - (Blocks + 1) \in BlockIds /\ (Blocks + 1) + (i - (Blocks + 1)) = i
    BY <1>3, <1>11
  <2>2. CASE i = 1
    BY <1>13, <2>2
  <2>3. CASE i - 1 \in BlockIds /\ (i - 1) + 1 = i
    <3>1. Is(q[(i - 1) + 1], "eraseNames", i - 1)
      BY <1>13, <2>3
    <3> QED
      BY <2>3, <3>1 DEF Is
  <2>4. CASE i - (Blocks + 1) \in BlockIds /\ (Blocks + 1) + (i - (Blocks + 1)) = i
    <3>1. Is(q[(Blocks + 1) + (i - (Blocks + 1))], "eraseData", i - (Blocks + 1))
      BY <1>13, <2>4
    <3> QED
      BY <2>4, <3>1 DEF Is
  <2> QED
    BY <2>1, <2>2, <2>3, <2>4
<1> QED
  BY <1>11, <1>12, <1>13, <1>14 DEF q

\* bk_erase_all.
LEMMA EraseGood ==
    GoodCall(bk_erase_plan.steps)
<1> DEFINE q == bk_erase_plan.steps
<1>1. /\ q \in Seq(Op)
      /\ \A i \in DOMAIN q : q[i].op \in {"eraseRoot", "eraseNames", "eraseData"}
      /\ \A i \in DOMAIN q : q[i].op = "eraseNames" => i - 1 \in BlockIds
      /\ \A b \in BlockIds : b + 1 \in DOMAIN q /\ Is(q[b + 1], "eraseNames", b)
      /\ \A b \in BlockIds : /\ (Blocks + 1) + b \in DOMAIN q
                             /\ Is(q[(Blocks + 1) + b], "eraseData", b)
  BY ErasePlan
<1> HIDE DEF q
<1>2. EntryPlan(q, names) /\ MaskPlan(q, names) /\ RootPlan(q, root)
  BY <1>1 DEF EntryPlan, MaskPlan, RootPlan
<1>3. ASSUME NEW i \in DOMAIN q, q[i].op = "eraseNames"
      PROVE  \E j \in DOMAIN q : i < j /\ Is(q[j], "eraseData", q[i].b)
  <2> DEFINE b == i - 1
             j == (Blocks + 1) + b
  <2>1. b \in BlockIds /\ b + 1 = i /\ i < j
    BY <1>1, <1>3, StoreAssumption, SMTT(30) DEF BlockIds
  <2>2. Is(q[b + 1], "eraseNames", b)
    BY <1>1, <2>1
  <2>3. q[i].b = b
    BY <2>1, <2>2 DEF Is
  <2>4. j \in DOMAIN q /\ Is(q[j], "eraseData", b)
    BY <1>1, <2>1
  <2> HIDE DEF j
  <2> QED
    BY <2>1, <2>3, <2>4
<1>4. DataPlan(q, data)
  BY <1>1, <1>3 DEF DataPlan
<1>5. GoodCall(q)
  BY <1>1, <1>2, <1>4 DEF GoodCall, GoodPlan
<1> QED
  BY <1>5 DEF q

\* Every call says whether it succeeds.
LEMMA PlansReport ==
    ASSUME NEW ns, NEW n, NEW v
    PROVE  /\ bk_write_plan(ns, n, v).ok \in BOOLEAN
           /\ bk_clean_plan(ns, n).ok \in BOOLEAN
           /\ bk_clear_plan(ns).ok \in BOOLEAN
           /\ bk_ensure_plan(ns).ok \in BOOLEAN
           /\ bk_erase_plan.ok \in BOOLEAN
<1>1. \A b, E : bk_reorganize_name_data(b, E, n, v).ok \in BOOLEAN
  BY DEF bk_reorganize_name_data, Do
<1>2. \A b, E : bk_set_name_data_new_addr(b, E, n, v).ok \in BOOLEAN
  BY <1>1 DEF bk_set_name_data_new_addr, Do
<1>3. \A b : bk_set_name_data(b, n, v).ok \in BOOLEAN
  BY <1>2 DEF bk_set_name_data, Do
<1>4. bk_write_plan(ns, n, v).ok \in BOOLEAN
  BY <1>3 DEF bk_write_plan, Do
<1>5. bk_clean_plan(ns, n).ok \in BOOLEAN
  BY DEF bk_clean_plan, Do
<1>6. bk_clear_plan(ns).ok \in BOOLEAN
  BY DEF bk_clear_plan, Do
<1>7. bk_ensure_plan(ns).ok \in BOOLEAN
  BY DEF bk_ensure_plan, Do
<1>8. bk_erase_plan.ok \in BOOLEAN
  BY DEF bk_erase_plan, Do
<1> QED
  BY <1>4, <1>5, <1>6, <1>7, <1>8

-----------------------------------------------------------------------------
(* The invariant.                                                          *)

LEMMA StoreInit == Init => StoreInv
<1> SUFFICES ASSUME Init PROVE StoreInv
  OBVIOUS
<1>1. /\ root = [b \in BlockIds |-> None]
      /\ names = [b \in BlockIds |-> EmptyNames]
      /\ data = [b \in BlockIds |-> EmptyData]
      /\ plan = <<>> /\ call = None
      /\ kept = [k \in Keys |-> None]
      /\ unsure = {} /\ crashes = 0
  BY DEF Init
<1>2. EmptyData \in [1 .. Cells -> Cell] /\ \A c \in 1 .. Cells : EmptyData[c] = Erased
  BY DEF EmptyData, Cell
<1>3. Sectors
  BY <1>1, <1>2, EmptyNamesGood DEF Sectors
<1>4. plan \in Seq(Op) /\ (call = None => plan = <<>>) /\ call \in Calls \cup {None}
  BY <1>1
<1>5. kept \in [Keys -> Values \cup {None}] /\ unsure \subseteq Keys
      /\ crashes \in 0 .. MaxCrashes
  BY <1>1, StoreAssumption
<1>6. \A b \in BlockIds : GoodNames(names[b])
  BY <1>1, EmptyNamesGood
<1>7. OneBlockPerSpace
  BY <1>1 DEF OneBlockPerSpace
<1>8. GoodPlan(plan, root, names, data, TRUE)
  BY <1>1, EmptyPlan
<1>9. Covered(plan, names, data)
  BY <1>1, <1>2 DEF Covered
<1> QED
  BY <1>3, <1>4, <1>5, <1>6, <1>7, <1>8, <1>9 DEF StoreInv, GoodPlan

\* Between two calls the next one can begin.
LEMMA ReadyBetween ==
    ASSUME StoreInv, call = None
    PROVE  Ready
  BY DEF StoreInv, Ready, OneBlock, OneBlockPerSpace

\* A call begins with a plan that can be done.
LEMMA BeginKeeps ==
    ASSUME StoreInv, NEW p, NEW changed \in SUBSET Keys, NEW v \in Values \cup {None},
           NEW risk \in SUBSET Keys, Begin(p, changed, v, risk),
           GoodCall(p.steps), p.ok \in BOOLEAN
    PROVE  StoreInv'
<1>1. /\ call = None /\ plan' = p.steps
      /\ call' = [changed |-> changed, value |-> v, risk |-> risk, ok |-> p.ok,
                  dirty |-> FALSE]
      /\ UNCHANGED <<root, names, data, kept, unsure, crashes>>
  BY DEF Begin
<1>2. call' \in Calls
  <2>1. FALSE \in BOOLEAN
    OBVIOUS
  <2> DEFINE no == FALSE
  <2>2. no \in BOOLEAN /\ call' = [changed |-> changed, value |-> v, risk |-> risk,
                                   ok |-> p.ok, dirty |-> no]
    BY <1>1, <2>1
  <2> HIDE DEF no
  <2> QED
    BY <2>2 DEF Calls
<1>3. call' # None
  BY <1>2, StoreAssumption
<1>4. /\ plan' \in Seq(Op) /\ EntryPlan(plan', names') /\ MaskPlan(plan', names')
      /\ RootPlan(plan', root') /\ (crashes' = 0 => DataPlan(plan', data'))
  BY <1>1 DEF GoodCall, GoodPlan
<1>5. crashes' = 0 => Covered(plan', names', data')
  <2> SUFFICES ASSUME crashes' = 0 PROVE Covered(plan', names', data')
    OBVIOUS
  <2>1. Ready
    BY <1>1, ReadyBetween
  <2> QED
    BY <1>1, <2>1, CellsOwned DEF Covered
<1>6. /\ Sectors' /\ kept' \in [Keys -> Values \cup {None}] /\ unsure' \subseteq Keys
      /\ crashes' \in 0 .. MaxCrashes /\ (\A b \in BlockIds : GoodNames(names[b]))'
      /\ OneBlockPerSpace'
  BY <1>1 DEF StoreInv, Sectors, OneBlockPerSpace
<1> QED
  BY <1>2, <1>3, <1>4, <1>5, <1>6 DEF StoreInv

\* Each call.
LEMMA CallKeeps ==
    ASSUME StoreInv, Call
    PROVE  StoreInv'
<1>0. None \in Values \cup {None} /\ {} \in SUBSET Keys /\ Keys \in SUBSET Keys
  OBVIOUS
<1>01. \A ns \in Spaces, n \in Names : {<<ns, n>>} \in SUBSET Keys
  BY DEF Keys
<1>02. \A ns \in Spaces : {ns} \X Names \in SUBSET Keys
  BY DEF Keys
<1>1. ASSUME NEW ns \in Spaces, NEW n \in Names, NEW v \in Values, bk_write_data(ns, n, v)
      PROVE  StoreInv'
  <2> DEFINE p == bk_write_plan(ns, n, v)
             lost == ~p.ok /\ p.steps # <<>> /\ StoredLen(ns, n) # 0
             changed == IF p.ok \/ lost THEN {<<ns, n>>} ELSE {}
             value == IF p.ok THEN v ELSE None
             risk == IF Erases(p.steps) THEN {ns} \X Names ELSE {<<ns, n>>}
  <2>1. Begin(p, changed, value, risk)
    BY <1>1 DEF bk_write_data
  <2>2. call = None
    BY <2>1 DEF Begin
  <2>3. GoodCall(p.steps) /\ p.ok \in BOOLEAN
    BY <2>2, ReadyBetween, WriteGood, PlansReport
  <2>4. changed \in SUBSET Keys /\ value \in Values \cup {None} /\ risk \in SUBSET Keys
    BY <1>0, <1>01, <1>02
  <2> HIDE DEF p, changed, value, risk
  <2> QED
    BY <2>1, <2>3, <2>4, BeginKeeps
<1>2. ASSUME NEW ns \in Spaces, NEW n \in Names, bk_clean_data(ns, n)
      PROVE  StoreInv'
  <2> DEFINE p == bk_clean_plan(ns, n)
             changed == IF p.ok THEN {<<ns, n>>} ELSE {}
  <2>1. Begin(p, changed, None, {<<ns, n>>})
    BY <1>2 DEF bk_clean_data
  <2>2. call = None
    BY <2>1 DEF Begin
  <2>3. GoodCall(p.steps) /\ p.ok \in BOOLEAN
    BY <2>2, ReadyBetween, CleanGood, PlansReport
  <2>4. changed \in SUBSET Keys
    BY <1>0, <1>01
  <2> HIDE DEF p, changed
  <2> QED
    BY <1>0, <1>01, <2>1, <2>3, <2>4, BeginKeeps
<1>3. ASSUME NEW ns \in Spaces, bK_clear_namespace(ns)
      PROVE  StoreInv'
  <2> DEFINE p == bk_clear_plan(ns)
             changed == IF p.ok THEN {ns} \X Names ELSE {}
  <2>1. Begin(p, changed, None, Keys)
    BY <1>3 DEF bK_clear_namespace
  <2>2. call = None
    BY <2>1 DEF Begin
  <2>3. GoodCall(p.steps) /\ p.ok \in BOOLEAN
    BY <2>2, ReadyBetween, ClearGood, PlansReport
  <2>4. changed \in SUBSET Keys
    BY <1>0, <1>02
  <2> HIDE DEF p, changed
  <2> QED
    BY <1>0, <2>1, <2>3, <2>4, BeginKeeps
<1>4. ASSUME NEW ns \in Spaces, bk_ensure_namespace(ns)
      PROVE  StoreInv'
  <2> DEFINE p == bk_ensure_plan(ns)
  <2>1. Begin(p, {}, None, {})
    BY <1>4 DEF bk_ensure_namespace
  <2>2. call = None
    BY <2>1 DEF Begin
  <2>3. GoodCall(p.steps) /\ p.ok \in BOOLEAN
    BY <2>2, ReadyBetween, EnsureGood, PlansReport
  <2> HIDE DEF p
  <2> QED
    BY <1>0, <2>1, <2>3, BeginKeeps
<1>5. ASSUME bk_erase_all
      PROVE  StoreInv'
  <2> DEFINE p == bk_erase_plan
  <2>1. Begin(p, Keys, None, Keys)
    BY <1>5 DEF bk_erase_all
  <2>2. GoodCall(p.steps) /\ p.ok \in BOOLEAN
    BY EraseGood, PlansReport
  <2> HIDE DEF p
  <2> QED
    BY <1>0, <2>1, <2>2, BeginKeeps
<1> QED
  BY <1>1, <1>2, <1>3, <1>4, <1>5 DEF Call

\* One operation on the flash.
LEMMA FlashStepKeeps ==
    ASSUME StoreInv, FlashStep
    PROVE  StoreInv'
<1> DEFINE o == Head(plan)
<1>1. /\ plan # <<>> /\ FlashDo(o) /\ plan' = Tail(plan)
      /\ call' = [call EXCEPT !.dirty = @ \/ ~OnErased(o)]
      /\ UNCHANGED <<kept, unsure, crashes>>
  BY DEF FlashStep
<1>2. /\ Sectors /\ plan \in Seq(Op) /\ call \in Calls
      /\ kept \in [Keys -> Values \cup {None}] /\ unsure \subseteq Keys
      /\ crashes \in 0 .. MaxCrashes
      /\ \A b \in BlockIds : GoodNames(names[b])
      /\ OneBlock(root) /\ EntryPlan(plan, names) /\ MaskPlan(plan, names)
      /\ RootPlan(plan, root)
      /\ crashes = 0 => DataPlan(plan, data) /\ Covered(plan, names, data)
  BY <1>1 DEF StoreInv, OneBlock, OneBlockPerSpace
<1>3. o = plan[1] /\ Tail(plan) \in Seq(Op)
  BY <1>1, <1>2, TailPlan, SMTT(30)
<1>4. /\ root' = RootAfter(plan[1], root)
      /\ names' = NamesAfter(plan[1], names)
      /\ data' = DataAfter(plan[1], data)
  BY <1>1, <1>3 DEF FlashDo, RootAfter, NamesAfter, DataAfter
<1>5. root \in RootSectors /\ names \in NameSectors /\ data \in DataSectors
  BY <1>2, SectorKinds
<1>6. /\ names' \in NameSectors /\ (\A b \in BlockIds : GoodNames(names'[b]))
      /\ EntryPlan(Tail(plan), names') /\ MaskPlan(Tail(plan), names')
  BY <1>1, <1>2, <1>4, <1>5, NamesStep
<1>7. root' \in RootSectors /\ OneBlock(root') /\ RootPlan(Tail(plan), root')
  BY <1>1, <1>2, <1>4, <1>5, RootStep
<1>8. data' \in DataSectors
  <2>1. plan[1] \in Op
    BY <1>1, <1>2, TailPlan
  <2> QED
    BY <1>4, <1>5, <2>1, CellsAfter
<1>9. crashes = 0 => DataPlan(Tail(plan), data') /\ Covered(Tail(plan), names', data')
  BY <1>1, <1>2, <1>4, <1>5, DataStep
<1>10. call' \in Calls
  <2> DEFINE d == call.dirty \/ ~OnErased(o)
  <2>1. d \in BOOLEAN
    OBVIOUS
  <2>2. call' = [call EXCEPT !.dirty = d]
    BY <1>1
  <2> HIDE DEF d
  <2> QED
    BY <1>2, <2>1, <2>2 DEF Calls
<1>11. call' # None
  BY <1>10, StoreAssumption
<1>12. Sectors' /\ OneBlockPerSpace'
  BY <1>6, <1>7, <1>8
     DEF Sectors, RootSectors, NameSectors, DataSectors, OneBlock, OneBlockPerSpace
<1>13. /\ plan' \in Seq(Op) /\ EntryPlan(plan', names') /\ MaskPlan(plan', names')
       /\ RootPlan(plan', root')
       /\ crashes' = 0 => DataPlan(plan', data') /\ Covered(plan', names', data')
  BY <1>1, <1>3, <1>6, <1>7, <1>9
<1>14. /\ kept' \in [Keys -> Values \cup {None}] /\ unsure' \subseteq Keys
       /\ crashes' \in 0 .. MaxCrashes
  BY <1>1, <1>2
<1> QED
  BY <1>6, <1>10, <1>11, <1>12, <1>13, <1>14 DEF StoreInv

\* Nothing of the flash changes, and no call is left.
LEMMA RestKeeps ==
    ASSUME StoreInv, UNCHANGED <<root, names, data>>, plan' = <<>>, call' = None,
           kept' \in [Keys -> Values \cup {None}], unsure' \subseteq Keys,
           crashes' \in 0 .. MaxCrashes,
           crashes' = 0 => Covered(<<>>, names, data)
    PROVE  StoreInv'
<1>1. GoodPlan(<<>>, root, names, data, TRUE)
  BY EmptyPlan
<1>2. /\ plan' \in Seq(Op) /\ EntryPlan(plan', names') /\ MaskPlan(plan', names')
      /\ RootPlan(plan', root')
      /\ crashes' = 0 => DataPlan(plan', data') /\ Covered(plan', names', data')
  BY <1>1 DEF GoodPlan
<1>3. Sectors' /\ OneBlockPerSpace' /\ (\A b \in BlockIds : GoodNames(names[b]))'
  BY DEF StoreInv, Sectors, OneBlockPerSpace
<1> QED
  BY <1>2, <1>3 DEF StoreInv

\* A call ends, or power is lost while it runs.
LEMMA ReturnKeeps ==
    ASSUME StoreInv, Return
    PROVE  StoreInv'
<1>1. /\ call # None /\ plan = <<>> /\ call' = None
      /\ kept' = [k \in Keys |-> IF k \in call.changed THEN call.value ELSE kept[k]]
      /\ unsure' \subseteq Keys
      /\ UNCHANGED <<root, names, data, plan, crashes>>
  BY DEF Return
<1>2. call.value \in Values \cup {None} /\ kept \in [Keys -> Values \cup {None}]
  BY <1>1 DEF StoreInv, Calls
<1>3. kept' \in [Keys -> Values \cup {None}]
  BY <1>1, <1>2
<1>4. plan' = <<>> /\ crashes' \in 0 .. MaxCrashes
  BY <1>1 DEF StoreInv
<1>5. crashes' = 0 => Covered(<<>>, names, data)
  BY <1>1 DEF StoreInv
<1> QED
  BY <1>1, <1>3, <1>4, <1>5, RestKeeps

LEMMA CrashKeeps ==
    ASSUME StoreInv, Crash
    PROVE  StoreInv'
<1>1. /\ call # None /\ crashes < MaxCrashes /\ crashes' = crashes + 1
      /\ plan' = <<>> /\ call' = None /\ unsure' = unsure \cup call.risk
      /\ UNCHANGED <<root, names, data, kept>>
  BY DEF Crash
<1>2. call.risk \subseteq Keys /\ unsure \subseteq Keys
  BY <1>1 DEF StoreInv, Calls
<1>3. crashes' \in 0 .. MaxCrashes /\ crashes' # 0
  BY <1>1, StoreAssumption DEF StoreInv
<1>4. kept' \in [Keys -> Values \cup {None}] /\ unsure' \subseteq Keys
  BY <1>1, <1>2 DEF StoreInv
<1> QED
  BY <1>1, <1>3, <1>4, RestKeeps

LEMMA StoreStep == StoreInv /\ [Next]_vars => StoreInv'
<1> SUFFICES ASSUME StoreInv, [Next]_vars PROVE StoreInv'
  OBVIOUS
<1>1. CASE UNCHANGED vars
  <2>1. UNCHANGED <<root, names, data, plan, call, kept, unsure, crashes>>
    BY <1>1 DEF vars
  <2> QED
    BY <2>1 DEF StoreInv, Sectors, OneBlockPerSpace
<1> QED
  BY <1>1, CallKeeps, FlashStepKeeps, ReturnKeeps, CrashKeeps DEF Next

LEMMA StoreInvariant == Spec => []StoreInv
  BY StoreInit, StoreStep, PTL DEF Spec

-----------------------------------------------------------------------------
(* Running a plan, and what a reader finds on the way.                     *)

\* R, N and D are the root, name and data sectors after each operation of plan p,
\* which begins with r, n and d.
Run(p, r, n, d, R, N, D) ==
    /\ R[0] = r /\ N[0] = n /\ D[0] = d
    /\ \A i \in 1 .. Len(p) : /\ R[i] = RootAfter(p[i], R[i - 1])
                              /\ N[i] = NamesAfter(p[i], N[i - 1])
                              /\ D[i] = DataAfter(p[i], D[i - 1])

\* What operation o programs is erased.
ErasedFor(o, R, N, D) ==
    CASE o.op = "data" -> \A i \in DOMAIN o.bytes : D[o.b][o.off + i] = Erased
      [] o.op = "entry" -> N[o.b][o.s] = NoEntry
      [] o.op = "root" -> R[o.b] = None
      [] OTHER -> TRUE

\* Nothing was programmed twice on the way.
CleanRun(p, R, N, D) ==
    \A i \in 1 .. Len(p) : ErasedFor(p[i], R[i - 1], N[i - 1], D[i - 1])

\* A block with entries E and data F holds value v under name n.
Held(E, F, n, v) ==
    \E s \in 1 .. Slots :
        /\ E[s].flag = "USING" /\ E[s].name = n /\ E[s].len = Length[v]
        /\ \A i \in 1 .. Length[v] : F[E[s].off + i] = Byte(v, i)

\* No entry is in use under name n.
Free(E, n) == \A s \in 1 .. Slots : E[s].flag = "USING" => E[s].name # n

HeldBy(E, F, n, x) == IF x = None THEN Free(E, n) ELSE Held(E, F, n, x)

\* Key k reads back x, and will if nothing but its namespace is entered: a
\* namespace without a block has no value, and will get a block without names.
Safe(R, N, D, k, x) ==
    /\ \A b \in BlockIds : R[b] = k[1] => HeldBy(N[b], D[b], k[2], x)
    /\ (\A b \in BlockIds : R[b] # k[1]) =>
           x = None /\ \A b \in BlockIds : R[b] = None => N[b] = EmptyNames

\* The namespace would get a block that was not erased.
Stray(R, N, ns) == /\ \A b \in BlockIds : R[b] # ns
                   /\ \E b \in BlockIds : R[b] = None /\ N[b] # EmptyNames

\* The rest p of the plan of call c keeps what the keys hold: those not at risk
\* at every moment power may go, the others at its end, where those the call
\* changes have the new value.  K is what was kept, and nothing is said of U.
Serves(p, r, n, d, c, K, U) ==
    \A R, N, D : Run(p, r, n, d, R, N, D) =>
        /\ \A k \in Keys \ (U \cup c.risk) : \A i \in 0 .. Len(p) :
               Safe(R[i], N[i], D[i], k, K[k])
        /\ \A k \in Keys \ U : k \notin c.changed =>
               Safe(R[Len(p)], N[Len(p)], D[Len(p)], k, K[k])
        /\ \A k \in c.changed :
               ~c.dirty /\ CleanRun(p, R, N, D) /\ ~Stray(R[Len(p)], N[Len(p)], k[1]) =>
                   Safe(R[Len(p)], N[Len(p)], D[Len(p)], k, c.value)

KeepInv ==
    IF call = None
    THEN \A k \in Keys \ unsure : Safe(root, names, data, k, kept[k])
    ELSE Serves(plan, root, names, data, call, kept, unsure)

\* The sectors on the way are sectors.
LEMMA RunSectors ==
    ASSUME NEW p \in Seq(Op), NEW r \in RootSectors, NEW n \in NameSectors,
           NEW d \in DataSectors, NEW R, NEW N, NEW D, Run(p, r, n, d, R, N, D)
    PROVE  \A i \in 0 .. Len(p) :
               R[i] \in RootSectors /\ N[i] \in NameSectors /\ D[i] \in DataSectors
<1> DEFINE S == {i \in Nat : i <= Len(p) =>
                    R[i] \in RootSectors /\ N[i] \in NameSectors /\ D[i] \in DataSectors}
<1>1. 0 \in S
  BY DEF Run
<1>2. ASSUME NEW i \in Nat, i >= 0, i \in S PROVE i + 1 \in S
  <2> SUFFICES ASSUME i + 1 <= Len(p)
               PROVE  /\ R[i + 1] \in RootSectors /\ N[i + 1] \in NameSectors
                      /\ D[i + 1] \in DataSectors
    OBVIOUS
  <2> DEFINE o == p[i + 1]
  <2>1. i + 1 \in 1 .. Len(p) /\ (i + 1) - 1 = i /\ o \in Op
    OBVIOUS
  <2>2. R[i] \in RootSectors /\ N[i] \in NameSectors /\ D[i] \in DataSectors
    BY <1>2
  <2>3. /\ R[i + 1] = RootAfter(o, R[i]) /\ N[i + 1] = NamesAfter(o, N[i])
        /\ D[i + 1] = DataAfter(o, D[i])
    BY <2>1 DEF Run
  <2> HIDE DEF o
  <2>4. RootAfter(o, R[i]) \in RootSectors
    BY <2>1, <2>2, OpFields DEF RootAfter, RootSectors
  <2> QED
    BY <2>1, <2>2, <2>3, <2>4, SlotsAfter, CellsAfter, SMTT(30)
<1> HIDE DEF S
<1>3. \A i \in Nat : i \in S
  BY <1>1, <1>2, InductionFrom
<1> QED
  BY <1>3 DEF S

\* R, N and D, to the end of plan p, are RR, NN and DD after the first operation.
Shifted(p, RR, NN, DD, R, N, D) ==
    \A i \in 0 .. Len(p) : RR[i + 1] = R[i] /\ NN[i + 1] = N[i] /\ DD[i + 1] = D[i]

\* A run of the rest is a run of the whole after its first operation, ...
LEMMA RunLonger ==
    ASSUME NEW p \in Seq(Op), p # <<>>, NEW r, NEW n, NEW d, NEW R, NEW N, NEW D,
           Run(Tail(p), RootAfter(p[1], r), NamesAfter(p[1], n), DataAfter(p[1], d), R, N, D)
    PROVE  \E RR, NN, DD :
               Run(p, r, n, d, RR, NN, DD) /\ Shifted(Tail(p), RR, NN, DD, R, N, D)
<1> DEFINE L == Len(p)
           q == Tail(p)
           RR == [i \in 0 .. L |-> IF i = 0 THEN r ELSE R[i - 1]]
           NN == [i \in 0 .. L |-> IF i = 0 THEN n ELSE N[i - 1]]
           DD == [i \in 0 .. L |-> IF i = 0 THEN d ELSE D[i - 1]]
<1>1. /\ L \in Nat \ {0} /\ DOMAIN q = 1 .. (L - 1) /\ Len(q) = L - 1
      /\ \A i \in DOMAIN q : q[i] = p[i + 1]
  BY TailPlan
<1> HIDE DEF L, q
<1>2. /\ RR[0] = r /\ \A i \in 0 .. (L - 1) : RR[i + 1] = R[i]
      /\ NN[0] = n /\ \A i \in 0 .. (L - 1) : NN[i + 1] = N[i]
      /\ DD[0] = d /\ \A i \in 0 .. (L - 1) : DD[i + 1] = D[i]
  <2>1. 0 \in 0 .. L
    BY <1>1
  <2>2. \A i \in 0 .. (L - 1) : i + 1 \in 0 .. L /\ i + 1 # 0 /\ (i + 1) - 1 = i
    BY <1>1
  <2> QED
    BY <2>1, <2>2
<1> HIDE DEF RR, NN, DD
<1>3. ASSUME NEW i \in 1 .. L
      PROVE  /\ RR[i] = RootAfter(p[i], RR[i - 1])
             /\ NN[i] = NamesAfter(p[i], NN[i - 1])
             /\ DD[i] = DataAfter(p[i], DD[i - 1])
  <2>1. i - 1 \in 0 .. (L - 1) /\ (i - 1) + 1 = i
    BY <1>1
  <2>2. RR[i] = R[i - 1] /\ NN[i] = N[i - 1] /\ DD[i] = D[i - 1]
    BY <1>2, <2>1
  <2>3. CASE i = 1
    <3>1. /\ R[0] = RootAfter(p[1], r) /\ N[0] = NamesAfter(p[1], n)
          /\ D[0] = DataAfter(p[1], d)
      BY DEF Run, q
    <3> QED
      BY <1>2, <2>2, <2>3, <3>1
  <2>4. CASE i # 1
    <3>1. /\ i - 1 \in 1 .. Len(q) /\ i - 1 \in DOMAIN q /\ (i - 1) - 1 \in 0 .. (L - 1)
          /\ ((i - 1) - 1) + 1 = i - 1
      BY <1>1, <2>4
    <3>2. q[i - 1] = p[i]
      BY <1>1, <2>1, <3>1
    <3>3. /\ R[i - 1] = RootAfter(q[i - 1], R[(i - 1) - 1])
          /\ N[i - 1] = NamesAfter(q[i - 1], N[(i - 1) - 1])
          /\ D[i - 1] = DataAfter(q[i - 1], D[(i - 1) - 1])
      BY <3>1 DEF Run, q
    <3>4. /\ R[(i - 1) - 1] = RR[i - 1] /\ N[(i - 1) - 1] = NN[i - 1]
          /\ D[(i - 1) - 1] = DD[i - 1]
      BY <1>2, <3>1
    <3> QED
      BY <2>2, <3>2, <3>3, <3>4
  <2> QED
    BY <2>3, <2>4
<1>4. Run(p, r, n, d, RR, NN, DD)
  BY <1>2, <1>3 DEF Run, L
<1>5. Shifted(q, RR, NN, DD, R, N, D)
  BY <1>1, <1>2 DEF Shifted
<1> QED
  BY <1>4, <1>5 DEF q

\* ... and the other way round.
LEMMA RunShorter ==
    ASSUME NEW p \in Seq(Op), p # <<>>, NEW r, NEW n, NEW d, NEW R, NEW N, NEW D,
           Run(p, r, n, d, R, N, D)
    PROVE  \E RR, NN, DD :
               /\ Run(Tail(p), RootAfter(p[1], r), NamesAfter(p[1], n),
                      DataAfter(p[1], d), RR, NN, DD)
               /\ \A i \in 0 .. Len(Tail(p)) :
                      RR[i] = R[i + 1] /\ NN[i] = N[i + 1] /\ DD[i] = D[i + 1]
<1> DEFINE q == Tail(p)
           L == Len(q)
           RR == [i \in 0 .. L |-> R[i + 1]]
           NN == [i \in 0 .. L |-> N[i + 1]]
           DD == [i \in 0 .. L |-> D[i + 1]]
<1>1. /\ L \in Nat /\ DOMAIN q = 1 .. L /\ Len(p) = L + 1
      /\ \A i \in DOMAIN q : q[i] = p[i + 1]
  BY TailPlan
<1> HIDE DEF L, q
<1>2. \A i \in 0 .. L : RR[i] = R[i + 1] /\ NN[i] = N[i + 1] /\ DD[i] = D[i + 1]
  OBVIOUS
<1> HIDE DEF RR, NN, DD
<1>3. /\ RR[0] = RootAfter(p[1], r) /\ NN[0] = NamesAfter(p[1], n)
      /\ DD[0] = DataAfter(p[1], d)
  <2>1. 0 \in 0 .. L /\ 1 \in 1 .. Len(p) /\ 0 + 1 = 1 /\ 1 - 1 = 0
    BY <1>1
  <2>2. RR[0] = R[1] /\ NN[0] = N[1] /\ DD[0] = D[1]
    BY <1>2, <2>1
  <2> QED
    BY <2>1, <2>2 DEF Run
<1>4. ASSUME NEW i \in 1 .. L
      PROVE  /\ RR[i] = RootAfter(q[i], RR[i - 1])
             /\ NN[i] = NamesAfter(q[i], NN[i - 1])
             /\ DD[i] = DataAfter(q[i], DD[i - 1])
  <2>1. /\ i + 1 \in 1 .. Len(p) /\ (i + 1) - 1 = (i - 1) + 1
        /\ i - 1 \in 0 .. L /\ i \in 0 .. L
    BY <1>1
  <2>2. /\ R[i + 1] = RootAfter(p[i + 1], R[(i + 1) - 1])
        /\ N[i + 1] = NamesAfter(p[i + 1], N[(i + 1) - 1])
        /\ D[i + 1] = DataAfter(p[i + 1], D[(i + 1) - 1])
    BY <2>1 DEF Run
  <2> QED
    BY <1>1, <1>2, <2>1, <2>2
<1>5. Run(q, RootAfter(p[1], r), NamesAfter(p[1], n), DataAfter(p[1], d), RR, NN, DD)
  BY <1>3, <1>4 DEF Run, L
<1> QED
  BY <1>2, <1>5 DEF q, L

\* A run of two plans, one behind the other, begins with a run of the first.
LEMMA RunFirst ==
    ASSUME NEW p \in Seq(Op), NEW q \in Seq(Op), NEW r, NEW n, NEW d,
           NEW R, NEW N, NEW D, Run(p \o q, r, n, d, R, N, D)
    PROVE  Run(p, r, n, d, R, N, D)
<1>1. /\ \A i \in 1 .. Len(p) : (p \o q)[i] = p[i]
      /\ Len(p) \in Nat /\ Len(q) \in Nat /\ Len(p \o q) = Len(p) + Len(q)
  BY PlanPlaces
<1>2. \A i \in 1 .. Len(p) : i \in 1 .. Len(p \o q)
  BY <1>1
<1> QED
  BY <1>1, <1>2 DEF Run

-----------------------------------------------------------------------------
(* What one block's operations do to its keys and to the others.           *)

\* An operation on one block leaves the others.
LEMMA OtherBlock ==
    ASSUME NEW o \in Op, NEW c \in BlockIds, o.op = "eraseRoot" \/ o.b # c,
           NEW N \in NameSectors, NEW D \in DataSectors
    PROVE  NamesAfter(o, N)[c] = N[c] /\ DataAfter(o, D)[c] = D[c]
<1> DEFINE M == NamesAfter(o, N)
           X == DataAfter(o, D)
<1>1. \A kind : kind # "eraseRoot" => ~Is(o, kind, c)
  BY DEF Is
<1> HIDE DEF M, X
<1>2. M \in NameSectors /\ \A t \in 1 .. Slots : M[c][t] = N[c][t]
  BY <1>1, SlotsAfter DEF M
<1>3. X \in DataSectors /\ \A y \in 1 .. Cells : X[c][y] = D[c][y]
  BY <1>1, CellsAfter DEF X
<1>4. M[c] = N[c]
  <2>1. M[c] \in [1 .. Slots -> EntrySet] /\ N[c] \in [1 .. Slots -> EntrySet]
    BY <1>2 DEF NameSectors
  <2> DEFINE A == M[c]
             B == N[c]
  <2>2. /\ A \in [1 .. Slots -> EntrySet] /\ B \in [1 .. Slots -> EntrySet]
        /\ \A t \in 1 .. Slots : A[t] = B[t]
    BY <1>2, <2>1
  <2> HIDE DEF A, B
  <2>3. A = [t \in 1 .. Slots |-> A[t]] /\ B = [t \in 1 .. Slots |-> B[t]]
    BY <2>2
  <2>4. [t \in 1 .. Slots |-> A[t]] = [t \in 1 .. Slots |-> B[t]]
    BY <2>2
  <2>5. A = B
    BY <2>3, <2>4
  <2> QED
    BY <2>5 DEF A, B
<1>5. X[c] = D[c]
  <2> DEFINE A == X[c]
             B == D[c]
  <2>2. /\ A \in [1 .. Cells -> Cell] /\ B \in [1 .. Cells -> Cell]
        /\ \A t \in 1 .. Cells : A[t] = B[t]
    BY <1>3 DEF DataSectors
  <2> HIDE DEF A, B
  <2>3. A = [t \in 1 .. Cells |-> A[t]] /\ B = [t \in 1 .. Cells |-> B[t]]
    BY <2>2
  <2>4. [t \in 1 .. Cells |-> A[t]] = [t \in 1 .. Cells |-> B[t]]
    BY <2>2
  <2>5. A = B
    BY <2>3, <2>4
  <2> QED
    BY <2>5 DEF A, B
<1> QED
  BY <1>4, <1>5 DEF M, X

\* Bytes that go to erased cells are there afterwards.
LEMMA CellsPut ==
    ASSUME NEW D \in DataSectors, NEW o \in Op, o.op = "data",
           o.off + Len(o.bytes) < Cells, NEW i \in 1 .. Len(o.bytes),
           D[o.b][o.off + i] = Erased
    PROVE  DataAfter(o, D)[o.b][o.off + i] = o.bytes[i]
<1> DEFINE F == [c \in 1 .. Cells |->
                   IF c - o.off \in DOMAIN o.bytes
                   THEN Program(D[o.b][c], o.bytes[c - o.off]) ELSE D[o.b][c]]
<1>1. DataAfter(o, D) = [D EXCEPT ![o.b] = F]
  BY DEF DataAfter
<1>2. o.b \in BlockIds /\ o.off \in Nat /\ o.bytes \in Seq(Cell)
  BY OpFields
<1>3. /\ o.off + i \in 1 .. Cells /\ (o.off + i) - o.off = i
      /\ DOMAIN o.bytes = 1 .. Len(o.bytes)
  BY <1>2, StoreAssumption
<1>4. F[o.off + i] = Program(D[o.b][o.off + i], o.bytes[i])
  BY <1>3
<1> HIDE DEF F
<1>5. DataAfter(o, D)[o.b] = F
  BY <1>1, <1>2 DEF DataSectors
<1> QED
  BY <1>4, <1>5 DEF Program

\* Other blocks are as they were, and so is the key in this one.
LEMMA SafeBlock ==
    ASSUME NEW r, NEW b \in BlockIds, r[b] # None, NEW N, NEW D, NEW M, NEW X,
           \A c \in BlockIds : c # b => M[c] = N[c] /\ X[c] = D[c],
           NEW k, NEW x, Safe(r, N, D, k, x),
           r[b] = k[1] /\ HeldBy(N[b], D[b], k[2], x) => HeldBy(M[b], X[b], k[2], x)
    PROVE  Safe(r, M, X, k, x)
  BY DEF Safe

\* What the entries of a name say stays as it is.
LEMMA HeldKeeps ==
    ASSUME NEW E, NEW F, NEW G, NEW H, NEW n, NEW x,
           \A t \in 1 .. Slots : E[t].flag = "USING" /\ E[t].name = n =>
               G[t] = E[t] /\ \A i \in 1 .. E[t].len : H[E[t].off + i] = F[E[t].off + i],
           \A t \in 1 .. Slots : G[t].flag = "USING" /\ G[t].name = n => E[t] = G[t],
           HeldBy(E, F, n, x)
    PROVE  HeldBy(G, H, n, x)
<1>1. CASE x = None
  BY <1>1 DEF HeldBy, Free
<1>2. CASE x # None
  <2>1. PICK s \in 1 .. Slots :
            /\ E[s].flag = "USING" /\ E[s].name = n /\ E[s].len = Length[x]
            /\ \A i \in 1 .. Length[x] : F[E[s].off + i] = Byte(x, i)
    BY <1>2 DEF HeldBy, Held
  <2>2. /\ G[s] = E[s]
        /\ \A i \in 1 .. Length[x] : H[E[s].off + i] = F[E[s].off + i]
    BY <2>1
  <2>3. \A i \in 1 .. Length[x] : H[G[s].off + i] = Byte(x, i)
    BY <2>1, <2>2
  <2>4. Held(G, H, n, x)
    BY <2>1, <2>2, <2>3 DEF Held
  <2> QED
    BY <1>2, <2>4 DEF HeldBy
<1> QED
  BY <1>1, <1>2

\* Every key but the one that is written reads back what was kept.
OthersSafe(R, N, D, ns, n) ==
    \A k \in Keys \ unsure : k # <<ns, n>> => Safe(R, N, D, k, kept[k])

\* Plan p writes v under name n of ns, or fails and leaves nothing there: the
\* other keys are safe at its end, and at every moment on the way, but for those
\* of the same namespace while its sectors are erased.
Writes(p, ok, r, n0, d0, ns, n, v) ==
    \A R, N, D : Run(p, r, n0, d0, R, N, D) =>
        /\ \A i \in 0 .. Len(p) : \A k \in Keys \ unsure :
               k # <<ns, n>> /\ (Erases(p) => k[1] # ns) => Safe(R[i], N[i], D[i], k, kept[k])
        /\ OthersSafe(R[Len(p)], N[Len(p)], D[Len(p)], ns, n)
        /\ ok /\ CleanRun(p, R, N, D) =>
               Safe(R[Len(p)], N[Len(p)], D[Len(p)], <<ns, n>>, v)
        /\ ~ok => Safe(R[Len(p)], N[Len(p)], D[Len(p)], <<ns, n>>, None)

\* A value and its entry behind everything that is in use.
LEMMA AppendWrites ==
    ASSUME NEW r \in RootSectors, NEW n0 \in NameSectors, NEW d0 \in DataSectors,
           OneBlock(r), NEW b \in BlockIds, NEW ns \in Spaces, r[b] = ns,
           NEW s \in 1 .. Slots, n0[b][s].flag = "ERASED",
           NEW x \in Nat, NEW v \in Values, x + Length[v] < Cells,
           \A t \in 1 .. Slots : n0[b][t].flag = "USING" => End(n0[b][t]) <= x,
           NEW n \in Names, Free(n0[b], n), OthersSafe(r, n0, d0, ns, n)
    PROVE  Writes(<<PutData(b, x, Bytes(v)), PutEntry(b, s, Entry(n, x, Length[v]))>>,
                  TRUE, r, n0, d0, ns, n, v)
<1> DEFINE e == Entry(n, x, Length[v])
           o1 == PutData(b, x, Bytes(v))
           o2 == PutEntry(b, s, e)
           p == <<o1, o2>>
           n2 == NamesAfter(o2, n0)
           d1 == DataAfter(o1, d0)
<1>1. /\ Length[v] \in Nat /\ Bytes(v) \in Seq(Cell) /\ Len(Bytes(v)) = Length[v]
      /\ \A i \in 1 .. Length[v] : Bytes(v)[i] = Byte(v, i)
  BY ValueBytes DEF Bytes
<1>2. /\ e \in EntrySet /\ e.flag = "USING" /\ e.name = n /\ e.off = x
      /\ e.len = Length[v]
  BY <1>1 DEF Entry, EntrySet, Flag
<1> HIDE DEF e
<1>3. /\ o1 \in Op /\ o1.op = "data" /\ o1.b = b /\ o1.off = x /\ o1.bytes = Bytes(v)
      /\ o2 \in Op /\ o2.op = "entry" /\ o2.b = b /\ o2.s = s /\ o2.e = e
  BY <1>1, <1>2 DEF Op, PutData, PutEntry
<1>4. Len(p) = 2 /\ p[1] = o1 /\ p[2] = o2
  OBVIOUS
<1> HIDE DEF o1, o2, p
<1>5. /\ RootAfter(o1, r) = r /\ RootAfter(o2, r) = r
      /\ NamesAfter(o1, n0) = n0 /\ DataAfter(o2, d1) = d1
  BY <1>3 DEF RootAfter, NamesAfter, DataAfter
<1>6. /\ d1 \in DataSectors
      /\ \A c \in BlockIds : c # b => d1[c] = d0[c]
      /\ \A c \in 1 .. Cells : c <= x => d1[b][c] = d0[b][c]
  <2>1. d1 \in DataSectors
    BY <1>3, CellsAfter
  <2>2. \A c \in BlockIds : c # b => d1[c] = d0[c]
    BY <1>3, OtherBlock
  <2>3. \A c \in 1 .. Cells : c <= x => d1[b][c] = d0[b][c]
    <3>1. \A c \in 1 .. Cells : c <= x => ~(x < c)
      BY StoreAssumption
    <3> QED
      BY <1>3, <3>1, CellsAfter DEF Is
  <2> QED
    BY <2>1, <2>2, <2>3
<1>7. /\ n2 \in NameSectors /\ n2[b][s] = e
      /\ \A c \in BlockIds : c # b => n2[c] = n0[c]
      /\ \A t \in 1 .. Slots : t # s => n2[b][t] = n0[b][t]
  <2>1. n2 = NamesAfter(o2, n0)
    OBVIOUS
  <2>2. \A c \in BlockIds : c # b => n2[c] = n0[c]
    BY <1>3, OtherBlock
  <2> HIDE DEF n2
  <2>3. n2 \in NameSectors
    BY <1>3, <2>1, SlotsAfter
  <2>4. n2[b][s] = e
    BY <1>3, <2>1, SlotsAfter, SMTT(30) DEF Is
  <2>5. \A t \in 1 .. Slots : t # s => n2[b][t] = n0[b][t]
    BY <1>3, <2>1, SlotsAfter, SMTT(30) DEF Is
  <2> QED
    BY <2>2, <2>3, <2>4, <2>5
<1>8. ASSUME NEW t \in 1 .. Slots, n0[b][t].flag = "USING"
      PROVE  /\ t # s /\ n2[b][t] = n0[b][t]
             /\ \A i \in 1 .. n0[b][t].len :
                    d1[b][n0[b][t].off + i] = d0[b][n0[b][t].off + i]
  <2>1. n0[b][t] \in EntrySet
    BY DEF NameSectors
  <2>2. /\ n0[b][t].off \in Nat /\ n0[b][t].len \in Nat
        /\ n0[b][t].off + n0[b][t].len <= x
    BY <1>8, <2>1, EntryNumbers DEF End
  <2>3. x \in Nat /\ x < Cells
    BY <1>1, StoreAssumption
  <2>4. \A i \in 1 .. n0[b][t].len : /\ n0[b][t].off + i \in 1 .. Cells
                                     /\ n0[b][t].off + i <= x
    BY <2>2, <2>3, StoreAssumption
  <2> QED
    BY <1>6, <1>7, <1>8, <2>4
<1> HIDE DEF n2, d1
<1>9. r[b] # None
  BY StoreAssumption
<1>10. \A k \in Keys \ unsure : k # <<ns, n>> => Safe(r, n0, d1, k, kept[k])
  <2> SUFFICES ASSUME NEW k \in Keys \ unsure, k # <<ns, n>>
               PROVE  Safe(r, n0, d1, k, kept[k])
    OBVIOUS
  <2>1. Safe(r, n0, d0, k, kept[k])
    BY DEF OthersSafe
  <2>2. HeldBy(n0[b], d0[b], k[2], kept[k]) => HeldBy(n0[b], d1[b], k[2], kept[k])
    BY <1>8, HeldKeeps
  <2> QED
    BY <1>6, <1>9, <2>1, <2>2, SafeBlock
<1>11. \A k \in Keys \ unsure : k # <<ns, n>> => Safe(r, n2, d1, k, kept[k])
  <2> SUFFICES ASSUME NEW k \in Keys \ unsure, k # <<ns, n>>
               PROVE  Safe(r, n2, d1, k, kept[k])
    OBVIOUS
  <2>1. Safe(r, n0, d1, k, kept[k])
    BY <1>10
  <2>2. r[b] = k[1] => k[2] # n
    BY DEF Keys
  <2>3. ASSUME r[b] = k[1], HeldBy(n0[b], d1[b], k[2], kept[k])
        PROVE  HeldBy(n2[b], d1[b], k[2], kept[k])
    <3>1. \A t \in 1 .. Slots : n0[b][t].flag = "USING" /\ n0[b][t].name = k[2] =>
              n2[b][t] = n0[b][t]
      BY <1>8
    <3>2. \A t \in 1 .. Slots : n2[b][t].flag = "USING" /\ n2[b][t].name = k[2] =>
              n0[b][t] = n2[b][t]
      BY <1>2, <1>7, <2>2, <2>3
    <3> QED
      BY <2>3, <3>1, <3>2, HeldKeeps
  <2> QED
    BY <1>7, <1>9, <2>1, <2>3, SafeBlock
<1>12. ASSUME \A i \in DOMAIN Bytes(v) : d0[b][x + i] = Erased
       PROVE  Safe(r, n2, d1, <<ns, n>>, v)
  <2>1. v # None
    BY StoreAssumption
  <2>2. \A i \in 1 .. Length[v] : d1[b][x + i] = Byte(v, i)
    <3> SUFFICES ASSUME NEW i \in 1 .. Length[v] PROVE d1[b][x + i] = Byte(v, i)
      OBVIOUS
    <3>1. i \in DOMAIN Bytes(v) /\ i \in 1 .. Len(o1.bytes)
      BY <1>1, <1>3
    <3>2. o1.off + Len(o1.bytes) < Cells
      BY <1>1, <1>3
    <3>3. d1[b][x + i] = o1.bytes[i]
      BY <1>3, <1>12, <3>1, <3>2, CellsPut DEF d1
    <3> QED
      BY <1>1, <1>3, <3>3
  <2>3. HeldBy(n2[b], d1[b], n, v)
    BY <1>2, <1>7, <2>1, <2>2 DEF HeldBy, Held
  <2>4. \A c \in BlockIds : r[c] = ns => c = b
    BY <1>9 DEF OneBlock
  <2> QED
    BY <2>3, <2>4 DEF Safe
<1> SUFFICES ASSUME NEW R, NEW N, NEW D, Run(p, r, n0, d0, R, N, D)
             PROVE  /\ \A i \in 0 .. Len(p) : \A k \in Keys \ unsure :
                           k # <<ns, n>> => Safe(R[i], N[i], D[i], k, kept[k])
                    /\ CleanRun(p, R, N, D) =>
                           Safe(R[Len(p)], N[Len(p)], D[Len(p)], <<ns, n>>, v)
  BY <1>4 DEF Writes, OthersSafe, p, o1, o2, e
<1>13. /\ R[0] = r /\ N[0] = n0 /\ D[0] = d0
       /\ R[1] = RootAfter(o1, R[0]) /\ N[1] = NamesAfter(o1, N[0])
       /\ D[1] = DataAfter(o1, D[0])
       /\ R[2] = RootAfter(o2, R[1]) /\ N[2] = NamesAfter(o2, N[1])
       /\ D[2] = DataAfter(o2, D[1])
  <2>1. 1 \in 1 .. Len(p) /\ 2 \in 1 .. Len(p) /\ 1 - 1 = 0 /\ 2 - 1 = 1
    BY <1>4
  <2> QED
    BY <1>4, <2>1 DEF Run
<1>14. /\ R[1] = r /\ N[1] = n0 /\ D[1] = d1 /\ R[2] = r /\ N[2] = n2 /\ D[2] = d1
  BY <1>5, <1>13 DEF d1, n2
<1>15. \A i \in 0 .. Len(p) : i = 0 \/ i = 1 \/ i = 2
  BY <1>4
<1>16. CleanRun(p, R, N, D) => \A i \in DOMAIN Bytes(v) : d0[b][x + i] = Erased
  <2>1. 1 \in 1 .. Len(p) /\ 1 - 1 = 0
    BY <1>4
  <2> QED
    BY <1>3, <1>4, <1>13, <2>1 DEF CleanRun, ErasedFor
<1> QED
  BY <1>4, <1>10, <1>11, <1>12, <1>13, <1>14, <1>15, <1>16 DEF OthersSafe

-----------------------------------------------------------------------------
(* What bk_reorganize_name_data leaves.                                    *)

\* Two operations more.
LEMMA RunTwoMore ==
    ASSUME NEW p \in Seq(Op), NEW o1 \in Op, NEW o2 \in Op, NEW r, NEW n, NEW d,
           NEW R, NEW N, NEW D, Run(p \o <<o1, o2>>, r, n, d, R, N, D)
    PROVE  LET z == Len(p)
           IN  /\ Run(p, r, n, d, R, N, D) /\ z \in Nat /\ Len(p \o <<o1, o2>>) = z + 2
               /\ N[z + 1] = NamesAfter(o1, N[z]) /\ N[z + 2] = NamesAfter(o2, N[z + 1])
               /\ D[z + 1] = DataAfter(o1, D[z]) /\ D[z + 2] = DataAfter(o2, D[z + 1])
               /\ ErasedFor(o1, R[z], N[z], D[z]) \/ ~CleanRun(p \o <<o1, o2>>, R, N, D)
<1> DEFINE q == <<o1, o2>>
           z == Len(p)
           pq == p \o q
<1>1. q \in Seq(Op) /\ Len(q) = 2 /\ q[1] = o1 /\ q[2] = o2
  OBVIOUS
<1> HIDE DEF q
<1>2. Run(p, r, n, d, R, N, D)
  BY <1>1, RunFirst DEF q
<1>3. /\ z \in Nat /\ Len(pq) = z + 2 /\ 1 \in 1 .. 2 /\ 2 \in 1 .. 2
      /\ \A i \in 1 .. 2 : pq[z + i] = q[i]
  <2>1. Len(p) \in Nat /\ Len(q) \in Nat /\ Len(p \o q) = Len(p) + Len(q)
    BY <1>1, PlanPlaces, SMTT(30)
  <2>2. \A i \in 1 .. Len(q) : pq[z + i] = q[i]
    BY <1>1, PlanPlaces
  <2> QED
    BY <1>1, <2>1, <2>2
<1> HIDE DEF z, pq
<1>4. pq[z + 1] = o1 /\ pq[z + 2] = o2
  BY <1>1, <1>3
<1>5. /\ z + 1 \in 1 .. Len(pq) /\ z + 2 \in 1 .. Len(pq)
      /\ (z + 1) - 1 = z /\ (z + 2) - 1 = z + 1
  BY <1>3
<1>6. /\ N[z + 1] = NamesAfter(o1, N[z]) /\ N[z + 2] = NamesAfter(o2, N[z + 1])
      /\ D[z + 1] = DataAfter(o1, D[z]) /\ D[z + 2] = DataAfter(o2, D[z + 1])
  BY <1>4, <1>5 DEF Run, pq, q
<1>7. ErasedFor(o1, R[z], N[z], D[z]) \/ ~CleanRun(pq, R, N, D)
  BY <1>4, <1>5 DEF CleanRun
<1> QED
  BY <1>2, <1>3, <1>6, <1>7 DEF z, pq, q

\* A value and its entry behind it, where the cells are erased.
LEMMA PutBehind ==
    ASSUME NEW b \in BlockIds, NEW s \in 1 .. Slots, NEW x \in Nat, NEW n \in Names,
           NEW bytes \in Seq(Cell), x + Len(bytes) < Cells,
           NEW N \in NameSectors, NEW D \in DataSectors,
           \A i \in 1 .. Len(bytes) : D[b][x + i] = Erased,
           NEW e, e = Entry(n, x, Len(bytes)),
           NEW N1, N1 = NamesAfter(PutData(b, x, bytes), N),
           NEW M, M = NamesAfter(PutEntry(b, s, e), N1),
           NEW D1, D1 = DataAfter(PutData(b, x, bytes), D),
           NEW X, X = DataAfter(PutEntry(b, s, e), D1)
    PROVE  /\ PutData(b, x, bytes) \in Op /\ PutEntry(b, s, e) \in Op
           /\ M[b][s] = e /\ \A t \in 1 .. Slots : t # s => M[b][t] = N[b][t]
           /\ \A i \in 1 .. Len(bytes) : X[b][x + i] = bytes[i]
           /\ \A c \in 1 .. Cells : c <= x \/ x + Len(bytes) < c => X[b][c] = D[b][c]
           /\ e.flag = "USING" /\ e.name = n /\ e.off = x /\ e.len = Len(bytes)
           /\ End(e) = x + Len(bytes)
<1> DEFINE o1 == PutData(b, x, bytes)
           o2 == PutEntry(b, s, e)
<1>1. /\ e \in EntrySet /\ e.flag = "USING" /\ e.name = n /\ e.off = x
      /\ e.len = Len(bytes) /\ End(e) = x + Len(bytes)
  BY DEF Entry, EntrySet, Flag, End
<1>2. /\ o1 \in Op /\ o1.op = "data" /\ o1.b = b /\ o1.off = x /\ o1.bytes = bytes
      /\ o2 \in Op /\ o2.op = "entry" /\ o2.b = b /\ o2.s = s /\ o2.e = e
  BY <1>1 DEF Op, PutData, PutEntry
<1>3. /\ N1 = NamesAfter(o1, N) /\ M = NamesAfter(o2, N1)
      /\ D1 = DataAfter(o1, D) /\ X = DataAfter(o2, D1)
  BY SMTT(30)
<1> HIDE DEF o1, o2
<1>4. N1 = N /\ X = D1
  BY <1>2, <1>3 DEF NamesAfter, DataAfter
<1>5. M[b][s] = e
  BY <1>2, <1>3, <1>4, SlotsAfter DEF Is
<1>6. \A t \in 1 .. Slots : t # s => M[b][t] = N[b][t]
  BY <1>2, <1>3, <1>4, SlotsAfter, SMTT(30) DEF Is
<1>7. \A i \in 1 .. Len(bytes) : X[b][x + i] = bytes[i]
  BY <1>2, <1>3, <1>4, CellsPut, SMTT(30)
<1>8. \A c \in 1 .. Cells : c <= x \/ x + Len(bytes) < c => X[b][c] = D[b][c]
  <2>1. \A c \in 1 .. Cells : c <= x \/ x + Len(bytes) < c =>
            ~(x < c /\ c <= x + Len(bytes))
    BY StoreAssumption
  <2> QED
    BY <1>2, <1>3, <1>4, <2>1, CellsAfter DEF Is
<1> QED
  BY <1>1, <1>2, <1>5, <1>6, <1>7, <1>8 DEF o1, o2

\* Entry g, with data H, is entry e, whose data were F, in another place.
Copied(g, H, e, F) ==
    /\ g.flag = "USING" /\ g.name = e.name /\ g.len = e.len
    /\ \A i \in 1 .. e.len : H[g.off + i] = F[e.off + i]

\* Entries G and data H of the block when the loop is through with the first k of
\* the entries E, whose data were F.
Moved(w, E, F, k, G, H) ==
    /\ \A t \in 1 .. Slots : w.used < t => G[t] = NoEntry
    /\ \A c \in 1 .. Cells : w.off < c => H[c] = Erased
    /\ \A t \in 1 .. Slots : t <= k /\ E[t].flag = "USING" =>
           \E s \in 1 .. Slots : s <= w.used /\ Copied(G[s], H, E[t], F)
    /\ \A s \in 1 .. Slots : s <= w.used =>
           G[s].flag = "USING" /\ G[s].name \in LiveTo(E, k) /\ End(G[s]) <= w.off

\* Copies are not touched by what is written behind them.
LEMMA CopiedKeeps ==
    ASSUME NEW x \in Nat, x <= Cells, NEW H, NEW X, \A c \in 1 .. Cells : c <= x => X[c] = H[c],
           NEW g \in EntrySet, End(g) <= x, NEW e, NEW F, Copied(g, H, e, F)
    PROVE  Copied(g, X, e, F)
<1>1. g.off \in Nat /\ g.len \in Nat /\ g.off + g.len <= x /\ g.len = e.len
  BY EntryNumbers DEF End, Copied
<1>2. \A i \in 1 .. e.len : g.off + i \in 1 .. Cells /\ g.off + i <= x
  BY <1>1, StoreAssumption
<1>3. \A i \in 1 .. e.len : X[g.off + i] = H[g.off + i]
  BY <1>2
<1> QED
  BY <1>3 DEF Copied

\* One round of the loop: an entry that is not in use is passed over, ...
LEMMA MovePast ==
    ASSUME NEW w, NEW E, NEW F, NEW k \in Nat, k + 1 \in 1 .. Slots, NEW G, NEW H,
           E[k + 1].flag # "USING", Moved(w, E, F, k, G, H)
    PROVE  Moved(w, E, F, k + 1, G, H)
<1>1. \A t \in 1 .. Slots : t <= k + 1 <=> t <= k \/ t = k + 1
  BY StoreAssumption
<1>2. LiveTo(E, k + 1) = LiveTo(E, k)
  BY <1>1 DEF LiveTo
<1> QED
  BY <1>1, <1>2 DEF Moved

\* ... and one in use is moved with its data.
LEMMA MoveOne ==
    ASSUME Sectors, NEW b \in BlockIds, NEW E \in [1 .. Slots -> EntrySet],
           GoodNames(E), NEW k \in Nat, k + 1 \in 1 .. Slots, E[k + 1].flag = "USING",
           NEW w, CollectedTo(w, b, E, k), NEW N \in NameSectors, NEW D \in DataSectors,
           Moved(w, E, data[b], k, N[b], D[b]),
           NEW o1, o1 = PutData(b, w.off, Content(b, E[k + 1])),
           NEW o2, o2 = PutEntry(b, w.used + 1, Entry(E[k + 1].name, w.off, E[k + 1].len)),
           NEW N1, N1 = NamesAfter(o1, N), NEW M, M = NamesAfter(o2, N1),
           NEW D1, D1 = DataAfter(o1, D), NEW X, X = DataAfter(o2, D1)
    PROVE  /\ o1 \in Op /\ o2 \in Op
           /\ Moved(WriteBackStep(w, b, E[k + 1]), E, data[b], k + 1, M[b], X[b])
<1> DEFINE f == E[k + 1]
           C == Content(b, f)
           u == w.used
           x == w.off
           e == Entry(f.name, x, f.len)
           v == WriteBackStep(w, b, f)
           F == data[b]
<1>1. u \in Nat /\ x \in Nat /\ u <= k /\ x < Cells /\ (f.flag # "ERASED" => x <= f.off)
  <2>1. k < k + 1
    OBVIOUS
  <2> QED
    BY <2>1 DEF CollectedTo
<1>2. /\ f \in EntrySet /\ f.off \in Nat /\ f.len \in Nat /\ f.off + f.len < Cells
      /\ f.name \in Names
  BY EntryNumbers DEF GoodNames, End
<1>3. /\ C \in Seq(Cell) /\ Len(C) = f.len
      /\ \A i \in 1 .. f.len : C[i] = F[f.off + i]
  <2>1. C \in Seq(Cell) /\ Len(C) = f.len
    BY <1>2, ContentBytes DEF End
  <2>2. \A i \in 1 .. f.len : C[i] = F[f.off + i]
    BY DEF Content
  <2> QED
    BY <2>1, <2>2
<1>4. v.off = x + Len(C) /\ v.used = u + 1
  BY <1>3 DEF WriteBackStep
<1>5. x + Len(C) < Cells /\ u + 1 \in 1 .. Slots
  BY <1>1, <1>2, <1>3, StoreAssumption
<1>6. /\ \A t \in 1 .. Slots : u < t => N[b][t] = NoEntry
      /\ \A c \in 1 .. Cells : x < c => D[b][c] = Erased
      /\ \A t \in 1 .. Slots : t <= k /\ E[t].flag = "USING" =>
             \E s \in 1 .. Slots : s <= u /\ Copied(N[b][s], D[b], E[t], F)
      /\ \A s \in 1 .. Slots : s <= u =>
             /\ N[b][s].flag = "USING" /\ N[b][s].name \in LiveTo(E, k)
             /\ End(N[b][s]) <= x
  BY DEF Moved
<1>7. \A s \in 1 .. Slots : N[b][s] \in EntrySet
  BY DEF NameSectors
<1>8. /\ o1 = PutData(b, x, C) /\ o2 = PutEntry(b, u + 1, e)
      /\ e = Entry(f.name, x, Len(C))
  BY <1>3
<1>81. /\ N1 = NamesAfter(PutData(b, x, C), N)
       /\ M = NamesAfter(PutEntry(b, u + 1, e), N1)
       /\ D1 = DataAfter(PutData(b, x, C), D)
       /\ X = DataAfter(PutEntry(b, u + 1, e), D1)
  BY <1>8
<1> HIDE DEF f, C, u, x, e, v, F
<1>9. /\ o1 \in Op /\ o2 \in Op
      /\ M[b][u + 1] = e /\ \A t \in 1 .. Slots : t # u + 1 => M[b][t] = N[b][t]
      /\ \A i \in 1 .. Len(C) : X[b][x + i] = C[i]
      /\ \A c \in 1 .. Cells : c <= x \/ x + Len(C) < c => X[b][c] = D[b][c]
      /\ e.flag = "USING" /\ e.name = f.name /\ e.off = x /\ e.len = Len(C)
      /\ End(e) = x + Len(C)
  <2> DEFINE y == u + 1
             n == f.name
  <2>1. /\ y \in 1 .. Slots /\ M = NamesAfter(PutEntry(b, y, e), N1)
        /\ X = DataAfter(PutEntry(b, y, e), D1) /\ n \in Names
        /\ e = Entry(n, x, Len(C)) /\ x \in Nat /\ C \in Seq(Cell)
        /\ x + Len(C) < Cells
    BY <1>1, <1>2, <1>3, <1>5, <1>8, <1>81
  <2>2. \A i \in 1 .. Len(C) : D[b][x + i] = Erased
    <3>1. \A i \in 1 .. Len(C) : x + i \in 1 .. Cells /\ x < x + i
      BY <2>1, StoreAssumption
    <3> QED
      BY <1>6, <3>1
  <2> HIDE DEF y, n
  <2>3. /\ PutData(b, x, C) \in Op /\ PutEntry(b, y, e) \in Op
        /\ M[b][y] = e /\ \A t \in 1 .. Slots : t # y => M[b][t] = N[b][t]
        /\ \A i \in 1 .. Len(C) : X[b][x + i] = C[i]
        /\ \A c \in 1 .. Cells : c <= x \/ x + Len(C) < c => X[b][c] = D[b][c]
        /\ e.flag = "USING" /\ e.name = n /\ e.off = x /\ e.len = Len(C)
        /\ End(e) = x + Len(C)
    BY <1>81, <2>1, <2>2, PutBehind, SMTT(30)
  <2> QED
    BY <1>8, <2>3 DEF y, n
<1>91. \A s \in 1 .. Slots : \A h : End(N[b][s]) <= x /\ Copied(N[b][s], D[b], h, F) =>
           Copied(N[b][s], X[b], h, F)
  <2>1. x <= Cells
    BY <1>1, StoreAssumption
  <2> SUFFICES ASSUME NEW s \in 1 .. Slots, NEW h, End(N[b][s]) <= x,
                      Copied(N[b][s], D[b], h, F)
               PROVE  Copied(N[b][s], X[b], h, F)
    OBVIOUS
  <2> DEFINE g == N[b][s]
             H == D[b]
             Y == X[b]
  <2>2. /\ g \in EntrySet /\ End(g) <= x /\ Copied(g, H, h, F)
        /\ \A c \in 1 .. Cells : c <= x => Y[c] = H[c]
    BY <1>7, <1>9
  <2> HIDE DEF g, H, Y
  <2>3. Copied(g, Y, h, F)
    BY <1>1, <2>1, <2>2, CopiedKeeps
  <2> QED
    BY <2>3 DEF g, Y
<1>10. /\ \A t \in 1 .. Slots : t <= k + 1 <=> t <= k \/ t = k + 1
       /\ \A t \in 1 .. Slots : t <= u + 1 <=> t <= u \/ t = u + 1
       /\ \A t \in 1 .. Slots : t <= u => t # u + 1
       /\ \A t \in 1 .. Slots : u + 1 < t => u < t /\ t # u + 1
       /\ \A c \in 1 .. Cells : x + Len(C) < c => x < c
       /\ x <= x + Len(C) /\ x + Len(C) \in Nat
  BY <1>1, <1>2, <1>3, StoreAssumption, SMTT(30)
<1>11. LiveTo(E, k) \subseteq LiveTo(E, k + 1) /\ f.name \in LiveTo(E, k + 1)
  BY <1>10 DEF LiveTo, f
<1>12. \A t \in 1 .. Slots : u + 1 < t => M[b][t] = NoEntry
  BY <1>6, <1>9, <1>10
<1>13. \A c \in 1 .. Cells : x + Len(C) < c => X[b][c] = Erased
  BY <1>6, <1>9, <1>10
<1>14. Copied(M[b][u + 1], X[b], f, F)
  <2>1. \A i \in 1 .. f.len : X[b][e.off + i] = F[f.off + i]
    BY <1>3, <1>9
  <2>2. Copied(e, X[b], f, F)
    BY <1>3, <1>9, <2>1 DEF Copied
  <2> QED
    BY <1>9, <2>2
<1>15. ASSUME NEW t \in 1 .. Slots, t <= k + 1, E[t].flag = "USING"
       PROVE  \E s \in 1 .. Slots : s <= u + 1 /\ Copied(M[b][s], X[b], E[t], F)
  <2>1. CASE t = k + 1
    BY <1>5, <1>10, <1>14, <2>1 DEF f
  <2>2. CASE t <= k
    <3>1. PICK s \in 1 .. Slots : s <= u /\ Copied(N[b][s], D[b], E[t], F)
      BY <1>6, <1>15, <2>2
    <3>2. M[b][s] = N[b][s] /\ Copied(N[b][s], X[b], E[t], F) /\ s <= u + 1
      BY <1>6, <1>9, <1>91, <1>10, <3>1
    <3> QED
      BY <3>2
  <2> QED
    BY <1>10, <1>15, <2>1, <2>2
<1>16. ASSUME NEW s \in 1 .. Slots, s <= u + 1
       PROVE  /\ M[b][s].flag = "USING" /\ M[b][s].name \in LiveTo(E, k + 1)
              /\ End(M[b][s]) <= x + Len(C)
  <2>1. CASE s = u + 1
    BY <1>9, <1>10, <1>11, <2>1
  <2>2. CASE s <= u
    <3>1. End(N[b][s]) \in Nat
      BY <1>7, EntryNumbers
    <3>2. M[b][s] = N[b][s] /\ End(N[b][s]) <= x + Len(C)
      BY <1>1, <1>6, <1>9, <1>10, <2>2, <3>1, SMTT(30)
    <3> QED
      BY <1>6, <1>11, <2>2, <3>2
  <2> QED
    BY <1>10, <1>16, <2>1, <2>2
<1>17. Moved(v, E, F, k + 1, M[b], X[b])
  BY <1>4, <1>12, <1>13, <1>15, <1>16 DEF Moved
<1> QED
  BY <1>9, <1>17 DEF v, F, f

\* The two sectors are erased, and the loop has gone k rounds.
Wiped(b) == <<EraseNames(b), EraseData(b)>>

LEMMA WipedPlan ==
    ASSUME NEW b \in BlockIds
    PROVE  /\ Wiped(b) \in Seq(Op) /\ Len(Wiped(b)) = 2
           /\ Wiped(b)[1] = EraseNames(b) /\ Wiped(b)[2] = EraseData(b)
           /\ EraseNames(b) \in Op /\ EraseNames(b).op = "eraseNames" /\ EraseNames(b).b = b
           /\ EraseData(b) \in Op /\ EraseData(b).op = "eraseData" /\ EraseData(b).b = b
<1>1. /\ EraseNames(b) \in Op /\ EraseNames(b).op = "eraseNames" /\ EraseNames(b).b = b
      /\ EraseData(b) \in Op /\ EraseData(b).op = "eraseData" /\ EraseData(b).b = b
  BY DEF Op, EraseNames, EraseData
<1> QED
  BY <1>1 DEF Wiped

LEMMA LoopMoves ==
    ASSUME Sectors, NEW b \in BlockIds, NEW E \in [1 .. Slots -> EntrySet],
           GoodNames(E), NEW U, Rounds(U, b, E),
           NEW r \in RootSectors, NEW n0 \in NameSectors, NEW d0 \in DataSectors
    PROVE  \A m \in 0 .. Slots : \A R, N, D :
               Run(Wiped(b) \o U[m].steps, r, n0, d0, R, N, D) =>
                   Moved(U[m], E, data[b], m, N[Len(Wiped(b) \o U[m].steps)][b],
                                              D[Len(Wiped(b) \o U[m].steps)][b])
<1> DEFINE P(m) == Wiped(b) \o U[m].steps
           Good(m) == \A R, N, D : Run(P(m), r, n0, d0, R, N, D) =>
                          Moved(U[m], E, data[b], m, N[Len(P(m))][b], D[Len(P(m))][b])
           G == {m \in Nat : m > Slots \/ Good(m)}
<1>1. Slots \in Nat
  BY StoreAssumption
<1>2. \A m \in 0 .. Slots : CollectedTo(U[m], b, E, m)
  BY RoundsCollect
<1>3. /\ U[0].steps = <<>> /\ U[0].off = 0 /\ U[0].used = 0
      /\ \A s \in 1 .. Slots : U[s] = WriteBackStep(U[s - 1], b, E[s])
  BY DEF Rounds, LoopStart
<1>4. \A m \in 0 .. Slots : U[m].steps \in Seq(Op)
  BY <1>2 DEF CollectedTo, Tight
<1>5. Good(0)
  <2> SUFFICES ASSUME NEW R, NEW N, NEW D, Run(P(0), r, n0, d0, R, N, D)
               PROVE  Moved(U[0], E, data[b], 0, N[Len(P(0))][b], D[Len(P(0))][b])
    OBVIOUS
  <2>1. P(0) = Wiped(b)
    BY <1>3, WipedPlan
  <2>2. Run(Wiped(b), r, n0, d0, R, N, D)
    BY <2>1
  <2> DEFINE p0 == P(0)
             w == Wiped(b)
  <2>21. Len(w) = 2
    BY WipedPlan
  <2>22. p0 = w
    BY <2>1
  <2> HIDE DEF P, p0, w
  <2>23. Len(p0) = 2
    BY <2>21, <2>22
  <2>3. Len(P(0)) = 2
    BY <2>23 DEF p0
  <2>4. /\ N[0] = n0 /\ N[1] = NamesAfter(EraseNames(b), N[0])
        /\ N[2] = NamesAfter(EraseData(b), N[1])
        /\ D[0] = d0 /\ D[1] = DataAfter(EraseNames(b), D[0])
        /\ D[2] = DataAfter(EraseData(b), D[1])
    <3>1. /\ 1 \in 1 .. Len(Wiped(b)) /\ 2 \in 1 .. Len(Wiped(b))
          /\ 1 - 1 = 0 /\ 2 - 1 = 1
      BY WipedPlan, SMTT(30)
    <3> QED
      BY <2>2, <3>1, WipedPlan DEF Run
  <2>5. N[2] = N[1] /\ D[1] = d0
    BY <2>4, WipedPlan DEF NamesAfter, DataAfter
  <2>6. \A t \in 1 .. Slots : N[2][b][t] = NoEntry
    BY <2>4, <2>5, WipedPlan, SlotsAfter, SMTT(30) DEF Is
  <2>7. \A c \in 1 .. Cells : D[2][b][c] = Erased
    BY <2>4, <2>5, WipedPlan, CellsAfter DEF Is
  <2>8. \A t \in 1 .. Slots : ~(t <= 0)
    BY <1>1
  <2>9. Moved(U[0], E, data[b], 0, N[2][b], D[2][b])
    BY <1>3, <2>6, <2>7, <2>8 DEF Moved
  <2> QED
    BY <2>3, <2>9
<1>6. ASSUME NEW m \in Nat, m >= 0, m \in G PROVE m + 1 \in G
  <2>1. CASE m + 1 > Slots
    BY <2>1
  <2>2. CASE m + 1 <= Slots
    <3>1. m + 1 \in 1 .. Slots /\ m \in 0 .. Slots /\ ~(m > Slots) /\ (m + 1) - 1 = m
      BY <1>1, <2>2
    <3>2. Good(m)
      BY <1>6, <3>1
    <3> DEFINE w == U[m]
               e == E[m + 1]
               o1 == PutData(b, w.off, Content(b, e))
               o2 == PutEntry(b, w.used + 1, Entry(e.name, w.off, e.len))
    <3>3. U[m + 1] = WriteBackStep(w, b, e)
      BY <1>3, <3>1
    <3>4. CollectedTo(w, b, E, m)
      BY <1>2, <3>1
    <3>5. /\ Wiped(b) \in Seq(Op) /\ w.steps \in Seq(Op) /\ P(m) \in Seq(Op)
          /\ P(m) = Wiped(b) \o w.steps
      BY <1>4, <3>1, WipedPlan, PlanPlaces
    <3> SUFFICES ASSUME NEW R, NEW N, NEW D, Run(P(m + 1), r, n0, d0, R, N, D)
                 PROVE  Moved(U[m + 1], E, data[b], m + 1,
                              N[Len(P(m + 1))][b], D[Len(P(m + 1))][b])
      BY <3>1
    <3>6. CASE e.flag # "USING"
      <4>1. U[m + 1] = w
        BY <3>3, <3>6 DEF WriteBackStep
      <4>2. P(m + 1) = P(m)
        BY <4>1
      <4>3. Moved(w, E, data[b], m, N[Len(P(m))][b], D[Len(P(m))][b])
        BY <3>2, <4>2
      <4> HIDE DEF P, Good
      <4>4. Moved(w, E, data[b], m + 1, N[Len(P(m))][b], D[Len(P(m))][b])
        BY <3>1, <3>6, <4>3, MovePast
      <4> QED
        BY <4>1, <4>2, <4>4
    <3>7. CASE e.flag = "USING"
      <4> DEFINE z == Len(P(m))
      <4>1. U[m + 1].steps = w.steps \o <<o1, o2>>
        BY <3>3, <3>7 DEF WriteBackStep
      <4>2. o1 \in Op /\ o2 \in Op
        <5>1. o1 \in Op
          <6>1. Content(b, e) \in Seq(Cell) /\ w.off \in Nat
            BY <3>1, <3>4, ContentBytes DEF GoodNames, CollectedTo
          <6> QED
            BY <6>1 DEF Op, PutData
        <5>2. o2 \in Op
          <6>1. w.off \in Nat /\ w.used \in Nat /\ w.used <= m
            BY <3>4 DEF CollectedTo
          <6>2. e \in EntrySet /\ e.name \in Names /\ e.len \in Nat
            BY <3>1, <3>7, EntryNumbers DEF GoodNames
          <6>3. w.used + 1 \in 1 .. Slots
            BY <1>1, <3>1, <6>1
          <6>4. Entry(e.name, w.off, e.len) \in EntrySet
            BY <6>1, <6>2 DEF Entry, EntrySet, Flag
          <6> QED
            BY <6>3, <6>4 DEF Op, PutEntry
        <5> QED
          BY <5>1, <5>2
      <4> HIDE DEF o1, o2
      <4>3. P(m + 1) = P(m) \o <<o1, o2>>
        <5>1. <<o1, o2>> \in Seq(Op)
          BY <4>2
        <5>2. Wiped(b) \o (w.steps \o <<o1, o2>>) = (Wiped(b) \o w.steps) \o <<o1, o2>>
          BY <3>5, <5>1, PlansAppend
        <5> QED
          BY <4>1, <5>2
      <4> HIDE DEF P
      <4>4. Run(P(m) \o <<o1, o2>>, r, n0, d0, R, N, D)
        BY <4>3
      <4>5. /\ Run(P(m), r, n0, d0, R, N, D) /\ z \in Nat /\ Len(P(m + 1)) = z + 2
            /\ N[z + 1] = NamesAfter(o1, N[z]) /\ N[z + 2] = NamesAfter(o2, N[z + 1])
            /\ D[z + 1] = DataAfter(o1, D[z]) /\ D[z + 2] = DataAfter(o2, D[z + 1])
        <5> DEFINE a == P(m)
        <5>1. a \in Seq(Op) /\ Run(a \o <<o1, o2>>, r, n0, d0, R, N, D)
          BY <3>5, <4>4
        <5> HIDE DEF a
        <5>2. /\ Run(a, r, n0, d0, R, N, D) /\ Len(a) \in Nat
              /\ Len(a \o <<o1, o2>>) = Len(a) + 2
              /\ N[Len(a) + 1] = NamesAfter(o1, N[Len(a)])
              /\ N[Len(a) + 2] = NamesAfter(o2, N[Len(a) + 1])
              /\ D[Len(a) + 1] = DataAfter(o1, D[Len(a)])
              /\ D[Len(a) + 2] = DataAfter(o2, D[Len(a) + 1])
          BY <4>2, <5>1, RunTwoMore
        <5> QED
          BY <4>3, <5>2 DEF a
      <4>6. Moved(w, E, data[b], m, N[z][b], D[z][b])
        BY <3>2, <4>5
      <4>7. N[z] \in NameSectors /\ D[z] \in DataSectors
        <5>1. z \in 0 .. Len(P(m))
          BY <4>5
        <5> QED
          BY <3>5, <4>5, <5>1, RunSectors
      <4> HIDE DEF z, Good, w, e
      <4>8. Moved(WriteBackStep(w, b, e), E, data[b], m + 1, N[z + 2][b], D[z + 2][b])
        BY <3>1, <3>4, <3>7, <4>5, <4>6, <4>7, MoveOne DEF o1, o2, e
      <4> QED
        BY <3>3, <4>5, <4>8
    <3> QED
      BY <3>6, <3>7
  <2> QED
    BY <1>1, <2>1, <2>2
<1>7. 0 \in G
  BY <1>5
<1> HIDE DEF G
<1>8. \A m \in Nat : m \in G
  BY <1>6, <1>7, InductionFrom
<1>9. \A m \in 0 .. Slots : m \in Nat /\ ~(m > Slots)
  BY <1>1
<1> QED
  BY <1>8, <1>9 DEF G

-----------------------------------------------------------------------------
(* bk_reorganize_name_data keeps the other names.                          *)

\* A plan that is about one block and enters no namespace.
OnBlock(p, b) == \A i \in DOMAIN p : p[i].b = b /\ p[i].op \notin {"root", "eraseRoot"}

LEMMA OnBlockJoin ==
    ASSUME NEW p \in Seq(Op), NEW q \in Seq(Op), NEW b, OnBlock(p, b), OnBlock(q, b)
    PROVE  OnBlock(p \o q, b)
<1> DEFINE a == p \o q
           L == Len(p)
           K == Len(q)
<1>1. /\ L \in Nat /\ K \in Nat /\ DOMAIN p = 1 .. L /\ DOMAIN q = 1 .. K
      /\ DOMAIN a = 1 .. (L + K)
      /\ \A i \in 1 .. L : a[i] = p[i]
      /\ \A i \in 1 .. K : a[L + i] = q[i]
  BY PlanPlaces
<1> HIDE DEF a, L, K
<1>2. \A i \in DOMAIN a : i \in 1 .. L \/ (i - L \in 1 .. K /\ L + (i - L) = i)
  BY <1>1
<1>3. \A i \in DOMAIN a : \/ i \in DOMAIN p /\ a[i] = p[i]
                          \/ i - L \in DOMAIN q /\ a[i] = q[i - L]
  BY <1>1, <1>2
<1>4. OnBlock(a, b)
  BY <1>3 DEF OnBlock
<1> QED
  BY <1>4 DEF a

\* It leaves the other blocks and the root.
LEMMA BlockRun ==
    ASSUME NEW p \in Seq(Op), NEW b, OnBlock(p, b),
           NEW r \in RootSectors, NEW n \in NameSectors, NEW d \in DataSectors,
           NEW R, NEW N, NEW D, Run(p, r, n, d, R, N, D)
    PROVE  \A i \in 0 .. Len(p) :
               /\ R[i] = r
               /\ \A c \in BlockIds : c # b => N[i][c] = n[c] /\ D[i][c] = d[c]
<1> DEFINE Same(i) == /\ R[i] = r
                      /\ \A c \in BlockIds : c # b => N[i][c] = n[c] /\ D[i][c] = d[c]
           S == {i \in Nat : i <= Len(p) => Same(i)}
<1>1. 0 \in S
  BY DEF Run
<1>2. ASSUME NEW i \in Nat, i >= 0, i \in S PROVE i + 1 \in S
  <2> SUFFICES ASSUME i + 1 <= Len(p) PROVE Same(i + 1)
    OBVIOUS
  <2> DEFINE o == p[i + 1]
  <2>1. /\ i + 1 \in 1 .. Len(p) /\ (i + 1) - 1 = i /\ o \in Op /\ i \in 0 .. Len(p)
        /\ i + 1 \in DOMAIN p /\ i <= Len(p)
    OBVIOUS
  <2>2. Same(i)
    BY <1>2, <2>1
  <2>3. /\ R[i + 1] = RootAfter(o, R[i]) /\ N[i + 1] = NamesAfter(o, N[i])
        /\ D[i + 1] = DataAfter(o, D[i])
    BY <2>1 DEF Run
  <2>4. N[i] \in NameSectors /\ D[i] \in DataSectors
    BY <2>1, RunSectors
  <2>5. o.b = b /\ o.op # "root" /\ o.op # "eraseRoot"
    BY <2>1 DEF OnBlock
  <2> HIDE DEF o
  <2>6. RootAfter(o, R[i]) = R[i]
    BY <2>5 DEF RootAfter
  <2>7. ASSUME NEW c \in BlockIds, c # b
        PROVE  N[i + 1][c] = N[i][c] /\ D[i + 1][c] = D[i][c]
    <3> DEFINE NN == N[i]
               DD == D[i]
    <3>1. NN \in NameSectors /\ DD \in DataSectors /\ o.b # c /\ o \in Op
      BY <2>1, <2>4, <2>5, <2>7
    <3> HIDE DEF NN, DD
    <3>2. NamesAfter(o, NN)[c] = NN[c] /\ DataAfter(o, DD)[c] = DD[c]
      BY <3>1, OtherBlock
    <3> QED
      BY <2>3, <3>2 DEF NN, DD
  <2> QED
    BY <2>2, <2>3, <2>6, <2>7
<1> HIDE DEF S
<1>3. \A i \in Nat : i \in S
  BY <1>1, <1>2, InductionFrom, SMTT(30)
<1>4. \A i \in 0 .. Len(p) : i \in Nat /\ i <= Len(p)
  OBVIOUS
<1> QED
  BY <1>3, <1>4 DEF S

\* What is held before the loop is held after it.
LEMMA MovedHeld ==
    ASSUME NEW E, NEW F, NEW w, w.used \in Nat, NEW G, NEW H,
           Moved(w, E, F, Slots, G, H), NEW m, NEW x, HeldBy(E, F, m, x)
    PROVE  HeldBy(G, H, m, x)
<1>1. Slots \in Nat /\ \A t \in 1 .. Slots : t <= Slots /\ (t <= w.used \/ w.used < t)
  BY StoreAssumption
<1>2. CASE x = None
  <2> SUFFICES ASSUME NEW s \in 1 .. Slots, G[s].flag = "USING" PROVE G[s].name # m
    BY <1>2 DEF HeldBy, Free
  <2>1. ~(w.used < s)
    BY DEF Moved, NoEntry
  <2>2. G[s].name \in LiveTo(E, Slots)
    BY <1>1, <2>1 DEF Moved
  <2> QED
    BY <1>2, <2>2 DEF LiveTo, HeldBy, Free
<1>3. CASE x # None
  <2>1. PICK t \in 1 .. Slots :
            /\ E[t].flag = "USING" /\ E[t].name = m /\ E[t].len = Length[x]
            /\ \A i \in 1 .. Length[x] : F[E[t].off + i] = Byte(x, i)
    BY <1>3 DEF HeldBy, Held
  <2>2. PICK s \in 1 .. Slots : Copied(G[s], H, E[t], F)
    BY <1>1, <2>1 DEF Moved
  <2>3. /\ G[s].flag = "USING" /\ G[s].name = m /\ G[s].len = Length[x]
        /\ \A i \in 1 .. Length[x] : H[G[s].off + i] = Byte(x, i)
    BY <2>1, <2>2 DEF Copied
  <2> QED
    BY <1>3, <2>3 DEF HeldBy, Held
<1> QED
  BY <1>2, <1>3

\* A plan that erases the sectors of the block, but ends with the other names
\* as they were and the name that is written as it should be.
Restores(p, ok, b, r, n0, d0, n, v) ==
    \A R, N, D : Run(p, r, n0, d0, R, N, D) =>
        /\ \A m, x : m # n /\ HeldBy(n0[b], d0[b], m, x) =>
               HeldBy(N[Len(p)][b], D[Len(p)][b], m, x)
        /\ HeldBy(N[Len(p)][b], D[Len(p)][b], n, IF ok THEN v ELSE None)

LEMMA RestoresWrites ==
    ASSUME NEW p \in Seq(Op), NEW ok, NEW b \in BlockIds, OnBlock(p, b), Erases(p),
           NEW r \in RootSectors, NEW n0 \in NameSectors, NEW d0 \in DataSectors,
           OneBlock(r), NEW ns \in Spaces, r[b] = ns, NEW n, NEW v,
           OthersSafe(r, n0, d0, ns, n), Restores(p, ok, b, r, n0, d0, n, v)
    PROVE  Writes(p, ok, r, n0, d0, ns, n, v)
<1> DEFINE L == Len(p)
           x == IF ok THEN v ELSE None
<1>1. r[b] # None /\ L \in 0 .. Len(p)
  BY StoreAssumption
<1> SUFFICES ASSUME NEW R, NEW N, NEW D, Run(p, r, n0, d0, R, N, D)
             PROVE  /\ \A i \in 0 .. Len(p) : \A k \in Keys \ unsure :
                           k # <<ns, n>> /\ k[1] # ns => Safe(R[i], N[i], D[i], k, kept[k])
                    /\ OthersSafe(R[L], N[L], D[L], ns, n)
                    /\ Safe(R[L], N[L], D[L], <<ns, n>>, x)
  BY SMTT(30) DEF Writes
<1>2. \A i \in 0 .. Len(p) :
          /\ R[i] = r
          /\ \A c \in BlockIds : c # b => N[i][c] = n0[c] /\ D[i][c] = d0[c]
  BY BlockRun
<1>3. /\ \A m, y : m # n /\ HeldBy(n0[b], d0[b], m, y) => HeldBy(N[L][b], D[L][b], m, y)
      /\ HeldBy(N[L][b], D[L][b], n, x)
  BY DEF Restores
<1> HIDE DEF L, x
<1>4. ASSUME NEW i \in 0 .. Len(p), NEW k \in Keys \ unsure, k # <<ns, n>>,
             k[1] # ns \/ i = L
      PROVE  Safe(R[i], N[i], D[i], k, kept[k])
  <2> DEFINE M == N[i]
             X == D[i]
             y == kept[k]
  <2>1. Safe(r, n0, d0, k, y)
    BY <1>4 DEF OthersSafe
  <2>2. \A c \in BlockIds : c # b => M[c] = n0[c] /\ X[c] = d0[c]
    BY <1>2
  <2>3. r[b] = k[1] => i = L /\ k[2] # n
    BY <1>4 DEF Keys
  <2>4. r[b] = k[1] /\ HeldBy(n0[b], d0[b], k[2], y) => HeldBy(M[b], X[b], k[2], y)
    BY <1>3, <2>3
  <2> HIDE DEF M, X, y
  <2>5. Safe(r, M, X, k, y)
    BY <1>1, <2>1, <2>2, <2>4, SafeBlock
  <2>6. R[i] = r
    BY <1>2
  <2> QED
    BY <2>5, <2>6 DEF M, X, y
<1>5. OthersSafe(R[L], N[L], D[L], ns, n)
  BY <1>1, <1>4 DEF OthersSafe
<1>6. Safe(R[L], N[L], D[L], <<ns, n>>, x)
  <2>1. R[L] = r
    BY <1>1, <1>2
  <2>2. \A c \in BlockIds : r[c] = ns => c = b
    BY <1>1 DEF OneBlock
  <2> QED
    BY <1>3, <2>1, <2>2 DEF Safe
<1> QED
  BY <1>4, <1>5, <1>6

\* Sectors M and X are N and D with bytes at x of block b and entry e in slot s.
PutIn(b, s, e, x, bytes, N, D, M, X) ==
    /\ M = NamesAfter(PutEntry(b, s, e), NamesAfter(PutData(b, x, bytes), N))
    /\ X = DataAfter(PutEntry(b, s, e), DataAfter(PutData(b, x, bytes), D))

HasPut(b, s, e, x, n, bytes, N, D, M, X) ==
    /\ M[b][s] = e /\ \A t \in 1 .. Slots : t # s => M[b][t] = N[b][t]
    /\ \A i \in 1 .. Len(bytes) : X[b][x + i] = bytes[i]
    /\ \A c \in 1 .. Cells : c <= x \/ x + Len(bytes) < c => X[b][c] = D[b][c]
    /\ e.flag = "USING" /\ e.name = n /\ e.off = x /\ e.len = Len(bytes)

LEMMA PutInBehind ==
    ASSUME NEW b \in BlockIds, NEW s \in 1 .. Slots, NEW x \in Nat, NEW n \in Names,
           NEW bytes \in Seq(Cell), x + Len(bytes) < Cells,
           NEW N \in NameSectors, NEW D \in DataSectors,
           \A i \in 1 .. Len(bytes) : D[b][x + i] = Erased,
           NEW e, e = Entry(n, x, Len(bytes)), NEW M, NEW X,
           PutIn(b, s, e, x, bytes, N, D, M, X)
    PROVE  HasPut(b, s, e, x, n, bytes, N, D, M, X)
<1> DEFINE N1 == NamesAfter(PutData(b, x, bytes), N)
           D1 == DataAfter(PutData(b, x, bytes), D)
<1>1. M = NamesAfter(PutEntry(b, s, e), N1) /\ X = DataAfter(PutEntry(b, s, e), D1)
  BY DEF PutIn
<1>2. N1 = NamesAfter(PutData(b, x, bytes), N) /\ D1 = DataAfter(PutData(b, x, bytes), D)
  OBVIOUS
<1> HIDE DEF N1, D1
<1>3. /\ PutData(b, x, bytes) \in Op /\ PutEntry(b, s, e) \in Op
      /\ M[b][s] = e /\ \A t \in 1 .. Slots : t # s => M[b][t] = N[b][t]
      /\ \A i \in 1 .. Len(bytes) : X[b][x + i] = bytes[i]
      /\ \A c \in 1 .. Cells : c <= x \/ x + Len(bytes) < c => X[b][c] = D[b][c]
      /\ e.flag = "USING" /\ e.name = n /\ e.off = x /\ e.len = Len(bytes)
      /\ End(e) = x + Len(bytes)
  BY <1>1, <1>2, PutBehind, SMTT(30)
<1> QED
  BY <1>3 DEF HasPut

\* Behind what the loop has moved, a new value and its entry.
Added(E, F, n, v, G, H) ==
    /\ \A m, y : m # n /\ HeldBy(E, F, m, y) => HeldBy(G, H, m, y)
    /\ HeldBy(G, H, n, v)

LEMMA MovedAndPut ==
    ASSUME NEW b \in BlockIds, NEW E, NEW F, NEW w, w.used \in Nat, w.off \in Nat,
           NEW N \in NameSectors, NEW D \in DataSectors,
           Moved(w, E, F, Slots, N[b], D[b]), w.used + 1 \in 1 .. Slots,
           NEW n \in Names, NEW v \in Values, w.off + Length[v] < Cells,
           NEW M, NEW X,
           PutIn(b, w.used + 1, Entry(n, w.off, Length[v]), w.off, Bytes(v), N, D, M, X)
    PROVE  Added(E, F, n, v, M[b], X[b])
<1> DEFINE B == Bytes(v)
           u == w.used + 1
           x == w.off
           e == Entry(n, x, Len(B))
<1>1. /\ B \in Seq(Cell) /\ Len(B) = Length[v] /\ Length[v] \in Nat
      /\ \A i \in 1 .. Length[v] : B[i] = Byte(v, i)
  BY ValueBytes DEF Bytes
<1>2. /\ x \in Nat /\ u \in 1 .. Slots /\ x + Len(B) < Cells
      /\ PutIn(b, u, e, x, B, N, D, M, X)
      /\ e = Entry(n, x, Len(B))
  BY <1>1
<1>3. /\ \A t \in 1 .. Slots : w.used < t => N[b][t] = NoEntry
      /\ \A c \in 1 .. Cells : x < c => D[b][c] = Erased
      /\ \A s \in 1 .. Slots : s <= w.used => End(N[b][s]) <= x
  BY DEF Moved
<1>4. /\ \A t \in 1 .. Slots : t <= w.used \/ w.used < t
      /\ \A t \in 1 .. Slots : t <= w.used => t # u
      /\ w.used < u
  BY StoreAssumption
<1> HIDE DEF B, u, x, e
<1>5. \A i \in 1 .. Len(B) : D[b][x + i] = Erased
  <2>1. \A i \in 1 .. Len(B) : x + i \in 1 .. Cells /\ x < x + i
    BY <1>1, <1>2, StoreAssumption
  <2> QED
    BY <1>3, <2>1
<1>6. /\ M[b][u] = e /\ \A t \in 1 .. Slots : t # u => M[b][t] = N[b][t]
      /\ \A i \in 1 .. Len(B) : X[b][x + i] = B[i]
      /\ \A c \in 1 .. Cells : c <= x \/ x + Len(B) < c => X[b][c] = D[b][c]
      /\ e.flag = "USING" /\ e.name = n /\ e.off = x /\ e.len = Len(B)
  <2>1. HasPut(b, u, e, x, n, B, N, D, M, X)
    BY <1>1, <1>2, <1>5, PutInBehind
  <2> QED
    BY <2>1 DEF HasPut
<1>7. ASSUME NEW m, NEW y, m # n, HeldBy(E, F, m, y)
      PROVE  HeldBy(M[b], X[b], m, y)
  <2> DEFINE G == N[b]
             H == D[b]
             J == M[b]
             Y == X[b]
  <2>1. HeldBy(G, H, m, y)
    BY <1>7, MovedHeld
  <2>2. ASSUME NEW t \in 1 .. Slots, G[t].flag = "USING"
        PROVE  /\ J[t] = G[t]
               /\ \A i \in 1 .. G[t].len : Y[G[t].off + i] = H[G[t].off + i]
    <3>1. t <= w.used
      BY <1>3, <1>4, <2>2 DEF NoEntry
    <3>2. G[t] \in EntrySet
      BY DEF NameSectors
    <3>3. G[t].off \in Nat /\ G[t].len \in Nat /\ G[t].off + G[t].len <= x
      BY <1>3, <3>1, <3>2, EntryNumbers DEF End
    <3>4. x < Cells
      BY <1>1, <1>2, StoreAssumption
    <3> DEFINE a == G[t].off
               l == G[t].len
    <3>5. a \in Nat /\ l \in Nat /\ a + l <= x
      BY <3>3
    <3> HIDE DEF a, l
    <3>6. \A i \in 1 .. l : a + i \in 1 .. Cells /\ a + i <= x
      BY <1>2, <3>4, <3>5, StoreAssumption
    <3>7. \A i \in 1 .. l : Y[a + i] = H[a + i]
      BY <1>6, <3>6
    <3> QED
      BY <1>4, <1>6, <3>1, <3>7 DEF a, l
  <2>3. \A t \in 1 .. Slots : J[t].flag = "USING" /\ J[t].name = m => G[t] = J[t]
    BY <1>6, <1>7
  <2> HIDE DEF G, H, J, Y
  <2>4. HeldBy(J, Y, m, y)
    BY <2>1, <2>2, <2>3, HeldKeeps
  <2> QED
    BY <2>4 DEF J, Y
<1>8. HeldBy(M[b], X[b], n, v)
  <2>1. v # None
    BY StoreAssumption
  <2>2. \A i \in 1 .. Length[v] : X[b][M[b][u].off + i] = Byte(v, i)
    BY <1>1, <1>6
  <2>3. M[b][u].flag = "USING" /\ M[b][u].name = n /\ M[b][u].len = Length[v]
    BY <1>1, <1>6
  <2> QED
    BY <1>2, <2>1, <2>2, <2>3 DEF HeldBy, Held
<1> QED
  BY <1>7, <1>8 DEF Added

\* bk_reorganize_name_data.
LEMMA ReorganizeWrites ==
    ASSUME Sectors, NEW b \in BlockIds, NEW E \in [1 .. Slots -> EntrySet], GoodNames(E),
           \E t \in 1 .. Slots : E[t].flag # "USING",
           NEW r \in RootSectors, OneBlock(r), NEW ns \in Spaces, r[b] = ns,
           NEW n0 \in NameSectors, n0[b] = E, NEW n \in Names, Free(E, n),
           NEW v \in Values, OthersSafe(r, n0, data, ns, n)
    PROVE  LET p == bk_reorganize_name_data(b, E, n, v)
           IN  Writes(p.steps, p.ok, r, n0, data, ns, n, v)
<1> DEFINE w == WriteBack(b, E)
           q == bk_reorganize_name_data(b, E, n, v)
           a == Wiped(b) \o w.steps
           F == data[b]
<1>1. PICK U : Rounds(U, b, E) /\ w = U[Slots]
  BY WriteBackRounds
<1>2. CollectedTo(w, b, E, Slots)
  BY WriteBackCollects
<1>3. data \in DataSectors
  BY SectorKinds
<1>4. \A R, N, D : Run(a, r, n0, data, R, N, D) =>
          Moved(w, E, F, Slots, N[Len(a)][b], D[Len(a)][b])
  <2>1. Slots \in 0 .. Slots
    BY StoreAssumption
  <2>2. \A R, N, D : Run(Wiped(b) \o U[Slots].steps, r, n0, data, R, N, D) =>
            Moved(U[Slots], E, data[b], Slots, N[Len(Wiped(b) \o U[Slots].steps)][b],
                                               D[Len(Wiped(b) \o U[Slots].steps)][b])
    BY <1>1, <1>3, <2>1, LoopMoves
  <2> HIDE DEF w
  <2> QED
    BY <1>1, <2>2
<1> HIDE DEF w
<1>5. /\ w.off \in Nat /\ w.used \in Nat /\ w.off < Cells /\ w.steps \in Seq(Op)
      /\ OnBlock(w.steps, b)
  BY <1>2 DEF CollectedTo, Tight, OnBlock
<1>6. w.used + 1 \in 1 .. Slots
  <2>1. \A t \in 1 .. Slots : t <= Slots
    BY StoreAssumption
  <2>2. w.used < Slots
    BY <1>2, <2>1 DEF CollectedTo
  <2> QED
    BY <1>5, <2>2, StoreAssumption
<1>7. a \in Seq(Op) /\ OnBlock(a, b)
  <2>1. OnBlock(Wiped(b), b)
    <3>1. \A i \in DOMAIN Wiped(b) : i = 1 \/ i = 2
      BY WipedPlan
    <3> QED
      BY <3>1, WipedPlan DEF OnBlock
  <2>2. Wiped(b) \in Seq(Op)
    BY WipedPlan
  <2> QED
    BY <1>5, <2>1, <2>2, OnBlockJoin, PlanPlaces
<1>8. 1 \in DOMAIN a /\ a[1].op = "eraseNames" /\ Len(a) \in Nat \ {0}
  <2>1. /\ Len(Wiped(b)) = 2 /\ 1 \in 1 .. Len(Wiped(b)) /\ Wiped(b)[1] = EraseNames(b)
        /\ Wiped(b) \in Seq(Op)
    BY WipedPlan
  <2> DEFINE W == Wiped(b)
             y == w.steps
  <2>2. /\ DOMAIN a = 1 .. (Len(W) + Len(y)) /\ a[1] = EraseNames(b) /\ Len(y) \in Nat
    <3>1. W \in Seq(Op) /\ y \in Seq(Op) /\ a = W \o y /\ 1 \in 1 .. Len(W)
      BY <1>5, <2>1
    <3> HIDE DEF a, W, y
    <3>2. /\ DOMAIN (W \o y) = 1 .. (Len(W) + Len(y))
          /\ \A i \in 1 .. Len(W) : (W \o y)[i] = W[i]
      BY <3>1, PlanPlaces
    <3>3. W[1] = EraseNames(b) /\ Len(y) \in Nat
      BY <2>1, <3>1 DEF W
    <3> QED
      BY <3>1, <3>2, <3>3
  <2> HIDE DEF a
  <2>3. 1 \in DOMAIN a /\ a[1].op = "eraseNames"
    BY <2>1, <2>2, WipedPlan
  <2> QED
    BY <1>7, <2>3
<1>9. HeldBy(E, F, n, None)
  BY DEF HeldBy
<1>10. CASE ~Fits(w.off, v)
  <2>1. q.steps = a /\ q.ok = FALSE
    BY <1>10 DEF bk_reorganize_name_data, Do, w, Wiped
  <2> HIDE DEF q, a
  <2>2. Restores(a, FALSE, b, r, n0, data, n, v)
    <3> SUFFICES ASSUME NEW R, NEW N, NEW D, Run(a, r, n0, data, R, N, D)
                 PROVE  /\ \A m, x : m # n /\ HeldBy(E, F, m, x) =>
                               HeldBy(N[Len(a)][b], D[Len(a)][b], m, x)
                        /\ HeldBy(N[Len(a)][b], D[Len(a)][b], n, None)
      BY DEF Restores
    <3> DEFINE G == N[Len(a)][b]
               H == D[Len(a)][b]
    <3>1. Moved(w, E, F, Slots, G, H)
      BY <1>4
    <3> HIDE DEF G, H, F
    <3>2. \A m, x : HeldBy(E, F, m, x) => HeldBy(G, H, m, x)
      BY <1>5, <3>1, MovedHeld
    <3> QED
      BY <1>9, <3>2 DEF G, H
  <2>3. Erases(a)
    BY <1>8 DEF Erases
  <2>4. Writes(a, FALSE, r, n0, data, ns, n, v)
    BY <1>3, <1>7, <2>2, <2>3, RestoresWrites
  <2>5. Writes(q.steps, q.ok, r, n0, data, ns, n, v)
    BY <2>1, <2>4
  <2> QED
    BY <2>5 DEF q
<1>11. CASE Fits(w.off, v)
  <2> DEFINE o1 == PutData(b, w.off, Bytes(v))
             o2 == PutEntry(b, w.used + 1, Entry(n, w.off, Length[v]))
             d == <<o1, o2>>
             z == Len(a)
             c == a \o d
  <2>1. q.steps = c /\ q.ok = TRUE
    BY <1>11 DEF bk_reorganize_name_data, Do, w, Wiped
  <2>2. w.off + Length[v] < Cells
    BY <1>11 DEF Fits
  <2>3. /\ o1 \in Op /\ o2 \in Op /\ o1.b = b /\ o2.b = b
        /\ o1.op = "data" /\ o2.op = "entry"
    <3>1. Length[v] \in Nat /\ Bytes(v) \in Seq(Cell)
      BY ValueBytes
    <3>2. Entry(n, w.off, Length[v]) \in EntrySet
      BY <1>5, <3>1 DEF Entry, EntrySet, Flag
    <3> QED
      BY <1>5, <1>6, <3>1, <3>2 DEF Op, PutData, PutEntry
  <2> HIDE DEF o1, o2
  <2>4. d \in Seq(Op) /\ OnBlock(d, b)
    <3>1. d \in Seq(Op) /\ DOMAIN d = 1 .. 2 /\ d[1] = o1 /\ d[2] = o2
      BY <2>3
    <3> HIDE DEF d
    <3>2. \A i \in DOMAIN d : i = 1 \/ i = 2
      BY <3>1
    <3> QED
      BY <2>3, <3>1, <3>2 DEF OnBlock
  <2>5. c \in Seq(Op) /\ OnBlock(c, b)
    <3> HIDE DEF a, d
    <3> QED
      BY <1>7, <2>4, OnBlockJoin, PlanPlaces
  <2> HIDE DEF q, a
  <2>6. Erases(c)
    <3> HIDE DEF d
    <3>1. /\ c[1] = a[1] /\ DOMAIN c = 1 .. (Len(a) + Len(d)) /\ Len(d) \in Nat
          /\ Len(a) \in Nat \ {0}
      <4>1. 1 \in 1 .. Len(a)
        BY <1>8
      <4> QED
        BY <1>7, <1>8, <2>4, <4>1, PlanPlaces
    <3>2. 1 \in DOMAIN c
      BY <3>1
    <3> HIDE DEF c
    <3> QED
      BY <1>8, <3>1, <3>2 DEF Erases
  <2>7. Restores(c, TRUE, b, r, n0, data, n, v)
    <3> SUFFICES ASSUME NEW R, NEW N, NEW D, Run(c, r, n0, data, R, N, D)
                 PROVE  /\ \A m, x : m # n /\ HeldBy(E, F, m, x) =>
                               HeldBy(N[Len(c)][b], D[Len(c)][b], m, x)
                        /\ HeldBy(N[Len(c)][b], D[Len(c)][b], n, v)
      BY DEF Restores
    <3>1. /\ Run(a, r, n0, data, R, N, D) /\ Len(a) \in Nat
          /\ Len(c) = Len(a) + 2
          /\ N[Len(a) + 1] = NamesAfter(o1, N[Len(a)])
          /\ N[Len(a) + 2] = NamesAfter(o2, N[Len(a) + 1])
          /\ D[Len(a) + 1] = DataAfter(o1, D[Len(a)])
          /\ D[Len(a) + 2] = DataAfter(o2, D[Len(a) + 1])
      BY <1>7, <2>3, RunTwoMore
    <3> HIDE DEF c, d
    <3> DEFINE N0 == N[z]
               D0 == D[z]
               N1 == N[z + 1]
               D1 == D[z + 1]
               N2 == N[z + 2]
               D2 == D[z + 2]
    <3>2. /\ N1 = NamesAfter(o1, N0) /\ N2 = NamesAfter(o2, N1)
          /\ D1 = DataAfter(o1, D0) /\ D2 = DataAfter(o2, D1)
      BY <3>1
    <3>3. N0 \in NameSectors /\ D0 \in DataSectors
      <4>1. z \in 0 .. Len(a)
        BY <3>1
      <4> QED
        BY <1>3, <1>7, <3>1, <4>1, RunSectors
    <3>4. Moved(w, E, F, Slots, N0[b], D0[b])
      BY <1>4, <3>1
    <3> HIDE DEF N0, D0, N1, D1, N2, D2, F
    <3>5. Added(E, F, n, v, N2[b], D2[b])
      <4>1. PutIn(b, w.used + 1, Entry(n, w.off, Length[v]), w.off, Bytes(v),
                  N0, D0, N2, D2)
        BY <3>2 DEF PutIn, o1, o2
      <4> QED
        BY <1>5, <1>6, <2>2, <3>3, <3>4, <4>1, MovedAndPut
    <3>6. N[Len(c)] = N2 /\ D[Len(c)] = D2
      BY <3>1 DEF N2, D2
    <3> QED
      BY <3>5, <3>6 DEF Added
  <2> HIDE DEF c
  <2>8. Writes(c, TRUE, r, n0, data, ns, n, v)
    BY <1>3, <2>5, <2>6, <2>7, RestoresWrites
  <2>9. Writes(q.steps, q.ok, r, n0, data, ns, n, v)
    BY <2>1, <2>8
  <2> QED
    BY <2>9 DEF q
<1> QED
  BY <1>10, <1>11

-----------------------------------------------------------------------------
(* Writing keeps the other keys.                                           *)

\* Nothing is done.
LEMMA EmptyWrites ==
    ASSUME NEW r, NEW n0, NEW d0, NEW ns, NEW n, NEW v, NEW ok,
           OthersSafe(r, n0, d0, ns, n), Safe(r, n0, d0, <<ns, n>>, IF ok THEN v ELSE None)
    PROVE  Writes(<<>>, ok, r, n0, d0, ns, n, v)
<1>1. Len(<<>>) = 0 /\ \A i \in 0 .. 0 : i = 0
  OBVIOUS
<1> SUFFICES ASSUME NEW R, NEW N, NEW D, Run(<<>>, r, n0, d0, R, N, D)
             PROVE  /\ \A i \in 0 .. Len(<<>>) : \A k \in Keys \ unsure :
                           k # <<ns, n>> => Safe(R[i], N[i], D[i], k, kept[k])
                    /\ OthersSafe(R[0], N[0], D[0], ns, n)
                    /\ Safe(R[0], N[0], D[0], <<ns, n>>, IF ok THEN v ELSE None)
  BY <1>1 DEF Writes
<1>2. R[0] = r /\ N[0] = n0 /\ D[0] = d0
  BY DEF Run
<1> QED
  BY <1>1, <1>2 DEF OthersSafe

\* One operation first, after which the rest writes.
LEMMA ConsWrites ==
    ASSUME NEW o \in Op, NEW p \in Seq(Op), NEW r, NEW n0, NEW d0, NEW ns, NEW n, NEW v,
           NEW ok, OthersSafe(r, n0, d0, ns, n),
           Writes(p, ok, RootAfter(o, r), NamesAfter(o, n0), DataAfter(o, d0), ns, n, v)
    PROVE  Writes(<<o>> \o p, ok, r, n0, d0, ns, n, v)
<1> DEFINE q == <<o>> \o p
<1>1. /\ q \in Seq(Op) /\ q # <<>> /\ q[1] = o /\ Tail(q) = p
      /\ DOMAIN q = 1 .. (Len(p) + 1) /\ Len(p) \in Nat /\ DOMAIN p = 1 .. Len(p)
      /\ \A i \in DOMAIN p : i + 1 \in DOMAIN q /\ q[i + 1] = p[i]
  BY ConsPlan
<1>2. Len(q) = Len(p) + 1
  BY <1>1
<1>3. Erases(p) => Erases(q)
  BY <1>1 DEF Erases
<1> HIDE DEF q
<1> SUFFICES ASSUME NEW R, NEW N, NEW D, Run(q, r, n0, d0, R, N, D)
             PROVE  /\ \A i \in 0 .. Len(q) : \A k \in Keys \ unsure :
                           k # <<ns, n>> /\ (Erases(q) => k[1] # ns) =>
                               Safe(R[i], N[i], D[i], k, kept[k])
                    /\ OthersSafe(R[Len(q)], N[Len(q)], D[Len(q)], ns, n)
                    /\ ok /\ CleanRun(q, R, N, D) =>
                           Safe(R[Len(q)], N[Len(q)], D[Len(q)], <<ns, n>>, v)
                    /\ ~ok => Safe(R[Len(q)], N[Len(q)], D[Len(q)], <<ns, n>>, None)
  BY DEF Writes, q
<1>4. PICK RR, NN, DD :
          /\ Run(p, RootAfter(o, r), NamesAfter(o, n0), DataAfter(o, d0), RR, NN, DD)
          /\ \A i \in 0 .. Len(p) :
                 RR[i] = R[i + 1] /\ NN[i] = N[i + 1] /\ DD[i] = D[i + 1]
  <2>1. PICK RR, NN, DD :
            /\ Run(Tail(q), RootAfter(q[1], r), NamesAfter(q[1], n0),
                   DataAfter(q[1], d0), RR, NN, DD)
            /\ \A i \in 0 .. Len(Tail(q)) :
                   RR[i] = R[i + 1] /\ NN[i] = N[i + 1] /\ DD[i] = D[i + 1]
    BY <1>1, RunShorter, SMTT(30)
  <2>2. /\ Run(p, RootAfter(o, r), NamesAfter(o, n0), DataAfter(o, d0), RR, NN, DD)
        /\ \A i \in 0 .. Len(p) :
               RR[i] = R[i + 1] /\ NN[i] = N[i + 1] /\ DD[i] = D[i + 1]
    BY <1>1, <2>1
  <2> QED
    BY <2>2
<1> DEFINE L == Len(p)
<1>5. /\ \A i \in 0 .. L : \A k \in Keys \ unsure :
             k # <<ns, n>> /\ (Erases(p) => k[1] # ns) => Safe(RR[i], NN[i], DD[i], k, kept[k])
      /\ OthersSafe(RR[L], NN[L], DD[L], ns, n)
      /\ ok /\ CleanRun(p, RR, NN, DD) => Safe(RR[L], NN[L], DD[L], <<ns, n>>, v)
      /\ ~ok => Safe(RR[L], NN[L], DD[L], <<ns, n>>, None)
  BY <1>4 DEF Writes
<1>6. RR[L] = R[Len(q)] /\ NN[L] = N[Len(q)] /\ DD[L] = D[Len(q)]
  <2>1. L \in 0 .. Len(p)
    BY <1>1
  <2> QED
    BY <1>2, <1>4, <2>1
<1>7. CleanRun(q, R, N, D) => CleanRun(p, RR, NN, DD)
  <2> SUFFICES ASSUME CleanRun(q, R, N, D), NEW i \in 1 .. Len(p)
               PROVE  ErasedFor(p[i], RR[i - 1], NN[i - 1], DD[i - 1])
    BY DEF CleanRun
  <2>1. /\ i \in DOMAIN p /\ i + 1 \in 1 .. Len(q) /\ (i + 1) - 1 = (i - 1) + 1
        /\ i - 1 \in 0 .. Len(p)
    BY <1>1, <1>2
  <2>2. ErasedFor(q[i + 1], R[(i + 1) - 1], N[(i + 1) - 1], D[(i + 1) - 1])
    BY <2>1 DEF CleanRun
  <2>3. q[i + 1] = p[i]
    BY <1>1, <2>1
  <2> QED
    BY <1>4, <2>1, <2>2, <2>3
<1>8. ASSUME NEW i \in 0 .. Len(q), NEW k \in Keys \ unsure,
             k # <<ns, n>>, Erases(q) => k[1] # ns
      PROVE  Safe(R[i], N[i], D[i], k, kept[k])
  <2>1. CASE i = 0
    <3>1. R[0] = r /\ N[0] = n0 /\ D[0] = d0
      BY DEF Run
    <3> QED
      BY <1>8, <2>1, <3>1 DEF OthersSafe
  <2>2. CASE i # 0
    <3>1. i - 1 \in 0 .. L /\ (i - 1) + 1 = i
      BY <1>1, <1>2, <2>2
    <3>2. Safe(RR[i - 1], NN[i - 1], DD[i - 1], k, kept[k])
      BY <1>3, <1>5, <1>8, <3>1
    <3> QED
      BY <1>4, <3>1, <3>2
  <2> QED
    BY <2>1, <2>2
<1> QED
  BY <1>5, <1>6, <1>7, <1>8

\* bk_set_name_data_new_addr.
LEMMA NewAddrWrites ==
    ASSUME Sectors, NEW b \in BlockIds, NEW E \in [1 .. Slots -> EntrySet], GoodNames(E),
           NEW r \in RootSectors, OneBlock(r), NEW ns \in Spaces, r[b] = ns,
           NEW n0 \in NameSectors, n0[b] = E, NEW n \in Names, Free(E, n),
           NEW v \in Values, OthersSafe(r, n0, data, ns, n)
    PROVE  LET p == bk_set_name_data_new_addr(b, E, n, v)
           IN  Writes(p.steps, p.ok, r, n0, data, ns, n, v)
<1> DEFINE Unused == {t \in 1 .. Slots : E[t].flag = "ERASED"}
           s == Min(Unused)
           x == DataOffset(E, s)
           q == bk_set_name_data_new_addr(b, E, n, v)
           z == bk_reorganize_name_data(b, E, n, v)
<1>1. (\E t \in 1 .. Slots : E[t].flag # "USING") =>
          Writes(z.steps, z.ok, r, n0, data, ns, n, v)
  BY ReorganizeWrites
<1>2. CASE Unused = {}
  <2>1. CASE \E t \in 1 .. Slots : E[t].flag = "MASK"
    <3>1. q = z
      BY <1>2, <2>1 DEF bk_set_name_data_new_addr
    <3> HIDE DEF q, z
    <3>2. \E t \in 1 .. Slots : E[t].flag # "USING"
      BY <2>1
    <3>3. Writes(q.steps, q.ok, r, n0, data, ns, n, v)
      BY <1>1, <3>1, <3>2
    <3> QED
      BY <3>3 DEF q
  <2>2. CASE ~\E t \in 1 .. Slots : E[t].flag = "MASK"
    <3>1. q.steps = <<>> /\ q.ok = FALSE
      BY <1>2, <2>2 DEF bk_set_name_data_new_addr, Do
    <3> HIDE DEF q
    <3>2. \A c \in BlockIds : r[c] = ns => c = b
      BY StoreAssumption DEF OneBlock
    <3>3. Safe(r, n0, data, <<ns, n>>, None)
      BY <3>2 DEF Safe, HeldBy
    <3>4. Writes(<<>>, FALSE, r, n0, data, ns, n, v)
      BY <3>3, EmptyWrites
    <3>5. Writes(q.steps, q.ok, r, n0, data, ns, n, v)
      BY <3>1, <3>4
    <3> QED
      BY <3>5 DEF q
  <2> QED
    BY <2>1, <2>2
<1>3. CASE Unused # {} /\ ~Fits(x, v)
  <2>1. q = z
    BY <1>3 DEF bk_set_name_data_new_addr
  <2> HIDE DEF q, z
  <2>2. \E t \in 1 .. Slots : E[t].flag # "USING"
    BY <1>3
  <2>3. Writes(q.steps, q.ok, r, n0, data, ns, n, v)
    BY <1>1, <2>1, <2>2
  <2> QED
    BY <2>3 DEF q
<1>4. CASE Unused # {} /\ Fits(x, v)
  <2> DEFINE d == <<PutData(b, x, Bytes(v)), PutEntry(b, s, Entry(n, x, Length[v]))>>
  <2>1. q.steps = d /\ q.ok = TRUE
    BY <1>4 DEF bk_set_name_data_new_addr, Do
  <2>2. NextFree(E, s, x)
    <3>1. /\ Unused # {} /\ s = Min(Unused) /\ x = DataOffset(E, s)
          /\ \A t : t \in Unused <=> t \in 1 .. Slots /\ E[t].flag = "ERASED"
      BY <1>4
    <3> HIDE DEF Unused, s, x
    <3> QED
      BY <3>1, FirstUnused
  <2> HIDE DEF s, x, q
  <2>3. /\ s \in 1 .. Slots /\ n0[b][s].flag = "ERASED" /\ x \in Nat
        /\ \A t \in 1 .. Slots : n0[b][t].flag = "USING" => End(n0[b][t]) <= x
    BY <2>2 DEF NextFree
  <2>4. x + Length[v] < Cells
    BY <1>4 DEF Fits, x
  <2>5. data \in DataSectors /\ Free(n0[b], n)
    BY SectorKinds
  <2>6. Writes(d, TRUE, r, n0, data, ns, n, v)
    BY <2>3, <2>4, <2>5, AppendWrites
  <2> HIDE DEF d
  <2>7. Writes(q.steps, q.ok, r, n0, data, ns, n, v)
    BY <2>1, <2>6
  <2> QED
    BY <2>7 DEF q
<1> QED
  BY <1>2, <1>3, <1>4

\* Masking a name leaves the others.
LEMMA MaskKeeps ==
    ASSUME Ready, NEW b \in BlockIds, NEW s \in 1 .. Slots, names[b][s].flag = "USING",
           NEW n, names[b][s].name = n, NEW M, M = NamesAfter(Mask(b, s), names),
           NEW r, NEW ns \in Spaces, r[b] = ns, OthersSafe(r, names, data, ns, n)
    PROVE  OthersSafe(r, M, data, ns, n) /\ Free(M[b], n)
<1> DEFINE o == Mask(b, s)
<1>1. o \in Op /\ o.op = "mask" /\ o.b = b /\ o.s = s
  BY DEF Op, Mask
<1>2. names \in NameSectors /\ data \in DataSectors
  BY SectorKinds DEF Ready
<1> HIDE DEF o
<1>3. M = NamesAfter(o, names)
  BY DEF o
<1>4. /\ M[b][s].flag = "MASK"
      /\ \A t \in 1 .. Slots : t # s => M[b][t] = names[b][t]
  BY <1>1, <1>2, <1>3, SlotsAfter DEF Is
<1>5. \A c \in BlockIds : c # b => M[c] = names[c]
  BY <1>1, <1>2, <1>3, OtherBlock
<1>6. \A t \in 1 .. Slots : names[b][t].flag = "USING" /\ names[b][t].name = n => t = s
  BY DEF Ready, GoodNames
<1>7. Free(M[b], n)
  BY <1>4, <1>6 DEF Free
<1>8. ASSUME NEW k \in Keys \ unsure, k # <<ns, n>>
      PROVE  Safe(r, M, data, k, kept[k])
  <2> DEFINE y == kept[k]
             m == k[2]
             E == names[b]
             F == data[b]
             G == M[b]
  <2>1. Safe(r, names, data, k, y)
    BY <1>8 DEF OthersSafe
  <2>2. r[b] # None
    BY StoreAssumption
  <2>3. ASSUME r[b] = k[1], HeldBy(E, F, m, y) PROVE HeldBy(G, F, m, y)
    <3>1. m # n
      BY <1>8, <2>3 DEF Keys
    <3>2. \A t \in 1 .. Slots : E[t].flag = "USING" /\ E[t].name = m => G[t] = E[t]
      BY <1>4, <3>1
    <3>3. \A t \in 1 .. Slots : G[t].flag = "USING" /\ G[t].name = m => E[t] = G[t]
      BY <1>4
    <3> HIDE DEF E, F, G, y, m
    <3> QED
      BY <2>3, <3>2, <3>3, HeldKeeps
  <2> HIDE DEF y
  <2>31. r[b] = k[1] /\ HeldBy(names[b], data[b], k[2], y) =>
             HeldBy(M[b], data[b], k[2], y)
    BY <2>3
  <2>4. Safe(r, M, data, k, y)
    BY <1>5, <2>1, <2>2, <2>31 DEF Safe
  <2> QED
    BY <2>4 DEF y
<1> QED
  BY <1>7, <1>8 DEF OthersSafe

\* bk_set_name_data.
LEMMA SetNameDataWrites ==
    ASSUME Ready, NEW b \in BlockIds, NEW n \in Names, NEW v \in Values,
           NEW r \in RootSectors, OneBlock(r), NEW ns \in Spaces, r[b] = ns,
           OthersSafe(r, names, data, ns, n)
    PROVE  LET p == bk_set_name_data(b, n, v)
           IN  Writes(p.steps, p.ok, r, names, data, ns, n, v)
<1> DEFINE s == get_name_addr(n, names[b])
           E == [names[b] EXCEPT ![s].flag = "MASK"]
           q == bk_set_name_data(b, n, v)
<1>1. /\ s = 0 => Free(names[b], n)
      /\ s # 0 => s \in 1 .. Slots /\ names[b][s].flag = "USING" /\ names[b][s].name = n
  BY NameAddr DEF Free
<1>2. /\ Sectors /\ names \in NameSectors /\ data \in DataSectors
      /\ names[b] \in [1 .. Slots -> EntrySet] /\ GoodNames(names[b])
  BY SectorKinds DEF Ready, NameSectors
<1>3. CASE s = 0
  <2> DEFINE z == bk_set_name_data_new_addr(b, names[b], n, v)
  <2>1. q = z
    BY <1>3 DEF bk_set_name_data
  <2> HIDE DEF q, s
  <2>3. Writes(z.steps, z.ok, r, names, data, ns, n, v)
    BY <1>1, <1>2, <1>3, NewAddrWrites
  <2> HIDE DEF z
  <2>4. Writes(q.steps, q.ok, r, names, data, ns, n, v)
    BY <2>1, <2>3
  <2> QED
    BY <2>4 DEF q
<1>4. CASE s # 0 /\ Content(b, names[b][s]) = Bytes(v)
  <2>1. q.steps = <<>> /\ q.ok = TRUE
    BY <1>4 DEF bk_set_name_data, Do
  <2> HIDE DEF q, s
  <2> DEFINE e == names[b][s]
             C == Content(b, e)
  <2>2. e \in EntrySet /\ End(e) < Cells
    BY <1>1, <1>2, <1>4 DEF GoodNames
  <2>3. Len(C) = e.len /\ \A i \in 1 .. e.len : C[i] = data[b][e.off + i]
    <3>1. Len(C) = e.len
      BY <1>2, <2>2, ContentBytes
    <3>2. \A i \in 1 .. e.len : C[i] = data[b][e.off + i]
      BY DEF Content
    <3> QED
      BY <3>1, <3>2
  <2>4. Len(Bytes(v)) = Length[v] /\ \A i \in 1 .. Length[v] : Bytes(v)[i] = Byte(v, i)
    BY ValueBytes DEF Bytes
  <2>5. C = Bytes(v)
    BY <1>4
  <2> HIDE DEF C
  <2>6. e.len = Length[v] /\ \A i \in 1 .. Length[v] : data[b][e.off + i] = Byte(v, i)
    BY <2>3, <2>4, <2>5
  <2>7. HeldBy(names[b], data[b], n, v)
    BY <1>1, <1>4, <2>6, StoreAssumption DEF HeldBy, Held
  <2>8. \A c \in BlockIds : r[c] = ns => c = b
    BY StoreAssumption DEF OneBlock
  <2>9. Safe(r, names, data, <<ns, n>>, v)
    BY <2>7, <2>8 DEF Safe
  <2>10. Writes(<<>>, TRUE, r, names, data, ns, n, v)
    BY <2>9, EmptyWrites
  <2>11. Writes(q.steps, q.ok, r, names, data, ns, n, v)
    BY <2>1, <2>10
  <2> QED
    BY <2>11 DEF q
<1>5. CASE s # 0 /\ Content(b, names[b][s]) # Bytes(v)
  <2> DEFINE o == Mask(b, s)
             M == NamesAfter(o, names)
             z == bk_set_name_data_new_addr(b, E, n, v)
  <2>1. q.steps = <<o>> \o z.steps /\ q.ok = z.ok
    BY <1>5 DEF bk_set_name_data, Do
  <2> HIDE DEF q, s
  <2>2. M \in NameSectors /\ GoodNames(M[b]) /\ M[b] = E
    BY <1>1, <1>5, MaskedEntries
  <2>3. OthersSafe(r, M, data, ns, n) /\ Free(M[b], n)
    BY <1>1, <1>5, MaskKeeps
  <2>4. o \in Op /\ o.op = "mask"
    BY <1>1, <1>5 DEF Op, Mask
  <2> HIDE DEF M, E, o
  <2>5. E \in [1 .. Slots -> EntrySet] /\ GoodNames(E) /\ Free(E, n)
    BY <2>2, <2>3 DEF NameSectors
  <2>6. Writes(z.steps, z.ok, r, M, data, ns, n, v)
    BY <1>2, <2>2, <2>3, <2>5, NewAddrWrites
  <2>7. z.steps \in Seq(Op)
    <3>1. GoodPlan(z.steps, r, M, data, FALSE)
      BY <1>2, <2>2, <2>5, NewAddrGood DEF Free
    <3> QED
      BY <3>1 DEF GoodPlan
  <2>8. RootAfter(o, r) = r /\ DataAfter(o, data) = data /\ NamesAfter(o, names) = M
    BY <2>4 DEF RootAfter, DataAfter, M
  <2> HIDE DEF z
  <2> DEFINE ps == z.steps
             ok == z.ok
  <2>9. /\ Writes(ps, ok, RootAfter(o, r), NamesAfter(o, names), DataAfter(o, data), ns, n, v)
        /\ ps \in Seq(Op)
    BY <2>6, <2>7, <2>8
  <2> HIDE DEF ps, ok
  <2>10. Writes(<<o>> \o ps, ok, r, names, data, ns, n, v)
    BY <2>4, <2>9, ConsWrites
  <2>11. Writes(q.steps, q.ok, r, names, data, ns, n, v)
    BY <2>1, <2>10 DEF ps, ok
  <2> QED
    BY <2>11 DEF q
<1> QED
  BY <1>3, <1>4, <1>5

-----------------------------------------------------------------------------
(* The plan of each call serves the keys.                                  *)

AllSafe == \A k \in Keys \ unsure : Safe(root, names, data, k, kept[k])

\* The fields of a key.
LEMMA KeyParts ==
    ASSUME NEW k \in Keys
    PROVE  k[1] \in Spaces /\ k[2] \in Names /\ k = <<k[1], k[2]>> /\ k[1] # None
<1>1. k[1] \in Spaces /\ k[2] \in Names /\ k = <<k[1], k[2]>>
  BY DEF Keys
<1> QED
  BY <1>1, StoreAssumption

\* A namespace gets a free block.
LEMMA RootEntered ==
    ASSUME NEW R \in RootSectors, NEW f \in BlockIds, NEW ns \in Spaces,
           NEW RR, RR = RootAfter(PutRoot(f, ns), R)
    PROVE  /\ RR \in RootSectors /\ RR[f] = ns
           /\ \A c \in BlockIds : c # f => RR[c] = R[c]
<1>1. PutRoot(f, ns).op = "root" /\ PutRoot(f, ns).b = f /\ PutRoot(f, ns).ns = ns
  BY DEF PutRoot
<1>2. RR = [R EXCEPT ![f] = ns]
  BY <1>1 DEF RootAfter
<1> QED
  BY <1>2 DEF RootSectors

LEMMA RootSafe ==
    ASSUME NEW R \in RootSectors, NEW f \in BlockIds, R[f] = None, NEW ns \in Spaces,
           \A c \in BlockIds : R[c] # ns, NEW RR, RR = RootAfter(PutRoot(f, ns), R),
           NEW N, NEW D, NEW k \in Keys, NEW x, Safe(R, N, D, k, x)
    PROVE  Safe(RR, N, D, k, x)
<1>1. RR[f] = ns /\ \A c \in BlockIds : c # f => RR[c] = R[c]
  BY RootEntered
<1>2. k[1] # None /\ ns # None
  BY KeyParts, StoreAssumption
<1>3. CASE k[1] # ns
  <2>1. \A b \in BlockIds : RR[b] = k[1] => HeldBy(N[b], D[b], k[2], x)
    BY <1>1, <1>3 DEF Safe
  <2>2. (\A b \in BlockIds : RR[b] # k[1]) => \A b \in BlockIds : R[b] # k[1]
    BY <1>1, <1>2
  <2>3. \A b \in BlockIds : RR[b] = None => R[b] = None
    BY <1>1, <1>2
  <2> QED
    BY <2>1, <2>2, <2>3 DEF Safe
<1>4. CASE k[1] = ns
  <2>1. x = None /\ N[f] = EmptyNames
    BY <1>4 DEF Safe
  <2>2. Free(N[f], k[2])
    BY <2>1 DEF Free, EmptyNames, NoEntry
  <2>3. \A b \in BlockIds : RR[b] = k[1] => b = f
    BY <1>1, <1>4
  <2> QED
    BY <1>1, <1>4, <2>1, <2>2, <2>3 DEF Safe, HeldBy
<1> QED
  BY <1>3, <1>4

\* bk_write_data.
LEMMA WriteWrites ==
    ASSUME Ready, AllSafe, NEW ns \in Spaces, NEW n \in Names, NEW v \in Values
    PROVE  LET p == bk_write_plan(ns, n, v)
           IN  Writes(p.steps, p.ok, root, names, data, ns, n, v)
<1> DEFINE b == get_namespace_addr(ns)
           f == bk_set_namespace
           q == bk_write_plan(ns, n, v)
<1>1. /\ b = 0 => \A c \in BlockIds : root[c] # ns
      /\ b # 0 => b \in BlockIds /\ root[b] = ns
  BY SpaceAddr
<1>2. f # 0 => f \in BlockIds /\ root[f] = None
  BY FreeBlock
<1>3. root \in RootSectors /\ OneBlock(root)
  BY SectorKinds DEF Ready
<1>4. OthersSafe(root, names, data, ns, n)
  BY DEF OthersSafe, AllSafe
<1>5. CASE b # 0
  <2>1. q = bk_set_name_data(b, n, v)
    BY <1>5 DEF bk_write_plan
  <2> HIDE DEF q, b
  <2> DEFINE z == bk_set_name_data(b, n, v)
  <2>2. Writes(z.steps, z.ok, root, names, data, ns, n, v)
    BY <1>1, <1>3, <1>4, <1>5, SetNameDataWrites
  <2> HIDE DEF z
  <2>3. Writes(q.steps, q.ok, root, names, data, ns, n, v)
    BY <2>1, <2>2 DEF z
  <2> QED
    BY <2>3 DEF q
<1>6. CASE b = 0 /\ f = 0
  <2>1. q.steps = <<>> /\ q.ok = FALSE
    BY <1>6 DEF bk_write_plan, Do
  <2>2. \A c \in BlockIds : root[c] # None
    <3> DEFINE B == {c \in BlockIds : root[c] = None}
    <3>1. f = IF B = {} THEN 0 ELSE Min(B)
      BY DEF bk_set_namespace
    <3>2. B \subseteq Nat /\ 0 \notin B
      BY StoreAssumption DEF BlockIds
    <3>3. B # {} => Min(B) \in B
      BY <3>2, MinIsFirst
    <3> QED
      BY <1>6, <3>1, <3>2, <3>3
  <2> HIDE DEF q, b, f
  <2>3. Safe(root, names, data, <<ns, n>>, None)
    BY <1>1, <1>6, <2>2 DEF Safe
  <2>4. Writes(<<>>, FALSE, root, names, data, ns, n, v)
    BY <1>4, <2>3, EmptyWrites
  <2>5. Writes(q.steps, q.ok, root, names, data, ns, n, v)
    BY <2>1, <2>4
  <2> QED
    BY <2>5 DEF q
<1>7. CASE b = 0 /\ f # 0
  <2> DEFINE o == PutRoot(f, ns)
             z == bk_set_name_data(f, n, v)
             RR == RootAfter(o, root)
  <2>1. q.steps = <<o>> \o z.steps /\ q.ok = z.ok
    BY <1>7 DEF bk_write_plan, Do
  <2> HIDE DEF q, f, b
  <2>2. f \in BlockIds /\ root[f] = None /\ \A c \in BlockIds : root[c] # ns
    BY <1>1, <1>2, <1>7
  <2>3. /\ RR \in RootSectors /\ RR[f] = ns
        /\ \A c \in BlockIds : c # f => RR[c] = root[c]
    BY <1>3, <2>2, RootEntered
  <2>4. ASSUME NEW k \in Keys \ unsure PROVE Safe(RR, names, data, k, kept[k])
    <3>1. Safe(root, names, data, k, kept[k]) /\ k \in Keys
      BY DEF AllSafe
    <3>2. RR = RootAfter(PutRoot(f, ns), root)
      OBVIOUS
    <3> HIDE DEF RR
    <3> QED
      BY <1>3, <2>2, <3>1, <3>2, RootSafe
  <2>5. OneBlock(RR)
    BY <1>3, <2>2, <2>3 DEF OneBlock
  <2>6. o \in Op /\ o.op = "root"
    BY <2>2 DEF Op, PutRoot
  <2> HIDE DEF RR
  <2>7. OthersSafe(RR, names, data, ns, n)
    BY <2>4 DEF OthersSafe
  <2>8. Writes(z.steps, z.ok, RR, names, data, ns, n, v)
    BY <2>2, <2>3, <2>5, <2>7, SetNameDataWrites
  <2>9. z.steps \in Seq(Op)
    <3>1. GoodPlan(z.steps, root, names, data, crashes = 0)
      BY <1>3, <2>2, SetNameDataGood
    <3> QED
      BY <3>1 DEF GoodPlan
  <2> HIDE DEF o
  <2>10. NamesAfter(o, names) = names /\ DataAfter(o, data) = data
    BY <2>6 DEF NamesAfter, DataAfter
  <2> HIDE DEF z
  <2> DEFINE ps == z.steps
             ok == z.ok
  <2>11. /\ Writes(ps, ok, RootAfter(o, root), NamesAfter(o, names), DataAfter(o, data),
                   ns, n, v)
         /\ ps \in Seq(Op)
    BY <2>8, <2>9, <2>10 DEF RR
  <2> HIDE DEF ps, ok
  <2>12. Writes(<<o>> \o ps, ok, root, names, data, ns, n, v)
    BY <1>4, <2>6, <2>11, ConsWrites
  <2>13. Writes(q.steps, q.ok, root, names, data, ns, n, v)
    BY <2>1, <2>12 DEF ps, ok
  <2> QED
    BY <2>13 DEF q
<1> QED
  BY <1>5, <1>6, <1>7

\* What has no length was not there.
LEMMA StoredNone ==
    ASSUME Ready, NEW ns \in Spaces, NEW n \in Names, StoredLen(ns, n) = 0,
           NEW x \in Values \cup {None}, Safe(root, names, data, <<ns, n>>, x)
    PROVE  x = None
<1> DEFINE b == get_namespace_addr(ns)
           s == get_name_addr(n, names[b])
<1> SUFFICES ASSUME x # None PROVE FALSE
  OBVIOUS
<1>1. b = 0 => \A c \in BlockIds : root[c] # ns
  BY SpaceAddr
<1>2. b # 0
  BY <1>1 DEF Safe
<1>3. b \in BlockIds /\ root[b] = ns
  BY <1>2, SpaceAddr
<1>4. StoredLen(ns, n) = IF s = 0 THEN 0 ELSE names[b][s].len
  BY <1>2 DEF StoredLen
<1> HIDE DEF b
<1>5. Held(names[b], data[b], n, x)
  BY <1>3 DEF Safe, HeldBy
<1>6. PICK t \in 1 .. Slots :
          names[b][t].flag = "USING" /\ names[b][t].name = n /\ names[b][t].len = Length[x]
  BY <1>5 DEF Held
<1>7. s # 0 /\ s \in 1 .. Slots /\ names[b][s].flag = "USING" /\ names[b][s].name = n
  BY <1>6, NameAddr
<1> HIDE DEF s
<1>8. s = t
  BY <1>3, <1>6, <1>7 DEF Ready, GoodNames
<1>9. Length[x] \in Nat \ {0}
  BY StoreAssumption
<1> QED
  BY <1>4, <1>6, <1>7, <1>8, <1>9

\* Nothing is done.
LEMMA EmptyServes ==
    ASSUME AllSafe, NEW c, c.changed = {}
    PROVE  Serves(<<>>, root, names, data, c, kept, unsure)
<1>1. Len(<<>>) = 0 /\ \A i \in 0 .. 0 : i = 0
  OBVIOUS
<1> SUFFICES ASSUME NEW R, NEW N, NEW D, Run(<<>>, root, names, data, R, N, D)
             PROVE  \A k \in Keys \ unsure : Safe(R[0], N[0], D[0], k, kept[k])
  BY <1>1 DEF Serves
<1>2. R[0] = root /\ N[0] = names /\ D[0] = data
  BY DEF Run
<1> QED
  BY <1>2 DEF AllSafe

\* A plan that writes one key.
LEMMA WritesServes ==
    ASSUME AllSafe, NEW p \in Seq(Op), NEW ok, NEW ns, NEW n, NEW v,
           Writes(p, ok, root, names, data, ns, n, v),
           NEW c, c.changed \subseteq {<<ns, n>>}, c.value = IF ok THEN v ELSE None,
           <<ns, n>> \in c.risk, Erases(p) => {ns} \X Names \subseteq c.risk,
           <<ns, n>> \notin c.changed /\ <<ns, n>> \notin unsure =>
               p = <<>> \/ (~ok /\ kept[<<ns, n>>] = None)
    PROVE  Serves(p, root, names, data, c, kept, unsure)
<1> SUFFICES ASSUME NEW R, NEW N, NEW D, Run(p, root, names, data, R, N, D)
             PROVE  /\ \A k \in Keys \ (unsure \cup c.risk) : \A i \in 0 .. Len(p) :
                           Safe(R[i], N[i], D[i], k, kept[k])
                    /\ \A k \in Keys \ unsure : k \notin c.changed =>
                           Safe(R[Len(p)], N[Len(p)], D[Len(p)], k, kept[k])
                    /\ CleanRun(p, R, N, D) => \A k \in c.changed :
                           Safe(R[Len(p)], N[Len(p)], D[Len(p)], k, c.value)
  BY DEF Serves
<1>1. /\ \A i \in 0 .. Len(p) : \A k \in Keys \ unsure :
             k # <<ns, n>> /\ (Erases(p) => k[1] # ns) => Safe(R[i], N[i], D[i], k, kept[k])
      /\ OthersSafe(R[Len(p)], N[Len(p)], D[Len(p)], ns, n)
      /\ ok /\ CleanRun(p, R, N, D) =>
             Safe(R[Len(p)], N[Len(p)], D[Len(p)], <<ns, n>>, v)
      /\ ~ok => Safe(R[Len(p)], N[Len(p)], D[Len(p)], <<ns, n>>, None)
  BY DEF Writes
<1>2. ASSUME NEW k \in Keys \ (unsure \cup c.risk), NEW i \in 0 .. Len(p)
      PROVE  Safe(R[i], N[i], D[i], k, kept[k])
  <2>1. k # <<ns, n>> /\ k \in Keys \ unsure
    OBVIOUS
  <2>2. Erases(p) => k[1] # ns
    BY KeyParts
  <2> QED
    BY <1>1, <2>1, <2>2
<1>3. ASSUME NEW k \in Keys \ unsure, k \notin c.changed
      PROVE  Safe(R[Len(p)], N[Len(p)], D[Len(p)], k, kept[k])
  <2>1. CASE k # <<ns, n>>
    BY <1>1, <2>1 DEF OthersSafe
  <2>2. CASE k = <<ns, n>> /\ p = <<>>
    <3>1. Len(p) = 0 /\ R[0] = root /\ N[0] = names /\ D[0] = data
      BY <2>2 DEF Run
    <3> QED
      BY <3>1 DEF AllSafe
  <2>3. CASE k = <<ns, n>> /\ p # <<>>
    BY <1>1, <1>3, <2>3
  <2> QED
    BY <2>1, <2>2, <2>3
<1>4. ASSUME CleanRun(p, R, N, D), NEW k \in c.changed
      PROVE  Safe(R[Len(p)], N[Len(p)], D[Len(p)], k, c.value)
  BY <1>1, <1>4
<1> QED
  BY <1>2, <1>3, <1>4

\* bk_write_data: a write that fails has lost the value that was there.
LEMMA WriteServes ==
    ASSUME Ready, AllSafe, kept \in [Keys -> Values \cup {None}],
           NEW ns \in Spaces, NEW n \in Names, NEW v \in Values,
           NEW p, p = bk_write_plan(ns, n, v), NEW c,
           c.changed = IF p.ok \/ (~p.ok /\ p.steps # <<>> /\ StoredLen(ns, n) # 0)
                       THEN {<<ns, n>>} ELSE {},
           c.value = IF p.ok THEN v ELSE None,
           c.risk = IF Erases(p.steps) THEN {ns} \X Names ELSE {<<ns, n>>}
    PROVE  Serves(p.steps, root, names, data, c, kept, unsure)
<1> DEFINE q == p.steps
           ok == p.ok
           k == <<ns, n>>
<1>1. k \in Keys /\ k \in {ns} \X Names /\ kept[k] \in Values \cup {None}
  BY DEF Keys
<1>2. Writes(q, ok, root, names, data, ns, n, v)
  BY WriteWrites
<1>3. q \in Seq(Op)
  BY WriteGood DEF GoodCall, GoodPlan
<1>4. k \in c.risk /\ (Erases(q) => {ns} \X Names \subseteq c.risk)
  BY <1>1
<1>5. c.changed \subseteq {k}
  OBVIOUS
<1>6. ASSUME k \notin c.changed, k \notin unsure
      PROVE  q = <<>> \/ (~ok /\ kept[k] = None)
  <2>1. ~ok /\ (q = <<>> \/ StoredLen(ns, n) = 0)
    BY <1>6
  <2>2. Safe(root, names, data, k, kept[k])
    BY <1>1, <1>6 DEF AllSafe
  <2>3. StoredLen(ns, n) = 0 => kept[k] = None
    BY <1>1, <2>2, StoredNone
  <2> QED
    BY <2>1, <2>3
<1>7. c.value = IF ok THEN v ELSE None
  OBVIOUS
<1> HIDE DEF q, ok
<1>8. Serves(q, root, names, data, c, kept, unsure)
  BY <1>2, <1>3, <1>4, <1>5, <1>6, <1>7, WritesServes
<1> QED
  BY <1>8 DEF q

\* bk_clean_data.
LEMMA CleanServes ==
    ASSUME Ready, AllSafe, NEW ns \in Spaces, NEW n \in Names,
           NEW p, p = bk_clean_plan(ns, n), NEW c,
           c.changed = IF p.ok THEN {<<ns, n>>} ELSE {}, c.value = None,
           c.risk = {<<ns, n>>}
    PROVE  Serves(p.steps, root, names, data, c, kept, unsure)
<1> DEFINE b == get_namespace_addr(ns)
           s == IF b = 0 THEN 0 ELSE get_name_addr(n, names[b])
           q == p.steps
<1>1. CASE s = 0
  <2>1. q = <<>> /\ p.ok = FALSE
    BY <1>1 DEF bk_clean_plan, Do
  <2> HIDE DEF q, s
  <2>2. c.changed = {}
    BY <2>1
  <2>3. Serves(q, root, names, data, c, kept, unsure)
    BY <2>1, <2>2, EmptyServes
  <2> QED
    BY <2>3 DEF q
<1>2. CASE s # 0
  <2> DEFINE o == Mask(b, s)
             M == NamesAfter(o, names)
  <2>1. q = <<o>> /\ p.ok = TRUE
    BY <1>2 DEF bk_clean_plan, Do
  <2>2. b # 0 /\ s = get_name_addr(n, names[b])
    BY <1>2
  <2>3. b \in BlockIds /\ root[b] = ns
    BY <2>2, SpaceAddr
  <2>4. s \in 1 .. Slots /\ names[b][s].flag = "USING" /\ names[b][s].name = n
    BY <1>2, <2>2, NameAddr
  <2> HIDE DEF b, s, q
  <2>5. OthersSafe(root, names, data, ns, n)
    BY DEF OthersSafe, AllSafe
  <2>6. OthersSafe(root, M, data, ns, n) /\ Free(M[b], n)
    BY <2>3, <2>4, <2>5, MaskKeeps
  <2>7. o \in Op /\ o.op = "mask"
    BY <2>3, <2>4 DEF Op, Mask
  <2> HIDE DEF o, M
  <2>8. \A x \in BlockIds : root[x] = ns => x = b
    BY <2>3, StoreAssumption DEF Ready, OneBlock
  <2>9. Safe(root, M, data, <<ns, n>>, None)
    BY <2>3, <2>6, <2>8 DEF Safe, HeldBy
  <2>10. Writes(<<>>, FALSE, root, M, data, ns, n, None)
    BY <2>6, <2>9, EmptyWrites
  <2>11. RootAfter(o, root) = root /\ NamesAfter(o, names) = M /\ DataAfter(o, data) = data
    BY <2>7 DEF RootAfter, DataAfter, M
  <2>12. <<>> \in Seq(Op)
    OBVIOUS
  <2>13. Writes(<<o>> \o <<>>, FALSE, root, names, data, ns, n, None)
    BY <2>5, <2>7, <2>10, <2>11, <2>12, ConsWrites
  <2>14. <<o>> \o <<>> = <<o>> /\ <<o>> \in Seq(Op) /\ DOMAIN <<o>> = {1} /\ <<o>>[1] = o
    BY <2>7
  <2>15. q \in Seq(Op) /\ Writes(q, FALSE, root, names, data, ns, n, None) /\ ~Erases(q)
    BY <2>1, <2>7, <2>13, <2>14 DEF Erases
  <2>16. c.changed = {<<ns, n>>}
    BY <2>1
  <2>17. Serves(q, root, names, data, c, kept, unsure)
    BY <2>15, <2>16, WritesServes
  <2> QED
    BY <2>17 DEF q
<1> QED
  BY <1>1, <1>2

\* A run of one operation.
LEMMA RunOne ==
    ASSUME NEW o \in Op, NEW r, NEW n, NEW d, NEW R, NEW N, NEW D,
           Run(<<o>>, r, n, d, R, N, D)
    PROVE  /\ Len(<<o>>) = 1 /\ R[0] = r /\ N[0] = n /\ D[0] = d
           /\ R[1] = RootAfter(o, r) /\ N[1] = NamesAfter(o, n) /\ D[1] = DataAfter(o, d)
<1> DEFINE p == <<o>>
<1>1. Len(p) = 1 /\ p[1] = o /\ 1 \in 1 .. Len(p) /\ 1 - 1 = 0
  OBVIOUS
<1>2. Run(p, r, n, d, R, N, D)
  OBVIOUS
<1> HIDE DEF p
<1>3. /\ R[0] = r /\ N[0] = n /\ D[0] = d
      /\ R[1] = RootAfter(o, r) /\ N[1] = NamesAfter(o, n) /\ D[1] = DataAfter(o, d)
  BY <1>1, <1>2 DEF Run
<1> QED
  BY <1>1, <1>3 DEF p

\* bk_ensure_namespace.
LEMMA EnsureServes ==
    ASSUME Ready, AllSafe, NEW ns \in Spaces, NEW p, p = bk_ensure_plan(ns),
           NEW c, c.changed = {}
    PROVE  Serves(p.steps, root, names, data, c, kept, unsure)
<1> DEFINE f == bk_set_namespace
           q == p.steps
<1>1. CASE get_namespace_addr(ns) # 0 \/ f = 0
  <2>1. q = <<>>
    BY <1>1 DEF bk_ensure_plan, Do
  <2> HIDE DEF q
  <2>2. Serves(q, root, names, data, c, kept, unsure)
    BY <2>1, EmptyServes
  <2> QED
    BY <2>2 DEF q
<1>2. CASE get_namespace_addr(ns) = 0 /\ f # 0
  <2> DEFINE o == PutRoot(f, ns)
             RR == RootAfter(o, root)
  <2>1. q = <<o>>
    BY <1>2 DEF bk_ensure_plan, Do
  <2>2. f \in BlockIds /\ root[f] = None /\ \A x \in BlockIds : root[x] # ns
    BY <1>2, FreeBlock, SpaceAddr
  <2> HIDE DEF q, f
  <2>3. o \in Op /\ o.op = "root" /\ root \in RootSectors
    BY <2>2, SectorKinds DEF Op, PutRoot, Ready
  <2>4. ASSUME NEW k \in Keys \ unsure PROVE Safe(RR, names, data, k, kept[k])
    <3>1. Safe(root, names, data, k, kept[k]) /\ k \in Keys
      BY DEF AllSafe
    <3>2. RR = RootAfter(PutRoot(f, ns), root)
      OBVIOUS
    <3> HIDE DEF RR, o
    <3> QED
      BY <2>2, <2>3, <3>1, <3>2, RootSafe
  <2> HIDE DEF o
  <2>5. NamesAfter(o, names) = names /\ DataAfter(o, data) = data
    BY <2>3 DEF NamesAfter, DataAfter
  <2> HIDE DEF RR
  <2>6. Serves(q, root, names, data, c, kept, unsure)
    <3> SUFFICES ASSUME NEW R, NEW N, NEW D, Run(q, root, names, data, R, N, D)
                 PROVE  \A k \in Keys \ unsure :
                            /\ \A i \in 0 .. Len(q) : Safe(R[i], N[i], D[i], k, kept[k])
                            /\ Safe(R[Len(q)], N[Len(q)], D[Len(q)], k, kept[k])
      BY DEF Serves
    <3>1. Run(<<o>>, root, names, data, R, N, D)
      BY <2>1
    <3>2. /\ Len(q) = 1 /\ R[0] = root /\ N[0] = names /\ D[0] = data
          /\ R[1] = RR /\ N[1] = names /\ D[1] = data
      BY <2>1, <2>3, <2>5, <3>1, RunOne DEF RR
    <3>3. \A i \in 0 .. Len(q) : i = 0 \/ i = 1
      BY <3>2
    <3> QED
      BY <2>4, <3>2, <3>3 DEF AllSafe
  <2> QED
    BY <2>6 DEF q
<1> QED
  BY <1>1, <1>2

-----------------------------------------------------------------------------
(* Clearing a namespace, erasing everything.                               *)

\* Plan p leads from sectors r, n and d to r1, n1 and d1.
Leads(p, r, n, d, r1, n1, d1) ==
    \A R, N, D : Run(p, r, n, d, R, N, D) =>
        R[Len(p)] = r1 /\ N[Len(p)] = n1 /\ D[Len(p)] = d1

LEMMA EmptyLeads ==
    ASSUME NEW r, NEW n, NEW d
    PROVE  Leads(<<>>, r, n, d, r, n, d)
  BY DEF Leads, Run

\* One operation first.
LEMMA ConsLeads ==
    ASSUME NEW o \in Op, NEW p \in Seq(Op), NEW r, NEW n, NEW d, NEW r1, NEW n1, NEW d1,
           Leads(p, RootAfter(o, r), NamesAfter(o, n), DataAfter(o, d), r1, n1, d1)
    PROVE  Leads(<<o>> \o p, r, n, d, r1, n1, d1)
<1> DEFINE q == <<o>> \o p
           L == Len(p)
<1>1. /\ q \in Seq(Op) /\ q # <<>> /\ q[1] = o /\ Tail(q) = p
      /\ DOMAIN q = 1 .. (Len(p) + 1) /\ Len(p) \in Nat
  BY ConsPlan
<1>2. Len(q) = L + 1 /\ L \in 0 .. L
  BY <1>1
<1> HIDE DEF q
<1> SUFFICES ASSUME NEW R, NEW N, NEW D, Run(q, r, n, d, R, N, D)
             PROVE  R[Len(q)] = r1 /\ N[Len(q)] = n1 /\ D[Len(q)] = d1
  BY DEF Leads, q
<1>3. PICK RR, NN, DD :
          /\ Run(Tail(q), RootAfter(q[1], r), NamesAfter(q[1], n),
                 DataAfter(q[1], d), RR, NN, DD)
          /\ \A i \in 0 .. Len(Tail(q)) :
                 RR[i] = R[i + 1] /\ NN[i] = N[i + 1] /\ DD[i] = D[i + 1]
  BY <1>1, RunShorter, SMTT(30)
<1>4. /\ Run(p, RootAfter(o, r), NamesAfter(o, n), DataAfter(o, d), RR, NN, DD)
      /\ RR[L] = R[L + 1] /\ NN[L] = N[L + 1] /\ DD[L] = D[L + 1]
  BY <1>1, <1>2, <1>3
<1>5. RR[L] = r1 /\ NN[L] = n1 /\ DD[L] = d1
  BY <1>4 DEF Leads
<1> QED
  BY <1>2, <1>4, <1>5

\* One operation more.
LEMMA AppendLeads ==
    ASSUME NEW p \in Seq(Op), NEW o \in Op, NEW r, NEW n, NEW d, NEW r1, NEW n1, NEW d1,
           Leads(p, r, n, d, r1, n1, d1)
    PROVE  Leads(Append(p, o), r, n, d, RootAfter(o, r1), NamesAfter(o, n1), DataAfter(o, d1))
<1> DEFINE q == Append(p, o)
           z == Len(p)
<1>1. /\ z \in Nat /\ Len(q) = z + 1 /\ q[z + 1] = o
      /\ \A i \in 1 .. z : q[i] = p[i]
  OBVIOUS
<1> HIDE DEF q, z
<1> SUFFICES ASSUME NEW R, NEW N, NEW D, Run(q, r, n, d, R, N, D)
             PROVE  /\ R[Len(q)] = RootAfter(o, r1) /\ N[Len(q)] = NamesAfter(o, n1)
                    /\ D[Len(q)] = DataAfter(o, d1)
  BY DEF Leads, q
<1>2. z + 1 \in 1 .. Len(q) /\ (z + 1) - 1 = z /\ \A i \in 1 .. z : i \in 1 .. Len(q)
  BY <1>1
<1>3. Run(p, r, n, d, R, N, D)
  BY <1>1, <1>2 DEF Run, z
<1>4. R[z] = r1 /\ N[z] = n1 /\ D[z] = d1
  BY <1>3 DEF Leads, z
<1>5. /\ R[z + 1] = RootAfter(o, R[z]) /\ N[z + 1] = NamesAfter(o, N[z])
      /\ D[z + 1] = DataAfter(o, D[z])
  BY <1>1, <1>2 DEF Run
<1> QED
  BY <1>1, <1>4, <1>5

\* The root sector after the first m rounds of the loop of bK_clear_namespace.
RootBack(b, m) == [c \in BlockIds |-> IF c <= m /\ c # b THEN root[c] ELSE None]

LEMMA OthersLeads ==
    ASSUME Sectors, NEW b, NEW n, NEW d
    PROVE  Leads(Others(b), RootBack(b, 0), n, d, RootBack(b, Blocks), n, d)
<1>1. Blocks \in Nat
  BY StoreAssumption
<1>2. PICK U : OthersRounds(U, b) /\ Others(b) = U[Blocks]
  BY OthersLoop
<1>3. U[0] = <<>> /\ \A i \in BlockIds : U[i] = OthersStep(U[i - 1], b, i)
  BY <1>2 DEF OthersRounds
<1> DEFINE r0 == RootBack(b, 0)
           G == {m \in Nat : m > Blocks \/
                     (U[m] \in Seq(Op) /\ Leads(U[m], r0, n, d, RootBack(b, m), n, d))}
<1>4. 0 \in G
  <2>1. <<>> \in Seq(Op)
    OBVIOUS
  <2> QED
    BY <1>3, <2>1, EmptyLeads
<1>5. ASSUME NEW m \in Nat, m >= 0, m \in G PROVE m + 1 \in G
  <2>1. CASE m + 1 > Blocks
    BY <2>1
  <2>2. CASE m + 1 <= Blocks
    <3> DEFINE x == m + 1
               p == U[m]
               R == RootBack(b, m)
               Q == RootBack(b, x)
               o == PutRoot(x, root[x])
    <3>1. /\ x \in BlockIds /\ ~(m > Blocks) /\ x - 1 = m
          /\ \A c \in BlockIds : c <= x <=> (c <= m \/ c = x)
      BY <1>1, <2>2 DEF BlockIds
    <3>2. p \in Seq(Op) /\ Leads(p, r0, n, d, R, n, d)
      BY <1>5, <3>1
    <3>3. U[x] = OthersStep(p, b, x)
      BY <1>3, <3>1
    <3> HIDE DEF p, r0
    <3>4. CASE x = b \/ root[x] = None
      <4>1. U[x] = p
        BY <3>3, <3>4 DEF OthersStep
      <4>2. Q = R
        <5>1. ASSUME NEW c \in BlockIds
              PROVE  (IF c <= x /\ c # b THEN root[c] ELSE None)
                         = (IF c <= m /\ c # b THEN root[c] ELSE None)
          BY <3>1, <3>4
        <5> HIDE DEF x
        <5> QED
          BY <5>1 DEF RootBack
      <4> HIDE DEF Q, R
      <4> QED
        BY <3>2, <4>1, <4>2 DEF Q
    <3>5. CASE ~(x = b \/ root[x] = None)
      <4>1. U[x] = Append(p, o)
        BY <3>3, <3>5 DEF OthersStep
      <4>2. root[x] \in Spaces
        BY <3>1, <3>5 DEF Sectors
      <4>3. o \in Op /\ o.op = "root" /\ o.b = x /\ o.ns = root[x]
        BY <3>1, <4>2 DEF Op, PutRoot
      <4> HIDE DEF o
      <4>4. /\ NamesAfter(o, n) = n /\ DataAfter(o, d) = d
            /\ RootAfter(o, R) = [R EXCEPT ![x] = root[x]]
        BY <4>3 DEF NamesAfter, DataAfter, RootAfter
      <4>5. [R EXCEPT ![x] = root[x]] = Q
        <5>1. ASSUME NEW c \in BlockIds
              PROVE  (IF c = x THEN root[x] ELSE IF c <= m /\ c # b THEN root[c] ELSE None)
                         = (IF c <= x /\ c # b THEN root[c] ELSE None)
          BY <3>1, <3>5
        <5>2. R = [c \in BlockIds |-> IF c <= m /\ c # b THEN root[c] ELSE None]
          BY DEF RootBack
        <5>3. [R EXCEPT ![x] = root[x]]
                  = [c \in BlockIds |-> IF c = x THEN root[x]
                                        ELSE IF c <= m /\ c # b THEN root[c] ELSE None]
          <6> HIDE DEF R, x
          <6> QED
            BY <5>2
        <5> HIDE DEF R, x
        <5> QED
          BY <5>1, <5>3 DEF RootBack
      <4> HIDE DEF Q, R
      <4>6. Append(p, o) \in Seq(Op)
        BY <3>2, <4>3
      <4>7. Leads(Append(p, o), r0, n, d, RootAfter(o, R), NamesAfter(o, n), DataAfter(o, d))
        BY <3>2, <4>3, AppendLeads
      <4>8. U[x] \in Seq(Op) /\ Leads(U[x], r0, n, d, Q, n, d)
        BY <4>1, <4>4, <4>5, <4>6, <4>7
      <4> QED
        BY <4>8 DEF Q
    <3> QED
      BY <3>4, <3>5
  <2> QED
    BY <1>1, <2>1, <2>2
<1> HIDE DEF G
<1>6. Blocks \in G
  BY <1>1, <1>4, <1>5, InductionFrom
<1> QED
  BY <1>1, <1>2, <1>6 DEF G

\* A call that puts every key at risk keeps its word if its end does.
LEMMA EndServes ==
    ASSUME NEW p, NEW c, c.risk = Keys,
           \A R, N, D : Run(p, root, names, data, R, N, D) =>
               LET z == Len(p)
               IN  /\ \A k \in Keys \ unsure : k \notin c.changed =>
                          Safe(R[z], N[z], D[z], k, kept[k])
                   /\ \A k \in c.changed : ~Stray(R[z], N[z], k[1]) =>
                          Safe(R[z], N[z], D[z], k, c.value)
    PROVE  Serves(p, root, names, data, c, kept, unsure)
<1>1. \A k \in Keys \ (unsure \cup c.risk) : FALSE
  OBVIOUS
<1> QED
  BY <1>1 DEF Serves

\* bK_clear_namespace.
LEMMA ClearServes ==
    ASSUME Ready, AllSafe, NEW ns \in Spaces, NEW p, p = bk_clear_plan(ns),
           NEW c, c.changed = IF p.ok THEN {ns} \X Names ELSE {}, c.value = None,
           c.risk = Keys
    PROVE  Serves(p.steps, root, names, data, c, kept, unsure)
<1> DEFINE b == get_namespace_addr(ns)
           q == p.steps
<1>1. CASE b = 0
  <2>1. q = <<>> /\ p.ok = FALSE
    BY <1>1 DEF bk_clear_plan, Do
  <2> HIDE DEF q
  <2>2. c.changed = {}
    BY <2>1
  <2>3. Serves(q, root, names, data, c, kept, unsure)
    BY <2>1, <2>2, EmptyServes
  <2> QED
    BY <2>3 DEF q
<1>2. CASE b # 0
  <2> DEFINE w == Others(b)
             o1 == EraseNames(b)
             o2 == EraseData(b)
             o3 == EraseRoot
             R1 == RootBack(b, Blocks)
             N1 == NamesAfter(o1, names)
             D1 == DataAfter(o2, data)
  <2>1. q = <<o1, o2, o3>> \o w /\ p.ok = TRUE
    BY <1>2 DEF bk_clear_plan, Do
  <2>2. b \in BlockIds /\ root[b] = ns
    BY <1>2, SpaceAddr
  <2>3. root \in RootSectors /\ names \in NameSectors /\ data \in DataSectors /\ Sectors
    BY SectorKinds DEF Ready
  <2>4. w \in Seq(Op)
    BY <2>3, OthersAll DEF OthersTo
  <2> HIDE DEF q, b
  <2>5. Leads(w, RootBack(b, 0), N1, D1, R1, N1, D1)
    BY <2>3, OthersLeads
  <2> HIDE DEF w, R1
  <2>6. /\ o1 \in Op /\ o1.op = "eraseNames" /\ o1.b = b
        /\ o2 \in Op /\ o2.op = "eraseData" /\ o2.b = b
        /\ o3 \in Op /\ o3.op = "eraseRoot"
    BY <2>2 DEF Op, EraseNames, EraseData, EraseRoot
  <2> HIDE DEF o1, o2, o3, N1, D1
  <2>7. RootAfter(o3, root) = RootBack(b, 0)
    <3>1. \A x \in BlockIds : ~(x <= 0)
      BY StoreAssumption DEF BlockIds
    <3>2. RootBack(b, 0) = [x \in BlockIds |-> None]
      BY <3>1 DEF RootBack
    <3> QED
      BY <2>6, <3>2 DEF RootAfter
  <2>8. /\ NamesAfter(o3, N1) = N1 /\ DataAfter(o3, D1) = D1
        /\ RootAfter(o2, root) = root /\ NamesAfter(o2, N1) = N1 /\ DataAfter(o2, data) = D1
        /\ RootAfter(o1, root) = root /\ NamesAfter(o1, names) = N1 /\ DataAfter(o1, data) = data
    BY <2>6 DEF RootAfter, NamesAfter, DataAfter, N1, D1
  <2> DEFINE w3 == <<o3>> \o w
             w2 == <<o2>> \o w3
  <2>9. w3 \in Seq(Op) /\ Leads(w3, root, N1, D1, R1, N1, D1)
    <3>1. w3 \in Seq(Op)
      BY <2>4, <2>6, ConsPlan
    <3>2. Leads(w, RootAfter(o3, root), NamesAfter(o3, N1), DataAfter(o3, D1), R1, N1, D1)
      BY <2>5, <2>7, <2>8
    <3> QED
      BY <2>4, <2>6, <3>1, <3>2, ConsLeads
  <2> HIDE DEF w3
  <2>10. w2 \in Seq(Op) /\ Leads(w2, root, N1, data, R1, N1, D1)
    <3>1. w2 \in Seq(Op)
      BY <2>6, <2>9, ConsPlan
    <3>2. Leads(w3, RootAfter(o2, root), NamesAfter(o2, N1), DataAfter(o2, data), R1, N1, D1)
      BY <2>8, <2>9
    <3> QED
      BY <2>6, <2>9, <3>1, <3>2, ConsLeads
  <2> HIDE DEF w2
  <2>11. Leads(<<o1>> \o w2, root, names, data, R1, N1, D1)
    <3>1. Leads(w2, RootAfter(o1, root), NamesAfter(o1, names), DataAfter(o1, data), R1, N1, D1)
      BY <2>8, <2>10
    <3> QED
      BY <2>6, <2>10, <3>1, ConsLeads
  <2>12. q = <<o1>> \o w2
    <3>1. <<o1, o2, o3>> \o w = <<o1>> \o (<<o2>> \o (<<o3>> \o w))
      BY <2>4, <2>6, ThreeAndMore, SMTT(30)
    <3> QED
      BY <2>1, <3>1 DEF w2, w3
  <2>13. Leads(q, root, names, data, R1, N1, D1)
    BY <2>11, <2>12
  <2>14. /\ R1[b] = None
         /\ \A x \in BlockIds : x # b => R1[x] = root[x] /\ N1[x] = names[x] /\ D1[x] = data[x]
    <3>1. \A x \in BlockIds : x <= Blocks
      BY StoreAssumption DEF BlockIds
    <3>2. R1[b] = None /\ \A x \in BlockIds : x # b => R1[x] = root[x]
      BY <2>2, <3>1 DEF R1, RootBack
    <3>3. \A x \in BlockIds : x # b => N1[x] = names[x] /\ D1[x] = data[x]
      BY <2>3, <2>6, OtherBlock DEF N1, D1
    <3> QED
      BY <3>2, <3>3
  <2>15. N1[b] = EmptyNames
    <3>1. N1 = [names EXCEPT ![b] = EmptyNames]
      BY <2>6 DEF N1, NamesAfter
    <3> QED
      BY <2>2, <2>3, <3>1 DEF NameSectors
  <2>16. \A x \in BlockIds : x # b => root[x] # ns
    BY <2>2, StoreAssumption DEF Ready, OneBlock
  <2>17. ASSUME NEW k \in Keys \ unsure, k \notin c.changed
         PROVE  Safe(R1, N1, D1, k, kept[k])
    <3>1. k[1] # ns /\ k[1] # None
      BY <2>1, <2>17, KeyParts
    <3>2. Safe(root, names, data, k, kept[k])
      BY DEF AllSafe
    <3>3. \A x \in BlockIds : R1[x] = k[1] => HeldBy(N1[x], D1[x], k[2], kept[k])
      BY <2>14, <3>1, <3>2 DEF Safe
    <3>4. ASSUME \A x \in BlockIds : R1[x] # k[1]
          PROVE  kept[k] = None /\ \A x \in BlockIds : R1[x] = None => N1[x] = EmptyNames
      <4>1. \A x \in BlockIds : root[x] # k[1]
        BY <2>2, <2>14, <3>1, <3>4
      <4>2. kept[k] = None /\ \A x \in BlockIds : root[x] = None => names[x] = EmptyNames
        BY <3>2, <4>1 DEF Safe
      <4> QED
        BY <2>14, <2>15, <4>2
    <3> QED
      BY <3>3, <3>4 DEF Safe
  <2>18. ASSUME NEW k \in c.changed, ~Stray(R1, N1, k[1])
         PROVE  Safe(R1, N1, D1, k, None)
    <3>1. k[1] = ns /\ ns # None
      BY <2>1, StoreAssumption
    <3>2. \A x \in BlockIds : R1[x] # ns
      BY <2>14, <2>16, <3>1
    <3> QED
      BY <2>18, <3>1, <3>2 DEF Safe, Stray
  <2>19. Serves(q, root, names, data, c, kept, unsure)
    BY <2>13, <2>17, <2>18, EndServes DEF Leads
  <2> QED
    BY <2>19 DEF q
<1> QED
  BY <1>1, <1>2

\* An erase leaves names erased.
LEMMA EraseOne ==
    ASSUME NEW N \in NameSectors, NEW o \in Op,
           o.op \in {"eraseRoot", "eraseNames", "eraseData"}, NEW b \in BlockIds,
           N[b] = EmptyNames \/ Is(o, "eraseNames", b)
    PROVE  NamesAfter(o, N)[b] = EmptyNames
<1>1. CASE o.op = "eraseNames"
  <2>1. NamesAfter(o, N) = [N EXCEPT ![o.b] = EmptyNames]
    BY <1>1 DEF NamesAfter
  <2> QED
    BY <2>1 DEF NameSectors, Is
<1>2. CASE o.op # "eraseNames"
  BY <1>2 DEF NamesAfter, Is
<1> QED
  BY <1>1, <1>2

\* bk_erase_all.
LEMMA EraseServes ==
    ASSUME Ready, NEW p, p = bk_erase_plan, NEW c, c.changed = Keys, c.value = None,
           c.risk = Keys
    PROVE  Serves(p.steps, root, names, data, c, kept, unsure)
<1> DEFINE q == p.steps
           r0 == [x \in BlockIds |-> None]
<1>1. /\ q \in Seq(Op)
      /\ \A i \in DOMAIN q : q[i].op \in {"eraseRoot", "eraseNames", "eraseData"}
      /\ 1 \in DOMAIN q /\ q[1].op = "eraseRoot"
      /\ \A b \in BlockIds : b + 1 \in DOMAIN q /\ Is(q[b + 1], "eraseNames", b)
  BY ErasePlan
<1>2. root \in RootSectors /\ names \in NameSectors /\ data \in DataSectors
  BY SectorKinds DEF Ready
<1> HIDE DEF q
<1>3. DOMAIN q = 1 .. Len(q) /\ Len(q) \in Nat
  BY <1>1
<1>4. ASSUME NEW R, NEW N, NEW D, Run(q, root, names, data, R, N, D)
      PROVE  R[Len(q)] = r0 /\ \A b \in BlockIds : N[Len(q)][b] = EmptyNames
  <2> DEFINE S == {i \in Nat : i <= Len(q) =>
                     /\ i >= 1 => R[i] = r0
                     /\ \A b \in BlockIds : b + 1 <= i => N[i][b] = EmptyNames}
  <2>1. 0 \in S
    BY StoreAssumption DEF BlockIds
  <2>2. ASSUME NEW i \in Nat, i >= 0, i \in S PROVE i + 1 \in S
    <3> DEFINE x == i + 1
               o == q[x]
    <3> SUFFICES ASSUME x <= Len(q)
                 PROVE  /\ R[x] = r0
                        /\ \A b \in BlockIds : b + 1 <= x => N[x][b] = EmptyNames
      OBVIOUS
    <3>1. x \in 1 .. Len(q) /\ x \in DOMAIN q /\ x - 1 = i /\ i \in 0 .. Len(q)
      BY <1>3
    <3>2. o \in Op /\ o.op \in {"eraseRoot", "eraseNames", "eraseData"}
      BY <1>1, <3>1
    <3>3. R[x] = RootAfter(o, R[i]) /\ N[x] = NamesAfter(o, N[i])
      BY <3>1, <1>4 DEF Run
    <3>4. N[i] \in NameSectors
      BY <1>1, <1>2, <1>4, <3>1, RunSectors
    <3>5. R[x] = r0
      <4>1. CASE o.op = "eraseRoot"
        BY <3>3, <4>1 DEF RootAfter
      <4>2. CASE o.op # "eraseRoot"
        <5>0. i # 0
          BY <1>1, <4>2
        <5>1. i >= 1 /\ i <= Len(q)
          BY <3>1, <5>0
        <5>2. R[i] = r0
          BY <2>2, <5>1
        <5> HIDE DEF o, r0
        <5> QED
          BY <3>2, <3>3, <4>2, <5>2 DEF RootAfter
      <4> QED
        BY <4>1, <4>2
    <3>6. ASSUME NEW b \in BlockIds, b + 1 <= x PROVE N[x][b] = EmptyNames
      <4>1. b + 1 <= i \/ b + 1 = x
        BY <3>6, StoreAssumption DEF BlockIds
      <4>2. N[i][b] = EmptyNames \/ Is(o, "eraseNames", b)
        BY <1>1, <2>2, <3>1, <4>1
      <4> HIDE DEF o, x
      <4> QED
        BY <3>2, <3>3, <3>4, <4>2, EraseOne
    <3> QED
      BY <3>5, <3>6
  <2> HIDE DEF S
  <2>3. Len(q) \in S
    BY <1>3, <2>1, <2>2, InductionFrom
  <2>4. Len(q) >= 1 /\ \A b \in BlockIds : b + 1 <= Len(q)
    BY <1>1, <1>3
  <2> QED
    BY <1>3, <2>3, <2>4 DEF S
<1>5. ASSUME NEW R, NEW N, NEW D, Run(q, root, names, data, R, N, D), NEW k \in Keys
      PROVE  Safe(R[Len(q)], N[Len(q)], D[Len(q)], k, None)
  <2>1. k[1] # None
    BY KeyParts
  <2>2. \A b \in BlockIds : R[Len(q)][b] = None /\ N[Len(q)][b] = EmptyNames
    BY <1>4, <1>5
  <2> QED
    BY <2>1, <2>2 DEF Safe
<1>6. Serves(q, root, names, data, c, kept, unsure)
  BY <1>5, EndServes
<1> QED
  BY <1>6 DEF q

-----------------------------------------------------------------------------
(* What the keys hold, step by step.                                       *)

\* Every plan can be run.
LEMMA RunExists ==
    ASSUME NEW p \in Seq(Op), NEW r, NEW n, NEW d
    PROVE  \E R, N, D : Run(p, r, n, d, R, N, D)
<1> DEFINE S == {m \in Nat : \A q \in Seq(Op) : Len(q) = m =>
                     \A r1, n1, d1 : \E R, N, D : Run(q, r1, n1, d1, R, N, D)}
<1>1. 0 \in S
  <2> SUFFICES ASSUME NEW q \in Seq(Op), Len(q) = 0, NEW r1, NEW n1, NEW d1
               PROVE  \E R, N, D : Run(q, r1, n1, d1, R, N, D)
    OBVIOUS
  <2> DEFINE R == [i \in {0} |-> r1]
             N == [i \in {0} |-> n1]
             D == [i \in {0} |-> d1]
  <2>1. R[0] = r1 /\ N[0] = n1 /\ D[0] = d1
    OBVIOUS
  <2> HIDE DEF R, N, D
  <2>2. \A i \in 1 .. Len(q) : FALSE
    OBVIOUS
  <2>3. Run(q, r1, n1, d1, R, N, D)
    BY <2>1, <2>2 DEF Run
  <2> QED
    BY <2>3
<1>2. ASSUME NEW m \in Nat, m >= 0, m \in S PROVE m + 1 \in S
  <2> SUFFICES ASSUME NEW q \in Seq(Op), Len(q) = m + 1, NEW r1, NEW n1, NEW d1
               PROVE  \E R, N, D : Run(q, r1, n1, d1, R, N, D)
    OBVIOUS
  <2>1. q # <<>>
    OBVIOUS
  <2>2. Tail(q) \in Seq(Op) /\ Len(Tail(q)) = m
    OBVIOUS
  <2> DEFINE r2 == RootAfter(q[1], r1)
             n2 == NamesAfter(q[1], n1)
             d2 == DataAfter(q[1], d1)
  <2> HIDE DEF r2, n2, d2
  <2>3. PICK R, N, D : Run(Tail(q), r2, n2, d2, R, N, D)
    BY <1>2, <2>2
  <2>4. Run(Tail(q), RootAfter(q[1], r1), NamesAfter(q[1], n1), DataAfter(q[1], d1), R, N, D)
    BY <2>3 DEF r2, n2, d2
  <2>5. \E RR, NN, DD : Run(q, r1, n1, d1, RR, NN, DD)
    BY <2>1, <2>4, RunLonger, Zenon
  <2> QED
    BY <2>5
<1> HIDE DEF S
<1>3. Len(p) \in Nat /\ Len(p) \in S
  <2>1. Len(p) \in Nat
    OBVIOUS
  <2> QED
    BY <1>1, <1>2, <2>1, InductionFrom
<1> QED
  BY <1>3 DEF S

LEMMA KeepInit == Init => KeepInv
<1> SUFFICES ASSUME Init PROVE KeepInv
  OBVIOUS
<1>1. /\ root = [b \in BlockIds |-> None]
      /\ names = [b \in BlockIds |-> EmptyNames]
      /\ call = None /\ kept = [k \in Keys |-> None]
  BY DEF Init
<1>2. ASSUME NEW k \in Keys PROVE Safe(root, names, data, k, kept[k])
  <2>1. k[1] # None /\ kept[k] = None
    BY <1>1, KeyParts
  <2>2. \A b \in BlockIds : root[b] = None /\ names[b] = EmptyNames
    BY <1>1
  <2> QED
    BY <2>1, <2>2 DEF Safe
<1> QED
  BY <1>1, <1>2 DEF KeepInv

\* A call begins.
LEMMA BeginServes ==
    ASSUME NEW p, NEW changed \in SUBSET Keys, NEW v \in Values \cup {None},
           NEW risk \in SUBSET Keys, Begin(p, changed, v, risk), p.ok \in BOOLEAN,
           \A c : c.changed = changed /\ c.value = v /\ c.risk = risk =>
               Serves(p.steps, root, names, data, c, kept, unsure)
    PROVE  KeepInv'
<1>1. /\ plan' = p.steps
      /\ call'.changed = changed /\ call'.value = v /\ call'.risk = risk
      /\ UNCHANGED <<root, names, data, kept, unsure>>
  BY DEF Begin
<1>2. Serves(p.steps, root, names, data, call', kept, unsure)
  BY <1>1
<1>3. Serves(plan', root', names', data', call', kept', unsure')
  BY <1>1, <1>2
<1>4. call' # None
  <2> DEFINE no == FALSE
  <2>1. no \in BOOLEAN /\ call' = [changed |-> changed, value |-> v, risk |-> risk,
                                   ok |-> p.ok, dirty |-> no]
    BY DEF Begin
  <2> HIDE DEF no
  <2>2. call' \in Calls
    BY <2>1 DEF Calls
  <2> QED
    BY <2>2, StoreAssumption
<1> QED
  BY <1>3, <1>4 DEF KeepInv

\* Each call.
LEMMA CallServes ==
    ASSUME StoreInv, KeepInv, Call
    PROVE  KeepInv'
<1>0. None \in Values \cup {None} /\ {} \in SUBSET Keys /\ Keys \in SUBSET Keys
  OBVIOUS
<1>01. \A ns \in Spaces, n \in Names : {<<ns, n>>} \in SUBSET Keys
  BY DEF Keys
<1>02. \A ns \in Spaces : {ns} \X Names \in SUBSET Keys
  BY DEF Keys
<1>03. call = None => Ready /\ AllSafe
  BY ReadyBetween DEF KeepInv, AllSafe
<1>04. kept \in [Keys -> Values \cup {None}]
  BY DEF StoreInv
<1>1. ASSUME NEW ns \in Spaces, NEW n \in Names, NEW v \in Values, bk_write_data(ns, n, v)
      PROVE  KeepInv'
  <2> DEFINE p == bk_write_plan(ns, n, v)
             lost == ~p.ok /\ p.steps # <<>> /\ StoredLen(ns, n) # 0
             changed == IF p.ok \/ lost THEN {<<ns, n>>} ELSE {}
             value == IF p.ok THEN v ELSE None
             risk == IF Erases(p.steps) THEN {ns} \X Names ELSE {<<ns, n>>}
  <2>1. Begin(p, changed, value, risk)
    BY <1>1 DEF bk_write_data
  <2>2. Ready /\ AllSafe
    BY <1>03, <2>1 DEF Begin
  <2>3. p.ok \in BOOLEAN
    BY PlansReport
  <2>4. changed \in SUBSET Keys /\ value \in Values \cup {None} /\ risk \in SUBSET Keys
    BY <1>0, <1>01, <1>02
  <2>5. p = bk_write_plan(ns, n, v)
    OBVIOUS
  <2> HIDE DEF p
  <2>6. ASSUME NEW c, c.changed = changed, c.value = value, c.risk = risk
        PROVE  Serves(p.steps, root, names, data, c, kept, unsure)
    BY <1>04, <2>2, <2>5, <2>6, WriteServes
  <2> HIDE DEF changed, value, risk
  <2> QED
    BY <2>1, <2>3, <2>4, <2>6, BeginServes
<1>2. ASSUME NEW ns \in Spaces, NEW n \in Names, bk_clean_data(ns, n)
      PROVE  KeepInv'
  <2> DEFINE p == bk_clean_plan(ns, n)
             changed == IF p.ok THEN {<<ns, n>>} ELSE {}
  <2>1. Begin(p, changed, None, {<<ns, n>>})
    BY <1>2 DEF bk_clean_data
  <2>2. Ready /\ AllSafe
    BY <1>03, <2>1 DEF Begin
  <2>3. p.ok \in BOOLEAN
    BY PlansReport
  <2>4. changed \in SUBSET Keys
    BY <1>0, <1>01
  <2>5. p = bk_clean_plan(ns, n)
    OBVIOUS
  <2> HIDE DEF p
  <2>6. ASSUME NEW c, c.changed = changed, c.value = None, c.risk = {<<ns, n>>}
        PROVE  Serves(p.steps, root, names, data, c, kept, unsure)
    BY <2>2, <2>5, <2>6, CleanServes
  <2> HIDE DEF changed
  <2> QED
    BY <1>0, <1>01, <2>1, <2>3, <2>4, <2>6, BeginServes
<1>3. ASSUME NEW ns \in Spaces, bK_clear_namespace(ns)
      PROVE  KeepInv'
  <2> DEFINE p == bk_clear_plan(ns)
             changed == IF p.ok THEN {ns} \X Names ELSE {}
  <2>1. Begin(p, changed, None, Keys)
    BY <1>3 DEF bK_clear_namespace
  <2>2. Ready /\ AllSafe
    BY <1>03, <2>1 DEF Begin
  <2>3. p.ok \in BOOLEAN
    BY PlansReport
  <2>4. changed \in SUBSET Keys
    BY <1>0, <1>02
  <2>5. p = bk_clear_plan(ns)
    OBVIOUS
  <2> HIDE DEF p
  <2>6. ASSUME NEW c, c.changed = changed, c.value = None, c.risk = Keys
        PROVE  Serves(p.steps, root, names, data, c, kept, unsure)
    BY <2>2, <2>5, <2>6, ClearServes
  <2> HIDE DEF changed
  <2> QED
    BY <1>0, <2>1, <2>3, <2>4, <2>6, BeginServes
<1>4. ASSUME NEW ns \in Spaces, bk_ensure_namespace(ns)
      PROVE  KeepInv'
  <2> DEFINE p == bk_ensure_plan(ns)
  <2>1. Begin(p, {}, None, {})
    BY <1>4 DEF bk_ensure_namespace
  <2>2. Ready /\ AllSafe
    BY <1>03, <2>1 DEF Begin
  <2>3. p.ok \in BOOLEAN /\ p = bk_ensure_plan(ns)
    BY PlansReport
  <2> HIDE DEF p
  <2>4. ASSUME NEW c, c.changed = {}
        PROVE  Serves(p.steps, root, names, data, c, kept, unsure)
    BY <2>2, <2>3, <2>4, EnsureServes
  <2> QED
    BY <1>0, <2>1, <2>3, <2>4, BeginServes
<1>5. ASSUME bk_erase_all
      PROVE  KeepInv'
  <2> DEFINE p == bk_erase_plan
  <2>1. Begin(p, Keys, None, Keys)
    BY <1>5 DEF bk_erase_all
  <2>2. Ready
    BY <1>03, <2>1 DEF Begin
  <2>3. p.ok \in BOOLEAN /\ p = bk_erase_plan
    BY PlansReport
  <2> HIDE DEF p
  <2>4. ASSUME NEW c, c.changed = Keys, c.value = None, c.risk = Keys
        PROVE  Serves(p.steps, root, names, data, c, kept, unsure)
    BY <2>2, <2>3, <2>4, EraseServes
  <2> QED
    BY <1>0, <2>1, <2>3, <2>4, BeginServes
<1> QED
  BY <1>1, <1>2, <1>3, <1>4, <1>5 DEF Call

\* One operation on the flash: the rest of the run is a run of the rest.
LEMMA FlashStepServes ==
    ASSUME StoreInv, KeepInv, FlashStep
    PROVE  KeepInv'
<1> DEFINE o == Head(plan)
           q == Tail(plan)
<1>1. /\ plan # <<>> /\ FlashDo(o) /\ plan' = q
      /\ call' = [call EXCEPT !.dirty = @ \/ ~OnErased(o)]
      /\ UNCHANGED <<kept, unsure>>
  BY DEF FlashStep
<1>2. plan \in Seq(Op) /\ call \in Calls
  BY <1>1 DEF StoreInv
<1>3. /\ o = plan[1] /\ q \in Seq(Op) /\ Len(plan) \in Nat \ {0} /\ Len(q) = Len(plan) - 1
      /\ \A i \in 1 .. Len(q) : q[i] = plan[i + 1]
  <2>1. DOMAIN q = 1 .. (Len(plan) - 1) /\ q \in Seq(Op)
    BY <1>1, <1>2, TailPlan, SMTT(30)
  <2> QED
    BY <1>1, <1>2, <2>1, TailPlan
<1>4. /\ root' = RootAfter(plan[1], root)
      /\ names' = NamesAfter(plan[1], names)
      /\ data' = DataAfter(plan[1], data)
  BY <1>1, <1>3 DEF FlashDo, RootAfter, NamesAfter, DataAfter
<1>5. /\ call'.changed = call.changed /\ call'.value = call.value /\ call'.risk = call.risk
      /\ ~call'.dirty => ~call.dirty /\ OnErased(o)
  BY <1>1, <1>2 DEF Calls
<1>6. call # None /\ call' # None
  <2>1. call' \in Calls
    <3> DEFINE d == call.dirty \/ ~OnErased(o)
    <3>1. d \in BOOLEAN
      OBVIOUS
    <3>2. call' = [call EXCEPT !.dirty = d]
      BY <1>1
    <3> HIDE DEF d
    <3> QED
      BY <1>2, <3>1, <3>2 DEF Calls
  <2> QED
    BY <1>2, <2>1, StoreAssumption
<1>7. Serves(plan, root, names, data, call, kept, unsure)
  BY <1>6 DEF KeepInv
<1>8. OnErased(o) => ErasedFor(plan[1], root, names, data)
  BY <1>3 DEF OnErased, ErasedFor
<1> HIDE DEF o, q
<1>9. ASSUME NEW R, NEW N, NEW D, Run(q, root', names', data', R, N, D)
      PROVE  /\ \A k \in Keys \ (unsure \cup call.risk) : \A i \in 0 .. Len(q) :
                    Safe(R[i], N[i], D[i], k, kept[k])
             /\ \A k \in Keys \ unsure : k \notin call.changed =>
                    Safe(R[Len(q)], N[Len(q)], D[Len(q)], k, kept[k])
             /\ \A k \in call.changed :
                    /\ ~call'.dirty /\ CleanRun(q, R, N, D)
                    /\ ~Stray(R[Len(q)], N[Len(q)], k[1])
                    => Safe(R[Len(q)], N[Len(q)], D[Len(q)], k, call.value)
  <2> DEFINE L == Len(q)
  <2>1. Run(Tail(plan), RootAfter(plan[1], root), NamesAfter(plan[1], names),
            DataAfter(plan[1], data), R, N, D)
    BY <1>4, <1>9 DEF q
  <2>2. PICK RR, NN, DD : Run(plan, root, names, data, RR, NN, DD)
                              /\ Shifted(Tail(plan), RR, NN, DD, R, N, D)
    BY <1>1, <1>2, <2>1, RunLonger, Zenon
  <2>3. /\ Run(plan, root, names, data, RR, NN, DD)
        /\ \A i \in 0 .. L : RR[i + 1] = R[i] /\ NN[i + 1] = N[i] /\ DD[i + 1] = D[i]
    BY <2>2 DEF q, Shifted
  <2>4. L \in Nat /\ Len(plan) = L + 1 /\ L \in 0 .. L
    BY <1>3
  <2> HIDE DEF L
  <2>5. RR[L + 1] = R[L] /\ NN[L + 1] = N[L] /\ DD[L + 1] = D[L]
    BY <2>3, <2>4
  <2>6. /\ \A k \in Keys \ (unsure \cup call.risk) : \A i \in 0 .. (L + 1) :
               Safe(RR[i], NN[i], DD[i], k, kept[k])
        /\ \A k \in Keys \ unsure : k \notin call.changed =>
               Safe(RR[L + 1], NN[L + 1], DD[L + 1], k, kept[k])
        /\ \A k \in call.changed :
               /\ ~call.dirty /\ CleanRun(plan, RR, NN, DD)
               /\ ~Stray(RR[L + 1], NN[L + 1], k[1])
               => Safe(RR[L + 1], NN[L + 1], DD[L + 1], k, call.value)
    BY <1>7, <2>3, <2>4 DEF Serves
  <2>7. ASSUME NEW k \in Keys \ (unsure \cup call.risk), NEW i \in 0 .. L
        PROVE  Safe(R[i], N[i], D[i], k, kept[k])
    <3>1. i + 1 \in 0 .. (L + 1)
      BY <2>4
    <3>2. Safe(RR[i + 1], NN[i + 1], DD[i + 1], k, kept[k])
      BY <2>6, <3>1
    <3> QED
      BY <2>3, <3>2
  <2>8. ASSUME ~call'.dirty, CleanRun(q, R, N, D)
        PROVE  CleanRun(plan, RR, NN, DD)
    <3> SUFFICES ASSUME NEW i \in 1 .. (L + 1)
                 PROVE  ErasedFor(plan[i], RR[i - 1], NN[i - 1], DD[i - 1])
      BY <2>4 DEF CleanRun
    <3>1. CASE i = 1
      <4>1. RR[0] = root /\ NN[0] = names /\ DD[0] = data
        BY <2>3 DEF Run
      <4>2. ErasedFor(plan[1], root, names, data)
        BY <1>5, <1>8, <2>8
      <4> QED
        BY <3>1, <4>1, <4>2
    <3>2. CASE i # 1
      <4> DEFINE j == i - 1
      <4>1. j \in 1 .. L /\ j - 1 \in 0 .. L /\ (j - 1) + 1 = j /\ j + 1 = i
        BY <2>4, <3>2
      <4>2. ErasedFor(q[j], R[j - 1], N[j - 1], D[j - 1])
        BY <2>8, <4>1 DEF CleanRun, L
      <4>3. q[j] = plan[i]
        BY <1>3, <4>1 DEF L
      <4>4. RR[j] = R[j - 1] /\ NN[j] = N[j - 1] /\ DD[j] = D[j - 1]
        BY <2>3, <4>1
      <4> QED
        BY <4>2, <4>3, <4>4
    <3> QED
      BY <3>1, <3>2
  <2>9. ASSUME NEW k \in call.changed, ~call'.dirty, CleanRun(q, R, N, D),
               ~Stray(R[L], N[L], k[1])
        PROVE  Safe(R[L], N[L], D[L], k, call.value)
    BY <1>5, <2>5, <2>6, <2>8, <2>9
  <2>10. ASSUME NEW k \in Keys \ unsure, k \notin call.changed
         PROVE  Safe(R[L], N[L], D[L], k, kept[k])
    BY <2>5, <2>6, <2>10
  <2> QED
    BY <2>7, <2>9, <2>10 DEF L
<1>10. Serves(q, root', names', data', call', kept, unsure)
  BY <1>5, <1>9 DEF Serves
<1>11. Serves(plan', root', names', data', call', kept', unsure')
  BY <1>1, <1>10
<1> QED
  BY <1>6, <1>11 DEF KeepInv

\* A call ends: what it was to change is changed, or not sure.
LEMMA ReturnServes ==
    ASSUME StoreInv, KeepInv, Return
    PROVE  KeepInv'
<1>1. /\ call # None /\ plan = <<>> /\ call' = None
      /\ kept' = [k \in Keys |-> IF k \in call.changed THEN call.value ELSE kept[k]]
      /\ unsure' = {k \in Keys : IF k \in call.changed THEN call.dirty \/ AtOrphans(k[1])
                                                      ELSE k \in unsure}
      /\ UNCHANGED <<root, names, data>>
  BY DEF Return
<1>2. plan \in Seq(Op) /\ Len(plan) = 0
  BY <1>1
<1>3. PICK R, N, D : Run(plan, root, names, data, R, N, D)
  BY <1>2, RunExists, Zenon
<1>4. R[0] = root /\ N[0] = names /\ D[0] = data
  BY <1>3 DEF Run
<1>5. CleanRun(plan, R, N, D)
  BY <1>2 DEF CleanRun
<1>6. /\ \A k \in Keys \ unsure : k \notin call.changed =>
             Safe(root, names, data, k, kept[k])
      /\ \A k \in call.changed : ~call.dirty /\ ~Stray(root, names, k[1]) =>
             Safe(root, names, data, k, call.value)
  BY <1>1, <1>2, <1>3, <1>4, <1>5 DEF KeepInv, Serves
<1>7. \A ns : Stray(root, names, ns) => AtOrphans(ns)
  BY SpaceAddr DEF Stray, AtOrphans, Orphans
<1>8. ASSUME NEW k \in Keys, k \notin unsure'
      PROVE  Safe(root, names, data, k, kept'[k])
  <2>1. CASE k \in call.changed
    <3>1. ~call.dirty /\ ~AtOrphans(k[1]) /\ kept'[k] = call.value
      BY <1>1, <1>8, <2>1
    <3> QED
      BY <1>6, <1>7, <2>1, <3>1
  <2>2. CASE k \notin call.changed
    <3>1. k \notin unsure /\ kept'[k] = kept[k]
      BY <1>1, <1>8, <2>2
    <3> QED
      BY <1>6, <2>2, <3>1
  <2> QED
    BY <2>1, <2>2
<1>9. \A k \in Keys \ unsure' : Safe(root', names', data', k, kept'[k])
  BY <1>1, <1>8
<1> QED
  BY <1>1, <1>9 DEF KeepInv

\* Power is lost: the keys at risk are not sure any more, the others are safe.
LEMMA CrashServes ==
    ASSUME StoreInv, KeepInv, Crash
    PROVE  KeepInv'
<1>1. /\ call # None /\ call' = None /\ unsure' = unsure \cup call.risk
      /\ UNCHANGED <<root, names, data, kept>>
  BY DEF Crash
<1>2. plan \in Seq(Op) /\ 0 \in 0 .. Len(plan)
  BY DEF StoreInv
<1>3. PICK R, N, D : Run(plan, root, names, data, R, N, D)
  BY <1>2, RunExists, Zenon
<1>4. R[0] = root /\ N[0] = names /\ D[0] = data
  BY <1>3 DEF Run
<1>5. \A k \in Keys \ (unsure \cup call.risk) : Safe(root, names, data, k, kept[k])
  BY <1>1, <1>2, <1>3, <1>4 DEF KeepInv, Serves
<1>6. \A k \in Keys \ unsure' : Safe(root', names', data', k, kept'[k])
  BY <1>1, <1>5
<1> QED
  BY <1>1, <1>6 DEF KeepInv

LEMMA KeepStep == StoreInv /\ KeepInv /\ [Next]_vars => KeepInv'
<1> SUFFICES ASSUME StoreInv, KeepInv, [Next]_vars PROVE KeepInv'
  OBVIOUS
<1>1. CASE UNCHANGED vars
  <2>1. UNCHANGED <<root, names, data, plan, call, kept, unsure>>
    BY <1>1 DEF vars
  <2>2. CASE call = None
    <3>1. \A k \in Keys \ unsure : Safe(root, names, data, k, kept[k])
      BY <2>2 DEF KeepInv
    <3>2. \A k \in Keys \ unsure' : Safe(root', names', data', k, kept'[k])
      BY <2>1, <3>1
    <3> QED
      BY <2>1, <2>2, <3>2 DEF KeepInv
  <2>3. CASE call # None
    <3>1. Serves(plan, root, names, data, call, kept, unsure)
      BY <2>3 DEF KeepInv
    <3>2. Serves(plan', root', names', data', call', kept', unsure')
      BY <2>1, <3>1
    <3> QED
      BY <2>1, <2>3, <3>2 DEF KeepInv
  <2> QED
    BY <2>2, <2>3
<1> QED
  BY <1>1, CallServes, FlashStepServes, ReturnServes, CrashServes DEF Next

LEMMA KeepInvariant == Spec => [](StoreInv /\ KeepInv)
<1>1. StoreInv /\ KeepInv /\ [Next]_vars => (StoreInv /\ KeepInv)'
  BY StoreStep, KeepStep
<1> QED
  BY <1>1, StoreInit, KeepInit, PTL DEF Spec

\* What a safe key reads back.
LEMMA SafeReads ==
    ASSUME Ready, NEW k \in Keys, NEW x \in Values \cup {None},
           Safe(root, names, data, k, x)
    PROVE  bk_read_data(k[1], k[2]) = x
<1> DEFINE b == get_namespace_addr(k[1])
           s == get_name_addr(k[2], names[b])
           V == {v \in Values : Bytes(v) = Content(b, names[b][s])}
<1>1. /\ b = 0 => \A c \in BlockIds : root[c] # k[1]
      /\ b # 0 => b \in BlockIds /\ root[b] = k[1]
  BY SpaceAddr
<1>2. /\ b = 0 \/ s = 0 => bk_read_data(k[1], k[2]) = None
      /\ b # 0 /\ s # 0 => bk_read_data(k[1], k[2]) =
                               IF V = {} THEN Garbage ELSE CHOOSE v \in V : TRUE
  <2> DEFINE y == IF b = 0 THEN 0 ELSE get_name_addr(k[2], names[b])
  <2>1. bk_read_data(k[1], k[2]) =
            IF y = 0 THEN None
            ELSE LET W == {v \in Values : Bytes(v) = Content(b, names[b][y])}
                 IN  IF W = {} THEN Garbage ELSE CHOOSE v \in W : TRUE
    BY DEF bk_read_data
  <2>2. (b = 0 \/ s = 0 => y = 0) /\ (b # 0 => y = s)
    OBVIOUS
  <2> HIDE DEF y, b, s
  <2> QED
    BY <2>1, <2>2
<1> HIDE DEF b
<1>3. CASE b = 0
  <2>1. x = None
    BY <1>1, <1>3 DEF Safe
  <2> QED
    BY <1>2, <1>3, <2>1
<1>4. CASE b # 0 /\ x = None
  <2>1. Free(names[b], k[2])
    BY <1>1, <1>4 DEF Safe, HeldBy
  <2>2. s = 0
    BY <2>1, NameAddr DEF Free
  <2> QED
    BY <1>2, <1>4, <2>2
<1>5. CASE b # 0 /\ x # None
  <2>1. b \in BlockIds /\ Held(names[b], data[b], k[2], x)
    BY <1>1, <1>5 DEF Safe, HeldBy
  <2>2. PICK t \in 1 .. Slots :
            /\ names[b][t].flag = "USING" /\ names[b][t].name = k[2]
            /\ names[b][t].len = Length[x]
            /\ \A i \in 1 .. Length[x] : data[b][names[b][t].off + i] = Byte(x, i)
    BY <2>1 DEF Held
  <2>3. s # 0 /\ s \in 1 .. Slots /\ names[b][s].flag = "USING" /\ names[b][s].name = k[2]
    BY <2>2, NameAddr
  <2> HIDE DEF s
  <2>4. s = t
    BY <2>1, <2>2, <2>3 DEF Ready, GoodNames
  <2>5. Content(b, names[b][s]) = Bytes(x)
    BY <2>2, <2>4 DEF Content, Bytes
  <2>6. x \in Values
    BY <1>5
  <2>7. ASSUME NEW v \in Values, Bytes(v) = Bytes(x) PROVE v = x
    <3>1. 1 \in 1 .. Length[v] /\ 1 \in 1 .. Length[x]
      BY <2>6, StoreAssumption
    <3>2. Bytes(v)[1] = Byte(v, 1) /\ Bytes(x)[1] = Byte(x, 1)
      BY <3>1 DEF Bytes
    <3>3. Byte(v, 1) = Byte(x, 1)
      BY <2>7, <3>2
    <3> QED
      BY <3>3 DEF Byte
  <2>8. V = {x}
    BY <2>5, <2>6, <2>7
  <2> HIDE DEF V
  <2>9. (CHOOSE v \in V : TRUE) = x /\ V # {}
    BY <2>8
  <2> QED
    BY <1>2, <1>5, <2>3, <2>9
<1> QED
  BY <1>3, <1>4, <1>5

-----------------------------------------------------------------------------
(* The theorems.                                                           *)

\* However often power is lost, and between whichever two operations on the
\* flash, the sectors are well formed: a name has one live entry at most, a
\* namespace one block at most, no two live entries share a byte, and every entry
\* ends inside its sector (bk_set_name_data, bk_reorganize_name_data,
\* bK_clear_namespace).
THEOREM SectorsAreWellFormed == Spec => []WellFormed
<1>1. StoreInv => WellFormed
  <2> SUFFICES ASSUME StoreInv PROVE WellFormed
    OBVIOUS
  <2>0. \A b \in BlockIds : \A s \in 1 .. Slots : names[b][s] \in EntrySet
    BY DEF StoreInv, Sectors
  <2>1. \A b \in BlockIds : \A s \in 1 .. Slots :
            /\ names[b][s].flag \in Flag
            /\ names[b][s].name \in Names \cup {None}
    BY <2>0 DEF EntrySet
  <2>2. \A b \in BlockIds : GoodNames(names[b])
    BY DEF StoreInv
  <2>3. \A b \in BlockIds : \A s \in 1 .. Slots : names[b][s].off + names[b][s].len < Cells
    BY <2>2 DEF GoodNames, End
  <2>4. TypeOK
    BY <2>1, <2>3 DEF TypeOK, StoreInv, Sectors, Flag
  <2>5. OneLiveEntry
    BY <2>2 DEF OneLiveEntry, GoodNames
  <2>6. NoOverlap
    BY <2>2 DEF NoOverlap, GoodNames, End
  <2> QED
    BY <2>4, <2>5, <2>6 DEF WellFormed, StoreInv
<1> QED
  BY <1>1, StoreInvariant, PTL

\* As long as power was never lost, every operation programs what is erased: a
\* new value lies behind the last entry, masked or not, and bk_set_name_data_new_addr
\* and bk_reorganize_name_data never write twice to a byte.
THEOREM OnlyErasedIsProgrammed == Spec => []ProgramsErased
<1>1. StoreInv => ProgramsErased
  <2> SUFFICES ASSUME StoreInv, plan # <<>>, crashes = 0 PROVE OnErased(Head(plan))
    BY DEF ProgramsErased
  <2> DEFINE o == plan[1]
             b == o.b
  <2>1. plan \in Seq(Op)
    BY DEF StoreInv
  <2>2. Head(plan) = o /\ o \in Op /\ 1 \in DOMAIN plan
    BY <2>1, TailPlan
  <2>3. \A j \in 1 .. (1 - 1) : FALSE
    OBVIOUS
  <2>4. \A kind : ~Before(plan, 1, kind, b)
    BY <2>3 DEF Before
  <2>5. CASE o.op = "data"
    <3>1. b \in BlockIds /\ o.off \in Nat /\ o.bytes \in Seq(Cell)
      BY <2>2, <2>5, OpFields
    <3>2. /\ o.off + Len(o.bytes) < Cells
          /\ \A c \in 1 .. Cells : o.off < c /\ c <= o.off + Len(o.bytes) =>
                 data[b][c] = Erased
      BY <2>2, <2>4, <2>5 DEF StoreInv, DataPlan
    <3>3. DOMAIN o.bytes = 1 .. Len(o.bytes) /\ Len(o.bytes) \in Nat
      BY <3>1
    <3>4. \A i \in DOMAIN o.bytes : /\ o.off + i \in 1 .. Cells
                                    /\ o.off < o.off + i
                                    /\ o.off + i <= o.off + Len(o.bytes)
      BY <3>1, <3>2, <3>3, StoreAssumption
    <3>5. \A i \in DOMAIN o.bytes : data[b][o.off + i] = Erased
      BY <3>2, <3>4
    <3> QED
      BY <2>2, <2>5, <3>5 DEF OnErased
  <2>6. CASE o.op = "entry"
    <3>1. b \in BlockIds /\ o.s \in 1 .. Slots
      BY <2>2, <2>6, OpFields
    <3>2. EntryFree(plan, 1, names)
      BY <2>2, <2>6 DEF StoreInv, EntryPlan
    <3>3. names[b][o.s].flag # "ERASED" => o.s < o.s
      BY <2>3, <2>4, <3>1, <3>2 DEF EntryFree
    <3>4. names[b][o.s].flag = "ERASED"
      BY <3>1, <3>3, StoreAssumption
    <3>5. names[b][o.s] = NoEntry
      BY <3>1, <3>4 DEF StoreInv, GoodNames
    <3> QED
      BY <2>2, <2>6, <3>5 DEF OnErased
  <2>7. CASE o.op = "root"
    <3>1. root[b] = None
      BY <2>2, <2>3, <2>7 DEF StoreInv, RootPlan
    <3> QED
      BY <2>2, <2>7, <3>1 DEF OnErased
  <2>8. CASE o.op \notin {"data", "entry", "root"}
    BY <2>2, <2>8 DEF OnErased
  <2> QED
    BY <2>5, <2>6, <2>7, <2>8
<1> QED
  BY <1>1, StoreInvariant, PTL

\* Between two calls every key reads back what was written last, however often
\* values were masked, blocks reorganised and namespaces cleared before, and
\* whenever power was lost; the exceptions are the keys a loss of power put at
\* risk and those written later over what it left (bk_write_data, bk_clean_data,
\* bk_reorganize_name_data, bK_clear_namespace, bk_read_data).
THEOREM KeysReadBack == Spec => []ReadsBack
<1>1. StoreInv /\ KeepInv => ReadsBack
  <2> SUFFICES ASSUME StoreInv, KeepInv, call = None, NEW k \in Keys \ unsure
               PROVE  bk_read_data(k[1], k[2]) = kept[k]
    BY DEF ReadsBack
  <2>1. Ready
    BY ReadyBetween
  <2>2. Safe(root, names, data, k, kept[k])
    BY DEF KeepInv
  <2>3. k \in Keys /\ kept[k] \in Values \cup {None}
    BY DEF StoreInv
  <2> QED
    BY <2>1, <2>2, <2>3, SafeReads
<1> QED
  BY <1>1, KeepInvariant, PTL
=============================================================================
