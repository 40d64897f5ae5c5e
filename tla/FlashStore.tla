----------------------------- MODULE FlashStore -----------------------------
(***************************************************************************)
(* func/key_value_flash/flash_namespace_value.c: values under a namespace  *)
(* and a name, kept in flash sectors that can be erased whole and          *)
(* otherwise only programmed from 1 to 0.                                  *)
(*                                                                         *)
(*   root      one sector: which block belongs to which namespace;         *)
(*   names     one sector a block: entries of 64 bytes, used in order,     *)
(*             ERASED, then USING, then MASK (the flags are chosen so that *)
(*             each is reached by clearing bits);                          *)
(*   data      one sector a block: the values, one behind the other.       *)
(*                                                                         *)
(* A call reads the sectors, and what it then does to the flash is a       *)
(* sequence of erase and program operations: its plan.  Power may go       *)
(* between any two of them.  The calls come from one thread; nothing in    *)
(* the file locks.                                                         *)
(***************************************************************************)
EXTENDS Integers, Sequences, FiniteSets, FiniteSetsExt

CONSTANTS Spaces,       \* namespaces the application uses
          Names,        \* names within a namespace
          Values,       \* values written
          Length,       \* bytes of each value
          Blocks,       \* FLASH_NAME_SPACE_MAX_ARRAY
          Slots,        \* FLASH_NAME_MAX_ARRAY
          Cells,        \* FLASH_SECTOR_SIZE, in bytes
          None,         \* no value, no namespace, no call
          MaxCrashes    \* bound: losses of power

Keys == Spaces \X Names
BlockIds == 1 .. Blocks

\* A call in progress: the keys it changes and to what, the keys at risk until
\* it is through, whether it reports success, and whether it has programmed
\* what was not erased.
Calls == [changed : SUBSET Keys, value : Values \cup {None},
          risk : SUBSET Keys, ok : BOOLEAN, dirty : BOOLEAN]

ASSUME StoreAssumption ==
    /\ Length \in [Values -> Nat \ {0}]
    /\ Blocks \in Nat \ {0} /\ Slots \in Nat \ {0} /\ Cells \in Nat \ {0}
    /\ MaxCrashes \in Nat
    /\ None \notin Values \cup Spaces \cup Names \cup Calls

VARIABLES
    root,       \* root[b]: the namespace of block b, or None
    names,      \* names[b]: the entries of block b
    data,       \* data[b]: the cells of its data sector
    plan,       \* flash operations the running call has still to do
    call,       \* the running call, or None
    kept,       \* what each key should hold: the value written last, or None
    unsure,     \* keys a loss of power may have touched
    crashes     \* losses of power so far

vars == <<root, names, data, plan, call, kept, unsure, crashes>>

Garbage == "garbage"

\* A cell holds a byte of a value, nothing, or the AND of two bytes.
Erased == <<>>
Byte(v, i) == <<v, i>>
Bytes(v) == [i \in 1 .. Length[v] |-> Byte(v, i)]
Program(old, new) == IF old = Erased \/ old = new THEN new ELSE <<Garbage, 0>>

NoEntry == [flag |-> "ERASED", name |-> None, off |-> 0, len |-> 0]
EmptyNames == [s \in 1 .. Slots |-> NoEntry]
EmptyData == [c \in 1 .. Cells |-> Erased]

----------------------------------------------------------------------------
(***************************************************************************)
(* Reading.                                                                *)
(***************************************************************************)
\* get_namespace_addr: the first block in use under that namespace; 0: none.
get_namespace_addr(ns) ==
    LET B == {b \in BlockIds : root[b] = ns}
    IN  IF B = {} THEN 0 ELSE Min(B)

\* get_name_addr: the first entry in use under that name; 0: none.
get_name_addr(n, entries) ==
    LET S == {s \in 1 .. Slots : entries[s].flag = "USING" /\ entries[s].name = n}
    IN  IF S = {} THEN 0 ELSE Min(S)

\* The bytes an entry points to.
Content(b, e) == [i \in 1 .. e.len |-> data[b][e.off + i]]

\* bk_read_data, with a buffer that is long enough.
bk_read_data(ns, n) ==
    LET b == get_namespace_addr(ns)
        s == IF b = 0 THEN 0 ELSE get_name_addr(n, names[b])
    IN  IF s = 0 THEN None
        ELSE LET V == {v \in Values : Bytes(v) = Content(b, names[b][s])}
             IN  IF V = {} THEN Garbage ELSE CHOOSE v \in V : TRUE

----------------------------------------------------------------------------
(***************************************************************************)
(* Plans.  An operation on the flash is one of                             *)
(*   eraseRoot, eraseNames(b), eraseData(b)                                *)
(*   root(b, ns), entry(b, slot, e), mask(b, slot), data(b, off, bytes)    *)
(***************************************************************************)
EraseRoot == [op |-> "eraseRoot"]
EraseNames(b) == [op |-> "eraseNames", b |-> b]
EraseData(b) == [op |-> "eraseData", b |-> b]
PutRoot(b, ns) == [op |-> "root", b |-> b, ns |-> ns]
PutEntry(b, s, e) == [op |-> "entry", b |-> b, s |-> s, e |-> e]
Mask(b, s) == [op |-> "mask", b |-> b, s |-> s]
PutData(b, off, bytes) == [op |-> "data", b |-> b, off |-> off, bytes |-> bytes]

Entry(n, off, len) == [flag |-> "USING", name |-> n, off |-> off, len |-> len]

\* A plan and whether the call reports success.
Do(steps, ok) == [steps |-> steps, ok |-> ok]

\* Where a value goes that gets entry s: behind the entry before it.
\* Mutant: behind the last entry that is in use.
DataOffsetLive(entries, s) ==
    LET U == {t \in 1 .. s - 1 : entries[t].flag = "USING"}
    IN  IF U = {} THEN 0 ELSE entries[Max(U)].off + entries[Max(U)].len

DataOffset(entries, s) ==
    IF s = 1 THEN 0 ELSE entries[s - 1].off + entries[s - 1].len

Fits(off, v) == off + Length[v] < Cells

\* Mutant: the entries written back keep their old offsets.
WriteBackStale(b, entries) ==
    LET Upto[s \in 0 .. Slots] ==
            IF s = 0 THEN [steps |-> <<>>, off |-> 0, used |-> 0]
            ELSE IF entries[s].flag # "USING" THEN Upto[s - 1]
            ELSE LET w == Upto[s - 1]
                     e == entries[s]
                 IN  [steps |-> w.steps \o <<PutData(b, w.off, Content(b, e)),
                                             PutEntry(b, w.used + 1, e)>>,
                      off |-> w.off + e.len, used |-> w.used + 1]
    IN  Upto[Slots]

\* The loop of bk_reorganize_name_data over the entries: what is in use is
\* moved to the front, its data behind the data before it.
WriteBack(b, entries) ==
    LET Upto[s \in 0 .. Slots] ==
            IF s = 0 THEN [steps |-> <<>>, off |-> 0, used |-> 0]
            ELSE IF entries[s].flag # "USING" THEN Upto[s - 1]
            ELSE LET w == Upto[s - 1]
                     e == entries[s]
                 IN  [steps |-> w.steps \o
                                <<PutData(b, w.off, Content(b, e)),
                                  PutEntry(b, w.used + 1, Entry(e.name, w.off, e.len))>>,
                      off |-> w.off + e.len, used |-> w.used + 1]
    IN  Upto[Slots]

\* bk_reorganize_name_data: both sectors are erased, what is in use is
\* written back from memory, and the new value is added if it fits now.
bk_reorganize_name_data(b, entries, n, v) ==
    LET w == WriteBack(b, entries)
        all == <<EraseNames(b), EraseData(b)>> \o w.steps
    IN  IF ~Fits(w.off, v) THEN Do(all, FALSE)
        ELSE Do(all \o <<PutData(b, w.off, Bytes(v)),
                         PutEntry(b, w.used + 1, Entry(n, w.off, Length[v]))>>, TRUE)

\* bk_set_name_data_new_addr: behind the last entry, or after reorganising.
bk_set_name_data_new_addr(b, entries, n, v) ==
    LET Unused == {s \in 1 .. Slots : entries[s].flag = "ERASED"}
        s == Min(Unused)
        off == DataOffset(entries, s)
    IN  IF Unused = {}
        THEN IF \E t \in 1 .. Slots : entries[t].flag = "MASK"
             THEN bk_reorganize_name_data(b, entries, n, v)
             ELSE Do(<<>>, FALSE)
        ELSE IF ~Fits(off, v)
        THEN bk_reorganize_name_data(b, entries, n, v)
        ELSE Do(<<PutData(b, off, Bytes(v)), PutEntry(b, s, Entry(n, off, Length[v]))>>, TRUE)

\* Mutant: the old entry is masked after the new one is written.
bk_set_name_dataLate(b, n, v) ==
    LET s == get_name_addr(n, names[b])
        new == bk_set_name_data_new_addr(b, names[b], n, v)
    IN  IF s = 0 THEN new
        ELSE IF Content(b, names[b][s]) = Bytes(v) THEN Do(<<>>, TRUE)
        ELSE Do(new.steps \o <<Mask(b, s)>>, new.ok)

\* bk_set_name_data: a value that differs is masked first and then written
\* anew; one that is the same is left.
bk_set_name_data(b, n, v) ==
    LET s == get_name_addr(n, names[b])
        masked == [names[b] EXCEPT ![s].flag = "MASK"]
        new == bk_set_name_data_new_addr(b, masked, n, v)
    IN  IF s = 0 THEN bk_set_name_data_new_addr(b, names[b], n, v)
        ELSE IF Content(b, names[b][s]) = Bytes(v) THEN Do(<<>>, TRUE)
        ELSE Do(<<Mask(b, s)>> \o new.steps, new.ok)

\* bk_set_namespace: the first block that is not in use.  Its sectors are
\* not erased.
bk_set_namespace == LET B == {b \in BlockIds : root[b] = None}
                    IN  IF B = {} THEN 0 ELSE Min(B)

bk_write_plan(ns, n, v) ==
    LET b == get_namespace_addr(ns)
        f == bk_set_namespace
    IN  IF b # 0 THEN bk_set_name_data(b, n, v)
        ELSE IF f = 0 THEN Do(<<>>, FALSE)
        ELSE LET d == bk_set_name_data(f, n, v)
             IN  Do(<<PutRoot(f, ns)>> \o d.steps, d.ok)

\* The loop of bK_clear_namespace: the other namespaces are written back.
Others(b) ==
    LET Upto[i \in 0 .. Blocks] ==
            IF i = 0 THEN <<>>
            ELSE IF i = b \/ root[i] = None THEN Upto[i - 1]
            ELSE Append(Upto[i - 1], PutRoot(i, root[i]))
    IN  Upto[Blocks]

bk_clear_plan(ns) ==
    LET b == get_namespace_addr(ns)
    IN  IF b = 0 THEN Do(<<>>, FALSE)
        ELSE Do(<<EraseNames(b), EraseData(b), EraseRoot>> \o Others(b), TRUE)

bk_clean_plan(ns, n) ==
    LET b == get_namespace_addr(ns)
        s == IF b = 0 THEN 0 ELSE get_name_addr(n, names[b])
    IN  IF s = 0 THEN Do(<<>>, FALSE) ELSE Do(<<Mask(b, s)>>, TRUE)

bk_ensure_plan(ns) ==
    LET f == bk_set_namespace
    IN  IF get_namespace_addr(ns) # 0 THEN Do(<<>>, TRUE)
        ELSE IF f = 0 THEN Do(<<>>, FALSE)
        ELSE Do(<<PutRoot(f, ns)>>, TRUE)

\* bk_erase_all: every sector of the partition, in order.
bk_erase_plan == Do(<<EraseRoot>> \o [b \in BlockIds |-> EraseNames(b)]
                                  \o [b \in BlockIds |-> EraseData(b)], TRUE)

----------------------------------------------------------------------------
(***************************************************************************)
(* The flash of a device that was never used is erased.                    *)
(***************************************************************************)
Init ==
    /\ root = [b \in BlockIds |-> None]
    /\ names = [b \in BlockIds |-> EmptyNames]
    /\ data = [b \in BlockIds |-> EmptyData]
    /\ plan = <<>> /\ call = None
    /\ kept = [k \in Keys |-> None]
    /\ unsure = {} /\ crashes = 0

Erases(steps) == \E i \in DOMAIN steps : steps[i].op \in {"eraseNames", "eraseData"}

\* A call begins: it has read the sectors and knows what it will do.
Begin(p, changed, v, risk) ==
    /\ call = None
    /\ plan' = p.steps
    /\ call' = [changed |-> changed, value |-> v, risk |-> risk, ok |-> p.ok,
                dirty |-> FALSE]
    /\ UNCHANGED <<root, names, data, kept, unsure, crashes>>

StoredLen(ns, n) ==
    LET b == get_namespace_addr(ns)
        s == IF b = 0 THEN 0 ELSE get_name_addr(n, names[b])
    IN  IF s = 0 THEN 0 ELSE names[b][s].len

\* A failed write has masked the old value if there was one.
bk_write_data(ns, n, v) ==
    LET p == bk_write_plan(ns, n, v)
        lost == ~p.ok /\ p.steps # <<>> /\ StoredLen(ns, n) # 0
    IN  Begin(p, IF p.ok \/ lost THEN {<<ns, n>>} ELSE {}, IF p.ok THEN v ELSE None,
              IF Erases(p.steps) THEN {ns} \X Names ELSE {<<ns, n>>})

bk_clean_data(ns, n) ==
    LET p == bk_clean_plan(ns, n)
    IN  Begin(p, IF p.ok THEN {<<ns, n>>} ELSE {}, None, {<<ns, n>>})

bK_clear_namespace(ns) ==
    LET p == bk_clear_plan(ns)
    IN  Begin(p, IF p.ok THEN {ns} \X Names ELSE {}, None, Keys)

bk_ensure_namespace(ns) == Begin(bk_ensure_plan(ns), {}, None, {})

bk_erase_all == Begin(bk_erase_plan, Keys, None, Keys)

\* One operation on the flash.
FlashDo(o) ==
    /\ root' = CASE o.op = "eraseRoot" -> [b \in BlockIds |-> None]
                 [] o.op = "root" -> [root EXCEPT ![o.b] = o.ns]
                 [] OTHER -> root
    /\ names' = CASE o.op = "eraseNames" -> [names EXCEPT ![o.b] = EmptyNames]
                  [] o.op = "entry" -> [names EXCEPT ![o.b][o.s] = o.e]
                  [] o.op = "mask" -> [names EXCEPT ![o.b][o.s].flag = "MASK"]
                  [] OTHER -> names
    /\ data' = CASE o.op = "eraseData" -> [data EXCEPT ![o.b] = EmptyData]
                 [] o.op = "data" ->
                      [data EXCEPT ![o.b] =
                          [c \in 1 .. Cells |->
                              IF c - o.off \in DOMAIN o.bytes
                              THEN Program(@[c], o.bytes[c - o.off]) ELSE @[c]]]
                 [] OTHER -> data

\* The cells an operation programs are erased.
OnErased(o) ==
    CASE o.op = "data" -> \A i \in DOMAIN o.bytes : data[o.b][o.off + i] = Erased
      [] o.op = "entry" -> names[o.b][o.s] = NoEntry
      [] o.op = "root" -> root[o.b] = None
      [] OTHER -> TRUE

FlashStep ==
    /\ plan # <<>>
    /\ FlashDo(Head(plan))
    /\ plan' = Tail(plan)
    /\ call' = [call EXCEPT !.dirty = @ \/ ~OnErased(Head(plan))]
    /\ UNCHANGED <<kept, unsure, crashes>>

\* A block no namespace owns and whose names were not erased: the next
\* namespace to take it finds them there.
Orphans == {b \in BlockIds : root[b] = None /\ names[b] # EmptyNames}
AtOrphans(ns) == get_namespace_addr(ns) = 0 /\ Orphans # {}

Return ==
    /\ call # None /\ plan = <<>>
    /\ call' = None
    /\ kept' = [k \in Keys |-> IF k \in call.changed THEN call.value ELSE kept[k]]
    /\ unsure' = {k \in Keys : IF k \in call.changed THEN call.dirty \/ AtOrphans(k[1])
                                                    ELSE k \in unsure}
    /\ UNCHANGED <<root, names, data, plan, crashes>>

\* Power is lost between two operations; the call is forgotten.
Crash ==
    /\ call # None /\ crashes < MaxCrashes
    /\ crashes' = crashes + 1
    /\ plan' = <<>> /\ call' = None
    /\ unsure' = unsure \cup call.risk
    /\ UNCHANGED <<root, names, data, kept>>

Call == \/ \E ns \in Spaces, n \in Names, v \in Values : bk_write_data(ns, n, v)
        \/ \E ns \in Spaces, n \in Names : bk_clean_data(ns, n)
        \/ \E ns \in Spaces : bK_clear_namespace(ns)
        \/ \E ns \in Spaces : bk_ensure_namespace(ns)
        \/ bk_erase_all

Next == Call \/ FlashStep \/ Return \/ Crash

Spec == Init /\ [][Next]_vars

----------------------------------------------------------------------------
(***************************************************************************)
(* Properties.                                                             *)
(***************************************************************************)
\* Types; an entry and its bytes lie inside the sector and never fill it.
TypeOK ==
    /\ root \in [BlockIds -> Spaces \cup {None}]
    /\ \A b \in BlockIds : \A s \in 1 .. Slots :
           LET e == names[b][s]
           IN  /\ e.flag \in {"ERASED", "USING", "MASK"}
               /\ e.name \in Names \cup {None}
               /\ e.off + e.len < Cells
    /\ call \in Calls \cup {None}
    /\ kept \in [Keys -> Values \cup {None}]
    /\ unsure \subseteq Keys /\ crashes \in 0 .. MaxCrashes

\* Between two calls every key reads back what was written last, through
\* masking, reorganising and clearing, but for the keys that a loss of power
\* put at risk: the one being written, all names of a namespace that was
\* being reorganised, everything while the root was rewritten, and keys
\* written later over cells an interrupted call had programmed.
ReadsBack ==
    call = None =>
        \A k \in Keys \ unsure : bk_read_data(k[1], k[2]) = kept[k]

\* A name never has two live entries, whenever power goes.
OneLiveEntry ==
    \A b \in BlockIds : \A s, t \in 1 .. Slots :
        names[b][s].flag = "USING" /\ names[b][t].flag = "USING"
            /\ names[b][s].name = names[b][t].name => s = t

\* A namespace never has two blocks.
OneBlockPerSpace ==
    \A b, c \in BlockIds : root[b] # None /\ root[b] = root[c] => b = c

\* A live entry's bytes overlap no other live entry's.
NoOverlap ==
    \A b \in BlockIds : \A s, t \in 1 .. Slots :
        s < t /\ names[b][s].flag = "USING" /\ names[b][t].flag = "USING"
            => names[b][s].off + names[b][s].len <= names[b][t].off

\* The sectors are well formed at every moment power may go, and so in every
\* state the next start finds them in.
WellFormed == TypeOK /\ OneLiveEntry /\ OneBlockPerSpace /\ NoOverlap

\* The principle the flags of the header are chosen by: "flash can only
\* write 0, not 1", so as long as no call was interrupted nothing is
\* programmed that is not erased.
ProgramsErased == plan # <<>> /\ crashes = 0 => OnErased(Head(plan))
=============================================================================
