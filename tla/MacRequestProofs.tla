--------------------------- MODULE MacRequestProofs ---------------------------
(***************************************************************************)
(* Proofs about MacRequest, for any number of threads, ids and calls and   *)
(* any queue length.  They assume Peers = {}: no caller has kmsgbk's       *)
(* priority.                                                               *)
(***************************************************************************)
EXTENDS MacRequest, TLAPS

\* A live node is that of a call in progress, one with a buffer.
LiveNodesInCall ==
    \A n \in live :
        pc[n.thd] # "idle" /\ n = Cur(n.thd) /\ n.id \in CfmId

\* A node is linked at most once.
ListHasNoRepeats ==
    \A i, j \in DOMAIN txHead : txHead[i] = txHead[j] => i = j

\* A linked node has not been signalled, and a caller that has been confirmed
\* or has withdrawn is no longer linked.
LinkedNodesWait ==
    /\ given \subseteq live
    /\ Elems(txHead) \subseteq live \cup dangling
    /\ Elems(txHead) \cap given = {}
    /\ \A t \in Thread :
           \/ pc[t] = "confirmed"
           \/ pc[t] = "failed" /\ Cur(t) \in timedOut
           => Cur(t) \notin Elems(txHead)

\* Nodes the history knows are those of calls already made; a call in progress
\* is not among those that ended dangling.
HistoryIsPast ==
    /\ \A n \in dangling \cup timedOut : n.seq <= calls[n.thd]
    /\ \A t \in Thread : pc[t] # "idle" => Cur(t) \notin dangling
    /\ \A t \in Thread : pc[t] = "expired" => Cur(t) \in timedOut
    /\ \A t \in Thread : pc[t] \in {"post", "wait"} => Cur(t) \notin timedOut

\* What kmsgbk's local variables point to between its steps.
HandlerLocals ==
    /\ kpc = "match" => rxMsg \in Node \cup {IND}
    /\ kpc \in {"extract", "copy", "signal"} =>
           rxMsg \in Node /\ txNode \in Node

\* The node kmsgbk has matched exists, or was left behind by a failed post.
HandlerHolds ==
    /\ kpc = "extract" => txNode \in Elems(txHead)
    /\ kpc \in {"copy", "signal"} =>
           /\ txNode \notin Elems(txHead)
           /\ txNode \in (live \ given) \cup dangling

\* A call in progress has an id.
CallsHaveIds ==
    \A t \in Thread : pc[t] # "idle" => id[t] \in Id /\ calls[t] \in 1..MaxCalls

TypeInv == TypeOK /\ CallsHaveIds /\ HandlerLocals

IndInv ==
    /\ TypeInv
    /\ LiveNodesInCall
    /\ ListHasNoRepeats
    /\ LinkedNodesWait
    /\ HistoryIsPast
    /\ HandlerHolds

-----------------------------------------------------------------------------
(* Lists.                                                                  *)

\* co_list_extract yields a list of the same kind of elements.
LEMMA ExtractType ==
    ASSUME NEW S, NEW s \in Seq(S), NEW n
    PROVE  co_list_extract(s, n) \in Seq(S)
<1>1. CASE n \notin Elems(s)
  BY <1>1 DEF co_list_extract
<1>2. CASE n \in Elems(s)
  <2> DEFINE k == CHOOSE i \in DOMAIN s : s[i] = n
             r == [i \in 1..(Len(s) - 1) |-> IF i < k THEN s[i] ELSE s[i + 1]]
  <2>1. k \in DOMAIN s /\ Len(s) \in Nat /\ DOMAIN s = 1..Len(s)
    BY <1>2 DEF Elems
  <2>2. \A i \in 1..(Len(s) - 1) : r[i] \in S
    BY <2>1
  <2>3. r \in Seq(S)
    <3>1. Len(s) - 1 \in Nat
      BY <2>1
    <3>2. r \in [1..(Len(s) - 1) -> S]
      BY <2>2
    <3>. QED BY <3>1, <3>2
  <2>. QED BY <1>2, <2>3 DEF co_list_extract
<1>. QED BY <1>1, <1>2

\* co_list_extract removes the node it is given, and only that one, from a list
\* that links no node twice.
LEMMA ExtractElems ==
    ASSUME NEW S, NEW s \in Seq(S), NEW n,
           \A i, j \in DOMAIN s : s[i] = s[j] => i = j
    PROVE  /\ Elems(co_list_extract(s, n)) = Elems(s) \ {n}
           /\ \A i, j \in DOMAIN co_list_extract(s, n) :
                  co_list_extract(s, n)[i] = co_list_extract(s, n)[j] => i = j
<1>1. CASE n \notin Elems(s)
  BY <1>1 DEF co_list_extract, Elems
<1>2. CASE n \in Elems(s)
  <2> DEFINE k == CHOOSE i \in DOMAIN s : s[i] = n
             r == [i \in 1..(Len(s) - 1) |-> IF i < k THEN s[i] ELSE s[i + 1]]
  <2>1. k \in DOMAIN s /\ s[k] = n /\ Len(s) \in Nat /\ DOMAIN s = 1..Len(s)
    BY <1>2 DEF Elems
  <2> HIDE DEF k
  <2>2. \A i \in DOMAIN r : r[i] \in Elems(s) \ {n}
    BY <2>1 DEF Elems
  <2>3. \A x \in Elems(s) \ {n} : x \in Elems(r)
    <3>1. SUFFICES ASSUME NEW i \in DOMAIN s, s[i] # n
                   PROVE  \E j \in DOMAIN r : r[j] = s[i]
      BY DEF Elems
    <3>2. CASE i < k
      BY <2>1, <3>2
    <3>3. CASE i > k
      <4>1. i - 1 \in DOMAIN r /\ r[i - 1] = s[i]
        BY <2>1, <3>3
      <4>. QED BY <4>1
    <3>. QED BY <2>1, <3>1, <3>2, <3>3
  <2>4. \A i, j \in DOMAIN r : r[i] = r[j] => i = j
    BY <2>1
  <2>5. Elems(r) = Elems(s) \ {n}
    <3>1. \A x \in Elems(r) : x \in Elems(s) \ {n}
      BY <2>2 DEF Elems
    <3>. QED BY <2>3, <3>1
  <2>6. co_list_extract(s, n) = r
    BY <1>2 DEF co_list_extract, k
  <2>. QED BY <2>4, <2>5, <2>6
<1>. QED BY <1>1, <1>2

\* co_list_push_back adds its node to the elements.
LEMMA PushElems ==
    ASSUME NEW S, NEW s \in Seq(S), NEW n \in S
    PROVE  /\ co_list_push_back(s, n) \in Seq(S)
           /\ Elems(co_list_push_back(s, n)) = Elems(s) \cup {n}
           /\ /\ \A i, j \in DOMAIN s : s[i] = s[j] => i = j
              /\ n \notin Elems(s)
              => \A i, j \in DOMAIN co_list_push_back(s, n) :
                    co_list_push_back(s, n)[i] = co_list_push_back(s, n)[j]
                    => i = j
<1> DEFINE r == Append(s, n)
<1>1. /\ r \in Seq(S)
      /\ Len(s) \in Nat
      /\ DOMAIN s = 1..Len(s)
      /\ DOMAIN r = 1..(Len(s) + 1)
      /\ \A i \in 1..Len(s) : r[i] = s[i]
      /\ r[Len(s) + 1] = n
  OBVIOUS
<1> HIDE DEF r
<1>2. Elems(r) = Elems(s) \cup {n}
  <2>1. \A x \in Elems(r) : x \in Elems(s) \cup {n}
    BY <1>1 DEF Elems
  <2>2. \A x \in Elems(s) : x \in Elems(r)
    BY <1>1 DEF Elems
  <2>3. n \in Elems(r)
    <3>1. Len(s) + 1 \in DOMAIN r
      BY <1>1
    <3>. QED BY <1>1, <3>1 DEF Elems
  <2>. QED BY <2>1, <2>2, <2>3
<1>3. ASSUME \A i, j \in DOMAIN s : s[i] = s[j] => i = j, n \notin Elems(s),
             NEW i \in DOMAIN r, NEW j \in DOMAIN r, r[i] = r[j]
      PROVE  i = j
  BY <1>1, <1>3 DEF Elems
<1>. QED BY <1>1, <1>2, <1>3 DEF co_list_push_back, r

-----------------------------------------------------------------------------
(* Type correctness.                                                       *)

\* A call's node is a node.
LEMMA CurIsNode ==
    ASSUME TypeInv, NEW t \in Thread, pc[t] # "idle"
    PROVE  Cur(t) \in Node
BY DEF TypeInv, TypeOK, CallsHaveIds, Cur, Node

\* The initial state is well typed.
LEMMA TypeInit == Init => TypeInv
<1> SUFFICES ASSUME Init PROVE TypeInv
  OBVIOUS
<1>1. <<>> \in Seq(Node) /\ <<>> \in Seq(Node \cup {DATA})
      /\ <<>> \in Seq(Node \cup {IND}) /\ Len(<<>>) = 0
  OBVIOUS
<1>2. /\ calls \in [Thread -> 0..MaxCalls]
      /\ id \in [Thread -> Id \cup {NONE}]
      /\ pc \in [Thread -> {"idle", "post", "wait", "expired", "confirmed",
                            "failed"}]
  BY BoundAssumption DEF Init
<1>3. /\ Len(ioQueue) <= QLen
      /\ appSema \in {0, 1} /\ others \in 0..MaxOther /\ inds \in 0..MaxInd
  BY <1>1, BoundAssumption DEF Init
<1>4. kpc \in {"sema", "pop", "match", "extract", "copy", "signal", "handle",
               "assert"}
  BY DEF Init
<1>5. TypeOK
  BY <1>1, <1>2, <1>3, <1>4 DEF Init, TypeOK
<1>. QED BY <1>5 DEF Init, TypeInv, CallsHaveIds, HandlerLocals

\* Every step of a caller keeps the types.
LEMMA TypeCaller ==
    ASSUME TypeInv, NEW t \in Thread,
           (\E i \in Id : Call(t, i)) \/ CallNoMemory(t) \/ CallerReturns(t)
    PROVE  TypeInv'
<1> USE DEF TypeInv, bkVars, rxVars, macVars, histVars
<1>1. ASSUME NEW i \in Id, Call(t, i)
      PROVE  TypeInv'
  <2> DEFINE n == [thd |-> t, seq |-> calls[t] + 1, id |-> i]
  <2>1. calls[t] + 1 \in 1..MaxCalls
    BY <1>1, BoundAssumption DEF Call, TypeOK
  <2>2. n \in Node
    BY <2>1 DEF Node
  <2>3. live' \subseteq Node /\ txHead' \in Seq(Node)
    BY <1>1, <2>2, PushElems DEF Call, TypeOK
  <2>4. TypeOK'
    BY <1>1, <2>1, <2>3 DEF Call, TypeOK
  <2>5. CallsHaveIds'
    BY <1>1, <2>1 DEF Call, TypeOK, CallsHaveIds
  <2>. QED BY <1>1, <2>4, <2>5 DEF Call, HandlerLocals
<1>2. CASE CallNoMemory(t)
  <2>1. calls[t] + 1 \in 1..MaxCalls
    BY <1>2, BoundAssumption DEF CallNoMemory, TypeOK
  <2>2. TypeOK'
    BY <1>2, <2>1 DEF CallNoMemory, nodeVars, TypeOK
  <2>. QED BY <1>2, <2>1, <2>2
           DEF CallNoMemory, CallsHaveIds, HandlerLocals, TypeOK
<1>3. CASE Post(t)
  <2>1. Cur(t) \in Node
    BY <1>3, CurIsNode DEF Post
  <2>2. ioQueue' \in Seq(Node \cup {DATA}) /\ Len(ioQueue') <= QLen
    BY <1>3, <2>1, BoundAssumption DEF Post, TypeOK
  <2>3. TypeOK'
    BY <1>3, <2>2 DEF Post, nodeVars, TypeOK
  <2>. QED BY <1>3, <2>3 DEF Post, CallsHaveIds, HandlerLocals, TypeOK
<1>4. CASE PostFails(t)
  BY <1>4 DEF PostFails, nodeVars, TypeOK, CallsHaveIds, HandlerLocals
<1>5. CASE Confirmed(t)
  BY <1>5 DEF Confirmed, TypeOK, CallsHaveIds, HandlerLocals
<1>6. CASE Timeout(t)
  <2>1. Cur(t) \in Node
    BY <1>6, CurIsNode DEF Timeout
  <2>. QED BY <1>6, <2>1
           DEF Timeout, nodeVars, TypeOK, CallsHaveIds, HandlerLocals
<1>7. CASE Withdraw(t)
  <2>1. txHead' \in Seq(Node)
    BY <1>7, ExtractType DEF Withdraw, TypeOK
  <2>. QED BY <1>7, <2>1 DEF Withdraw, TypeOK, CallsHaveIds, HandlerLocals
<1>8. CASE ReturnOk(t)
  BY <1>8 DEF ReturnOk, TypeOK, CallsHaveIds, HandlerLocals
<1>9. CASE ReturnFailed(t)
  <2>1. Cur(t) \in Node
    BY <1>9, CurIsNode DEF ReturnFailed
  <2>. QED BY <1>9, <2>1 DEF ReturnFailed, TypeOK, CallsHaveIds, HandlerLocals
<1>. QED BY <1>1, <1>2, <1>3, <1>4, <1>5, <1>6, <1>7, <1>8, <1>9
         DEF CallerReturns

\* Every step of the core thread and the MAC keeps the types.
LEMMA TypeCore ==
    ASSUME TypeInv,
           PostOther \/ CoreThread \/ (\E m \in mac : MacAnswer(m)) \/ MacIndicate
    PROVE  TypeInv'
<1> USE DEF TypeInv, callVars, nodeVars, bkVars, histVars
<1>1. CASE PostOther
  <2>1. ioQueue' \in Seq(Node \cup {DATA}) /\ Len(ioQueue') <= QLen
    BY <1>1, BoundAssumption DEF PostOther, TypeOK
  <2>2. others' \in 0..MaxOther
    BY <1>1, BoundAssumption DEF PostOther, TypeOK
  <2>. QED BY <1>1, <2>1, <2>2
           DEF PostOther, rxVars, TypeOK, CallsHaveIds, HandlerLocals
<1>2. CASE CoreThread
  <2>1. ioQueue \in Seq(Node \cup {DATA}) /\ ioQueue # <<>>
    BY <1>2 DEF CoreThread, TypeOK
  <2>2. /\ Head(ioQueue) \in Node \cup {DATA}
        /\ Tail(ioQueue) \in Seq(Node \cup {DATA})
        /\ Len(Tail(ioQueue)) <= Len(ioQueue)
        /\ Len(Tail(ioQueue)) \in Nat /\ Len(ioQueue) \in Nat
    BY <2>1
  <2>3. mac' \subseteq Node /\ ioQueue' \in Seq(Node \cup {DATA})
        /\ Len(ioQueue') <= QLen
    BY <1>2, <2>2, BoundAssumption DEF CoreThread, TypeOK
  <2>. QED BY <1>2, <2>3
           DEF CoreThread, rxVars, TypeOK, CallsHaveIds, HandlerLocals
<1>3. ASSUME NEW m \in mac, MacAnswer(m)
      PROVE  TypeInv'
  <2>1. m \in Node \cup {IND} /\ rxHead \in Seq(Node \cup {IND})
    BY DEF TypeOK
  <2>2. rxHead' \in Seq(Node \cup {IND}) /\ rxHead' # <<>>
    BY <1>3, <2>1 DEF MacAnswer, mr_kmsg_fwd, co_list_push_back
  <2>. QED BY <1>3, <2>2
           DEF MacAnswer, mr_kmsg_fwd, TypeOK, CallsHaveIds, HandlerLocals
<1>4. CASE MacIndicate
  <2>1. rxHead \in Seq(Node \cup {IND})
    BY DEF TypeOK
  <2>2. rxHead' \in Seq(Node \cup {IND}) /\ rxHead' # <<>>
    BY <1>4, <2>1 DEF MacIndicate, mr_kmsg_fwd, co_list_push_back
  <2>3. inds' \in 0..MaxInd
    BY <1>4, BoundAssumption DEF MacIndicate, TypeOK
  <2>. QED BY <1>4, <2>2, <2>3
           DEF MacIndicate, mr_kmsg_fwd, TypeOK, CallsHaveIds, HandlerLocals
<1>. QED BY <1>1, <1>2, <1>3, <1>4

\* Every step of kmsgbk keeps the types.
LEMMA TypeHandler ==
    ASSUME TypeInv, kmsg_bk_thread
    PROVE  TypeInv'
<1> USE DEF TypeInv, callVars, nodeVars, macVars, histVars
<1>1. CASE TakeAppSema
  BY <1>1 DEF TakeAppSema, TypeOK, CallsHaveIds, HandlerLocals
<1>2. CASE Pop
  <2>1. CASE rxHead = <<>>
    BY <1>2, <2>1 DEF Pop, TypeOK, CallsHaveIds, HandlerLocals
  <2>2. CASE rxHead # <<>>
    <3>1. rxHead \in Seq(Node \cup {IND})
      BY DEF TypeOK
    <3>2. /\ Head(rxHead) \in Node \cup {IND}
          /\ Tail(rxHead) \in Seq(Node \cup {IND})
      BY <2>2, <3>1
    <3>. QED BY <1>2, <2>2, <3>2 DEF Pop, TypeOK, CallsHaveIds, HandlerLocals
  <2>. QED BY <2>1, <2>2
<1>3. CASE Match
  <2>1. ASSUME NEW k \in Waiting(rxMsg), txNode' = txHead[k], kpc' = "extract"
        PROVE  TypeInv'
    <3>1. txHead[k] \in Node /\ rxMsg # IND
      BY <2>1 DEF Waiting, TypeOK
    <3>. QED BY <1>3, <2>1, <3>1
             DEF Match, rxVars, TypeOK, CallsHaveIds, HandlerLocals
  <2>2. CASE kpc' = "handle" /\ UNCHANGED txNode
    BY <1>3, <2>2 DEF Match, rxVars, TypeOK, CallsHaveIds, HandlerLocals
  <2>. QED BY <1>3, <2>1, <2>2 DEF Match
<1>4. CASE Extract
  <2>1. txHead' \in Seq(Node)
    BY <1>4, ExtractType DEF Extract, TypeOK
  <2>. QED BY <1>4, <2>1
           DEF Extract, rxVars, TypeOK, CallsHaveIds, HandlerLocals
<1>5. CASE Copy
  BY <1>5 DEF Copy, rxVars, TypeOK, CallsHaveIds, HandlerLocals
<1>6. CASE Signal
  BY <1>6 DEF Signal, rxVars, TypeOK, CallsHaveIds, HandlerLocals
<1>7. CASE Handle
  BY <1>7 DEF Handle, rxVars, TypeOK, CallsHaveIds, HandlerLocals
<1>. QED BY <1>1, <1>2, <1>3, <1>4, <1>5, <1>6, <1>7
         DEF kmsg_bk_thread, rwnx_recv_msg

\* Every step keeps the types.
LEMMA TypeStep == TypeInv /\ [Next]_vars => TypeInv'
<1> SUFFICES ASSUME TypeInv, [Next]_vars PROVE TypeInv'
  OBVIOUS
<1>1. CASE UNCHANGED vars
  BY <1>1 DEF vars, callVars, nodeVars, macVars, rxVars, bkVars, histVars,
              TypeInv, TypeOK, CallsHaveIds, HandlerLocals
<1>2. CASE Next
  BY <1>2, TypeCaller, TypeCore, TypeHandler DEF Next
<1>. QED BY <1>1, <1>2

\* rw_msg_send, the core thread and rwnx_recv_msg keep every variable in its
\* type: in particular the core queue never exceeds its length and app_sema
\* never exceeds 1.
THEOREM TypeCorrect == Spec => []TypeOK
<1>1. Spec => []TypeInv
  BY TypeInit, TypeStep, PTL DEF Spec
<1>2. TypeInv => TypeOK
  BY DEF TypeInv
<1>. QED BY <1>1, <1>2, PTL

-----------------------------------------------------------------------------
(* Safety of the matched node.                                             *)

\* No node is linked or matched in the initial state.
LEMMA SafeInit == Init => IndInv
BY TypeInit DEF Init, IndInv, LiveNodesInCall, ListHasNoRepeats, Elems,
                LinkedNodesWait, HistoryIsPast, HandlerHolds

\* Without peers no caller runs while kmsgbk holds a node.
LEMMA CallerWaitsForHandler ==
    ASSUME Peers = {}, NEW t \in Thread, CanRun(t)
    PROVE  kpc \in {"sema", "handle"}
BY DEF CanRun

\* A new call's node has never been seen before.
LEMMA NewNodeIsFresh ==
    ASSUME IndInv, NEW t \in Thread, NEW i \in Id, pc[t] = "idle",
           NEW n, n = [thd |-> t, seq |-> calls[t] + 1, id |-> i]
    PROVE  n \notin live \cup dangling \cup timedOut \cup Elems(txHead)
<1>1. calls[t] \in Nat /\ n.thd = t /\ n.seq = calls[t] + 1
  BY BoundAssumption DEF IndInv, TypeInv, TypeOK
<1>2. n \notin live
  BY <1>1 DEF IndInv, LiveNodesInCall
<1>3. n \notin dangling \cup timedOut
  BY <1>1 DEF IndInv, HistoryIsPast
<1>. QED BY <1>2, <1>3 DEF IndInv, LinkedNodesWait

\* A call links a node that nobody has seen, behind the others.
LEMMA SafeCall ==
    ASSUME IndInv, Peers = {}, NEW t \in Thread, NEW i \in Id, Call(t, i),
           TypeInv'
    PROVE  IndInv'
<1> DEFINE n == [thd |-> t, seq |-> calls[t] + 1, id |-> i]
<1> USE DEF IndInv
<1>1. /\ n \notin live \cup dangling \cup timedOut \cup Elems(txHead)
      /\ n \in Node
      /\ n.thd = t /\ n.seq = calls[t] + 1 /\ n.id = i
  <2>1. pc[t] = "idle"
    BY DEF Call
  <2>2. n \notin live \cup dangling \cup timedOut \cup Elems(txHead)
    BY <2>1, NewNodeIsFresh
  <2>3. calls[t] + 1 \in 1..MaxCalls
    BY BoundAssumption DEF Call, TypeInv, TypeOK
  <2>. QED BY <2>2, <2>3 DEF Node
<1>2. /\ Cur(t)' = n
      /\ \A u \in Thread : u # t => Cur(u)' = Cur(u) /\ pc'[u] = pc[u]
      /\ pc'[t] = "post"
      /\ pc[t] = "idle"
      /\ calls'[t] = calls[t] + 1
      /\ \A u \in Thread : u # t => calls'[u] = calls[u]
      /\ given' = given /\ dangling' = dangling /\ timedOut' = timedOut
  BY DEF Call, Cur, TypeInv, TypeOK, histVars
<1> HIDE DEF n
<1>3. /\ \/ /\ live' = live \cup {n} /\ i \in CfmId
            /\ Elems(txHead') = Elems(txHead) \cup {n}
         \/ live' = live /\ txHead' = txHead
      /\ ListHasNoRepeats'
  <2>1. CASE i \in CfmId
    <3>1. live' = live \cup {n} /\ txHead' = co_list_push_back(txHead, n)
      BY <2>1 DEF Call, n
    <3>2. txHead \in Seq(Node)
      BY DEF TypeInv, TypeOK
    <3>3. /\ Elems(txHead') = Elems(txHead) \cup {n}
          /\ \A k, j \in DOMAIN txHead' : txHead'[k] = txHead'[j] => k = j
      <4> DEFINE r == co_list_push_back(txHead, n)
      <4>1. /\ n \in Node /\ n \notin Elems(txHead)
            /\ \A k, j \in DOMAIN txHead : txHead[k] = txHead[j] => k = j
        BY <1>1 DEF ListHasNoRepeats
      <4>2. /\ Elems(r) = Elems(txHead) \cup {n}
            /\ \A k, j \in DOMAIN r : r[k] = r[j] => k = j
        BY <3>2, <4>1, PushElems
      <4>. QED BY <3>1, <4>2
    <3>. QED BY <2>1, <3>1, <3>3 DEF ListHasNoRepeats
  <2>2. CASE i \notin CfmId
    BY <2>2 DEF Call, ListHasNoRepeats
  <2>. QED BY <2>1, <2>2
<1>4. LiveNodesInCall'
  <2> SUFFICES ASSUME NEW m \in live'
               PROVE  /\ pc'[m.thd] # "idle"
                      /\ m = Cur(m.thd)'
                      /\ m.id \in CfmId
    BY DEF LiveNodesInCall, Cur
  <2>1. CASE m = n /\ i \in CfmId
    BY <2>1, <1>1, <1>2
  <2>2. CASE m \in live
    <3>1. /\ m.thd \in Thread /\ pc[m.thd] # "idle" /\ m = Cur(m.thd)
          /\ m.id \in CfmId
      BY <2>2 DEF LiveNodesInCall, TypeInv, TypeOK, Node
    <3>. QED BY <3>1, <1>2
  <2>. QED BY <1>3, <2>1, <2>2
<1>5. LinkedNodesWait'
  <2>1. given' \subseteq live' /\ Elems(txHead') \subseteq live' \cup dangling'
    BY <1>2, <1>3 DEF LinkedNodesWait
  <2>2. Elems(txHead') \cap given' = {}
    BY <1>1, <1>2, <1>3 DEF LinkedNodesWait
  <2>3. ASSUME NEW u \in Thread,
               pc'[u] = "confirmed" \/ (pc'[u] = "failed" /\ Cur(u)' \in timedOut')
        PROVE  Cur(u)' \notin Elems(txHead')
    <3>1. u # t /\ Cur(u)' = Cur(u) /\ Cur(u) \notin Elems(txHead)
      BY <2>3, <1>2 DEF LinkedNodesWait
    <3>2. Cur(u) # n
      BY <3>1, <1>1 DEF Cur
    <3>. QED BY <3>1, <3>2, <1>3
  <2>. QED BY <2>1, <2>2, <2>3 DEF LinkedNodesWait, Cur, Elems
<1>6. HistoryIsPast'
  <2>1. ASSUME NEW m \in dangling \cup timedOut
        PROVE  m.seq <= calls'[m.thd]
    <3>1. m.thd \in Thread /\ m.seq \in Nat /\ m.seq <= calls[m.thd]
          /\ calls[t] \in Nat
      BY BoundAssumption DEF HistoryIsPast, TypeInv, TypeOK, Node
    <3>. QED BY <3>1, <1>2
  <2>2. \A u \in Thread : pc'[u] # "idle" => Cur(u)' \notin dangling
    BY <1>1, <1>2 DEF HistoryIsPast
  <2>3. \A u \in Thread : pc'[u] = "expired" => Cur(u)' \in timedOut
    BY <1>2 DEF HistoryIsPast
  <2>4. \A u \in Thread : pc'[u] \in {"post", "wait"} => Cur(u)' \notin timedOut
    BY <1>1, <1>2 DEF HistoryIsPast
  <2>. QED BY <1>2, <2>1, <2>2, <2>3, <2>4 DEF HistoryIsPast, Cur
<1>7. HandlerHolds'
  BY CallerWaitsForHandler DEF Call, HandlerHolds, bkVars
<1>. QED BY <1>3, <1>4, <1>5, <1>6, <1>7

\* The remaining steps of a caller.
LEMMA SafeCaller ==
    ASSUME IndInv, Peers = {}, NEW t \in Thread,
           CallNoMemory(t) \/ CallerReturns(t),
           TypeInv'
    PROVE  IndInv'
<1> USE DEF IndInv
<1>1. kpc \in {"sema", "handle"}
  BY CallerWaitsForHandler
     DEF CallNoMemory, CallerReturns, Post, PostFails, Confirmed, Timeout,
         Withdraw, ReturnOk, ReturnFailed
<1>2. HandlerHolds'
  BY <1>1 DEF HandlerHolds, bkVars, CallNoMemory, CallerReturns, Post,
         PostFails, Confirmed, Timeout, Withdraw, ReturnOk, ReturnFailed
<1>3. /\ \A n \in live \cup given \cup timedOut \cup dangling :
             n \in Node /\ n.thd \in Thread /\ n.seq \in Nat
      /\ \A u \in Thread : calls[u] \in Nat
      /\ pc \in [Thread -> {"idle", "post", "wait", "expired", "confirmed",
                            "failed"}]
  <2>1. \A n \in Node : n.thd \in Thread /\ n.seq \in Nat
    BY BoundAssumption DEF Node
  <2>2. live \cup given \cup timedOut \cup dangling \subseteq Node
    BY DEF TypeInv, TypeOK
  <2>. QED BY <2>1, <2>2, BoundAssumption DEF TypeInv, TypeOK
<1>4. CASE CallNoMemory(t)
  <2>1. /\ \A u \in Thread : u # t => Cur(u)' = Cur(u) /\ calls'[u] = calls[u]
        /\ calls'[t] = calls[t] + 1
        /\ pc[t] = "idle" /\ pc' = pc
        /\ live' = live /\ given' = given /\ txHead' = txHead
        /\ timedOut' = timedOut /\ dangling' = dangling
    BY <1>4 DEF CallNoMemory, Cur, nodeVars, histVars, TypeInv, TypeOK
  <2>2. \A n \in live : n.thd # t
    BY <2>1 DEF LiveNodesInCall
  <2>3. \A n \in live :
            pc'[n.thd] # "idle" /\ n = Cur(n.thd)' /\ n.id \in CfmId
    BY <1>3, <2>1, <2>2 DEF LiveNodesInCall
  <2>4. LiveNodesInCall'
    BY <2>1, <2>3 DEF LiveNodesInCall, Cur
  <2>5. \A u \in Thread : pc'[u] # "idle" => Cur(u)' = Cur(u)
    BY <2>1
  <2>6. \A n \in dangling \cup timedOut : n.seq <= calls'[n.thd]
    BY <1>3, <2>1 DEF HistoryIsPast
  <2>7. HistoryIsPast'
    BY <2>1, <2>5, <2>6 DEF HistoryIsPast, Cur
  <2>8. LinkedNodesWait'
    BY <2>1, <2>5 DEF LinkedNodesWait, Cur, Elems
  <2>. QED BY <1>2, <2>1, <2>4, <2>7, <2>8 DEF ListHasNoRepeats
<1>5. CASE CallerReturns(t)
  <2>1. /\ \A u \in Thread : Cur(u)' = Cur(u)
        /\ \A u \in Thread : u # t => pc'[u] = pc[u]
        /\ calls' = calls
        /\ pc[t] # "idle"
    BY <1>5 DEF CallerReturns, Post, PostFails, Confirmed, Timeout,
         Withdraw, ReturnOk, ReturnFailed, Cur, TypeInv, TypeOK
  <2>2. \A u \in Thread : u # t => Cur(u) # Cur(t)
    BY DEF Cur
  <2>3. CASE \/ Post(t) /\ pc'[t] = "wait"
             \/ PostFails(t)
    <3>1. /\ pc[t] = "post" /\ pc'[t] \in {"wait", "failed"}
          /\ live' = live /\ given' = given /\ txHead' = txHead
          /\ timedOut' = timedOut /\ dangling' = dangling
      BY <2>3, <1>3 DEF Post, PostFails, nodeVars, histVars
    <3>2. LiveNodesInCall'
      BY <2>1, <3>1, <1>3 DEF LiveNodesInCall, Cur
    <3>3. HistoryIsPast'
      BY <2>1, <3>1 DEF HistoryIsPast, Cur
    <3>4. LinkedNodesWait'
      <4>1. /\ given' \subseteq live'
            /\ Elems(txHead') \subseteq live' \cup dangling'
            /\ Elems(txHead') \cap given' = {}
        BY <2>1, <3>1 DEF LinkedNodesWait
      <4>2. ASSUME NEW u \in Thread,
                   \/ pc'[u] = "confirmed"
                   \/ pc'[u] = "failed" /\ Cur(u)' \in timedOut'
            PROVE  Cur(u)' \notin Elems(txHead')
        BY <4>2, <2>1, <3>1 DEF LinkedNodesWait, HistoryIsPast
      <4>. QED BY <4>1, <4>2 DEF LinkedNodesWait, Cur, Elems
    <3>. QED BY <1>2, <3>1, <3>2, <3>3, <3>4 DEF ListHasNoRepeats
  <2>4. CASE Post(t) /\ pc'[t] = "idle"
    \* A call without a buffer has no node.
    <3>1. /\ pc[t] = "post" /\ id[t] \notin CfmId
          /\ live' = live /\ given' = given /\ txHead' = txHead
          /\ timedOut' = timedOut /\ dangling' = dangling
      BY <2>4, <1>3 DEF Post, nodeVars, histVars
    <3>2. Cur(t) \notin live
      BY <3>1 DEF Cur, LiveNodesInCall
    <3>3. \A n \in live : n.thd # t
      BY <3>2, <1>3 DEF LiveNodesInCall
    <3>4. LiveNodesInCall'
      BY <2>1, <3>1, <3>3, <1>3 DEF LiveNodesInCall, Cur
    <3>5. HistoryIsPast'
      BY <2>1, <2>4, <3>1 DEF HistoryIsPast, Cur
    <3>6. LinkedNodesWait'
      <4>1. /\ given' \subseteq live'
            /\ Elems(txHead') \subseteq live' \cup dangling'
            /\ Elems(txHead') \cap given' = {}
        BY <2>1, <2>4, <3>1 DEF LinkedNodesWait
      <4>2. ASSUME NEW u \in Thread,
                   \/ pc'[u] = "confirmed"
                   \/ pc'[u] = "failed" /\ Cur(u)' \in timedOut'
            PROVE  Cur(u)' \notin Elems(txHead')
        BY <4>2, <2>1, <2>4, <3>1 DEF LinkedNodesWait
      <4>. QED BY <4>1, <4>2 DEF LinkedNodesWait, Cur, Elems
    <3>. QED BY <1>2, <3>1, <3>4, <3>5, <3>6 DEF ListHasNoRepeats
  <2>5. CASE Confirmed(t)
    <3>1. /\ pc'[t] = "confirmed" /\ Cur(t) \in given
          /\ live' = live /\ given' = given \ {Cur(t)} /\ txHead' = txHead
          /\ timedOut' = timedOut /\ dangling' = dangling
      BY <2>5, <1>3 DEF Confirmed, histVars
    <3>2. LiveNodesInCall'
      BY <2>1, <3>1, <1>3 DEF LiveNodesInCall, Cur
    <3>3. HistoryIsPast'
      BY <2>1, <3>1 DEF HistoryIsPast, Cur
    <3>4. LinkedNodesWait'
      <4>1. /\ given' \subseteq live'
            /\ Elems(txHead') \subseteq live' \cup dangling'
            /\ Elems(txHead') \cap given' = {}
        BY <2>1, <3>1 DEF LinkedNodesWait
      <4>2. ASSUME NEW u \in Thread,
                   \/ pc'[u] = "confirmed"
                   \/ pc'[u] = "failed" /\ Cur(u)' \in timedOut'
            PROVE  Cur(u)' \notin Elems(txHead')
        BY <4>2, <2>1, <3>1 DEF LinkedNodesWait
      <4>. QED BY <4>1, <4>2 DEF LinkedNodesWait, Cur, Elems
    <3>. QED BY <1>2, <3>1, <3>2, <3>3, <3>4 DEF ListHasNoRepeats
  <2>6. CASE Timeout(t)
    <3>1. /\ pc'[t] = "expired"
          /\ live' = live /\ given' = given /\ txHead' = txHead
          /\ timedOut' = timedOut \cup {Cur(t)} /\ dangling' = dangling
      BY <2>6, <1>3 DEF Timeout, nodeVars
    <3>2. LiveNodesInCall'
      BY <2>1, <3>1, <1>3 DEF LiveNodesInCall, Cur
    <3>3. Cur(t).seq = calls[t] /\ Cur(t).thd = t
      BY DEF Cur
    <3>4. \A n \in dangling' \cup timedOut' : n.seq <= calls'[n.thd]
      BY <1>3, <2>1, <3>1, <3>3 DEF HistoryIsPast
    <3>5. HistoryIsPast'
      BY <2>1, <2>2, <3>1, <3>4 DEF HistoryIsPast, Cur
    <3>6. LinkedNodesWait'
      BY <2>1, <2>2, <3>1, ZenonT(60) DEF LinkedNodesWait, Cur, Elems
    <3>. QED BY <1>2, <3>1, <3>2, <3>5, <3>6 DEF ListHasNoRepeats
  <2>7. CASE Withdraw(t)
    <3>1. /\ pc[t] = "expired" /\ pc'[t] = "failed"
          /\ live' = live /\ given' = given
          /\ txHead' = co_list_extract(txHead, Cur(t))
          /\ timedOut' = timedOut /\ dangling' = dangling
      BY <2>7, <1>3 DEF Withdraw, histVars
    <3>2. txHead \in Seq(Node)
          /\ \A i, j \in DOMAIN txHead : txHead[i] = txHead[j] => i = j
      BY DEF TypeInv, TypeOK, ListHasNoRepeats
    <3>3. /\ Elems(txHead') = Elems(txHead) \ {Cur(t)}
          /\ \A i, j \in DOMAIN txHead' : txHead'[i] = txHead'[j] => i = j
      BY <3>1, <3>2, ExtractElems
    <3>4. LiveNodesInCall'
      BY <2>1, <3>1, <1>3 DEF LiveNodesInCall, Cur
    <3>5. HistoryIsPast'
      BY <2>1, <3>1 DEF HistoryIsPast, Cur
    <3>6. /\ given' \subseteq live'
          /\ Elems(txHead') \subseteq live' \cup dangling'
          /\ Elems(txHead') \cap given' = {}
      BY <3>1, <3>3 DEF LinkedNodesWait
    <3>7. ASSUME NEW u \in Thread,
                 pc'[u] = "confirmed" \/ (pc'[u] = "failed" /\ Cur(u)' \in timedOut')
          PROVE  Cur(u)' \notin Elems(txHead')
      BY <2>1, <3>1, <3>3, <3>7 DEF LinkedNodesWait
    <3>8. LinkedNodesWait'
      BY <3>6, <3>7 DEF LinkedNodesWait, Cur, Elems
    <3>. QED BY <1>2, <3>3, <3>4, <3>5, <3>8 DEF ListHasNoRepeats
  <2>8. CASE ReturnOk(t)
    <3>1. /\ pc[t] = "confirmed" /\ pc'[t] = "idle"
          /\ live' = live \ {Cur(t)} /\ given' = given \ {Cur(t)}
          /\ txHead' = txHead /\ timedOut' = timedOut /\ dangling' = dangling
      BY <2>8, <1>3 DEF ReturnOk, histVars
    <3>2. Cur(t) \notin Elems(txHead)
      BY <3>1 DEF LinkedNodesWait
    <3>3. \A n \in live' : n.thd # t
      BY <3>1, <1>3 DEF LiveNodesInCall
    <3>4. LiveNodesInCall'
      BY <2>1, <3>1, <3>3, <1>3 DEF LiveNodesInCall, Cur
    <3>5. HistoryIsPast'
      BY <2>1, <3>1 DEF HistoryIsPast, Cur
    <3>6. LinkedNodesWait'
      <4>1. /\ given' \subseteq live'
            /\ Elems(txHead') \subseteq live' \cup dangling'
            /\ Elems(txHead') \cap given' = {}
        BY <2>1, <3>1, <3>2 DEF LinkedNodesWait
      <4>2. ASSUME NEW u \in Thread,
                   \/ pc'[u] = "confirmed"
                   \/ pc'[u] = "failed" /\ Cur(u)' \in timedOut'
            PROVE  Cur(u)' \notin Elems(txHead')
        BY <4>2, <2>1, <3>1, <3>2 DEF LinkedNodesWait
      <4>. QED BY <4>1, <4>2 DEF LinkedNodesWait, Cur, Elems
    <3>. QED BY <1>2, <3>1, <3>4, <3>5, <3>6 DEF ListHasNoRepeats
  <2>9. CASE ReturnFailed(t)
    <3>1. /\ pc[t] = "failed" /\ pc'[t] = "idle"
          /\ live' = live \ {Cur(t)} /\ given' = given \ {Cur(t)}
          /\ txHead' = txHead /\ timedOut' = timedOut
          /\ dangling' = dangling \cup
                 (IF Cur(t) \in live \ timedOut THEN {Cur(t)} ELSE {})
      BY <2>9, <1>3 DEF ReturnFailed
    <3>2. Cur(t) \in Elems(txHead) => Cur(t) \in dangling'
      BY <3>1 DEF LinkedNodesWait, HistoryIsPast
    <3>3. \A n \in live' : n.thd # t
      BY <3>1, <1>3 DEF LiveNodesInCall
    <3>4. LiveNodesInCall'
      BY <2>1, <3>1, <3>3, <1>3 DEF LiveNodesInCall, Cur
    <3>5. Cur(t).seq = calls[t] /\ Cur(t).thd = t
      BY DEF Cur
    <3>6. \A n \in dangling' \cup timedOut' : n.seq <= calls'[n.thd]
      BY <1>3, <2>1, <3>1, <3>5 DEF HistoryIsPast
    <3>7. HistoryIsPast'
      BY <2>1, <2>2, <3>1, <3>6 DEF HistoryIsPast, Cur
    <3>8. LinkedNodesWait'
      <4>1. /\ given' \subseteq live'
            /\ Elems(txHead') \subseteq live' \cup dangling'
            /\ Elems(txHead') \cap given' = {}
        BY <2>1, <3>1, <3>2 DEF LinkedNodesWait
      <4>2. ASSUME NEW u \in Thread,
                   \/ pc'[u] = "confirmed"
                   \/ pc'[u] = "failed" /\ Cur(u)' \in timedOut'
            PROVE  Cur(u)' \notin Elems(txHead')
        BY <4>2, <2>1, <3>1, <3>2 DEF LinkedNodesWait
      <4>. QED BY <4>1, <4>2 DEF LinkedNodesWait, Cur, Elems
    <3>. QED BY <1>2, <3>1, <3>4, <3>7, <3>8 DEF ListHasNoRepeats
  <2>10. Post(t) => pc'[t] \in {"wait", "idle"}
    BY <1>3 DEF Post
  <2>. QED BY <1>5, <2>3, <2>4, <2>5, <2>6, <2>7, <2>8, <2>9, <2>10
           DEF CallerReturns
<1>. QED BY <1>4, <1>5

\* Steps of the core thread and the MAC touch no node.
LEMMA SafeCore ==
    ASSUME IndInv, TypeInv',
           PostOther \/ CoreThread \/ (\E m \in mac : MacAnswer(m)) \/ MacIndicate
    PROVE  IndInv'
<1>1. UNCHANGED <<callVars, nodeVars, bkVars, histVars>>
  BY DEF PostOther, CoreThread, MacAnswer, MacIndicate
<1>. QED BY <1>1 DEF IndInv, callVars, nodeVars, bkVars, histVars,
              LiveNodesInCall, ListHasNoRepeats, LinkedNodesWait,
              HistoryIsPast, HandlerHolds, Cur, Elems

\* Steps of kmsgbk.
LEMMA SafeHandler ==
    ASSUME IndInv, TypeInv', kmsg_bk_thread
    PROVE  IndInv'
<1> USE DEF IndInv
<1>1. /\ callVars' = callVars /\ live' = live
      /\ timedOut' = timedOut /\ dangling' = dangling
  BY DEF kmsg_bk_thread, rwnx_recv_msg, TakeAppSema, Pop, Match,
         Extract, Copy, Signal, Handle, nodeVars, histVars
<1>2. LiveNodesInCall' /\ HistoryIsPast'
  BY <1>1 DEF callVars, LiveNodesInCall, HistoryIsPast, Cur
<1>3. CASE TakeAppSema \/ Pop \/ Handle
  BY <1>1, <1>2, <1>3
     DEF TakeAppSema, Pop, Handle, nodeVars, callVars,
         ListHasNoRepeats, LinkedNodesWait, HandlerHolds, Cur, Elems
<1>4. CASE Match
  <2>1. given' = given /\ txHead' = txHead
    BY <1>4 DEF Match, nodeVars
  <2>2. kpc' = "extract" => txNode' \in Elems(txHead)
    BY <1>4 DEF Match, Waiting, Elems
  <2>3. kpc' \notin {"copy", "signal"}
    BY <1>4 DEF Match
  <2>. QED BY <1>1, <1>2, <2>1, <2>2, <2>3
           DEF callVars, ListHasNoRepeats, LinkedNodesWait, HandlerHolds, Cur,
               Elems
<1>5. CASE Extract
  <2>1. /\ kpc = "extract" /\ kpc' = "copy" /\ txNode' = txNode
        /\ given' = given /\ txHead' = co_list_extract(txHead, txNode)
    BY <1>5 DEF Extract
  <2>2. txHead \in Seq(Node)
        /\ \A i, j \in DOMAIN txHead : txHead[i] = txHead[j] => i = j
    BY DEF TypeInv, TypeOK, ListHasNoRepeats
  <2>3. /\ Elems(txHead') = Elems(txHead) \ {txNode}
        /\ \A i, j \in DOMAIN txHead' : txHead'[i] = txHead'[j] => i = j
    BY <2>1, <2>2, ExtractElems
  <2>4. txNode \in (live \ given) \cup dangling
    BY <2>1 DEF HandlerHolds, LinkedNodesWait
  <2>5. HandlerHolds'
    BY <1>1, <2>1, <2>3, <2>4 DEF HandlerHolds, Elems
  <2>6. \A u \in Thread : Cur(u)' = Cur(u) /\ pc'[u] = pc[u]
    BY <1>1 DEF callVars, Cur
  <2>7. LinkedNodesWait'
    BY <1>1, <2>1, <2>3, <2>6 DEF LinkedNodesWait, Cur, Elems
  <2>. QED BY <1>2, <2>3, <2>5, <2>7 DEF ListHasNoRepeats
<1>6. CASE Copy
  BY <1>1, <1>2, <1>6
     DEF Copy, nodeVars, callVars, ListHasNoRepeats, LinkedNodesWait,
         HandlerHolds, Cur, Elems
<1>7. CASE Signal
  <2>1. txHead' = txHead /\ kpc' \in {"pop", "assert"} /\ kpc = "signal"
    BY <1>7 DEF Signal
  <2>2. given' \subseteq live /\ Elems(txHead) \cap given' = {}
    BY <1>7, <2>1 DEF Signal, LinkedNodesWait, HandlerHolds
  <2>. QED BY <1>1, <1>2, <2>1, <2>2
           DEF callVars, ListHasNoRepeats, LinkedNodesWait, HandlerHolds, Cur,
               Elems
<1>. QED BY <1>3, <1>4, <1>5, <1>6, <1>7 DEF kmsg_bk_thread, rwnx_recv_msg

\* Every step keeps the invariant.
LEMMA SafeStep ==
    ASSUME Peers = {}
    PROVE  IndInv /\ [Next]_vars => IndInv'
<1> SUFFICES ASSUME IndInv, [Next]_vars PROVE IndInv'
  OBVIOUS
<1>1. TypeInv'
  BY TypeStep DEF IndInv
<1>2. CASE UNCHANGED vars
  BY <1>1, <1>2
     DEF vars, callVars, nodeVars, macVars, rxVars, bkVars, histVars, IndInv,
         LiveNodesInCall, ListHasNoRepeats, LinkedNodesWait, HistoryIsPast,
         HandlerHolds, Cur, Elems
<1>3. CASE Next
  BY <1>1, <1>3, SafeCall, SafeCaller, SafeCore, SafeHandler DEF Next
<1>. QED BY <1>2, <1>3

\* When no caller shares kmsgbk's priority, the only released nodes that
\* rwnx_recv_msg can match, copy into and signal are those of calls whose
\* bmsg_ioctl_sender failed: a timeout of rw_msg_send racing a late confirm
\* never frees a node under kmsgbk's hands.
THEOREM OnlyFailedPostsDangle ==
    ASSUME Peers = {}
    PROVE  Spec => []OnlyFailedPostDangles
<1>1. Spec => []IndInv
  BY SafeInit, SafeStep, PTL DEF Spec
<1>2. IndInv => OnlyFailedPostDangles
  BY DEF IndInv, LinkedNodesWait, HandlerHolds, OnlyFailedPostDangles
<1>. QED BY <1>1, <1>2, PTL

\* As long as no post has failed, ASSERT(0 == ret) after rtos_set_semaphore
\* in rwnx_recv_msg holds.
THEOREM AssertHoldsUntilPostFails ==
    ASSUME Peers = {}
    PROVE  Spec => [](dangling = {} => SetSemaphoreSucceeds)
<1>1. Spec => []OnlyFailedPostDangles
  BY OnlyFailedPostsDangle
<1>2. OnlyFailedPostDangles => (dangling = {} => SetSemaphoreSucceeds)
  BY DEF OnlyFailedPostDangles, SetSemaphoreSucceeds
<1>. QED BY <1>1, <1>2, PTL

-----------------------------------------------------------------------------
(* Which answer a call receives.  A request is in one place at a time on   *)
(* its way through the core queue, the MAC, rw_msg_rx_head and kmsgbk, and *)
(* is copied out at most once; a node that has been answered is never      *)
(* linked again.                                                           *)

Queued   == Elems(ioQueue) \cap Node
Forwarded == Elems(rxHead) \cap Node
Held     == IF kpc \in {"match", "extract", "copy"} THEN {rxMsg} \cap Node
            ELSE {}
Copied   == {a[2] : a \in answers}
Answered == {a[1] : a \in answers}

Sent == Queued \cup mac \cup Forwarded \cup Held \cup Copied

\* No request occurs twice in a list.
Once(s) == \A i, j \in DOMAIN s : s[i] = s[j] /\ s[i] \in Node => i = j

\* A request is in one place at a time.
SentOnce ==
    /\ Once(ioQueue)
    /\ Once(rxHead)
    /\ Queued \cap (mac \cup Forwarded \cup Held \cup Copied) = {}
    /\ mac \cap (Forwarded \cup Held \cup Copied) = {}
    /\ Forwarded \cap (Held \cup Copied) = {}
    /\ Held \cap Copied = {}

\* Requests on their way are those of calls already made whose post succeeded.
SentArePast ==
    /\ \A m \in Sent : m.seq <= calls[m.thd] /\ m \notin dangling
    /\ \A t \in Thread :
           pc[t] = "post" \/ (pc[t] = "failed" /\ Cur(t) \notin timedOut)
           => Cur(t) \notin Sent

\* An answered node belongs to a call already made, is linked no more, and is
\* not the one kmsgbk is about to answer.
AnsweredLeft ==
    /\ \A n \in Answered : n.seq <= calls[n.thd]
    /\ Answered \cap Elems(txHead) = {}
    /\ kpc = "copy" => txNode \notin Answered

\* kmsgbk has matched a node and a message of the same id.
MatchedIds ==
    kpc \in {"extract", "copy", "signal"} => txNode.id = rxMsg.id

\* A node is signalled only after the parameters were copied.
SignalledIsAnswered ==
    /\ \A n \in given : n.id \in EmptyId \/ n \in Answered
    /\ kpc = "signal" => txNode.id \in EmptyId \/ txNode \in Answered
    /\ \A t \in Thread :
           pc[t] = "confirmed" => id[t] \in EmptyId \/ Cur(t) \in Answered

\* Requests and answers correspond one to one.
OneToOne ==
    /\ \A a \in answers : a[1].id = a[2].id
    /\ \A a, b \in answers : (a[1] = b[1]) <=> (a[2] = b[2])

AnswerInv ==
    /\ SentOnce
    /\ SentArePast
    /\ AnsweredLeft
    /\ MatchedIds
    /\ SignalledIsAnswered
    /\ OneToOne

\* A call makes only its thread's requests; the nodes of failed posts are those
\* of calls with a buffer.
OwnIds ==
    /\ \A t \in Thread : pc[t] # "idle" => id[t] \in IdsOf[t]
    /\ \A n \in live \cup dangling \cup Sent : n.id \in IdsOf[n.thd]
    /\ \A n \in dangling : n.id \in CfmId

\* A call whose request is on its way, or has been answered, still waits, has
\* timed out, or has itself been answered.
SentCallsEnd ==
    \A m \in Sent :
        m.id \in CfmId \ EmptyId =>
            \/ m = Cur(m.thd) /\ pc[m.thd] = "wait"
            \/ m \in timedOut
            \/ m \in Answered

StaleInv == OwnIds /\ SentCallsEnd /\ StaleAnswerNeedsTimeout

\* Adding a request that a list does not hold keeps its requests distinct.
LEMMA OncePush ==
    ASSUME NEW S, NEW s \in Seq(S), NEW x \in S, Once(s),
           x \in Node => x \notin Elems(s)
    PROVE  Once(Append(s, x)) /\ Elems(Append(s, x)) = Elems(s) \cup {x}
<1>1. Elems(Append(s, x)) = Elems(s) \cup {x}
  BY PushElems DEF co_list_push_back
<1>2. /\ DOMAIN s = 1..Len(s) /\ Len(s) \in Nat
      /\ DOMAIN Append(s, x) = 1..(Len(s) + 1)
      /\ \A i \in 1..Len(s) : Append(s, x)[i] = s[i]
      /\ Append(s, x)[Len(s) + 1] = x
  OBVIOUS
<1> DEFINE r == Append(s, x)
<1> HIDE DEF r
<1>3. ASSUME NEW i \in DOMAIN r, NEW j \in DOMAIN r, r[i] = r[j], r[i] \in Node
      PROVE  i = j
  <2>1. \A k \in 1..Len(s) : s[k] \in Elems(s)
    BY <1>2 DEF Elems
  <2>. QED BY <1>2, <1>3, <2>1 DEF r, Once
<1>. QED BY <1>1, <1>3 DEF Once, r

\* The head of a list leaves it for good when it is taken off.
LEMMA OnceTail ==
    ASSUME NEW S, NEW s \in Seq(S), s # <<>>, Once(s)
    PROVE  /\ Once(Tail(s))
           /\ Elems(Tail(s)) \subseteq Elems(s)
           /\ Elems(s) \subseteq Elems(Tail(s)) \cup {Head(s)}
           /\ Head(s) \in Elems(s)
           /\ Head(s) \in Node => Head(s) \notin Elems(Tail(s))
<1>1. /\ Len(s) \in Nat \ {0}
      /\ DOMAIN s = 1..Len(s)
      /\ DOMAIN Tail(s) = 1..(Len(s) - 1)
      /\ \A i \in 1..(Len(s) - 1) : Tail(s)[i] = s[i + 1]
      /\ Head(s) = s[1]
  OBVIOUS
<1> DEFINE r == Tail(s)
<1>2. /\ DOMAIN r = 1..(Len(s) - 1)
      /\ \A i \in 1..(Len(s) - 1) : r[i] = s[i + 1]
  BY <1>1
<1> HIDE DEF r
<1>3. Once(r)
  <2> SUFFICES ASSUME NEW i \in DOMAIN r, NEW j \in DOMAIN r, r[i] = r[j],
                      r[i] \in Node
               PROVE  i = j
    BY DEF Once
  <2>1. i + 1 \in DOMAIN s /\ j + 1 \in DOMAIN s /\ s[i + 1] = s[j + 1]
        /\ s[i + 1] \in Node /\ i \in Nat /\ j \in Nat
    BY <1>1, <1>2
  <2>2. i + 1 = j + 1
    BY <2>1 DEF Once
  <2>. QED BY <2>1, <2>2
<1>4. ASSUME NEW i \in DOMAIN r PROVE r[i] \in Elems(s)
  <2>1. i + 1 \in DOMAIN s /\ r[i] = s[i + 1]
    BY <1>1, <1>2
  <2>. QED BY <2>1 DEF Elems
<1>5. ASSUME NEW i \in DOMAIN s PROVE s[i] \in Elems(r) \cup {Head(s)}
  <2>1. CASE i = 1
    BY <1>1, <2>1
  <2>2. CASE i # 1
    <3>1. i - 1 \in DOMAIN r /\ r[i - 1] = s[i]
      BY <1>1, <1>2, <2>2
    <3>. QED BY <3>1 DEF Elems
  <2>. QED BY <2>1, <2>2
<1>6. ASSUME Head(s) \in Node, NEW i \in DOMAIN r PROVE r[i] # Head(s)
  <2>1. i + 1 \in DOMAIN s /\ r[i] = s[i + 1] /\ 1 \in DOMAIN s /\ i \in Nat
        /\ i >= 1
    BY <1>1, <1>2
  <2>2. s[i + 1] = s[1] => i + 1 = 1
    BY <1>1, <1>6, <2>1 DEF Once
  <2>. QED BY <1>1, <2>1, <2>2
<1>7. Elems(r) \subseteq Elems(s) /\ Elems(s) \subseteq Elems(r) \cup {Head(s)}
  BY <1>4, <1>5 DEF Elems
<1>8. Head(s) \in Elems(s)
  BY <1>1 DEF Elems
<1>9. Head(s) \in Node => Head(s) \notin Elems(r)
  BY <1>6 DEF Elems
<1>. QED BY <1>3, <1>7, <1>8, <1>9 DEF r

\* Requests on their way, and answered nodes, are nodes.
LEMMA SentAreNodes ==
    ASSUME TypeInv
    PROVE  /\ Sent \subseteq Node /\ Answered \subseteq Node
           /\ \A n \in Node : n.thd \in Thread /\ n.seq \in Nat /\ n.id \in Id
           /\ \A t \in Thread : calls[t] \in Nat
<1>1. \A a \in answers : a[1] \in Node /\ a[2] \in Node
  BY DEF TypeInv, TypeOK
<1>2. Queued \subseteq Node /\ mac \subseteq Node /\ Forwarded \subseteq Node
      /\ Held \subseteq Node
  BY DEF TypeInv, TypeOK, Queued, Forwarded, Held
<1>. QED BY <1>1, <1>2, BoundAssumption
         DEF TypeInv, TypeOK, Sent, Copied, Answered, Node

\* What a step of a caller does to the requests: a post that succeeds adds the
\* call's own.
LEMMA CallerSent ==
    ASSUME TypeInv, NEW t \in Thread,
           (\E i \in Id : Call(t, i)) \/ CallNoMemory(t) \/ CallerReturns(t)
    PROVE  /\ UNCHANGED <<mac, rxHead, kpc, rxMsg, txNode, answers>>
           /\ Forwarded' = Forwarded /\ Held' = Held /\ Copied' = Copied
           /\ Answered' = Answered
           /\ \/ /\ Post(t) /\ ioQueue' = Append(ioQueue, Cur(t))
                 /\ Queued' = Queued \cup {Cur(t)}
                 /\ Sent' = Sent \cup {Cur(t)}
              \/ /\ ~Post(t) /\ ioQueue' = ioQueue
                 /\ Queued' = Queued /\ Sent' = Sent
<1>1. UNCHANGED <<mac, rxHead, kpc, rxMsg, txNode, answers>>
  BY DEF Call, CallNoMemory, CallerReturns, Post, PostFails, Confirmed,
         Timeout, Withdraw, ReturnOk, ReturnFailed, macVars, rxVars, bkVars,
         histVars
<1>2. /\ Forwarded' = Forwarded /\ Held' = Held /\ Copied' = Copied
      /\ Answered' = Answered
  BY <1>1 DEF Forwarded, Held, Copied, Answered, Elems
<1>3. CASE Post(t)
  <2>1. Cur(t) \in Node /\ ioQueue' = Append(ioQueue, Cur(t))
    BY <1>3, CurIsNode DEF Post
  <2>2. ioQueue \in Seq(Node \cup {DATA})
    BY DEF TypeInv, TypeOK
  <2>3. Elems(ioQueue') = Elems(ioQueue) \cup {Cur(t)}
    BY <2>1, <2>2, PushElems DEF co_list_push_back
  <2>4. Queued' = Queued \cup {Cur(t)}
    BY <2>1, <2>3 DEF Queued, Elems
  <2>. QED BY <1>1, <1>2, <1>3, <2>1, <2>4 DEF Sent
<1>4. CASE ~Post(t)
  <2>1. ioQueue' = ioQueue
    BY <1>4 DEF Call, CallNoMemory, CallerReturns, PostFails, Confirmed,
         Timeout, Withdraw, ReturnOk, ReturnFailed, macVars
  <2>2. Queued' = Queued
    BY <2>1 DEF Queued, Elems
  <2>. QED BY <1>1, <1>2, <1>4, <2>1, <2>2 DEF Sent
<1>. QED BY <1>3, <1>4

\* What a step of a caller does to the calls: only its own changes, and how.
LEMMA CallerMoves ==
    ASSUME TypeInv, NEW t \in Thread,
           (\E i \in Id : Call(t, i)) \/ CallNoMemory(t) \/ CallerReturns(t)
    PROVE  /\ \A u \in Thread : u # t =>
                  Cur(u)' = Cur(u) /\ pc'[u] = pc[u] /\ calls'[u] = calls[u]
                  /\ id'[u] = id[u]
           /\ calls'[t] >= calls[t] /\ calls'[t] \in Nat
           /\ pc[t] # "idle" => Cur(t)' = Cur(t) /\ id'[t] = id[t]
           /\ pc'[t] # "idle" /\ pc[t] = "idle" =>
                  /\ pc'[t] = "post" /\ calls'[t] = calls[t] + 1
                  /\ id'[t] \in IdsOf[t]
           /\ pc'[t] = "post" => pc[t] = "idle"
           /\ pc'[t] = "failed" =>
                  pc[t] = "post" \/ (pc[t] = "expired" /\ timedOut' = timedOut)
           /\ pc'[t] = "confirmed" => pc[t] = "wait" /\ Cur(t) \in given
           /\ pc[t] = "wait" => pc'[t] \in {"confirmed", "expired"}
           /\ pc'[t] = "expired" => Cur(t) \in timedOut'
           /\ Post(t) => pc[t] = "post"
                  /\ (pc'[t] = "wait" \/ id[t] \notin CfmId)
           /\ Post(t) => pc'[t] \in {"wait", "idle"}
           /\ given' \subseteq given
           /\ timedOut \subseteq timedOut'
           /\ dangling \subseteq dangling'
           /\ \/ dangling' = dangling
              \/ /\ dangling' = dangling \cup {Cur(t)}
                 /\ pc[t] = "failed" /\ Cur(t) \in live \ timedOut
<1>1. /\ pc \in [Thread -> {"idle", "post", "wait", "expired", "confirmed",
                            "failed"}]
      /\ calls \in [Thread -> 0..MaxCalls]
      /\ id \in [Thread -> Id \cup {NONE}]
      /\ calls[t] \in Nat
  BY BoundAssumption DEF TypeInv, TypeOK
<1>2. CASE \E i \in Id : Call(t, i)
  <2>1. PICK i \in Id : Call(t, i)
    BY <1>2
  <2>2. /\ calls' = [calls EXCEPT ![t] = calls[t] + 1]
        /\ id' = [id EXCEPT ![t] = i] /\ i \in IdsOf[t]
        /\ pc' = [pc EXCEPT ![t] = "post"] /\ pc[t] = "idle"
        /\ given' = given /\ timedOut' = timedOut /\ dangling' = dangling
    BY <2>1 DEF Call, histVars
  <2>3. ~Post(t)
    BY <2>2 DEF Post
  <2>. QED BY <1>1, <2>2, <2>3 DEF Cur
<1>3. CASE CallNoMemory(t)
  <2>1. /\ calls' = [calls EXCEPT ![t] = calls[t] + 1]
        /\ id' = id /\ pc' = pc /\ pc[t] = "idle"
        /\ given' = given /\ timedOut' = timedOut /\ dangling' = dangling
    BY <1>3 DEF CallNoMemory, nodeVars, histVars
  <2>2. ~Post(t)
    BY <2>1 DEF Post
  <2>. QED BY <1>1, <2>1, <2>2 DEF Cur
<1>4. CASE CallerReturns(t)
  <2>1. calls' = calls /\ id' = id
    BY <1>4 DEF CallerReturns, Post, PostFails, Confirmed, Timeout, Withdraw,
                ReturnOk, ReturnFailed
  <2>2. CASE Post(t)
    <3>1. /\ pc' = [pc EXCEPT ![t] = IF id[t] \in CfmId THEN "wait" ELSE "idle"]
          /\ pc[t] = "post"
          /\ given' = given /\ timedOut' = timedOut /\ dangling' = dangling
      BY <2>2 DEF Post, nodeVars, histVars
    <3>. QED BY <1>1, <2>1, <3>1 DEF Cur
  <2>3. CASE ~Post(t)
    <3>1. CASE PostFails(t) \/ Confirmed(t) \/ Withdraw(t) \/ ReturnOk(t)
      <4>1. timedOut' = timedOut /\ dangling' = dangling
        BY <3>1 DEF PostFails, Confirmed, Withdraw, ReturnOk, histVars
      <4>. QED BY <1>1, <2>1, <2>3, <3>1, <4>1
               DEF PostFails, Confirmed, Withdraw, ReturnOk, nodeVars, Cur
    <3>2. CASE Timeout(t)
      BY <1>1, <2>1, <2>3, <3>2 DEF Timeout, nodeVars, Cur
    <3>3. CASE ReturnFailed(t)
      BY <1>1, <2>1, <2>3, <3>3 DEF ReturnFailed, Cur
    <3>. QED BY <1>4, <2>3, <3>1, <3>2, <3>3 DEF CallerReturns
  <2>. QED BY <2>2, <2>3
<1>. QED BY <1>2, <1>3, <1>4

\* The answers stay one to one when a caller moves.
LEMMA AnswerCaller ==
    ASSUME IndInv, AnswerInv, Peers = {}, NEW t \in Thread,
           (\E i \in Id : Call(t, i)) \/ CallNoMemory(t) \/ CallerReturns(t)
    PROVE  AnswerInv'
<1> USE DEF AnswerInv
<1>1. TypeInv
  BY DEF IndInv
<1>2. kpc \in {"sema", "handle"}
  BY CallerWaitsForHandler
     DEF Call, CallNoMemory, CallerReturns, Post, PostFails, Confirmed,
         Timeout, Withdraw, ReturnOk, ReturnFailed
<1>3. /\ UNCHANGED <<mac, rxHead, kpc, rxMsg, txNode, answers>>
      /\ Forwarded' = Forwarded /\ Held' = Held /\ Copied' = Copied
      /\ Answered' = Answered
      /\ \/ /\ Post(t) /\ ioQueue' = Append(ioQueue, Cur(t))
            /\ Queued' = Queued \cup {Cur(t)}
            /\ Sent' = Sent \cup {Cur(t)}
         \/ /\ ~Post(t) /\ ioQueue' = ioQueue
            /\ Queued' = Queued /\ Sent' = Sent
  BY <1>1, CallerSent
<1>4. /\ Sent \subseteq Node /\ Answered \subseteq Node
      /\ \A n \in Node : n.thd \in Thread /\ n.seq \in Nat /\ n.id \in Id
      /\ \A u \in Thread : calls[u] \in Nat
  BY <1>1, SentAreNodes
<1>5. MatchedIds' /\ OneToOne'
  BY <1>3 DEF MatchedIds, OneToOne
<1>6. /\ Post(t) => pc[t] = "post" /\ Cur(t) \notin Sent
      /\ Cur(t).thd = t /\ Cur(t).seq = calls[t] /\ Cur(t).id = id[t]
  BY DEF Post, SentArePast, Cur
<1>7. SentOnce'
  <2>1. Once(ioQueue')
    <3>1. CASE Post(t)
      <4>1. ioQueue \in Seq(Node \cup {DATA}) /\ Cur(t) \in Node \cup {DATA}
        BY <1>1, <1>6, <3>1, CurIsNode DEF TypeInv, TypeOK
      <4>2. Cur(t) \in Node => Cur(t) \notin Elems(ioQueue)
        BY <1>6, <3>1 DEF Sent, Queued
      <4>3. Once(ioQueue)
        BY DEF SentOnce
      <4>4. Once(Append(ioQueue, Cur(t)))
        BY <4>1, <4>2, <4>3, OncePush
      <4>5. ioQueue' = Append(ioQueue, Cur(t))
        BY <1>3, <3>1
      <4>. QED BY <4>4, <4>5
    <3>2. CASE ~Post(t)
      BY <1>3, <3>2 DEF SentOnce
    <3>. QED BY <3>1, <3>2
  <2>2. Queued' \cap (mac \cup Forwarded \cup Held \cup Copied) = {}
    BY <1>3, <1>6 DEF SentOnce, Sent
  <2>. QED BY <1>3, <2>1, <2>2 DEF SentOnce, Once
<1>8. /\ \A u \in Thread : u # t =>
             Cur(u)' = Cur(u) /\ pc'[u] = pc[u] /\ calls'[u] = calls[u]
             /\ id'[u] = id[u]
      /\ calls'[t] >= calls[t] /\ calls'[t] \in Nat
      /\ pc[t] # "idle" => Cur(t)' = Cur(t) /\ id'[t] = id[t]
      /\ pc'[t] # "idle" /\ pc[t] = "idle" =>
             pc'[t] = "post" /\ calls'[t] = calls[t] + 1
      /\ pc'[t] = "post" => pc[t] = "idle"
      /\ pc'[t] = "failed" =>
             pc[t] = "post" \/ (pc[t] = "expired" /\ timedOut' = timedOut)
      /\ pc'[t] = "confirmed" => pc[t] = "wait" /\ Cur(t) \in given
      /\ Post(t) => pc'[t] \in {"wait", "idle"}
      /\ given' \subseteq given
      /\ timedOut \subseteq timedOut'
      /\ \/ dangling' = dangling
         \/ /\ dangling' = dangling \cup {Cur(t)}
            /\ pc[t] = "failed" /\ Cur(t) \in live \ timedOut
  BY <1>1, CallerMoves
<1>9. SentArePast'
  <2>1. ASSUME NEW m \in Sent' PROVE m.seq <= calls'[m.thd] /\ m \notin dangling'
    <3>1. CASE m \in Sent
      <4>1. m.seq <= calls[m.thd] /\ m \notin dangling
            /\ m.thd \in Thread /\ m.seq \in Nat /\ calls[m.thd] \in Nat
        BY <1>4, <3>1 DEF SentArePast
      <4>2. m.seq <= calls'[m.thd]
        BY <1>4, <1>8, <4>1
      <4>3. pc[t] = "failed" /\ Cur(t) \notin timedOut => m # Cur(t)
        BY <3>1 DEF SentArePast
      <4>. QED BY <1>8, <4>1, <4>2, <4>3
    <3>2. CASE Post(t) /\ m = Cur(t)
      <4>1. m \notin dangling /\ dangling' = dangling
        BY <3>2, <1>6, <1>8 DEF IndInv, HistoryIsPast
      <4>2. m.thd = t /\ m.seq = calls[t]
        BY <3>2, <1>6
      <4>. QED BY <1>4, <1>8, <4>1, <4>2
    <3>. QED BY <1>3, <3>1, <3>2
  <2>2. ASSUME NEW u \in Thread,
               \/ pc'[u] = "post"
               \/ pc'[u] = "failed" /\ Cur(u)' \notin timedOut'
        PROVE  Cur(u)' \notin Sent'
    <3>1. CASE u # t
      <4>1. Cur(u)' = Cur(u) /\ Cur(u) \notin Sent /\ Cur(u) # Cur(t)
        BY <1>8, <2>2, <3>1 DEF SentArePast, Cur
      <4>. QED BY <1>3, <4>1
    <3>2. CASE u = t /\ pc'[t] = "post"
      <4>1. pc[t] = "idle" /\ calls'[t] = calls[t] + 1 /\ ~Post(t)
        BY <1>6, <1>8, <3>2
      <4>2. Cur(t)'.seq = calls[t] + 1 /\ Cur(t)'.thd = t
        BY <4>1 DEF Cur
      <4>3. Cur(t)' \notin Sent
        BY <1>4, <4>2 DEF SentArePast
      <4>. QED BY <1>3, <3>2, <4>1, <4>3
    <3>3. CASE u = t /\ pc'[t] = "failed"
      <4>1. pc[t] \in {"post", "expired"} /\ Cur(t)' = Cur(t) /\ ~Post(t)
            /\ Cur(t) \notin timedOut'
        BY <1>8, <2>2, <3>3
      <4>2. pc[t] = "post"
        BY <1>8, <3>3, <4>1 DEF IndInv, HistoryIsPast
      <4>. QED BY <1>3, <3>3, <4>1, <4>2 DEF SentArePast
    <3>. QED BY <2>2, <3>1, <3>2, <3>3
  <2>. QED BY <2>1, <2>2 DEF SentArePast, Cur
<1>10. AnsweredLeft'
  <2>1. ASSUME NEW n \in Answered PROVE n.seq <= calls'[n.thd]
    <3>1. n.seq <= calls[n.thd] /\ n.thd \in Thread /\ n.seq \in Nat
          /\ calls[n.thd] \in Nat
      BY <1>4, <2>1 DEF AnsweredLeft
    <3>. QED BY <1>4, <1>8, <3>1
  <2>2. Elems(txHead') \subseteq Elems(txHead) \cup
            (IF pc[t] = "idle" /\ pc'[t] = "post" THEN {Cur(t)'} ELSE {})
    <3>1. txHead \in Seq(Node)
      BY <1>1 DEF TypeInv, TypeOK
    <3>2. ASSUME NEW i \in Id, Call(t, i)
          PROVE  /\ Elems(txHead') \subseteq Elems(txHead) \cup {Cur(t)'}
                 /\ pc[t] = "idle" /\ pc'[t] = "post"
      <4> DEFINE n == [thd |-> t, seq |-> calls[t] + 1, id |-> i]
      <4>1. Cur(t)' = n /\ pc[t] = "idle" /\ pc'[t] = "post"
            /\ calls[t] + 1 \in 1..MaxCalls
        BY <1>1, <3>2, BoundAssumption DEF Call, Cur, TypeInv, TypeOK
      <4>2. n \in Node
        BY <4>1 DEF Node
      <4>3. txHead' \in {txHead, co_list_push_back(txHead, n)}
        BY <3>2 DEF Call
      <4>4. Elems(co_list_push_back(txHead, n)) = Elems(txHead) \cup {n}
        BY <3>1, <4>2, PushElems
      <4>. QED BY <4>1, <4>3, <4>4
    <3>3. CASE Withdraw(t)
      <4>1. txHead' = co_list_extract(txHead, Cur(t))
            /\ \A i, j \in DOMAIN txHead : txHead[i] = txHead[j] => i = j
        BY <3>3 DEF Withdraw, IndInv, ListHasNoRepeats
      <4>2. Elems(txHead') = Elems(txHead) \ {Cur(t)}
        BY <3>1, <4>1, ExtractElems
      <4>. QED BY <4>2
    <3>4. CASE CallNoMemory(t) \/ (CallerReturns(t) /\ ~Withdraw(t))
      <4>1. txHead' = txHead
        BY <3>4 DEF CallNoMemory, CallerReturns, Post, PostFails, Confirmed,
              Timeout, ReturnOk, ReturnFailed, nodeVars
      <4>. QED BY <4>1
    <3>. QED BY <3>2, <3>3, <3>4
  <2>3. pc[t] = "idle" /\ pc'[t] = "post" => Cur(t)' \notin Answered
    <3> SUFFICES ASSUME pc[t] = "idle", pc'[t] = "post"
                 PROVE  Cur(t)' \notin Answered
      OBVIOUS
    <3>1. Cur(t)'.seq = calls[t] + 1 /\ Cur(t)'.thd = t
      BY <1>8 DEF Cur
    <3>. QED BY <1>4, <3>1 DEF AnsweredLeft
  <2>4. Answered \cap Elems(txHead') = {}
    BY <2>2, <2>3 DEF AnsweredLeft
  <2>. QED BY <1>2, <1>3, <2>1, <2>4 DEF AnsweredLeft, Elems
<1>11. SignalledIsAnswered'
  <2>1. ASSUME NEW u \in Thread, pc'[u] = "confirmed"
        PROVE  id'[u] \in EmptyId \/ Cur(u)' \in Answered
    BY <1>6, <1>8, <2>1 DEF SignalledIsAnswered
  <2>. QED BY <1>2, <1>3, <1>8, <2>1 DEF SignalledIsAnswered, Cur
<1>. QED BY <1>5, <1>7, <1>9, <1>10, <1>11

\* What a step of the core thread or the MAC does to the requests: one moves on.
LEMMA CoreSent ==
    ASSUME TypeInv, AnswerInv,
           PostOther \/ CoreThread \/ (\E m \in mac : MacAnswer(m)) \/ MacIndicate
    PROVE  SentOnce' /\ Sent' = Sent /\ Answered' = Answered
<1> USE DEF AnswerInv
<1>1. UNCHANGED <<callVars, nodeVars, bkVars, histVars>>
  BY DEF PostOther, CoreThread, MacAnswer, MacIndicate
<1>2. Held' = Held /\ Copied' = Copied /\ Answered' = Answered
  BY <1>1 DEF bkVars, histVars, Held, Copied, Answered
<1>3. /\ ioQueue \in Seq(Node \cup {DATA}) /\ rxHead \in Seq(Node \cup {IND})
      /\ mac \subseteq Node
      /\ Once(ioQueue) /\ Once(rxHead)
  BY DEF TypeInv, TypeOK, SentOnce
<1>4. CASE PostOther
  <2>1. /\ ioQueue' = Append(ioQueue, DATA) /\ mac' = mac /\ rxHead' = rxHead
        /\ kpc' = kpc /\ rxMsg' = rxMsg
    BY <1>4 DEF PostOther, rxVars, bkVars
  <2>2. DATA \in Node \cup {DATA} /\ (DATA \in Node => DATA \notin Elems(ioQueue))
    BY DistinctAssumption
  <2>3. /\ Once(Append(ioQueue, DATA))
        /\ Elems(Append(ioQueue, DATA)) = Elems(ioQueue) \cup {DATA}
    BY <1>3, <2>2, OncePush
  <2>4. Queued' = Queued /\ Forwarded' = Forwarded
    BY <2>1, <2>3, DistinctAssumption DEF Queued, Forwarded, Elems
  <2>5. Once(ioQueue')
    BY <2>1, <2>3
  <2>. QED BY <1>2, <2>1, <2>4, <2>5 DEF SentOnce, Sent, Once
<1>5. CASE CoreThread
  <2> DEFINE h == Head(ioQueue)
  <2>1. /\ ioQueue # <<>> /\ ioQueue' = Tail(ioQueue) /\ rxHead' = rxHead
        /\ kpc' = kpc /\ rxMsg' = rxMsg
        /\ mac' = IF h = DATA THEN mac ELSE mac \cup {h}
    BY <1>5 DEF CoreThread, rxVars, bkVars
  <2>2. /\ Once(Tail(ioQueue))
        /\ Elems(Tail(ioQueue)) \subseteq Elems(ioQueue)
        /\ Elems(ioQueue) \subseteq Elems(Tail(ioQueue)) \cup {h}
        /\ h \in Elems(ioQueue)
        /\ h \in Node => h \notin Elems(Tail(ioQueue))
    BY <1>3, <2>1, OnceTail
  <2>3. h \in Node \cup {DATA}
    BY <1>3, <2>2 DEF Elems
  <2>4. Forwarded' = Forwarded /\ Once(ioQueue')
    BY <2>1, <2>2 DEF Forwarded, Elems
  <2>5. Queued' = Elems(Tail(ioQueue)) \cap Node
    BY <2>1 DEF Queued, Elems
  <2> HIDE DEF h
  <2>6. Queued' = Queued \ {h}
    BY <2>2, <2>5 DEF Queued
  <2>7. CASE h = DATA
    <3>1. Queued' = Queued /\ mac' = mac
      BY <2>1, <2>6, <2>7, DistinctAssumption DEF Queued
    <3>. QED BY <1>2, <2>1, <2>4, <3>1 DEF SentOnce, Sent, Once
  <2>8. CASE h \in Node /\ h # DATA
    <3>1. h \in Queued /\ mac' = mac \cup {h}
      BY <2>1, <2>2, <2>8 DEF Queued
    <3>2. Sent' = Sent
      BY <1>2, <2>4, <2>6, <3>1 DEF Sent
    <3>3. /\ Queued' \cap (mac' \cup Forwarded' \cup Held' \cup Copied') = {}
          /\ mac' \cap (Forwarded' \cup Held' \cup Copied') = {}
      BY <1>2, <2>4, <2>6, <3>1 DEF SentOnce
    <3>. QED BY <1>2, <2>1, <2>4, <3>2, <3>3 DEF SentOnce, Once
  <2>. QED BY <2>3, <2>7, <2>8
<1>6. ASSUME NEW m \in mac, MacAnswer(m)
      PROVE  SentOnce' /\ Sent' = Sent
  <2>1. /\ mac' = mac \ {m} /\ ioQueue' = ioQueue
        /\ rxHead' = Append(rxHead, m) /\ kpc' = kpc /\ rxMsg' = rxMsg
    BY <1>6 DEF MacAnswer, mr_kmsg_fwd, co_list_push_back, bkVars
  <2>2. m \in Node \cup {IND} /\ (m \in Node => m \notin Elems(rxHead))
    BY <1>3, <1>6 DEF SentOnce, Forwarded
  <2>3. /\ Once(Append(rxHead, m))
        /\ Elems(Append(rxHead, m)) = Elems(rxHead) \cup {m}
    BY <1>3, <2>2, OncePush
  <2>4. Queued' = Queued /\ Once(rxHead')
    BY <2>1, <2>3 DEF Queued, Elems
  <2>5. Forwarded' = Elems(Append(rxHead, m)) \cap Node
    BY <2>1 DEF Forwarded, Elems
  <2>6. Forwarded' = Forwarded \cup {m}
    BY <1>3, <1>6, <2>3, <2>5 DEF Forwarded
  <2>7. Sent' = Sent
    BY <1>2, <1>6, <2>1, <2>4, <2>6 DEF Sent
  <2>8. /\ mac' \cap (Forwarded' \cup Held' \cup Copied') = {}
        /\ Queued' \cap (mac' \cup Forwarded' \cup Held' \cup Copied') = {}
        /\ Forwarded' \cap (Held' \cup Copied') = {}
    BY <1>2, <1>6, <2>1, <2>4, <2>6 DEF SentOnce
  <2>. QED BY <1>2, <2>1, <2>4, <2>7, <2>8 DEF SentOnce, Once
<1>7. CASE MacIndicate
  <2>1. /\ mac' = mac /\ ioQueue' = ioQueue
        /\ rxHead' = Append(rxHead, IND) /\ kpc' = kpc /\ rxMsg' = rxMsg
    BY <1>7 DEF MacIndicate, mr_kmsg_fwd, co_list_push_back, bkVars
  <2>2. IND \in Node \cup {IND} /\ (IND \in Node => IND \notin Elems(rxHead))
    BY DistinctAssumption
  <2>3. /\ Once(Append(rxHead, IND))
        /\ Elems(Append(rxHead, IND)) = Elems(rxHead) \cup {IND}
    BY <1>3, <2>2, OncePush
  <2>4. Queued' = Queued /\ Once(rxHead')
    BY <2>1, <2>3 DEF Queued, Elems
  <2>5. Forwarded' = Elems(Append(rxHead, IND)) \cap Node
    BY <2>1 DEF Forwarded, Elems
  <2>6. Forwarded' = Forwarded
    BY <2>3, <2>5, DistinctAssumption DEF Forwarded
  <2>. QED BY <1>2, <2>1, <2>4, <2>6 DEF SentOnce, Sent, Once
<1>. QED BY <1>2, <1>4, <1>5, <1>6, <1>7

\* The answers stay one to one when the core thread or the MAC moves.
LEMMA AnswerCore ==
    ASSUME TypeInv, AnswerInv,
           PostOther \/ CoreThread \/ (\E m \in mac : MacAnswer(m)) \/ MacIndicate
    PROVE  AnswerInv'
<1> USE DEF AnswerInv
<1>1. UNCHANGED <<callVars, nodeVars, bkVars, histVars>>
  BY DEF PostOther, CoreThread, MacAnswer, MacIndicate
<1>2. SentOnce' /\ Sent' = Sent /\ Answered' = Answered
  BY CoreSent
<1>. QED BY <1>1, <1>2
         DEF callVars, nodeVars, bkVars, histVars, SentArePast, AnsweredLeft,
             MatchedIds, SignalledIsAnswered, OneToOne, Cur, Elems

\* What a step of kmsgbk does to the requests: it passes one on, hands it over
\* or drops it; only Copy adds an answer.
LEMMA HandlerSent ==
    ASSUME TypeInv, AnswerInv, kmsg_bk_thread
    PROVE  /\ SentOnce' /\ Sent' \subseteq Sent
           /\ \/ answers' = answers
              \/ /\ Copy /\ rxMsg.id \notin EmptyId
                 /\ answers' = answers \cup {<<txNode, rxMsg>>}
                 /\ rxMsg \in Sent /\ rxMsg \notin Copied
                 /\ rxMsg \in Node /\ txNode \in Node
<1> USE DEF AnswerInv
<1>1. mac' = mac /\ ioQueue' = ioQueue
  BY DEF kmsg_bk_thread, rwnx_recv_msg, TakeAppSema, Pop, Match,
         Extract, Copy, Signal, Handle, macVars
<1>2. Queued' = Queued
  BY <1>1 DEF Queued, Elems
<1>3. rxHead \in Seq(Node \cup {IND}) /\ Once(rxHead)
  BY DEF TypeInv, TypeOK, SentOnce
<1>4. CASE TakeAppSema \/ (Pop /\ rxHead = <<>>) \/ Handle \/ Signal
             \/ Match \/ Extract
  <2>1. rxHead' = rxHead /\ answers' = answers
    BY <1>4 DEF TakeAppSema, Pop, Handle, Signal, Match, Extract, rxVars,
                histVars
  <2>2. Held' \subseteq Held
    BY <1>4 DEF TakeAppSema, Pop, Handle, Signal, Match, Extract, rxVars, Held
  <2>3. Forwarded' = Forwarded /\ Copied' = Copied
    BY <2>1 DEF Forwarded, Copied, Elems
  <2>4. Sent' \subseteq Sent
    BY <1>1, <1>2, <2>2, <2>3 DEF Sent
  <2>. QED BY <1>1, <1>2, <2>1, <2>2, <2>3, <2>4 DEF SentOnce, Once
<1>5. CASE Pop /\ rxHead # <<>>
  <2>1. /\ kpc = "pop" /\ kpc' = "match"
        /\ rxMsg' = Head(rxHead) /\ rxHead' = Tail(rxHead)
        /\ answers' = answers
    BY <1>5 DEF Pop, histVars
  <2>2. /\ Once(Tail(rxHead))
        /\ Elems(Tail(rxHead)) \subseteq Elems(rxHead)
        /\ Head(rxHead) \in Elems(rxHead)
        /\ Head(rxHead) \in Node => Head(rxHead) \notin Elems(Tail(rxHead))
    BY <1>3, <1>5, OnceTail
  <2>3. Once(rxHead')
    BY <2>1, <2>2
  <2>4. Forwarded' \subseteq Forwarded \ Held'
    <3>1. Forwarded' = Elems(rxHead') \cap Node
      BY DEF Forwarded, Elems
    <3>2. Held' = {rxMsg'} \cap Node
      BY <2>1 DEF Held
    <3>. QED BY <2>1, <2>2, <3>1, <3>2 DEF Forwarded
  <2>5. Held' \subseteq Forwarded /\ Held = {} /\ Copied' = Copied
    BY <2>1, <2>2 DEF Held, Forwarded, Copied
  <2>6. Sent' \subseteq Sent
    BY <1>1, <1>2, <2>4, <2>5 DEF Sent
  <2>7. /\ Queued' \cap (mac' \cup Forwarded' \cup Held' \cup Copied') = {}
        /\ mac' \cap (Forwarded' \cup Held' \cup Copied') = {}
        /\ Forwarded' \cap (Held' \cup Copied') = {}
        /\ Held' \cap Copied' = {}
    BY <1>1, <1>2, <2>4, <2>5 DEF SentOnce
  <2>. QED BY <1>1, <2>1, <2>3, <2>6, <2>7 DEF SentOnce, Once
<1>6. CASE Copy
  <2>1. /\ kpc = "copy" /\ kpc' = "signal" /\ rxHead' = rxHead
        /\ answers' = IF rxMsg.id \in EmptyId THEN answers
                      ELSE answers \cup {<<txNode, rxMsg>>}
        /\ rxMsg \in Node /\ txNode \in Node
    BY <1>6 DEF Copy, rxVars, TypeInv, HandlerLocals
  <2>2. Held = {rxMsg} /\ Held' = {} /\ Forwarded' = Forwarded
    BY <2>1 DEF Held, Forwarded, Elems
  <2>3. Copied' \subseteq Copied \cup {rxMsg}
    <3>1. Copied' = {a[2] : a \in answers'}
      BY DEF Copied
    <3>2. <<txNode, rxMsg>>[2] = rxMsg
      OBVIOUS
    <3>. QED BY <2>1, <3>1, <3>2 DEF Copied
  <2>4. Sent' \subseteq Sent /\ rxMsg \in Sent /\ rxMsg \notin Copied
    BY <1>1, <1>2, <2>2, <2>3 DEF Sent, SentOnce
  <2>5. SentOnce'
    BY <1>1, <1>2, <2>1, <2>2, <2>3 DEF SentOnce, Once
  <2>. QED BY <1>6, <2>1, <2>4, <2>5
<1>. QED BY <1>4, <1>5, <1>6 DEF kmsg_bk_thread, rwnx_recv_msg

\* What a step of kmsgbk leaves alone.
LEMMA HandlerFrame ==
    ASSUME kmsg_bk_thread
    PROVE  /\ callVars' = callVars /\ live' = live
           /\ timedOut' = timedOut /\ dangling' = dangling
BY DEF kmsg_bk_thread, rwnx_recv_msg, TakeAppSema, Pop, Match,
       Extract, Copy, Signal, Handle, nodeVars, histVars

\* The answers stay one to one when kmsgbk moves.
LEMMA AnswerHandler ==
    ASSUME IndInv, AnswerInv, kmsg_bk_thread
    PROVE  AnswerInv'
<1> USE DEF AnswerInv
<1>1. TypeInv
  BY DEF IndInv
<1>2. /\ SentOnce' /\ Sent' \subseteq Sent
      /\ \/ answers' = answers
         \/ /\ Copy /\ rxMsg.id \notin EmptyId
            /\ answers' = answers \cup {<<txNode, rxMsg>>}
            /\ rxMsg \in Sent /\ rxMsg \notin Copied
            /\ rxMsg \in Node /\ txNode \in Node
  BY <1>1, HandlerSent
<1>3. /\ calls' = calls /\ id' = id /\ pc' = pc
      /\ timedOut' = timedOut /\ dangling' = dangling
      /\ \A u \in Thread : Cur(u)' = Cur(u)
  BY HandlerFrame DEF callVars, Cur
<1>4. SentArePast'
  BY <1>2, <1>3 DEF SentArePast, Cur
<1>5. MatchedIds'
  <2>1. CASE Match
    BY <1>1, <2>1 DEF Match, Waiting, MatchedIds
  <2>2. CASE ~Match
    BY <2>2 DEF kmsg_bk_thread, rwnx_recv_msg, TakeAppSema, Pop,
                Extract, Copy, Signal, Handle, MatchedIds
  <2>. QED BY <2>1, <2>2
<1>6. CASE answers' = answers
  <2>1. Answered' = Answered /\ OneToOne'
    BY <1>6 DEF Answered, OneToOne
  <2>2. /\ Elems(txHead') \subseteq Elems(txHead)
        /\ kpc' = "copy" => txNode' \in Elems(txHead)
    <3>1. CASE Extract
      <4>1. /\ txHead \in Seq(Node)
            /\ \A i, j \in DOMAIN txHead : txHead[i] = txHead[j] => i = j
            /\ txHead' = co_list_extract(txHead, txNode) /\ txNode' = txNode
            /\ txNode \in Elems(txHead)
        BY <3>1 DEF Extract, IndInv, TypeInv, TypeOK, ListHasNoRepeats,
                    HandlerHolds
      <4>2. Elems(txHead') = Elems(txHead) \ {txNode}
        BY <4>1, ExtractElems
      <4>. QED BY <4>1, <4>2
    <3>2. CASE ~Extract
      BY <3>2 DEF kmsg_bk_thread, rwnx_recv_msg, TakeAppSema, Pop, Match, Copy, Signal, Handle, nodeVars
    <3>. QED BY <3>1, <3>2
  <2>3. AnsweredLeft'
    <3>1. Answered' \cap Elems(txHead') = {}
      BY <2>1, <2>2 DEF AnsweredLeft
    <3>2. kpc' = "copy" => txNode' \notin Answered'
      BY <2>1, <2>2 DEF AnsweredLeft
    <3>. QED BY <1>3, <2>1, <3>1, <3>2 DEF AnsweredLeft, Elems
  <2>4. /\ given' \subseteq given \cup (IF kpc = "signal" THEN {txNode} ELSE {})
        /\ kpc' = "signal" =>
               kpc = "copy" /\ txNode' = txNode /\ rxMsg' = rxMsg /\ Copy
    BY DEF kmsg_bk_thread, rwnx_recv_msg, TakeAppSema, Pop,
           Match, Extract, Copy, Signal, Handle, nodeVars
  <2>5. kpc' = "signal" => txNode.id \in EmptyId \/ txNode \in Answered
    <3> SUFFICES ASSUME kpc' = "signal", txNode.id \notin EmptyId
                 PROVE  txNode \in Answered
      OBVIOUS
    <3>1. Copy /\ txNode.id = rxMsg.id
      BY <2>4 DEF MatchedIds
    <3>2. <<txNode, rxMsg>> \in answers
      BY <1>6, <3>1 DEF Copy
    <3>3. <<txNode, rxMsg>>[1] = txNode
      OBVIOUS
    <3>. QED BY <3>2, <3>3 DEF Answered
  <2>6. SignalledIsAnswered'
    <3>1. \A n \in given' : n.id \in EmptyId \/ n \in Answered
      BY <2>4 DEF SignalledIsAnswered
    <3>2. kpc' = "signal" => txNode'.id \in EmptyId \/ txNode' \in Answered
      BY <2>4, <2>5
    <3>3. \A u \in Thread :
              pc'[u] = "confirmed" => id'[u] \in EmptyId \/ Cur(u)' \in Answered
      BY <1>3 DEF SignalledIsAnswered
    <3>. QED BY <2>1, <3>1, <3>2, <3>3 DEF SignalledIsAnswered, Cur
  <2>. QED BY <1>2, <1>4, <1>5, <2>1, <2>3, <2>6
<1>7. CASE /\ Copy /\ rxMsg.id \notin EmptyId
           /\ answers' = answers \cup {<<txNode, rxMsg>>}
           /\ rxMsg \in Sent /\ rxMsg \notin Copied
           /\ rxMsg \in Node /\ txNode \in Node
  <2>1. /\ kpc = "copy" /\ kpc' = "signal" /\ txNode' = txNode
        /\ given' = given /\ txHead' = txHead
    BY <1>7 DEF Copy, nodeVars
  <2>2. /\ txNode \notin Answered /\ txNode.id = rxMsg.id
        /\ txNode \notin Elems(txHead)
        /\ txNode \in live \cup dangling
    BY <2>1 DEF AnsweredLeft, MatchedIds, IndInv, HandlerHolds
  <2>3. txNode.seq <= calls[txNode.thd]
    <3>1. CASE txNode \in live
      <4>1. txNode = Cur(txNode.thd) /\ txNode.thd \in Thread
        BY <1>7, <3>1 DEF IndInv, LiveNodesInCall, Node
      <4>2. txNode.seq = calls[txNode.thd]
        BY <4>1 DEF Cur
      <4>3. calls[txNode.thd] \in Nat
        BY <1>1, <4>1, SentAreNodes
      <4>. QED BY <4>2, <4>3
    <3>2. CASE txNode \in dangling
      BY <3>2 DEF IndInv, HistoryIsPast
    <3>. QED BY <2>2, <3>1, <3>2
  <2>4. <<txNode, rxMsg>>[1] = txNode /\ <<txNode, rxMsg>>[2] = rxMsg
    OBVIOUS
  <2>5. Answered' = Answered \cup {txNode}
    <3>1. Answered' = {a[1] : a \in answers'}
      BY DEF Answered
    <3>. QED BY <1>7, <2>4, <3>1 DEF Answered
  <2>6. AnsweredLeft'
    BY <1>3, <2>1, <2>2, <2>3, <2>5 DEF AnsweredLeft, Elems
  <2>7. SignalledIsAnswered'
    BY <1>3, <2>1, <2>5 DEF SignalledIsAnswered, Cur
  <2>8. OneToOne'
    <3>1. \A a \in answers : a[1] # txNode /\ a[2] # rxMsg
      BY <1>7, <2>2 DEF Answered, Copied
    <3>2. \A a \in answers' : a[1].id = a[2].id
      BY <1>7, <2>2, <2>4 DEF OneToOne
    <3>3. \A a, b \in answers' : (a[1] = b[1]) <=> (a[2] = b[2])
      BY <1>7, <2>4, <3>1 DEF OneToOne
    <3>. QED BY <3>2, <3>3 DEF OneToOne
  <2>. QED BY <1>2, <1>4, <1>5, <2>6, <2>7, <2>8
<1>. QED BY <1>2, <1>6, <1>7

\* Nothing is on its way in the initial state.
LEMMA AnswerInit == Init => AnswerInv
<1> SUFFICES ASSUME Init PROVE AnswerInv
  OBVIOUS
<1>1. /\ Queued = {} /\ Forwarded = {} /\ Held = {} /\ Copied = {}
      /\ Answered = {} /\ mac = {} /\ Elems(txHead) = {}
      /\ Once(ioQueue) /\ Once(rxHead)
  BY DEF Init, Queued, Forwarded, Held, Copied, Answered, Elems, Once
<1>2. Sent = {}
  BY <1>1 DEF Sent
<1>. QED BY <1>1, <1>2
         DEF Init, AnswerInv, SentOnce, SentArePast, AnsweredLeft, MatchedIds,
             SignalledIsAnswered, OneToOne

\* Every step keeps the answers one to one.
LEMMA AnswerStep ==
    ASSUME Peers = {}
    PROVE  IndInv /\ AnswerInv /\ [Next]_vars => AnswerInv'
<1> SUFFICES ASSUME IndInv, AnswerInv, [Next]_vars PROVE AnswerInv'
  OBVIOUS
<1>1. CASE UNCHANGED vars
  BY <1>1
     DEF vars, callVars, nodeVars, macVars, rxVars, bkVars, histVars,
         AnswerInv, SentOnce, SentArePast, AnsweredLeft, MatchedIds,
         SignalledIsAnswered, OneToOne, Sent, Queued, Forwarded, Held, Copied,
         Answered, Once, Cur, Elems
<1>2. CASE Next
  <2>1. TypeInv
    BY DEF IndInv
  <2>. QED BY <1>2, <2>1, AnswerCaller, AnswerCore, AnswerHandler DEF Next
<1>. QED BY <1>1, <1>2

\* When no caller shares kmsgbk's priority, a call of rw_msg_send that returns
\* 0 has been handed the parameters of a confirm with the id it asked for, and
\* no confirm is handed to two calls nor two confirms to one call, whatever
\* timeouts, failed posts and unanswered requests came before.
THEOREM AnswersOneToOne ==
    ASSUME Peers = {}
    PROVE  Spec => []AnswersAreOneToOne
<1>1. Spec => [](IndInv /\ AnswerInv)
  BY SafeInit, SafeStep, AnswerInit, AnswerStep, PTL DEF Spec
<1>2. IndInv /\ AnswerInv => AnswersAreOneToOne
  <2> SUFFICES ASSUME IndInv, AnswerInv PROVE AnswersAreOneToOne
    OBVIOUS
  <2>1. ASSUME NEW t \in Thread, pc[t] = "confirmed", id[t] \notin EmptyId
        PROVE  \E m \in Node : <<Cur(t), m>> \in answers
    <3>1. PICK a \in answers : a[1] = Cur(t)
      BY <2>1 DEF AnswerInv, SignalledIsAnswered, Answered
    <3>2. a = <<a[1], a[2]>> /\ a[2] \in Node
      BY <3>1 DEF IndInv, TypeInv, TypeOK
    <3>3. <<Cur(t), a[2]>> \in answers
      BY <3>1, <3>2
    <3>. QED BY <3>2, <3>3
  <2>. QED BY <2>1 DEF AnswerInv, OneToOne, AnswersAreOneToOne
<1>. QED BY <1>1, <1>2, PTL

-----------------------------------------------------------------------------
(* Whose answer a call receives.                                           *)

\* No two threads make the same request.
DisjointIds ==
    \A t, u \in Thread : t # u => IdsOf[t] \cap IdsOf[u] = {}

\* Steps of the core thread and the MAC.
LEMMA StaleCore ==
    ASSUME TypeInv, AnswerInv, StaleInv,
           PostOther \/ CoreThread \/ (\E m \in mac : MacAnswer(m)) \/ MacIndicate
    PROVE  StaleInv'
<1>1. UNCHANGED <<callVars, nodeVars, bkVars, histVars>>
  BY DEF PostOther, CoreThread, MacAnswer, MacIndicate
<1>2. Sent' = Sent /\ Answered' = Answered
  BY CoreSent
<1>. QED BY <1>1, <1>2
         DEF callVars, nodeVars, bkVars, histVars, StaleInv, OwnIds,
             SentCallsEnd, StaleAnswerNeedsTimeout, Cur

\* Steps of a caller.
LEMMA StaleCaller ==
    ASSUME IndInv, AnswerInv, StaleInv, NEW t \in Thread,
           (\E i \in Id : Call(t, i)) \/ CallNoMemory(t) \/ CallerReturns(t)
    PROVE  StaleInv'
<1> USE DEF StaleInv
<1>1. TypeInv
  BY DEF IndInv
<1>2. /\ answers' = answers /\ Answered' = Answered
      /\ \/ Post(t) /\ Sent' = Sent \cup {Cur(t)}
         \/ ~Post(t) /\ Sent' = Sent
  BY <1>1, CallerSent
<1>3. /\ \A u \in Thread : u # t =>
             Cur(u)' = Cur(u) /\ pc'[u] = pc[u] /\ calls'[u] = calls[u]
             /\ id'[u] = id[u]
      /\ pc[t] # "idle" => Cur(t)' = Cur(t) /\ id'[t] = id[t]
      /\ pc'[t] # "idle" /\ pc[t] = "idle" => id'[t] \in IdsOf[t]
      /\ pc'[t] = "confirmed" => pc[t] = "wait" /\ Cur(t) \in given
      /\ pc[t] = "wait" => pc'[t] \in {"confirmed", "expired"}
      /\ pc'[t] = "expired" => Cur(t) \in timedOut'
      /\ Post(t) => pc[t] = "post" /\ (pc'[t] = "wait" \/ id[t] \notin CfmId)
      /\ timedOut \subseteq timedOut'
      /\ dangling \subseteq dangling'
      /\ \/ dangling' = dangling
         \/ /\ dangling' = dangling \cup {Cur(t)}
            /\ pc[t] = "failed" /\ Cur(t) \in live \ timedOut
  BY <1>1, CallerMoves
<1>4. /\ Sent \subseteq Node /\ Answered \subseteq Node
      /\ \A n \in Node : n.thd \in Thread /\ n.seq \in Nat /\ n.id \in Id
  BY <1>1, SentAreNodes
<1>5. Cur(t).thd = t /\ Cur(t).id = id[t]
  BY DEF Cur
<1>6. StaleAnswerNeedsTimeout'
  BY <1>2, <1>3 DEF StaleAnswerNeedsTimeout
<1>7. OwnIds'
  <2>1. \A u \in Thread : pc'[u] # "idle" => id'[u] \in IdsOf[u]
    BY <1>3 DEF OwnIds
  <2>2. \A n \in live' : n.id \in IdsOf[n.thd]
    <3>1. ASSUME NEW i \in Id, Call(t, i), NEW n \in live'
          PROVE  n.id \in IdsOf[n.thd]
      <4>1. n \in live \/ (n = [thd |-> t, seq |-> calls[t] + 1, id |-> i]
                           /\ i \in IdsOf[t])
        BY <3>1 DEF Call
      <4>. QED BY <4>1 DEF OwnIds
    <3>2. CASE CallNoMemory(t) \/ CallerReturns(t)
      <4>1. live' \subseteq live
        BY <3>2 DEF CallNoMemory, CallerReturns, Post, PostFails, Confirmed,
                    Timeout, Withdraw, ReturnOk, ReturnFailed, nodeVars
      <4>. QED BY <4>1 DEF OwnIds
    <3>. QED BY <3>1, <3>2
  <2>3. \A n \in dangling' : n.id \in IdsOf[n.thd] /\ n.id \in CfmId
    BY <1>3 DEF OwnIds, IndInv, LiveNodesInCall
  <2>4. \A n \in Sent' : n.id \in IdsOf[n.thd]
    BY <1>2, <1>3, <1>5 DEF OwnIds
  <2>. QED BY <2>1, <2>2, <2>3, <2>4 DEF OwnIds
<1>8. SentCallsEnd'
  <2> SUFFICES ASSUME NEW m \in Sent', m.id \in CfmId \ EmptyId
               PROVE  \/ m = Cur(m.thd)' /\ pc'[m.thd] = "wait"
                      \/ m \in timedOut'
                      \/ m \in Answered'
    BY DEF SentCallsEnd, Cur
  <2>1. CASE m \in Sent /\ m.thd # t
    BY <1>2, <1>3, <1>4, <2>1 DEF SentCallsEnd
  <2>2. CASE m \in Sent /\ m.thd = t
    <3>1. CASE m = Cur(t) /\ pc[t] = "wait"
      <4>1. CASE pc'[t] = "confirmed"
        BY <1>2, <1>3, <3>1, <4>1 DEF AnswerInv, SignalledIsAnswered
      <4>2. CASE pc'[t] = "expired"
        BY <1>3, <3>1, <4>2
      <4>. QED BY <1>3, <3>1, <4>1, <4>2
    <3>. QED BY <1>2, <1>3, <2>2, <3>1 DEF SentCallsEnd
  <2>3. CASE Post(t) /\ m = Cur(t)
    BY <1>3, <1>5, <2>3
  <2>. QED BY <1>2, <2>1, <2>2, <2>3
<1>. QED BY <1>6, <1>7, <1>8

\* Steps of kmsgbk: the node it answers belongs to the call that waits, or to
\* one whose post failed.
LEMMA StaleHandler ==
    ASSUME DisjointIds, IndInv, AnswerInv, StaleInv, kmsg_bk_thread
    PROVE  StaleInv'
<1> USE DEF StaleInv
<1>1. TypeInv
  BY DEF IndInv
<1>2. /\ Sent' \subseteq Sent
      /\ \/ answers' = answers
         \/ /\ Copy /\ rxMsg.id \notin EmptyId
            /\ answers' = answers \cup {<<txNode, rxMsg>>}
            /\ rxMsg \in Sent /\ rxMsg \notin Copied
            /\ rxMsg \in Node /\ txNode \in Node
  BY <1>1, HandlerSent
<1>3. /\ calls' = calls /\ id' = id /\ pc' = pc /\ live' = live
      /\ timedOut' = timedOut /\ dangling' = dangling
      /\ \A u \in Thread : Cur(u)' = Cur(u)
  BY HandlerFrame DEF callVars, Cur
<1>4. OwnIds'
  BY <1>2, <1>3 DEF OwnIds
<1>5. SentCallsEnd'
  <2>1. Answered \subseteq Answered'
    BY <1>2 DEF Answered
  <2>. QED BY <1>2, <1>3, <2>1 DEF SentCallsEnd, Cur
<1>6. CASE answers' = answers
  BY <1>3, <1>4, <1>5, <1>6 DEF StaleAnswerNeedsTimeout
<1>7. CASE /\ Copy /\ rxMsg.id \notin EmptyId
           /\ answers' = answers \cup {<<txNode, rxMsg>>}
           /\ rxMsg \in Sent /\ rxMsg \notin Copied
           /\ rxMsg \in Node /\ txNode \in Node
  <2> DEFINE n == txNode
             m == rxMsg
  <2>1. /\ n.id = m.id
        /\ n \in (live \ given) \cup dangling
        /\ n.thd \in Thread /\ m.thd \in Thread
        /\ n.seq \in Nat /\ m.seq \in Nat
        /\ calls[n.thd] \in Nat
    BY <1>1, <1>7, SentAreNodes
       DEF Copy, AnswerInv, MatchedIds, IndInv, HandlerHolds
  <2>2. n.thd = m.thd
    <3>1. n.id \in IdsOf[n.thd] /\ m.id \in IdsOf[m.thd]
      BY <1>7, <2>1 DEF OwnIds
    <3>. QED BY <2>1, <3>1 DEF DisjointIds
  <2>3. n.id \in CfmId /\ m.id \in CfmId \ EmptyId
    BY <1>7, <2>1 DEF OwnIds, IndInv, LiveNodesInCall
  <2>4. /\ n \in live => n = Cur(n.thd) /\ n.seq = calls[n.thd]
        /\ n.seq <= calls[n.thd]
    <3>1. n \in live => n = Cur(n.thd)
      BY DEF IndInv, LiveNodesInCall
    <3>2. Cur(n.thd).seq = calls[n.thd]
      BY DEF Cur
    <3>3. n \in dangling => n.seq <= calls[n.thd]
      BY DEF IndInv, HistoryIsPast
    <3>. QED BY <2>1, <3>1, <3>2, <3>3
  <2>5. m.seq <= calls[m.thd] /\ m \notin dangling
    BY <1>7 DEF AnswerInv, SentArePast
  <2>6. ASSUME n # m
        PROVE  \/ /\ m.seq < n.seq
                  /\ \E k \in timedOut : k.id = n.id /\ k.seq < n.seq
               \/ n \in dangling /\ n.seq < m.seq
    <3>1. n.seq # m.seq
      BY <1>7, <2>1, <2>2, <2>6 DEF Node
    <3>2. CASE m.seq < n.seq
      <4>1. m # Cur(m.thd)
        <5>1. Cur(m.thd).seq = calls[m.thd]
          BY DEF Cur
        <5>. QED BY <2>1, <2>2, <2>4, <3>2, <5>1
      <4>2. m \in timedOut \/ m \in Answered
        BY <1>7, <2>3, <4>1 DEF SentCallsEnd
      <4>3. CASE m \in timedOut
        BY <2>1, <3>2, <4>3
      <4>4. CASE m \in Answered
        <5>1. PICK a \in answers : a[1] = m
          BY <4>4 DEF Answered
        <5>2. a[2] \in Copied
          BY DEF Copied
        <5>3. a[1] # a[2]
          BY <1>7, <5>1, <5>2
        <5>4. \E k \in timedOut : k.id = m.id /\ k.seq < m.seq
          BY <2>5, <5>1, <5>3 DEF StaleAnswerNeedsTimeout
        <5>5. PICK k \in timedOut : k.id = m.id /\ k.seq < m.seq
          BY <5>4
        <5>6. k.seq \in Nat
          BY <1>1, SentAreNodes DEF TypeInv, TypeOK
        <5>7. k.id = n.id /\ k.seq < n.seq
          BY <2>1, <3>2, <5>5, <5>6
        <5>. QED BY <3>2, <5>7
      <4>. QED BY <4>2, <4>3, <4>4
    <3>3. CASE n.seq < m.seq
      <4>1. n \notin live
        BY <2>1, <2>2, <2>4, <2>5, <3>3
      <4>. QED BY <2>1, <3>3, <4>1
    <3>. QED BY <2>1, <3>1, <3>2, <3>3
  <2>7. <<txNode, rxMsg>>[1] = txNode /\ <<txNode, rxMsg>>[2] = rxMsg
    OBVIOUS
  <2>8. StaleAnswerNeedsTimeout'
    <3> SUFFICES ASSUME NEW a \in answers', a[1] # a[2]
                 PROVE  /\ a[1].thd = a[2].thd
                        /\ \/ /\ a[2].seq < a[1].seq
                              /\ \E k \in timedOut :
                                     k.id = a[1].id /\ k.seq < a[1].seq
                           \/ a[1] \in dangling /\ a[1].seq < a[2].seq
      BY <1>3 DEF StaleAnswerNeedsTimeout
    <3>1. CASE a \in answers
      BY <3>1 DEF StaleAnswerNeedsTimeout
    <3>2. CASE a = <<txNode, rxMsg>>
      BY <2>2, <2>6, <2>7, <3>2
    <3>. QED BY <1>7, <3>1, <3>2
  <2>. QED BY <1>4, <1>5, <2>8
<1>. QED BY <1>2, <1>6, <1>7

\* Nothing is on its way in the initial state.
LEMMA StaleInit == Init => StaleInv
<1> SUFFICES ASSUME Init PROVE StaleInv
  OBVIOUS
<1>1. /\ Queued = {} /\ Forwarded = {} /\ Held = {} /\ Copied = {} /\ mac = {}
  BY DEF Init, Queued, Forwarded, Held, Copied, Elems
<1>2. Sent = {}
  BY <1>1 DEF Sent
<1>. QED BY <1>2
         DEF Init, StaleInv, OwnIds, SentCallsEnd, StaleAnswerNeedsTimeout

\* When no caller shares kmsgbk's priority and no two threads make the same
\* request, an answer that reaches another call than its own reaches a later
\* call of the same thread for the same id, and only after a call for that id
\* has timed out; or it is caught by the node a failed post of that thread
\* left on rw_msg_tx_head.
THEOREM StaleAnswersNeedTimeout ==
    ASSUME Peers = {}, DisjointIds
    PROVE  Spec => []StaleAnswerNeedsTimeout
<1>1. IndInv /\ AnswerInv /\ StaleInv /\ [Next]_vars => StaleInv'
  <2> SUFFICES ASSUME IndInv, AnswerInv, StaleInv, [Next]_vars
               PROVE  StaleInv'
    OBVIOUS
  <2>1. CASE UNCHANGED vars
    BY <2>1
       DEF vars, callVars, nodeVars, macVars, rxVars, bkVars, histVars,
           StaleInv, OwnIds, SentCallsEnd, StaleAnswerNeedsTimeout, Sent,
           Queued, Forwarded, Held, Copied, Answered, Cur, Elems
  <2>2. CASE Next
    <3>1. TypeInv
      BY DEF IndInv
    <3>. QED BY <2>2, <3>1, StaleCaller, StaleCore, StaleHandler DEF Next
  <2>. QED BY <2>1, <2>2
<1>2. Spec => [](IndInv /\ AnswerInv /\ StaleInv)
  BY <1>1, SafeInit, SafeStep, AnswerInit, AnswerStep, StaleInit, PTL DEF Spec
<1>3. StaleInv => StaleAnswerNeedsTimeout
  BY DEF StaleInv
<1>. QED BY <1>2, <1>3, PTL
=============================================================================
