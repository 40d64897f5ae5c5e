------------------------ MODULE VideoTransferProofs ------------------------
(***************************************************************************)
(* Proofs about VideoTransfer for every pool, queue length and number of   *)
(* sessions, whether or not the thread preempts the application.           *)
(*                                                                         *)
(* The argument has two halves.  Which of the thread, the handle, the      *)
(* queue and the camera can exist together (Linked, CameraOwned, Honest)   *)
(* keeps a running camera supplied with a queue and a pool.  That every    *)
(* buffer is in one place (OnePlace) makes what an interrupt fills         *)
(* disjoint from what the thread sends, so the ready list is a queue of    *)
(* packets, which is the refinement of PacketStream.                       *)
(***************************************************************************)
EXTENDS VideoTransfer, FiniteSetTheorems, SequenceTheorems, TLAPS

\* e is on the list l; no element is twice on it.
On(e, l) == \E i \in 1 .. Len(l) : l[i] = e
Once(l) == \A i, j \in 1 .. Len(l) : l[i] = l[j] => i = j

\* The handle and the queue live together, but for the last step of
\* tvideo_exit; without a handle there is no thread, or one that an init
\* which timed out left behind.
Linked ==
    /\ hdl => queOpen \/ thr = "unqueued"
    /\ queOpen => hdl /\ thr # "unqueued"
    /\ thr \in {"none", "fault"} => ~hdl
    /\ hdl => app # "idle"
    /\ app # "idle" => hdl \/ thr = "none"
    /\ ~queOpen => que = <<>>

CameraOwned ==
    /\ camera => thr \in Running \cup {"exit", "freed", "fault"}
    /\ camera /\ thr # "freed" => pool
    /\ thr \in Running => camera
    /\ thr \in Running \cup {"init", "exit"} => pool

\* Only a deinit posts TV_EXIT, and the status video_transfer_init polls is
\* that of its own thread once that thread has begun.
Honest ==
    /\ On("EXIT", que) => app = "closing"
    /\ thr = "init" => status = "INIT"
    /\ app = "opening" /\ thr \notin Running \cup {"start"} => status = "INIT"
    /\ SuccessMeansRunning

\* Interrupts may come before the thread first waits.
Posted ==
    /\ thr = "init" => ready = <<>>
    /\ thr \in {"opened", "wait"} /\ queOpen /\ que = <<>> => ready = <<>> \/ stalled

OnePlace ==
    /\ InSession =>
          /\ Once(free) /\ Once(ready)
          /\ \A e \in Elems : ~(On(e, free) /\ On(e, ready))
          /\ \A e \in Elems : On(e, free) \/ On(e, ready) \/ (thr = "popped" /\ elem = e)
    /\ thr = "popped" => elem \in Elems /\ ~On(elem, free) /\ ~On(elem, ready)
    /\ thr \in {"sending", "sent"} => ready # <<>> /\ elem = Head(ready)

\* What was accepted last came before what comes next.
NewestIsPast ==
    /\ thr = "init" => newest = None
    /\ Serving /\ newest # None =>
          /\ newest.n <= arrived
          /\ newest.frame <= frame_id
          /\ newest.eof => newest.frame < frame_id

IInv == TypeOK /\ Linked /\ CameraOwned /\ Honest /\ Posted /\ OnePlace /\ NewestIsPast

-----------------------------------------------------------------------------
(***************************************************************************)
(* The lists.                                                              *)
(***************************************************************************)

LEMMA EmptyList ==
    ASSUME NEW S
    PROVE  <<>> \in Seq(S) /\ Once(<<>>) /\ \A e : ~On(e, <<>>)
BY DEF Once, On

LEMMA AppendList ==
    ASSUME NEW S, NEW l \in Seq(S), NEW x \in S
    PROVE  /\ Append(l, x) \in Seq(S) /\ Append(l, x) # <<>>
           /\ \A e : On(e, Append(l, x)) <=> On(e, l) \/ e = x
           /\ Once(l) /\ ~On(x, l) => Once(Append(l, x))
<1>1. /\ Append(l, x) \in Seq(S) /\ Len(l) \in Nat
      /\ Len(Append(l, x)) = Len(l) + 1
      /\ \A i \in 1 .. Len(l) : Append(l, x)[i] = l[i]
      /\ Append(l, x)[Len(l) + 1] = x
    OBVIOUS
<1>2. Append(l, x) # <<>>
    BY <1>1
<1>3. ASSUME NEW e PROVE On(e, Append(l, x)) <=> On(e, l) \/ e = x
    BY <1>1 DEF On
<1>4. Once(l) /\ ~On(x, l) => Once(Append(l, x))
    BY <1>1 DEF On, Once
<1> QED
    BY <1>1, <1>2, <1>3, <1>4

LEMMA TailList ==
    ASSUME NEW S, NEW l \in Seq(S), l # <<>>
    PROVE  /\ Head(l) \in S /\ Tail(l) \in Seq(S)
           /\ \A e : On(e, l) <=> e = Head(l) \/ On(e, Tail(l))
           /\ Once(l) => Once(Tail(l)) /\ ~On(Head(l), Tail(l))
<1>1. /\ Head(l) \in S /\ Tail(l) \in Seq(S)
      /\ Len(l) \in Nat \ {0} /\ Head(l) = l[1]
      /\ Len(Tail(l)) = Len(l) - 1
      /\ \A i \in 1 .. Len(l) - 1 : Tail(l)[i] = l[i + 1]
    BY HeadTailProperties, EmptySeq
<1>2. ASSUME NEW e, On(e, l) PROVE e = Head(l) \/ On(e, Tail(l))
    <2>1. PICK i \in 1 .. Len(l) : l[i] = e
        BY <1>2 DEF On
    <2>2. CASE i # 1
        <3>1. i - 1 \in 1 .. Len(l) - 1 /\ Tail(l)[i - 1] = e
            BY <1>1, <2>1, <2>2
        <3> QED
            BY <1>1, <3>1 DEF On
    <2> QED
        BY <1>1, <2>1, <2>2
<1>3. ASSUME NEW e, e = Head(l) \/ On(e, Tail(l)) PROVE On(e, l)
    BY <1>1, <1>3 DEF On
<1>4. Once(l) => Once(Tail(l)) /\ ~On(Head(l), Tail(l))
    BY <1>1 DEF On, Once
<1> QED
    BY <1>1, <1>2, <1>3, <1>4

\* A list that holds e once has one index of it.
LEMMA OneIndex ==
    ASSUME NEW l \in Seq(Elems), Once(l), NEW e \in Elems
    PROVE  Cardinality(ListOf(e, l)) = IF On(e, l) THEN 1 ELSE 0
<1>1. CASE On(e, l)
    <2>1. PICK i \in 1 .. Len(l) : l[i] = e
        BY <1>1 DEF On
    <2>2. ListOf(e, l) = {i}
        BY <2>1 DEF ListOf, Once
    <2> QED
        BY <1>1, <2>2, FS_Singleton
<1>2. CASE ~On(e, l)
    <2>1. ListOf(e, l) = {}
        BY <1>2 DEF ListOf, On
    <2> QED
        BY <1>2, <2>1, FS_EmptySet
<1> QED
    BY <1>1, <1>2

\* tvideo_pool_init puts every buffer on the list once.
LEMMA AllBuffers ==
    Buffers \in Seq(Elems) /\ Once(Buffers) /\ \A e \in Elems : On(e, Buffers)
<1> DEFINE C == Cardinality(Elems)
           Onto(s) == \A e \in Elems : \E i \in DOMAIN s : s[i] = e
<1>1. C \in Nat /\ ExistsBijection(1 .. C, Elems)
    BY FS_CardinalityType, VideoAssumption
<1>2. \E s \in [1 .. C -> Elems] : Onto(s)
    <2>1. PICK s : s \in Bijection(1 .. C, Elems)
        BY <1>1 DEF ExistsBijection
    <2>2. s \in [1 .. C -> Elems] /\ Onto(s)
        BY <2>1 DEF Bijection, Surjection, Injection
    <2> QED
        BY <2>2
<1>3. Buffers \in [1 .. C -> Elems] /\ Onto(Buffers)
    BY <1>2 DEF Buffers
<1> HIDE DEF C
<1>4. Buffers \in Seq(Elems) /\ Len(Buffers) = C /\ DOMAIN Buffers = 1 .. C
    BY <1>1, <1>3
<1>5. Buffers \in Surjection(1 .. C, Elems)
    BY <1>3, <1>4 DEF Surjection
<1>6. IsFiniteSet(1 .. C) /\ Cardinality(1 .. C) = C
    BY <1>1, FS_Interval
<1>7. Buffers \in Injection(1 .. C, Elems)
    BY <1>5, <1>6, FS_SurjSameCardinalityImpliesInj DEF C
<1> QED
    BY <1>3, <1>4, <1>7 DEF Injection, IsInjective, Once, On

\* Posting: what is queued stays queued, and an open queue is not empty
\* afterwards, whether or not it took the message.
LEMMA PostList ==
    ASSUME NEW q \in Seq(Msgs), NEW m \in Msgs
    PROVE  LET r == tvideo_intfer_send_msg(q, m)
           IN  /\ r \in Seq(Msgs)
               /\ queOpen => r # <<>>
               /\ ~queOpen => r = q
               /\ On("EXIT", r) => On("EXIT", q) \/ m = "EXIT"
<1>1. /\ Append(q, m) \in Seq(Msgs) /\ Append(q, m) # <<>>
      /\ On("EXIT", Append(q, m)) => On("EXIT", q) \/ m = "EXIT"
    BY AppendList
<1>2. Len(q) < QLen \/ q # <<>>
    BY VideoAssumption
<1> QED
    BY <1>1, <1>2 DEF tvideo_intfer_send_msg, Push

-----------------------------------------------------------------------------
(***************************************************************************)
(* Types.                                                                  *)
(***************************************************************************)

FlagsOK ==
    /\ hdl \in BOOLEAN /\ queOpen \in BOOLEAN /\ camera \in BOOLEAN
    /\ pool \in BOOLEAN /\ stalled \in BOOLEAN /\ exitQueued \in BOOLEAN

DataOK ==
    /\ app \in App /\ thr \in Thr /\ status \in Status /\ que \in Seq(Msgs)
    /\ free \in Seq(Elems) /\ ready \in Seq(Elems) /\ elem \in Elems \cup {None}
    /\ data \in [Elems -> Packets \cup {None}]
    /\ frame_id \in Nat
    /\ got \in Packets \cup {None} /\ newest \in Packets \cup {None}
    /\ arrived \in Nat /\ sessions \in Nat

LEMMA TypeParts == TypeOK <=> FlagsOK /\ DataOK
BY Zenon DEF TypeOK, FlagsOK, DataOK

LEMMA TypeInit == Init => TypeOK
<1> SUFFICES ASSUME Init PROVE TypeOK
    OBVIOUS
<1>1. FlagsOK
    BY Zenon DEF Init, FlagsOK
<1>2. DataOK
    BY EmptyList DEF Init, DataOK, App, Thr, Status
<1> QED
    BY <1>1, <1>2, TypeParts

\* What an interrupt does to the lists keeps their types.
LEMMA RxType ==
    ASSUME DataOK, NEW eof \in BOOLEAN, tvideo_rx_handler(eof)
    PROVE  /\ free' \in Seq(Elems) /\ ready' \in Seq(Elems)
           /\ data' \in [Elems -> Packets \cup {None}]
           /\ newest' \in Packets \cup {None}
           /\ arrived' \in Nat
<1> DEFINE p == [n |-> arrived + 1, frame |-> frame_id, eof |-> eof]
<1>1. p \in Packets
    BY DEF DataOK, Packets
<1> HIDE DEF p
<1>2. CASE free # <<>>
    <2>1. /\ data' = [data EXCEPT ![Head(free)] = p] /\ newest' = p
          /\ free' = Tail(free) /\ ready' = Append(ready, Head(free))
        BY <1>2 DEF tvideo_rx_handler, p
    <2>2. Head(free) \in Elems /\ Tail(free) \in Seq(Elems)
        BY <1>2, TailList DEF DataOK
    <2>3. Append(ready, Head(free)) \in Seq(Elems)
        BY <2>2, AppendList DEF DataOK
    <2> QED
        BY <1>1, <2>1, <2>2, <2>3 DEF DataOK, tvideo_rx_handler
<1>3. CASE free = <<>>
    BY <1>3 DEF DataOK, tvideo_rx_handler
<1> QED
    BY <1>2, <1>3

LEMMA DataStep == DataOK /\ OnePlace /\ [Next]_vars => DataOK'
<1> SUFFICES ASSUME DataOK, OnePlace, [Next]_vars PROVE DataOK'
    OBVIOUS
<1> USE DEF DataOK, App, Thr, Opening, Running, Ending, Status, lists, history
<1>1. CASE video_transfer_init
    <2>1. que' \in Seq(Msgs)
        BY <1>1, EmptyList DEF video_transfer_init
    <2> QED
        BY <1>1, <2>1, VideoAssumption DEF video_transfer_init
<1>2. CASE InitSeesOpened
    BY <1>2 DEF InitSeesOpened
<1>3. CASE InitTimesOut
    BY <1>3, EmptyList DEF InitTimesOut
<1>4. CASE video_transfer_deinit
    <2>1. tvideo_intfer_send_msg(que, "EXIT") \in Seq(Msgs)
        BY PostList DEF Msgs
    <2> QED
        BY <1>4, <2>1 DEF video_transfer_deinit
<1>5. CASE DeinitReturn
    BY <1>5 DEF DeinitReturn
<1>6. CASE ThreadStart
    BY <1>6, AllBuffers, EmptyList DEF ThreadStart, tvideo_pool_init
<1>7. CASE ThreadOpens
    BY <1>7 DEF ThreadOpens
<1>8. CASE ThreadRuns
    BY <1>8 DEF ThreadRuns
<1>9. CASE ThreadPops
    <2>1. que # <<>> => Tail(que) \in Seq(Msgs)
        BY TailList
    <2> QED
        BY <1>9, <2>1 DEF ThreadPops
<1>10. CASE PollPicks
    <2>1. ready # <<>> => Head(ready) \in Elems
        BY TailList
    <2> QED
        BY <1>10, <2>1 DEF PollPicks
<1>11. CASE PollSends
    <2>1. elem \in Elems
        BY <1>11, TailList DEF PollSends, OnePlace
    <2> QED
        BY <1>11, <2>1 DEF PollSends
<1>12. CASE PollPops
    <2>1. Tail(ready) \in Seq(Elems)
        BY <1>12, TailList DEF PollPops, OnePlace
    <2> QED
        BY <1>12, <2>1 DEF PollPops
<1>13. CASE PollRecycles
    <2>1. Append(free, elem) \in Seq(Elems)
        BY <1>13, AppendList DEF PollRecycles, OnePlace
    <2> QED
        BY <1>13, <2>1 DEF PollRecycles
<1>14. CASE ExitFrees
    BY <1>14 DEF ExitFrees
<1>15. CASE ExitClosesCamera
    BY <1>15 DEF ExitClosesCamera
<1>16. CASE ExitDeletesQueue
    BY <1>16, EmptyList DEF ExitDeletesQueue
<1>17. CASE ExitClearsHandle
    BY <1>17 DEF ExitClearsHandle
<1>18. CASE NodeFull
    <2>2. que' \in Seq(Msgs)
        BY <1>18, PostList DEF NodeFull, Msgs
    <2>3. tvideo_rx_handler(FALSE)
        BY <1>18 DEF NodeFull
    <2> QED
        BY <1>18, <2>2, <2>3, RxType DEF NodeFull
<1>19. CASE FrameEnd
    <2>1. tvideo_intfer_send_msg(que, "POLL") \in Seq(Msgs)
        BY PostList DEF Msgs
    <2>2. que' \in Seq(Msgs)
        BY <1>19, <2>1, PostList DEF FrameEnd, Msgs
    <2>3. tvideo_rx_handler(TRUE)
        BY <1>19 DEF FrameEnd
    <2>4. /\ free' \in Seq(Elems) /\ ready' \in Seq(Elems)
          /\ data' \in [Elems -> Packets \cup {None}]
          /\ newest' \in Packets \cup {None}
          /\ arrived' \in Nat
        BY <2>3, RxType
    <2> QED
        BY <1>19, <2>2, <2>4 DEF FrameEnd
<1>20. CASE FrameEndExact
    <2>2. que' \in Seq(Msgs)
        BY <1>20, PostList DEF FrameEndExact, Msgs
    <2> QED
        BY <1>20, <2>2 DEF FrameEndExact
<1>21. CASE UNCHANGED vars
    BY <1>21 DEF vars
<1> QED
    BY <1>1, <1>2, <1>3, <1>4, <1>5, <1>6, <1>7, <1>8, <1>9, <1>10, <1>11, <1>12, <1>13, <1>14, <1>15, <1>16, <1>17, <1>18, <1>19, <1>20, <1>21
    DEF Next, AppStep, ThreadStep, Interrupt

LEMMA FlagsStep == FlagsOK /\ [Next]_vars => FlagsOK'
<1> SUFFICES ASSUME FlagsOK, [Next]_vars PROVE FlagsOK'
    OBVIOUS
<1> USE DEF FlagsOK, lists, history
<1>1. CASE video_transfer_init
    BY <1>1, Zenon DEF video_transfer_init
<1>2. CASE InitSeesOpened
    BY <1>2, Zenon DEF InitSeesOpened
<1>3. CASE InitTimesOut
    BY <1>3, Zenon DEF InitTimesOut
<1>4. CASE video_transfer_deinit
    BY <1>4, Zenon DEF video_transfer_deinit
<1>5. CASE DeinitReturn
    BY <1>5, Zenon DEF DeinitReturn
<1>6. CASE ThreadStart
    BY <1>6, Zenon DEF ThreadStart, tvideo_pool_init
<1>7. CASE ThreadOpens
    BY <1>7, Zenon DEF ThreadOpens
<1>8. CASE ThreadRuns
    BY <1>8, Zenon DEF ThreadRuns
<1>9. CASE ThreadPops
    BY <1>9, Zenon DEF ThreadPops
<1>10. CASE PollPicks
    BY <1>10, Zenon DEF PollPicks
<1>11. CASE PollSends
    BY <1>11, Zenon DEF PollSends
<1>12. CASE PollPops
    BY <1>12, Zenon DEF PollPops
<1>13. CASE PollRecycles
    BY <1>13, Zenon DEF PollRecycles
<1>14. CASE ExitFrees
    BY <1>14, Zenon DEF ExitFrees
<1>15. CASE ExitClosesCamera
    BY <1>15, Zenon DEF ExitClosesCamera
<1>16. CASE ExitDeletesQueue
    BY <1>16, Zenon DEF ExitDeletesQueue
<1>17. CASE ExitClearsHandle
    BY <1>17, Zenon DEF ExitClearsHandle
<1>18. CASE NodeFull
    BY <1>18, Zenon DEF NodeFull
<1>19. CASE FrameEnd
    BY <1>19, Zenon DEF FrameEnd
<1>20. CASE FrameEndExact
    BY <1>20, Zenon DEF FrameEndExact
<1>21. CASE UNCHANGED vars
    BY <1>21, Zenon DEF vars
<1> QED
    BY <1>1, <1>2, <1>3, <1>4, <1>5, <1>6, <1>7, <1>8, <1>9, <1>10, <1>11, <1>12, <1>13, <1>14, <1>15, <1>16, <1>17, <1>18, <1>19, <1>20, <1>21
    DEF Next, AppStep, ThreadStep, Interrupt

LEMMA TypeStep == TypeOK /\ OnePlace /\ [Next]_vars => TypeOK'
<1> SUFFICES ASSUME TypeOK, OnePlace, [Next]_vars PROVE TypeOK'
    OBVIOUS
<1>1. FlagsOK /\ DataOK
    BY TypeParts
<1>2. FlagsOK'
    BY <1>1, FlagsStep
<1>3. DataOK'
    BY <1>1, DataStep
<1> QED
    BY <1>2, <1>3, Zenon DEF TypeOK, FlagsOK, DataOK

-----------------------------------------------------------------------------
(***************************************************************************)
(* Who is there with whom.                                                 *)
(***************************************************************************)

LEMMA LinkedStep == IInv /\ [Next]_vars => Linked'
<1> SUFFICES ASSUME TypeOK, Linked, Honest, [Next]_vars PROVE Linked'
    BY DEF IInv
<1> USE DEF TypeOK, Linked, lists, history
<1>1. CASE video_transfer_init
    BY <1>1 DEF video_transfer_init
<1>2. CASE InitSeesOpened
    BY <1>2 DEF InitSeesOpened
<1>3. CASE InitTimesOut
    BY <1>3 DEF InitTimesOut
<1>4. CASE video_transfer_deinit
    <2>1. ~queOpen => que' = que
        BY <1>4 DEF video_transfer_deinit, tvideo_intfer_send_msg
    <2> QED
        BY <1>4, <2>1 DEF video_transfer_deinit
<1>5. CASE DeinitReturn
    BY <1>5 DEF DeinitReturn
<1>6. CASE ThreadStart
    BY <1>6 DEF ThreadStart
<1>7. CASE ThreadOpens
    BY <1>7 DEF ThreadOpens
<1>8. CASE ThreadRuns
    BY <1>8 DEF ThreadRuns
<1>9. CASE ThreadPops
    BY <1>9 DEF ThreadPops
<1>10. CASE PollPicks
    BY <1>10 DEF PollPicks
<1>11. CASE PollSends
    BY <1>11 DEF PollSends
<1>12. CASE PollPops
    BY <1>12 DEF PollPops
<1>13. CASE PollRecycles
    BY <1>13 DEF PollRecycles
<1>14. CASE ExitFrees
    BY <1>14 DEF ExitFrees
<1>15. CASE ExitClosesCamera
    BY <1>15 DEF ExitClosesCamera
<1>16. CASE ExitDeletesQueue
    BY <1>16 DEF ExitDeletesQueue
<1>17. CASE ExitClearsHandle
    BY <1>17 DEF ExitClearsHandle
<1>18. CASE NodeFull
    <2>1. ~queOpen => que' = que
        BY <1>18 DEF NodeFull, tvideo_intfer_send_msg
    <2> QED
        BY <1>18, <2>1 DEF NodeFull
<1>19. CASE FrameEnd
    <2>1. ~queOpen => que' = que
        BY <1>19 DEF FrameEnd, tvideo_intfer_send_msg
    <2> QED
        BY <1>19, <2>1 DEF FrameEnd
<1>20. CASE FrameEndExact
    <2>1. ~queOpen => que' = que
        BY <1>20 DEF FrameEndExact, tvideo_intfer_send_msg
    <2> QED
        BY <1>20, <2>1 DEF FrameEndExact
<1>21. CASE UNCHANGED vars
    BY <1>21 DEF vars
<1> QED
    BY <1>1, <1>2, <1>3, <1>4, <1>5, <1>6, <1>7, <1>8, <1>9, <1>10, <1>11, <1>12, <1>13, <1>14, <1>15, <1>16, <1>17, <1>18, <1>19, <1>20, <1>21
    DEF Next, AppStep, ThreadStep, Interrupt

LEMMA CameraStep == IInv /\ [Next]_vars => CameraOwned'
<1> SUFFICES ASSUME TypeOK, CameraOwned, [Next]_vars PROVE CameraOwned'
    BY DEF IInv
<1> USE DEF TypeOK, CameraOwned, Running, lists, history
<1>1. CASE video_transfer_init
    BY <1>1 DEF video_transfer_init
<1>2. CASE InitSeesOpened
    BY <1>2 DEF InitSeesOpened
<1>3. CASE InitTimesOut
    BY <1>3 DEF InitTimesOut
<1>4. CASE video_transfer_deinit
    BY <1>4 DEF video_transfer_deinit
<1>5. CASE DeinitReturn
    BY <1>5 DEF DeinitReturn
<1>6. CASE ThreadStart
    BY <1>6 DEF ThreadStart, tvideo_pool_init
<1>7. CASE ThreadOpens
    BY <1>7 DEF ThreadOpens
<1>8. CASE ThreadRuns
    BY <1>8 DEF ThreadRuns
<1>9. CASE ThreadPops
    BY <1>9 DEF ThreadPops
<1>10. CASE PollPicks
    BY <1>10 DEF PollPicks
<1>11. CASE PollSends
    BY <1>11 DEF PollSends
<1>12. CASE PollPops
    BY <1>12 DEF PollPops
<1>13. CASE PollRecycles
    BY <1>13 DEF PollRecycles
<1>14. CASE ExitFrees
    BY <1>14 DEF ExitFrees
<1>15. CASE ExitClosesCamera
    BY <1>15 DEF ExitClosesCamera
<1>16. CASE ExitDeletesQueue
    BY <1>16 DEF ExitDeletesQueue
<1>17. CASE ExitClearsHandle
    BY <1>17 DEF ExitClearsHandle
<1>18. CASE NodeFull
    BY <1>18 DEF NodeFull
<1>19. CASE FrameEnd
    BY <1>19 DEF FrameEnd
<1>20. CASE FrameEndExact
    BY <1>20 DEF FrameEndExact
<1>21. CASE UNCHANGED vars
    BY <1>21 DEF vars
<1> QED
    BY <1>1, <1>2, <1>3, <1>4, <1>5, <1>6, <1>7, <1>8, <1>9, <1>10, <1>11, <1>12, <1>13, <1>14, <1>15, <1>16, <1>17, <1>18, <1>19, <1>20, <1>21
    DEF Next, AppStep, ThreadStep, Interrupt

LEMMA HonestStep == IInv /\ [Next]_vars => Honest'
<1> SUFFICES ASSUME TypeOK, Linked, CameraOwned, Honest, [Next]_vars PROVE Honest'
    BY DEF IInv
<1> USE DEF TypeOK, Honest, SuccessMeansRunning, Running, Linked, CameraOwned, lists, history
<1>1. CASE video_transfer_init
    <2>1. ~On("EXIT", <<>>)
        BY EmptyList
    <2> QED
        BY <1>1, <2>1 DEF video_transfer_init
<1>2. CASE InitSeesOpened
    BY <1>2 DEF InitSeesOpened
<1>3. CASE InitTimesOut
    <2>1. ~On("EXIT", <<>>)
        BY EmptyList
    <2> QED
        BY <1>3, <2>1 DEF InitTimesOut
<1>4. CASE video_transfer_deinit
    BY <1>4 DEF video_transfer_deinit
<1>5. CASE DeinitReturn
    <2>1. ~On("EXIT", que)
        BY <1>5, EmptyList DEF DeinitReturn
    <2> QED
        BY <1>5, <2>1 DEF DeinitReturn
<1>6. CASE ThreadStart
    BY <1>6 DEF ThreadStart, tvideo_pool_init
<1>7. CASE ThreadOpens
    BY <1>7 DEF ThreadOpens
<1>8. CASE ThreadRuns
    BY <1>8 DEF ThreadRuns
<1>9. CASE ThreadPops
    <2>1. que # <<>> => /\ Head(que) \in Msgs
                        /\ Head(que) = "EXIT" => On("EXIT", que)
                        /\ On("EXIT", Tail(que)) => On("EXIT", que)
        BY TailList
    <2>2. CASE queOpen
        <3>0. /\ que # <<>> /\ que' = Tail(que)
              /\ thr' = IF Head(que) = "POLL" THEN "poll" ELSE "exit"
            BY <1>9, <2>2 DEF ThreadPops
        <3>1. app = "open" \/ app = "opening" => thr' = "poll"
            BY <2>1, <3>0 DEF Msgs
        <3>2. On("EXIT", que') => app = "closing"
            BY <2>1, <3>0
        <3>3. thr = "wait" /\ thr' \in {"poll", "exit"}
            BY <1>9, <2>2 DEF ThreadPops
        <3>4. UNCHANGED <<app, hdl, queOpen, camera, status>>
            BY <1>9 DEF ThreadPops
        <3> QED
            BY <3>1, <3>2, <3>3, <3>4, SMTT(30)
    <2>3. CASE ~queOpen
        BY <1>9, <2>3 DEF ThreadPops
    <2> QED
        BY <2>2, <2>3
<1>10. CASE PollPicks
    BY <1>10 DEF PollPicks
<1>11. CASE PollSends
    BY <1>11 DEF PollSends
<1>12. CASE PollPops
    BY <1>12 DEF PollPops
<1>13. CASE PollRecycles
    BY <1>13 DEF PollRecycles
<1>14. CASE ExitFrees
    BY <1>14 DEF ExitFrees
<1>15. CASE ExitClosesCamera
    BY <1>15 DEF ExitClosesCamera
<1>16. CASE ExitDeletesQueue
    <2>1. ~On("EXIT", <<>>)
        BY EmptyList
    <2> QED
        BY <1>16, <2>1 DEF ExitDeletesQueue
<1>17. CASE ExitClearsHandle
    BY <1>17 DEF ExitClearsHandle
<1>18. CASE NodeFull
    <2>2. On("EXIT", que') => On("EXIT", que)
        BY <1>18, PostList DEF NodeFull, Msgs
    <2> QED
        BY <1>18, <2>2 DEF NodeFull
<1>19. CASE FrameEnd
    <2>1. tvideo_intfer_send_msg(que, "POLL") \in Seq(Msgs)
        BY PostList DEF Msgs
    <2>2. On("EXIT", que') => On("EXIT", que)
        BY <1>19, <2>1, PostList DEF FrameEnd, Msgs
    <2> QED
        BY <1>19, <2>2 DEF FrameEnd
<1>20. CASE FrameEndExact
    <2>2. On("EXIT", que') => On("EXIT", que)
        BY <1>20, PostList DEF FrameEndExact, Msgs
    <2> QED
        BY <1>20, <2>2 DEF FrameEndExact
<1>21. CASE UNCHANGED vars
    BY <1>21 DEF vars
<1> QED
    BY <1>1, <1>2, <1>3, <1>4, <1>5, <1>6, <1>7, <1>8, <1>9, <1>10, <1>11, <1>12, <1>13, <1>14, <1>15, <1>16, <1>17, <1>18, <1>19, <1>20, <1>21
    DEF Next, AppStep, ThreadStep, Interrupt

LEMMA PostedStep == IInv /\ [Next]_vars => Posted'
<1> SUFFICES ASSUME TypeOK, CameraOwned, Posted, [Next]_vars PROVE Posted'
    BY DEF IInv
<1> USE DEF TypeOK, Posted, CameraOwned, Running, lists, history
<1>1. CASE video_transfer_init
    BY <1>1 DEF video_transfer_init
<1>2. CASE InitSeesOpened
    BY <1>2 DEF InitSeesOpened
<1>3. CASE InitTimesOut
    BY <1>3 DEF InitTimesOut
<1>4. CASE video_transfer_deinit
    <2>1. queOpen => que' # <<>>
        BY <1>4, PostList DEF video_transfer_deinit, Msgs
    <2> QED
        BY <1>4, <2>1 DEF video_transfer_deinit
<1>5. CASE DeinitReturn
    BY <1>5 DEF DeinitReturn
<1>6. CASE ThreadStart
    BY <1>6 DEF ThreadStart, tvideo_pool_init
<1>7. CASE ThreadOpens
    BY <1>7 DEF ThreadOpens
<1>8. CASE ThreadRuns
    BY <1>8 DEF ThreadRuns
<1>9. CASE ThreadPops
    BY <1>9 DEF ThreadPops
<1>10. CASE PollPicks
    BY <1>10 DEF PollPicks
<1>11. CASE PollSends
    BY <1>11 DEF PollSends
<1>12. CASE PollPops
    BY <1>12 DEF PollPops
<1>13. CASE PollRecycles
    BY <1>13 DEF PollRecycles
<1>14. CASE ExitFrees
    BY <1>14 DEF ExitFrees
<1>15. CASE ExitClosesCamera
    BY <1>15 DEF ExitClosesCamera
<1>16. CASE ExitDeletesQueue
    BY <1>16 DEF ExitDeletesQueue
<1>17. CASE ExitClearsHandle
    BY <1>17 DEF ExitClearsHandle
<1>18. CASE NodeFull
    <2>2. queOpen => que' # <<>>
        BY <1>18, PostList DEF NodeFull, Msgs
    <2> QED
        BY <1>18, <2>2 DEF NodeFull
<1>19. CASE FrameEnd
    <2>1. tvideo_intfer_send_msg(que, "POLL") \in Seq(Msgs)
        BY PostList DEF Msgs
    <2>2. queOpen => que' # <<>>
        BY <1>19, <2>1, PostList DEF FrameEnd, Msgs
    <2> QED
        BY <1>19, <2>2 DEF FrameEnd
<1>20. CASE FrameEndExact
    <2>2. queOpen => que' # <<>>
        BY <1>20, PostList DEF FrameEndExact, Msgs
    <2> QED
        BY <1>20, <2>2 DEF FrameEndExact
<1>21. CASE UNCHANGED vars
    BY <1>21 DEF vars
<1> QED
    BY <1>1, <1>2, <1>3, <1>4, <1>5, <1>6, <1>7, <1>8, <1>9, <1>10, <1>11, <1>12, <1>13, <1>14, <1>15, <1>16, <1>17, <1>18, <1>19, <1>20, <1>21
    DEF Next, AppStep, ThreadStep, Interrupt

-----------------------------------------------------------------------------
(***************************************************************************)
(* Where the buffers are.                                                  *)
(***************************************************************************)

\* A step that moves no buffer, and no thread into or out of the states that
\* hold one.
LEMMA PlacesSame ==
    ASSUME OnePlace, UNCHANGED <<free, ready, elem>>,
           InSession' => InSession,
           thr' \in {"popped", "sending", "sent"} => thr' = thr \/ (thr = "sending" /\ thr' = "sent"),
           thr = "popped" => thr' = "popped"
    PROVE  OnePlace'
BY DEF OnePlace

\* tvideo_rx_handler moves a free buffer to the end of the ready list.
LEMMA RxPlaces ==
    ASSUME TypeOK, CameraOwned, OnePlace, camera, UNCHANGED <<thr, elem>>,
           NEW eof, tvideo_rx_handler(eof)
    PROVE  OnePlace'
<1>1. InSession /\ InSession'
    BY DEF CameraOwned, InSession, Running
<1>2. CASE free = <<>>
    BY <1>1, <1>2, PlacesSame DEF tvideo_rx_handler
<1>3. CASE free # <<>>
    <2> DEFINE h == Head(free)
    <2>1. free' = Tail(free) /\ ready' = Append(ready, h)
        BY <1>3 DEF tvideo_rx_handler
    <2>2. /\ h \in Elems /\ ~On(h, free') /\ Once(free')
          /\ \A e : On(e, free) <=> e = h \/ On(e, free')
        BY <1>1, <1>3, <2>1, TailList DEF TypeOK, OnePlace
    <2>3. ~On(h, ready) /\ ready \in Seq(Elems)
        BY <1>1, <2>2 DEF OnePlace, TypeOK
    <2>4. /\ Once(ready') /\ ready' # <<>>
          /\ \A e : On(e, ready') <=> On(e, ready) \/ e = h
        BY <1>1, <2>1, <2>2, <2>3, AppendList DEF OnePlace
    <2>5. ready # <<>> => Head(ready') = Head(ready)
        BY <2>1, <2>2, <2>3
    <2> HIDE DEF h
    <2> QED
        BY <1>1, <2>2, <2>3, <2>4, <2>5 DEF OnePlace
<1> QED
    BY <1>2, <1>3

LEMMA PlaceStep == IInv /\ [Next]_vars => OnePlace'
<1> SUFFICES ASSUME TypeOK, CameraOwned, OnePlace, [Next]_vars PROVE OnePlace'
    BY DEF IInv
<1>1. CASE video_transfer_init
    BY <1>1, PlacesSame DEF video_transfer_init, InSession, lists
<1>2. CASE InitSeesOpened
    BY <1>2, PlacesSame DEF InitSeesOpened, InSession, lists
<1>3. CASE InitTimesOut
    BY <1>3, PlacesSame DEF InitTimesOut, InSession, lists
<1>4. CASE video_transfer_deinit
    BY <1>4, PlacesSame DEF video_transfer_deinit, InSession, lists
<1>5. CASE DeinitReturn
    BY <1>5, PlacesSame DEF DeinitReturn, InSession, lists
<1>6. CASE ThreadStart
    <2>1. free' = Buffers /\ ready' = <<>> /\ thr' = "init"
        BY <1>6 DEF ThreadStart, tvideo_pool_init
    <2> QED
        BY <2>1, AllBuffers, EmptyList DEF OnePlace
<1>7. CASE ThreadOpens
    BY <1>7, PlacesSame DEF ThreadOpens, InSession, lists
<1>8. CASE ThreadRuns
    BY <1>8, PlacesSame DEF ThreadRuns, InSession, lists
<1>9. CASE ThreadPops
    BY <1>9, PlacesSame DEF ThreadPops, InSession, lists
<1>10. CASE PollPicks
    BY <1>10 DEF PollPicks, OnePlace, InSession
<1>11. CASE PollSends
    BY <1>11 DEF PollSends, OnePlace, InSession
<1>12. CASE PollPops
    <2>1. /\ thr = "sent" /\ thr' = "popped" /\ ready' = Tail(ready)
          /\ free' = free /\ elem' = elem
        BY <1>12 DEF PollPops
    <2>2. InSession /\ ready # <<>> /\ elem = Head(ready)
        BY <2>1 DEF OnePlace, InSession
    <2>3. /\ elem \in Elems /\ Once(ready') /\ ~On(elem, ready')
          /\ \A e : On(e, ready) <=> e = elem \/ On(e, ready')
        BY <2>1, <2>2, TailList DEF OnePlace, TypeOK
    <2> QED
        BY <2>1, <2>2, <2>3 DEF OnePlace
<1>13. CASE PollRecycles
    <2>1. /\ thr = "popped" /\ thr' = "poll" /\ free' = Append(free, elem)
          /\ ready' = ready
        BY <1>13 DEF PollRecycles
    <2>2. InSession /\ elem \in Elems /\ ~On(elem, free) /\ ~On(elem, ready)
        BY <2>1 DEF OnePlace, InSession
    <2>3. Once(free') /\ \A e : On(e, free') <=> On(e, free) \/ e = elem
        BY <2>1, <2>2, AppendList DEF OnePlace, TypeOK
    <2> QED
        BY <2>1, <2>2, <2>3 DEF OnePlace
<1>14. CASE ExitFrees
    BY <1>14, PlacesSame DEF ExitFrees, InSession, lists
<1>15. CASE ExitClosesCamera
    BY <1>15, PlacesSame DEF ExitClosesCamera, InSession, lists
<1>16. CASE ExitDeletesQueue
    BY <1>16, PlacesSame DEF ExitDeletesQueue, InSession, lists
<1>17. CASE ExitClearsHandle
    BY <1>17, PlacesSame DEF ExitClearsHandle, InSession, lists
<1>18. CASE NodeFull
    <2>1. camera /\ UNCHANGED <<thr, elem>> /\ tvideo_rx_handler(FALSE)
        BY <1>18 DEF NodeFull
    <2> QED
        BY <2>1, RxPlaces
<1>19. CASE FrameEnd
    <2>1. camera /\ UNCHANGED <<thr, elem>> /\ tvideo_rx_handler(TRUE)
        BY <1>19 DEF FrameEnd
    <2> QED
        BY <2>1, RxPlaces
<1>20. CASE FrameEndExact
    BY <1>20, PlacesSame DEF FrameEndExact, InSession, lists
<1>21. CASE UNCHANGED vars
    BY <1>21, PlacesSame DEF vars, InSession
<1> QED
    BY <1>1, <1>2, <1>3, <1>4, <1>5, <1>6, <1>7, <1>8, <1>9, <1>10, <1>11, <1>12, <1>13, <1>14, <1>15, <1>16, <1>17, <1>18, <1>19, <1>20, <1>21
    DEF Next, AppStep, ThreadStep, Interrupt

LEMMA NewestStep == IInv /\ [Next]_vars => NewestIsPast'
<1> SUFFICES ASSUME DataOK, CameraOwned, NewestIsPast, [Next]_vars PROVE NewestIsPast'
    BY TypeParts DEF IInv
<1> USE DEF DataOK, NewestIsPast, Serving, Running, lists, history
<1>1. CASE video_transfer_init
    BY <1>1 DEF video_transfer_init
<1>2. CASE InitSeesOpened
    BY <1>2 DEF InitSeesOpened
<1>3. CASE InitTimesOut
    BY <1>3 DEF InitTimesOut
<1>4. CASE video_transfer_deinit
    BY <1>4 DEF video_transfer_deinit
<1>5. CASE DeinitReturn
    BY <1>5 DEF DeinitReturn
<1>6. CASE ThreadStart
    BY <1>6 DEF ThreadStart, tvideo_pool_init
<1>7. CASE ThreadOpens
    BY <1>7 DEF ThreadOpens
<1>8. CASE ThreadRuns
    BY <1>8 DEF ThreadRuns
<1>9. CASE ThreadPops
    BY <1>9 DEF ThreadPops
<1>10. CASE PollPicks
    BY <1>10 DEF PollPicks
<1>11. CASE PollSends
    BY <1>11 DEF PollSends
<1>12. CASE PollPops
    BY <1>12 DEF PollPops
<1>13. CASE PollRecycles
    BY <1>13 DEF PollRecycles
<1>14. CASE ExitFrees
    BY <1>14 DEF ExitFrees
<1>15. CASE ExitClosesCamera
    BY <1>15 DEF ExitClosesCamera
<1>16. CASE ExitDeletesQueue
    BY <1>16 DEF ExitDeletesQueue
<1>17. CASE ExitClearsHandle
    BY <1>17 DEF ExitClearsHandle
<1>18. CASE NodeFull
    <2>1. arrived' = arrived + 1 /\ thr' = thr /\ thr # "init"
        BY <1>18 DEF NodeFull, tvideo_rx_handler, CameraOwned, Running
    <2>2. CASE newest' = [n |-> arrived + 1, frame |-> frame_id, eof |-> FALSE]
        BY <1>18, <2>1, <2>2 DEF NodeFull
    <2>3. CASE newest' = newest
        BY <1>18, <2>1, <2>3 DEF NodeFull, Packets
    <2> QED
        BY <1>18, <2>2, <2>3 DEF NodeFull, tvideo_rx_handler
<1>19. CASE FrameEnd
    <2>1. arrived' = arrived + 1 /\ thr' = thr /\ thr # "init"
        BY <1>19 DEF FrameEnd, tvideo_rx_handler, CameraOwned, Running
    <2>2. CASE newest' = [n |-> arrived + 1, frame |-> frame_id, eof |-> TRUE]
        BY <1>19, <2>1, <2>2 DEF FrameEnd
    <2>3. CASE newest' = newest
        BY <1>19, <2>1, <2>3 DEF FrameEnd, Packets
    <2> QED
        BY <1>19, <2>2, <2>3 DEF FrameEnd, tvideo_rx_handler
<1>20. CASE FrameEndExact
    BY <1>20 DEF FrameEndExact, CameraOwned, Running, Packets
<1>21. CASE UNCHANGED vars
    BY <1>21 DEF vars
<1> QED
    BY <1>1, <1>2, <1>3, <1>4, <1>5, <1>6, <1>7, <1>8, <1>9, <1>10, <1>11, <1>12, <1>13, <1>14, <1>15, <1>16, <1>17, <1>18, <1>19, <1>20, <1>21
    DEF Next, AppStep, ThreadStep, Interrupt

-----------------------------------------------------------------------------
(***************************************************************************)
(* The results.                                                            *)
(***************************************************************************)

LEMMA VideoInvariant == Spec => []IInv
<1>1. Init => IInv
    BY TypeInit, EmptyList
    DEF Init, IInv, Linked, CameraOwned, Honest, SuccessMeansRunning, Posted,
        OnePlace, InSession, NewestIsPast, Serving, Running
<1>2. IInv /\ [Next]_vars => IInv'
    <2>1. IInv /\ [Next]_vars => TypeOK'
        BY TypeStep DEF IInv
    <2> QED
        BY <2>1, LinkedStep, CameraStep, HonestStep, PostedStep, PlaceStep, NewestStep
        DEF IInv
<1> QED
    BY <1>1, <1>2, PTL DEF Spec

\* Every buffer of the pool is in one place from tvideo_pool_init to the end
\* of the session, and the buffer send_func reads stays the oldest ready one.
THEOREM BuffersConserved == Spec => []PoolConserved
<1>1. IInv => PoolConserved
    <2> SUFFICES ASSUME IInv PROVE PoolConserved
        OBVIOUS
    <2>1. TypeOK /\ OnePlace
        BY DEF IInv
    <2>2. ASSUME InSession, NEW e \in Elems
          PROVE  Cardinality(ListOf(e, free)) + Cardinality(ListOf(e, ready))
                     + (IF thr = "popped" /\ elem = e THEN 1 ELSE 0) = 1
        <3>1. /\ Cardinality(ListOf(e, free)) = IF On(e, free) THEN 1 ELSE 0
              /\ Cardinality(ListOf(e, ready)) = IF On(e, ready) THEN 1 ELSE 0
            BY <2>1, <2>2, OneIndex DEF OnePlace, TypeOK
        <3>2. /\ ~(On(e, free) /\ On(e, ready))
              /\ On(e, free) \/ On(e, ready) \/ (thr = "popped" /\ elem = e)
              /\ thr = "popped" /\ elem = e => ~On(e, free) /\ ~On(e, ready)
            BY <2>1, <2>2 DEF OnePlace
        <3> QED
            BY <3>1, <3>2
    <2> QED
        BY <2>1, <2>2 DEF PoolConserved, OnePlace
<1> QED
    BY <1>1, VideoInvariant, PTL

\* The thread waits on an empty queue only with nothing ready or after a
\* send that failed.
THEOREM PollsAreNotLost == Spec => []NoLostPoll
<1>1. IInv => NoLostPoll
    BY DEF IInv, Posted, NoLostPoll
<1> QED
    BY <1>1, VideoInvariant, PTL

\* The handlers have a queue and a pool but for the window of tvideo_exit,
\* and only an orphaned thread touches a deleted queue.
THEOREM NoUseAfterFree == Spec => []NothingUsedAfterFree
<1>1. IInv => NothingUsedAfterFree
    BY DEF IInv, TypeOK, Linked, CameraOwned, NothingUsedAfterFree, Orphaned, Running
<1> QED
    BY <1>1, VideoInvariant, PTL

\* video_transfer_init returns kNoErr only for a camera that runs.
THEOREM SuccessIsTrue == Spec => []SuccessMeansRunning
<1>1. IInv => SuccessMeansRunning
    BY DEF IInv, Honest
<1> QED
    BY <1>1, VideoInvariant, PTL

-----------------------------------------------------------------------------
(***************************************************************************)
(* The refinement of PacketStream.                                         *)
(***************************************************************************)

\* A step that leaves the ready list, its packets and the phase of the
\* thread alone does not show in the stream.
LEMMA StreamSame ==
    ASSUME UNCHANGED <<ready, data, newest, got>>,
           Serving' <=> Serving, thr' = "sent" <=> thr = "sent"
    PROVE  UNCHANGED <<Unsent, Accepted, got>>
BY DEF Unsent, Accepted, ToPackets

LEMMA StreamOff ==
    ASSUME ~Serving, ~Serving', got' = got
    PROVE  UNCHANGED <<Unsent, Accepted, got>>
BY DEF Unsent, Accepted

\* The end of a session drops what was not sent.
LEMMA StreamEnds ==
    ASSUME ~Serving', got' = got
    PROVE  Stream!Next
BY DEF Unsent, Accepted, Stream!Next, Stream!Reset

\* The packets of a list.
LEMMA PacketList ==
    ASSUME DataOK, NEW l \in Seq(Elems)
    PROVE  /\ ToPackets(l) \in Seq(Packets \cup {None})
           /\ Len(ToPackets(l)) = Len(l)
           /\ \A i \in 1 .. Len(l) : ToPackets(l)[i] = data[l[i]]
BY DEF DataOK, ToPackets

LEMMA PacketTail ==
    ASSUME DataOK, NEW l \in Seq(Elems), l # <<>>
    PROVE  /\ ToPackets(l) # <<>>
           /\ Head(ToPackets(l)) = data[Head(l)]
           /\ Tail(ToPackets(l)) = ToPackets(Tail(l))
<1>1. /\ Tail(l) \in Seq(Elems) /\ Len(l) \in Nat \ {0} /\ Head(l) = l[1]
      /\ Len(Tail(l)) = Len(l) - 1
      /\ \A i \in 1 .. Len(l) - 1 : Tail(l)[i] = l[i + 1]
    BY HeadTailProperties, EmptySeq
<1> DEFINE u == ToPackets(l)
           v == ToPackets(Tail(l))
<1>2. /\ u \in Seq(Packets \cup {None}) /\ Len(u) = Len(l)
      /\ \A i \in 1 .. Len(l) : u[i] = data[l[i]]
    BY PacketList
<1>3. /\ v \in Seq(Packets \cup {None}) /\ Len(v) = Len(l) - 1
      /\ \A i \in 1 .. Len(l) - 1 : v[i] = data[l[i + 1]]
    <2>1. /\ v \in Seq(Packets \cup {None}) /\ Len(v) = Len(Tail(l))
          /\ \A i \in 1 .. Len(Tail(l)) : v[i] = data[Tail(l)[i]]
        BY <1>1, PacketList
    <2> HIDE DEF v
    <2> QED
        BY <1>1, <2>1
<1> HIDE DEF u, v
<1>4. u # <<>> /\ Head(u) = data[Head(l)]
    BY <1>1, <1>2
<1>5. /\ Tail(u) \in Seq(Packets \cup {None}) /\ Len(Tail(u)) = Len(l) - 1
      /\ \A i \in 1 .. Len(l) - 1 : Tail(u)[i] = u[i + 1]
    <2>1. u # <<>> /\ u \in Seq(Packets \cup {None})
        BY <1>2, <1>4
    <2>2. /\ Tail(u) \in Seq(Packets \cup {None}) /\ Len(Tail(u)) = Len(u) - 1
          /\ \A i \in 1 .. Len(Tail(u)) : Tail(u)[i] = u[i + 1]
        BY <2>1, HeadTailProperties
    <2> QED
        BY <1>2, <2>2
<1>6. \A i \in 1 .. Len(l) - 1 : Tail(u)[i] = v[i]
    BY <1>1, <1>2, <1>3, <1>5
<1>7. Tail(u) = v
    BY <1>3, <1>5, <1>6, SeqEqual
<1> QED
    BY <1>4, <1>7 DEF u, v

\* The packets of a list when the buffers hold d.
Held(d, l) == [i \in 1 .. Len(l) |-> d[l[i]]]

LEMMA PacketAppend ==
    ASSUME NEW d \in [Elems -> Packets \cup {None}], NEW l \in Seq(Elems),
           NEW x \in Elems, ~On(x, l), NEW p \in Packets \cup {None}
    PROVE  Held([d EXCEPT ![x] = p], Append(l, x)) = Append(Held(d, l), p)
<1> DEFINE D == Packets \cup {None}
           a == Append(l, x)
           u == [i \in 1 .. Len(a) |-> [d EXCEPT ![x] = p][a[i]]]
           w == [i \in 1 .. Len(l) |-> d[l[i]]]
<1>1. /\ Len(l) \in Nat /\ a \in Seq(Elems) /\ Len(a) = Len(l) + 1
      /\ \A i \in 1 .. Len(l) : a[i] = l[i] /\ l[i] # x /\ l[i] \in Elems
      /\ a[Len(l) + 1] = x
    BY DEF On
<1> HIDE DEF a
<1>2. w \in Seq(D) /\ Len(w) = Len(l) /\ \A i \in 1 .. Len(l) : w[i] = d[l[i]]
    BY <1>1
<1>3. /\ u \in Seq(D) /\ Len(u) = Len(l) + 1
      /\ \A i \in 1 .. Len(l) : u[i] = d[l[i]]
      /\ u[Len(l) + 1] = p
    BY <1>1
<1> HIDE DEF u, w
<1>4. /\ Append(w, p) \in Seq(D) /\ Len(Append(w, p)) = Len(l) + 1
      /\ \A i \in 1 .. Len(l) : Append(w, p)[i] = w[i]
      /\ Append(w, p)[Len(l) + 1] = p
    BY <1>2
<1>5. \A i \in 1 .. Len(u) : u[i] = Append(w, p)[i]
    BY <1>1, <1>2, <1>3, <1>4
<1>6. u = Append(w, p)
    BY <1>3, <1>4, <1>5, SeqEqual
<1> QED
    BY <1>6 DEF u, w, a, Held

\* An interrupt appends its packet to the stream, or drops it.
LEMMA StreamAccepts ==
    ASSUME IInv, NEW eof \in BOOLEAN, camera, tvideo_rx_handler(eof),
           UNCHANGED <<thr, got>>
    PROVE  [Stream!Next]_(Stream!vars)
<1> DEFINE p == [n |-> arrived + 1, frame |-> frame_id, eof |-> eof]
           h == Head(free)
<1>0. DataOK /\ OnePlace /\ NewestIsPast /\ (Serving' <=> Serving)
    BY TypeParts DEF IInv, Serving
<1>p. p \in Packets /\ p.n = arrived + 1 /\ p.frame = frame_id /\ p.eof = eof
    BY <1>0 DEF DataOK, Packets
<1>1. CASE ~Serving
    BY <1>0, <1>1, StreamOff DEF Stream!vars
<1>2. CASE free = <<>>
    BY <1>0, <1>2, StreamSame DEF tvideo_rx_handler, Stream!vars
<1>3. CASE Serving /\ free # <<>>
    <2>1. /\ data' = [data EXCEPT ![h] = p] /\ newest' = p
          /\ ready' = Append(ready, h)
        BY <1>3 DEF tvideo_rx_handler
    <2> HIDE DEF p
    <2>2. InSession
        BY <1>3 DEF InSession, Serving, Running
    <2>3. h \in Elems /\ ready \in Seq(Elems) /\ On(h, free)
        BY <1>0, <1>3, TailList DEF DataOK
    <2>4. ~On(h, ready)
        BY <1>0, <2>2, <2>3 DEF OnePlace
    <2>5. data \in [Elems -> Packets \cup {None}]
        BY <1>0 DEF DataOK
    <2> HIDE DEF h
    <2>p. p \in Packets \cup {None}
        BY <1>p
    <2>6. ASSUME thr # "sent" PROVE Unsent' = Append(Unsent, p)
        <3>1. Unsent = ToPackets(ready) /\ Unsent' = ToPackets(ready)'
            BY <1>0, <1>3, <2>6 DEF Unsent
        <3>2. Held([data EXCEPT ![h] = p], Append(ready, h)) = Append(Held(data, ready), p)
            BY <2>p, <2>3, <2>4, <2>5, PacketAppend
        <3>3. ToPackets(ready)' = Append(ToPackets(ready), p)
            BY <2>1, <3>2 DEF ToPackets, Held
        <3> QED
            BY <3>1, <3>3
    <2>7. ASSUME thr = "sent" PROVE Unsent' = Append(Unsent, p)
        <3>1. Unsent = ToPackets(Tail(ready)) /\ Unsent' = ToPackets(Tail(ready))'
            BY <1>0, <1>3, <2>7 DEF Unsent
        <3>2. ready # <<>> /\ Tail(ready) \in Seq(Elems) /\ ~On(h, Tail(ready))
            BY <1>0, <2>3, <2>4, <2>7, TailList DEF OnePlace
        <3>3. Tail(Append(ready, h)) = Append(Tail(ready), h)
            BY <2>3, <3>2
        <3>4. Held([data EXCEPT ![h] = p], Append(Tail(ready), h)) = Append(Held(data, Tail(ready)), p)
            BY <2>p, <2>3, <2>5, <3>2, PacketAppend
        <3>5. ToPackets(Tail(ready))' = Append(ToPackets(Tail(ready)), p)
            BY <2>1, <3>3, <3>4 DEF ToPackets, Held
        <3> QED
            BY <3>1, <3>5
    <2>8. Unsent' = Append(Unsent, p)
        BY <2>6, <2>7
    <2>9. Accepted' = p /\ Accepted = newest
        BY <1>0, <1>3, <2>1 DEF Accepted
    <2>10. newest # None => Stream!Follows(newest, p)
        BY <1>0, <1>3, <1>p DEF NewestIsPast, DataOK, Packets, Stream!Follows
    <2> QED
        BY <1>p, <2>8, <2>9, <2>10 DEF Stream!Next, Stream!Accept, Stream!Packets, Packets
<1> QED
    BY <1>1, <1>2, <1>3

LEMMA StreamStep == IInv /\ [Next]_vars => [Stream!Next]_(Stream!vars)
<1> SUFFICES ASSUME IInv, [Next]_vars PROVE [Stream!Next]_(Stream!vars)
    OBVIOUS
<1>1. CASE video_transfer_init
    BY <1>1, StreamOff DEF video_transfer_init, Serving, Running, lists, history, Stream!vars
<1>2. CASE InitSeesOpened
    BY <1>2, StreamSame DEF InitSeesOpened, Serving, Running, lists, history, Stream!vars
<1>3. CASE InitTimesOut
    BY <1>3, StreamSame DEF InitTimesOut, Serving, Running, lists, history, Stream!vars
<1>4. CASE video_transfer_deinit
    BY <1>4, StreamSame DEF video_transfer_deinit, Serving, Running, lists, history, Stream!vars
<1>5. CASE DeinitReturn
    BY <1>5, StreamSame DEF DeinitReturn, Serving, Running, lists, history, Stream!vars
<1>6. CASE ThreadStart
    BY <1>6, StreamOff DEF ThreadStart, tvideo_pool_init, Serving, Running, lists, history, Stream!vars
<1>7. CASE ThreadOpens
    <2>1. thr = "init" /\ UNCHANGED <<ready, data, newest, got>>
        BY <1>7 DEF ThreadOpens, lists, history
    <2>2. CASE thr' = "exit"
        BY <2>1, <2>2, StreamOff DEF Serving, Running, Stream!vars
    <2>3. CASE thr' = "opened"
        <3>1. ready = <<>> /\ newest = None
            BY <2>1 DEF IInv, Posted, NewestIsPast
        <3>2. ToPackets(ready)' = <<>>
            BY <2>1, <3>1 DEF ToPackets
        <3>3. Unsent = <<>> /\ Unsent' = <<>> /\ Accepted = None /\ Accepted' = None
            BY <2>1, <2>3, <3>1, <3>2 DEF Unsent, Accepted, Serving, Running
        <3> QED
            BY <2>1, <3>3 DEF Stream!vars
    <2> QED
        BY <1>7, <2>2, <2>3 DEF ThreadOpens
<1>8. CASE ThreadRuns
    BY <1>8, StreamSame DEF ThreadRuns, Serving, Running, lists, history, Stream!vars
<1>9. CASE ThreadPops
    <2>1. thr = "wait" /\ UNCHANGED <<ready, data, newest, got>>
        BY <1>9 DEF ThreadPops, lists
    <2>2. CASE thr' = "poll"
        BY <2>1, <2>2, StreamSame DEF Serving, Running, Stream!vars
    <2>3. CASE thr' \in {"exit", "fault"}
        BY <2>1, <2>3, StreamEnds DEF Serving, Running
    <2> QED
        BY <1>9, <2>2, <2>3 DEF ThreadPops
<1>10. CASE PollPicks
    BY <1>10, StreamSame DEF PollPicks, Serving, Running, lists, history, Stream!vars
<1>11. CASE PollSends
    <2>1. thr = "sending" /\ UNCHANGED <<ready, data, newest>>
        BY <1>11 DEF PollSends
    <2>2. CASE thr' = "wait"
        BY <1>11, <2>1, <2>2, StreamSame DEF PollSends, Serving, Running, Stream!vars
    <2>3. CASE thr' = "sent"
        <3>1. got' = data[elem]
            BY <1>11, <2>3 DEF PollSends
        <3>2. ready # <<>> /\ elem = Head(ready) /\ ready \in Seq(Elems) /\ DataOK
            BY <2>1, TypeParts DEF IInv, OnePlace, DataOK
        <3>3. Unsent = ToPackets(ready) /\ Unsent' = ToPackets(Tail(ready))'
            BY <2>1, <2>3 DEF Unsent, Serving, Running
        <3>4. ToPackets(Tail(ready))' = ToPackets(Tail(ready))
            BY <2>1 DEF ToPackets
        <3>5. Accepted' = Accepted
            BY <2>1, <2>3 DEF Accepted, Serving, Running
        <3>6. Unsent # <<>> /\ got' = Head(Unsent) /\ Unsent' = Tail(Unsent)
            BY <3>1, <3>2, <3>3, <3>4, PacketTail
        <3> QED
            BY <3>5, <3>6 DEF Stream!Next, Stream!Deliver
    <2> QED
        BY <1>11, <2>2, <2>3 DEF PollSends
<1>12. CASE PollPops
    <2>1. /\ thr = "sent" /\ thr' = "popped" /\ ready' = Tail(ready)
          /\ UNCHANGED <<data, newest, got>>
        BY <1>12 DEF PollPops, history
    <2>2. Unsent = ToPackets(Tail(ready)) /\ Unsent' = ToPackets(ready)'
        BY <2>1 DEF Unsent, Serving, Running
    <2>3. ToPackets(ready)' = ToPackets(Tail(ready))
        BY <2>1 DEF ToPackets
    <2>4. Accepted' = Accepted
        BY <2>1 DEF Accepted, Serving, Running
    <2> QED
        BY <2>1, <2>2, <2>3, <2>4 DEF Stream!vars
<1>13. CASE PollRecycles
    BY <1>13, StreamSame DEF PollRecycles, Serving, Running, lists, history, Stream!vars
<1>14. CASE ExitFrees
    BY <1>14, StreamOff DEF ExitFrees, Serving, Running, lists, history, Stream!vars
<1>15. CASE ExitClosesCamera
    BY <1>15, StreamOff DEF ExitClosesCamera, Serving, Running, lists, history, Stream!vars
<1>16. CASE ExitDeletesQueue
    BY <1>16, StreamOff DEF ExitDeletesQueue, Serving, Running, lists, history, Stream!vars
<1>17. CASE ExitClearsHandle
    BY <1>17, StreamOff DEF ExitClearsHandle, Serving, Running, lists, history, Stream!vars
<1>18. CASE NodeFull
    <2>1. camera /\ UNCHANGED <<thr, got>> /\ tvideo_rx_handler(FALSE)
        BY <1>18 DEF NodeFull
    <2> QED
        BY <2>1, StreamAccepts
<1>19. CASE FrameEnd
    <2>1. camera /\ UNCHANGED <<thr, got>> /\ tvideo_rx_handler(TRUE)
        BY <1>19 DEF FrameEnd
    <2> QED
        BY <2>1, StreamAccepts
<1>20. CASE FrameEndExact
    BY <1>20, StreamSame DEF FrameEndExact, Serving, Running, lists, history, Stream!vars
<1>21. CASE UNCHANGED vars
    BY <1>21, StreamSame DEF vars, Serving, Stream!vars
<1> QED
    BY <1>1, <1>2, <1>3, <1>4, <1>5, <1>6, <1>7, <1>8, <1>9, <1>10, <1>11, <1>12, <1>13, <1>14, <1>15, <1>16, <1>17, <1>18, <1>19, <1>20, <1>21
    DEF Next, AppStep, ThreadStep, Interrupt

\* The pool, the two lists, the interrupts and the thread together are a
\* stream of packets: each reaches send_func at most once, whole and in the
\* order of arrival.
THEOREM PoolIsStream == Spec => StreamSpec
<1>1. Init => Stream!Init
    BY DEF Init, Unsent, Accepted, Serving, Running, Stream!Init
<1> QED
    BY <1>1, StreamStep, VideoInvariant, PTL DEF Spec, StreamSpec, Stream!Spec
=============================================================================
