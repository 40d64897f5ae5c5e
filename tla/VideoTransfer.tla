--------------------------- MODULE VideoTransfer ---------------------------
(***************************************************************************)
(* func/video_transfer/video_transfer.c: packets of the camera go from its *)
(* interrupts to the video thread through a pool of buffers.               *)
(*                                                                         *)
(*   the interrupts  (camera_intf.c) take a buffer of tvideo_pool.free,    *)
(*                   fill it, queue it on tvideo_pool.ready and post       *)
(*                   TV_INT_POLL; no thread step falls into a handler;     *)
(*   the thread      video_transfer_main sends what is ready and gives the *)
(*                   buffers back; it ends at a TV_EXIT in the same queue; *)
(*   the application video_transfer_init and video_transfer_deinit.        *)
(*                                                                         *)
(* The lists are the MAC library's co_list.  Its co_list_pop_front and      *)
(* co_list_push_back (co_list.o in lib/librwnx_*.a) call portDISABLE_FIQ    *)
(* and portDISABLE_IRQ first and enable both again last, so no interrupt    *)
(* falls into one of them; it may fall between two.                         *)
(***************************************************************************)
EXTENDS Integers, Sequences, FiniteSets

CONSTANTS Elems,        \* the buffers of the pool, tvideo_pool.elem[]
          QLen,         \* TV_QITEM_COUNT
          Preempts,     \* the application runs below the video thread
          None,         \* no buffer, no packet
          MaxPkts,      \* bound: packets of all sessions
          MaxFrames,    \* bound: frames of a session
          MaxSessions   \* bound: calls of video_transfer_init

ASSUME VideoAssumption ==
    /\ IsFiniteSet(Elems) /\ None \notin Elems
    /\ QLen \in Nat \ {0}
    /\ Preempts \in BOOLEAN
    /\ MaxPkts \in Nat /\ MaxFrames \in Nat /\ MaxSessions \in Nat

VARIABLES
    app,        \* where the application is: see App
    thr,        \* where the video thread is: see Thr
    hdl,        \* tvideo_thread_hdl is set
    queOpen,    \* tvideo_msg_que is set
    que,        \* the messages in tvideo_msg_que
    status,     \* tvideo_pool.status, never reset at the end of a session
    camera,     \* ejpeg_hdl is valid: the handlers run
    pool,       \* tvideo_pool.pool is allocated
    free,       \* tvideo_pool.free
    ready,      \* tvideo_pool.ready
    elem,       \* elem, the local of tvideo_poll_handler
    data,       \* the packet each buffer holds
    frame_id,   \* tvideo_pool.frame_id
    got,        \* the packet sent last
    newest,     \* the packet accepted last in this session
    stalled,    \* the last send_func failed and nothing was posted since
    exitQueued, \* the TV_EXIT of the deinit under way was accepted
    arrived,    \* packets that came so far
    sessions    \* calls of video_transfer_init so far

vars == <<app, thr, hdl, queOpen, que, status, camera, pool, free, ready, elem,
          data, frame_id, got, newest, stalled, exitQueued, arrived, sessions>>

lists == <<free, ready, elem, data, frame_id>>
history == <<got, newest, stalled, exitQueued, arrived, sessions>>

App == {"idle", "opening", "open", "closing"}
Opening == {"start", "init", "opened"}
Running == {"opened", "wait", "poll", "sending", "sent", "popped"}
Ending == {"exit", "freed", "quiet", "unqueued"}
Thr == {"none", "fault"} \cup Opening \cup Running \cup Ending
Status == {"INIT", "OPENED", "RUNNING"}
Msgs == {"POLL", "EXIT"}
Packets == [n : Nat, frame : Nat, eof : BOOLEAN]

\* rtos_push_to_queue(.., BEKEN_NO_WAIT): a full queue refuses the message.
Push(q, m) == IF Len(q) < QLen THEN Append(q, m) ELSE q

\* tvideo_intfer_send_msg
tvideo_intfer_send_msg(q, m) == IF queOpen THEN Push(q, m) ELSE q

----------------------------------------------------------------------------
(***************************************************************************)
(* At start-up everything is zero; a zero status is TVIDEO_STATUS_INIT.    *)
(***************************************************************************)
Init ==
    /\ app = "idle" /\ thr = "none" /\ hdl = FALSE
    /\ queOpen = FALSE /\ que = <<>>
    /\ status = "INIT" /\ camera = FALSE /\ pool = FALSE
    /\ free = <<>> /\ ready = <<>> /\ elem = None
    /\ data = [e \in Elems |-> None]
    /\ frame_id = 0
    /\ got = None /\ newest = None /\ stalled = FALSE /\ exitQueued = FALSE
    /\ arrived = 0 /\ sessions = 0

(***************************************************************************)
(* The application.  A second thread over the same pool, which a new init  *)
(* after a timeout can start beside the orphaned one, is not followed:     *)
(* init waits for the old thread to be gone.                               *)
(***************************************************************************)
\* video_transfer_init: the queue and the thread are created, or nothing is.
video_transfer_init ==
    /\ app = "idle" /\ ~hdl /\ ~queOpen /\ thr = "none"
    /\ sessions < MaxSessions
    /\ sessions' = sessions + 1
    /\ \/ /\ app' = "opening" /\ thr' = "start" /\ hdl' = TRUE
          /\ queOpen' = TRUE /\ que' = <<>>
       \/ UNCHANGED <<app, thr, hdl, queOpen, que>>
    /\ UNCHANGED <<status, camera, pool, lists, got, newest, stalled, exitQueued, arrived>>

\* It polls tvideo_pool.status every 10 ms.
InitSeesOpened ==
    /\ app = "opening"
    /\ Preempts => thr # "start"
    /\ status # "INIT"
    /\ app' = "open"
    /\ UNCHANGED <<thr, hdl, queOpen, que, status, camera, pool, lists, history>>

\* After two seconds it deletes the queue, whatever the thread is doing.
InitTimesOut ==
    /\ app = "opening"
    /\ Preempts => thr # "start"
    /\ status = "INIT"
    /\ app' = "idle" /\ hdl' = FALSE
    /\ queOpen' = FALSE /\ que' = <<>>
    /\ UNCHANGED <<thr, status, camera, pool, lists, history>>

\* video_transfer_deinit posts TV_EXIT once and does not look at the result.
video_transfer_deinit ==
    /\ app = "open"
    /\ app' = "closing"
    /\ que' = tvideo_intfer_send_msg(que, "EXIT")
    /\ exitQueued' = (queOpen /\ Len(que) < QLen)
    /\ UNCHANGED <<thr, hdl, queOpen, status, camera, pool, lists,
                   got, newest, stalled, arrived, sessions>>

DeinitReturn ==
    /\ app = "closing" /\ ~hdl
    /\ app' = "idle" /\ exitQueued' = FALSE
    /\ UNCHANGED <<thr, hdl, queOpen, que, status, camera, pool, lists,
                   got, newest, stalled, arrived, sessions>>

----------------------------------------------------------------------------
(***************************************************************************)
(* The video thread.                                                       *)
(***************************************************************************)
\* tvideo_pool_init: every buffer on the free list, in some fixed order.
Buffers == CHOOSE s \in [1 .. Cardinality(Elems) -> Elems] :
               \A e \in Elems : \E i \in DOMAIN s : s[i] = e

tvideo_pool_init ==
    /\ pool' = TRUE
    /\ free' = Buffers /\ ready' = <<>>
    /\ frame_id' = 0
    /\ newest' = None
    /\ UNCHANGED <<elem, data>>

\* Mutant: the status of the last session is kept.
ThreadStartStale ==
    /\ thr = "start" /\ thr' = "init"
    /\ tvideo_pool_init
    /\ UNCHANGED <<app, hdl, queOpen, que, status, camera,
                   got, stalled, exitQueued, arrived, sessions>>

\* video_transfer_main up to the opening of the camera.
ThreadStart ==
    /\ thr = "start" /\ thr' = "init"
    /\ status' = "INIT"
    /\ tvideo_pool_init
    /\ UNCHANGED <<app, hdl, queOpen, que, camera,
                   got, stalled, exitQueued, arrived, sessions>>

\* camera_intfer_init, then the status that lets video_transfer_init return.
ThreadOpens ==
    /\ thr = "init"
    /\ \/ camera' = TRUE /\ status' = "OPENED" /\ thr' = "opened"
       \/ thr' = "exit" /\ UNCHANGED <<camera, status>>
    /\ UNCHANGED <<app, hdl, queOpen, que, pool, lists, history>>

\* start_cb, then the loop.
ThreadRuns ==
    /\ thr = "opened" /\ thr' = "wait"
    /\ status' = "RUNNING"
    /\ UNCHANGED <<app, hdl, queOpen, que, camera, pool, lists, history>>

\* rtos_pop_from_queue: a deleted queue is an access through NULL.
ThreadPops ==
    /\ thr = "wait"
    /\ \/ /\ queOpen /\ que # <<>>
          /\ que' = Tail(que)
          /\ thr' = IF Head(que) = "POLL" THEN "poll" ELSE "exit"
          /\ stalled' = FALSE
       \/ ~queOpen /\ thr' = "fault" /\ UNCHANGED <<que, stalled>>
    /\ UNCHANGED <<app, hdl, queOpen, status, camera, pool, lists,
                   got, newest, exitQueued, arrived, sessions>>

\* tvideo_poll_handler: pick the oldest ready buffer, if there is one.
PollPicks ==
    /\ thr = "poll"
    /\ \/ ready = <<>> /\ thr' = "wait" /\ UNCHANGED elem
       \/ ready # <<>> /\ thr' = "sending" /\ elem' = Head(ready)
    /\ UNCHANGED <<app, hdl, queOpen, que, status, camera, pool,
                   free, ready, data, frame_id, history>>

\* Mutant: a packet that send_func refuses is dropped.
PollSendsDrop ==
    /\ thr = "sending" /\ thr' = "sent"
    /\ got' \in {data[elem], got}
    /\ UNCHANGED <<app, hdl, queOpen, que, status, camera, pool, lists,
                   newest, stalled, exitQueued, arrived, sessions>>

\* send_func(elem->buf_start, elem->buf_len) takes it whole, or the buffer
\* stays where it is until the next message.
PollSends ==
    /\ thr = "sending"
    /\ \/ /\ thr' = "sent" /\ got' = data[elem]
          /\ UNCHANGED <<elem, stalled>>
       \/ /\ thr' = "wait" /\ stalled' = TRUE /\ elem' = None
          /\ UNCHANGED got
    /\ UNCHANGED <<app, hdl, queOpen, que, status, camera, pool, free, ready, data, frame_id,
                   newest, exitQueued, arrived, sessions>>

\* Mutant: the library does not mask interrupts, and what one appends between
\* the read of the head's successor and the write of the head is cut off.
PollPopsUnmasked ==
    /\ thr = "sent" /\ thr' = "popped"
    /\ ready' \in {Tail(ready), <<>>}
    /\ UNCHANGED <<app, hdl, queOpen, que, status, camera, pool,
                   free, elem, data, frame_id, history>>

\* co_list_pop_front(&tvideo_pool.ready), interrupts masked by the library ...
PollPops ==
    /\ thr = "sent" /\ thr' = "popped"
    /\ ready' = Tail(ready)
    /\ UNCHANGED <<app, hdl, queOpen, que, status, camera, pool,
                   free, elem, data, frame_id, history>>

\* ... and, after any number of them, co_list_push_back(&tvideo_pool.free, elem)
PollRecycles ==
    /\ thr = "popped" /\ thr' = "poll"
    /\ free' = Append(free, elem) /\ elem' = None
    /\ UNCHANGED <<app, hdl, queOpen, que, status, camera, pool,
                   ready, data, frame_id, history>>

\* tvideo_exit: the pool is freed while the camera still runs ...
ExitFrees ==
    /\ thr = "exit" /\ thr' = "freed"
    /\ pool' = FALSE
    /\ UNCHANGED <<app, hdl, queOpen, que, status, camera, lists, history>>

\* Mutant: the queue goes before the interrupts are off.
ExitClosesCameraLast ==
    /\ thr = "freed" /\ thr' = "quiet"
    /\ queOpen' = FALSE /\ que' = <<>>
    /\ UNCHANGED <<app, hdl, status, camera, pool, lists, history>>

\* ... camera_intfer_deinit stops the interrupts ...
ExitClosesCamera ==
    /\ thr = "freed" /\ thr' = "quiet"
    /\ camera' = FALSE
    /\ UNCHANGED <<app, hdl, queOpen, que, status, pool, lists, history>>

\* ... the queue goes (deleting it twice is an access through NULL) ...
ExitDeletesQueue ==
    /\ thr = "quiet"
    /\ thr' = IF queOpen THEN "unqueued" ELSE "fault"
    /\ queOpen' = FALSE /\ que' = <<>>
    /\ UNCHANGED <<app, hdl, status, camera, pool, lists, history>>

\* Mutant: the handle is left set.
ExitKeepsHandle ==
    /\ thr = "unqueued" /\ thr' = "none"
    /\ UNCHANGED <<app, hdl, queOpen, que, status, camera, pool, lists, history>>

\* ... and at last the handle the waiting deinit polls.
ExitClearsHandle ==
    /\ thr = "unqueued" /\ thr' = "none"
    /\ hdl' = FALSE
    /\ UNCHANGED <<app, queOpen, que, status, camera, pool, lists, history>>

----------------------------------------------------------------------------
(***************************************************************************)
(* The interrupts.  camera_intf_ejpeg_rx_handler passes on a full node,    *)
(* camera_intf_delay_timer_hdl the rest of a frame and then its end.  A    *)
(* frame that fills its last node exactly has no rest, and so no packet    *)
(* marked eof.                                                             *)
(***************************************************************************)
\* tvideo_rx_handler: the packet goes into a free buffer or is lost.
tvideo_rx_handler(eof) ==
    LET p == [n |-> arrived + 1, frame |-> frame_id, eof |-> eof]
    IN  /\ arrived < MaxPkts
        /\ arrived' = arrived + 1
        /\ \/ /\ free # <<>>
              /\ data' = [data EXCEPT ![Head(free)] = p]
              /\ free' = Tail(free)
              /\ ready' = Append(ready, Head(free))
              /\ newest' = p
           \/ free = <<>> /\ UNCHANGED <<free, ready, data, newest>>

\* Mutant: nothing is posted for a packet that is queued.
NodeFullSilent ==
    /\ camera
    /\ tvideo_rx_handler(FALSE)
    /\ UNCHANGED <<app, thr, hdl, queOpen, que, status, camera, pool, elem, frame_id,
                   got, stalled, exitQueued, sessions>>

\* Both handlers post; a message that is refused finds another one queued.
NodeFull ==
    /\ camera
    /\ tvideo_rx_handler(FALSE)
    /\ que' = tvideo_intfer_send_msg(que, "POLL")
    /\ stalled' = (stalled /\ ~queOpen)
    /\ UNCHANGED <<app, thr, hdl, queOpen, status, camera, pool, elem, frame_id,
                   got, exitQueued, sessions>>

\* The rest of a frame, then tvideo_end_frame_handler.
FrameEnd ==
    /\ camera /\ frame_id < MaxFrames
    /\ tvideo_rx_handler(TRUE)
    /\ frame_id' = frame_id + 1
    /\ que' = tvideo_intfer_send_msg(tvideo_intfer_send_msg(que, "POLL"), "POLL")
    /\ stalled' = (stalled /\ ~queOpen)
    /\ UNCHANGED <<app, thr, hdl, queOpen, status, camera, pool, elem,
                   got, exitQueued, sessions>>

FrameEndExact ==
    /\ camera /\ frame_id < MaxFrames
    /\ frame_id' = frame_id + 1
    /\ que' = tvideo_intfer_send_msg(que, "POLL")
    /\ stalled' = (stalled /\ ~queOpen)
    /\ UNCHANGED <<app, thr, hdl, queOpen, status, camera, pool, free, ready, elem, data,
                   got, newest, exitQueued, arrived, sessions>>

----------------------------------------------------------------------------
AppStep == \/ video_transfer_init \/ InitSeesOpened \/ InitTimesOut
           \/ video_transfer_deinit \/ DeinitReturn

ThreadStep == \/ ThreadStart \/ ThreadOpens \/ ThreadRuns \/ ThreadPops
              \/ PollPicks \/ PollSends \/ PollPops \/ PollRecycles
              \/ ExitFrees \/ ExitClosesCamera \/ ExitDeletesQueue \/ ExitClearsHandle

Interrupt == NodeFull \/ FrameEnd \/ FrameEndExact

Next == AppStep \/ ThreadStep \/ Interrupt

Spec == Init /\ [][Next]_vars

\* The scheduler runs the thread and the waiting application when they can
\* run; nothing obliges the camera or a new call.
Fairness == WF_vars(ThreadStep) /\ WF_vars(DeinitReturn)

LiveSpec == Spec /\ Fairness

----------------------------------------------------------------------------
(***************************************************************************)
(* Properties.                                                             *)
(***************************************************************************)
\* Types.  tvideo_pool.status never becomes TVIDEO_STATUS_EXIT: the goto of
\* TV_EXIT jumps over that assignment.
TypeOK ==
    /\ app \in App /\ thr \in Thr /\ hdl \in BOOLEAN
    /\ queOpen \in BOOLEAN /\ que \in Seq(Msgs)
    /\ status \in Status /\ camera \in BOOLEAN /\ pool \in BOOLEAN
    /\ free \in Seq(Elems) /\ ready \in Seq(Elems) /\ elem \in Elems \cup {None}
    /\ data \in [Elems -> Packets \cup {None}]
    /\ frame_id \in Nat
    /\ got \in Packets \cup {None} /\ newest \in Packets \cup {None}
    /\ stalled \in BOOLEAN /\ exitQueued \in BOOLEAN
    /\ arrived \in Nat /\ sessions \in Nat

InSession == thr \notin {"none", "start"}

ListOf(e, l) == {i \in DOMAIN l : l[i] = e}

\* From tvideo_pool_init to the end of the session every buffer is in exactly
\* one place: once on one of the two lists, or with the thread between its
\* pop and its push.  None leaks and none is filled while it is being sent:
\* the buffer handed to send_func stays the oldest ready one, and what is
\* popped afterwards is what was sent.
PoolConserved ==
    /\ TypeOK
    /\ InSession =>
           \A e \in Elems :
               Cardinality(ListOf(e, free)) + Cardinality(ListOf(e, ready))
                   + (IF thr = "popped" /\ elem = e THEN 1 ELSE 0) = 1
    /\ thr \in {"sending", "sent"} => ready # <<>> /\ elem = Head(ready)

\* A ready packet is never left behind: when the thread goes back to wait on
\* an empty queue, nothing is ready, or send_func refused the oldest packet
\* and no interrupt came since.
NoLostPoll ==
    thr = "wait" /\ queOpen /\ que = <<>> => ready = <<>> \/ stalled

\* The thread left behind by an init that timed out.
Orphaned == thr # "none" /\ ~hdl /\ app = "idle"

\* While the handlers run they have a queue to post to, and they have the
\* pool's memory but for the one window of tvideo_exit between os_free and
\* camera_intfer_deinit.  The thread touches no deleted queue unless the init
\* it serves timed out.
NothingUsedAfterFree ==
    /\ camera => /\ queOpen \/ Orphaned
                 /\ pool \/ thr = "freed"
    /\ thr = "fault" => ~hdl

\* video_transfer_init returns kNoErr only for a camera that runs now, never
\* on the status an earlier session left, and it keeps running until deinit.
SuccessMeansRunning ==
    Preempts /\ app = "open" => thr \in Running /\ camera /\ hdl /\ queOpen

\* What send_func sees is a stream: see PacketStream.  The packets of a
\* session that ends are dropped.
Serving == thr \in Running
ToPackets(l) == [i \in 1 .. Len(l) |-> data[l[i]]]

Unsent == IF ~Serving THEN <<>>
          ELSE IF thr = "sent" THEN ToPackets(Tail(ready))
          ELSE ToPackets(ready)
Accepted == IF Serving THEN newest ELSE None

Stream == INSTANCE PacketStream WITH pending <- Unsent, newest <- Accepted

StreamSpec == Stream!Spec

\* A deinit whose TV_EXIT was accepted returns.
DeinitReturns == exitQueued ~> app = "idle"
=============================================================================
