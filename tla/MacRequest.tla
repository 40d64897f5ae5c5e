------------------------------ MODULE MacRequest ------------------------------
(***************************************************************************)
(* The request/confirm protocol between the threads that use the Wi-Fi     *)
(* stack and the MAC (beken378/func/rwnx_intf/rw_msg_tx.c, rw_msg_rx.c and *)
(* the two worker threads of beken378/app/app.c).                          *)
(*                                                                         *)
(* A thread calls rw_msg_send.  When it wants the confirm it allocates a   *)
(* MSG_SND_NODE with a semaphore, links it into rw_msg_tx_head, posts the  *)
(* message to the core thread's queue without waiting, and sleeps on the   *)
(* semaphore for at most five seconds.  The core thread feeds the message  *)
(* to the MAC; the MAC's answers come back through mr_kmsg_fwd, which      *)
(* links them into rw_msg_rx_head and wakes the kmsgbk thread.  kmsgbk     *)
(* matches an answer with the first waiting node that has its id, copies   *)
(* the answer into the caller's buffer and gives the node's semaphore.     *)
(*                                                                         *)
(* Scheduling is FreeRTOS's: strict priorities, time slices between equal  *)
(* ones.  The core thread is above kmsgbk, kmsgbk is above every ordinary  *)
(* caller, so a caller runs only while kmsgbk is blocked, except the       *)
(* threads in Peers (the FreeRTOS timer task has kmsgbk's own priority).   *)
(***************************************************************************)
EXTENDS Naturals, Sequences, FiniteSets

CONSTANTS
    Thread,     \* the threads that call rw_msg_send
    Peers,      \* those of them that are scheduled alongside kmsgbk
    Id,         \* message ids, MM_ADD_IF_CFM and the like
    CfmId,      \* ids whose requests pass a cfm buffer and wait
    EmptyId,    \* ids whose confirms carry no parameters (param_len = 0)
    IdsOf,      \* the requests each thread makes
    QLen,       \* CORE_QITEM_COUNT, the length of g_wifi_core.io_queue
    MaxCalls,   \* bound: calls of rw_msg_send per thread
    MaxOther,   \* bound: other messages posted to the core queue
    MaxInd,     \* bound: unsolicited indications from the MAC
    DATA,       \* a core queue message that is not a request
    IND,        \* an indication of the MAC
    NONE        \* the null pointer

ASSUME ThreadAssumption ==
    /\ Peers \subseteq Thread
    /\ CfmId \subseteq Id
    /\ EmptyId \subseteq Id
    /\ IdsOf \in [Thread -> SUBSET Id]

ASSUME BoundAssumption ==
    /\ QLen \in Nat \ {0}
    /\ MaxCalls \in Nat
    /\ MaxOther \in Nat
    /\ MaxInd \in Nat

\* One call of rw_msg_send, and the MSG_SND_NODE it allocates.  The message it
\* sends and the answer to it are named by the call as well.
Node == [thd : Thread, seq : 1..MaxCalls, id : Id]

ASSUME DistinctAssumption ==
    /\ NONE \notin Node \cup {DATA, IND}
    /\ DATA \notin Node
    /\ IND \notin Node

VARIABLES
    calls,      \* calls[t]: how many calls t has made
    id,         \* id[t]: the id of t's current call
    pc,         \* pc[t]: where t is inside rw_msg_send
    live,       \* nodes allocated and not yet freed
    given,      \* nodes whose semaphore has count 1
    txHead,     \* rw_msg_tx_head
    ioQueue,    \* g_wifi_core.io_queue
    mac,        \* requests the MAC has taken and not answered
    rxHead,     \* rw_msg_rx_head
    appSema,    \* app_sema
    kpc,        \* where kmsgbk is
    rxMsg,      \* the message kmsgbk is handling
    txNode,     \* the node kmsgbk has matched with it
    others,     \* other messages posted so far
    inds,       \* indications sent so far
    answers,    \* history: <<node, answer>> for every answer copied out
    timedOut,   \* history: nodes whose wait ended in a timeout
    dangling    \* history: nodes freed by the failed_or_timeout path after a
                \* failed post

callVars == <<calls, id, pc>>
nodeVars == <<live, given, txHead>>
macVars  == <<ioQueue, mac, others, inds>>
rxVars   == <<rxHead, appSema>>
bkVars   == <<kpc, rxMsg, txNode>>
histVars == <<answers, timedOut, dangling>>
vars == <<callVars, nodeVars, macVars, rxVars, bkVars, histVars>>

Elems(s) == {s[i] : i \in DOMAIN s}

\* The node of t's current call.
Cur(t) == [thd |-> t, seq |-> calls[t], id |-> id[t]]

-----------------------------------------------------------------------------
(* co_list: singly linked lists of the MAC library.  Its co_list_push_back  *)
(* and co_list_pop_front (co_list.o in lib/librwnx_*.a) disable FIQ and IRQ *)
(* themselves for as long as they run, so each is one step for everybody    *)
(* else; co_list_extract does not, and its callers do it.  Extracting a     *)
(* node that is not on the list does nothing.                               *)

co_list_push_back(list, n) == Append(list, n)

co_list_extract(list, n) ==
    IF n \in Elems(list)
    THEN LET k == CHOOSE i \in DOMAIN list : list[i] = n
         IN  [i \in 1..(Len(list) - 1) |->
                  IF i < k THEN list[i] ELSE list[i + 1]]
    ELSE list

-----------------------------------------------------------------------------
Init ==
    /\ calls = [t \in Thread |-> 0]
    /\ id = [t \in Thread |-> NONE]
    /\ pc = [t \in Thread |-> "idle"]
    /\ live = {}
    /\ given = {}
    /\ txHead = <<>>
    /\ ioQueue = <<>>
    /\ mac = {}
    /\ rxHead = <<>>
    /\ appSema = 0
    /\ kpc = "sema"
    /\ rxMsg = NONE
    /\ txNode = NONE
    /\ others = 0
    /\ inds = 0
    /\ answers = {}
    /\ timedOut = {}
    /\ dangling = {}

-----------------------------------------------------------------------------
(* The calling threads.                                                    *)

\* An ordinary caller gets the processor only while kmsgbk is blocked: on
\* app_sema, or inside the handler of an indication.
CanRun(t) ==
    \/ t \in Peers
    \/ kpc = "sema" /\ appSema = 0
    \/ kpc = "handle"

\* rw_msg_send up to the post.  A call with a buffer links its node into
\* rw_msg_tx_head; one without allocates nothing.
Call(t, i) ==
    /\ CanRun(t)
    /\ pc[t] = "idle"
    /\ calls[t] < MaxCalls
    /\ i \in IdsOf[t]
    /\ calls' = [calls EXCEPT ![t] = @ + 1]
    /\ id' = [id EXCEPT ![t] = i]
    /\ pc' = [pc EXCEPT ![t] = "post"]
    /\ LET n == [thd |-> t, seq |-> calls[t] + 1, id |-> i]
       IN  IF i \in CfmId
           THEN /\ live' = live \cup {n}
                /\ txHead' = co_list_push_back(txHead, n)
           ELSE UNCHANGED <<live, txHead>>
    /\ UNCHANGED <<given, macVars, rxVars, bkVars, histVars>>

\* os_malloc of the node, or ke_msg_alloc of the request, fails: -1 at once.
CallNoMemory(t) ==
    /\ CanRun(t)
    /\ pc[t] = "idle"
    /\ calls[t] < MaxCalls
    /\ IdsOf[t] # {}
    /\ calls' = [calls EXCEPT ![t] = @ + 1]
    /\ UNCHANGED <<id, pc, nodeVars, macVars, rxVars, bkVars, histVars>>

\* Mutant: need_cfm is never set, so a call with a buffer does not wait either.
PostNoWait(t) ==
    /\ CanRun(t)
    /\ pc[t] = "post"
    /\ Len(ioQueue) < QLen
    /\ ioQueue' = Append(ioQueue, Cur(t))
    /\ pc' = [pc EXCEPT ![t] = "idle"]
    /\ UNCHANGED <<calls, id, nodeVars, mac, others, inds, rxVars, bkVars,
                   histVars>>

\* bmsg_ioctl_sender takes the message; a call without a buffer returns 0.
Post(t) ==
    /\ CanRun(t)
    /\ pc[t] = "post"
    /\ Len(ioQueue) < QLen
    /\ ioQueue' = Append(ioQueue, Cur(t))
    /\ pc' = [pc EXCEPT ![t] = IF id[t] \in CfmId THEN "wait" ELSE "idle"]
    /\ UNCHANGED <<calls, id, nodeVars, mac, others, inds, rxVars, bkVars,
                   histVars>>

\* The queue is full: the request is freed and the call fails.  Nothing here
\* takes the node off rw_msg_tx_head.
PostFails(t) ==
    /\ CanRun(t)
    /\ pc[t] = "post"
    /\ Len(ioQueue) >= QLen
    /\ pc' = [pc EXCEPT ![t] = "failed"]
    /\ UNCHANGED <<calls, id, nodeVars, macVars, rxVars, bkVars, histVars>>

\* rtos_get_semaphore succeeds.
Confirmed(t) ==
    /\ CanRun(t)
    /\ pc[t] = "wait"
    /\ Cur(t) \in given
    /\ given' = given \ {Cur(t)}
    /\ pc' = [pc EXCEPT ![t] = "confirmed"]
    /\ UNCHANGED <<calls, id, live, txHead, macVars, rxVars, bkVars, histVars>>

\* Mutant: the wait is BEKEN_WAIT_FOREVER.
TimeoutNever(t) == FALSE

\* rtos_get_semaphore gives up after five seconds.  FreeRTOS looks at the
\* count once more when the expired waiter runs again.
Timeout(t) ==
    /\ CanRun(t)
    /\ pc[t] = "wait"
    /\ Cur(t) \notin given
    /\ pc' = [pc EXCEPT ![t] = "expired"]
    /\ timedOut' = timedOut \cup {Cur(t)}
    /\ UNCHANGED <<calls, id, nodeVars, macVars, rxVars, bkVars, answers,
                   dangling>>

\* Mutant: the expired caller leaves its node on the list.
WithdrawKeepsNode(t) ==
    /\ CanRun(t)
    /\ pc[t] = "expired"
    /\ pc' = [pc EXCEPT ![t] = "failed"]
    /\ UNCHANGED <<calls, id, nodeVars, macVars, rxVars, bkVars, histVars>>

\* The expired caller takes its node off the list, interrupts disabled.
Withdraw(t) ==
    /\ CanRun(t)
    /\ pc[t] = "expired"
    /\ txHead' = co_list_extract(txHead, Cur(t))
    /\ pc' = [pc EXCEPT ![t] = "failed"]
    /\ UNCHANGED <<calls, id, live, given, macVars, rxVars, bkVars, histVars>>

\* The semaphore and the node are released and 0 is returned.
ReturnOk(t) ==
    /\ CanRun(t)
    /\ pc[t] = "confirmed"
    /\ live' = live \ {Cur(t)}
    /\ given' = given \ {Cur(t)}
    /\ pc' = [pc EXCEPT ![t] = "idle"]
    /\ UNCHANGED <<calls, id, txHead, macVars, rxVars, bkVars, histVars>>

\* failed_or_timeout: the same, and -1.
ReturnFailed(t) ==
    /\ CanRun(t)
    /\ pc[t] = "failed"
    /\ live' = live \ {Cur(t)}
    /\ given' = given \ {Cur(t)}
    /\ dangling' = dangling \cup
           (IF Cur(t) \in live \ timedOut THEN {Cur(t)} ELSE {})
    /\ pc' = [pc EXCEPT ![t] = "idle"]
    /\ UNCHANGED <<calls, id, txHead, macVars, rxVars, bkVars, answers,
                   timedOut>>

CallerReturns(t) ==
    \/ Post(t) \/ PostFails(t)
    \/ Confirmed(t) \/ Timeout(t) \/ Withdraw(t)
    \/ ReturnOk(t) \/ ReturnFailed(t)

-----------------------------------------------------------------------------
(* The core thread and the MAC behind it.                                  *)

\* Any other sender of the core queue (received frames, data to transmit,
\* power save): it only takes a place.
PostOther ==
    /\ others < MaxOther
    /\ Len(ioQueue) < QLen
    /\ ioQueue' = Append(ioQueue, DATA)
    /\ others' = others + 1
    /\ UNCHANGED <<callVars, nodeVars, mac, inds, rxVars, bkVars, histVars>>

\* core_thread_main takes one message; an ioctl goes to the MAC.
CoreThread ==
    /\ ioQueue # <<>>
    /\ mac' = IF Head(ioQueue) = DATA THEN mac
              ELSE mac \cup {Head(ioQueue)}
    /\ ioQueue' = Tail(ioQueue)
    /\ UNCHANGED <<callVars, nodeVars, others, inds, rxVars, bkVars, histVars>>

\* mr_kmsg_fwd: link the message and wake kmsgbk.  app_sema counts to 1.
mr_kmsg_fwd(m) ==
    /\ rxHead' = co_list_push_back(rxHead, m)
    /\ appSema' = 1

\* The MAC answers a request, in any order; it need not answer at all.
MacAnswer(m) ==
    /\ m \in mac
    /\ mac' = mac \ {m}
    /\ mr_kmsg_fwd(m)
    /\ UNCHANGED <<callVars, nodeVars, ioQueue, others, inds, bkVars, histVars>>

\* The MAC reports something nobody asked for.
MacIndicate ==
    /\ inds < MaxInd
    /\ inds' = inds + 1
    /\ mr_kmsg_fwd(IND)
    /\ UNCHANGED <<callVars, nodeVars, ioQueue, mac, others, bkVars, histVars>>

-----------------------------------------------------------------------------
(* The kmsgbk thread: kmsg_bk_thread_main around rwnx_recv_msg.            *)

TakeAppSema ==
    /\ kpc = "sema"
    /\ appSema = 1
    /\ appSema' = 0
    /\ kpc' = "pop"
    /\ UNCHANGED <<callVars, nodeVars, macVars, rxHead, rxMsg, txNode, histVars>>

\* co_list_pop_front, which shuts the core thread out while it runs.
Pop ==
    /\ kpc = "pop"
    /\ \/ /\ rxHead = <<>>
          /\ kpc' = "sema"
          /\ UNCHANGED <<rxHead, rxMsg>>
       \/ /\ rxHead # <<>>
          /\ kpc' = "match"
          /\ rxMsg' = Head(rxHead)
          /\ rxHead' = Tail(rxHead)
    /\ UNCHANGED <<callVars, nodeVars, macVars, appSema, txNode, histVars>>

\* Where the nodes that wait for message m are on the list.
Waiting(m) == {k \in DOMAIN txHead : m # IND /\ txHead[k].id = m.id}

\* The traversal stops at the first of them.
Match ==
    /\ kpc = "match"
    /\ \/ \E k \in Waiting(rxMsg) :
              /\ \A j \in Waiting(rxMsg) : k <= j
              /\ txNode' = txHead[k]
              /\ kpc' = "extract"
       \/ /\ Waiting(rxMsg) = {}
          /\ kpc' = "handle"
          /\ UNCHANGED txNode
    /\ UNCHANGED <<callVars, nodeVars, macVars, rxVars, rxMsg, histVars>>

\* The matched node leaves the list, interrupts disabled.
Extract ==
    /\ kpc = "extract"
    /\ txHead' = co_list_extract(txHead, txNode)
    /\ kpc' = "copy"
    /\ UNCHANGED <<callVars, live, given, macVars, rxVars, rxMsg, txNode,
                   histVars>>

\* Mutant: the test of param_len is inverted.
CopyInverted ==
    /\ kpc = "copy"
    /\ answers' = IF rxMsg.id \in EmptyId
                  THEN answers \cup {<<txNode, rxMsg>>} ELSE answers
    /\ kpc' = "signal"
    /\ UNCHANGED <<callVars, nodeVars, macVars, rxVars, rxMsg, txNode,
                   timedOut, dangling>>

\* os_memcpy of the parameters into the caller's buffer.
Copy ==
    /\ kpc = "copy"
    /\ answers' = IF rxMsg.id \in EmptyId THEN answers
                  ELSE answers \cup {<<txNode, rxMsg>>}
    /\ kpc' = "signal"
    /\ UNCHANGED <<callVars, nodeVars, macVars, rxVars, rxMsg, txNode,
                   timedOut, dangling>>

\* rtos_set_semaphore on a semaphore that exists and has count 0 succeeds.
\* Otherwise the handle is gone or full: the ASSERT spins for ever.
Signal ==
    /\ kpc = "signal"
    /\ IF txNode \in live \ given
       THEN /\ given' = given \cup {txNode}
            /\ kpc' = "pop"
       ELSE /\ kpc' = "assert"
            /\ UNCHANGED given
    /\ UNCHANGED <<callVars, live, txHead, macVars, rxVars, rxMsg, txNode,
                   histVars>>

\* Mutant: one message per wakeup instead of a loop until the list is empty.
HandleOnce ==
    /\ kpc = "handle"
    /\ kpc' = "sema"
    /\ UNCHANGED <<callVars, nodeVars, macVars, rxVars, rxMsg, txNode, histVars>>

\* rwnx_handle_recv_msg: nobody waits for this message.
Handle ==
    /\ kpc = "handle"
    /\ kpc' = "pop"
    /\ UNCHANGED <<callVars, nodeVars, macVars, rxVars, rxMsg, txNode, histVars>>

rwnx_recv_msg ==
    \/ Pop \/ Match \/ Extract \/ Copy \/ Signal
    \/ Handle

kmsg_bk_thread == TakeAppSema \/ rwnx_recv_msg

-----------------------------------------------------------------------------
Next ==
    \/ \E t \in Thread :
           \/ \E i \in Id : Call(t, i)
           \/ CallNoMemory(t)
           \/ CallerReturns(t)
    \/ PostOther
    \/ CoreThread
    \/ \E m \in mac : MacAnswer(m)
    \/ MacIndicate
    \/ kmsg_bk_thread

\* Both worker threads keep running, and a caller inside rw_msg_send goes on
\* when the processor is free (its wait is bounded by the five seconds).
\* Nothing is assumed of the MAC: it may never answer.
Fairness ==
    /\ WF_vars(CoreThread)
    /\ WF_vars(kmsg_bk_thread)
    /\ \A t \in Thread : WF_vars(CallerReturns(t))

Spec == Init /\ [][Next]_vars /\ Fairness

-----------------------------------------------------------------------------
(* Properties.                                                             *)

\* Every variable stays in its range; in particular the core queue never
\* exceeds CORE_QITEM_COUNT and app_sema stays a binary semaphore.
TypeOK ==
    /\ calls \in [Thread -> 0..MaxCalls]
    /\ id \in [Thread -> Id \cup {NONE}]
    /\ pc \in [Thread -> {"idle", "post", "wait", "expired", "confirmed",
                          "failed"}]
    /\ live \subseteq Node
    /\ given \subseteq Node
    /\ txHead \in Seq(Node)
    /\ ioQueue \in Seq(Node \cup {DATA})
    /\ Len(ioQueue) <= QLen
    /\ mac \subseteq Node
    /\ rxHead \in Seq(Node \cup {IND})
    /\ appSema \in {0, 1}
    /\ kpc \in {"sema", "pop", "match", "extract", "copy", "signal", "handle",
                "assert"}
    /\ rxMsg \in Node \cup {IND, NONE}
    /\ txNode \in Node \cup {NONE}
    /\ others \in 0..MaxOther
    /\ inds \in 0..MaxInd
    /\ answers \subseteq Node \X Node
    /\ timedOut \subseteq Node
    /\ dangling \subseteq Node

\* ASSERT(0 == ret) after rtos_set_semaphore in rwnx_recv_msg: the node that
\* kmsgbk has matched still exists, and its semaphore has not been given yet.
SetSemaphoreSucceeds ==
    kpc \in {"extract", "copy", "signal"} => txNode \in live \ given

\* The only nodes kmsgbk may touch after their release are those of calls
\* whose post failed: every other caller has its node off the list, or is
\* still inside rw_msg_send, whenever kmsgbk copies an answer and signals.
OnlyFailedPostDangles ==
    /\ Elems(txHead) \subseteq live \cup dangling
    /\ kpc \in {"extract", "copy", "signal"} =>
           txNode \in (live \ given) \cup dangling

\* A call that returns 0 has the parameters of a confirm with the id it asked
\* for, no confirm answers two calls and no call is answered twice.
AnswersAreOneToOne ==
    /\ \A t \in Thread :
           pc[t] = "confirmed" /\ id[t] \notin EmptyId =>
               \E m \in Node : <<Cur(t), m>> \in answers
    /\ \A a \in answers : a[1].id = a[2].id
    /\ \A a, b \in answers : (a[1] = b[1]) <=> (a[2] = b[2])

\* When no two threads make the same request, a caller that receives the
\* answer to another call only receives that of an earlier call of its own
\* for the same id, and only after a call for that id has timed out; and an
\* answer that nobody receives though its caller waits went to the node that
\* a failed post of the same thread and id left on the list.
StaleAnswerNeedsTimeout ==
    \A a \in answers :
        a[1] # a[2] =>
            /\ a[1].thd = a[2].thd
            /\ \/ /\ a[2].seq < a[1].seq
                  /\ \E n \in timedOut : n.id = a[1].id /\ n.seq < a[1].seq
               \/ a[1] \in dangling /\ a[1].seq < a[2].seq

\* No wakeup is lost between mr_kmsg_fwd and kmsgbk although app_sema counts
\* only to 1: forwarded messages are always drained.
RxDrained == rxHead # <<>> ~> rxHead = <<>>

\* Every call of rw_msg_send returns, whatever the MAC does.
CallReturns == \A t \in Thread : pc[t] # "idle" ~> pc[t] = "idle"
=============================================================================
