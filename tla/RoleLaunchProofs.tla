--------------------------- MODULE RoleLaunchProofs ---------------------------
(***************************************************************************)
(* Proofs about RoleLaunch for any number of requests, stops and airkiss   *)
(* sessions.                                                               *)
(***************************************************************************)
EXTENDS RoleLaunch, TLAPS

\* NONE is not a request of either role.
LEMMA NoneIsNoRequest ==
  NONE \notin StaReq /\ NONE \notin ApReq /\ NONE \notin CacheReq
  BY NoneAssumption
     DEF Request, StaReq, ApReq, CacheReq, ReqType, StaType, ApType

\* The initial state is well typed.
LEMMA TypeInit == Init => TypeOK
<1> SUFFICES ASSUME Init PROVE TypeOK
  OBVIOUS
<1>1. QueueTypeOK
  BY DEF Init, QueueTypeOK
<1>2. TaskTypeOK
  BY DEF Init, TaskTypeOK
<1>3. StatusTypeOK
  BY DEF Init, StatusTypeOK, StaStatus, ApStatus
<1>4. FlagTypeOK
  BY Zenon DEF Init, FlagTypeOK
<1> QED
  BY <1>1, <1>2, <1>3, <1>4 DEF TypeOK

\* What SaveCache leaves in g_sta_cache is a station request to redo.
LEMMA SaveCacheType ==
  ASSUME cache \in CacheReq \cup {NONE}, NEW r \in StaReq
  PROVE  SaveCache(r) \in CacheReq \cup {NONE}
  BY DEF SaveCache, StaReq, CacheReq

\* Every step keeps the queues' types.
LEMMA QueueTypeStep ==
  ASSUME TypeOK, Next
  PROVE  QueueTypeOK'
<1> USE DEF TypeOK, QueueTypeOK, TaskTypeOK, sockVars, staVars, apVars, taskVars
<1>1. CASE rl_enter_handler
  BY <1>1, SaveCacheType, NoneIsNoRequest
     DEF rl_enter_handler, ClearSocket, sta_request_enter, rl_sta_request_start
<1>2. CASE ap_request_enter
  BY <1>2 DEF ap_request_enter, rl_ap_request_start
<1>3. CASE rl_launch_handler
  BY <1>3 DEF rl_launch_handler, rl_launch_sta, rl_launch_ap,
       rl_sta_request_start, rl_ap_request_start
<1>4. CASE bk_wlan_start_sta \/ DelifSta \/ bk_wlan_start_scan
  BY <1>4, SaveCacheType
     DEF bk_wlan_start_sta, DelifSta, bk_wlan_start_scan, StaStarted
<1>5. CASE bk_wlan_ap_init \/ bk_wlan_start_ap \/ DelifAp
  BY <1>5 DEF bk_wlan_ap_init, bk_wlan_start_ap, DelifAp, ApStarted
<1>6. CASE rl_enter_handler_no_memory
  BY <1>6 DEF rl_enter_handler_no_memory
<1>7. CASE \E t \in StaType : RequestSta(t)
  <2>1. PICK t \in StaType : RequestSta(t)
    BY <1>7
  <2>2. [type |-> t, no |-> reqs + 1, redo |-> FALSE] \in StaReq
    BY DEF StaReq
  <2> QED
    BY <2>1, <2>2 DEF RequestSta, rl_sta_request_enter
<1>8. CASE \E t \in ApType : rl_ap_request_enter(t)
  <2>1. PICK t \in ApType : rl_ap_request_enter(t)
    BY <1>8
  <2>2. [type |-> t, no |-> reqs + 1, redo |-> FALSE] \in ApReq
    BY DEF ApReq
  <2> QED
    BY <2>1, <2>2 DEF rl_ap_request_enter
<1>9. CASE bk_wlan_stop \/ bk_wlan_stop_returns \/ bk_wlan_stop_ap
             \/ bk_wlan_start_sta_adv
  BY <1>9 DEF bk_wlan_stop, bk_wlan_stop_returns, bk_wlan_stop_ap,
       bk_wlan_start_sta_adv
<1>10. CASE bk_wlan_start_sta_adv_returns
  <2>1. [type |-> "STA", no |-> reqs, redo |-> TRUE] \in CacheReq
    BY DEF CacheReq
  <2> QED
    BY <1>10, <2>1 DEF bk_wlan_start_sta_adv_returns
<1>11. CASE \E loss \in BOOLEAN : mhdr_disconnect_ind(loss)
  <2>1. PICK loss \in BOOLEAN : mhdr_disconnect_ind(loss)
    BY <1>11
  <2>2. [type |-> "DELIF_STA", no |-> reqs, redo |-> TRUE] \in StaReq
    BY DEF StaReq, StaType
  <2>3. cache # NONE => cache \in StaReq
    BY DEF StaReq, StaType, CacheReq
  <2> QED
    BY <2>1, <2>2, <2>3
       DEF mhdr_disconnect_ind, rl_sta_cache_request_enter, rl_sta_request_enter
<1>12. CASE ScanCfm \/ Supplicant \/ ApBeacon \/ rl_set_csa_switching
              \/ rl_set_csa_switched \/ Airkiss
  BY <1>12 DEF ScanCfm, Supplicant, ApBeacon, rl_set_csa_switching,
       rl_set_csa_switched, Airkiss
<1> QED
  BY <1>1, <1>2, <1>3, <1>4, <1>5, <1>6, <1>7, <1>8, <1>9, <1>10, <1>11, <1>12
     DEF Next, TimerTask, Application, Environment

\* Every step keeps the timer task's variables consistent with each other.
LEMMA TaskTypeStep ==
  ASSUME TypeOK, Next
  PROVE  TaskTypeOK'
<1> USE DEF TypeOK, QueueTypeOK, TaskTypeOK, taskVars, boundVars, histVars
<1>1. CASE rl_enter_handler
  BY <1>1 DEF rl_enter_handler, sta_request_enter, rl_sta_request_start, StaReq
<1>2. CASE ap_request_enter
  BY <1>2 DEF ap_request_enter, rl_ap_request_start
<1>3. CASE rl_launch_handler
  <2>1. CASE ~Starts
    <3>1. lastSta' \in Nat
      BY <1>3, <2>1 DEF rl_launch_handler, rl_launch_sta, Starts
    <3> QED
      BY <1>3, <2>1, <3>1 DEF rl_launch_handler
  <2>2. CASE StaTurn /\ StaStart
    <3>1. rl_sta_request_start(folSta, flags \cup {"DOING"}, "launch")
      BY <1>3, <2>2 DEF rl_launch_handler, rl_launch_sta
    <3>2. folSta \in StaReq
      BY <2>2 DEF StaStart
    <3> QED
      BY <1>3, <2>2, <3>1, <3>2
         DEF rl_launch_handler, rl_sta_request_start, StaReq, Starts
  <2>3. CASE ApTurn /\ ApStart /\ ~(StaTurn /\ StaStart)
    <3>1. rl_ap_request_start(folAp, "launch")
      BY <1>3, <2>3 DEF rl_launch_handler, rl_launch_ap
    <3>2. folAp \in ApReq
      BY <2>3 DEF ApStart
    <3>3. lastSta' \in Nat
      BY <1>3, <2>3 DEF rl_launch_handler, rl_launch_sta
    <3> QED
      BY <1>3, <2>3, <3>1, <3>2, <3>3
         DEF rl_launch_handler, rl_ap_request_start, Starts
  <2> QED
    BY <2>1, <2>2, <2>3 DEF Starts
<1>4. CASE bk_wlan_start_sta \/ DelifSta \/ bk_wlan_start_scan
  BY <1>4 DEF bk_wlan_start_sta, DelifSta, bk_wlan_start_scan, StaStarted
<1>5. CASE bk_wlan_ap_init \/ bk_wlan_start_ap \/ DelifAp
  BY <1>5 DEF bk_wlan_ap_init, bk_wlan_start_ap, DelifAp, ApStarted
<1>6. CASE rl_enter_handler_no_memory
  BY <1>6 DEF rl_enter_handler_no_memory
<1>7. CASE \E t \in StaType : RequestSta(t)
  BY <1>7 DEF RequestSta
<1>8. CASE \E t \in ApType : rl_ap_request_enter(t)
  BY <1>8 DEF rl_ap_request_enter
<1>9. CASE bk_wlan_stop \/ bk_wlan_stop_returns \/ bk_wlan_stop_ap
             \/ bk_wlan_start_sta_adv \/ bk_wlan_start_sta_adv_returns
  BY <1>9 DEF bk_wlan_stop, bk_wlan_stop_returns, bk_wlan_stop_ap,
       bk_wlan_start_sta_adv, bk_wlan_start_sta_adv_returns
<1>10. CASE \E loss \in BOOLEAN : mhdr_disconnect_ind(loss)
  BY <1>10 DEF mhdr_disconnect_ind
<1>11. CASE ScanCfm \/ Supplicant \/ ApBeacon \/ rl_set_csa_switching
              \/ rl_set_csa_switched \/ Airkiss
  BY <1>11 DEF ScanCfm, Supplicant, ApBeacon, rl_set_csa_switching,
       rl_set_csa_switched, Airkiss
<1> QED
  BY <1>1, <1>2, <1>3, <1>4, <1>5, <1>6, <1>7, <1>8, <1>9, <1>10, <1>11
     DEF Next, TimerTask, Application, Environment

\* Starting a station request sets no flag outside rl_status.
LEMMA StartFlags ==
  ASSUME NEW r \in StaReq, NEW fl \in SUBSET Flag, NEW h,
         rl_sta_request_start(r, fl, h)
  PROVE  flags' \in SUBSET Flag
<1>1. r.type \in StaType
  BY DEF StaReq
<1>2. CASE r.type = "STA"
  BY <1>2 DEF rl_sta_request_start, Flag
<1>3. CASE r.type = "DELIF_STA"
  BY <1>3 DEF rl_sta_request_start, Flag
<1>4. CASE r.type = "PURE_STA_SCAN"
  BY <1>4 DEF rl_sta_request_start
<1> QED
  BY <1>1, <1>2, <1>3, <1>4 DEF StaType

\* Every step keeps the status words well typed.
LEMMA StatusTypeStep ==
  ASSUME TypeOK, Next
  PROVE  StatusTypeOK'
<1> USE DEF TypeOK, QueueTypeOK, StatusTypeOK, statVars, apStVars, macVars,
            boundVars, histVars
<1>1. CASE rl_enter_handler
  <2>1. flags' \in SUBSET Flag
    BY <1>1, StartFlags DEF rl_enter_handler, sta_request_enter, Flag
  <2>2. staStatus' \in StaStatus
    BY <1>1 DEF rl_enter_handler, sta_request_enter, rl_sta_request_start,
         StaStatus
  <2>3. preType' \in {"IDLE", "STA", "AP"}
    BY <1>1 DEF rl_enter_handler, sta_request_enter
  <2> QED
    BY <1>1, <2>1, <2>2, <2>3 DEF rl_enter_handler
<1>2. CASE ap_request_enter
  <2>1. apStatus' \in ApStatus
    BY <1>2 DEF ap_request_enter, rl_ap_request_start, ApStatus
  <2>2. flags' \in SUBSET Flag /\ preType' \in {"IDLE", "STA", "AP"}
    BY <1>2 DEF ap_request_enter
  <2> QED
    BY <1>2, <2>1, <2>2 DEF ap_request_enter
<1>3. CASE rl_launch_handler
  <2>1. staStatus' \in StaStatus
    BY <1>3 DEF rl_launch_handler, rl_launch_sta, rl_sta_request_start,
         StaStatus
  <2>2. apStatus' \in ApStatus
    BY <1>3 DEF rl_launch_handler, rl_launch_ap, rl_ap_request_start, ApStatus
  <2>3. flags' \in SUBSET Flag
    <3>1. CASE StaTurn /\ StaStart
      <4>1. rl_sta_request_start(folSta, flags \cup {"DOING"}, "launch")
        BY <1>3, <3>1 DEF rl_launch_handler, rl_launch_sta
      <4>2. folSta \in StaReq
        BY <3>1 DEF StaStart, QueueTypeOK
      <4> QED
        BY <4>1, <4>2, StartFlags DEF Flag
    <3>2. CASE ApTurn /\ ApStart /\ ~(StaTurn /\ StaStart)
      BY <1>3, <3>2 DEF rl_launch_handler, rl_launch_ap, Flag
    <3>3. CASE ~Starts
      BY <1>3, <3>3 DEF rl_launch_handler
    <3> QED
      BY <3>1, <3>2, <3>3 DEF Starts
  <2>4. preType' \in {"IDLE", "STA", "AP"}
    BY <1>3 DEF rl_launch_handler
  <2> QED
    BY <1>3, <2>1, <2>2, <2>3, <2>4 DEF rl_launch_handler
<1>4. CASE bk_wlan_start_sta \/ DelifSta \/ bk_wlan_start_scan
  BY <1>4 DEF bk_wlan_start_sta, DelifSta, bk_wlan_start_scan, StaStarted,
       scanu_req, StaStatus
<1>5. CASE bk_wlan_ap_init \/ bk_wlan_start_ap \/ DelifAp
  BY <1>5 DEF bk_wlan_ap_init, bk_wlan_start_ap, DelifAp, ApStarted, StopAp,
       rl_pre_ap_set_status, ApStatus
<1>6. CASE rl_enter_handler_no_memory
  BY <1>6 DEF rl_enter_handler_no_memory
<1>7. CASE \E t \in StaType : RequestSta(t)
  BY <1>7 DEF RequestSta, rl_sta_request_enter
<1>8. CASE \E t \in ApType : rl_ap_request_enter(t)
  BY <1>8 DEF rl_ap_request_enter
<1>9. CASE bk_wlan_stop
  BY <1>9 DEF bk_wlan_stop, StopSta, StaStatus, Flag
<1>10. CASE bk_wlan_stop_returns
  BY <1>10 DEF bk_wlan_stop_returns, StoppedSta, StaStatus
<1>11. CASE bk_wlan_stop_ap
  BY <1>11 DEF bk_wlan_stop_ap, StopAp, rl_pre_ap_set_status, ApStatus
<1>12. CASE bk_wlan_start_sta_adv
  BY <1>12 DEF bk_wlan_start_sta_adv, StopSta, StaStatus, Flag
<1>13. CASE bk_wlan_start_sta_adv_returns
  <2>1. flags' \in SUBSET Flag
    BY <1>13 DEF bk_wlan_start_sta_adv_returns, Flag
  <2>2. staStatus' \in StaStatus /\ sess' \in {"none", "up", "assoc", "dhcp"}
    BY <1>13 DEF bk_wlan_start_sta_adv_returns, StaStatus
  <2> QED
    BY <1>13, <2>1, <2>2 DEF bk_wlan_start_sta_adv_returns
<1>14. CASE \E loss \in BOOLEAN : mhdr_disconnect_ind(loss)
  BY <1>14 DEF mhdr_disconnect_ind, rl_sta_cache_request_enter,
       rl_sta_request_enter, StaStatus
<1>15. CASE ScanCfm
  BY <1>15 DEF ScanCfm, StaStatus
<1>16. CASE Supplicant
  BY <1>16 DEF Supplicant, WpaScan, WpaAssoc, DhcpStart, DhcpBound, scanu_req,
       StaStatus
<1>17. CASE ApBeacon
  BY <1>17 DEF ApBeacon, rl_pre_ap_set_status, ApStatus
<1>18. CASE rl_set_csa_switching \/ rl_set_csa_switched
  BY <1>18 DEF rl_set_csa_switching, rl_set_csa_switched
<1>19. CASE Airkiss
  <2>1. flags' \in SUBSET Flag
    BY <1>19 DEF Airkiss, AirkissPause, AirkissMonitor, AirkissDone, Flag
  <2>2. airkiss' \in {"off", "waiting", "monitor"} /\ pauses' \in Nat
    BY <1>19 DEF Airkiss, AirkissPause, AirkissMonitor, AirkissDone
  <2> QED
    BY <1>19, <2>1, <2>2 DEF Airkiss
<1> QED
  BY <1>1, <1>2, <1>3, <1>4, <1>5, <1>6, <1>7, <1>8, <1>9, <1>10, <1>11, <1>12,
     <1>13, <1>14, <1>15, <1>16, <1>17, <1>18, <1>19
     DEF Next, TimerTask, Application, Environment

\* Every step keeps the Boolean variables Boolean.
LEMMA FlagTypeStep ==
  ASSUME TypeOK, Next
  PROVE  FlagTypeOK'
<1> USE DEF TypeOK, FlagTypeOK, timerVars, statVars, apStVars, macVars, histVars
<1>1. CASE rl_enter_handler
  BY <1>1, Zenon DEF rl_enter_handler, sta_request_enter, rl_sta_request_start
<1>2. CASE ap_request_enter
  BY <1>2, Zenon DEF ap_request_enter, rl_ap_request_start
<1>3. CASE rl_launch_handler
  <2>1. staCancel' \in BOOLEAN
    BY <1>3, Zenon DEF rl_launch_handler, rl_launch_sta, rl_sta_request_start,
         StaCancelled
  <2>2. apMark' \in BOOLEAN /\ apCancel' \in BOOLEAN
    BY <1>3, Zenon DEF rl_launch_handler, rl_launch_ap, rl_ap_request_start
  <2>3. rlTimer' \in BOOLEAN
    BY <1>3, Zenon DEF rl_launch_handler, rl_relaunch_chance
  <2>4. erased' \in BOOLEAN
    BY <1>3, Zenon DEF rl_launch_handler, rl_launch_sta, rl_sta_request_start
  <2> QED
    BY <1>3, <2>1, <2>2, <2>3, <2>4, Zenon DEF rl_launch_handler
<1>4. CASE bk_wlan_start_sta \/ DelifSta \/ bk_wlan_start_scan
  BY <1>4, Zenon DEF bk_wlan_start_sta, DelifSta, bk_wlan_start_scan, StaStarted
<1>5. CASE bk_wlan_ap_init \/ bk_wlan_start_ap \/ DelifAp
  <2>1. apMark' \in BOOLEAN
    BY <1>5, Zenon DEF bk_wlan_ap_init, bk_wlan_start_ap, DelifAp, StopAp,
         rl_pre_ap_set_status
  <2>2. rlTimer' \in BOOLEAN
    BY <1>5, Zenon DEF bk_wlan_ap_init, bk_wlan_start_ap, DelifAp, ApStarted
  <2>3. UNCHANGED <<enterTimer, staCancel, apCancel, macDisc, stopped, erased>>
    BY <1>5 DEF bk_wlan_ap_init, bk_wlan_start_ap, DelifAp, ApStarted
  <2> QED
    BY <2>1, <2>2, <2>3, Zenon
<1>6. CASE rl_enter_handler_no_memory
  BY <1>6, Zenon DEF rl_enter_handler_no_memory
<1>7. CASE \E t \in StaType : RequestSta(t)
  BY <1>7, Zenon DEF RequestSta, rl_sta_request_enter
<1>8. CASE \E t \in ApType : rl_ap_request_enter(t)
  BY <1>8, Zenon DEF rl_ap_request_enter
<1>9. CASE bk_wlan_stop \/ bk_wlan_start_sta_adv
  BY <1>9, Zenon DEF bk_wlan_stop, bk_wlan_start_sta_adv, StopSta
<1>10. CASE bk_wlan_stop_returns \/ bk_wlan_start_sta_adv_returns
  BY <1>10, Zenon
     DEF bk_wlan_stop_returns, bk_wlan_start_sta_adv_returns, StoppedSta
<1>11. CASE bk_wlan_stop_ap
  BY <1>11, Zenon DEF bk_wlan_stop_ap, StopAp, rl_pre_ap_set_status
<1>12. CASE \E loss \in BOOLEAN : mhdr_disconnect_ind(loss)
  BY <1>12, Zenon DEF mhdr_disconnect_ind, rl_sta_cache_request_enter,
       rl_sta_request_enter
<1>13. CASE ApBeacon
  BY <1>13, Zenon DEF ApBeacon, rl_pre_ap_set_status
<1>14. CASE ScanCfm \/ Supplicant \/ rl_set_csa_switching
              \/ rl_set_csa_switched \/ Airkiss
  BY <1>14, Zenon DEF ScanCfm, Supplicant, rl_set_csa_switching,
       rl_set_csa_switched, Airkiss
<1> QED
  BY <1>1, <1>2, <1>3, <1>4, <1>5, <1>6, <1>7, <1>8, <1>9, <1>10, <1>11, <1>12,
     <1>13, <1>14
     DEF Next, TimerTask, Application, Environment

\* Type correctness of every reachable state, for any number of requests,
\* stops and airkiss sessions: no handler of role_launch.c ever starts an AP
\* request as a station, nor caches anything but a station request.
THEOREM TypeCorrect == Spec => []TypeOK
<1>1. TypeOK /\ [Next]_vars => TypeOK'
  <2>1. ASSUME TypeOK, Next PROVE TypeOK'
    BY <2>1, QueueTypeStep, TaskTypeStep, StatusTypeStep, FlagTypeStep
       DEF TypeOK
  <2>2. ASSUME TypeOK, UNCHANGED vars PROVE TypeOK'
    BY <2>2 DEF TypeOK, QueueTypeOK, TaskTypeOK, StatusTypeOK, FlagTypeOK, vars, sockVars,
         timerVars, staVars, apVars, statVars, apStVars, taskVars, macVars,
         boundVars, histVars
  <2> QED
    BY <2>1, <2>2
<1> QED
  BY <1>1, TypeInit, PTL DEF Spec

-----------------------------------------------------------------------------
(* The pause handshake, the launch timer and the order of starts.          *)

\* PENDING or DOING covers every start, and airkiss holds PAUSE from before it
\* begins to wait until after monitor mode.
PauseInv ==
    /\ pc = "sta" => "DOING" \in flags
    /\ by = "launch" => "DOING" \in flags
    /\ by = "enter" => "PENDING" \in flags
    /\ airkiss # "off" => "PAUSE" \in flags
    /\ airkiss = "monitor" => pc = "idle"

\* Only rl_launch_handler itself, which starts the timer again when it ends,
\* sees a queued request without a running launch timer.
TimerInv ==
    /\ by # "launch" /\ (folSta # NONE \/ folAp # NONE) => rlTimer
    /\ preType = "IDLE" => folSta = NONE /\ folAp = NONE

\* Requests of applications wait in the order in which they were made, and a
\* queued one waits behind a previous one.
OrderInv ==
    /\ folSta # NONE => prevSta # NONE \/ prevAp # NONE
    /\ lastSta <= reqs
    /\ folSta # NONE /\ ~folSta.redo =>
           lastSta < folSta.no /\ folSta.no <= reqs
    /\ sockSta # NONE /\ ~sockSta.redo =>
           lastSta < sockSta.no /\ sockSta.no <= reqs
    /\ folSta # NONE /\ ~folSta.redo /\ sockSta # NONE /\ ~sockSta.redo =>
           folSta.no < sockSta.no

\* The handshake is kept by every step.
LEMMA PauseStep ==
  ASSUME TypeOK, PauseInv, Next
  PROVE  PauseInv'
<1> USE DEF TypeOK, TaskTypeOK, StatusTypeOK, PauseInv, taskVars
<1>1. CASE rl_enter_handler
  BY <1>1 DEF rl_enter_handler, sta_request_enter, rl_sta_request_start, Paused
<1>2. CASE ap_request_enter
  BY <1>2 DEF ap_request_enter, rl_ap_request_start
<1>3. CASE rl_launch_handler
  BY <1>3 DEF rl_launch_handler, rl_launch_sta, rl_launch_ap, Starts, StaStart,
       ApStart, rl_sta_request_start, rl_ap_request_start, Paused
<1>4. CASE bk_wlan_start_sta \/ DelifSta \/ bk_wlan_start_scan
  BY <1>4 DEF bk_wlan_start_sta, DelifSta, bk_wlan_start_scan, StaStarted
<1>5. CASE bk_wlan_ap_init \/ bk_wlan_start_ap \/ DelifAp
  BY <1>5 DEF bk_wlan_ap_init, bk_wlan_start_ap, DelifAp, ApStarted
<1>6. CASE rl_enter_handler_no_memory
  BY <1>6 DEF rl_enter_handler_no_memory
<1>7. CASE \E t \in StaType : RequestSta(t)
  BY <1>7 DEF RequestSta, rl_sta_request_enter
<1>8. CASE \E t \in ApType : rl_ap_request_enter(t)
  BY <1>8 DEF rl_ap_request_enter
<1>9. CASE bk_wlan_stop \/ bk_wlan_stop_returns \/ bk_wlan_stop_ap
             \/ bk_wlan_start_sta_adv \/ bk_wlan_start_sta_adv_returns
  BY <1>9 DEF bk_wlan_stop, bk_wlan_stop_returns, bk_wlan_stop_ap, StopSta,
       bk_wlan_start_sta_adv, bk_wlan_start_sta_adv_returns
<1>10. CASE \E loss \in BOOLEAN : mhdr_disconnect_ind(loss)
  BY <1>10 DEF mhdr_disconnect_ind, rl_sta_cache_request_enter,
       rl_sta_request_enter
<1>11. CASE ScanCfm \/ Supplicant \/ ApBeacon \/ rl_set_csa_switching
              \/ rl_set_csa_switched
  BY <1>11 DEF ScanCfm, Supplicant, ApBeacon, rl_set_csa_switching,
       rl_set_csa_switched
<1>12. CASE Airkiss
  BY <1>12 DEF Airkiss, AirkissPause, AirkissMonitor, AirkissDone,
       rl_status_is_idle
<1> QED
  BY <1>1, <1>2, <1>3, <1>4, <1>5, <1>6, <1>7, <1>8, <1>9, <1>10, <1>11, <1>12
     DEF Next, TimerTask, Application, Environment

\* The launch timer is kept running by every step.
LEMMA TimerStep ==
  ASSUME TypeOK, TimerInv, Next
  PROVE  TimerInv'
<1> USE DEF TypeOK, TaskTypeOK, TimerInv, taskVars, timerVars, staVars, apVars
<1>1. CASE rl_enter_handler
  BY <1>1 DEF rl_enter_handler, sta_request_enter, rl_sta_request_start
<1>2. CASE ap_request_enter
  BY <1>2 DEF ap_request_enter, rl_ap_request_start
<1>3. CASE rl_launch_handler
  <2>1. CASE Starts
    <3>1. by' = "launch"
      BY <1>3, <2>1 DEF rl_launch_handler, rl_launch_sta, rl_launch_ap, Starts,
           rl_sta_request_start, rl_ap_request_start
    <3>2. preType' # "IDLE"
      BY <1>3, <2>1 DEF rl_launch_handler, StaTurn, ApTurn, Starts
    <3> QED
      BY <3>1, <3>2
  <2>2. CASE ~Starts /\ preType = "IDLE"
    BY <1>3, <2>2 DEF rl_launch_handler, StaTurn, ApTurn
  <2>3. CASE ~Starts /\ preType # "IDLE"
    <3>1. preType' # "IDLE"
      BY <1>3, <2>3 DEF rl_launch_handler
    <3>2. CASE rl_relaunch_chance
      BY <1>3, <2>3, <3>1, <3>2 DEF rl_launch_handler
    <3>3. CASE ~rl_relaunch_chance
      <4>1. StaTurn /\ ApTurn
        BY <2>3, <3>3 DEF StatusTypeOK, StaTurn, ApTurn, StaOver, ApOver,
             Starts, rl_relaunch_chance
      <4>2. folSta' = NONE /\ folAp' = NONE
        BY <1>3, <3>3, <4>1 DEF rl_launch_handler, rl_launch_sta, rl_launch_ap,
             rl_relaunch_chance
      <4> QED
        BY <4>2
    <3> QED
      BY <3>2, <3>3
  <2> QED
    BY <2>1, <2>2, <2>3
<1>4. CASE bk_wlan_start_sta \/ DelifSta \/ bk_wlan_start_scan
  BY <1>4 DEF bk_wlan_start_sta, DelifSta, bk_wlan_start_scan, StaStarted
<1>5. CASE bk_wlan_ap_init \/ bk_wlan_start_ap \/ DelifAp
  BY <1>5 DEF bk_wlan_ap_init, bk_wlan_start_ap, DelifAp, ApStarted
<1>6. CASE rl_enter_handler_no_memory
  BY <1>6 DEF rl_enter_handler_no_memory
<1>7. CASE \E t \in StaType : RequestSta(t)
  BY <1>7 DEF RequestSta
<1>8. CASE \E t \in ApType : rl_ap_request_enter(t)
  BY <1>8 DEF rl_ap_request_enter
<1>9. CASE bk_wlan_stop \/ bk_wlan_stop_returns \/ bk_wlan_stop_ap
             \/ bk_wlan_start_sta_adv \/ bk_wlan_start_sta_adv_returns
  BY <1>9 DEF bk_wlan_stop, bk_wlan_stop_returns, bk_wlan_stop_ap,
       bk_wlan_start_sta_adv, bk_wlan_start_sta_adv_returns
<1>10. CASE \E loss \in BOOLEAN : mhdr_disconnect_ind(loss)
  BY <1>10 DEF mhdr_disconnect_ind
<1>11. CASE ScanCfm \/ Supplicant \/ ApBeacon \/ rl_set_csa_switching
              \/ rl_set_csa_switched \/ Airkiss
  BY <1>11 DEF ScanCfm, Supplicant, ApBeacon, rl_set_csa_switching,
       rl_set_csa_switched, Airkiss
<1> QED
  BY <1>1, <1>2, <1>3, <1>4, <1>5, <1>6, <1>7, <1>8, <1>9, <1>10, <1>11
     DEF Next, TimerTask, Application, Environment

\* The launcher never starts or stops a role while airkiss is in monitor mode.
THEOREM PauseIsRespected == Spec => []PauseExcludesLaunch
<1>1. Init => PauseInv
  BY DEF Init, PauseInv
<1>2. TypeOK /\ PauseInv /\ [Next]_vars => PauseInv'
  <2>1. ASSUME PauseInv, UNCHANGED vars PROVE PauseInv'
    BY <2>1 DEF PauseInv, vars, taskVars
  <2> QED
    BY <2>1, PauseStep
<1>3. PauseInv => PauseExcludesLaunch
  BY DEF PauseInv, PauseExcludesLaunch
<1> QED
  BY <1>1, <1>2, <1>3, TypeCorrect, PTL DEF Spec

\* A queued request is never left without a running launch timer once the
\* timer task is at rest.
THEOREM FollowingIsNotForgotten == Spec => []FollowingHasTimer
<1>1. Init => TimerInv
  BY DEF Init, TimerInv
<1>2. TypeOK /\ TimerInv /\ [Next]_vars => TimerInv'
  <2>1. ASSUME TimerInv, UNCHANGED vars PROVE TimerInv'
    BY <2>1 DEF TimerInv, vars, timerVars, staVars, apVars, taskVars
  <2> QED
    BY <2>1, TimerStep
<1>3. TypeOK /\ TimerInv => FollowingHasTimer
  BY DEF TypeOK, TaskTypeOK, TimerInv, FollowingHasTimer
<1> QED
  BY <1>1, <1>2, <1>3, TypeCorrect, PTL DEF Spec

\* The order of the waiting requests is kept by every step.
LEMMA OrderStep ==
  ASSUME TypeOK, TimerInv, OrderInv, Next
  PROVE  OrderInv'
<1> USE DEF TypeOK, QueueTypeOK, TaskTypeOK, OrderInv, sockVars, staVars,
            apVars, boundVars, histVars, StaReq
<1>1. CASE rl_enter_handler
  <2>1. sockSta' = NONE /\ reqs' = reqs /\ prevAp' = prevAp
    BY <1>1 DEF rl_enter_handler, ClearSocket
  <2>2. CASE UNCHANGED <<staVars, lastSta>>
    BY <2>1, <2>2
  <2>3. CASE sockSta # NONE /\ sta_request_enter(sockSta)
    BY <2>1, <2>3 DEF sta_request_enter, rl_sta_request_start
  <2> QED
    BY <1>1, <2>2, <2>3 DEF rl_enter_handler
<1>2. CASE ap_request_enter
  BY <1>2 DEF ap_request_enter
<1>3. CASE rl_launch_handler
  <2>1. UNCHANGED <<sockSta, reqs>>
    BY <1>3 DEF rl_launch_handler
  <2>2. CASE StaTurn
    <3>1. rl_launch_sta
      BY <1>3, <2>2 DEF rl_launch_handler
    <3>2. CASE StaWait
      BY <2>1, <3>1, <3>2 DEF rl_launch_sta, StaStart, StaWait
    <3>3. CASE ~StaWait
      BY <2>1, <3>1, <3>3 DEF rl_launch_sta, StaStart, rl_sta_request_start
    <3> QED
      BY <3>2, <3>3
  <2>3. CASE ~StaTurn
    <3>1. UNCHANGED <<staVars, lastSta>>
      BY <1>3, <2>3 DEF rl_launch_handler
    <3>2. folSta # NONE => preType # "IDLE"
      BY DEF TimerInv
    <3>3. CASE preType = "AP"
      <4>1. rl_launch_ap /\ ~ApOver
        BY <1>3, <2>3, <3>3 DEF rl_launch_handler, ApTurn, StaTurn
      <4>2. prevAp' # NONE
        BY <4>1 DEF rl_launch_ap, ApOver, ApStart, ApWait
      <4> QED
        BY <2>1, <3>1, <4>2
    <3>4. CASE preType = "IDLE"
      BY <2>1, <3>1, <3>2, <3>4
    <3> QED
      BY <2>3, <3>3, <3>4 DEF StatusTypeOK, StaTurn
  <2> QED
    BY <2>2, <2>3
<1>4. CASE bk_wlan_start_sta \/ DelifSta \/ bk_wlan_start_scan
  BY <1>4 DEF bk_wlan_start_sta, DelifSta, bk_wlan_start_scan, StaStarted
<1>5. CASE bk_wlan_ap_init \/ bk_wlan_start_ap \/ DelifAp
  BY <1>5 DEF bk_wlan_ap_init, bk_wlan_start_ap, DelifAp, ApStarted
<1>6. CASE rl_enter_handler_no_memory
  BY <1>6 DEF rl_enter_handler_no_memory
<1>7. CASE \E t \in StaType : RequestSta(t)
  <2>1. PICK t \in StaType : RequestSta(t)
    BY <1>7
  <2>2. sockSta'.no = reqs + 1 /\ reqs' = reqs + 1
    BY <2>1 DEF RequestSta, rl_sta_request_enter
  <2>3. UNCHANGED <<staVars, apVars, lastSta>>
    BY <2>1 DEF RequestSta
  <2> QED
    BY <2>2, <2>3
<1>8. CASE \E t \in ApType : rl_ap_request_enter(t)
  BY <1>8 DEF rl_ap_request_enter
<1>9. CASE bk_wlan_stop \/ bk_wlan_stop_returns \/ bk_wlan_stop_ap
             \/ bk_wlan_start_sta_adv \/ bk_wlan_start_sta_adv_returns
  BY <1>9 DEF bk_wlan_stop, bk_wlan_stop_returns, bk_wlan_stop_ap,
       bk_wlan_start_sta_adv, bk_wlan_start_sta_adv_returns
<1>10. CASE \E loss \in BOOLEAN : mhdr_disconnect_ind(loss)
  <2>1. PICK loss \in BOOLEAN : mhdr_disconnect_ind(loss)
    BY <1>10
  <2>2. sockSta' = sockSta \/ sockSta'.redo
    <3>1. cache # NONE => cache.redo
      BY DEF CacheReq
    <3>2. CASE sockSta' = [type |-> "DELIF_STA", no |-> reqs, redo |-> TRUE]
      BY <3>2
    <3>3. CASE cache # NONE /\ sockSta' = cache
      BY <3>1, <3>3
    <3>4. CASE sockSta' = sockSta
      BY <3>4
    <3> QED
      BY <2>1, <3>2, <3>3, <3>4 DEF mhdr_disconnect_ind,
         rl_sta_cache_request_enter, rl_sta_request_enter
  <2>3. UNCHANGED <<staVars, apVars, reqs, lastSta>>
    BY <2>1 DEF mhdr_disconnect_ind
  <2> QED
    BY <2>2, <2>3
<1>11. CASE ScanCfm \/ Supplicant \/ ApBeacon \/ rl_set_csa_switching
              \/ rl_set_csa_switched \/ Airkiss
  BY <1>11 DEF ScanCfm, Supplicant, ApBeacon, rl_set_csa_switching,
       rl_set_csa_switched, Airkiss
<1> QED
  BY <1>1, <1>2, <1>3, <1>4, <1>5, <1>6, <1>7, <1>8, <1>9, <1>10, <1>11
     DEF Next, TimerTask, Application, Environment

\* A step that starts a station request of an application starts a newer one
\* than any before.
LEMMA StartIsNewer ==
  ASSUME TypeOK, OrderInv, Next, pc # "sta", pc' = "sta", ~req'.redo
  PROVE  req'.no > lastSta
<1> USE DEF TypeOK, QueueTypeOK, TaskTypeOK, OrderInv, StaReq
<1>1. CASE rl_enter_handler
  BY <1>1 DEF rl_enter_handler, taskVars, sta_request_enter, rl_sta_request_start
<1>2. CASE rl_launch_handler
  <2>1. Starts
    BY <1>2 DEF rl_launch_handler, taskVars
  <2>2. StaTurn /\ StaStart
    BY <1>2, <2>1 DEF Starts, rl_launch_handler, rl_launch_ap,
         rl_ap_request_start
  <2>3. req' = folSta /\ folSta # NONE
    BY <1>2, <2>2 DEF rl_launch_handler, rl_launch_sta, rl_sta_request_start,
         StaStart
  <2> QED
    BY <2>3
<1>3. CASE ~rl_enter_handler /\ ~rl_launch_handler
  <2>1. pc' # "sta" \/ pc' = pc
    BY <1>3 DEF Next, TimerTask, Application, Environment, taskVars,
         ap_request_enter, rl_ap_request_start, bk_wlan_start_sta, DelifSta,
         bk_wlan_start_scan, StaStarted, bk_wlan_ap_init, bk_wlan_start_ap,
         DelifAp, ApStarted,
         rl_enter_handler_no_memory, RequestSta, rl_ap_request_enter,
         bk_wlan_stop, bk_wlan_stop_returns, bk_wlan_stop_ap,
         bk_wlan_start_sta_adv, bk_wlan_start_sta_adv_returns,
         mhdr_disconnect_ind, ScanCfm, Supplicant, ApBeacon,
         rl_set_csa_switching, rl_set_csa_switched, Airkiss
  <2> QED
    BY <2>1
<1> QED
  BY <1>1, <1>2, <1>3

\* The station requests of the applications are started in the order they were
\* made and none of them twice, whatever number of them is made.
THEOREM StartsInOrder == Spec => StaLaunchOrder
<1>1. Init => TimerInv /\ OrderInv
  BY DEF Init, TimerInv, OrderInv
<1>2. TypeOK /\ TimerInv /\ OrderInv /\ [Next]_vars => (TimerInv /\ OrderInv)'
  <2>1. ASSUME TimerInv, OrderInv, UNCHANGED vars PROVE (TimerInv /\ OrderInv)'
    BY <2>1 DEF TimerInv, OrderInv, vars, sockVars, timerVars, staVars, apVars,
         taskVars, boundVars, histVars
  <2> QED
    BY <2>1, TimerStep, OrderStep
<1>3. TypeOK /\ OrderInv /\ [Next]_vars =>
        [pc # "sta" /\ pc' = "sta" /\ ~req'.redo => req'.no > lastSta]_vars
  BY StartIsNewer
<1> QED
  BY <1>1, <1>2, <1>3, TypeCorrect, PTL DEF Spec, StaLaunchOrder

\* After a stop nobody is on the way who would reset RESTART_HOLD but a removal
\* of the launcher's own, and that one sets it again when it is started: a
\* restart of the station is the only thing that RESTART_ST can then belong to.
StopInv ==
    /\ stopped => upc # "adv"
    /\ stopped /\ "RESTART_ST" \in flags => StartsSta
    /\ stopped /\ ~erased => Held /\ ~StartsSta

\* Starting a station request keeps StopInv: only an erased stop lets one
\* start, and a removal holds the station again.
LEMMA StartKeepsStop ==
  ASSUME StopInv, NEW r \in StaReq, NEW f, NEW h, pc = "idle", ~Held,
         rl_sta_request_start(r, flags \cup f, h),
         "RESTART_ST" \notin f, UNCHANGED <<stopped, upc>>
  PROVE  StopInv'
<1> USE DEF StopInv, Held, StartsSta
<1>1. stopped' => stopped
  BY Zenon
<1>2. stopped' => erased /\ "RESTART_ST" \notin flags /\ upc' # "adv"
  BY <1>1
<1>3. pc' = "sta" /\ req' = r
  BY DEF rl_sta_request_start
<1>4. CASE r.type = "DELIF_STA"
  <2>1. flags' = (flags \cup f) \cup {"RESTART_HOLD"}
    BY <1>4 DEF rl_sta_request_start
  <2>2. ~StartsSta'
    BY <1>3, <1>4
  <2> QED
    BY <1>2, <2>1, <2>2
<1>5. CASE r.type # "DELIF_STA"
  <2>1. stopped' => erased'
    BY <1>2, <1>5, Zenon DEF rl_sta_request_start
  <2>2. StartsSta'
    BY <1>3, <1>5
  <2> QED
    BY <1>2, <2>1, <2>2
<1> QED
  BY <1>4, <1>5

\* A stop is kept by every step that does not end its effect.
LEMMA StopStep ==
  ASSUME TypeOK, StopInv, Next
  PROVE  StopInv'
<1> USE DEF TypeOK, TaskTypeOK, StatusTypeOK, StopInv, Held, StartsSta, taskVars,
            histVars
<1>1. CASE rl_enter_handler
  <2>1. pc = "idle" /\ UNCHANGED <<stopped, upc>>
    BY <1>1 DEF rl_enter_handler
  <2>2. ASSUME sockSta # NONE, sta_request_enter(sockSta)
        PROVE  StopInv'
    <3>1. CASE /\ UNCHANGED erased
               /\ pc' = "enterAp"
               /\ flags' = flags \cup {"PENDING"}
      <4>1. (stopped' => stopped) /\ (erased => erased')
        BY <2>1, <3>1, Zenon
      <4> QED
        BY <2>1, <3>1, <4>1
    <3>2. CASE ~Held /\ rl_sta_request_start(sockSta,
                            flags \cup {"PENDING", "DOING"}, "enter")
      <4>1. sockSta \in StaReq
        BY <2>2 DEF QueueTypeOK
      <4> QED
        BY <2>1, <3>2, <4>1, StartKeepsStop
    <3> QED
      BY <2>2, <3>1, <3>2 DEF sta_request_enter
  <2> QED
    BY <1>1, <2>1, <2>2 DEF rl_enter_handler
<1>2. CASE ap_request_enter
  BY <1>2 DEF ap_request_enter, rl_ap_request_start
<1>3. CASE rl_launch_handler
  <2>1. UNCHANGED <<stopped, upc>> /\ pc = "idle"
    BY <1>3 DEF rl_launch_handler
  <2>2. CASE StaTurn /\ StaStart
    <3>1. rl_sta_request_start(folSta, flags \cup {"DOING"}, "launch")
      BY <1>3, <2>2 DEF rl_launch_handler, rl_launch_sta
    <3>2. folSta \in StaReq /\ ~Held
      BY <2>2 DEF StaStart, QueueTypeOK
    <3> QED
      BY <2>1, <3>1, <3>2, StartKeepsStop
  <2>3. CASE ApTurn /\ ApStart /\ ~(StaTurn /\ StaStart)
    <3>1. rl_launch_ap /\ UNCHANGED erased
      BY <1>3, <2>3 DEF rl_launch_handler, rl_launch_sta
    <3> QED
      BY <2>1, <2>3, <3>1 DEF rl_launch_ap, rl_ap_request_start
  <2>4. CASE ~Starts
    BY <1>3, <2>1, <2>4 DEF rl_launch_handler, rl_launch_sta, Starts
  <2> QED
    BY <2>2, <2>3, <2>4 DEF Starts
<1>4. CASE bk_wlan_start_sta \/ DelifSta \/ bk_wlan_start_scan
  BY <1>4 DEF bk_wlan_start_sta, DelifSta, bk_wlan_start_scan, StaStarted
<1>5. CASE bk_wlan_ap_init \/ bk_wlan_start_ap \/ DelifAp
  BY <1>5 DEF bk_wlan_ap_init, bk_wlan_start_ap, DelifAp, ApStarted
<1>6. CASE rl_enter_handler_no_memory
  BY <1>6 DEF rl_enter_handler_no_memory
<1>7. CASE \E t \in StaType : RequestSta(t)
  BY <1>7 DEF RequestSta, rl_sta_request_enter
<1>8. CASE \E t \in ApType : rl_ap_request_enter(t)
  BY <1>8 DEF rl_ap_request_enter
<1>9. CASE bk_wlan_stop
  <2>1. stopped' => ~StartsSta /\ "RESTART_ST" \notin flags
    BY <1>9, Zenon DEF bk_wlan_stop
  <2> QED
    BY <1>9, <2>1 DEF bk_wlan_stop, StopSta
<1>10. CASE bk_wlan_stop_returns \/ bk_wlan_stop_ap
  BY <1>10 DEF bk_wlan_stop_returns, bk_wlan_stop_ap
<1>11. CASE bk_wlan_start_sta_adv \/ bk_wlan_start_sta_adv_returns
  BY <1>11 DEF bk_wlan_start_sta_adv, bk_wlan_start_sta_adv_returns
<1>12. CASE \E loss \in BOOLEAN : mhdr_disconnect_ind(loss)
  BY <1>12 DEF mhdr_disconnect_ind, rl_sta_cache_request_enter,
       rl_sta_request_enter
<1>13. CASE ScanCfm \/ Supplicant \/ ApBeacon \/ rl_set_csa_switching
              \/ rl_set_csa_switched
  BY <1>13 DEF ScanCfm, Supplicant, ApBeacon, rl_set_csa_switching,
       rl_set_csa_switched
<1>14. CASE Airkiss
  BY <1>14 DEF Airkiss, AirkissPause, AirkissMonitor, AirkissDone
<1> QED
  BY <1>1, <1>2, <1>3, <1>4, <1>5, <1>6, <1>7, <1>8, <1>9, <1>10, <1>11, <1>12,
     <1>13, <1>14
     DEF Next, TimerTask, Application, Environment

\* A station the application has stopped stays down until the application asks
\* again: nothing queued or cached brings it back, except between the moment
\* the launcher enters a removal of its own, after a bk_wlan_start_sta_adv, and
\* the start of that removal.
THEOREM StopIsKept == Spec => []StopSticks
<1>1. Init => StopInv
  BY DEF Init, StopInv
<1>2. TypeOK /\ StopInv /\ [Next]_vars => StopInv'
  <2>1. ASSUME StopInv, UNCHANGED vars PROVE StopInv'
    BY <2>1 DEF StopInv, Held, StartsSta, vars, taskVars, histVars
  <2> QED
    BY <2>1, StopStep
<1>3. StopInv => StopSticks
  BY DEF StopInv, StopSticks
<1> QED
  BY <1>1, <1>2, <1>3, TypeCorrect, PTL DEF Spec
====
