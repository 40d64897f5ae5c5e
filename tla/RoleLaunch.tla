------------------------------ MODULE RoleLaunch ------------------------------
(***************************************************************************)
(* The role launcher (beken378/func/joint_up/role_launch.c), which         *)
(* serialises requests to start and stop the station and the soft-AP in a  *)
(* build with CFG_ROLE_LAUNCH.                                             *)
(*                                                                         *)
(* A request is left in g_rl_socket, where a newer one of the same role    *)
(* overwrites it, and the enter timer is restarted.  When that timer       *)
(* expires rl_enter_handler starts the request at once if no role is       *)
(* launched, or else queues it behind the one in progress, at most one per *)
(* role, and starts the launch timer, whose handler cancels the request in *)
(* progress and starts the queued one once its role can be stopped.  Both  *)
(* handlers run in the FreeRTOS timer task, one after the other, but a     *)
(* start blocks for as long as the MAC and the supplicant need.  Meanwhile *)
(* application threads stop the station or start it behind the launcher's  *)
(* back (bk_wlan_stop, bk_wlan_start_sta_adv), kmsgbk delivers scan        *)
(* confirms and disconnections, and airkiss pauses the launcher to use the *)
(* radio in monitor mode.                                                  *)
(***************************************************************************)
EXTENDS Naturals

CONSTANTS
    Types,      \* the requests that applications make, a subset of ReqType
    MaxReq,     \* bound: requests
    MaxStop,    \* bound: calls of bk_wlan_stop by applications
    MaxAdv,     \* bound: calls of bk_wlan_start_sta_adv
    MaxCsa,     \* bound: channel switches hostapd asks for
    MaxPause,   \* bound: airkiss sessions
    NONE        \* the null pointer

StaType == {"STA", "PURE_STA_SCAN", "DELIF_STA"}
ApType  == {"AP", "DELIF_AP"}
ReqType == StaType \cup ApType

\* A LAUNCH_REQ.  no orders the requests applications make; redo marks the copy
\* of a request that g_sta_cache keeps to reconnect with.
Request == [type : ReqType, no : Nat, redo : BOOLEAN]

ASSUME BoundAssumption ==
    /\ Types \subseteq ReqType
    /\ MaxReq \in Nat
    /\ MaxStop \in Nat
    /\ MaxAdv \in Nat
    /\ MaxCsa \in Nat
    /\ MaxPause \in Nat

ASSUME NoneAssumption == NONE \notin Request

VARIABLES
    sockSta, sockAp,        \* g_rl_socket
    cache,                  \* g_sta_cache
    enterTimer, rlTimer,    \* whether the one-shot timers are running
    prevSta, folSta,        \* jl_previous_sta, jl_following_sta
    prevAp, folAp,          \* jl_previous_ap, jl_following_ap
    preType,                \* pre_entity_type
    staStatus, staCancel,   \* pre_sta_status, pre_sta_cancel
    apStatus, apMark,       \* pre_ap_status and its RL_STATUS_CANCEL bit
    apCancel,               \* pre_ap_cancel
    csa,                    \* g_mrole_csa_flag
    flags,                  \* rl_status
    pc, by, req, hitAp,     \* the timer task: where it is, in which handler,
                            \* the request it starts, and the AP request that
                            \* rl_enter_handler still has to deal with
                            \* (hostapd: inside hostapd_main_entry)
    upc,                    \* the application thread
    airkiss,                \* the airkiss thread
    sess,                   \* the supplicant: none, up, assoc, dhcp
    macScan, macDisc,       \* scan and disconnection the MAC has not reported
    reqs, stops, advs, csas, pauses,    \* counters for the bounds
    lastSta,                \* history: the newest station request started
    stopped,                \* history: the application has stopped the
                            \* station and asked for nothing since
    erased                  \* history: a removal the launcher entered itself
                            \* has reset that stop's RESTART_HOLD

sockVars  == <<sockSta, sockAp, cache>>
timerVars == <<enterTimer, rlTimer>>
staVars   == <<prevSta, folSta>>
apVars    == <<prevAp, folAp>>
statVars  == <<staStatus, staCancel>>
apStVars  == <<apStatus, apMark, apCancel>>
taskVars  == <<pc, by, req, hitAp>>
macVars   == <<sess, macScan, macDisc>>
boundVars == <<reqs, stops, advs, csas, pauses>>
histVars  == <<lastSta, stopped, erased>>
vars == <<sockVars, timerVars, staVars, apVars, preType, statVars, apStVars,
          csa, flags, taskVars, upc, airkiss, macVars, boundVars, histVars>>

StaStatus == {"UNKNOWN", "INITING", "SCANNING", "SCAN_OVER", "CONNECTING",
              "DHCPING", "LAUNCHED", "LAUNCH_FAILED"}
ApStatus  == {"UNKNOWN", "INITING", "UPDATING_BCN", "TRANSMITTED_BCN",
              "LAUNCHED"}
Flag      == {"PENDING", "DOING", "PAUSE", "STA_ADV", "STA_ADV_RDY",
              "RESTART_HOLD", "RESTART_ST"}

Init ==
    /\ sockSta = NONE /\ sockAp = NONE /\ cache = NONE
    /\ enterTimer = FALSE /\ rlTimer = FALSE
    /\ prevSta = NONE /\ folSta = NONE
    /\ prevAp = NONE /\ folAp = NONE
    /\ preType = "IDLE"
    /\ staStatus = "UNKNOWN" /\ staCancel = FALSE
    /\ apStatus = "UNKNOWN" /\ apMark = FALSE /\ apCancel = FALSE
    /\ csa = "none"
    /\ flags = {}
    /\ pc = "idle" /\ by = "none" /\ req = NONE /\ hitAp = NONE
    /\ upc = "idle"
    /\ airkiss = "off"
    /\ sess = "none" /\ macScan = "none" /\ macDisc = FALSE
    /\ reqs = 0 /\ stops = 0 /\ advs = 0 /\ csas = 0 /\ pauses = 0
    /\ lastSta = 0
    /\ stopped = FALSE /\ erased = FALSE

-----------------------------------------------------------------------------
(* Status words.                                                           *)

\* Mutant: the station counts as held only during a restart.
HeldBoth == {"RESTART_HOLD", "RESTART_ST"} \subseteq flags

\* (rl_status & RL_STA_STATE_MASK) == RL_STA_STATE_HOLD
Held == "RESTART_HOLD" \in flags /\ "RESTART_ST" \notin flags

Paused == "PAUSE" \in flags

\* Mutant: a start in progress is not looked at.
rl_status_is_idleNotDoing == "PENDING" \notin flags

\* No request is being entered or started; a pause does not count.
rl_status_is_idle == flags \cap {"PENDING", "DOING"} = {}

bk_wlan_is_monitor_mode == airkiss = "monitor"

Associated == sess \in {"assoc", "dhcp"}

\* RL_STATUS_AP_INITING < rl_pre_ap_get_status(): the cancel bit counts, and so
\* does the AP_LAUNCHED that stopping the AP leaves behind.
bk_wlan_ap_is_up == apMark \/ apStatus \notin {"UNKNOWN", "INITING"}

\* Mutant: a cancelled launch still scans.
scanu_reqCancelled(s) ==
    IF s \in {"INITING", "SCAN_OVER"} THEN "SCANNING" ELSE "SCAN_OVER"

\* rw_msg_send_scanu_req: rl_pre_sta_set_status refuses SCANNING unless the
\* status is s = INITING or SCAN_OVER and the launch is not cancelled.
scanu_req(s) ==
    IF s \in {"INITING", "SCAN_OVER"} /\ ~staCancel
    THEN "SCANNING"
    ELSE "SCAN_OVER"

rl_pre_ap_set_status(s) ==
    /\ apStatus' = s
    /\ apMark' = apCancel

rl_sta_may_next_launch(cancel) ==
    /\ csa # "switching"
    /\ \/ csa = "switched"
       \/ cancel /\ staStatus \in {"DHCPING", "INITING", "SCAN_OVER",
                                   "CONNECTING"}
       \/ staStatus \in {"LAUNCH_FAILED", "LAUNCHED"}

rl_ap_may_next_launch(cancel) ==
    \/ ~cancel
    \/ /\ csa # "switching"
       /\ \/ apStatus = "TRANSMITTED_BCN" /\ apMark
          \/ apStatus = "LAUNCHED"

-----------------------------------------------------------------------------
(* Starting a request, in the timer task: what happens before the first    *)
(* call that blocks, and after it.  fl is rl_status as the caller left it. *)

\* LAUNCH_REQ_STA: bk_wlan_start_sta as far as the sta_ip_down of its
\* bk_wlan_stop; LAUNCH_REQ_DELIF_STA: the same part of bk_wlan_stop.
rl_sta_request_start(r, fl, handler) ==
    /\ pc' = "sta"
    /\ by' = handler
    /\ req' = r
    /\ staStatus' = "UNKNOWN"
    /\ staCancel' = FALSE
    /\ flags' = fl \cup CASE r.type = "STA" -> {"RESTART_ST", "RESTART_HOLD"}
                          [] r.type = "DELIF_STA" -> {"RESTART_HOLD"}
                          [] r.type = "PURE_STA_SCAN" -> {}
    /\ lastSta' = IF r.redo THEN lastSta ELSE r.no
    /\ erased' = (erased /\ r.type # "DELIF_STA")

\* LAUNCH_REQ_AP: rl_pre_ap_init, then bk_wlan_start_ap waits for the beacon.
rl_ap_request_start(r, handler) ==
    /\ pc' = "ap"
    /\ by' = handler
    /\ req' = r
    /\ apCancel' = IF r.type = "AP" \/ handler = "launch" THEN FALSE
                                                          ELSE apCancel
    /\ apStatus' = IF r.type = "AP" \/ handler = "launch" THEN "UNKNOWN"
                                                          ELSE apStatus
    /\ apMark' = IF r.type = "AP" \/ handler = "launch" THEN FALSE ELSE apMark

\* g_sta_cache after r has been started or queued.
SaveCache(r) == IF r.type = "STA" THEN [r EXCEPT !.redo = TRUE] ELSE cache

\* What ending a station start leaves for the handler that made it: the launch
\* handler re-arms its timer, the enter handler saves a station request in the
\* cache and goes on to the AP request.
StaStarted(fl) ==
    /\ flags' = fl \ {"DOING"}
    /\ req' = NONE
    /\ \/ /\ by = "launch"
          /\ pc' = "idle"
          /\ by' = "none"
          /\ rlTimer' = TRUE
          /\ UNCHANGED <<cache, preType>>
       \/ /\ by = "enter"
          /\ pc' = "enterAp"
          /\ preType' = IF preType = "IDLE" THEN "STA" ELSE preType
          /\ cache' = SaveCache(req)
          /\ UNCHANGED <<by, rlTimer>>
    /\ UNCHANGED <<sockSta, sockAp, enterTimer, staVars, apVars, staCancel,
                   apStVars, hitAp, upc, airkiss, boundVars, histVars>>

\* The rest of bk_wlan_start_sta: bk_wlan_stop takes the supplicant down, the
\* restart flags are reset and bk_wlan_sta_init starts it again.
bk_wlan_start_sta ==
    /\ pc = "sta"
    /\ req.type = "STA"
    /\ csa' = "none"
    /\ staStatus' = "INITING"
    /\ sess' = "up"
    /\ macDisc' = (macDisc \/ Associated)
    /\ StaStarted(flags \ {"RESTART_HOLD", "RESTART_ST"})
    /\ UNCHANGED macScan

DelifSta ==
    /\ pc = "sta"
    /\ req.type = "DELIF_STA"
    /\ staStatus' = "LAUNCHED"
    /\ sess' = "none"
    /\ macDisc' = (macDisc \/ Associated)
    /\ StaStarted(flags)
    /\ UNCHANGED <<csa, macScan>>

\* demo_scan_app_init and bk_wlan_start_scan.
bk_wlan_start_scan ==
    /\ pc = "sta"
    /\ req.type = "PURE_STA_SCAN"
    /\ IF bk_wlan_is_monitor_mode
       THEN staStatus' = "LAUNCH_FAILED" /\ UNCHANGED <<csa, macScan>>
       ELSE LET s == IF bk_wlan_ap_is_up THEN staStatus ELSE "INITING"
            IN  /\ staStatus' = scanu_req(s)
                /\ macScan' = IF scanu_req(s) = "SCANNING" THEN "app"
                                                           ELSE macScan
                /\ csa' = IF bk_wlan_ap_is_up THEN csa ELSE "none"
    /\ StaStarted(flags \ {"RESTART_HOLD", "RESTART_ST"})
    /\ UNCHANGED <<sess, macDisc>>

\* What ending an AP start leaves for the handler that made it.
ApStarted ==
    /\ pc' = "idle"
    /\ by' = "none"
    /\ req' = NONE
    /\ \/ /\ by = "launch"
          /\ flags' = flags \ {"DOING"}
          /\ rlTimer' = TRUE
          /\ UNCHANGED preType
       \/ /\ by = "enter"
          /\ flags' = flags \ {"PENDING"}
          /\ preType' = IF preType = "IDLE" THEN "AP" ELSE preType
          /\ UNCHANGED rlTimer
    /\ UNCHANGED <<sockVars, enterTimer, staVars, apVars, statVars, apCancel,
                   hitAp, upc, airkiss, macVars, boundVars, histVars>>

\* bk_wlan_stop(BK_SOFT_AP): an AP that is gone stands in nobody's way.
StopAp ==
    /\ csa' = "switched"
    /\ rl_pre_ap_set_status("LAUNCHED")

\* bk_wlan_start_ap: once the beacon is out the AP is stopped and
\* bk_wlan_ap_init takes csa and the status back before hostapd starts.
bk_wlan_ap_init ==
    /\ pc = "ap"
    /\ req.type = "AP"
    /\ csa' = "none"
    /\ rl_pre_ap_set_status("INITING")
    /\ pc' = "hostapd"
    /\ UNCHANGED <<sockVars, timerVars, staVars, apVars, preType, statVars,
                   apCancel, flags, by, req, hitAp, upc, airkiss, macVars,
                   boundVars, histVars>>

\* hostapd_main_entry returns; when it has failed the AP is stopped again.
bk_wlan_start_ap ==
    /\ pc = "hostapd"
    /\ UNCHANGED <<csa, apStatus, apMark>> \/ StopAp
    /\ ApStarted

DelifAp ==
    /\ pc = "ap"
    /\ req.type = "DELIF_AP"
    /\ StopAp
    /\ ApStarted

-----------------------------------------------------------------------------
(* rl_enter_handler.                                                       *)

\* _sta_request_enter: start the request, queue it, or drop it.
sta_request_enter(r) ==
    \/ /\ prevAp = NONE /\ prevSta = NONE /\ ~Held
       /\ prevSta' = r
       /\ rl_sta_request_start(r, flags \cup {"PENDING", "DOING"}, "enter")
       /\ UNCHANGED <<folSta, rlTimer, cache, preType>>
    \/ /\ prevAp # NONE \/ prevSta # NONE \/ Held
       /\ IF folSta = NONE /\ ~Held
          THEN /\ folSta' = r
               /\ preType' = IF preType = "IDLE" THEN "STA" ELSE preType
               /\ cache' = SaveCache(r)
          ELSE UNCHANGED <<folSta, preType, cache>>
       /\ rlTimer' = TRUE
       /\ flags' = flags \cup {"PENDING"}
       /\ pc' = "enterAp"
       /\ by' = "enter"
       /\ UNCHANGED <<prevSta, req, statVars, lastSta, erased>>

\* Mutant: the station's half of the socket is not cleared.
ClearSocketAp ==
    /\ sockAp' = NONE
    /\ UNCHANGED sockSta

\* os_memset(&g_rl_socket, 0, ...), in the critical section of the copies.
ClearSocket ==
    /\ sockSta' = NONE
    /\ sockAp' = NONE

rl_enter_handler ==
    /\ pc = "idle"
    /\ enterTimer
    /\ enterTimer' = FALSE
    /\ ClearSocket
    /\ \/ /\ Paused
          /\ UNCHANGED <<cache, rlTimer, staVars, preType, statVars, flags,
                         taskVars, lastSta, erased>>
       \/ /\ ~Paused
          /\ hitAp' = sockAp
          /\ \/ sockSta # NONE /\ sta_request_enter(sockSta)
             \/ /\ sockSta = NONE
                /\ pc' = "enterAp"
                /\ by' = "enter"
                /\ flags' = flags \cup {"PENDING"}
                /\ UNCHANGED <<cache, rlTimer, staVars, preType, statVars, req,
                               lastSta, erased>>
    /\ UNCHANGED <<apVars, apStVars, csa, upc, airkiss, macVars, boundVars,
                   stopped>>

\* os_malloc fails: the requests stay in the socket, with no timer running.
rl_enter_handler_no_memory ==
    /\ pc = "idle"
    /\ enterTimer
    /\ enterTimer' = FALSE
    /\ UNCHANGED <<sockVars, rlTimer, staVars, apVars, preType, statVars,
                   apStVars, csa, flags, taskVars, upc, airkiss, macVars,
                   boundVars, histVars>>

\* _ap_request_enter, and the end of rl_enter_handler.
ap_request_enter ==
    /\ pc = "enterAp"
    /\ hitAp' = NONE
    /\ \/ /\ hitAp # NONE /\ prevAp = NONE /\ prevSta = NONE
          /\ prevAp' = hitAp
          /\ rl_ap_request_start(hitAp, "enter")
          /\ UNCHANGED <<folAp, preType, rlTimer, flags>>
       \/ /\ hitAp = NONE \/ prevAp # NONE \/ prevSta # NONE
          /\ IF hitAp # NONE /\ folAp = NONE
             THEN /\ folAp' = hitAp
                  /\ preType' = IF preType = "IDLE" THEN "AP" ELSE preType
             ELSE UNCHANGED <<folAp, preType>>
          /\ rlTimer' = (rlTimer \/ hitAp # NONE)
          /\ flags' = flags \ {"PENDING"}
          /\ pc' = "idle"
          /\ by' = "none"
          /\ UNCHANGED <<prevAp, req, apStVars>>
    /\ UNCHANGED <<sockVars, enterTimer, staVars, statVars, csa, upc, airkiss,
                   macVars, boundVars, histVars>>

-----------------------------------------------------------------------------
(* rl_launch_handler.  A role's turn ends in one of three ways: it starts  *)
(* the following request, it waits for the previous one (Wait), or it has  *)
(* nothing left to do (Over) and the other role gets a turn.  Entities are *)
(* all of LAUNCH_TYPE_ASAP and relaunch_limit is 0.                        *)

StaCancelled == staCancel \/ (prevSta # NONE /\ folSta # NONE)

StaWait  == prevSta # NONE /\ ~rl_sta_may_next_launch(StaCancelled)
StaStart == ~StaWait /\ folSta # NONE /\ ~Paused /\ ~Held
StaOver  == ~StaWait /\ ~StaStart

ApWait  == /\ prevAp # NONE
           /\ ~rl_ap_may_next_launch(folAp # NONE)
ApStart == ~ApWait /\ folAp # NONE /\ ~Paused
ApOver  == ~ApWait /\ ~ApStart

\* rl_launch_sta up to the start of the following request, which is given up
\* when the launcher is paused or the station is held.
rl_launch_sta ==
    /\ prevSta' = IF StaWait THEN prevSta ELSE IF StaStart THEN folSta ELSE NONE
    /\ folSta' = IF StaWait THEN folSta ELSE NONE
    /\ IF StaStart
       THEN rl_sta_request_start(folSta, flags \cup {"DOING"}, "launch")
       ELSE /\ staCancel' = StaCancelled
            /\ UNCHANGED <<staStatus, lastSta, erased>>

rl_launch_ap ==
    /\ prevAp' = IF ApWait THEN prevAp ELSE IF ApStart THEN folAp ELSE NONE
    /\ folAp' = IF ApWait THEN folAp ELSE NONE
    /\ IF ApStart
       THEN /\ rl_ap_request_start(folAp, "launch")
            /\ flags' = flags \cup {"DOING"}
       ELSE /\ apCancel' = (apCancel \/ (prevAp # NONE /\ folAp # NONE))
            /\ UNCHANGED <<apStatus, apMark>>

\* The turns: the role of pre_entity_type, then the other one if that is over.
StaTurn == preType = "STA" \/ (preType = "AP" /\ ApOver)
ApTurn  == preType = "AP" \/ (preType = "STA" /\ StaOver)

Starts == (StaTurn /\ StaStart) \/ (ApTurn /\ ApStart)

\* Mutant: a station that waits does not restart the launch timer.
rl_relaunch_chanceAp == ApTurn /\ ApWait

\* Whether the launch timer is started again.
rl_relaunch_chance == (StaTurn /\ StaWait) \/ (ApTurn /\ ApWait)

rl_launch_handler ==
    /\ pc = "idle"
    /\ rlTimer
    /\ IF StaTurn THEN rl_launch_sta
                  ELSE UNCHANGED <<staVars, statVars, lastSta, erased>>
    /\ IF ApTurn THEN rl_launch_ap ELSE UNCHANGED <<apVars, apStVars>>
    /\ preType' = CASE preType = "STA" /\ StaOver -> "AP"
                    [] preType = "AP" /\ ApOver -> "STA"
                    [] OTHER -> preType
    /\ \/ /\ Starts
          /\ rlTimer' = FALSE
          /\ UNCHANGED hitAp
       \/ /\ ~Starts
          /\ rlTimer' = rl_relaunch_chance
          /\ UNCHANGED <<taskVars, flags>>
    /\ UNCHANGED <<sockVars, enterTimer, csa, upc, airkiss, macVars, boundVars,
                   stopped>>

-----------------------------------------------------------------------------
(* Application threads.  They are below the timer task in priority and run *)
(* only while it waits: for a timer, or inside a start that blocks.        *)

CanRun ==
    \/ pc = "idle"
    \/ pc \in {"ap", "hostapd"}
    \/ pc = "sta" /\ req.type # "PURE_STA_SCAN"

\* rl_sta_request_enter (RESTART_HOLD is reset) with rl_sta_request_enter_handle.
rl_sta_request_enter(r, fl) ==
    /\ flags' = fl \ {"RESTART_HOLD"}
    /\ sockSta' = r
    /\ enterTimer' = TRUE

\* bk_wlan_start for "STA"; the console commands for the others.
RequestSta(t) ==
    /\ CanRun /\ upc = "idle"
    /\ reqs < MaxReq
    /\ t \in Types \cap StaType
    /\ t = "STA" => ~bk_wlan_is_monitor_mode
    /\ reqs' = reqs + 1
    /\ rl_sta_request_enter([type |-> t, no |-> reqs + 1, redo |-> FALSE],
                            IF t = "STA" THEN flags \ {"STA_ADV"} ELSE flags)
    /\ stopped' = FALSE /\ erased' = FALSE
    /\ UNCHANGED <<sockAp, cache, rlTimer, staVars, apVars, preType, statVars,
                   apStVars, csa, taskVars, upc, airkiss, macVars, stops, advs,
                   csas, pauses, lastSta>>

rl_ap_request_enter(t) ==
    /\ CanRun /\ upc = "idle"
    /\ reqs < MaxReq
    /\ t \in Types \cap ApType
    /\ t = "AP" => ~bk_wlan_is_monitor_mode
    /\ reqs' = reqs + 1
    /\ sockAp' = [type |-> t, no |-> reqs + 1, redo |-> FALSE]
    /\ enterTimer' = TRUE
    /\ UNCHANGED <<sockSta, cache, rlTimer, staVars, apVars, preType, statVars,
                   apStVars, csa, flags, taskVars, upc, airkiss, macVars,
                   stops, advs, csas, pauses, histVars>>

\* bk_wlan_stop(BK_STATION) as far as sta_ip_down, which blocks, and
\* rl_pre_sta_clear_cancel after it.
StopSta(fl) ==
    /\ flags' = fl \cup {"RESTART_HOLD"}
    /\ staStatus' = "UNKNOWN"
    /\ staCancel' = FALSE

\* The rest of it: the supplicant is taken down.
StoppedSta ==
    /\ sess' = "none"
    /\ macDisc' = (macDisc \/ Associated)

\* The timer task is inside a start of the station.
StartsSta == pc = "sta" /\ req.type # "DELIF_STA"

bk_wlan_stop ==
    /\ CanRun /\ upc = "idle"
    /\ stops < MaxStop
    /\ stops' = stops + 1
    /\ upc' = "stop"
    /\ StopSta(flags)
    /\ stopped' = (~StartsSta /\ "RESTART_ST" \notin flags)
    /\ erased' = FALSE
    /\ UNCHANGED <<sockVars, timerVars, staVars, apVars, preType, apStVars, csa,
                   taskVars, airkiss, macVars, reqs, advs, csas, pauses,
                   lastSta>>

bk_wlan_stop_returns ==
    /\ CanRun /\ upc = "stop"
    /\ upc' = "idle"
    /\ staStatus' = "LAUNCHED"
    /\ StoppedSta
    /\ UNCHANGED <<sockVars, timerVars, staVars, apVars, preType, staCancel,
                   apStVars, csa, flags, taskVars, airkiss, macScan, boundVars,
                   histVars>>

bk_wlan_stop_ap ==
    /\ CanRun /\ upc = "idle"
    /\ stops < MaxStop
    /\ stops' = stops + 1
    /\ StopAp
    /\ UNCHANGED <<sockVars, timerVars, staVars, apVars, preType, statVars,
                   apCancel, flags, taskVars, upc, airkiss, macVars, reqs, advs,
                   csas, pauses, histVars>>

\* bk_wlan_start_sta_adv: starts a station of its own, and registers it in the
\* cache; it returns early when the launcher cancels in the meantime.
bk_wlan_start_sta_adv ==
    /\ CanRun /\ upc = "idle"
    /\ advs < MaxAdv
    /\ ~bk_wlan_is_monitor_mode
    /\ advs' = advs + 1
    /\ upc' = "adv"
    /\ StopSta(flags \cup {"STA_ADV_RDY", "RESTART_ST"})
    /\ stopped' = FALSE /\ erased' = FALSE
    /\ UNCHANGED <<sockVars, timerVars, staVars, apVars, preType, apStVars, csa,
                   taskVars, airkiss, macVars, reqs, stops, csas, pauses,
                   lastSta>>

bk_wlan_start_sta_adv_returns ==
    /\ CanRun /\ upc = "adv"
    /\ upc' = "idle"
    /\ staStatus' = "INITING"
    /\ macDisc' = (macDisc \/ Associated)
    /\ \/ /\ staCancel
          /\ sess' = "none"
          /\ UNCHANGED <<flags, cache>>
       \/ /\ ~staCancel
          /\ flags' = (flags \ {"RESTART_HOLD", "RESTART_ST", "STA_ADV_RDY"})
                          \cup {"STA_ADV"}
          /\ cache' = [type |-> "STA", no |-> reqs, redo |-> TRUE]
          /\ sess' = "up"
    /\ UNCHANGED <<sockSta, sockAp, timerVars, staVars, apVars, preType,
                   staCancel, apStVars, csa, taskVars, airkiss, macScan,
                   boundVars, histVars>>

-----------------------------------------------------------------------------
(* kmsgbk, the supplicant and the IP stack, hostapd and airkiss.           *)

\* rl_sta_cache_request_enter: reconnect with the cached station request, or,
\* when bk_wlan_start_sta_adv started the station, remove the interface.
rl_sta_cache_request_enter ==
    /\ cache' = NONE
    /\ \/ /\ cache # NONE /\ ~bk_wlan_is_monitor_mode
          /\ "STA_ADV_RDY" \notin flags /\ ~Held
          /\ flags' = flags \ {"STA_ADV"}
          /\ sockSta' = cache
          /\ enterTimer' = TRUE
          /\ UNCHANGED erased
       \/ /\ cache = NONE \/ bk_wlan_is_monitor_mode
                \/ "STA_ADV_RDY" \in flags \/ Held
          /\ IF "STA_ADV" \in flags /\ "STA_ADV_RDY" \notin flags
             THEN /\ rl_sta_request_enter(
                         [type |-> "DELIF_STA", no |-> reqs, redo |-> TRUE],
                         flags \ {"STA_ADV"})
                  /\ erased' = stopped
             ELSE UNCHANGED <<flags, sockSta, enterTimer, erased>>

\* SM_DISCONNECT_IND: the connection is lost, or a stop has ended it.  loss is
\* whether the reason is VENDOR_CONNECTION_LOSS.
mhdr_disconnect_ind(loss) ==
    /\ \/ Associated /\ sess' = "up" /\ UNCHANGED macDisc
       \/ macDisc /\ macDisc' = FALSE /\ UNCHANGED sess
    /\ staStatus' = "LAUNCH_FAILED"
    /\ \/ /\ \/ prevSta = NONE /\ folSta = NONE
             \/ loss
             \/ staStatus \notin {"UNKNOWN", "INITING"}
          /\ rl_sta_cache_request_enter
       \/ /\ prevSta # NONE \/ folSta # NONE
          /\ ~loss
          /\ staStatus \in {"UNKNOWN", "INITING"}
          /\ UNCHANGED <<cache, flags, sockSta, enterTimer, erased>>
    /\ UNCHANGED <<sockAp, rlTimer, staVars, apVars, preType, staCancel,
                   apStVars, csa, taskVars, upc, airkiss, macScan, boundVars,
                   lastSta, stopped>>

\* SCANU_START_CFM: SCAN_OVER, and then LAUNCHED from the scan application's
\* callback.
ScanCfm ==
    /\ macScan # "none"
    /\ macScan' = "none"
    /\ staStatus' = IF macScan = "app" THEN "LAUNCHED" ELSE "SCAN_OVER"
    /\ UNCHANGED <<sockVars, timerVars, staVars, apVars, preType, staCancel,
                   apStVars, csa, flags, taskVars, upc, airkiss, sess, macDisc,
                   boundVars, histVars>>

\* The supplicant scans, associates when it has results, and the IP stack runs
\* DHCP.  Each step is cut short when the launch has been cancelled.
WpaScan ==
    /\ sess = "up" /\ macScan = "none"
    /\ staStatus \in {"INITING", "SCAN_OVER", "LAUNCH_FAILED"}
    /\ staStatus' = scanu_req(staStatus)
    /\ macScan' = IF scanu_req(staStatus) = "SCANNING" THEN "wpa" ELSE macScan
    /\ UNCHANGED sess

WpaAssoc ==
    /\ sess = "up" /\ staStatus = "SCAN_OVER"
    /\ staStatus' = "CONNECTING"
    /\ sess' = IF staCancel THEN "up" ELSE "assoc"
    /\ UNCHANGED macScan

DhcpStart ==
    /\ sess = "assoc" /\ staStatus = "CONNECTING"
    /\ staStatus' = "DHCPING"
    /\ sess' = IF staCancel THEN "assoc" ELSE "dhcp"
    /\ UNCHANGED macScan

DhcpBound ==
    /\ sess = "dhcp" /\ staStatus = "DHCPING"
    /\ staStatus' = "LAUNCHED"
    /\ UNCHANGED <<sess, macScan>>

Supplicant ==
    /\ CanRun
    /\ WpaScan \/ WpaAssoc \/ DhcpStart \/ DhcpBound
    /\ UNCHANGED <<sockVars, timerVars, staVars, apVars, preType, staCancel,
                   apStVars, csa, flags, taskVars, upc, airkiss, macDisc,
                   boundVars, histVars>>

\* hapd_intf_set_ap_bcn, and the beacon the MAC then transmits.
ApBeacon ==
    /\ \/ CanRun /\ apStatus = "INITING" /\ rl_pre_ap_set_status("UPDATING_BCN")
       \/ /\ apStatus \in {"UPDATING_BCN", "TRANSMITTED_BCN"}
          /\ ~apMark
          /\ rl_pre_ap_set_status("TRANSMITTED_BCN")
    /\ UNCHANGED <<sockVars, timerVars, staVars, apVars, preType, statVars,
                   apCancel, csa, flags, taskVars, upc, airkiss, macVars,
                   boundVars, histVars>>

\* hostapd asks for a channel switch, refused while a launch is cancelled.
rl_set_csa_switching ==
    /\ CanRun
    /\ csas < MaxCsa
    /\ apStatus \in {"UPDATING_BCN", "TRANSMITTED_BCN"}
    /\ ~staCancel /\ ~apCancel
    /\ csas' = csas + 1
    /\ csa' = "switching"
    /\ UNCHANGED <<sockVars, timerVars, staVars, apVars, preType, statVars,
                   apStVars, flags, taskVars, upc, airkiss, macVars, reqs,
                   stops, advs, pauses, histVars>>

rl_set_csa_switched ==
    /\ csa = "switching"
    /\ csa' = "switched"
    /\ UNCHANGED <<sockVars, timerVars, staVars, apVars, preType, statVars,
                   apStVars, flags, taskVars, upc, airkiss, macVars, boundVars,
                   histVars>>

\* airkiss_main: pause the launcher, wait for it to be idle, take the radio to
\* monitor mode, give it back.
AirkissPause ==
    /\ airkiss = "off"
    /\ pauses < MaxPause
    /\ pauses' = pauses + 1
    /\ airkiss' = "waiting"
    /\ flags' = flags \cup {"PAUSE"}

AirkissMonitor ==
    /\ airkiss = "waiting"
    /\ rl_status_is_idle
    /\ airkiss' = "monitor"
    /\ UNCHANGED <<flags, pauses>>

AirkissDone ==
    /\ airkiss = "monitor"
    /\ airkiss' = "off"
    /\ flags' = flags \ {"PAUSE"}
    /\ UNCHANGED pauses

Airkiss ==
    /\ CanRun
    /\ AirkissPause \/ AirkissMonitor \/ AirkissDone
    /\ UNCHANGED <<sockVars, timerVars, staVars, apVars, preType, statVars,
                   apStVars, csa, taskVars, upc, macVars, reqs, stops, advs,
                   csas, histVars>>

-----------------------------------------------------------------------------
TimerTask ==
    \/ rl_enter_handler \/ ap_request_enter \/ rl_launch_handler
    \/ bk_wlan_start_sta \/ DelifSta \/ bk_wlan_start_scan
    \/ bk_wlan_ap_init \/ bk_wlan_start_ap \/ DelifAp

Application ==
    \/ \E t \in StaType : RequestSta(t)
    \/ \E t \in ApType : rl_ap_request_enter(t)
    \/ bk_wlan_stop \/ bk_wlan_stop_returns \/ bk_wlan_stop_ap
    \/ bk_wlan_start_sta_adv \/ bk_wlan_start_sta_adv_returns

Environment ==
    \/ \E loss \in BOOLEAN : mhdr_disconnect_ind(loss)
    \/ ScanCfm \/ Supplicant \/ ApBeacon
    \/ rl_set_csa_switching \/ rl_set_csa_switched
    \/ Airkiss

Next == TimerTask \/ rl_enter_handler_no_memory \/ Application \/ Environment

\* The timer task runs its handlers and the starts it makes come to an end;
\* calls of bk_wlan_stop return; the MAC answers a scan and ends a switch.
Fairness ==
    /\ WF_vars(TimerTask)
    /\ WF_vars(bk_wlan_stop_returns)
    /\ WF_vars(bk_wlan_start_sta_adv_returns)
    /\ WF_vars(ScanCfm)
    /\ WF_vars(rl_set_csa_switched)

Spec == Init /\ [][Next]_vars /\ Fairness

-----------------------------------------------------------------------------
(* Properties.                                                             *)

StaReq   == [type : StaType, no : Nat, redo : BOOLEAN]
ApReq    == [type : ApType, no : Nat, redo : BOOLEAN]
CacheReq == [type : {"STA"}, no : Nat, redo : {TRUE}]

QueueTypeOK ==
    /\ sockSta \in StaReq \cup {NONE}
    /\ folSta \in StaReq \cup {NONE}
    /\ prevSta \in StaReq \cup {NONE}
    /\ sockAp \in ApReq \cup {NONE}
    /\ folAp \in ApReq \cup {NONE}
    /\ prevAp \in ApReq \cup {NONE}
    /\ hitAp \in ApReq \cup {NONE}
    /\ cache \in CacheReq \cup {NONE}

TaskTypeOK ==
    /\ pc \in {"idle", "sta", "ap", "hostapd", "enterAp"}
    /\ by \in {"none", "enter", "launch"}
    /\ pc = "idle" <=> by = "none"
    /\ pc = "enterAp" => by = "enter"
    /\ req \in StaReq \cup ApReq \cup {NONE}
    /\ pc = "sta" => req \in StaReq
    /\ pc \in {"ap", "hostapd"} => req \in ApReq
    /\ reqs \in Nat
    /\ lastSta \in Nat

StatusTypeOK ==
    /\ preType \in {"IDLE", "STA", "AP"}
    /\ staStatus \in StaStatus
    /\ apStatus \in ApStatus
    /\ csa \in {"none", "switching", "switched"}
    /\ flags \in SUBSET Flag
    /\ upc \in {"idle", "stop", "adv"}
    /\ airkiss \in {"off", "waiting", "monitor"}
    /\ sess \in {"none", "up", "assoc", "dhcp"}
    /\ macScan \in {"none", "app", "wpa"}
    /\ stops \in Nat /\ advs \in Nat /\ csas \in Nat /\ pauses \in Nat

FlagTypeOK ==
    /\ enterTimer \in BOOLEAN
    /\ rlTimer \in BOOLEAN
    /\ staCancel \in BOOLEAN
    /\ apMark \in BOOLEAN
    /\ apCancel \in BOOLEAN
    /\ macDisc \in BOOLEAN
    /\ stopped \in BOOLEAN
    /\ erased \in BOOLEAN

\* Type correctness: the queues of each role hold requests of that role, only
\* station requests are cached, and the timer task has a request to start
\* exactly when it is inside a start.
TypeOK == QueueTypeOK /\ TaskTypeOK /\ StatusTypeOK /\ FlagTypeOK

\* While airkiss has the radio in monitor mode the launcher is not starting or
\* stopping a role: rl_status_set_pause and the wait for rl_status_is_idle on
\* one side, PENDING and DOING taken together with the PAUSE check on the other.
PauseExcludesLaunch ==
    airkiss = "monitor" => pc \notin {"sta", "ap", "hostapd"}

\* A queued request is never forgotten: whenever the timer task is at rest the
\* launch timer is running.  _sta_request_enter and _ap_request_enter start it
\* and rl_launch_handler starts it again as long as one of the roles waits.
FollowingHasTimer ==
    pc = "idle" /\ (folSta # NONE \/ folAp # NONE) => rlTimer

\* The station requests of the applications are started in the order they were
\* made, each at most once, although newer ones overwrite and overtake older
\* ones in the socket and reconnections come in between.
StaLaunchOrder ==
    [][pc # "sta" /\ pc' = "sta" /\ ~req'.redo => req'.no > lastSta]_vars

\* Once the application has stopped the station with bk_wlan_stop, with no
\* start of the station in progress, nothing the launcher has queued, cached or
\* been sent starts it again before the application's next request.  The one
\* exception: after a bk_wlan_start_sta_adv a disconnection makes the launcher
\* enter a removal of its own (rl_sta_cache_request_enter), which resets
\* RESTART_HOLD; until that removal starts, a request queued before the stop
\* may.
StopSticks ==
    stopped /\ ~erased => ~StartsSta

\* A queued station request is not stuck behind the one in progress: it is
\* started, or given up because of a pause or a stop.
FollowingServed ==
    folSta # NONE ~> folSta = NONE
====
