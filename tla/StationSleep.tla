---------------------------- MODULE StationSleep ----------------------------
(***************************************************************************)
(* DTIM power save of the station: power_save.c, the core thread of app.c  *)
(* that runs it, and the calls of wlan_ui.c, temp_detect.c and             *)
(* hostapd_intf.c that wake the radio up.  The build is the one of the     *)
(* chips without low voltage sleep and without BLE.                        *)
(*                                                                         *)
(* Who runs at the same time: the core thread, which handles one message   *)
(* of its queue after the other, runs the events of the MAC library and    *)
(* alone puts the MAC to sleep; the interrupt with which the dozing MAC    *)
(* asks to be woken; the timer task; the temperature thread and the        *)
(* supplicant, which need the radio; the application.  Every section the   *)
(* code runs with interrupts disabled is one step.                         *)
(*                                                                         *)
(* External: the MAC library (librwnx) answers the mode requests, reports  *)
(* the beacons and decides in ps_sleep_check whether the MAC may sleep.    *)
(* It may always refuse; it does refuse while a bit of prevent_sleep is    *)
(* set and while the null frame of a mode change is on its way.            *)
(***************************************************************************)
EXTENDS Naturals, Sequences

CONSTANTS
    PS_BCN_MAX_LOSS_LIMIT,  \* beacons the station may miss and sleep again
    QueueItems,             \* CORE_QITEM_COUNT
    MaxCalls                \* bound: calls of the application, changes of the link

ASSUME StationSleepAssumption ==
    /\ PS_BCN_MAX_LOSS_LIMIT \in Nat \ {0}
    /\ QueueItems \in Nat \ {0}
    /\ MaxCalls \in Nat

VARIABLES
    mode,       \* bk_ps_mode: "none" or "dtim"
    want,       \* rf_ps_enabled of wlan_ui.c: what the application asked for
    net,        \* mhdr_get_station_status: "down", "connected" or "ip"
    asleep,     \* ps_real_sleep
    way,        \* ps_arm_wakeup_way: "none", "rw" or "user"
    beacon,     \* waited_beacon: "init", "true" or "false"
    can,        \* ps_can_sleep
    lock,       \* ps_lock
    fiq,        \* FIQ_MAC_WAKEUP is enabled
    prevents,   \* bits of prevent_sleep that are set
    kpPeriod,   \* ps_keep_timer_period > 0, and so the timer exists
    kpRunning,  \* the keep timer runs
    kpStatus,   \* ps_keep_timer_status = 1
    kpFlag,     \* ps_keep_timer_flag = 1
    loss,       \* ps_bcn_loss_max_count
    reseted,    \* ps_reseted_moniter_flag
    wtInit,     \* the wait timer exists
    wtRunning,  \* the wait timer runs
    wtStatus,   \* ps_wait_timer_status = 1
    queue,      \* io_queue of the core thread
    core,       \* where the core thread is
    cur,        \* the message it handles, "null" when it is done with it
    changes,    \* mode requests the library has not confirmed
    temp,       \* where the temperature thread is
    wpas,       \* where the supplicant is
    calls,      \* calls so far
    heard,      \* history: a beacon since the last wake-up by the MAC
    missed      \* history: sleeps in a row with no beacon since that wake-up

modeVars == <<mode, want, net, changes>>
sleepVars == <<asleep, way, beacon, can, lock, fiq, prevents>>
keepVars == <<kpPeriod, kpRunning, kpStatus, kpFlag, loss, reseted>>
waitVars == <<wtInit, wtRunning, wtStatus>>
coreVars == <<core, cur>>
userVars == <<temp, wpas>>
ghosts == <<heard, missed>>
vars == <<modeVars, sleepVars, keepVars, waitVars, queue, coreVars, userVars,
          calls, ghosts>>

PsMessages == {"enable", "disable", "userWkup", "kpSet", "kpHandler", "kpStop",
               "waitSet", "waitHandler", "timerInit", "timerDeinit"}
Messages == PsMessages \cup {"tx", "rx", "null"}

Init ==
    /\ mode = "none" /\ want = FALSE /\ net = "ip" /\ changes = <<>>
    /\ asleep = FALSE /\ way = "none" /\ beacon = "init" /\ can = FALSE
    /\ lock = 1 /\ fiq = FALSE /\ prevents = {}
    /\ kpPeriod = FALSE /\ kpRunning = FALSE /\ kpStatus = FALSE
    /\ kpFlag = TRUE /\ loss = 0 /\ reseted = FALSE
    /\ wtInit = FALSE /\ wtRunning = FALSE /\ wtStatus = FALSE
    /\ queue = <<>> /\ core = "idle" /\ cur = "null"
    /\ temp = "out" /\ wpas = "out" /\ calls = 0
    /\ heard = TRUE /\ missed = 0

\* bmsg_ps_sender pushes with no wait: what a full queue refuses is lost.
Pushed(q, m) == IF Len(q) < QueueItems THEN Append(q, m) ELSE q

PS_STA_DTIM_SWITCH == mode = "dtim" /\ net = "ip"

PS_STA_DTIM_CAN_SLEEP ==
    /\ PS_STA_DTIM_SWITCH
    /\ beacon = "true" \/ way = "user"
    /\ can

----------------------------------------------------------------------------
(* Sleeping and waking up.                                                 *)

\* power_save_ieee_dtim_wakeup of a sleeping station, with power_save_wakeup
\* and power_save_rf_ps_wkup_semlist_set.  w is who wakes the station up, q
\* the queue as the caller leaves it.
power_save_ieee_dtim_wakeup(w, q) ==
    /\ way' = w
    /\ fiq' = FALSE
    /\ beacon' = "false"
    /\ prevents' = IF w = "rw" THEN prevents \cup {"bcn"} ELSE prevents
    /\ lock' = lock + 1
    /\ asleep' = FALSE
    /\ can' = TRUE
    /\ kpFlag' = (kpFlag \/ kpPeriod)
    /\ queue' = IF kpPeriod THEN Pushed(q, "kpSet") ELSE q
    /\ temp' = IF temp = "waiting" THEN "woken" ELSE temp
    /\ heard' = (w # "rw")
    /\ UNCHANGED missed

NoWakeup(q) ==
    /\ queue' = q
    /\ UNCHANGED <<sleepVars, kpFlag, temp, ghosts>>

power_save_rf_dtim_manual_do_wakeup(q) ==
    IF mode = "dtim" /\ way = "none" /\ asleep
    THEN power_save_ieee_dtim_wakeup("user", q)
    ELSE NoWakeup(q)

\* What no wake-up touches.
AwakeFrame == UNCHANGED <<modeVars, kpPeriod, kpRunning, kpStatus, loss,
                          reseted, waitVars, calls>>

\* Mutant: the link is tested, and not the mode alone.
power_save_dtim_wakeLinked ==
    /\ fiq /\ PS_STA_DTIM_SWITCH /\ way = "none" /\ asleep
    /\ power_save_ieee_dtim_wakeup("rw", queue)
    /\ AwakeFrame
    /\ UNCHANGED <<wpas, coreVars>>

\* The dozing MAC reaches its listen interval and raises the wake-up
\* interrupt.
power_save_dtim_wake ==
    /\ fiq /\ mode = "dtim" /\ way = "none"
    /\ IF asleep
       THEN power_save_ieee_dtim_wakeup("rw", queue)
       ELSE /\ fiq' = FALSE /\ way' = "rw"
            /\ UNCHANGED <<asleep, beacon, can, lock, prevents, kpFlag, queue,
                           temp, ghosts>>
    /\ AwakeFrame
    /\ UNCHANGED <<wpas, coreVars>>

\* ps_sleep_check finds no reason to stay awake and calls power_save_sleep,
\* whose rwnxl_sleep succeeds.
power_save_sleep ==
    /\ core = "sleep"
    /\ ~asleep /\ PS_STA_DTIM_CAN_SLEEP
    /\ prevents = {} /\ changes = <<>>
    /\ lock > 0
    /\ lock' = lock - 1
    /\ asleep' = TRUE
    /\ way' = "none"
    /\ fiq' = TRUE
    /\ queue' = IF kpStatus THEN Pushed(queue, "kpStop") ELSE queue
    /\ missed' = IF way = "rw" /\ ~heard THEN missed + 1 ELSE missed
    /\ core' = "idle"
    /\ UNCHANGED <<modeVars, beacon, can, prevents, keepVars, waitVars, cur,
                   userVars, calls, heard>>

\* The library, the MAC or one of the checks of power_save_sleep refuses.
SleepRefused ==
    /\ core = "sleep"
    /\ core' = "idle"
    /\ UNCHANGED <<modeVars, sleepVars, keepVars, waitVars, queue, cur,
                   userVars, calls, ghosts>>

\* The test outside of the section with interrupts disabled.
power_save_rf_sleep_check ==
    /\ core = "check"
    /\ core' = IF PS_STA_DTIM_CAN_SLEEP /\ queue = <<>> THEN "sleep" ELSE "idle"
    /\ cur' = "null"
    /\ UNCHANGED <<modeVars, sleepVars, keepVars, waitVars, queue, userVars,
                   calls, ghosts>>

----------------------------------------------------------------------------
(* The library, inside ke_evt_core_scheduler.                              *)

\* mm_set_ps_mode_cfm for "on": power_save_dtim_enable_handler.
power_save_dtim_enable_handler ==
    /\ core = "sched" /\ changes # <<>> /\ Head(changes) = "on"
    /\ changes' = Tail(changes)
    /\ IF net # "down"
       THEN /\ mode' = "dtim" /\ can' = TRUE
            /\ wtInit' = TRUE /\ wtRunning' = FALSE /\ wtStatus' = FALSE
       ELSE UNCHANGED <<mode, can, waitVars>>
    /\ UNCHANGED <<want, net, asleep, way, beacon, lock, fiq, prevents,
                   keepVars, queue, coreVars, userVars, calls, ghosts>>

\* mm_set_ps_mode_cfm for "off": power_save_dtim_disable_handler and
\* power_save_dtim_ps_exit.
power_save_dtim_disable_handler ==
    /\ core = "sched" /\ changes # <<>> /\ Head(changes) = "off"
    /\ changes' = Tail(changes)
    /\ mode' = "none"
    /\ kpRunning' = FALSE /\ kpStatus' = FALSE
    /\ wtRunning' = FALSE /\ wtStatus' = FALSE
    /\ beacon' = "init"
    /\ can' = FALSE
    /\ asleep' = FALSE
    /\ UNCHANGED <<want, net, way, lock, fiq, prevents, kpPeriod, kpFlag, loss,
                   reseted, wtInit, queue, coreVars, userVars, calls, ghosts>>

\* power_save_beacon_state_update, called for each beacon of the AP; the
\* library clears the bit that waits for it and may ask for the wait timer.
power_save_beacon_state_update ==
    /\ core = "sched" /\ ~asleep
    /\ prevents' = prevents \ {"bcn"}
    /\ IF PS_STA_DTIM_SWITCH /\ beacon # "true"
       THEN /\ beacon' = "true"
            /\ loss' = 0
            /\ kpRunning' = FALSE /\ kpStatus' = FALSE
       ELSE UNCHANGED <<beacon, loss, kpRunning, kpStatus>>
    /\ \/ queue' = queue
       \/ PS_STA_DTIM_SWITCH /\ queue' = Pushed(queue, "waitSet")
    /\ heard' = TRUE /\ missed' = 0
    /\ UNCHANGED <<modeVars, asleep, way, can, lock, fiq, kpPeriod, kpFlag,
                   reseted, waitVars, coreVars, userVars, calls>>

\* The scheduler has nothing more to run.
ke_evt_core_scheduler ==
    /\ core = "sched"
    /\ core' = IF cur \in PsMessages \ {"disable"} THEN "ps" ELSE "check"
    /\ UNCHANGED <<modeVars, sleepVars, keepVars, waitVars, queue, cur,
                   userVars, calls, ghosts>>

----------------------------------------------------------------------------
(* The core thread: core_thread_main.                                      *)

\* Mutant: the request to leave power save goes out with the MAC asleep.
CoreDisablesAsleep ==
    /\ core = "idle" /\ queue # <<>> /\ Head(queue) = "disable"
    /\ cur' = "disable" /\ core' = "sched"
    /\ NoWakeup(Tail(queue))
    /\ changes' = IF mode = "dtim" THEN Append(changes, "off") ELSE changes
    /\ UNCHANGED <<mode, want, net, kpPeriod, kpRunning, kpStatus, loss, reseted,
                   waitVars, wpas, calls>>

\* PS_BMSG_IOCTL_RF_DISABLE is handled before the scheduler runs: wake up,
\* then power_save_dtim_disable asks the library to leave power save.
CoreDisables ==
    /\ core = "idle" /\ queue # <<>> /\ Head(queue) = "disable"
    /\ cur' = "disable" /\ core' = "sched"
    /\ power_save_rf_dtim_manual_do_wakeup(Tail(queue))
    /\ changes' = IF mode = "dtim" THEN Append(changes, "off") ELSE changes
    /\ UNCHANGED <<mode, want, net, kpPeriod, kpRunning, kpStatus, loss, reseted,
                   waitVars, wpas, calls>>

\* Mutant: the frame is sent with no wake-up of the core thread's own.
CoreTransmitsAsleep ==
    /\ core = "idle" /\ queue # <<>> /\ Head(queue) = "tx"
    /\ cur' = "tx" /\ core' = "tx"
    /\ NoWakeup(Tail(queue))
    /\ AwakeFrame
    /\ UNCHANGED wpas

\* bmsg_tx_handler, bmsg_tx_raw_handler: first the manual wake-up ...
CoreTransmits ==
    /\ core = "idle" /\ queue # <<>> /\ Head(queue) = "tx"
    /\ cur' = "tx" /\ core' = "tx"
    /\ power_save_rf_dtim_manual_do_wakeup(Tail(queue))
    /\ AwakeFrame
    /\ UNCHANGED wpas

\* ... then bk_wlan_dtim_rf_ps_mode_do_wakeup, which would wait on a semaphore
\* if it found the MAC asleep; then the frame.
CoreWaits ==
    /\ core = "tx"
    /\ IF mode = "dtim" /\ asleep
       THEN core' = "blocked" /\ queue' = Pushed(queue, "userWkup")
       ELSE core' = "sched" /\ queue' = queue
    /\ UNCHANGED <<modeVars, sleepVars, keepVars, waitVars, cur, userVars,
                   calls, ghosts>>

\* The other messages go to the scheduler first.
CorePops ==
    /\ core = "idle" /\ queue # <<>> /\ Head(queue) \notin {"disable", "tx"}
    /\ cur' = Head(queue) /\ queue' = Tail(queue)
    /\ core' = "sched"
    /\ UNCHANGED <<modeVars, sleepVars, keepVars, waitVars, userVars, calls,
                   ghosts>>

\* PS_BMSG_IOCTL_RF_ENABLE: power_save_dtim_enable.  A key calculation that
\* is pending refuses as well.
PsEnable ==
    /\ core = "ps" /\ cur = "enable"
    /\ core' = "check"
    /\ \/ /\ net = "ip" /\ mode = "none"
          /\ changes' = Append(changes, "on")
       \/ UNCHANGED changes
    /\ UNCHANGED <<mode, want, net, sleepVars, keepVars, waitVars, queue, cur,
                   userVars, calls, ghosts>>

\* PS_BMSG_IOCTL_RF_USER_WKUP.
PsUserWakeup ==
    /\ core = "ps" /\ cur = "userWkup"
    /\ core' = "check"
    /\ power_save_rf_dtim_manual_do_wakeup(queue)
    /\ AwakeFrame
    /\ UNCHANGED <<wpas, cur>>

\* PS_BMSG_IOCTL_RF_KP_SET: power_save_keep_timer_set.
power_save_keep_timer_set ==
    /\ core = "ps" /\ cur = "kpSet"
    /\ core' = "check"
    /\ IF kpPeriod /\ ~kpStatus
       THEN kpStatus' = TRUE /\ kpRunning' = TRUE
       ELSE UNCHANGED <<kpStatus, kpRunning>>
    /\ UNCHANGED <<modeVars, sleepVars, kpPeriod, kpFlag, loss, reseted, waitVars,
                   queue, cur, userVars, calls, ghosts>>

\* PS_BMSG_IOCTL_RF_KP_STOP: power_save_keep_timer_stop.
power_save_keep_timer_stop ==
    /\ core = "ps" /\ cur = "kpStop"
    /\ core' = "check"
    /\ kpStatus' = FALSE /\ kpRunning' = FALSE
    /\ UNCHANGED <<modeVars, sleepVars, kpPeriod, kpFlag, loss, reseted, waitVars,
                   queue, cur, userVars, calls, ghosts>>

\* PS_BMSG_IOCTL_RF_PS_TIMER_INIT, _DEINIT: power_save_set_keep_timer_time.
power_save_set_keep_timer_time ==
    /\ core = "ps" /\ cur \in {"timerInit", "timerDeinit"}
    /\ core' = "check"
    /\ kpPeriod' = (cur = "timerInit")
    /\ kpStatus' = FALSE /\ kpRunning' = FALSE
    /\ UNCHANGED <<modeVars, sleepVars, kpFlag, loss, reseted, waitVars, queue, cur,
                   userVars, calls, ghosts>>

\* Mutant: one beacon more.
GivesUpOnceMore == ~reseted /\ loss <= PS_BCN_MAX_LOSS_LIMIT

\* The station may sleep again without the beacon it waits for.
GivesUp == ~reseted /\ loss < PS_BCN_MAX_LOSS_LIMIT

\* PS_BMSG_IOCTL_RF_KP_HANDLER: power_save_keep_timer_real_handler.
power_save_keep_timer_real_handler ==
    /\ core = "ps" /\ cur = "kpHandler"
    /\ core' = "check"
    /\ IF ~(PS_STA_DTIM_SWITCH /\ way = "rw" /\ ~asleep)
       THEN UNCHANGED <<kpFlag, queue, beacon, prevents, loss, reseted>>
       ELSE IF kpFlag /\ beacon # "true"
       THEN /\ kpFlag' = FALSE
            /\ queue' = Pushed(queue, "kpSet")
            /\ UNCHANGED <<beacon, prevents, loss, reseted>>
       ELSE /\ IF GivesUp
               THEN /\ beacon' = "true"
                    /\ prevents' = prevents \ {"bcn"}
                    /\ loss' = loss + 1
                    /\ UNCHANGED reseted
               ELSE /\ reseted' = FALSE
                    /\ UNCHANGED <<beacon, prevents, loss>>
            /\ queue' = IF queue = <<>> THEN <<"null">> ELSE queue
            /\ UNCHANGED kpFlag
    /\ UNCHANGED <<modeVars, asleep, way, can, lock, fiq, kpPeriod, kpRunning,
                   kpStatus, waitVars, cur, userVars, calls, ghosts>>

\* PS_BMSG_IOCTL_WAIT_TM_SET: power_save_wait_timer_start.
power_save_wait_timer_start ==
    /\ core = "ps" /\ cur = "waitSet"
    /\ core' = "check"
    /\ IF wtInit /\ ~wtStatus
       THEN wtStatus' = TRUE /\ wtRunning' = TRUE /\ beacon' = "false"
       ELSE UNCHANGED <<wtStatus, wtRunning, beacon>>
    /\ UNCHANGED <<modeVars, asleep, way, can, lock, fiq, prevents, keepVars,
                   wtInit, queue, cur, userVars, calls, ghosts>>

\* PS_BMSG_IOCTL_WAIT_TM_HANDLER: power_save_wait_timer_real_handler.
power_save_wait_timer_real_handler ==
    /\ core = "ps" /\ cur = "waitHandler"
    /\ core' = "check"
    /\ wtStatus' = FALSE /\ wtRunning' = FALSE
    /\ beacon' = IF PS_STA_DTIM_SWITCH THEN "true" ELSE beacon
    /\ UNCHANGED <<modeVars, asleep, way, can, lock, fiq, prevents, keepVars,
                   wtInit, queue, cur, userVars, calls, ghosts>>

Core ==
    \/ power_save_sleep \/ SleepRefused \/ power_save_rf_sleep_check
    \/ power_save_dtim_enable_handler \/ power_save_dtim_disable_handler
    \/ ke_evt_core_scheduler
    \/ CoreDisables \/ CoreTransmits \/ CoreWaits \/ CorePops
    \/ PsEnable \/ PsUserWakeup
    \/ power_save_keep_timer_set \/ power_save_keep_timer_stop
    \/ power_save_set_keep_timer_time \/ power_save_keep_timer_real_handler
    \/ power_save_wait_timer_start \/ power_save_wait_timer_real_handler

----------------------------------------------------------------------------
(* The timer task.                                                         *)

power_save_keep_timer_handler ==
    /\ kpRunning
    /\ kpRunning' = FALSE
    /\ queue' = Pushed(queue, "kpHandler")
    /\ UNCHANGED <<modeVars, sleepVars, kpPeriod, kpStatus, kpFlag, loss,
                   reseted, waitVars, coreVars, userVars, calls, ghosts>>

power_save_wait_timer_handler ==
    /\ wtRunning
    /\ wtRunning' = FALSE
    /\ queue' = Pushed(queue, "waitHandler")
    /\ UNCHANGED <<modeVars, sleepVars, keepVars, wtInit, wtStatus, coreVars,
                   userVars, calls, ghosts>>

----------------------------------------------------------------------------
(* The temperature thread, volt_detect_polling_handler, and the            *)
(* supplicant, hapd_intf_add_key: each forbids the sleep, wakes the radio  *)
(* up and uses it.                                                         *)

\* Mutant: ps_set_temp_prevent is not called.
TempStartsUnguarded ==
    /\ temp = "out"
    /\ temp' = "begun"
    /\ UNCHANGED <<modeVars, sleepVars, keepVars, waitVars, queue, coreVars,
                   wpas, calls, ghosts>>

TempStarts ==
    /\ temp = "out"
    /\ temp' = "begun"
    /\ prevents' = prevents \cup {"temp"}
    /\ UNCHANGED <<modeVars, asleep, way, beacon, can, lock, fiq, keepVars,
                   waitVars, queue, coreVars, wpas, calls, ghosts>>

\* Mutant: the test for a sleeping MAC is dropped.
bk_wlan_dtim_rf_ps_mode_do_wakeupBlind ==
    /\ temp = "begun"
    /\ temp' = "waiting" /\ queue' = Pushed(queue, "userWkup")
    /\ UNCHANGED <<modeVars, sleepVars, keepVars, waitVars, coreVars, wpas,
                   calls, ghosts>>

\* The test, the entry in wk_list and the message are one section.
bk_wlan_dtim_rf_ps_mode_do_wakeup ==
    /\ temp = "begun"
    /\ IF mode = "dtim" /\ asleep
       THEN temp' = "waiting" /\ queue' = Pushed(queue, "userWkup")
       ELSE temp' = "using" /\ queue' = queue
    /\ UNCHANGED <<modeVars, sleepVars, keepVars, waitVars, coreVars, wpas,
                   calls, ghosts>>

\* power_save_rf_ps_wkup_semlist_get returns.
TempResumes ==
    /\ temp = "woken"
    /\ temp' = "using"
    /\ UNCHANGED <<modeVars, sleepVars, keepVars, waitVars, queue, coreVars,
                   wpas, calls, ghosts>>

TempEnds ==
    /\ temp = "using"
    /\ temp' = "out"
    /\ prevents' = prevents \ {"temp"}
    /\ UNCHANGED <<modeVars, asleep, way, beacon, can, lock, fiq, keepVars,
                   waitVars, queue, coreVars, wpas, calls, ghosts>>

KeyStarts ==
    /\ wpas = "out"
    /\ wpas' = "begun"
    /\ prevents' = prevents \cup {"key"}
    /\ UNCHANGED <<modeVars, asleep, way, beacon, can, lock, fiq, keepVars,
                   waitVars, queue, coreVars, temp, calls, ghosts>>

KeyWakesUp ==
    /\ wpas = "begun"
    /\ wpas' = "using"
    /\ power_save_rf_dtim_manual_do_wakeup(queue)
    /\ AwakeFrame
    /\ UNCHANGED coreVars

\* The library clears the bit when the key is in.
KeyEnds ==
    /\ wpas = "using"
    /\ wpas' = "out"
    /\ prevents' = prevents \ {"key"}
    /\ UNCHANGED <<modeVars, asleep, way, beacon, can, lock, fiq, keepVars,
                   waitVars, queue, coreVars, temp, calls, ghosts>>

Users ==
    \/ TempStarts \/ bk_wlan_dtim_rf_ps_mode_do_wakeup \/ TempResumes \/ TempEnds
    \/ KeyStarts \/ KeyWakesUp \/ KeyEnds

----------------------------------------------------------------------------
(* The application and the air.                                            *)

Called ==
    /\ calls < MaxCalls
    /\ calls' = calls + 1
    /\ UNCHANGED <<mode, changes, sleepVars, kpPeriod, kpRunning, kpStatus,
                   kpFlag, loss, waitVars, coreVars, userVars, ghosts>>

bk_wlan_dtim_rf_ps_mode_enable ==
    /\ Called
    /\ want' = TRUE
    /\ queue' = Pushed(queue, "enable")
    /\ UNCHANGED <<net, reseted>>

\* bk_wlan_dtim_rf_ps_mode_disable: the message is sent in DTIM mode only.
bk_wlan_dtim_rf_ps_mode_disable ==
    /\ Called
    /\ want' = FALSE
    /\ queue' = IF mode = "dtim" THEN Pushed(queue, "disable") ELSE queue
    /\ UNCHANGED <<net, reseted>>

\* bk_wlan_dtim_rf_ps_timer_start, _pause.
bk_wlan_dtim_rf_ps_timer ==
    /\ Called
    /\ \E m \in {"timerInit", "timerDeinit"} : queue' = Pushed(queue, m)
    /\ UNCHANGED <<want, net, reseted>>

\* The station loses its address or its AP.
LinkDown ==
    /\ net = "ip"
    /\ Called
    /\ net' \in {"connected", "down"}
    /\ UNCHANGED <<want, queue, reseted>>

\* The address is there (again): auto_check_dtim_rf_ps_mode.
auto_check_dtim_rf_ps_mode ==
    /\ net # "ip"
    /\ Called
    /\ net' = "ip"
    /\ queue' = IF want THEN Pushed(queue, "enable") ELSE queue
    /\ UNCHANGED <<want, reseted>>

\* bk_wlan_start and bk_wlan_stop leave power save and drop the link.
bk_wlan_dtim_rf_ps_disable_send_msg ==
    /\ Called
    /\ net' = "down"
    /\ queue' = IF mode = "dtim" THEN Pushed(queue, "disable") ELSE queue
    /\ UNCHANGED <<want, reseted>>

\* The library reset the MAC.
power_save_set_reseted_flag ==
    /\ Called
    /\ reseted' = TRUE
    /\ UNCHANGED <<want, net, queue>>

\* A frame to send; a frame of the MAC, which only an awake one receives.
\* Bound: traffic comes when the core thread has nothing else to do, which
\* puts it everywhere between the other messages but the ends of the queue.
Traffic ==
    /\ queue = <<>>
    /\ \E m \in {"tx", "rx"} :
          /\ m = "rx" => ~asleep
          /\ queue' = <<m>>
    /\ UNCHANGED <<modeVars, sleepVars, keepVars, waitVars, coreVars, userVars,
                   calls, ghosts>>

Next ==
    \/ power_save_dtim_wake
    \/ power_save_beacon_state_update
    \/ Core
    \/ power_save_keep_timer_handler \/ power_save_wait_timer_handler
    \/ Users
    \/ bk_wlan_dtim_rf_ps_mode_enable \/ bk_wlan_dtim_rf_ps_mode_disable
    \/ bk_wlan_dtim_rf_ps_timer
    \/ LinkDown \/ auto_check_dtim_rf_ps_mode
    \/ bk_wlan_dtim_rf_ps_disable_send_msg
    \/ power_save_set_reseted_flag
    \/ Traffic

Spec == Init /\ [][Next]_vars

\* The core thread runs, the dozing MAC always wakes up at its listen
\* interval, timers expire, threads go on; and a library that is asked again
\* and again lets the MAC sleep when nothing prevents it.
Fairness ==
    /\ WF_vars(Core) /\ SF_vars(power_save_sleep)
    /\ WF_vars(power_save_dtim_wake)
    /\ WF_vars(power_save_keep_timer_handler)
    /\ WF_vars(power_save_wait_timer_handler)
    /\ WF_vars(TempResumes) /\ WF_vars(TempEnds) /\ WF_vars(KeyEnds)

LiveSpec == Spec /\ Fairness

----------------------------------------------------------------------------
(* Properties.                                                             *)

QueueOK(q) == q \in Seq(Messages) /\ Len(q) <= QueueItems

FlagsOK ==
    /\ want \in BOOLEAN /\ asleep \in BOOLEAN /\ can \in BOOLEAN
    /\ fiq \in BOOLEAN
    /\ kpPeriod \in BOOLEAN /\ kpRunning \in BOOLEAN /\ kpStatus \in BOOLEAN
    /\ kpFlag \in BOOLEAN /\ reseted \in BOOLEAN
    /\ wtInit \in BOOLEAN /\ wtRunning \in BOOLEAN /\ wtStatus \in BOOLEAN
    /\ heard \in BOOLEAN

\* Types: io_queue never exceeds its length, and ps_lock, an UINT32 that is
\* counted up and down by different threads, never leaves 0 and 1.
TypeOK ==
    /\ FlagsOK
    /\ mode \in {"none", "dtim"}
    /\ net \in {"down", "connected", "ip"}
    /\ changes \in Seq({"on", "off"})
    /\ way \in {"none", "rw", "user"}
    /\ beacon \in {"init", "true", "false"}
    /\ lock \in {0, 1}
    /\ prevents \subseteq {"bcn", "temp", "key"}
    /\ loss \in Nat
    /\ QueueOK(queue)
    /\ core \in {"idle", "tx", "blocked", "sched", "ps", "check", "sleep"}
    /\ cur \in Messages
    /\ temp \in {"out", "begun", "waiting", "woken", "using"}
    /\ wpas \in {"out", "begun", "using"}
    /\ calls \in 0..MaxCalls
    /\ missed \in Nat

\* A station that sleeps can be woken: it is in DTIM mode, its wake-up
\* interrupt is enabled and not yet taken, and ps_lock is free, so the
\* ASSERT(!ps_lock) of power_save_wakeup holds; awake it holds ps_lock, so
\* the "error ps" exit of power_save_sleep, which leaves the MAC dozing with
\* its interrupts off, is never taken.
SleepCanEnd ==
    IF asleep THEN mode = "dtim" /\ fiq /\ way = "none" /\ lock = 0
              ELSE ~fiq /\ lock = 1

\* Who forbade the sleep and asked for the radio finds it awake for as long
\* as he uses it: the bit set before bk_wlan_dtim_rf_ps_mode_do_wakeup or the
\* manual wake-up keeps the core thread from putting the MAC back to sleep
\* before the waiter runs again.
RadioUsersAwake ==
    temp \in {"woken", "using"} \/ wpas = "using" => ~asleep

\* Nobody waits on wk_list for a station that is awake: no wake-up, and no
\* end of power save, passes between the test of
\* bk_wlan_dtim_rf_ps_mode_do_wakeup and its wait.
NoStrandedWaiter ==
    temp = "waiting" \/ core = "blocked" => asleep

\* The core thread, which calls bk_wlan_dtim_rf_ps_mode_do_wakeup to send a
\* frame, never waits there: it handles the message that would wake it up.
CoreNeverWaits == core # "blocked"

\* The station sleeps again without a beacon at most PS_BCN_MAX_LOSS_LIMIT
\* times in a row; then it stays awake until it hears one.
LossLimit == missed <= PS_BCN_MAX_LOSS_LIMIT

\* A thread that waits for the radio gets it, even when its message to the
\* core thread was lost in a full queue: the MAC's own wake-up releases it.
WaiterReturns == temp = "waiting" ~> temp = "using"
=============================================================================
