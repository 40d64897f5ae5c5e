------------------------- MODULE StationSleepProofs -------------------------
(***************************************************************************)
(* Proofs about StationSleep for every loss limit, queue length and number *)
(* of calls.  The argument rests on who may write ps_real_sleep: only the  *)
(* core thread sets it, in a step that finds no bit of prevent_sleep and   *)
(* no mode request, and only a wake-up, which also releases the waiters,   *)
(* clears it while it is set.                                              *)
(***************************************************************************)
EXTENDS StationSleep, TLAPS

\* A mode request is answered awake: power_save_dtim_disable_handler, which
\* clears ps_real_sleep and releases nobody, never finds it set.
AnsweredAwake == changes # <<>> => ~asleep

\* Who begins to use the radio has its bit set, and keeps it to the end.
BitsHeld ==
    /\ temp # "out" => "temp" \in prevents
    /\ wpas # "out" => "key" \in prevents

\* Once the core thread has woken the MAC up for a frame it stays awake.
SendsAwake == core = "tx" => ~asleep

\* Every sleep without a beacon was paid for by the keep timer's count.
LossCounted ==
    /\ loss <= PS_BCN_MAX_LOSS_LIMIT
    /\ missed <= loss
    /\ ~asleep /\ way = "rw" /\ ~heard /\ "bcn" \notin prevents => missed < loss

\* The inductive invariant.
Safe ==
    /\ SleepCanEnd /\ AnsweredAwake
    /\ BitsHeld /\ RadioUsersAwake /\ NoStrandedWaiter
    /\ SendsAwake /\ CoreNeverWaits
    /\ LossCounted

SafeInv == TypeOK /\ Safe

-----------------------------------------------------------------------------

LEMMA SafeInit == Init => Safe
BY StationSleepAssumption
   DEF Init, Safe, SleepCanEnd, AnsweredAwake, BitsHeld, RadioUsersAwake,
       NoStrandedWaiter, SendsAwake, CoreNeverWaits, LossCounted

LEMMA SafeStep == SafeInv /\ [Next]_vars => Safe'
<1> SUFFICES ASSUME TypeOK, Safe, [Next]_vars PROVE Safe'
    BY DEF SafeInv
<1> USE StationSleepAssumption
    DEF TypeOK, FlagsOK, Safe, SleepCanEnd, AnsweredAwake, BitsHeld, RadioUsersAwake,
        NoStrandedWaiter, SendsAwake, CoreNeverWaits, LossCounted,
        modeVars, sleepVars, keepVars, waitVars, coreVars, userVars, ghosts
<1>1. CASE power_save_dtim_wake
    <2>1. asleep
        BY <1>1 DEF power_save_dtim_wake
    <2> QED
        BY <1>1, <2>1
        DEF power_save_dtim_wake, power_save_ieee_dtim_wakeup, AwakeFrame
<1>2. CASE power_save_beacon_state_update
    BY <1>2 DEF power_save_beacon_state_update
<1>3. CASE power_save_sleep
    BY <1>3 DEF power_save_sleep, PS_STA_DTIM_CAN_SLEEP, PS_STA_DTIM_SWITCH
<1>4. CASE SleepRefused
    BY <1>4 DEF SleepRefused
<1>5. CASE power_save_rf_sleep_check
    BY <1>5 DEF power_save_rf_sleep_check
<1>6. CASE power_save_dtim_enable_handler
    BY <1>6 DEF power_save_dtim_enable_handler
<1>7. CASE power_save_dtim_disable_handler
    BY <1>7 DEF power_save_dtim_disable_handler
<1>8. CASE ke_evt_core_scheduler
    BY <1>8 DEF ke_evt_core_scheduler
<1>9. CASE CoreDisables
    BY <1>9
    DEF CoreDisables, power_save_rf_dtim_manual_do_wakeup,
        power_save_ieee_dtim_wakeup, NoWakeup, AwakeFrame
<1>10. CASE CoreTransmits
    BY <1>10
    DEF CoreTransmits, power_save_rf_dtim_manual_do_wakeup,
        power_save_ieee_dtim_wakeup, NoWakeup, AwakeFrame
<1>11. CASE CoreWaits
    BY <1>11 DEF CoreWaits
<1>12. CASE CorePops
    BY <1>12 DEF CorePops
<1>13. CASE PsEnable
    BY <1>13 DEF PsEnable
<1>14. CASE PsUserWakeup
    BY <1>14
    DEF PsUserWakeup, power_save_rf_dtim_manual_do_wakeup,
        power_save_ieee_dtim_wakeup, NoWakeup, AwakeFrame
<1>15. CASE power_save_keep_timer_set
    BY <1>15 DEF power_save_keep_timer_set
<1>16. CASE power_save_keep_timer_stop
    BY <1>16 DEF power_save_keep_timer_stop
<1>17. CASE power_save_set_keep_timer_time
    BY <1>17 DEF power_save_set_keep_timer_time
<1>18. CASE power_save_keep_timer_real_handler
    BY <1>18 DEF power_save_keep_timer_real_handler, GivesUp
<1>19. CASE power_save_wait_timer_start
    BY <1>19 DEF power_save_wait_timer_start
<1>20. CASE power_save_wait_timer_real_handler
    BY <1>20 DEF power_save_wait_timer_real_handler
<1>21. CASE power_save_keep_timer_handler
    BY <1>21 DEF power_save_keep_timer_handler
<1>22. CASE power_save_wait_timer_handler
    BY <1>22 DEF power_save_wait_timer_handler
<1>23. CASE TempStarts
    BY <1>23 DEF TempStarts
<1>24. CASE bk_wlan_dtim_rf_ps_mode_do_wakeup
    BY <1>24 DEF bk_wlan_dtim_rf_ps_mode_do_wakeup
<1>25. CASE TempResumes
    BY <1>25 DEF TempResumes
<1>26. CASE TempEnds
    BY <1>26 DEF TempEnds
<1>27. CASE KeyStarts
    BY <1>27 DEF KeyStarts
<1>28. CASE KeyWakesUp
    BY <1>28
    DEF KeyWakesUp, power_save_rf_dtim_manual_do_wakeup,
        power_save_ieee_dtim_wakeup, NoWakeup, AwakeFrame
<1>29. CASE KeyEnds
    BY <1>29 DEF KeyEnds
<1>30. CASE bk_wlan_dtim_rf_ps_mode_enable
    BY <1>30 DEF bk_wlan_dtim_rf_ps_mode_enable, Called
<1>31. CASE bk_wlan_dtim_rf_ps_mode_disable
    BY <1>31 DEF bk_wlan_dtim_rf_ps_mode_disable, Called
<1>32. CASE bk_wlan_dtim_rf_ps_timer
    BY <1>32 DEF bk_wlan_dtim_rf_ps_timer, Called
<1>33. CASE LinkDown
    BY <1>33 DEF LinkDown, Called
<1>34. CASE auto_check_dtim_rf_ps_mode
    BY <1>34 DEF auto_check_dtim_rf_ps_mode, Called
<1>35. CASE bk_wlan_dtim_rf_ps_disable_send_msg
    BY <1>35 DEF bk_wlan_dtim_rf_ps_disable_send_msg, Called
<1>36. CASE power_save_set_reseted_flag
    BY <1>36 DEF power_save_set_reseted_flag, Called
<1>37. CASE Traffic
    BY <1>37 DEF Traffic
<1>38. CASE UNCHANGED vars
    BY <1>38 DEF vars
<1> QED
    BY <1>1, <1>2, <1>3, <1>4, <1>5, <1>6, <1>7, <1>8, <1>9, <1>10, <1>11,
       <1>12, <1>13, <1>14, <1>15, <1>16, <1>17, <1>18, <1>19, <1>20, <1>21,
       <1>22, <1>23, <1>24, <1>25, <1>26, <1>27, <1>28, <1>29, <1>30, <1>31,
       <1>32, <1>33, <1>34, <1>35, <1>36, <1>37, <1>38
    DEF Next, Core, Users

-----------------------------------------------------------------------------

\* A queue after a push that may be refused.
LEMMA PushedOK ==
    ASSUME NEW q, QueueOK(q), NEW m \in Messages
    PROVE  QueueOK(Pushed(q, m))
BY StationSleepAssumption DEF Pushed, QueueOK

\* A queue after a pop, and the message popped.
LEMMA TailOK ==
    ASSUME NEW q, QueueOK(q), q # <<>>
    PROVE  QueueOK(Tail(q)) /\ Head(q) \in Messages
BY StationSleepAssumption DEF QueueOK

\* A queue with one message.
LEMMA OneOK ==
    ASSUME NEW m \in Messages
    PROVE  QueueOK(<<m>>)
BY StationSleepAssumption DEF QueueOK

\* The messages the steps name.
LEMMA MessageNames ==
    /\ "kpSet" \in Messages /\ "kpHandler" \in Messages /\ "kpStop" \in Messages
    /\ "waitSet" \in Messages /\ "waitHandler" \in Messages
    /\ "enable" \in Messages /\ "disable" \in Messages
    /\ "userWkup" \in Messages /\ "timerInit" \in Messages
    /\ "timerDeinit" \in Messages
    /\ "tx" \in Messages /\ "rx" \in Messages /\ "null" \in Messages
BY DEF Messages, PsMessages

LEMMA TypeInit == Init => TypeOK
<1> SUFFICES ASSUME Init PROVE TypeOK
    OBVIOUS
<1>1. QueueOK(queue)
    BY StationSleepAssumption DEF Init, QueueOK
<1>2. FlagsOK
    BY Zenon DEF Init, FlagsOK
<1> QED
    BY <1>1, <1>2, MessageNames, StationSleepAssumption DEF Init, TypeOK

\* What a wake-up writes.
WakeTyped ==
    /\ asleep \in BOOLEAN /\ can \in BOOLEAN /\ fiq \in BOOLEAN
    /\ kpFlag \in BOOLEAN /\ heard \in BOOLEAN
    /\ way \in {"none", "rw", "user"}
    /\ beacon \in {"init", "true", "false"}
    /\ lock \in {0, 1}
    /\ prevents \subseteq {"bcn", "temp", "key"}
    /\ temp \in {"out", "begun", "waiting", "woken", "using"}
    /\ QueueOK(queue)
    /\ missed \in Nat

LEMMA WakeupType ==
    ASSUME TypeOK, lock = 0, NEW q, QueueOK(q), NEW w \in {"rw", "user"},
           power_save_ieee_dtim_wakeup(w, q)
    PROVE  WakeTyped'
<1> USE DEF power_save_ieee_dtim_wakeup
<1>1. asleep' \in BOOLEAN /\ can' \in BOOLEAN /\ fiq' \in BOOLEAN
    BY Zenon
<1>2. kpFlag' \in BOOLEAN /\ heard' \in BOOLEAN
    BY Zenon
<1>3. QueueOK(queue')
    <2>1. CASE kpPeriod
        BY <2>1, PushedOK, MessageNames
    <2>2. CASE ~kpPeriod
        BY <2>2
    <2> QED
        BY <2>1, <2>2
<1>4. way' \in {"none", "rw", "user"} /\ lock' \in {0, 1}
    OBVIOUS
<1>5. prevents' \subseteq {"bcn", "temp", "key"}
    BY DEF TypeOK
<1>6. /\ beacon' \in {"init", "true", "false"}
      /\ temp' \in {"out", "begun", "waiting", "woken", "using"}
      /\ missed' \in Nat
    BY DEF TypeOK
<1> QED
    BY <1>1, <1>2, <1>3, <1>4, <1>5, <1>6 DEF WakeTyped

LEMMA ManualType ==
    ASSUME TypeOK, SleepCanEnd, NEW q, QueueOK(q),
           power_save_rf_dtim_manual_do_wakeup(q)
    PROVE  WakeTyped'
<1>1. CASE mode = "dtim" /\ way = "none" /\ asleep
    <2>1. lock = 0
        BY <1>1 DEF SleepCanEnd
    <2> QED
        BY <1>1, <2>1, WakeupType DEF power_save_rf_dtim_manual_do_wakeup
<1>2. CASE ~(mode = "dtim" /\ way = "none" /\ asleep)
    BY <1>2, ZenonT(90)
    DEF power_save_rf_dtim_manual_do_wakeup, NoWakeup, TypeOK, FlagsOK,
        WakeTyped, sleepVars, ghosts
<1> QED
    BY <1>1, <1>2

\* The flags other than kpFlag, reseted and wtRunning, and all of them.
mostFlags == <<want, asleep, can, fiq, kpPeriod, kpRunning, kpStatus, wtInit,
               wtStatus, heard>>
flagVars == <<mostFlags, kpFlag, reseted, wtRunning>>

LEMMA FlagsSame == FlagsOK /\ UNCHANGED flagVars => FlagsOK'
BY DEF FlagsOK, flagVars, mostFlags

LEMMA FlagsMostlySame ==
    ASSUME FlagsOK, UNCHANGED mostFlags,
           kpFlag' \in BOOLEAN, reseted' \in BOOLEAN, wtRunning' \in BOOLEAN
    PROVE  FlagsOK'
BY DEF FlagsOK, mostFlags

LEMMA TypeStep == SafeInv /\ [Next]_vars => TypeOK'
<1> SUFFICES ASSUME TypeOK, Safe, [Next]_vars PROVE TypeOK'
    BY DEF SafeInv
<1>0. SleepCanEnd
    BY DEF Safe
<1>p. \A m \in Messages : QueueOK(Pushed(queue, m))
    BY PushedOK DEF TypeOK
<1>t. queue # <<>> => /\ QueueOK(Tail(queue)) /\ Head(queue) \in Messages
                      /\ QueueOK(Pushed(Tail(queue), "kpSet"))
    BY PushedOK, TailOK, MessageNames DEF TypeOK
<1>o. \A m \in Messages : QueueOK(<<m>>)
    BY OneOK
<1> USE StationSleepAssumption, <1>0, <1>p, <1>t, <1>o, MessageNames
    DEF TypeOK, SleepCanEnd, modeVars, sleepVars, keepVars, waitVars,
        coreVars, userVars, ghosts
<1>1. CASE power_save_dtim_wake
    <2>1. asleep /\ lock = 0
        BY <1>1 DEF power_save_dtim_wake
    <2>2. WakeTyped'
        BY <1>1, <2>1, WakeupType DEF power_save_dtim_wake
    <2>3. AwakeFrame /\ UNCHANGED <<wpas, coreVars>>
        BY <1>1 DEF power_save_dtim_wake
    <2> QED
        BY <2>2, <2>3 DEF AwakeFrame, WakeTyped, FlagsOK
<1>2. CASE power_save_beacon_state_update
    <2>1. FlagsOK'
        BY <1>2, ZenonT(90) DEF FlagsOK, power_save_beacon_state_update
    <2> QED
        BY <1>2, <2>1 DEF power_save_beacon_state_update
<1>3. CASE power_save_sleep
    BY <1>3 DEF FlagsOK, power_save_sleep
<1>4. CASE SleepRefused
    BY <1>4 DEF FlagsOK, SleepRefused
<1>5. CASE power_save_rf_sleep_check
    BY <1>5 DEF FlagsOK, power_save_rf_sleep_check
<1>6. CASE power_save_dtim_enable_handler
    <2>1. FlagsOK'
        <3>1. CASE net # "down"
            BY <1>6, <3>1, Zenon DEF FlagsOK, power_save_dtim_enable_handler
        <3>2. CASE ~(net # "down")
            <4>1. UNCHANGED flagVars
                BY <1>6, <3>2 DEF power_save_dtim_enable_handler, flagVars, mostFlags
            <4> QED
                BY <4>1, FlagsSame
        <3> QED
            BY <3>1, <3>2
    <2> QED
        BY <1>6, <2>1 DEF power_save_dtim_enable_handler
<1>7. CASE power_save_dtim_disable_handler
    <2>1. FlagsOK'
        BY <1>7 DEF FlagsOK, power_save_dtim_disable_handler
    <2> QED
        BY <1>7, <2>1 DEF power_save_dtim_disable_handler
<1>8. CASE ke_evt_core_scheduler
    BY <1>8 DEF FlagsOK, ke_evt_core_scheduler
<1>9. CASE CoreDisables
    <2>1. WakeTyped'
        BY <1>9, ManualType DEF CoreDisables
    <2> QED
        BY <1>9, <2>1 DEF CoreDisables, AwakeFrame, WakeTyped, FlagsOK
<1>10. CASE CoreTransmits
    <2>1. WakeTyped'
        BY <1>10, ManualType DEF CoreTransmits
    <2> QED
        BY <1>10, <2>1 DEF CoreTransmits, AwakeFrame, WakeTyped, FlagsOK
<1>11. CASE CoreWaits
    BY <1>11 DEF FlagsOK, CoreWaits
<1>12. CASE CorePops
    BY <1>12 DEF FlagsOK, CorePops
<1>13. CASE PsEnable
    BY <1>13 DEF FlagsOK, PsEnable
<1>14. CASE PsUserWakeup
    <2>1. WakeTyped'
        BY <1>14, ManualType DEF PsUserWakeup
    <2> QED
        BY <1>14, <2>1 DEF PsUserWakeup, AwakeFrame, WakeTyped, FlagsOK
<1>15. CASE power_save_keep_timer_set
    <2>1. FlagsOK'
        <3>1. CASE kpPeriod /\ ~kpStatus
            BY <1>15, <3>1, ZenonT(90) DEF FlagsOK, power_save_keep_timer_set
        <3>2. CASE ~(kpPeriod /\ ~kpStatus)
            <4>1. UNCHANGED flagVars
                BY <1>15, <3>2 DEF power_save_keep_timer_set, flagVars, mostFlags
            <4> QED
                BY <4>1, FlagsSame
        <3> QED
            BY <3>1, <3>2
    <2> QED
        BY <1>15, <2>1 DEF power_save_keep_timer_set
<1>16. CASE power_save_keep_timer_stop
    <2>1. FlagsOK'
        BY <1>16, ZenonT(90) DEF FlagsOK, power_save_keep_timer_stop
    <2> QED
        BY <1>16, <2>1 DEF power_save_keep_timer_stop
<1>17. CASE power_save_set_keep_timer_time
    <2>1. FlagsOK'
        BY <1>17, ZenonT(90) DEF FlagsOK, power_save_set_keep_timer_time
    <2> QED
        BY <1>17, <2>1 DEF power_save_set_keep_timer_time
<1>18. CASE power_save_keep_timer_real_handler
    <2> USE DEF power_save_keep_timer_real_handler
    <2>0. UNCHANGED <<mostFlags, wtRunning>>
        BY <1>18 DEF mostFlags
    <2>1. CASE ~(PS_STA_DTIM_SWITCH /\ way = "rw" /\ ~asleep)
        <3>1. FlagsOK'
            BY <1>18, <2>0, <2>1, FlagsSame DEF flagVars
        <3> QED
            BY <1>18, <2>1, <3>1, ZenonT(90)
    <2>2. CASE /\ PS_STA_DTIM_SWITCH /\ way = "rw" /\ ~asleep
               /\ kpFlag /\ beacon # "true"
        <3>1. UNCHANGED reseted /\ kpFlag' = FALSE
            BY <1>18, <2>2
        <3>2. FlagsOK'
            BY <2>0, <3>1, FlagsMostlySame DEF FlagsOK
        <3> QED
            BY <1>18, <2>2, <3>2
    <2>3. CASE /\ PS_STA_DTIM_SWITCH /\ way = "rw" /\ ~asleep
               /\ ~(kpFlag /\ beacon # "true")
        <3>1. QueueOK(queue')
            BY <1>18, <2>3
        <3>2. UNCHANGED kpFlag /\ (reseted' = reseted \/ reseted' = FALSE)
            BY <1>18, <2>3
        <3>3. FlagsOK'
            BY <2>0, <3>2, FlagsMostlySame DEF FlagsOK
        <3>4. CASE GivesUp
            <4>1. /\ beacon' = "true" /\ prevents' = prevents \ {"bcn"}
                  /\ loss' = loss + 1
                BY <1>18, <2>3, <3>4
            <4>2. /\ core' = "check"
                  /\ UNCHANGED <<modeVars, way, lock, cur, userVars, calls,
                                 ghosts>>
                BY <1>18
            <4> QED
                BY <3>1, <3>3, <4>1, <4>2
        <3>5. CASE ~GivesUp
            BY <1>18, <2>3, <3>1, <3>3, <3>5
        <3> QED
            BY <3>4, <3>5
    <2> QED
        BY <2>1, <2>2, <2>3
<1>19. CASE power_save_wait_timer_start
    <2>1. FlagsOK'
        <3>1. CASE wtInit /\ ~wtStatus
            BY <1>19, <3>1, ZenonT(90) DEF FlagsOK, power_save_wait_timer_start
        <3>2. CASE ~(wtInit /\ ~wtStatus)
            <4>1. UNCHANGED flagVars
                BY <1>19, <3>2 DEF power_save_wait_timer_start, flagVars, mostFlags
            <4> QED
                BY <4>1, FlagsSame
        <3> QED
            BY <3>1, <3>2
    <2> QED
        BY <1>19, <2>1 DEF power_save_wait_timer_start
<1>20. CASE power_save_wait_timer_real_handler
    <2>1. FlagsOK'
        BY <1>20, ZenonT(90) DEF FlagsOK, power_save_wait_timer_real_handler
    <2> QED
        BY <1>20, <2>1 DEF power_save_wait_timer_real_handler
<1>21. CASE power_save_keep_timer_handler
    <2>1. FlagsOK'
        BY <1>21, ZenonT(90) DEF FlagsOK, power_save_keep_timer_handler
    <2> QED
        BY <1>21, <2>1 DEF power_save_keep_timer_handler
<1>22. CASE power_save_wait_timer_handler
    <2>1. FlagsOK'
        <3>1. UNCHANGED <<mostFlags, kpFlag, reseted>> /\ wtRunning' = FALSE
            BY <1>22 DEF power_save_wait_timer_handler, mostFlags
        <3> QED
            BY <3>1, FlagsMostlySame DEF FlagsOK
    <2> QED
        BY <1>22, <2>1 DEF power_save_wait_timer_handler
<1>23. CASE TempStarts
    BY <1>23 DEF FlagsOK, TempStarts
<1>24. CASE bk_wlan_dtim_rf_ps_mode_do_wakeup
    BY <1>24 DEF FlagsOK, bk_wlan_dtim_rf_ps_mode_do_wakeup
<1>25. CASE TempResumes
    BY <1>25 DEF FlagsOK, TempResumes
<1>26. CASE TempEnds
    BY <1>26 DEF FlagsOK, TempEnds
<1>27. CASE KeyStarts
    BY <1>27 DEF FlagsOK, KeyStarts
<1>28. CASE KeyWakesUp
    <2>1. WakeTyped'
        BY <1>28, ManualType DEF KeyWakesUp
    <2> QED
        BY <1>28, <2>1 DEF KeyWakesUp, AwakeFrame, WakeTyped, FlagsOK
<1>29. CASE KeyEnds
    BY <1>29 DEF FlagsOK, KeyEnds
<1>30. CASE bk_wlan_dtim_rf_ps_mode_enable
    BY <1>30 DEF FlagsOK, bk_wlan_dtim_rf_ps_mode_enable, Called
<1>31. CASE bk_wlan_dtim_rf_ps_mode_disable
    <2>1. FlagsOK'
        BY <1>31, ZenonT(90) DEF FlagsOK, bk_wlan_dtim_rf_ps_mode_disable, Called
    <2> QED
        BY <1>31, <2>1 DEF bk_wlan_dtim_rf_ps_mode_disable, Called
<1>32. CASE bk_wlan_dtim_rf_ps_timer
    BY <1>32 DEF FlagsOK, bk_wlan_dtim_rf_ps_timer, Called
<1>33. CASE LinkDown
    BY <1>33 DEF FlagsOK, LinkDown, Called
<1>34. CASE auto_check_dtim_rf_ps_mode
    BY <1>34 DEF FlagsOK, auto_check_dtim_rf_ps_mode, Called
<1>35. CASE bk_wlan_dtim_rf_ps_disable_send_msg
    BY <1>35 DEF FlagsOK, bk_wlan_dtim_rf_ps_disable_send_msg, Called
<1>36. CASE power_save_set_reseted_flag
    BY <1>36 DEF FlagsOK, power_save_set_reseted_flag, Called
<1>37. CASE Traffic
    BY <1>37 DEF FlagsOK, Traffic
<1>38. CASE UNCHANGED vars
    BY <1>38 DEF FlagsOK, vars
<1> QED
    BY <1>1, <1>2, <1>3, <1>4, <1>5, <1>6, <1>7, <1>8, <1>9, <1>10, <1>11,
       <1>12, <1>13, <1>14, <1>15, <1>16, <1>17, <1>18, <1>19, <1>20, <1>21,
       <1>22, <1>23, <1>24, <1>25, <1>26, <1>27, <1>28, <1>29, <1>30, <1>31,
       <1>32, <1>33, <1>34, <1>35, <1>36, <1>37, <1>38
    DEF Next, Core, Users

-----------------------------------------------------------------------------

LEMMA SafeAlways == Spec => []SafeInv
<1>1. Init => SafeInv
    BY SafeInit, TypeInit DEF SafeInv
<1>2. SafeInv /\ [Next]_vars => SafeInv'
    BY SafeStep, TypeStep DEF SafeInv
<1> QED
    BY <1>1, <1>2, PTL DEF Spec

\* The state of power_save.c and of the core thread's queue keeps its type:
\* ps_lock in particular never leaves 0 and 1.
THEOREM StationSleepTypes == Spec => []TypeOK
<1>1. SafeInv => TypeOK
    BY DEF SafeInv
<1> QED
    BY <1>1, SafeAlways, PTL

\* A sleeping station can always be woken and an awake one holds ps_lock, in
\* any order of manual wake-ups, wake-up interrupts, mode changes and sleeps.
THEOREM SleepAlwaysCanEnd == Spec => []SleepCanEnd
<1>1. SafeInv => SleepCanEnd
    BY DEF SafeInv, Safe
<1> QED
    BY <1>1, SafeAlways, PTL

\* The temperature thread and the supplicant never use the radio while the MAC
\* sleeps.
THEOREM RadioUsersAlwaysAwake == Spec => []RadioUsersAwake
<1>1. SafeInv => RadioUsersAwake
    BY DEF SafeInv, Safe
<1> QED
    BY <1>1, SafeAlways, PTL

\* No entry of wk_list is left behind by a wake-up or by the end of power save.
THEOREM NeverAStrandedWaiter == Spec => []NoStrandedWaiter
<1>1. SafeInv => NoStrandedWaiter
    BY DEF SafeInv, Safe
<1> QED
    BY <1>1, SafeAlways, PTL

\* The core thread never waits for the message only it handles, though it
\* calls bk_wlan_dtim_rf_ps_mode_do_wakeup.
THEOREM CoreThreadNeverWaits == Spec => []CoreNeverWaits
<1>1. SafeInv => CoreNeverWaits
    BY DEF SafeInv, Safe
<1> QED
    BY <1>1, SafeAlways, PTL

\* Sleeps in a row without a beacon stay within PS_BCN_MAX_LOSS_LIMIT.
THEOREM LossStaysInLimit == Spec => []LossLimit
<1>1. SafeInv => LossLimit
    BY StationSleepAssumption
    DEF SafeInv, Safe, LossCounted, LossLimit, TypeOK
<1> QED
    BY <1>1, SafeAlways, PTL
=============================================================================
