SPECIFICATION LiveSpec
CONSTANTS
    PS_BCN_MAX_LOSS_LIMIT = 2
    QueueItems = 2
    MaxCalls = 2
INVARIANTS
    RadioUsersAwake
    LossLimit
    SleepCanEnd
    NoStrandedWaiter
    CoreNeverWaits
PROPERTIES
    WaiterReturns
CHECK_DEADLOCK FALSE
