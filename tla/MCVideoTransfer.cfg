CONSTANTS
    Elems = {e1, e2, e3}
    QLen = 2
    Preempts = TRUE
    None = None
    MaxPkts = 5
    MaxFrames = 2
    MaxSessions = 2
SPECIFICATION LiveSpec
INVARIANTS
    PoolConserved
    NoLostPoll
    NothingUsedAfterFree
    SuccessMeansRunning
PROPERTIES StreamSpec DeinitReturns
CHECK_DEADLOCK FALSE
