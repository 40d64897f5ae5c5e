CONSTANTS
    NONE = NONE
    Types = {"STA", "PURE_STA_SCAN", "DELIF_STA"}
    MaxReq = 2
    MaxStop = 1
    MaxAdv = 0
    MaxCsa = 0
    MaxPause = 1
SPECIFICATION Spec
INVARIANTS PauseExcludesLaunch
PROPERTY FollowingServed
CHECK_DEADLOCK FALSE
