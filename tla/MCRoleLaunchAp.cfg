CONSTANTS
    NONE = NONE
    Types = {"STA", "AP", "DELIF_AP"}
    MaxReq = 2
    MaxStop = 1
    MaxAdv = 1
    MaxCsa = 1
    MaxPause = 0
SPECIFICATION Spec
CHECK_DEADLOCK FALSE
INVARIANTS FollowingHasTimer 
PROPERTY StaLaunchOrder
