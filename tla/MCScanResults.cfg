SPECIFICATION Spec
CONSTANTS
    Addr = {p1, p2}
    App = {app1}
    Bssid = {b1, b2, b3, b4}
    Level = {1, 2}
    MAX_BSS_LIST = 3
    MaxScans = 2
    NULL = NULL
INVARIANTS
    NoSetLeaked
    UploadPointsToCurrent
    OneScanPerSet
    ConfirmedIsSorted
    CountIsReaders
CHECK_DEADLOCK FALSE
