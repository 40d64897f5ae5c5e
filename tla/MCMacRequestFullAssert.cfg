SPECIFICATION Spec
CONSTANTS
    wpas = wpas
    app = app
    DATA = DATA
    IND = IND
    NONE = NONE
    Id <- MCId
    CfmId <- MCCfmId
    EmptyId <- MCEmptyId
    IdsOf <- MCIdsOf
    Thread = {wpas, app}
    Peers = {}
    QLen = 1
    MaxCalls = 2
    MaxOther = 1
    MaxInd = 0
INVARIANTS
    SetSemaphoreSucceeds
CHECK_DEADLOCK FALSE
