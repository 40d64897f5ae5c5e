SPECIFICATION Spec
CONSTANTS
    wpas = wpas
    app = app
    DATA = DATA
    IND = IND
    NONE = NONE
    Id <- MCId
    CfmId <- MCCfmId
    EmptyId <- MCEmptyId
    IdsOf <- MCWaitingIdsOf
    Thread = {wpas, app}
    Peers = {}
    QLen = 1
    MaxCalls = 2
    MaxOther = 1
    MaxInd = 1
INVARIANTS
    OnlyFailedPostDangles
    StaleAnswerNeedsTimeout
CHECK_DEADLOCK FALSE
