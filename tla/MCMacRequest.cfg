SPECIFICATION Spec
CONSTANTS
    wpas = wpas
    app = app
    DATA = DATA
    IND = IND
    NONE = NONE
    Id <- MCId
    CfmId <- MCCfmId
    EmptyId <- MCEmptyId
    IdsOf <- MCIdsOf
    Thread = {wpas, app}
    Peers = {}
    QLen = 4
    MaxCalls = 2
    MaxOther = 0
    MaxInd = 0
INVARIANTS
    SetSemaphoreSucceeds
    AnswersAreOneToOne
PROPERTIES
    RxDrained
    CallReturns
CHECK_DEADLOCK FALSE
