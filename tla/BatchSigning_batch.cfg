CONSTANTS
    Sizes = {0, 1, 3}
    Limits = {0, 1, 2}
    Delays = {0, 1}
    MaxTime = 2
    NONE = NONE
SPECIFICATION FairSpec
CHECK_DEADLOCK FALSE
INVARIANTS
    CauseReturned
    ResultAccounts
    RateRespected
PROPERTIES
    NothingAfterReturn
    BatchReturns
