SPECIFICATION Spec
CONSTANTS
    Value <- Values
    NWorkers = 2
    Calls <- AllCalls
    FallbackIter = 2
    FallbackRows = 2
    AppendMayFail = FALSE
INVARIANTS
    AnswerIsLeastModel
    DeltasCoverFrontier
    OwnersPartitionTheIdb
    ChannelAccountBalances
PROPERTY
    EveryCallReturns
CHECK_DEADLOCK FALSE
