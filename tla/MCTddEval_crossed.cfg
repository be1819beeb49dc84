SPECIFICATION Spec
CONSTANTS
    Value <- Values
    NWorkers = 2
    Calls <- CrossedCalls
    FallbackIter = 2
    FallbackRows = 2
    AppendMayFail = FALSE
INVARIANT
    AnswerIsLeastModel
CHECK_DEADLOCK FALSE
