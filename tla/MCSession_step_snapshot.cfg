SPECIFICATION BatchSpec
CONSTANTS
    EDB <- MixedEDB
    Plan <- MixedPlan
    Row = {0, 1}
    NoRel = NoRel
    UMAX = 9
    MaxPasses = 6
    MaxCalls = 9
    MaxRows = 2
CHECK_DEADLOCK FALSE
PROPERTY StepThenSnapshotDuplicates
