SPECIFICATION FairSpec
CONSTANTS
    Workers = {w1, w2, w3}
    Capacity = 2
    MaxTasks = 5
INVARIANTS GateHolds IndInv
PROPERTIES ImplementsBatches CallsReturn
CHECK_DEADLOCK FALSE
