SPECIFICATION StorageSpec
CONSTANTS
    Rels = {a, b}
    Values <- MCValues
    NaN = 2
    NegZero <- MCNegZero
    COL_REL_INIT_CAP = 1
    CompactAbove = 1
    CompactTo = 1
    Budget = 3
    MaxRows = 2
    IntRows = {0, 1}
    FloatRows <- MCFloatRows
    Sign = 4
    COL_MAX_RUNS = 2
    Ratio = 2
    INIT_CAP = 3
    HashMin = 4
    HashCap = 2
    SegmentInputs <- MCSegments
    MaxBatch = 2
    MaxRelRows = 4
    Base = 2
    Digits = 4
    NCols = 2
    CellValues <- MCCells
    SortRows = 3
    InsertionMax = 1
    WideMin = 3
SYMMETRY Symmetry
VIEW StorageView
INVARIANTS
    StorageSound SortCorrect
PROPERTIES
    ChangesConfined  
CHECK_DEADLOCK FALSE
