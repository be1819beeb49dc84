SPECIFICATION TermsSpec
CONSTANTS
    Threads = {t1, t2}
    Strings = {1, 2, 3, 4}
    StrLen <- MCStrLen
    fnv1a <- MCfnv1a
    SEG0 = 1
    MAX_SEGMENTS = 2
    INITIAL_CAP = 2
    MaxSlots = 4
    InternBudget = 60
    NULL = NULL
    Mutators = {m1, m2}
    Leases = {l1, l2}
    Sizes = {1, 2}
    Seed = 0
    MaxEpochs = 2
    DefaultGenCap = 2
    EntryCap = 1
    MaxWords = 4
    ReadersMax = 1
    FixedBytes = 8
    ArenaBudget = 110
    MaxIssued = 3
    MaxMult = 1
    Handles = {1, 2, 3, 4}
    splitmix64 <- MCsplitmix64
    Requests = {0, 3}
    MIN_CAP = 4
    MaxRemapCap = 8
    Tables <- MCTables
    ColumnLists <- MCColumnLists
SYMMETRY Symmetry
INVARIANTS
    InternExact ArenaAccountsExact LeaseExcludesMutation HandlesNeverAlias RemapExact
CHECK_DEADLOCK FALSE
