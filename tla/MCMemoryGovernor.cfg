SPECIFICATION Spec
CONSTANTS
    Threads = {t1, t2}
    Tokens = {k1, k2}
    NoToken = NoToken
    Owners = {o}
    NoOwner = NoOwner
    Sizes = {1, 2}
    UsableBytes = 2
    U64Max = 3
INVARIANTS
    IndInv
    AccountingExact
    AdmissionBound
PROPERTY StalledNeverBlocks
