SPECIFICATION Spec
CONSTANTS
  ArrRels = {ra}
  KeySets = {"lo", "all"}
  IndexRowValues = {0, 2}
  Project <- MCProject
  Hash <- MCHash
  Leases = {b1, b2}
  MinSlots = 2
  Width = 5
  MaxGeneration = 2
  RegistryCap = 1
  COL_ARR_CACHE_MAX = 1
  LimitBytes = 12
  ArrBudget = 14
  MaxArrRows = 2
  DerivedKey = "hi"
  Keeps <- MCKeeps
  DIFF_ARRANGEMENT_INITIAL_BUCKETS = 2
  DerivedBudget = 30
  MaxDerivedRows = 2
  InputPairs = {"small", "mid", "big"}
  ResultBytes <- MCResultBytes
  Borrowed <- MCBorrowed
  Readers = {r1, r2}
  COL_MAT_CACHE_MAX = 2
  COL_MAT_CACHE_LIMIT_BYTES = 3
  MaxVersion = 1
  LedgerThreads = {session, worker}
  Session = session
  Charged = {"CACHE"}
  Gauged = {"STORED"}
  Pct <- MCPct
  Hundred = 10
  TotalBudget = 8
  Sizes = {3}
  LedgerMax = 31
  MaxCharged = 6
INVARIANTS IndicesSound AccountsExact
PROPERTIES ReadersAreServed
SYMMETRY Symm
CONSTRAINT FewCaches
