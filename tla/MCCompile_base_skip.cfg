SPECIFICATION Spec
CONSTANTS
  InlineMaxArity = 2
  MantissaBits = 3
  FloatBase = 1000
  GraphColumns = 3
  MaxRightFilters = 32
  KFusion = TRUE
  IntMax = 100
  TextRank <- TR
  Predicate <- PR
  MaxAtoms = 4
  MaxAdorned = 4
  MaxVars = 8
  MaskBits = 4
  MaskWidth = 2
  Programs <- Selected
  SideTable <- Boxes
  Allocations <- SomeOom
INVARIANT BaseTuplesAlreadyDerived
CHECK_DEADLOCK FALSE
