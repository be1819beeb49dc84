SPECIFICATION Spec
CONSTANTS
  InlineMaxArity = 2
  MantissaBits = 3
  FloatBase = 1000
  GraphColumns = 3
  MaxRightFilters = 32
  KFusion = TRUE
  IntMax = 100
  TextRank <- TR
  Predicate <- PR
  MaxAtoms = 4
  MaxAdorned = 4
  MaxVars = 8
  MaskBits = 4
  MaskWidth = 2
  Programs <- AllPrograms
  SideTable <- Boxes
  Allocations <- SomeOom
INVARIANTS AnswersExact EachRowOnce RejectedExactly FactsReadBack StrataOrdered 
PROPERTY EvaluationProgresses
CHECK_DEADLOCK FALSE
