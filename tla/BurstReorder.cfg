CONSTANTS
  BurstSizes = {4, 5, 6, 7, 8, 9, 10, 11, 12, 13, 14, 15, 16, 17, 18, 30, 36}
  MaxBursts = 2
  FragSize = 6
  HeaderSize = 4
  Word = 4
SPECIFICATION Spec
INVARIANTS TypeOK CutExactly CompleteIsReported ReportedInOrder AssertsOnlyOnOverflow
PROPERTIES ReportedIntact
CHECK_DEADLOCK FALSE
