CONSTANTS
  Flows = {f1, f2, f3}
  Sizes = {1, 2}
  Quanta = {1, 3}
  Limit = 4
  ChildMaxSize = 4
  MinBytes = 1
  Word = 6
  MaxBacklog = 6
  MaxDeficit = 6
SYMMETRY FlowSymmetry
SPECIFICATION Spec
INVARIANTS TypeOK ListIsExact InactiveIsReset CountersExact
PROPERTIES HeldDropIsFatal
CHECK_DEADLOCK FALSE
