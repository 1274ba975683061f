CONSTANTS
  Flows = {f1, f2}
  Sizes = {1, 2}
  Quanta = {2}
  Limit = 3
  ChildMaxSize = 8
  MinBytes = 1
  Word = 16
  MaxBacklog = 6
  MaxDeficit = 2
SYMMETRY FlowSymmetry
SPECIFICATION Spec
INVARIANTS ActiveHasPackets
CHECK_DEADLOCK FALSE
