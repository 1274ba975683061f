CONSTANTS
  Flows = {f1, f2, f3}
  Sizes = {1, 2}
  Quanta = {2}
  Limit = 6
  ChildMaxSize = 8
  MinBytes = 2
  Word = 16
  MaxBacklog = 8
  MaxDeficit = 2
SPECIFICATION FairSpec
INVARIANTS NothingHeld
PROPERTIES ImplementsRoundRobin
