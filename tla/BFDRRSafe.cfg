CONSTANTS
  Flows = {f1, f2}
  Types = {"LIGHT", "BURSTY"}
  Sizes = {1, 3}
  Quanta = {1, 2}
  SoftLimit = 1
  HardLimit = 3
  FlowMaxSize = 3
  Word = 6
  MaxOverflow = 4
SPECIFICATION FairSpec
INVARIANTS TypeOK OverflowingIsExact
PROPERTIES ImplementsRoundRobin
