CONSTANTS
  Flows = {f1, f2, f3}
  Sizes = {2, 3}
  Quanta = {2}
  Limit = 8
  ChildMaxSize = 8
  MinBytes = 3
  Word = 8
  MaxBacklog = 7
  MaxDeficit = 8
SPECIFICATION FairHistorySpec
INVARIANTS BytesFair
PROPERTIES ImplementsRoundRobin NoStarvation
