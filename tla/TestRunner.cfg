CONSTANTS
  Workers = {w1, w2}
  Kinds = {"suite", "example", "skip"}
  Codes = {"PASS", "CRASH"}
  MaxJobs = 3
SPECIFICATION FairSpec
INVARIANTS TypeOK EachJobOnce SuccessIsReal
PROPERTIES RunEnds
CHECK_DEADLOCK FALSE
