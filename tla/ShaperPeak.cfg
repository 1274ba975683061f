CONSTANTS
  Sizes = {1}
  MaxSize = 2
  MinBytes = 1
  Target = 1
  Interval = 1
  Burst = 4
  Mtu = 3
  ByteTime = 4
  PeakTimes = {1}
  NaNDelays = {0}
  Quota = 2
  Word = 16
  None = none
SPECIFICATION Spec
INVARIANTS WakesInTime
