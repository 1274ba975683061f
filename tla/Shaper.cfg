CONSTANTS
  Sizes = {1, 2}
  MaxSize = 3
  MinBytes = 1
  Target = 1
  Interval = 2
  Burst = 3
  Mtu = 2
  ByteTime = 2
  PeakTimes = {0, 3}
  NaNDelays = {0, 4}
  Quota = 2
  Word = 4
  None = none
SPECIFICATION HistorySpec
INVARIANTS TypeOK NotAbandoned RatesHold
PROPERTIES PacketsLeave DropsOnlyAfterInterval
