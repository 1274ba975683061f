CONSTANTS
  Periods = {1, 2}
  MaxTimers = 2
  NoTimer = none
SPECIFICATION FairSpec
INVARIANTS TypeOK NeverFarAhead MessagesOnce
PROPERTIES QuitEnds KeepsPlaying PauseStops
CHECK_DEADLOCK FALSE
