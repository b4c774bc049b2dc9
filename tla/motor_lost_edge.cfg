SPECIFICATION ReadInTimeSpec
CONSTANTS
  SetDesired = FALSE
  Cores = {2}
  SlowShaft = FALSE
  Hand = TRUE
  SetPoints <- MCNoSetPoints
  MaxShaft = 4
  MaxCount = 6
  MaxSem = 1
INVARIANTS
  AbsolutePosition
CHECK_DEADLOCK FALSE
