SPECIFICATION Spec
CONSTANTS
  SetDesired = TRUE
  Cores = {1}
  SlowShaft = FALSE
  Hand = TRUE
  SetPoints <- MCSetPoints
  MaxShaft = 1
  MaxCount = 1
  MaxSem = 1
INVARIANTS
  FreshDuty
