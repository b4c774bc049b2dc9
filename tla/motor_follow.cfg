SPECIFICATION FairSpec
CONSTANTS
  SetDesired = TRUE
  Cores = {2}
  SlowShaft = TRUE
  Hand = FALSE
  SetPoints <- MCSetPoints
  MaxShaft = 3
  MaxCount = 9
  MaxSem = 1
INVARIANTS
  TracksShaft
  OvershootBounded
PROPERTIES
  ReachesSetpoint
