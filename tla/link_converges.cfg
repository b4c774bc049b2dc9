SPECIFICATION FairLinkSpec
CONSTANTS
  SetDesired = TRUE
  Cores = {1}
  SlowShaft = TRUE
  Hand = FALSE
  SetPoints <- MCTxPositions
  MaxShaft = 3
  MaxCount = 9
  MaxSem = 1
  TxPositions <- MCTxPositions
  MaxInFlight = 2
  MaxDuplicates = 1
PROPERTIES
  SteersByWire
