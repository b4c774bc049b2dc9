SPECIFICATION FairLabs
CONSTANTS
  Cores = {1, 2}
  LowWork = 3
  MidWork = 4
  LowDelay = 1
  MidDelay = 2
  HighDelay = 4
  MaxMeasurements = 2
  MaxCalls = 2
  MAX_ARRAY_LEN = 4
  FirstLength = 2
  MaxJumps = 5
  TIM_MAX = 3
  TIME_MAP_SIZE = 2
  CountTime = 3
  RowTime = 2
  MaxPeriods = 2
  MaxStarts = 2
  MaxPrints = 1
  MaxCount = 3
  MaxEndless = 2
  MaxFaults = 2
  MsPerSec = 5
  NsPerMs = 3
INVARIANTS
  LabsTypeOK
  SubtractLaw
  WaitBounded
  InheritedWhileWaited
  IndexesPermuted
  OneCycle
  PeriodsHandledOnce
  ServiceNotFaster
  OwnAnswer
PROPERTIES
  MeasurementEnds
  ResponseEnds
  SenderEnds
CHECK_DEADLOCK FALSE
