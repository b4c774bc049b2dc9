SPECIFICATION FairPageSpec
CONSTANTS
  HISTORY_SIZE = 3
  HISTORY_CYCLIC_ARRAY_SIZE = 5
  MaxLag = 2
  MaxSamples = 11
  Precision = 11
  Signal <- MCSignal
  Ticks <- MCTicks
  TicksPerSec = 3000
  UintBits = 12
INVARIANTS
  TypeOK
  PlotsInFrame
  AxisIsTime
PROPERTIES
  PageIsSnapshot
  PageEnds
