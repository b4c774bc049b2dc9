SPECIFICATION FairSpec
CONSTANTS
  SHOVELS = 1
  MAX_NUM_OF_DIGGERS = 2
  MaxUpper = 2
  MaxHeap = 3
  MaxFired = 2
INVARIANTS
  TypeOK
  ShovelsConserved
  SoilAccounted
  QueuesAreWaiters
PROPERTIES
  LowerGetsShovel
