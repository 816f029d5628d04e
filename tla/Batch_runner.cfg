SPECIFICATION FairSpec
CONSTANTS
  N = 4
  Parallelism = 3
  None = None
PROPERTIES
  MapsConfigs
  CancelReturns
CHECK_DEADLOCK FALSE
