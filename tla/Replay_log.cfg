SPECIFICATION FairSpec
CONSTANTS
  LastEntry = 2
  BufSize = 4
  Window = 1
  ChanSize = 1
INVARIANTS
  SentIsPrefix
  EndIsRight
PROPERTIES
  PumpReturns
CHECK_DEADLOCK FALSE
