SPECIFICATION FairSpec
CONSTANTS
  MaxAttempts = {0, 1}
  Initial = {0, 7}
  MaxBackoff = {2}
  Multiplier = {1, 6}
  One = 2
  ChanSize = 1
INVARIANTS
  CancelIsEffective
  RetriesAreBounded
PROPERTIES
  CallsReturn
CHECK_DEADLOCK FALSE
