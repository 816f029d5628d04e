SPECIFICATION FairSpec
CONSTANTS
  Calls = 2
INVARIANTS
  AnsweredOnce
PROPERTIES
  CallsEnd
CHECK_DEADLOCK FALSE
