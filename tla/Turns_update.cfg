SPECIFICATION Spec
CONSTANTS
  Calls = 3
INVARIANTS
  AnswersItsUpdate
CHECK_DEADLOCK FALSE
