SPECIFICATION BotFairSpec
CONSTANTS
  Kinds = {"python", "node", "web"}
  Updates = 4
  Waits = 1
INVARIANTS
  UpdatesAreAnswered
  ResolvedMeansOver
PROPERTIES
  NothingOutlivesTheStream
  StreamOpens
CHECK_DEADLOCK FALSE
