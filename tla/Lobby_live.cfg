SPECIFICATION FairSpec
CONSTANTS
  Players = {p1, p2}
  Handlers = {h1, h2}
  Cancels = {c1}
  MaxPlayers = 2
  ChanCap = 1
INVARIANTS
  SubscriptionsMatch
PROPERTIES
  EndsForAReason
  FullLobbyDrains
  WaiterReturns
CHECK_DEADLOCK FALSE
