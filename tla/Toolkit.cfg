SPECIFICATION FairSpec
CONSTANTS
  DeckSize = 3
  Owners = {o1, o2}
  MaxCards = 4
  MaxRounds = 2
  MaxWidth = 3
  MaxHeight = 2
  MaxDepth = 2
  Entities = {a, b}
  Free = Free
  MaxEntries = 3
  MaxTimers = 3
  Sessions = {s1, s2}
  MaxTokens = 2
  MaxUpdates = 2
  Capacity = 1
INVARIANTS
  ShuffleIsUnbiased
  MapIsFaithful
  DistancesCountMoves
  ShowsInOrder
  SpectatorsAreSafe
PROPERTIES
  CardsAreDealt
  PlaybackEnds
  BroadcastEnds
CHECK_DEADLOCK FALSE
