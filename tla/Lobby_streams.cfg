SPECIFICATION Spec
CONSTANTS
  Players = {p1, p2}
  Handlers = {h1, h2, h3}
  Cancels = {}
  MaxPlayers = 2
  ChanCap = 1
INVARIANTS
  FullLobbyHasStarter
  StartedAreDrained
SYMMETRY Symmetry
CHECK_DEADLOCK FALSE
