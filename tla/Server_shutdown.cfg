SPECIFICATION FairSpec
CONSTANTS
  Handlers = {h1, h2}
  SessionIDs = {s1, s2}
  None = None
INVARIANTS
  TableIsLive
  DrainReachesAll
PROPERTIES
  ShutdownEnds
CHECK_DEADLOCK FALSE
