SPECIFICATION FairSpec
CONSTANTS
  Streams = {s1, s2, s3}
  PlayerIDs = {p1, p2}
  Strangers = {q}
  None = None
INVARIANTS
  AdapterInOnePlace
PROPERTIES
  RunsOnce
  SessionStarts
CHECK_DEADLOCK FALSE
