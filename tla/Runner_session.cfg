SPECIFICATION FairSpec
CONSTANTS
  PlayerIDs <- MCPlayerIDs
  Names = {"p1", "p2"}
  Blank = ""
  States <- MCStates
  Length = 4
  InitialState = 4
  Payloads <- MCPayloads
  Null = "null"
  Valid <- MCValid
  Apply <- MCApply
  Reward <- MCReward
  Over <- MCOver
  Winner <- MCWinner
INVARIANTS
  LogReplays
  EndsWell
  MovesAreChecked
  OneMoveAfterCancel
PROPERTIES
  PlaysInTurns
  RunReturns
CHECK_DEADLOCK FALSE
