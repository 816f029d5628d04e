----------------------------- MODULE GameTurns ------------------------------
(***************************************************************************)
(* What a session promises: a game played one move at a time, in turn, each*)
(* move applied to the state the move before it left, none after the game  *)
(* is over, and a game that is declared over only when it is.              *)
(***************************************************************************)
EXTENDS Game

VARIABLES
  board,    \* the state of the game
  moves,    \* every move made so far, with the state it led to
  status    \* "playing", "over" or "abandoned"

turnVars == <<board, moves, status>>

TurnsInit ==
  /\ board = InitialState
  /\ moves = <<>>
  /\ status = "playing"

Move(a) ==
  /\ status = "playing"
  /\ ~Over[board]
  /\ board' = Apply[board][a]
  /\ moves' = Append(moves, [turn |-> OnTurn(Len(moves)), action |-> a,
                             snap |-> Apply[board][a],
                             reward |-> Reward[board][a]])
  /\ UNCHANGED status

End ==
  /\ status = "playing"
  /\ Over[board]
  /\ status' = "over"
  /\ UNCHANGED <<board, moves>>

Abandon ==
  /\ status = "playing"
  /\ status' = "abandoned"
  /\ UNCHANGED <<board, moves>>

TurnsNext == (\E a \in Actions : Move(a)) \/ End \/ Abandon

TurnsSpec == TurnsInit /\ [][TurnsNext]_turnVars

=============================================================================
