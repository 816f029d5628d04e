-------------------------------- MODULE Game --------------------------------
(***************************************************************************)
(* The game a session plays, as the engine sees it: the GameLogic interface*)
(* (pkg/engine/game_logic.go).  Implementations live outside the engine;   *)
(* the interface requires them to be pure, so each method is a function.   *)
(***************************************************************************)
EXTENDS Integers, Sequences

CONSTANTS
  PlayerIDs,      \* SessionConfig.PlayerIDs, a sequence
  Names,          \* every actor id an adapter may write, players included
  Blank,          \* the empty string: no actor, no winner
  States, InitialState,
  Payloads, Null, \* Null: the payload of RandomFallbackAdapter
  Valid,          \* Valid[s][a]:  ValidateAction returns nil for action a
  Apply,          \* Apply[s][a]:  the state ApplyAction returns
  Reward,         \* Reward[s][a]: the reward ApplyAction returns
  Over,           \* Over[s]:      IsTerminal says IsOver
  Winner          \* Winner[s]:    the WinnerID it gives

Actors == Names \cup {Blank}
Actions == [actor : Actors, payload : Payloads]

ASSUME GameAssumption ==
  /\ PlayerIDs \in Seq(Names) /\ PlayerIDs # <<>>
  /\ Blank \notin Names
  /\ InitialState \in States
  /\ Null \in Payloads
  /\ Valid \in [States -> [Actions -> BOOLEAN]]
  /\ Apply \in [States -> [Actions -> States]]
  /\ Reward \in [States -> [Actions -> Int]]
  /\ Over \in [States -> BOOLEAN]
  /\ Winner \in [States -> Actors]

(* activePlayer: round-robin over PlayerIDs, indexed by the step counter. *)
OnTurn(n) == PlayerIDs[(n % Len(PlayerIDs)) + 1]

=============================================================================
