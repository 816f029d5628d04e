------------------------------ MODULE Toolkit -------------------------------
(***************************************************************************)
(* The objects that the rest of the system is built with or is watched     *)
(* with, each on its own: a behaviour uses one of them, its subject.       *)
(***************************************************************************)
EXTENDS Cards, Grid, ReplayPlayer, Spectators

VARIABLE subject

vars == <<subject, cardsVars, gridVars, playerVars, spectatorVars>>

Init ==
  /\ CardsInit /\ GridInit /\ PlayerInit /\ SpectatorsInit
  /\ subject \in {"cards", "grid", "player", "spectators"}
  /\ subject # "grid" => width = 0 /\ height = 0 /\ depth = 0
  /\ subject # "player" => entries = 0

Next ==
  /\ UNCHANGED subject
  /\ \/ /\ subject = "cards" /\ CardsNext
        /\ UNCHANGED <<gridVars, playerVars, spectatorVars>>
     \/ /\ subject = "grid" /\ GridNext
        /\ UNCHANGED <<cardsVars, playerVars, spectatorVars>>
     \/ /\ subject = "player" /\ PlayerNext
        /\ UNCHANGED <<cardsVars, gridVars, spectatorVars>>
     \/ /\ subject = "spectators" /\ SpectatorsNext
        /\ UNCHANGED <<cardsVars, gridVars, playerVars>>

(* Nobody has to call anything; what is under way goes on. *)
FairSpec == Init /\ [][Next]_vars /\ PlayerFairness /\ SpectatorsFairness
=============================================================================
