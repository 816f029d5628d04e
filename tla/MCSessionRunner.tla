--------------------------- MODULE MCSessionRunner --------------------------
(* A countdown game for TLC: every move, legal or not, takes the counter at
   least one closer to 0, as in the games of the engine's own tests.  Two may only
   be taken under a name, and nobody is rewarded for a move without one. *)
EXTENDS SessionRunner

CONSTANT Length  \* where the countdown starts

MCStates == 0..Length
MCPayloads == {"one", "two", "null"}
MCValid == [s \in MCStates |-> [a \in Actions |->
             \/ a.payload = "one" /\ s >= 1
             \/ a.payload = "two" /\ s >= 2 /\ a.actor # Blank]]
MCApply == [s \in MCStates |-> [a \in Actions |->
             CASE s = 0 -> 0
               [] a.payload = "two" /\ s >= 2 -> s - 2
               [] OTHER -> s - 1]]
MCReward == [s \in MCStates |-> [a \in Actions |->
              IF a.actor = Blank \/ a.payload = "null" THEN 0
              ELSE IF a.payload = "one" THEN 1 ELSE 2]]
MCOver == [s \in MCStates |-> s = 0]
MCWinner == [s \in MCStates |-> IF s = 0 THEN "p1" ELSE ""]

MCPlayerIDs == <<"p1", "p2">>

=============================================================================
