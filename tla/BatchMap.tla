------------------------------ MODULE BatchMap ------------------------------
(***************************************************************************)
(* What BatchRunner.RunAll promises (pkg/engine/headless.go): a result for  *)
(* every config, in the config's place, and a return when all are there.   *)
(***************************************************************************)
EXTENDS Naturals

CONSTANTS
  Configs,     \* the indices of configs
  Outcomes,    \* ways in which a session can end
  None

VARIABLES
  results,     \* results[i]: None, or the config that was run and its outcome
  returned     \* RunAll has returned

MapInit == results = [i \in Configs |-> None] /\ returned = FALSE

Complete(i) ==
  /\ ~returned
  /\ results[i] = None
  /\ \E out \in Outcomes : results' = [results EXCEPT ![i] = <<i, out>>]
  /\ UNCHANGED returned

Return ==
  /\ \A i \in Configs : results[i] # None
  /\ returned' = TRUE
  /\ UNCHANGED results

MapSpec == MapInit /\ [][(\E i \in Configs : Complete(i)) \/ Return]_<<results, returned>>

=============================================================================
