---------------------------- MODULE BatchRunner -----------------------------
(***************************************************************************)
(* BatchRunner.RunAll (pkg/engine/headless.go): a pool of workers takes    *)
(* configs from a channel that was filled and closed beforehand, runs a    *)
(* session for each and stores its outcome by index, without a lock.       *)
(***************************************************************************)
EXTENDS Naturals, SequencesExt

CONSTANTS
  N,           \* len(configs)
  Parallelism, \* number of workers
  None

ASSUME BatchAssumption ==
  /\ N \in Nat /\ Parallelism \in Nat \ {0}
  /\ None \notin Nat /\ None \notin Nat \X {"over", "failed", "cancelled"}

Configs == 1..N
Workers == 1..Parallelism
Outcomes == {"over", "failed", "cancelled"}

VARIABLES
  jobs,        \* what is left in the channel
  pc,          \* where each worker stands
  job,         \* job[w]: the config that w has taken
  results,     \* the slice
  ctx,         \* the context of RunAll is done
  wg,          \* the WaitGroup's counter
  returned,
  late         \* history: late[w]: sessions w began after ctx was done

vars == <<jobs, pc, job, results, ctx, wg, returned, late>>

TypeOK ==
  /\ jobs \in Seq(Configs) /\ Len(jobs) <= N
  /\ pc \in [Workers -> {"take", "check", "create", "run", "exited"}]
  /\ job \in [Workers -> Configs \cup {None}]
  /\ results \in [Configs -> (Configs \X Outcomes) \cup {None}]
  /\ ctx \in BOOLEAN
  /\ wg \in 0..Parallelism
  /\ returned \in BOOLEAN
  /\ late \in [Workers -> Nat]

(* Only the jobs are filled in before the workers start. *)
Init ==
  /\ jobs = [i \in Configs |-> i]
  /\ pc = [w \in Workers |-> "take"]
  /\ job = [w \in Workers |-> None]
  /\ results = [i \in Configs |-> None]
  /\ ctx = FALSE
  /\ wg = Parallelism
  /\ returned = FALSE
  /\ late = [w \in Workers |-> 0]

-----------------------------------------------------------------------------
Take(w) ==
  /\ pc[w] = "take" /\ jobs # <<>>
  /\ job' = [job EXCEPT ![w] = Head(jobs)]
  /\ jobs' = Tail(jobs)
  /\ pc' = [pc EXCEPT ![w] = "check"]
  /\ UNCHANGED <<results, ctx, wg, returned, late>>

(* The channel is closed and empty. *)
Exit(w) ==
  /\ pc[w] = "take" /\ jobs = <<>>
  /\ pc' = [pc EXCEPT ![w] = "exited"]
  /\ wg' = wg - 1
  /\ UNCHANGED <<jobs, job, results, ctx, returned, late>>

(* Faulty: a worker that fails returns, and its deferred Done counts. *)
StoreAndExit(w, out) ==
  /\ results' = [results EXCEPT ![job[w]] = <<job[w], out>>]
  /\ pc' = [pc EXCEPT ![w] = IF out = "over" THEN "take" ELSE "exited"]
  /\ wg' = IF out = "over" THEN wg ELSE wg - 1
  /\ job' = [job EXCEPT ![w] = None]
  /\ UNCHANGED <<jobs, ctx, returned, late>>

Store(w, out) ==
  /\ results' = [results EXCEPT ![job[w]] = <<job[w], out>>]
  /\ pc' = [pc EXCEPT ![w] = "take"]
  /\ job' = [job EXCEPT ![w] = None]
  /\ UNCHANGED <<jobs, ctx, wg, returned, late>>

(* The context is looked at between jobs ... *)
Check(w) ==
  /\ pc[w] = "check"
  /\ IF ctx THEN Store(w, "cancelled")
     ELSE /\ pc' = [pc EXCEPT ![w] = "create"]
          /\ UNCHANGED <<jobs, job, results, ctx, wg, returned, late>>

(* ... and not again until the session, if it can be made, is run. *)
Create(w) ==
  /\ pc[w] = "create"
  /\ \/ Store(w, "failed")
     \/ /\ pc' = [pc EXCEPT ![w] = "run"]
        /\ late' = [late EXCEPT ![w] = IF ctx THEN @ + 1 ELSE @]
        /\ UNCHANGED <<jobs, job, results, ctx, wg, returned>>

(* Runner.Run ends at a time the game decides, and as it decides. *)
RunEnds(w) ==
  pc[w] = "run" /\ \E out \in {"over", "failed"} : Store(w, out)

(* Faulty: the run is given a context that nobody cancels. *)
RunDetached(w) == FALSE

(* Its loop looks at the context; its adapters never block. *)
RunCancelled(w) == pc[w] = "run" /\ ctx /\ Store(w, "cancelled")

CancelBatch ==
  /\ ~ctx
  /\ ctx' = TRUE
  /\ UNCHANGED <<jobs, pc, job, results, wg, returned, late>>

(* wg.Wait. *)
Return ==
  /\ wg = 0 /\ ~returned
  /\ returned' = TRUE
  /\ UNCHANGED <<jobs, pc, job, results, ctx, wg, late>>

-----------------------------------------------------------------------------
WorkerStep(w) == Take(w) \/ Exit(w) \/ Check(w) \/ Create(w) \/ RunCancelled(w)

Next ==
  \/ \E w \in Workers : WorkerStep(w) \/ RunEnds(w)
  \/ Return \/ CancelBatch

Spec == Init /\ [][Next]_vars

(* Workers that can run do run.  A game need not end by itself: random moves may
   go on for ever. *)
FairSpec ==
  /\ Spec
  /\ \A w \in Workers : WF_vars(WorkerStep(w))
  /\ WF_vars(Return)

-----------------------------------------------------------------------------
(* RunAll maps the configs to results: whichever workers take them and however
   the batch is cancelled, every place of the slice is written exactly once,
   with the outcome of its own config, and all are written when RunAll returns. *)
Map == INSTANCE BatchMap
MapsConfigs == Map!MapSpec

(* A config is in one place: in the channel, with one worker, or done. *)
JobInOnePlace ==
  \A i \in Configs :
    LET holders == {w \in Workers : job[w] = i}
    IN  /\ holders = {} <=> results[i] # None \/ i \in ToSet(jobs)
        /\ \A v, w \in holders : v = w
        /\ results[i] # None => i \notin ToSet(jobs)

(* A cancelled batch begins at most one more session per worker. *)
OneSessionAfterCancel == \A w \in Workers : late[w] <= 1

(* A cancelled batch returns, though its games would go on for ever. *)
CancelReturns == ctx ~> returned
=============================================================================
