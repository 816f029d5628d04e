--------------------------- MODULE LibraryProofs ----------------------------
(***************************************************************************)
(* Theorems about the parts that stand alone: the batch runner, the        *)
(* spectators' channels, the replay player, the grid and the cards, each   *)
(* for any value of its constants.                                         *)
(***************************************************************************)
EXTENDS BatchRunner, Spectators, ReplayPlayer, Grid, Cards,
        FiniteSetTheorems, SequenceTheorems, WellFoundedInduction, TLAPS

(* A set of numbers has a least element. *)
LEMMA LeastNumber ==
  ASSUME NEW T, T \subseteq Nat, T # {}
  PROVE  \E x \in T : \A y \in T : x <= y
<1> DEFINE R == {ss \in Nat \X Nat : ss[1] < ss[2]}
<1>1. IsWellFoundedOn(R, Nat)
  BY NatLessThanWellFounded DEF OpToRel
<1>2. PICK x \in T : \A y \in T : ~(<<y, x>> \in R)
  <2> HIDE DEF R
  <2> QED BY <1>1, WFMin
<1>3. \A y \in T : ~(y < x)
  BY <1>2
<1> QED BY <1>3

-----------------------------------------------------------------------------
(* BatchRunner, for any number of configs and workers. *)

LEMMA SequenceFacts ==
  ASSUME TypeOK
  PROVE  /\ Len(jobs) \in Nat
         /\ \A i \in 1..Len(jobs) : jobs[i] \in Configs
         /\ jobs # <<>> =>
              /\ Len(jobs) > 0
              /\ Head(jobs) = jobs[1]
              /\ Tail(jobs) \in Seq(Configs)
              /\ Len(Tail(jobs)) = Len(jobs) - 1
              /\ \A i \in 1..Len(jobs) - 1 : Tail(jobs)[i] = jobs[i + 1]
  BY DEF TypeOK

LEMMA InitTypes == Init => TypeOK
<1> SUFFICES ASSUME Init PROVE TypeOK
  OBVIOUS
<1>1. jobs \in Seq(Configs) /\ Len(jobs) = N
  BY BatchAssumption DEF Init, Configs
<1>2. wg \in 0..Parallelism
  BY BatchAssumption DEF Init
<1>3. Len(jobs) <= N
  BY <1>1, BatchAssumption
<1>4. /\ pc \in [Workers -> {"take", "check", "create", "run", "exited"}]
      /\ job \in [Workers -> Configs \cup {None}]
      /\ results \in [Configs -> (Configs \X Outcomes) \cup {None}]
      /\ late \in [Workers -> Nat]
      /\ ctx \in BOOLEAN /\ returned \in BOOLEAN
  BY DEF Init
<1> QED BY <1>1, <1>2, <1>3, <1>4 DEF TypeOK

(* The workers that have not returned. *)
Active == {w \in Workers : pc[w] # "exited"}

(* The channel holds the last configs in their order.  The others are with one
   worker each or have their result, and no worker returns before the channel is
   empty, so that the counter reaches zero only with all results there. *)
Taken == N - Len(jobs)
Busy(w) == pc[w] \in {"check", "create", "run"}

QueueInv == \A k \in 1..Len(jobs) : jobs[k] = Taken + k
HolderInv ==
  /\ \A w \in Workers : Busy(w) <=> job[w] # None
  /\ \A w \in Workers : job[w] # None => job[w] <= Taken /\ results[job[w]] = None
  /\ \A v, w \in Workers : job[v] # None /\ job[v] = job[w] => v = w
ResultInv ==
  /\ \A i \in Configs : results[i] # None => i <= Taken
  /\ \A i \in 1..Taken : results[i] = None => \E w \in Workers : job[w] = i
CountInv ==
  /\ wg = Cardinality(Active)
  /\ (\E w \in Workers : pc[w] = "exited") => jobs = <<>>
  /\ returned => wg = 0
LateInv ==
  /\ ~ctx => \A w \in Workers : late[w] = 0
  /\ \A w \in Workers : pc[w] = "create" => late[w] = 0
  /\ OneSessionAfterCancel
BatchInv == QueueInv /\ HolderInv /\ ResultInv /\ CountInv /\ LateInv

LEMMA ActiveFacts ==
  /\ IsFiniteSet(Active) /\ Cardinality(Active) \in Nat
  /\ Cardinality(Active) <= Parallelism
  /\ Cardinality(Active) = 0 <=> Active = {}
<1>1. IsFiniteSet(Workers) /\ Cardinality(Workers) = Parallelism
  BY BatchAssumption, FS_Interval DEF Workers
<1>2. Active \subseteq Workers
  BY DEF Active
<1> QED BY <1>1, <1>2, FS_Subset, FS_CardinalityType, FS_EmptySet

LEMMA InitBatch == Init => BatchInv
<1> SUFFICES ASSUME Init PROVE BatchInv
  OBVIOUS
<1>1. Len(jobs) = N /\ Taken = 0 /\ \A k \in 1..N : jobs[k] = k
  BY BatchAssumption DEF Init, Configs, Taken
<1>2. Active = Workers
  BY DEF Init, Active
<1>3. Cardinality(Workers) = Parallelism
  BY BatchAssumption, FS_Interval DEF Workers
<1>4. QueueInv /\ ResultInv
  BY <1>1, BatchAssumption DEF Init, QueueInv, ResultInv
<1>5. HolderInv
  BY DEF Init, HolderInv, Busy
<1>6. CountInv
  BY <1>2, <1>3 DEF Init, CountInv
<1>7. LateInv
  BY DEF Init, LateInv, OneSessionAfterCancel
<1> QED BY <1>4, <1>5, <1>6, <1>7 DEF BatchInv

-----------------------------------------------------------------------------
(* A worker that stores a result. *)
LEMMA StoreKeeps ==
  ASSUME TypeOK, BatchInv, NEW w \in Workers, Busy(w),
         NEW out \in Outcomes, Store(w, out)
  PROVE  /\ TypeOK' /\ BatchInv'
         /\ job[w] \in Configs /\ results[job[w]] = None /\ ~returned
         /\ results' = [results EXCEPT ![job[w]] = <<job[w], out>>]
<1>1. job[w] \in Configs /\ job[w] # None /\ results[job[w]] = None /\ job[w] <= Taken
  BY DEF BatchInv, HolderInv, TypeOK
<1>2. <<job[w], out>> \in Configs \X Outcomes /\ <<job[w], out>> # None
  BY <1>1, BatchAssumption DEF Configs, Outcomes
<1>3. /\ results' = [results EXCEPT ![job[w]] = <<job[w], out>>]
      /\ pc' = [pc EXCEPT ![w] = "take"]
      /\ job' = [job EXCEPT ![w] = None]
      /\ UNCHANGED <<jobs, ctx, wg, returned, late>>
  BY DEF Store
<1>4. TypeOK'
  BY <1>1, <1>2, <1>3 DEF TypeOK
<1>5. QueueInv'
  BY <1>3 DEF BatchInv, QueueInv, Taken
<1>6. HolderInv'
  <2>1. ASSUME NEW v \in Workers, job'[v] # None
        PROVE  v # w /\ job'[v] = job[v] /\ job[v] # job[w]
    BY <1>1, <1>3, <2>1 DEF BatchInv, HolderInv, TypeOK
  <2>2. \A v \in Workers : Busy(v)' <=> job'[v] # None
    BY <1>3 DEF BatchInv, HolderInv, Busy, TypeOK
  <2>3. \A v \in Workers : job'[v] # None => job'[v] <= Taken' /\ results'[job'[v]] = None
    BY <1>3, <2>1 DEF BatchInv, HolderInv, Taken, TypeOK
  <2>4. \A u, v \in Workers : job'[u] # None /\ job'[u] = job'[v] => u = v
    BY <2>1 DEF BatchInv, HolderInv
  <2> QED BY <2>2, <2>3, <2>4 DEF HolderInv
<1>7. ResultInv'
  <2>1. \A i \in Configs : results'[i] # None => i <= Taken
    BY <1>1, <1>3 DEF BatchInv, ResultInv, TypeOK
  <2>2. ASSUME NEW i \in 1..Taken, results'[i] = None
        PROVE  \E v \in Workers : job'[v] = i
    <3>1. i \in Configs
      BY SequenceFacts, BatchAssumption DEF Taken, Configs, TypeOK
    <3>2. i # job[w] /\ results[i] = None
      BY <1>2, <1>3, <2>2, <3>1 DEF TypeOK
    <3>3. PICK v \in Workers : job[v] = i
      BY <3>2 DEF BatchInv, ResultInv
    <3> QED BY <1>3, <3>2, <3>3 DEF TypeOK
  <2> QED BY <1>3, <2>1, <2>2 DEF ResultInv, Taken
<1>8. CountInv' /\ ~returned
  <2>1. w \in Active /\ Active # {}
    BY DEF Active, Busy
  <2>2. Active' = Active
    BY <1>3, <2>1 DEF Active, TypeOK
  <2>3. ~returned
    BY <2>1, ActiveFacts DEF BatchInv, CountInv
  <2>4. \A v \in Workers : pc'[v] = "exited" => pc[v] = "exited"
    BY <1>3 DEF TypeOK
  <2> QED BY <1>3, <2>2, <2>3, <2>4 DEF BatchInv, CountInv
<1>9. LateInv'
  BY <1>3 DEF BatchInv, LateInv, OneSessionAfterCancel, TypeOK
<1> QED BY <1>1, <1>3, <1>4, <1>5, <1>6, <1>7, <1>8, <1>9 DEF BatchInv

LEMMA TakeKeeps ==
  ASSUME TypeOK, BatchInv, NEW w \in Workers, Take(w)
  PROVE  TypeOK' /\ BatchInv'
<1>1. /\ pc[w] = "take" /\ jobs # <<>>
      /\ job' = [job EXCEPT ![w] = Head(jobs)]
      /\ jobs' = Tail(jobs)
      /\ pc' = [pc EXCEPT ![w] = "check"]
      /\ UNCHANGED <<results, ctx, wg, returned, late>>
  BY DEF Take
<1>2. /\ Len(jobs) \in Nat /\ Len(jobs) > 0 /\ Len(jobs) <= N
      /\ jobs' \in Seq(Configs) /\ Len(jobs') = Len(jobs) - 1
      /\ \A k \in 1..Len(jobs') : jobs'[k] = jobs[k + 1]
      /\ N \in Nat
  BY <1>1, SequenceFacts, BatchAssumption DEF TypeOK
<1>3. /\ Taken \in Nat /\ Taken' = Taken + 1
      /\ Head(jobs) = Taken + 1 /\ Head(jobs) \in Configs
  <2>1. Head(jobs) = jobs[1] /\ jobs[1] = Taken + 1 /\ jobs[1] \in Configs
    BY <1>1, <1>2, SequenceFacts DEF BatchInv, QueueInv
  <2> QED BY <1>2, <2>1 DEF Taken
<1>4. TypeOK'
  BY <1>1, <1>2, <1>3 DEF TypeOK
<1>5. QueueInv'
  BY <1>2, <1>3 DEF BatchInv, QueueInv
<1>6. Head(jobs) # None /\ results[Head(jobs)] = None
  BY <1>3, BatchAssumption DEF BatchInv, ResultInv, Configs
<1>7. \A v \in Workers : job[v] # None => job[v] # Head(jobs) /\ job[v] \in Configs
  BY <1>3 DEF BatchInv, HolderInv, TypeOK, Configs
<1>8. HolderInv'
  <2>1. \A v \in Workers : Busy(v)' <=> job'[v] # None
    BY <1>1, <1>6 DEF BatchInv, HolderInv, Busy, TypeOK
  <2>2. \A v \in Workers : job'[v] # None => job'[v] <= Taken' /\ results'[job'[v]] = None
    BY <1>1, <1>3, <1>6, <1>7 DEF BatchInv, HolderInv, TypeOK, Configs
  <2>3. \A u, v \in Workers : job'[u] # None /\ job'[u] = job'[v] => u = v
    BY <1>1, <1>7 DEF BatchInv, HolderInv, TypeOK
  <2> QED BY <2>1, <2>2, <2>3 DEF HolderInv
<1>9. ResultInv'
  <2>1. \A i \in Configs : results'[i] # None => i <= Taken'
    BY <1>1, <1>3 DEF BatchInv, ResultInv, Configs
  <2>2. ASSUME NEW i \in 1..Taken', results'[i] = None
        PROVE  \E v \in Workers : job'[v] = i
    <3>1. CASE i = Head(jobs)
      BY <1>1, <3>1 DEF TypeOK
    <3>2. CASE i # Head(jobs)
      <4>1. i \in 1..Taken /\ results[i] = None
        BY <1>1, <1>3, <2>2, <3>2
      <4>2. PICK v \in Workers : job[v] = i
        BY <4>1 DEF BatchInv, ResultInv
      <4>3. i # None
        BY <4>1, <1>3, BatchAssumption
      <4>4. v # w
        BY <1>1, <4>2, <4>3 DEF BatchInv, HolderInv, Busy
      <4> QED BY <1>1, <4>2, <4>4 DEF TypeOK
    <3> QED BY <3>1, <3>2
  <2> QED BY <2>1, <2>2 DEF ResultInv
<1>10. CountInv'
  <2>1. Active' = Active
    BY <1>1 DEF Active, TypeOK
  <2>2. \A v \in Workers : pc'[v] # "exited"
    BY <1>1 DEF BatchInv, CountInv, TypeOK
  <2> QED BY <1>1, <2>1, <2>2 DEF BatchInv, CountInv
<1>11. LateInv'
  BY <1>1 DEF BatchInv, LateInv, OneSessionAfterCancel, TypeOK
<1> QED BY <1>4, <1>5, <1>8, <1>9, <1>10, <1>11 DEF BatchInv

LEMMA ExitKeeps ==
  ASSUME TypeOK, BatchInv, NEW w \in Workers, Exit(w)
  PROVE  TypeOK' /\ BatchInv'
<1>1. /\ pc[w] = "take" /\ jobs = <<>>
      /\ pc' = [pc EXCEPT ![w] = "exited"]
      /\ wg' = wg - 1
      /\ UNCHANGED <<jobs, job, results, ctx, returned, late>>
  BY DEF Exit
<1>2. w \in Active /\ Active' = Active \ {w}
  BY <1>1 DEF Active, TypeOK
<1>3. Cardinality(Active') = Cardinality(Active) - 1
  BY <1>2, ActiveFacts, FS_RemoveElement
<1>4. wg \in 1..Parallelism
  BY <1>2, ActiveFacts, BatchAssumption DEF BatchInv, CountInv
<1>5. TypeOK'
  BY <1>1, <1>4, BatchAssumption DEF TypeOK
<1>6. QueueInv' /\ ResultInv'
  BY <1>1 DEF BatchInv, QueueInv, ResultInv, Taken
<1>7. HolderInv'
  BY <1>1 DEF BatchInv, HolderInv, Busy, Taken, TypeOK
<1>8. CountInv'
  BY <1>1, <1>3, <1>4 DEF BatchInv, CountInv
<1>9. LateInv'
  BY <1>1 DEF BatchInv, LateInv, OneSessionAfterCancel, TypeOK
<1> QED BY <1>5, <1>6, <1>7, <1>8, <1>9 DEF BatchInv

(* A busy worker that stays busy: it passes its look at the context, or has made
   its session. *)
LEMMA BusyKeeps ==
  ASSUME TypeOK, BatchInv, NEW w \in Workers, Busy(w),
         NEW next \in {"create", "run"}, pc' = [pc EXCEPT ![w] = next],
         UNCHANGED <<jobs, job, results, ctx, wg, returned>>,
         late' \in [Workers -> Nat], LateInv'
  PROVE  TypeOK' /\ BatchInv'
<1>1. TypeOK'
  BY DEF TypeOK
<1>2. QueueInv' /\ ResultInv'
  BY DEF BatchInv, QueueInv, ResultInv, Taken
<1>3. HolderInv'
  BY DEF BatchInv, HolderInv, Busy, Taken, TypeOK
<1>4. Active' = Active
  BY DEF Active, Busy, TypeOK
<1>5. CountInv'
  BY <1>4 DEF BatchInv, CountInv, TypeOK
<1> QED BY <1>1, <1>2, <1>3, <1>5 DEF BatchInv

-----------------------------------------------------------------------------
(* Every step keeps the invariant and is one of BatchMap, or a stutter. *)
MapStep ==
  (\E i \in Configs : Map!Complete(i)) \/ Map!Return \/ UNCHANGED <<results, returned>>

LEMMA StoreMaps ==
  ASSUME TypeOK, BatchInv, NEW w \in Workers, Busy(w),
         NEW out \in Outcomes, Store(w, out)
  PROVE  TypeOK' /\ BatchInv' /\ MapStep
<1>1. Map!Complete(job[w])
  BY StoreKeeps DEF Map!Complete, Store
<1> QED BY <1>1, StoreKeeps DEF MapStep

LEMMA WorkerMaps ==
  ASSUME TypeOK, BatchInv, NEW w \in Workers, WorkerStep(w) \/ RunEnds(w)
  PROVE  TypeOK' /\ BatchInv' /\ MapStep
<1>1. CASE Take(w)
  BY <1>1, TakeKeeps DEF Take, MapStep
<1>2. CASE Exit(w)
  BY <1>2, ExitKeeps DEF Exit, MapStep
<1>3. CASE Check(w)
  <2>1. CASE ctx
    BY <1>3, <2>1, StoreMaps DEF Check, Busy, Outcomes
  <2>2. CASE ~ctx
    <3>1. /\ Busy(w) /\ pc' = [pc EXCEPT ![w] = "create"]
          /\ UNCHANGED <<jobs, job, results, ctx, wg, returned, late>>
      BY <1>3, <2>2 DEF Check, Busy
    <3>2. LateInv' /\ late' \in [Workers -> Nat]
      BY <2>2, <3>1 DEF BatchInv, LateInv, OneSessionAfterCancel, TypeOK
    <3> QED BY <3>1, <3>2, BusyKeeps DEF MapStep
  <2> QED BY <2>1, <2>2
<1>4. CASE Create(w)
  <2>1. CASE Store(w, "failed")
    BY <1>4, <2>1, StoreMaps DEF Create, Busy, Outcomes
  <2>2. CASE ~Store(w, "failed")
    <3>1. /\ pc[w] = "create" /\ Busy(w) /\ pc' = [pc EXCEPT ![w] = "run"]
          /\ late' = [late EXCEPT ![w] = IF ctx THEN late[w] + 1 ELSE late[w]]
          /\ UNCHANGED <<jobs, job, results, ctx, wg, returned>>
      BY <1>4, <2>2 DEF Create, Busy
    <3>2. late[w] = 0 /\ late' \in [Workers -> Nat]
      BY <3>1 DEF BatchInv, LateInv, TypeOK
    <3>3. LateInv'
      BY <3>1, <3>2 DEF BatchInv, LateInv, OneSessionAfterCancel, TypeOK
    <3> QED BY <3>1, <3>2, <3>3, BusyKeeps DEF MapStep
  <2> QED BY <2>1, <2>2
<1>5. CASE RunCancelled(w) \/ RunEnds(w)
  BY <1>5, StoreMaps DEF RunCancelled, RunEnds, Busy, Outcomes
<1> QED BY <1>1, <1>2, <1>3, <1>4, <1>5 DEF WorkerStep

(* When the counter is zero every config has its result. *)
LEMMA AllDone ==
  ASSUME TypeOK, BatchInv, wg = 0
  PROVE  \A i \in Configs : results[i] # None
<1>1. \A w \in Workers : pc[w] = "exited"
  BY ActiveFacts DEF BatchInv, CountInv, Active
<1>2. 1 \in Workers
  BY BatchAssumption DEF Workers
<1>3. Len(jobs) = 0
  BY <1>1, <1>2 DEF BatchInv, CountInv
<1>4. \A w \in Workers : job[w] = None
  BY <1>1 DEF BatchInv, HolderInv, Busy
<1>5. Taken = N /\ \A i \in Configs : i \in 1..Taken /\ i # None
  BY <1>3, BatchAssumption DEF Taken, Configs
<1> QED BY <1>4, <1>5 DEF BatchInv, ResultInv

LEMMA NextBatch ==
  TypeOK /\ BatchInv /\ [Next]_vars => TypeOK' /\ BatchInv' /\ MapStep
<1> SUFFICES ASSUME TypeOK, BatchInv, [Next]_vars
             PROVE  TypeOK' /\ BatchInv' /\ MapStep
  OBVIOUS
<1> USE DEF BatchInv, QueueInv, HolderInv, ResultInv, CountInv, LateInv,
            OneSessionAfterCancel, Taken, Busy, Active
<1>1. CASE \E w \in Workers : WorkerStep(w) \/ RunEnds(w)
  BY <1>1, WorkerMaps
<1>2. CASE Return
  <2>1. TypeOK' /\ BatchInv'
    BY <1>2 DEF Return, TypeOK
  <2>2. Map!Return
    BY <1>2, AllDone DEF Return, Map!Return
  <2> QED BY <2>1, <2>2 DEF MapStep
<1>3. CASE CancelBatch
  BY <1>3 DEF CancelBatch, TypeOK, MapStep
<1>4. CASE UNCHANGED vars
  BY <1>4 DEF vars, TypeOK, MapStep
<1> QED BY <1>1, <1>2, <1>3, <1>4 DEF Next

-----------------------------------------------------------------------------
(* The variables of BatchRunner have their types. *)
THEOREM BatchTypes == Spec => []TypeOK
  BY InitTypes, InitBatch, NextBatch, PTL DEF Spec

(* A batch implements BatchMap: every place of the slice is written once, with
   the outcome of its own config, and RunAll returns when all are written. *)
THEOREM BatchMapsConfigs == Spec => MapsConfigs
<1>1. Init => Map!MapInit
  BY DEF Init, Map!MapInit
<1>2. MapStep =>
        [(\E i \in Configs : Map!Complete(i)) \/ Map!Return]_<<results, returned>>
  BY DEF MapStep
<1> QED
  BY <1>1, <1>2, InitTypes, InitBatch, NextBatch, PTL
  DEF Spec, MapsConfigs, Map!MapSpec

(* A config is in one place: in the channel, with one worker, or done. *)
THEOREM JobsInOnePlace == Spec => []JobInOnePlace
<1>1. TypeOK /\ BatchInv => JobInOnePlace
  <2> SUFFICES ASSUME TypeOK, BatchInv, NEW i \in Configs
               PROVE
                 LET holders == {w \in Workers : job[w] = i}
                 IN  /\ holders = {} <=> results[i] # None \/ i \in ToSet(jobs)
                     /\ \A v, w \in holders : v = w
                     /\ results[i] # None => i \notin ToSet(jobs)
    BY DEF JobInOnePlace
  <2>1. i # None /\ i \in 1..N /\ N \in Nat
    BY BatchAssumption DEF Configs
  <2>2. Taken \in 0..N /\ Len(jobs) = N - Taken /\ Len(jobs) \in Nat
    BY SequenceFacts, BatchAssumption DEF Taken, TypeOK
  <2>3. i \in ToSet(jobs) <=> i > Taken
    <3>1. i > Taken => i - Taken \in 1..Len(jobs) /\ jobs[i - Taken] = i
      BY <2>1, <2>2 DEF BatchInv, QueueInv
    <3>2. \A k \in 1..Len(jobs) : jobs[k] > Taken
      BY <2>2 DEF BatchInv, QueueInv
    <3> QED BY <2>1, <2>2, <3>1, <3>2, SequenceFacts DEF ToSet
  <2>4. \A w \in Workers : job[w] = i => i <= Taken /\ results[i] = None
    BY <2>1 DEF BatchInv, HolderInv
  <2>5. i <= Taken /\ results[i] = None => \E w \in Workers : job[w] = i
    BY <2>1, <2>2 DEF BatchInv, ResultInv
  <2>6. results[i] # None => i <= Taken
    BY DEF BatchInv, ResultInv
  <2>7. \A v, w \in Workers : job[v] = i /\ job[w] = i => v = w
    BY <2>1 DEF BatchInv, HolderInv
  <2> QED BY <2>1, <2>2, <2>3, <2>4, <2>5, <2>6, <2>7
<1> QED BY <1>1, InitTypes, InitBatch, NextBatch, PTL DEF Spec

(* A cancelled batch begins at most one more session per worker. *)
THEOREM CancelledBatchesStop == Spec => []OneSessionAfterCancel
<1>1. BatchInv => OneSessionAfterCancel
  BY DEF BatchInv, LateInv
<1> QED BY <1>1, InitTypes, InitBatch, NextBatch, PTL DEF Spec

-----------------------------------------------------------------------------
(* Spectators, for any number of sessions, registrations and updates, and any
   capacity. *)

(* What a spectator has received and what waits in its channel, in order. *)
All(t) == got[t] \o buffer[t]

(* Receiving moves the boundary and nothing else. *)
LEMMA ReceiveFacts ==
  ASSUME NEW p \in Seq(Updates), NEW q \in Seq(Updates), q # <<>>
  PROVE  /\ Append(p, Head(q)) \in Seq(Updates) /\ Tail(q) \in Seq(Updates)
         /\ Len(Tail(q)) = Len(q) - 1
         /\ Len(Append(p, Head(q)) \o Tail(q)) = Len(p \o q)
         /\ \A i \in 1..Len(p \o q) :
              (Append(p, Head(q)) \o Tail(q))[i] = (p \o q)[i]
<1>1. /\ Len(p) \in Nat /\ Len(q) \in Nat \ {0} /\ Head(q) \in Updates /\ Head(q) = q[1]
      /\ Tail(q) \in Seq(Updates) /\ Len(Tail(q)) = Len(q) - 1
      /\ \A i \in 1..Len(q) - 1 : Tail(q)[i] = q[i + 1]
  OBVIOUS
<1>2. /\ Append(p, Head(q)) \in Seq(Updates) /\ Len(Append(p, Head(q))) = Len(p) + 1
      /\ \A i \in 1..Len(p) : Append(p, Head(q))[i] = p[i]
      /\ Append(p, Head(q))[Len(p) + 1] = q[1]
  BY <1>1, AppendProperties
<1>3. /\ Len(p \o q) = Len(p) + Len(q)
      /\ \A i \in 1..Len(p) + Len(q) :
           (p \o q)[i] = IF i <= Len(p) THEN p[i] ELSE q[i - Len(p)]
  BY ConcatProperties
<1> DEFINE a == Append(p, Head(q))
           b == Tail(q)
<1>4. /\ Len(a \o b) = Len(a) + Len(b)
      /\ \A i \in 1..Len(a) + Len(b) :
           (a \o b)[i] = IF i <= Len(a) THEN a[i] ELSE b[i - Len(a)]
  BY <1>1, <1>2, ConcatProperties
<1>5. ASSUME NEW i \in 1..Len(p \o q)
      PROVE  (a \o b)[i] = (p \o q)[i]
  <2> HIDE DEF a, b
  <2>1. CASE i <= Len(p)
    BY <2>1, <1>1, <1>2, <1>3, <1>4 DEF a, b
  <2>2. CASE i = Len(p) + 1
    BY <2>2, <1>1, <1>2, <1>3, <1>4 DEF a, b
  <2>3. CASE i > Len(p) + 1
    <3>1. i - Len(a) \in 1..Len(q) - 1 /\ (i - Len(a)) + 1 = i - Len(p)
      BY <2>3, <1>1, <1>2, <1>3 DEF a
    <3>2. b[i - Len(a)] = q[i - Len(p)]
      BY <3>1, <1>1 DEF b
    <3> QED BY <2>3, <3>1, <3>2, <1>1, <1>2, <1>3, <1>4 DEF a, b
  <2>4. i <= Len(p) \/ i = Len(p) + 1 \/ i > Len(p) + 1
    BY <1>1, <1>3
  <2> QED BY <2>1, <2>2, <2>3, <2>4, Zenon
<1> QED BY <1>1, <1>2, <1>3, <1>4, <1>5

(* Offering adds one update at the end. *)
LEMMA OfferFacts ==
  ASSUME NEW p \in Seq(Updates), NEW q \in Seq(Updates), NEW x \in Updates
  PROVE  /\ Append(q, x) \in Seq(Updates) /\ Len(Append(q, x)) = Len(q) + 1
         /\ Len(p \o q) \in Nat
         /\ Len(p \o Append(q, x)) = Len(p \o q) + 1
         /\ \A i \in 1..Len(p \o q) : (p \o Append(q, x))[i] = (p \o q)[i]
         /\ (p \o Append(q, x))[Len(p \o q) + 1] = x
<1>1. Len(p) \in Nat /\ Len(q) \in Nat
  OBVIOUS
<1>2. /\ Append(q, x) \in Seq(Updates) /\ Len(Append(q, x)) = Len(q) + 1
      /\ \A i \in 1..Len(q) : Append(q, x)[i] = q[i]
      /\ Append(q, x)[Len(q) + 1] = x
  BY AppendProperties
<1>3. /\ Len(p \o q) = Len(p) + Len(q)
      /\ \A i \in 1..Len(p) + Len(q) :
           (p \o q)[i] = IF i <= Len(p) THEN p[i] ELSE q[i - Len(p)]
  BY ConcatProperties
<1> DEFINE b == Append(q, x)
<1>4. /\ Len(p \o b) = Len(p) + Len(b)
      /\ \A i \in 1..Len(p) + Len(b) :
           (p \o b)[i] = IF i <= Len(p) THEN p[i] ELSE b[i - Len(p)]
  BY <1>2, ConcatProperties
<1> HIDE DEF b
<1>5. \A i \in 1..Len(p \o q) : (p \o b)[i] = (p \o q)[i]
  BY <1>1, <1>2, <1>3, <1>4 DEF b
<1>6. (p \o b)[Len(p \o q) + 1] = x
  BY <1>1, <1>2, <1>3, <1>4 DEF b
<1> QED BY <1>1, <1>2, <1>3, <1>4, <1>5, <1>6 DEF b

-----------------------------------------------------------------------------
(* What makes the property inductive: nothing is offered without the lock, and
   only to registered channels; what a spectator has of a session is not newer
   than its last broadcast, and older while that is still to be offered. *)
LockInv ==
  /\ \A s \in Sessions : offering[s] # {} => s \in reading
  /\ \A s \in Sessions : offering[s] \subseteq channels
  /\ \A s \in Sessions : s \in reading => sent[s] > 0
  /\ \A t \in channels \cup closed : t < nextID
  /\ channels \cap closed = {}

Ordered(t) ==
  \A i, j \in 1..Len(All(t)) :
    i < j /\ All(t)[i][1] = All(t)[j][1] => All(t)[i][2] < All(t)[j][2]

Newest(t) ==
  \A i \in 1..Len(All(t)) :
    /\ All(t)[i] \in Updates
    /\ \A s \in Sessions : All(t)[i][1] = s =>
         /\ All(t)[i][2] <= sent[s]
         /\ t \in offering[s] => All(t)[i][2] < sent[s]

SpectatorsInv ==
  SpectatorsTypeOK /\ LockInv /\ \A t \in Tokens : Ordered(t) /\ Newest(t)

LEMMA UpdateFacts ==
  \A u \in Updates : u[1] \in Sessions /\ u[2] \in 1..MaxUpdates
  BY DEF Updates

LEMMA InitSpectators == SpectatorsInit => SpectatorsInv
<1> SUFFICES ASSUME SpectatorsInit PROVE SpectatorsInv
  OBVIOUS
<1>1. \A t \in Tokens : buffer[t] = <<>> /\ got[t] = <<>>
  BY DEF SpectatorsInit
<1>2. <<>> \in Seq(Updates) /\ Len(<<>>) = 0
  BY EmptySeq
<1>3. \A t \in Tokens : Len(All(t)) = 0
  BY <1>1, <1>2, ConcatEmptySeq DEF All
<1>4. SpectatorsTypeOK
  BY <1>1, <1>2, SpectatorsAssumption DEF SpectatorsInit, SpectatorsTypeOK
<1>5. LockInv
  BY DEF SpectatorsInit, LockInv
<1> QED BY <1>3, <1>4, <1>5 DEF SpectatorsInv, Ordered, Newest

(* A step that neither offers nor receives keeps the order; if it broadcasts, what
   is there becomes older than the newest. *)
LEMMA SameOrder ==
  ASSUME SpectatorsInv, UNCHANGED <<buffer, got>>, SpectatorsTypeOK',
         \A s \in Sessions :
           \/ sent'[s] = sent[s] /\ offering'[s] \subseteq offering[s]
           \/ sent'[s] = sent[s] + 1
  PROVE  \A t \in Tokens : Ordered(t)' /\ Newest(t)'
<1> TAKE t \in Tokens
<1>1. All(t)' = All(t) /\ Ordered(t) /\ Newest(t)
  BY DEF All, SpectatorsInv
<1>2. Ordered(t)'
  BY <1>1 DEF Ordered
<1>3. Newest(t)'
  <2> SUFFICES ASSUME NEW i \in 1..Len(All(t)), NEW s \in Sessions,
                      All(t)[i][1] = s
               PROVE  /\ All(t)[i][2] <= sent'[s]
                      /\ t \in offering'[s] => All(t)[i][2] < sent'[s]
    BY <1>1 DEF Newest
  <2>1. All(t)[i] \in Updates /\ All(t)[i][2] <= sent[s]
        /\ (t \in offering[s] => All(t)[i][2] < sent[s])
    BY <1>1 DEF Newest
  <2>2. All(t)[i][2] \in Int /\ sent[s] \in Int
    BY <2>1, UpdateFacts DEF SpectatorsInv, SpectatorsTypeOK
  <2> QED BY <2>1, <2>2
<1> QED BY <1>2, <1>3

LEMMA ReceiveKeeps ==
  ASSUME SpectatorsInv, NEW t \in Tokens, Receive(t)
  PROVE  SpectatorsInv'
<1>1. /\ buffer[t] # <<>> /\ buffer[t] \in Seq(Updates) /\ got[t] \in Seq(Updates)
      /\ got' = [got EXCEPT ![t] = Append(got[t], Head(buffer[t]))]
      /\ buffer' = [buffer EXCEPT ![t] = Tail(buffer[t])]
      /\ UNCHANGED <<channels, nextID, closed, sent, offering, reading>>
  BY DEF Receive, SpectatorsInv, SpectatorsTypeOK
<1>2. got'[t] \in Seq(Updates) /\ buffer'[t] \in Seq(Updates)
      /\ Len(buffer'[t]) = Len(buffer[t]) - 1
  BY <1>1, ReceiveFacts DEF SpectatorsInv, SpectatorsTypeOK
<1>3. SpectatorsTypeOK'
  <2>1. Len(buffer[t]) \in Nat /\ Len(buffer[t]) <= Capacity /\ Capacity \in Nat
    BY <1>1, SpectatorsAssumption DEF SpectatorsInv, SpectatorsTypeOK
  <2>2. Len(buffer'[t]) <= Capacity
    BY <1>2, <2>1
  <2>3. \A u \in Tokens : u # t => buffer'[u] = buffer[u] /\ got'[u] = got[u]
    BY <1>1 DEF SpectatorsInv, SpectatorsTypeOK
  <2> QED BY <1>1, <1>2, <2>2, <2>3 DEF SpectatorsInv, SpectatorsTypeOK
<1>4. LockInv'
  BY <1>1 DEF SpectatorsInv, LockInv
<1>5. ASSUME NEW u \in Tokens
      PROVE  Ordered(u)' /\ Newest(u)'
  <2>1. /\ Len(All(u)') = Len(All(u))
        /\ \A i \in 1..Len(All(u)) : All(u)'[i] = All(u)[i]
    <3>1. CASE u = t
      <4>1. /\ got'[t] = Append(got[t], Head(buffer[t]))
            /\ buffer'[t] = Tail(buffer[t])
        BY <1>1 DEF SpectatorsInv, SpectatorsTypeOK
      <4>2. /\ Len(got'[t] \o buffer'[t]) = Len(got[t] \o buffer[t])
            /\ \A i \in 1..Len(got[t] \o buffer[t]) :
                 (got'[t] \o buffer'[t])[i] = (got[t] \o buffer[t])[i]
        <5> DEFINE p == got[t]
                   q == buffer[t]
        <5>1. p \in Seq(Updates) /\ q \in Seq(Updates) /\ q # <<>>
          BY <1>1
        <5> HIDE DEF p, q
        <5>2. /\ Len(Append(p, Head(q)) \o Tail(q)) = Len(p \o q)
              /\ \A i \in 1..Len(p \o q) :
                   (Append(p, Head(q)) \o Tail(q))[i] = (p \o q)[i]
          BY <5>1, ReceiveFacts, Zenon
        <5> QED BY <4>1, <5>2, Zenon DEF p, q
      <4> QED BY <3>1, <4>2 DEF All
    <3>2. CASE u # t
      BY <1>1, <3>2 DEF All, SpectatorsInv, SpectatorsTypeOK
    <3> QED BY <3>1, <3>2
  <2>2. Ordered(u) /\ Newest(u)
    BY DEF SpectatorsInv
  <2> QED BY <1>1, <2>1, <2>2 DEF Ordered, Newest
<1> QED BY <1>3, <1>4, <1>5 DEF SpectatorsInv

LEMMA OfferKeeps ==
  ASSUME SpectatorsInv, NEW s \in Sessions, NEW t \in Tokens, Offer(s, t)
  PROVE  SpectatorsInv'
<1>1. /\ t \in offering[s]
      /\ buffer' = IF Len(buffer[t]) < Capacity
                     THEN [buffer EXCEPT ![t] = Append(buffer[t], <<s, sent[s]>>)]
                     ELSE buffer
      /\ offering' = [offering EXCEPT ![s] = offering[s] \ {t}]
      /\ UNCHANGED <<channels, nextID, closed, sent, reading, got>>
  BY DEF Offer
<1>2. /\ offering \in [Sessions -> SUBSET Tokens]
      /\ buffer[t] \in Seq(Updates) /\ got[t] \in Seq(Updates)
      /\ sent[s] \in 1..MaxUpdates /\ <<s, sent[s]>> \in Updates
  <2>1. offering \in [Sessions -> SUBSET Tokens]
        /\ buffer[t] \in Seq(Updates) /\ got[t] \in Seq(Updates)
    BY DEF SpectatorsInv, SpectatorsTypeOK
  <2>2. sent[s] \in 0..MaxUpdates /\ sent[s] > 0
    BY <1>1 DEF SpectatorsInv, SpectatorsTypeOK, LockInv
  <2>3. sent[s] \in 1..MaxUpdates
    BY <2>2, SpectatorsAssumption
  <2> QED BY <2>1, <2>3 DEF Updates
<1>3. LockInv'
  BY <1>1, <1>2 DEF SpectatorsInv, LockInv
<1>4. CASE Len(buffer[t]) >= Capacity
  <2>1. UNCHANGED buffer
    BY <1>1, <1>2, <1>4, SpectatorsAssumption
  <2>2. SpectatorsTypeOK'
    BY <1>1, <1>2, <2>1 DEF SpectatorsInv, SpectatorsTypeOK
  <2>3. \A r \in Sessions : sent'[r] = sent[r] /\ offering'[r] \subseteq offering[r]
    BY <1>1, <1>2
  <2> QED BY <1>1, <1>3, <2>1, <2>2, <2>3, SameOrder DEF SpectatorsInv
<1>5. CASE Len(buffer[t]) < Capacity
  <2>1. /\ buffer'[t] = Append(buffer[t], <<s, sent[s]>>)
        /\ buffer' \in [Tokens -> Seq(Updates)]
        /\ \A u \in Tokens : u # t => buffer'[u] = buffer[u]
    BY <1>1, <1>2, <1>5, OfferFacts DEF SpectatorsInv, SpectatorsTypeOK
  <2>2. SpectatorsTypeOK'
    <3>1. Len(buffer'[t]) <= Capacity
      BY <1>2, <1>5, <2>1, OfferFacts, SpectatorsAssumption
    <3> QED BY <1>1, <1>2, <2>1, <3>1 DEF SpectatorsInv, SpectatorsTypeOK
  <2>3. ASSUME NEW u \in Tokens, u # t
        PROVE  Ordered(u)' /\ Newest(u)'
    <3>1. All(u)' = All(u) /\ Ordered(u) /\ Newest(u)
      BY <1>1, <2>1, <2>3 DEF All, SpectatorsInv
    <3> QED BY <1>1, <1>2, <3>1 DEF Ordered, Newest
  <2>4. /\ Len(All(t)) \in Nat /\ Len(All(t)') = Len(All(t)) + 1
        /\ \A i \in 1..Len(All(t)) : All(t)'[i] = All(t)[i]
        /\ All(t)'[Len(All(t)) + 1] = <<s, sent[s]>>
    <3>1. /\ Len(got[t] \o buffer[t]) \in Nat
          /\ Len(got[t] \o buffer'[t]) = Len(got[t] \o buffer[t]) + 1
          /\ \A i \in 1..Len(got[t] \o buffer[t]) :
               (got[t] \o buffer'[t])[i] = (got[t] \o buffer[t])[i]
          /\ (got[t] \o buffer'[t])[Len(got[t] \o buffer[t]) + 1] = <<s, sent[s]>>
      <4> DEFINE p == got[t]
                 q == buffer[t]
                 x == <<s, sent[s]>>
      <4>1. p \in Seq(Updates) /\ q \in Seq(Updates) /\ x \in Updates
        BY <1>2
      <4> HIDE DEF p, q, x
      <4>2. /\ Len(p \o q) \in Nat /\ Len(p \o Append(q, x)) = Len(p \o q) + 1
            /\ \A i \in 1..Len(p \o q) : (p \o Append(q, x))[i] = (p \o q)[i]
            /\ (p \o Append(q, x))[Len(p \o q) + 1] = x
        BY <4>1, OfferFacts, Zenon
      <4> QED BY <2>1, <4>2, Zenon DEF p, q, x
    <3>2. All(t)' = got[t] \o buffer'[t]
      BY <1>1 DEF All
    <3> QED BY <3>1, <3>2 DEF All
  <2>5. \A i \in 1..Len(All(t)) :
          /\ All(t)[i] \in Updates
          /\ All(t)[i][1] = s => All(t)[i][2] < sent[s]
    BY <1>1 DEF SpectatorsInv, Newest
  <2>6. Ordered(t)'
    <3> SUFFICES ASSUME NEW i \in 1..Len(All(t)) + 1, NEW j \in 1..Len(All(t)) + 1,
                        i < j, All(t)'[i][1] = All(t)'[j][1]
                 PROVE  All(t)'[i][2] < All(t)'[j][2]
      BY <2>4 DEF Ordered
    <3>1. i \in 1..Len(All(t)) /\ All(t)'[i] = All(t)[i]
      BY <2>4
    <3>2. CASE j = Len(All(t)) + 1
      BY <2>4, <2>5, <3>1, <3>2
    <3>3. CASE j # Len(All(t)) + 1
      <4>1. j \in 1..Len(All(t)) /\ All(t)'[j] = All(t)[j]
        BY <2>4, <3>3
      <4> QED BY <3>1, <4>1 DEF SpectatorsInv, Ordered
    <3> QED BY <3>2, <3>3
  <2>7. Newest(t)'
    <3> SUFFICES ASSUME NEW i \in 1..Len(All(t)) + 1
                 PROVE
                   /\ All(t)'[i] \in Updates
                   /\ \A r \in Sessions : All(t)'[i][1] = r =>
                        /\ All(t)'[i][2] <= sent[r]
                        /\ t \in offering'[r] => All(t)'[i][2] < sent[r]
      BY <1>1, <2>4 DEF Newest
    <3>1. CASE i = Len(All(t)) + 1
      BY <1>1, <1>2, <2>4, <3>1
    <3>2. CASE i # Len(All(t)) + 1
      <4>1. i \in 1..Len(All(t)) /\ All(t)'[i] = All(t)[i]
        BY <2>4, <3>2
      <4> QED BY <1>1, <1>2, <4>1 DEF SpectatorsInv, Newest
    <3> QED BY <3>1, <3>2
  <2> QED BY <1>3, <2>2, <2>3, <2>6, <2>7 DEF SpectatorsInv
<1> QED BY <1>2, <1>4, <1>5, SpectatorsAssumption

LEMMA NextSpectators ==
  SpectatorsInv /\ [SpectatorsNext]_spectatorVars => SpectatorsInv'
<1> SUFFICES ASSUME SpectatorsInv, [SpectatorsNext]_spectatorVars
             PROVE  SpectatorsInv'
  OBVIOUS
<1>1. ASSUME UNCHANGED <<buffer, got>>, SpectatorsTypeOK', LockInv',
             \A s \in Sessions :
               \/ sent'[s] = sent[s] /\ offering'[s] \subseteq offering[s]
               \/ sent'[s] = sent[s] + 1
      PROVE  SpectatorsInv'
  BY <1>1, SameOrder DEF SpectatorsInv
<1> USE SpectatorsAssumption
<1>2. CASE Register
  <2>1. /\ reading = {} /\ nextID < MaxTokens /\ nextID \in Nat
        /\ channels' = channels \cup {nextID} /\ nextID' = nextID + 1
        /\ UNCHANGED <<buffer, closed, sent, offering, reading, got>>
    BY <1>2 DEF Register, SpectatorsInv, SpectatorsTypeOK
  <2>2. SpectatorsTypeOK'
    BY <2>1 DEF SpectatorsInv, SpectatorsTypeOK, Tokens
  <2>3. LockInv'
    BY <2>1 DEF SpectatorsInv, SpectatorsTypeOK, LockInv, Tokens
  <2> QED BY <1>1, <2>1, <2>2, <2>3
<1>3. ASSUME NEW t \in Tokens, Deregister(t)
      PROVE  SpectatorsInv'
  <2>1. /\ reading = {} /\ channels' = channels \ {t}
        /\ UNCHANGED <<nextID, buffer, closed, sent, offering, reading, got>>
    BY <1>3 DEF Deregister
  <2>2. SpectatorsTypeOK'
    BY <2>1 DEF SpectatorsInv, SpectatorsTypeOK
  <2>3. LockInv'
    BY <2>1 DEF SpectatorsInv, LockInv
  <2> QED BY <1>1, <2>1, <2>2, <2>3
<1>4. ASSUME NEW t \in Tokens, Close(t)
      PROVE  SpectatorsInv'
  <2>1. /\ t < nextID /\ t \notin channels /\ closed' = closed \cup {t}
        /\ UNCHANGED <<channels, nextID, buffer, sent, offering, reading, got>>
    BY <1>4 DEF Close
  <2>2. SpectatorsTypeOK'
    BY <2>1 DEF SpectatorsInv, SpectatorsTypeOK
  <2>3. LockInv'
    BY <2>1 DEF SpectatorsInv, LockInv
  <2> QED BY <1>1, <2>1, <2>2, <2>3
<1>5. ASSUME NEW s \in Sessions, Broadcast(s)
      PROVE  SpectatorsInv'
  <2>1. /\ sent[s] < MaxUpdates /\ sent' = [sent EXCEPT ![s] = sent[s] + 1]
        /\ offering' = [offering EXCEPT ![s] = channels]
        /\ reading' = reading \cup {s}
        /\ UNCHANGED <<channels, nextID, buffer, closed, got>>
    BY <1>5 DEF Broadcast
  <2>2. SpectatorsTypeOK'
    BY <2>1 DEF SpectatorsInv, SpectatorsTypeOK
  <2>3. LockInv'
    BY <2>1 DEF SpectatorsInv, SpectatorsTypeOK, LockInv
  <2>4. \A r \in Sessions :
          \/ sent'[r] = sent[r] /\ offering'[r] \subseteq offering[r]
          \/ sent'[r] = sent[r] + 1
    BY <2>1 DEF SpectatorsInv, SpectatorsTypeOK
  <2> QED BY <1>1, <2>1, <2>2, <2>3, <2>4
<1>6. ASSUME NEW s \in Sessions, Unlock(s)
      PROVE  SpectatorsInv'
  <2>1. /\ offering[s] = {} /\ reading' = reading \ {s}
        /\ UNCHANGED <<channels, nextID, buffer, closed, sent, offering, got>>
    BY <1>6 DEF Unlock
  <2>2. SpectatorsTypeOK'
    BY <2>1 DEF SpectatorsInv, SpectatorsTypeOK
  <2>3. LockInv'
    BY <2>1 DEF SpectatorsInv, LockInv
  <2> QED BY <1>1, <2>1, <2>2, <2>3
<1>7. CASE UNCHANGED spectatorVars
  <2>1. SpectatorsTypeOK' /\ LockInv'
    BY <1>7 DEF spectatorVars, SpectatorsInv, SpectatorsTypeOK, LockInv
  <2> QED BY <1>1, <1>7, <2>1 DEF spectatorVars
<1> QED
  BY <1>2, <1>3, <1>4, <1>5, <1>6, <1>7, ReceiveKeeps, OfferKeeps
  DEF SpectatorsNext

(* The runners of any number of sessions may broadcast while spectators come, go
   and read or do not: no closed channel is sent to, and a spectator sees the
   updates of each session in their order and none twice. *)
THEOREM SpectatorsStaySafe == SpectatorsSpec => []SpectatorsAreSafe
<1>1. SpectatorsInv => SpectatorsAreSafe
  <2> SUFFICES ASSUME SpectatorsInv PROVE SpectatorsAreSafe
    OBVIOUS
  <2>1. \A t \in closed, s \in Sessions : t \notin offering[s]
    BY DEF SpectatorsInv, LockInv
  <2>2. ASSUME NEW t \in Tokens
        PROVE  LET all == got[t] \o buffer[t]
               IN \A i, j \in DOMAIN all :
                    i < j /\ all[i][1] = all[j][1] => all[i][2] < all[j][2]
    <3>1. All(t) \in Seq(Updates)
      BY ConcatProperties DEF SpectatorsInv, SpectatorsTypeOK, All
    <3>2. DOMAIN All(t) = 1..Len(All(t))
      BY <3>1
    <3> QED BY <3>2 DEF SpectatorsInv, Ordered, All
  <2> QED BY <2>1, <2>2 DEF SpectatorsInv, SpectatorsAreSafe
<1> QED BY <1>1, InitSpectators, NextSpectators, PTL DEF SpectatorsSpec

-----------------------------------------------------------------------------
(* ReplayPlayer, for replays of any length and any number of pending timers. *)

LEMMA LeastId ==
  ASSUME NEW T, T \subseteq Nat, T # {}
  PROVE  Min(T) \in T
BY LeastNumber DEF Min

(* The ids of pending timers differ, so there are as many ids as timers. *)
LEMMA DistinctIds ==
  ASSUME NEW P, IsFiniteSet(P)
  PROVE  /\ IsFiniteSet({t.id : t \in P})
         /\ Cardinality({t.id : t \in P}) <= Cardinality(P)
         /\ Cardinality({t.id : t \in P}) = Cardinality(P) <=>
              \A s, t \in P : s.id = t.id => s = t
<1> DEFINE I == {t.id : t \in P}
           f == [t \in P |-> t.id]
<1>1. f \in [P -> I] /\ \A t \in P : f[t] = t.id
  OBVIOUS
<1>2. \A i \in I : \E t \in P : f[t] = i
  OBVIOUS
<1>3. f \in Surjection(P, I)
  BY <1>1, <1>2 DEF Surjection
<1>4. f \in Injection(P, I) <=> \A s, t \in P : s.id = t.id => s = t
  BY <1>1 DEF Injection, IsInjective
<1> HIDE DEF f, I
<1>5. /\ IsFiniteSet(I) /\ Cardinality(I) <= Cardinality(P)
      /\ Cardinality(I) = Cardinality(P) <=> f \in Injection(P, I)
  BY <1>3, FS_Surjection
<1> QED BY <1>4, <1>5 DEF I

(* There is an id for one more timer as long as there is room for a timer. *)
LEMMA FreshId ==
  ASSUME NEW P, IsFiniteSet(P), Cardinality(P) <= MaxTimers, NEW i
  PROVE  LET id == Min(Ids \ ({t.id : t \in P} \cup {i}))
         IN id \in Ids /\ \A t \in P : t.id # id
<1> DEFINE I == {t.id : t \in P}
           X == I \cup {i}
<1>1. MaxTimers \in Nat /\ Cardinality(P) \in Nat
  BY PlayerAssumption, FS_CardinalityType
<1>2. IsFiniteSet(I) /\ Cardinality(I) <= Cardinality(P) /\ Cardinality(I) \in Nat
  BY DistinctIds, FS_CardinalityType
<1>3. IsFiniteSet(X) /\ Cardinality(X) \in Nat /\ Cardinality(X) <= MaxTimers + 1
  <2> HIDE DEF I
  <2>1. IsFiniteSet(X) /\ Cardinality(X) = IF i \in I THEN Cardinality(I) ELSE Cardinality(I) + 1
    BY <1>2, FS_AddElement
  <2> QED BY <1>1, <1>2, <2>1
<1>4. Cardinality(Ids) = MaxTimers + 2
  <2>1. 1 \in Int /\ MaxTimers + 2 \in Int /\ ~(1 > MaxTimers + 2)
    BY <1>1
  <2> QED BY <1>1, <2>1, FS_Interval DEF Ids
<1>5. Ids \ X # {}
  <2>1. SUFFICES ASSUME Ids \subseteq X PROVE FALSE
    OBVIOUS
  <2>2. Cardinality(Ids) <= Cardinality(X)
    BY <1>3, <2>1, FS_Subset
  <2> QED BY <1>1, <1>3, <1>4, <2>2
<1>6. Ids \ X \subseteq Nat
  BY <1>1 DEF Ids
<1>7. Min(Ids \ X) \in Ids \ X
  BY <1>5, <1>6, LeastId
<1> QED BY <1>7

(* There is always room for the timers: one that fired makes room for the next. *)
TimersInv ==
  /\ PlayerTypeOK /\ IsFiniteSet(timers)
  /\ Cardinality(timers) + (IF Showing THEN 1 ELSE 0) <= MaxTimers + 1
  /\ Showing => callback < entries

(* One chain: its timer is the one remembered, its index the number of entries
   shown, and while one is being shown there is no timer. *)
ChainInv ==
  ~tangled =>
    /\ \A s, t \in timers : s = t
    /\ \A t \in timers : t.id = timerId /\ t.index = shown
    /\ Showing => timers = {} /\ callback + 1 = shown
    /\ completed => shown = entries

QuietInv == quiet => timerId = Null /\ ~Showing

PlayerInv == TimersInv /\ ChainInv /\ QuietInv

(* The part of the type invariant that is about timers, without counting ids. *)
TimersOK(P, n) ==
  /\ P \subseteq [id : Ids, index : 0..MaxEntries] /\ IsFiniteSet(P)
  /\ \A t \in P : t.index < n
  /\ \A s, t \in P : s.id = t.id => s = t

LEMMA TimerTypes ==
  PlayerTypeOK /\ IsFiniteSet(timers) <=>
    /\ entries \in 0..MaxEntries
    /\ timerId \in Ids \cup {Null}
    /\ TimersOK(timers, entries)
    /\ callback \in 0..Completing
    /\ shown \in 0..MaxEntries
    /\ completed \in BOOLEAN /\ quiet \in BOOLEAN /\ tangled \in BOOLEAN
  BY DistinctIds DEF PlayerTypeOK, TimersOK

LEMMA Numbers ==
  /\ MaxEntries \in Nat /\ MaxTimers \in Nat \ {0}
  /\ Null = 0 /\ Idle = MaxEntries /\ Completing = MaxEntries + 1
  /\ 0 \notin Ids
  BY PlayerAssumption DEF Null, Idle, Completing, Ids

(* Fewer timers are as good. *)
LEMMA FewerTimers ==
  ASSUME NEW n, NEW P, TimersOK(P, n), NEW Q \in SUBSET P
  PROVE  /\ TimersOK(Q, n) /\ Cardinality(Q) \in Nat
         /\ Cardinality(P) \in Nat /\ Cardinality(Q) <= Cardinality(P)
  BY FS_Subset, FS_CardinalityType DEF TimersOK

(* setTimeout adds one timer, with an id that no other has. *)
LEMMA TimerSet ==
  ASSUME NEW P, NEW index \in 0..MaxEntries, SetTimeout(P, index),
         NEW n \in Nat, index < n,
         TimersOK(P, n), Cardinality(P) <= MaxTimers
  PROVE  /\ timerId' \in Ids
         /\ timers' = P \cup {[id |-> timerId', index |-> index]}
         /\ TimersOK(timers', n)
         /\ Cardinality(timers') \in Nat
         /\ Cardinality(P) \in Nat /\ Cardinality(timers') <= Cardinality(P) + 1
<1>1. /\ timerId' = Min(Ids \ ({t.id : t \in P} \cup {timerId}))
      /\ timers' = P \cup {[id |-> timerId', index |-> index]}
  BY DEF SetTimeout
<1>2. timerId' \in Ids /\ \A t \in P : t.id # timerId'
  BY <1>1, FreshId DEF TimersOK
<1> DEFINE new == [id |-> timerId', index |-> index]
<1>3. new \in [id : Ids, index : 0..MaxEntries] /\ new.id = timerId' /\ new.index = index
  BY <1>2
<1> HIDE DEF new
<1>4. /\ IsFiniteSet(P \cup {new}) /\ Cardinality(P) \in Nat
      /\ Cardinality(P \cup {new}) = IF new \in P THEN Cardinality(P) ELSE Cardinality(P) + 1
  BY FS_AddElement, FS_CardinalityType DEF TimersOK
<1>5. TimersOK(P \cup {new}, n)
  BY <1>2, <1>3, <1>4 DEF TimersOK
<1>6. Cardinality(P \cup {new}) \in Nat /\ Cardinality(P \cup {new}) <= Cardinality(P) + 1
  BY <1>4
<1> QED BY <1>1, <1>2, <1>4, <1>5, <1>6 DEF new

LEMMA InitPlayer == PlayerInit => PlayerInv
<1> SUFFICES ASSUME PlayerInit PROVE PlayerInv
  OBVIOUS
<1>1. IsFiniteSet({}) /\ Cardinality({}) = 0
  BY FS_EmptySet
<1>2. ~Showing
  BY Numbers DEF PlayerInit, Showing
<1>3. TimersOK(timers, entries)
  BY <1>1 DEF PlayerInit, TimersOK
<1>4. PlayerTypeOK /\ IsFiniteSet(timers)
  <2>1. /\ entries \in 0..MaxEntries /\ timerId = 0 /\ callback \in 0..Completing
        /\ shown \in 0..MaxEntries
    BY Numbers DEF PlayerInit
  <2>2. completed \in BOOLEAN /\ quiet \in BOOLEAN /\ tangled \in BOOLEAN
    BY DEF PlayerInit
  <2> QED BY <1>3, <2>1, <2>2, TimerTypes DEF Null
<1>5. TimersInv
  BY <1>1, <1>2, <1>4, Numbers DEF TimersInv, PlayerInit
<1>6. ChainInv /\ QuietInv
  BY <1>2 DEF PlayerInit, ChainInv, QuietInv
<1> QED BY <1>5, <1>6 DEF PlayerInv

LEMMA TypesPrimed ==
  ASSUME entries' \in 0..MaxEntries, timerId' \in Ids \cup {Null}, TimersOK(timers', entries'),
         callback' \in 0..Completing, shown' \in 0..MaxEntries,
         completed' \in BOOLEAN, quiet' \in BOOLEAN, tangled' \in BOOLEAN
  PROVE  PlayerTypeOK' /\ IsFiniteSet(timers')
  BY DistinctIds DEF PlayerTypeOK, TimersOK, Null, Ids, Idle, Completing

(* What the invariant gives a step to start from. *)
LEMMA Before ==
  ASSUME PlayerInv
  PROVE  /\ entries \in 0..MaxEntries /\ entries \in Nat /\ timerId \in Ids \cup {Null}
         /\ TimersOK(timers, entries) /\ Cardinality(timers) \in Nat
         /\ callback \in 0..Completing /\ callback \in Nat
         /\ shown \in 0..MaxEntries /\ shown \in Nat
         /\ completed \in BOOLEAN /\ quiet \in BOOLEAN /\ tangled \in BOOLEAN
         /\ TimersOK(Cleared, entries) /\ Cardinality(Cleared) \in Nat
         /\ Cardinality(Cleared) <= Cardinality(timers)
         /\ ~tangled => Cleared = {}
<1>1. /\ entries \in 0..MaxEntries /\ timerId \in Ids \cup {Null}
      /\ TimersOK(timers, entries)
      /\ callback \in 0..Completing /\ shown \in 0..MaxEntries
      /\ completed \in BOOLEAN /\ quiet \in BOOLEAN /\ tangled \in BOOLEAN
  BY TimerTypes DEF PlayerInv, TimersInv
<1>2. /\ TimersOK(Cleared, entries) /\ Cardinality(Cleared) \in Nat
      /\ Cardinality(timers) \in Nat /\ Cardinality(Cleared) <= Cardinality(timers)
  <2>1. Cleared \in SUBSET timers
    BY DEF Cleared
  <2> QED BY <1>1, <2>1, FewerTimers
<1>3. ~tangled => Cleared = {}
  BY DEF PlayerInv, ChainInv, Cleared
<1>4. entries \in Nat /\ callback \in Nat /\ shown \in Nat
  BY <1>1, Numbers
<1> QED BY <1>1, <1>2, <1>3, <1>4

LEMMA PlayStep ==
  ASSUME PlayerInv, Play
  PROVE  PlayerInv'
<1>1. /\ Cardinality(timers) < MaxTimers
      /\ shown' = 0 /\ completed' = (entries = 0) /\ quiet' = FALSE
      /\ tangled' = (Showing \/ (tangled /\ Cleared # {}))
      /\ entries' = entries
  BY DEF Play
<1>2. completed' \in BOOLEAN /\ quiet' \in BOOLEAN /\ tangled' \in BOOLEAN
  BY <1>1
<1>3. shown' \in 0..MaxEntries /\ entries' \in 0..MaxEntries
  BY <1>1, Before, Numbers
<1>4. QuietInv'
  BY <1>1 DEF QuietInv
<1>5. ~tangled' => ~Showing /\ Cleared = {}
  BY <1>1, Before
<1>6. CASE entries = 0
  <2>1. /\ callback' = IF callback = Idle THEN Completing ELSE callback
        /\ timerId' = Null /\ timers' = Cleared
    BY <1>6 DEF Play
  <2>2. callback' \in 0..Completing /\ (Showing' <=> Showing)
    <3>1. /\ callback \in Nat /\ callback <= MaxEntries + 1 /\ MaxEntries \in Nat
          /\ Idle' = MaxEntries /\ Idle = MaxEntries /\ Completing = MaxEntries + 1
      BY Before, Numbers DEF Idle
    <3>2. callback' = callback \/ (callback = MaxEntries /\ callback' = MaxEntries + 1)
      BY <2>1, <3>1
    <3> QED BY <3>1, <3>2 DEF Showing
  <2>3. PlayerTypeOK' /\ IsFiniteSet(timers')
    BY <1>1, <1>2, <1>3, <2>1, <2>2, Before, TypesPrimed
  <2>4. TimersInv'
    <3>1. /\ Cardinality(timers') + (IF Showing' THEN 1 ELSE 0) <= MaxTimers + 1
      BY <1>1, <2>1, Before, Numbers
    <3>2. Showing' => callback' < entries'
      <4>1. ~Showing
        BY <1>6, Before DEF PlayerInv, TimersInv
      <4> QED BY <2>2, <4>1
    <3> QED BY <2>3, <3>1, <3>2 DEF TimersInv
  <2>5. ChainInv'
    BY <1>1, <1>5, <1>6, <2>1, <2>2 DEF ChainInv
  <2> QED BY <1>4, <2>4, <2>5 DEF PlayerInv
<1>7. CASE entries # 0
  <2>1. SetTimeout(Cleared, 0) /\ callback' = callback
    BY <1>7 DEF Play
  <2>2. 0 \in 0..MaxEntries /\ 0 < entries /\ Cardinality(Cleared) <= MaxTimers
    BY <1>1, <1>7, Before, Numbers
  <2>3. /\ timerId' \in Ids /\ timers' = Cleared \cup {[id |-> timerId', index |-> 0]}
        /\ TimersOK(timers', entries)
        /\ Cardinality(timers') \in Nat /\ Cardinality(timers') <= Cardinality(Cleared) + 1
    BY <2>1, <2>2, TimerSet, Before
  <2>4. PlayerTypeOK' /\ IsFiniteSet(timers')
    BY <1>1, <1>2, <1>3, <2>1, <2>3, Before, TypesPrimed
  <2>5. Showing' <=> Showing
    BY <2>1 DEF Showing, Idle
  <2>6. TimersInv'
    <3>1. Cardinality(timers') + (IF Showing' THEN 1 ELSE 0) <= MaxTimers + 1
      BY <1>1, <2>3, Before, Numbers
    <3>2. Showing' => callback' < entries'
      BY <1>1, <2>1, <2>5 DEF PlayerInv, TimersInv
    <3> QED BY <2>4, <3>1, <3>2 DEF TimersInv
  <2>7. ChainInv'
    <3> DEFINE new == [id |-> timerId', index |-> 0]
    <3>1. new.id = timerId' /\ new.index = 0
      OBVIOUS
    <3> HIDE DEF new
    <3>2. ~tangled' => timers' = {new}
      BY <1>5, <2>3 DEF new
    <3> QED BY <1>1, <1>5, <1>7, <2>5, <3>1, <3>2 DEF ChainInv
  <2> QED BY <1>4, <2>6, <2>7 DEF PlayerInv
<1> QED BY <1>6, <1>7

LEMMA StopStep ==
  ASSUME PlayerInv, Stop
  PROVE  PlayerInv'
<1>1. /\ timerId' = Null /\ timers' = Cleared
      /\ quiet' = ~Showing /\ tangled' = (tangled \/ Showing)
      /\ UNCHANGED <<entries, callback, shown, completed>>
  BY DEF Stop
<1>2. quiet' \in BOOLEAN /\ tangled' \in BOOLEAN /\ (Showing' <=> Showing)
  BY <1>1 DEF Showing, Idle
<1>3. PlayerTypeOK' /\ IsFiniteSet(timers')
  BY <1>1, <1>2, Before, TypesPrimed
<1>4. TimersInv'
  <2>1. Cardinality(timers') + (IF Showing' THEN 1 ELSE 0) <= MaxTimers + 1
    BY <1>1, <1>2, Before, Numbers DEF PlayerInv, TimersInv
  <2> QED BY <1>1, <1>2, <1>3, <2>1 DEF PlayerInv, TimersInv
<1>5. ChainInv'
  <2>1. ~tangled' => timers' = {} /\ ~Showing'
    BY <1>1, <1>2, Before
  <2>2. ~tangled' => (completed' => shown' = entries')
    BY <1>1, Before DEF PlayerInv, ChainInv
  <2> QED BY <2>1, <2>2 DEF ChainInv
<1>6. QuietInv'
  BY <1>1, <1>2 DEF QuietInv, Null
<1> QED BY <1>4, <1>5, <1>6 DEF PlayerInv

LEMMA TickStep ==
  ASSUME PlayerInv, Tick
  PROVE  PlayerInv'
<1>1. PICK t \in timers :
        /\ callback = Idle /\ timers' = timers \ {t}
        /\ IF timerId = Null
             THEN callback' = callback /\ shown' = shown
             ELSE /\ callback' = t.index
                  /\ shown' = IF t.index = shown THEN shown + 1 ELSE shown
        /\ UNCHANGED <<entries, timerId, completed, quiet, tangled>>
  BY DEF Tick
<1>2. t.id \in Ids /\ t.index \in 0..MaxEntries /\ t.index < entries
  BY Before DEF TimersOK
<1>3. /\ TimersOK(timers', entries) /\ Cardinality(timers') \in Nat
      /\ Cardinality(timers') + 1 <= Cardinality(timers)
  <2>1. timers' \in SUBSET timers
    BY <1>1
  <2>2. TimersOK(timers', entries) /\ Cardinality(timers') \in Nat
    BY <2>1, Before, FewerTimers
  <2>3. Cardinality(timers') = Cardinality(timers) - 1
    BY <1>1, Before, FS_RemoveElement DEF TimersOK
  <2> QED BY <2>2, <2>3, Before
<1>4. callback' \in 0..Completing /\ shown' \in 0..MaxEntries /\ (Showing' => callback' < entries)
  <2>1. CASE timerId = Null
    BY <1>1, <2>1, Before, Numbers DEF Showing, Idle
  <2>2. CASE timerId # Null
    BY <1>1, <1>2, <2>2, Before, Numbers
  <2> QED BY <2>1, <2>2
<1>5. PlayerTypeOK' /\ IsFiniteSet(timers')
  BY <1>1, <1>3, <1>4, Before, TypesPrimed
<1>6. TimersInv'
  <2>1. Cardinality(timers') + (IF Showing' THEN 1 ELSE 0) <= MaxTimers + 1
    <3>1. ~Showing /\ Cardinality(timers) <= MaxTimers + 1
      BY <1>1, Before, Numbers DEF PlayerInv, TimersInv, Showing
    <3> QED BY <1>3, <3>1, Before, Numbers
  <2> QED BY <1>1, <1>4, <1>5, <2>1 DEF TimersInv
<1>7. ChainInv'
  <2> SUFFICES ASSUME ~tangled PROVE ChainInv'
    BY <1>1 DEF ChainInv
  <2>1. /\ timers = {t} /\ t.id = timerId /\ t.index = shown
        /\ completed => shown = entries
    BY DEF PlayerInv, ChainInv
  <2>2. timers' = {} /\ timerId # Null /\ ~completed
    BY <1>1, <1>2, <2>1, Numbers, Before
  <2>3. callback' + 1 = shown'
    BY <1>1, <2>1, <2>2
  <2> QED BY <1>1, <2>2, <2>3 DEF ChainInv
<1>8. QuietInv'
  <2>1. timerId = Null => ~Showing'
    BY <1>1, Numbers DEF Showing, Idle
  <2> QED BY <1>1, <2>1 DEF PlayerInv, QuietInv, Null
<1> QED BY <1>6, <1>7, <1>8 DEF PlayerInv

LEMMA EntryShownStep ==
  ASSUME PlayerInv, EntryShown
  PROVE  PlayerInv'
<1>1. /\ Showing /\ callback < entries /\ callback < Idle
      /\ IF callback + 1 < entries
           THEN /\ SetTimeout(timers, callback + 1) /\ callback' = Idle
                /\ completed' = completed
           ELSE /\ timerId' = Null /\ callback' = Completing /\ completed' = TRUE
                /\ timers' = timers
      /\ UNCHANGED <<entries, shown, quiet, tangled>>
  BY DEF EntryShown, PlayerInv, TimersInv, Showing
<1>2. Cardinality(timers) <= MaxTimers
  BY <1>1, Before, Numbers DEF PlayerInv, TimersInv
<1>3. ~tangled => timers = {} /\ callback + 1 = shown /\ (completed => shown = entries)
  BY <1>1 DEF PlayerInv, ChainInv
<1>4. ~quiet
  BY <1>1 DEF PlayerInv, QuietInv
<1>5. CASE callback + 1 < entries
  <2>1. callback + 1 \in 0..MaxEntries
    BY <1>5, Before, Numbers
  <2>2. /\ timerId' \in Ids
        /\ timers' = timers \cup {[id |-> timerId', index |-> callback + 1]}
        /\ TimersOK(timers', entries)
        /\ Cardinality(timers') \in Nat /\ Cardinality(timers') <= Cardinality(timers) + 1
    BY <1>1, <1>2, <1>5, <2>1, TimerSet, Before
  <2>3. callback' \in 0..Completing /\ ~Showing'
    BY <1>1, <1>5, Numbers DEF Showing, Idle
  <2>4. PlayerTypeOK' /\ IsFiniteSet(timers')
    BY <1>1, <1>5, <2>2, <2>3, Before, TypesPrimed
  <2>5. TimersInv'
    BY <1>2, <2>2, <2>3, <2>4, Before, Numbers DEF TimersInv
  <2>6. ChainInv'
    <3> DEFINE new == [id |-> timerId', index |-> callback + 1]
    <3>1. new.id = timerId' /\ new.index = callback + 1
      OBVIOUS
    <3> HIDE DEF new
    <3>2. ~tangled => timers' = {new} /\ new.index = shown
      BY <1>3, <2>2, <3>1 DEF new
    <3>3. ~tangled => ~completed
      BY <1>3, <1>5, Before
    <3> QED BY <1>1, <1>5, <2>3, <3>1, <3>2, <3>3 DEF ChainInv
  <2>7. QuietInv'
    BY <1>1, <1>4 DEF QuietInv
  <2> QED BY <2>5, <2>6, <2>7 DEF PlayerInv
<1>6. CASE ~(callback + 1 < entries)
  <2>1. /\ timerId' = Null /\ callback' = Completing /\ completed' = TRUE /\ timers' = timers
    BY <1>1, <1>6
  <2>2. callback' \in 0..Completing /\ ~Showing'
    BY <2>1, Numbers DEF Showing, Idle
  <2>3. PlayerTypeOK' /\ IsFiniteSet(timers')
    BY <1>1, <2>1, <2>2, Before, TypesPrimed
  <2>4. TimersInv'
    BY <1>2, <2>1, <2>2, <2>3, Before, Numbers DEF TimersInv
  <2>5. ChainInv'
    <3>1. ~tangled => timers' = {} /\ shown' = entries'
      BY <1>1, <1>3, <1>6, <2>1, Before
    <3> QED BY <1>1, <2>2, <3>1 DEF ChainInv
  <2>6. QuietInv'
    BY <1>1, <1>4 DEF QuietInv
  <2> QED BY <2>4, <2>5, <2>6 DEF PlayerInv
<1> QED BY <1>5, <1>6

LEMMA RestStep ==
  ASSUME PlayerInv, Complete \/ UNCHANGED playerVars
  PROVE  PlayerInv'
<1>1. /\ UNCHANGED <<entries, timerId, timers, shown, completed, quiet, tangled>>
      /\ callback' = callback \/ (callback = Completing /\ callback' = Idle)
  BY DEF Complete, playerVars
<1>2. callback' \in 0..Completing /\ (Showing' <=> Showing) /\ (Showing' => callback' = callback)
  BY <1>1, Before, Numbers DEF Showing, Idle
<1>3. PlayerTypeOK' /\ IsFiniteSet(timers')
  BY <1>1, <1>2, Before, TypesPrimed
<1>4. TimersInv'
  BY <1>1, <1>2, <1>3 DEF PlayerInv, TimersInv
<1>5. ChainInv' /\ QuietInv'
  BY <1>1, <1>2 DEF PlayerInv, ChainInv, QuietInv, Null
<1> QED BY <1>4, <1>5 DEF PlayerInv

LEMMA StepPlayer == PlayerInv /\ [PlayerNext]_playerVars => PlayerInv'
  BY PlayStep, StopStep, TickStep, EntryShownStep, RestStep DEF PlayerNext

THEOREM PlayerInvariant == PlayerSpec => []PlayerInv
<1> QED BY InitPlayer, StepPlayer, PTL DEF PlayerSpec

(* As long as onEntry leaves the player alone, every entry is shown once and in
   order, and onComplete follows the last. *)
THEOREM EntriesAreShownInOrder == PlayerSpec => []ShowsInOrder
<1>1. ASSUME PlayerInv PROVE ShowsInOrder
  <2>1. ~tangled => Cardinality(timers) <= 1
    <3>1. CASE timers = {}
      BY <3>1, FS_EmptySet
    <3>2. CASE timers # {} /\ ~tangled
      <4>1. PICK t \in timers : TRUE
        BY <3>2
      <4>2. timers = {} \cup {t}
        BY <1>1, <3>2 DEF PlayerInv, ChainInv
      <4>3. Cardinality({} \cup {t}) <= 1
        BY FS_EmptySet, FS_AddElement
      <4> QED BY <4>2, <4>3
    <3> QED BY <3>1, <3>2
  <2> QED BY <1>1, <2>1 DEF PlayerInv, TimersInv, ChainInv, ShowsInOrder
<1> QED BY <1>1, PlayerInvariant, PTL

(* Between a stop() called from outside onEntry and the next play() or stop() no
   callback is entered, whatever timers are pending.  Of a stop() called by onEntry
   this cannot be said: the tick that called onEntry goes on and sets a timer. *)
THEOREM OutsideStopIsImmediate ==
  PlayerSpec => [][quiet /\ quiet' => callback' \in {callback, Idle}]_playerVars
<1>1. ASSUME PlayerInv, PlayerNext, quiet, quiet'
      PROVE  callback' \in {callback, Idle}
  BY <1>1 DEF PlayerNext, Play, Stop, Tick, EntryShown, Complete, PlayerInv, QuietInv
<1> QED BY <1>1, PlayerInvariant, PTL DEF PlayerSpec

-----------------------------------------------------------------------------
(* Grid, for grids of any size. *)

(* What a loop has kept after n rounds. *)
Rounds(s, S, f) ==
  [n \in 0..Len(s) |->
     IF n = 0 THEN <<>>
     ELSE IF s[n] \in S THEN Append(f[n - 1], s[n]) ELSE f[n - 1]]

(* The recursion has a solution: n rounds can be made, whatever n is. *)
LEMMA RoundsExist ==
  ASSUME NEW s, Len(s) \in Nat, NEW S
  PROVE  \E f : f = Rounds(s, S, f)
<1> DEFINE Next1(g, n) == IF s[n] \in S THEN Append(g, s[n]) ELSE g
           R(f, m) == DOMAIN f = 0..m /\ f[0] = <<>> /\ \A n \in 1..m : f[n] = Next1(f[n - 1], n)
           Bad == {m \in Nat : \A f : ~R(f, m)}
<1>1. ~(\E m \in Bad : TRUE)
  <2> SUFFICES ASSUME Bad # {} PROVE FALSE
    OBVIOUS
  <2>1. PICK m \in Bad : \A k \in Bad : m <= k
    BY LeastNumber
  <2>2. m \in Nat /\ \A f : ~R(f, m)
    OBVIOUS
  <2>3. m # 0
    <3> DEFINE z == [n \in 0..0 |-> <<>>]
    <3>1. R(z, 0)
      <4>1. DOMAIN z = 0..0 /\ z[0] = <<>> /\ 1..0 = {}
        OBVIOUS
      <4> QED BY <4>1
    <3> HIDE DEF R
    <3> QED BY <2>2, <3>1
  <2>4. m - 1 \in Nat /\ m - 1 \notin Bad
    BY <2>1, <2>2, <2>3
  <2>5. PICK f : R(f, m - 1)
    <3> HIDE DEF R
    <3> QED BY <2>4
  <2> DEFINE g == [n \in 0..m |-> IF n = m THEN Next1(f[m - 1], m) ELSE f[n]]
  <2>6. DOMAIN g = 0..m /\ g[0] = <<>>
    BY <2>2, <2>3, <2>5
  <2>7. ASSUME NEW n \in 1..m
        PROVE  g[n] = Next1(g[n - 1], n)
    <3> HIDE DEF Next1
    <3>1. n - 1 \in 0..m /\ n - 1 # m /\ g[n - 1] = f[n - 1]
      BY <2>2
    <3>2. CASE n = m
      BY <3>1, <3>2
    <3>3. CASE n # m
      <4>1. n \in 1..m - 1 /\ n \in 0..m
        BY <2>2, <3>3
      <4>2. g[n] = f[n] /\ f[n] = Next1(f[n - 1], n)
        BY <2>5, <3>3, <4>1
      <4> QED BY <3>1, <4>2
    <3> QED BY <3>2, <3>3
  <2>8. R(g, m)
    <3> HIDE DEF g, Next1
    <3> QED BY <2>6, <2>7
  <2> HIDE DEF R
  <2> QED BY <2>2, <2>8
<1>2. PICK f : R(f, Len(s))
  <2> HIDE DEF R
  <2> QED BY <1>1
<1> DEFINE h == [n \in 0..Len(s) |-> f[n]]
<1>3. h = Rounds(s, S, h)
  <2>1. /\ f[0] = <<>> /\ 0 \in 0..Len(s)
        /\ \A n \in 1..Len(s) : f[n] = IF s[n] \in S THEN Append(f[n - 1], s[n]) ELSE f[n - 1]
    BY <1>2
  <2>2. ASSUME NEW n \in 0..Len(s)
        PROVE  h[n] = IF n = 0 THEN <<>>
                      ELSE IF s[n] \in S THEN Append(h[n - 1], s[n]) ELSE h[n - 1]
    <3>1. CASE n = 0
      BY <2>1, <3>1
    <3>2. CASE n # 0
      <4>1. n \in 1..Len(s) /\ n - 1 \in 0..Len(s)
        BY <3>2
      <4>2. h[n] = f[n] /\ h[n - 1] = f[n - 1]
        BY <4>1
      <4> HIDE DEF h
      <4> QED BY <2>1, <3>2, <4>1, <4>2
    <3> QED BY <3>1, <3>2
  <2>3. h = [n \in 0..Len(s) |-> h[n]]
    OBVIOUS
  <2> HIDE DEF h
  <2> QED BY <2>2, <2>3 DEF Rounds
<1> QED BY <1>3

LEMMA KeptRounds ==
  ASSUME NEW s, Len(s) \in Nat, NEW S
  PROVE  \E f : /\ Kept(s, S) = f[Len(s)]
                /\ f[0] = <<>>
                /\ \A n \in 1..Len(s) :
                     f[n] = IF s[n] \in S THEN Append(f[n - 1], s[n]) ELSE f[n - 1]
<1> DEFINE k == CHOOSE f : f = Rounds(s, S, f)
<1>1. k = Rounds(s, S, k)
  BY RoundsExist
<1>2. Kept(s, S) = k[Len(s)]
  BY DEF Kept, Rounds
<1> HIDE DEF k
<1>3. ASSUME NEW n \in 0..Len(s)
      PROVE  k[n] = IF n = 0 THEN <<>>
                    ELSE IF s[n] \in S THEN Append(k[n - 1], s[n]) ELSE k[n - 1]
  BY <1>1 DEF Rounds
<1>4. 0 \in 0..Len(s) /\ \A n \in 1..Len(s) : n \in 0..Len(s) /\ n # 0
  OBVIOUS
<1> QED BY <1>2, <1>3, <1>4

(* w lists what s lists of S; and lists it in the order s does. *)
KeepsAll(w, s, S) ==
  \A i \in 1..Len(s) : s[i] \in S => \E a \in 1..Len(w) : w[a] = s[i]

KeepsOrder(w, s) ==
  /\ \A a \in 1..Len(w) : \E i \in 1..Len(s) : w[a] = s[i]
  /\ \A a, b \in 1..Len(w) : a < b =>
       \E i, j \in 1..Len(s) : i < j /\ w[a] = s[i] /\ w[b] = s[j]

(* The loop keeps what is in S, and keeps it in order. *)
LEMMA KeptFacts ==
  ASSUME NEW T, NEW s \in Seq(T), NEW S
  PROVE  Kept(s, S) \in Seq(S) /\ KeepsAll(Kept(s, S), s, S) /\ KeepsOrder(Kept(s, S), s)
<1>1. Len(s) \in Nat
  OBVIOUS
<1>2. PICK f : /\ Kept(s, S) = f[Len(s)]
               /\ f[0] = <<>>
               /\ \A n \in 1..Len(s) :
                    f[n] = IF s[n] \in S THEN Append(f[n - 1], s[n]) ELSE f[n - 1]
  BY <1>1, KeptRounds
<1> DEFINE Good(n) ==
      /\ f[n] \in Seq(S)
      /\ \A i \in 1..n : s[i] \in S => \E a \in 1..Len(f[n]) : f[n][a] = s[i]
      /\ \A a \in 1..Len(f[n]) : \E i \in 1..n : f[n][a] = s[i]
      /\ \A a, b \in 1..Len(f[n]) : a < b =>
           \E i, j \in 1..n : i < j /\ f[n][a] = s[i] /\ f[n][b] = s[j]
           Bad == {n \in 0..Len(s) : ~Good(n)}
<1>3. Good(0)
  <2>1. f[0] \in Seq(S) /\ 1..Len(f[0]) = {} /\ 1..0 = {}
    BY <1>2, EmptySeq
  <2> QED BY <2>1
<1>4. ASSUME NEW n \in 1..Len(s), Good(n - 1)
      PROVE  Good(n)
  <2>1. CASE s[n] \notin S
    <3> DEFINE v == f[n]
    <3>1. v = f[n - 1] /\ 1..n - 1 \subseteq 1..n
      BY <1>2, <2>1
    <3>2. \A i \in 1..n : s[i] \in S => i \in 1..n - 1
      BY <2>1
    <3> HIDE DEF v
    <3>3. /\ v \in Seq(S)
          /\ \A i \in 1..n - 1 : s[i] \in S => \E a \in 1..Len(v) : v[a] = s[i]
          /\ \A a \in 1..Len(v) : \E i \in 1..n - 1 : v[a] = s[i]
          /\ \A a, b \in 1..Len(v) : a < b =>
               \E i, j \in 1..n - 1 : i < j /\ v[a] = s[i] /\ v[b] = s[j]
      BY <1>4, <3>1
    <3>4. ASSUME NEW i \in 1..n, s[i] \in S
          PROVE  \E a \in 1..Len(v) : v[a] = s[i]
      BY <3>2, <3>3, <3>4
    <3>5. ASSUME NEW a \in 1..Len(v)
          PROVE  \E i \in 1..n : v[a] = s[i]
      BY <3>1, <3>3
    <3>6. ASSUME NEW a \in 1..Len(v), NEW b \in 1..Len(v), a < b
          PROVE  \E i, j \in 1..n : i < j /\ v[a] = s[i] /\ v[b] = s[j]
      <4>1. PICK i \in 1..n - 1, j \in 1..n - 1 : i < j /\ v[a] = s[i] /\ v[b] = s[j]
        BY <3>3, <3>6
      <4> QED BY <3>1, <4>1
    <3>7. /\ v \in Seq(S)
          /\ \A i \in 1..n : s[i] \in S => \E a \in 1..Len(v) : v[a] = s[i]
          /\ \A a \in 1..Len(v) : \E i \in 1..n : v[a] = s[i]
          /\ \A a, b \in 1..Len(v) : a < b =>
               \E i, j \in 1..n : i < j /\ v[a] = s[i] /\ v[b] = s[j]
      BY <3>3, <3>4, <3>5, <3>6
    <3> QED BY <3>7 DEF v
  <2>2. CASE s[n] \in S
    <3> DEFINE g == f[n - 1]
               v == f[n]
    <3>1. v = Append(g, s[n]) /\ g \in Seq(S)
      BY <1>2, <1>4, <2>2
    <3>2. /\ v \in Seq(S) /\ Len(v) = Len(g) + 1 /\ Len(g) \in Nat
          /\ \A a \in 1..Len(g) : v[a] = g[a]
          /\ v[Len(g) + 1] = s[n]
      BY <2>2, <3>1, AppendProperties
    <3>3. /\ \A i \in 1..n - 1 : s[i] \in S => \E a \in 1..Len(g) : g[a] = s[i]
          /\ \A a \in 1..Len(g) : \E i \in 1..n - 1 : g[a] = s[i]
          /\ \A a, b \in 1..Len(g) : a < b =>
               \E i, j \in 1..n - 1 : i < j /\ g[a] = s[i] /\ g[b] = s[j]
      BY <1>4
    <3> HIDE DEF g, v
    <3>4. /\ 1..n - 1 \subseteq 1..n /\ n \in 1..n /\ \A i \in 1..n - 1 : i < n
          /\ \A i \in 1..n : i = n \/ i \in 1..n - 1
          /\ 1..Len(g) \subseteq 1..Len(v) /\ Len(g) + 1 \in 1..Len(v)
          /\ \A a \in 1..Len(v) : a = Len(g) + 1 \/ a \in 1..Len(g)
          /\ \A a, b \in 1..Len(v) : a < b => a \in 1..Len(g)
      BY <3>2
    <3>5. ASSUME NEW i \in 1..n, s[i] \in S
          PROVE  \E a \in 1..Len(v) : v[a] = s[i]
      <4>1. CASE i = n
        BY <3>2, <3>4, <4>1
      <4>2. CASE i \in 1..n - 1
        <5>1. PICK a \in 1..Len(g) : g[a] = s[i]
          BY <3>3, <3>5, <4>2
        <5> QED BY <3>2, <3>4, <5>1
      <4> QED BY <3>4, <4>1, <4>2
    <3>6. ASSUME NEW a \in 1..Len(v)
          PROVE  \E i \in 1..n : v[a] = s[i]
      <4>1. CASE a = Len(g) + 1
        BY <3>2, <3>4, <4>1
      <4>2. CASE a \in 1..Len(g)
        <5>1. PICK i \in 1..n - 1 : g[a] = s[i]
          BY <3>3, <4>2
        <5> QED BY <3>2, <3>4, <4>2, <5>1
      <4> QED BY <3>4, <4>1, <4>2
    <3>7. ASSUME NEW a \in 1..Len(v), NEW b \in 1..Len(v), a < b
          PROVE  \E i, j \in 1..n : i < j /\ v[a] = s[i] /\ v[b] = s[j]
      <4>1. a \in 1..Len(g)
        BY <3>4, <3>7
      <4>2. CASE b \in 1..Len(g)
        <5>1. PICK i \in 1..n - 1, j \in 1..n - 1 : i < j /\ g[a] = s[i] /\ g[b] = s[j]
          BY <3>3, <3>7, <4>1, <4>2
        <5>2. i \in 1..n /\ j \in 1..n /\ v[a] = s[i] /\ v[b] = s[j]
          BY <3>2, <3>4, <4>1, <4>2, <5>1
        <5> QED BY <5>1, <5>2
      <4>3. CASE b = Len(g) + 1
        <5>1. PICK i \in 1..n - 1 : g[a] = s[i]
          BY <3>3, <4>1
        <5>2. i \in 1..n /\ n \in 1..n /\ i < n /\ v[a] = s[i] /\ v[b] = s[n]
          BY <3>2, <3>4, <4>1, <4>3, <5>1
        <5> QED BY <5>2
      <4> QED BY <3>4, <4>2, <4>3
    <3>8. /\ v \in Seq(S)
          /\ \A i \in 1..n : s[i] \in S => \E a \in 1..Len(v) : v[a] = s[i]
          /\ \A a \in 1..Len(v) : \E i \in 1..n : v[a] = s[i]
          /\ \A a, b \in 1..Len(v) : a < b =>
               \E i, j \in 1..n : i < j /\ v[a] = s[i] /\ v[b] = s[j]
      BY <3>2, <3>5, <3>6, <3>7
    <3> QED BY <3>8 DEF v
  <2> QED BY <2>1, <2>2
<1>5. Bad = {}
  <2> SUFFICES ASSUME Bad # {} PROVE FALSE
    OBVIOUS
  <2>1. PICK n \in Bad : \A k \in Bad : n <= k
    <3>1. Bad \subseteq Nat
      OBVIOUS
    <3> HIDE DEF Bad
    <3> QED BY <3>1, LeastNumber
  <2> HIDE DEF Good
  <2>2. n \in 0..Len(s) /\ ~Good(n)
    OBVIOUS
  <2>3. n # 0
    BY <1>3, <2>2
  <2>4. n \in 1..Len(s) /\ n - 1 \in 0..Len(s) /\ n - 1 < n /\ n \in Int
    BY <1>1, <2>2, <2>3
  <2>5. n - 1 \notin Bad
    <3> HIDE DEF Bad
    <3>1. n - 1 \in Bad => n <= n - 1
      BY <2>1
    <3> QED BY <2>4, <3>1
  <2>6. Good(n - 1)
    BY <2>4, <2>5
  <2> QED BY <1>4, <2>2, <2>4, <2>6
<1>6. Good(Len(s))
  <2> HIDE DEF Good
  <2>1. Len(s) \in 0..Len(s)
    BY <1>1
  <2> QED BY <1>5, <2>1
<1> HIDE DEF Bad
<1>7. f[Len(s)] \in Seq(S) /\ KeepsAll(f[Len(s)], s, S) /\ KeepsOrder(f[Len(s)], s)
  BY <1>6 DEF KeepsAll, KeepsOrder
<1> QED BY <1>2, <1>7

(* Arithmetic of rows. *)
LEMMA DivMod ==
  ASSUME NEW n \in Nat, NEW w \in Nat \ {0}
  PROVE  /\ n % w \in 0..w - 1 /\ n \div w \in Nat
         /\ n = (n \div w) * w + (n % w)
  BY Z3

LEMMA RowsAreApart ==
  ASSUME NEW w \in Nat, NEW x \in 0..w - 1, NEW u \in Int,
         NEW y \in Int, NEW v \in Int, y < v, u >= 0
  PROVE  y * w + x < v * w + u
<1>1. PICK k \in Nat : v = y + 1 + k
  <2>1. v - y - 1 \in Nat /\ v = y + 1 + (v - y - 1)
    OBVIOUS
  <2> QED BY <2>1
<1>2. v * w = y * w + w + k * w
  BY <1>1, Z3
<1>3. k * w \in Nat /\ y * w \in Int
  BY Z3
<1> QED BY <1>2, <1>3

(* Positions and rounds of the two loops correspond. *)
Cell(k) == <<(k - 1) % width, (k - 1) \div width>>

LEMMA IndexFacts ==
  ASSUME width \in Nat, height \in Nat, NEW pos \in Vec2
  PROVE  /\ width # 0 /\ Index(pos) \in 0..(width * height) - 1
         /\ Index(pos) + 1 \in 1..width * height /\ Cell(Index(pos) + 1) = pos
<1>1. PICK x \in 0..width - 1, y \in 0..height - 1 : pos = <<x, y>>
  BY DEF Vec2
<1> DEFINE n == y * width + x
<1>2. width \in Nat \ {0} /\ x \in Nat /\ y \in Nat /\ x < width
  OBVIOUS
<1>3. y * width \in Nat /\ n \in Nat
  BY <1>2, Z3
<1>4. n < width * height
  <2>1. y * width + x < height * width + 0
    BY <1>2, RowsAreApart
  <2>2. height * width = width * height /\ width * height \in Nat
    BY Z3
  <2> QED BY <2>1, <2>2
<1>5. n % width = x /\ n \div width = y
  <2> DEFINE q == n \div width
             r == n % width
  <2>1. r \in 0..width - 1 /\ q \in Nat /\ n = q * width + r
    BY <1>2, <1>3, DivMod
  <2> HIDE DEF q, r
  <2>2. ~(q < y) /\ ~(y < q)
    <3>1. q < y => q * width + r < y * width + x
      BY <1>2, <2>1, RowsAreApart
    <3>2. y < q => y * width + x < q * width + r
      BY <1>2, <2>1, RowsAreApart
    <3>3. q * width + r = y * width + x /\ q * width + r \in Int
      BY <1>3, <2>1
    <3> HIDE DEF n
    <3> QED BY <3>1, <3>2, <3>3
  <2>3. q = y
    BY <1>2, <2>1, <2>2
  <2>4. r = x
    BY <1>2, <1>3, <2>1, <2>3
  <2> QED BY <2>3, <2>4 DEF q, r
<1>6. Index(pos) = n
  BY <1>1 DEF Index
<1> HIDE DEF n
<1>7. n + 1 - 1 = n /\ width * height \in Nat
  BY <1>3, Z3
<1>8. Cell(n + 1) = <<x, y>>
  BY <1>3, <1>5, <1>7 DEF Cell
<1>9. n \in 0..(width * height) - 1 /\ n + 1 \in 1..width * height
  BY <1>3, <1>4, <1>7
<1> QED BY <1>1, <1>2, <1>6, <1>8, <1>9

LEMMA IndexIsInjective ==
  ASSUME width \in Nat, height \in Nat, NEW p \in Vec2, NEW q \in Vec2, Index(p) = Index(q)
  PROVE  p = q
<1>1. Cell(Index(p) + 1) = p /\ Cell(Index(q) + 1) = q
  BY IndexFacts
<1> QED BY <1>1

(* In bounds is in Vec2. *)
LEMMA InBoundsFacts ==
  ASSUME width \in Nat, height \in Nat, NEW x \in Int, NEW y \in Int
  PROVE  InBounds(<<x, y>>) <=> <<x, y>> \in Vec2
  BY DEF InBounds, Vec2

(* The rounds go through the rows in order. *)
LEMMA RowMajor ==
  ASSUME width \in Nat, height \in Nat,
         NEW i \in 1..width * height, NEW j \in 1..width * height, i < j
  PROVE  \/ Cell(i)[2] < Cell(j)[2]
         \/ Cell(i)[2] = Cell(j)[2] /\ Cell(i)[1] < Cell(j)[1]
<1>1. width * height \in Nat /\ (width = 0 => width * height = 0)
  BY Z3
<1>2. width \in Nat \ {0} /\ i - 1 \in Nat /\ j - 1 \in Nat /\ i - 1 < j - 1
  BY <1>1
<1> DEFINE qi == (i - 1) \div width
           ri == (i - 1) % width
           qj == (j - 1) \div width
           rj == (j - 1) % width
<1>3. /\ ri \in 0..width - 1 /\ qi \in Nat /\ i - 1 = qi * width + ri
      /\ rj \in 0..width - 1 /\ qj \in Nat /\ j - 1 = qj * width + rj
  BY <1>2, DivMod
<1>4. Cell(i) = <<ri, qi>> /\ Cell(j) = <<rj, qj>>
  BY DEF Cell
<1> HIDE DEF qi, ri, qj, rj
<1>5. ~(qj < qi)
  <2>1. qj < qi => qj * width + rj < qi * width + ri
    BY <1>2, <1>3, RowsAreApart
  <2> QED BY <1>2, <1>3, <2>1
<1>6. qi = qj => ri < rj
  <2>1. qi * width \in Int
    BY <1>2, <1>3, Z3
  <2> QED BY <1>2, <1>3, <2>1
<1> QED BY <1>3, <1>4, <1>5, <1>6

-----------------------------------------------------------------------------
(* The map: each cell is where its position is looked up, and at no other's. *)
GridInv ==
  /\ GridTypeOK
  /\ \A pos \in Vec2 : cells[Index(pos)] = placed[pos]

LEMMA Sizes ==
  ASSUME GridTypeOK
  PROVE  width \in Nat /\ height \in Nat /\ depth \in Nat
  BY GridAssumption DEF GridTypeOK

(* What is looked up. *)
LEMMA LookUp ==
  ASSUME GridInv, NEW pos \in Int \X Int
  PROVE  /\ InBounds(pos) <=> pos \in Vec2
         /\ pos \in Vec2 => OccupiedBy(pos) = placed[pos]
  <1>1. PICK x \in Int, y \in Int : pos = <<x, y>>
    OBVIOUS
  <1>2. InBounds(pos) <=> pos \in Vec2
    BY <1>1, Sizes, InBoundsFacts DEF GridInv
  <1> QED BY <1>2 DEF OccupiedBy, GridInv

LEMMA InitGrid == GridInit => GridInv
<1> SUFFICES ASSUME GridInit PROVE GridInv
  OBVIOUS
<1>1. GridTypeOK
  BY DEF GridInit, GridTypeOK
<1>2. \A pos \in Vec2 : Index(pos) \in 0..(width * height) - 1
  BY <1>1, Sizes, IndexFacts
<1>3. \A pos \in Vec2 : cells[Index(pos)] = placed[pos]
  BY <1>2 DEF GridInit
<1> QED BY <1>1, <1>3 DEF GridInv

(* A cell and what should be there change together. *)
LEMMA CellSet ==
  ASSUME GridInv, NEW pos \in Vec2, NEW e \in Entities \cup {Free},
         cells' = [cells EXCEPT ![Index(pos)] = e], placed' = [placed EXCEPT ![pos] = e],
         UNCHANGED <<width, height, depth>>
  PROVE  GridInv'
<1>1. GridTypeOK /\ width \in Nat /\ height \in Nat
  BY Sizes DEF GridInv
<1>2. \A q \in Vec2 : Index(q) \in 0..(width * height) - 1
  BY <1>1, IndexFacts
<1>3. Vec2' = Vec2 /\ \A q : (q \in Vec2 => Index(q)' = Index(q))
  BY DEF Vec2, Index
<1>4. GridTypeOK'
  BY <1>1, <1>2, <1>3 DEF GridTypeOK
<1>5. ASSUME NEW q \in Vec2
      PROVE  cells'[Index(q)] = placed'[q]
  <2>1. /\ cells \in [0..(width * height) - 1 -> Entities \cup {Free}]
        /\ placed \in [Vec2 -> Entities \cup {Free}]
        /\ Index(q) \in 0..(width * height) - 1 /\ Index(pos) \in 0..(width * height) - 1
    BY <1>1, <1>2 DEF GridTypeOK
  <2>2. CASE q = pos
    BY <2>1, <2>2
  <2>3. CASE q # pos
    <3>1. Index(q) # Index(pos)
      BY <1>1, <2>3, IndexIsInjective
    <3> QED BY <2>1, <2>3, <3>1 DEF GridInv
  <2> QED BY <2>2, <2>3
<1> QED BY <1>3, <1>4, <1>5 DEF GridInv, Index

LEMMA StepGrid == GridInv /\ [GridNext]_gridVars => GridInv'
<1> SUFFICES ASSUME GridInv, [GridNext]_gridVars PROVE GridInv'
  OBVIOUS
<1>0. placed \in [Vec2 -> Entities \cup {Free}]
  BY DEF GridInv, GridTypeOK
<1>1. CASE UNCHANGED <<cells, placed, width, height, depth>>
  BY <1>1 DEF GridInv, GridTypeOK, Vec2, Index
<1>2. ASSUME NEW pos \in Asked, NEW e \in Entities, Occupy(pos, e)
      PROVE  GridInv'
  <2>1. pos \in Int \X Int
    BY Sizes DEF Asked, GridInv
  <2>2. CASE pos \in Vec2 /\ placed[pos] = Free
    <3>1. InBounds(pos) /\ ~IsOccupied(pos)
      BY <2>1, <2>2, LookUp DEF IsOccupied
    <3> QED BY <1>2, <2>2, <3>1, CellSet DEF Occupy, Set
  <2>3. CASE ~(pos \in Vec2 /\ placed[pos] = Free)
    <3>1. ~(InBounds(pos) /\ ~IsOccupied(pos)) /\ ~(InBounds(pos) /\ placed[pos] = Free)
      BY <2>1, <2>3, LookUp DEF IsOccupied
    <3> QED BY <1>1, <1>2, <3>1 DEF Occupy
  <2> QED BY <2>2, <2>3
<1>3. ASSUME NEW pos \in Asked, Vacate(pos)
      PROVE  GridInv'
  <2>1. pos \in Int \X Int
    BY Sizes DEF Asked, GridInv
  <2>2. CASE pos \in Vec2 /\ placed[pos] # Free
    <3>1. InBounds(pos) /\ IsOccupied(pos)
      BY <2>1, <2>2, LookUp DEF IsOccupied
    <3> QED BY <1>3, <2>2, <3>1, CellSet DEF Vacate, Set
  <2>3. CASE pos \in Vec2 /\ placed[pos] = Free
    <3>1. InBounds(pos) /\ ~IsOccupied(pos)
      BY <2>1, <2>3, LookUp DEF IsOccupied
    <3>2. [placed EXCEPT ![pos] = Free] = placed
      BY <1>0, <2>3
    <3> QED BY <1>1, <1>3, <3>1, <3>2 DEF Vacate
  <2>4. CASE pos \notin Vec2
    <3>1. ~InBounds(pos)
      BY <2>1, <2>4, LookUp
    <3> QED BY <1>1, <1>3, <3>1 DEF Vacate
  <2> QED BY <2>2, <2>3, <2>4
<1> QED BY <1>1, <1>2, <1>3 DEF GridNext, gridVars

THEOREM GridInvariant == GridSpec => []GridInv
<1> QED BY InitGrid, StepGrid, PTL DEF GridSpec

(* AllOccupied lists what is placed, once and in row-major order. *)
LEMMA ListedInOrder ==
  ASSUME GridInv
  PROVE  /\ ToSet(AllOccupied) = {pos \in Vec2 : placed[pos] # Free}
         /\ \A i, j \in DOMAIN AllOccupied : i < j =>
              \/ AllOccupied[i][2] < AllOccupied[j][2]
              \/ AllOccupied[i][2] = AllOccupied[j][2] /\ AllOccupied[i][1] < AllOccupied[j][1]
<1>1. width \in Nat /\ height \in Nat /\ width * height \in Nat
  <2>1. width \in Nat /\ height \in Nat
    BY Sizes DEF GridInv
  <2> QED BY <2>1, Z3
<1> DEFINE s == [k \in 1..(width * height) |-> Cell(k)]
           S == {pos \in Vec2 : IsOccupied(pos)}
           T == {Cell(k) : k \in 1..(width * height)}
<1>2. AllOccupied = Kept(s, S)
  BY DEF AllOccupied, Cell
<1>3. S = {pos \in Vec2 : placed[pos] # Free}
  <2>1. \A pos \in Vec2 : pos \in Int \X Int
    BY <1>1 DEF Vec2
  <2> QED BY <2>1, LookUp DEF IsOccupied
<1>4. s \in Seq(T) /\ Len(s) = width * height /\ \A k \in 1..Len(s) : s[k] = Cell(k)
  BY <1>1
<1> DEFINE w == Kept(s, S)
<1> HIDE DEF s, S, T, w
<1>5. w \in Seq(S) /\ KeepsAll(w, s, S) /\ KeepsOrder(w, s)
  BY <1>4, KeptFacts DEF w
<1>6. DOMAIN w = 1..Len(w) /\ \A a \in 1..Len(w) : w[a] \in S
  BY <1>5, LenProperties, ElementOfSeq
<1>7. ASSUME NEW pos \in S
      PROVE  \E a \in DOMAIN w : w[a] = pos
  <2>1. pos \in Vec2
    BY DEF S
  <2>2. Index(pos) + 1 \in 1..Len(s) /\ s[Index(pos) + 1] = pos
    BY <1>1, <1>4, <2>1, IndexFacts
  <2> QED BY <1>5, <1>6, <2>2 DEF KeepsAll
<1>8. ToSet(w) = S
  BY <1>6, <1>7 DEF ToSet
<1>9. ASSUME NEW a \in DOMAIN w, NEW b \in DOMAIN w, a < b
      PROVE  w[a][2] < w[b][2] \/ (w[a][2] = w[b][2] /\ w[a][1] < w[b][1])
  <2>1. PICK i \in 1..Len(s), j \in 1..Len(s) : i < j /\ w[a] = s[i] /\ w[b] = s[j]
    <3>1. a \in 1..Len(w) /\ b \in 1..Len(w)
      BY <1>6
    <3> QED BY <1>5, <1>9, <3>1 DEF KeepsOrder
  <2>2. /\ i \in 1..width * height /\ j \in 1..width * height
        /\ w[a] = Cell(i) /\ w[b] = Cell(j)
    BY <1>4, <2>1
  <2> QED BY <1>1, <2>1, <2>2, RowMajor
<1> QED BY <1>2, <1>3, <1>8, <1>9 DEF w

(* The occupancy map is the map from positions to entities that its calls describe,
   whatever the size of the grid. *)
THEOREM OccupancyIsFaithful == GridSpec => []MapIsFaithful
<1>1. ASSUME GridInv PROVE MapIsFaithful
  <2>1. \A pos \in Vec2 : pos \in Int \X Int
    BY <1>1, Sizes DEF Vec2, GridInv
  <2>2. \A pos \in Vec2 : OccupiedBy(pos) = placed[pos]
    BY <1>1, <2>1, LookUp
  <2> QED BY <1>1, <2>2, ListedInOrder DEF MapIsFaithful, GridInv
<1> QED BY <1>1, GridInvariant, PTL

-----------------------------------------------------------------------------
(* Distances and moves. *)

NoRepeats(s) == \A i, j \in 1..Len(s) : i < j => s[i] # s[j]

(* What a filtered list without repetitions lists, and how long it is. *)
LEMMA KeptCounts ==
  ASSUME NEW T, NEW s \in Seq(T), NEW S, NoRepeats(s)
  PROVE  /\ ToSet(Kept(s, S)) = S \cap ToSet(s)
         /\ Len(Kept(s, S)) = Cardinality(S \cap ToSet(s))
         /\ Kept(s, S) \in Seq(S) /\ NoRepeats(Kept(s, S))
<1> DEFINE w == Kept(s, S)
<1>1. w \in Seq(S) /\ KeepsAll(w, s, S) /\ KeepsOrder(w, s)
  BY KeptFacts
<1> HIDE DEF w
<1>2. /\ Len(w) \in Nat /\ DOMAIN w = 1..Len(w)
      /\ \A a \in 1..Len(w) : w[a] \in S
  BY <1>1, LenProperties, ElementOfSeq
<1>3. ASSUME NEW x \in ToSet(w)
      PROVE  x \in S /\ \E i \in 1..Len(s) : s[i] = x
  <2>1. PICK a \in 1..Len(w) : w[a] = x
    BY <1>2 DEF ToSet
  <2>2. PICK i \in 1..Len(s) : w[a] = s[i]
    BY <1>1 DEF KeepsOrder
  <2> QED BY <1>2, <2>1, <2>2
<1>4. ASSUME NEW x \in S, NEW i \in 1..Len(s), s[i] = x
      PROVE  x \in ToSet(w)
  <2>1. PICK a \in 1..Len(w) : w[a] = x
    BY <1>1, <1>4 DEF KeepsAll
  <2> QED BY <1>2, <2>1 DEF ToSet
<1>5. ToSet(w) = S \cap ToSet(s)
  <2>1. DOMAIN s = 1..Len(s)
    OBVIOUS
  <2>2. ToSet(s) = {s[i] : i \in 1..Len(s)}
    BY <2>1 DEF ToSet
  <2> QED BY <1>3, <1>4, <2>2
<1>6. ASSUME NEW a \in 1..Len(w), NEW b \in 1..Len(w), a < b
      PROVE  w[a] # w[b]
  <2>1. PICK i \in 1..Len(s), j \in 1..Len(s) : i < j /\ w[a] = s[i] /\ w[b] = s[j]
    BY <1>1, <1>6 DEF KeepsOrder
  <2> QED BY <2>1 DEF NoRepeats
<1>7. Len(w) = Cardinality(ToSet(w))
  <2> DEFINE f == [a \in 1..Len(w) |-> w[a]]
  <2>1. f \in [1..Len(w) -> ToSet(w)] /\ \A a \in 1..Len(w) : f[a] = w[a]
    BY <1>2 DEF ToSet
  <2>2. ASSUME NEW a \in 1..Len(w), NEW b \in 1..Len(w), f[a] = f[b]
        PROVE  a = b
    <3>1. a < b \/ b < a \/ a = b
      BY <1>2
    <3>2. ~(a < b) /\ ~(b < a)
      <4> HIDE DEF f
      <4> QED BY <1>6, <2>1, <2>2
    <3> QED BY <3>1, <3>2
  <2>3. \A x \in ToSet(w) : \E a \in 1..Len(w) : f[a] = x
    BY <1>2 DEF ToSet
  <2> HIDE DEF f
  <2>4. f \in Bijection(1..Len(w), ToSet(w))
    BY <2>1, <2>2, <2>3 DEF Bijection, Injection, Surjection, IsInjective
  <2>5. ExistsBijection(1..Len(w), ToSet(w))
    BY <2>4 DEF ExistsBijection
  <2> QED BY <1>2, <2>5, FS_CountingElements
<1>8. NoRepeats(w)
  BY <1>6 DEF NoRepeats
<1> QED BY <1>1, <1>5, <1>7, <1>8 DEF w

LEMMA AbsOfDifference ==
  ASSUME NEW m \in Int, NEW n \in Int
  PROVE  Abs(m - n) = IF m >= n THEN m - n ELSE n - m
  BY DEF Abs

LEMMA DistanceFacts ==
  ASSUME NEW x \in Int, NEW y \in Int, NEW u \in Int, NEW v \in Int
  PROVE  /\ ManhattanDistance2D(<<x, y>>, <<u, v>>) = Abs(x - u) + Abs(y - v)
         /\ ChebyshevDistance2D(<<x, y>>, <<u, v>>) =
              IF Abs(x - u) > Abs(y - v) THEN Abs(x - u) ELSE Abs(y - v)
         /\ Abs(x - u) \in Nat /\ Abs(y - v) \in Nat
         /\ Abs(x - u) = IF x >= u THEN x - u ELSE u - x
         /\ Abs(y - v) = IF y >= v THEN y - v ELSE v - y
<1>1. /\ ManhattanDistance2D(<<x, y>>, <<u, v>>) = Abs(x - u) + Abs(y - v)
      /\ ChebyshevDistance2D(<<x, y>>, <<u, v>>) =
           IF Abs(x - u) > Abs(y - v) THEN Abs(x - u) ELSE Abs(y - v)
  BY DEF ManhattanDistance2D, ChebyshevDistance2D
<1>2. /\ Abs(x - u) \in Nat /\ Abs(y - v) \in Nat
      /\ Abs(x - u) = IF x >= u THEN x - u ELSE u - x
      /\ Abs(y - v) = IF y >= v THEN y - v ELSE v - y
  BY DEF Abs
<1> QED BY <1>1, <1>2

(* One move of a rook. *)
LEMMA RookMoves ==
  ASSUME width \in Nat, height \in Nat, NEW pos \in Vec2
  PROVE  /\ ToSet(Neighbors4(pos)) = {q \in Vec2 : ManhattanDistance2D(pos, q) = 1}
         /\ Len(Neighbors4(pos)) = Cardinality({q \in Vec2 : ManhattanDistance2D(pos, q) = 1})
<1> DEFINE dirs == << <<0, -1>>, <<0, 1>>, <<-1, 0>>, <<1, 0>> >>
           s == [k \in 1..4 |-> Moved(pos, dirs[k])]
<1>1. PICK x \in 0..width - 1, y \in 0..height - 1 : pos = <<x, y>>
  BY DEF Vec2
<1>2. /\ s \in Seq(Int \X Int) /\ Len(s) = 4
      /\ s[1] = <<x, y - 1>> /\ s[2] = <<x, y + 1>> /\ s[3] = <<x - 1, y>> /\ s[4] = <<x + 1, y>>
  <2>1. /\ dirs[1] = <<0, -1>> /\ dirs[2] = <<0, 1>> /\ dirs[3] = <<-1, 0>> /\ dirs[4] = <<1, 0>>
    OBVIOUS
  <2> HIDE DEF dirs
  <2>2. /\ s[1] = <<x, y - 1>> /\ s[2] = <<x, y + 1>> /\ s[3] = <<x - 1, y>> /\ s[4] = <<x + 1, y>>
    BY <1>1, <2>1 DEF Moved
  <2>3. \A k \in 1..4 : k = 1 \/ k = 2 \/ k = 3 \/ k = 4
    OBVIOUS
  <2>4. \A k \in 1..4 : Moved(pos, dirs[k]) \in Int \X Int
    BY <1>1, <2>1, <2>3 DEF Moved
  <2> QED BY <2>2, <2>4
<1> HIDE DEF dirs, s
<1>3. NoRepeats(s)
  <2>1. \A i \in 1..Len(s) : i = 1 \/ i = 2 \/ i = 3 \/ i = 4
    BY <1>2
  <2> QED BY <1>2, <2>1 DEF NoRepeats
<1>4. ASSUME NEW q \in Vec2
      PROVE  q \in ToSet(s) <=> ManhattanDistance2D(pos, q) = 1
  <2>1. PICK u \in 0..width - 1, v \in 0..height - 1 : q = <<u, v>>
    BY DEF Vec2
  <2>2. q \in ToSet(s) <=>
          q \in {<<x, y - 1>>, <<x, y + 1>>, <<x - 1, y>>, <<x + 1, y>>}
    <3>1. DOMAIN s = {1, 2, 3, 4}
      BY <1>2
    <3> QED BY <1>2, <3>1 DEF ToSet
  <2>3. ManhattanDistance2D(pos, q) = 1 <=>
          \/ u = x /\ v = y - 1
          \/ u = x /\ v = y + 1
          \/ u = x - 1 /\ v = y
          \/ u = x + 1 /\ v = y
    <3>1. /\ ManhattanDistance2D(pos, q) = Abs(x - u) + Abs(y - v)
          /\ Abs(x - u) = IF x >= u THEN x - u ELSE u - x
          /\ Abs(y - v) = IF y >= v THEN y - v ELSE v - y
      BY <1>1, <2>1, DistanceFacts
    <3> QED BY <3>1
  <2>4. q \in ToSet(s) <=>
          \/ u = x /\ v = y - 1
          \/ u = x /\ v = y + 1
          \/ u = x - 1 /\ v = y
          \/ u = x + 1 /\ v = y
    BY <2>1, <2>2
  <2> QED BY <2>3, <2>4
<1>5. Neighbors4(pos) = Kept(s, Vec2)
  BY DEF Neighbors4, s, dirs
<1>6. /\ ToSet(Kept(s, Vec2)) = Vec2 \cap ToSet(s)
      /\ Len(Kept(s, Vec2)) = Cardinality(Vec2 \cap ToSet(s))
  BY <1>2, <1>3, KeptCounts
<1>7. Vec2 \cap ToSet(s) = {q \in Vec2 : ManhattanDistance2D(pos, q) = 1}
  BY <1>4
<1> QED BY <1>5, <1>6, <1>7

(* The eight directions. *)
LEMMA KingDirections ==
  /\ Directions8 \in Seq(Int \X Int) /\ NoRepeats(Directions8)
  /\ ToSet(Directions8) = ((-1..1) \X (-1..1)) \ {<<0, 0>>}
<1> DEFINE s == [k \in 1..9 |-> <<((k - 1) % 3) - 1, ((k - 1) \div 3) - 1>>]
           S == ((-1..1) \X (-1..1)) \ {<<0, 0>>}
<1>1. /\ Len(s) = 9 /\ DOMAIN s = 1..9
      /\ \A k \in 1..9 : s[k] = <<((k - 1) % 3) - 1, ((k - 1) \div 3) - 1>>
  OBVIOUS
<1>2. s \in Seq(Int \X Int)
  OBVIOUS
<1>3. Directions8 = Kept(s, S)
  BY DEF Directions8
<1> HIDE DEF s
<1>4. NoRepeats(s)
  <2> SUFFICES ASSUME NEW i \in 1..9, NEW j \in 1..9, i < j, s[i] = s[j]
               PROVE  FALSE
    BY <1>1 DEF NoRepeats
  <2>1. (i - 1) % 3 = (j - 1) % 3 /\ (i - 1) \div 3 = (j - 1) \div 3
    BY <1>1
  <2>2. /\ i - 1 = ((i - 1) \div 3) * 3 + ((i - 1) % 3)
        /\ j - 1 = ((j - 1) \div 3) * 3 + ((j - 1) % 3)
    <3>1. i - 1 \in Nat /\ j - 1 \in Nat /\ 3 \in Nat \ {0}
      OBVIOUS
    <3> QED BY <3>1, DivMod
  <2>3. i - 1 = j - 1
    BY <2>1, <2>2
  <2> QED BY <2>3
<1>5. ASSUME NEW d \in S
      PROVE  d \in ToSet(s)
  <2>1. PICK x \in -1..1, y \in -1..1 : d = <<x, y>>
    OBVIOUS
  <2> DEFINE k == (y + 1) * 3 + x + 2
  <2>2. k \in 1..9 /\ (k - 1) % 3 = x + 1 /\ (k - 1) \div 3 = y + 1
    OBVIOUS
  <2> HIDE DEF k
  <2>3. s[k] = d
    <3>1. x + 1 - 1 = x /\ y + 1 - 1 = y
      OBVIOUS
    <3> QED BY <1>1, <2>1, <2>2, <3>1
  <2> QED BY <1>1, <2>2, <2>3 DEF ToSet
<1> HIDE DEF S
<1>6. S \cap ToSet(s) = S
  BY <1>5
<1>7. ToSet(Kept(s, S)) = S /\ Kept(s, S) \in Seq(S) /\ NoRepeats(Kept(s, S))
  BY <1>2, <1>4, <1>6, KeptCounts
<1>8. S \subseteq Int \X Int
  BY DEF S
<1>9. Kept(s, S) \in Seq(Int \X Int)
  BY <1>7, <1>8
<1> QED BY <1>3, <1>7, <1>9 DEF S

(* One move of a king. *)
LEMMA KingMoves ==
  ASSUME width \in Nat, height \in Nat, NEW pos \in Vec2
  PROVE  /\ ToSet(Neighbors8(pos)) = {q \in Vec2 : ChebyshevDistance2D(pos, q) = 1}
         /\ Len(Neighbors8(pos)) = Cardinality({q \in Vec2 : ChebyshevDistance2D(pos, q) = 1})
<1> DEFINE dirs == Directions8
           s == [k \in DOMAIN dirs |-> Moved(pos, dirs[k])]
<1>1. PICK x \in 0..width - 1, y \in 0..height - 1 : pos = <<x, y>>
  BY DEF Vec2
<1>2. /\ dirs \in Seq(Int \X Int) /\ NoRepeats(dirs)
      /\ ToSet(dirs) = ((-1..1) \X (-1..1)) \ {<<0, 0>>}
  BY KingDirections
<1> HIDE DEF dirs
<1>3. /\ Len(dirs) \in Nat /\ DOMAIN dirs = 1..Len(dirs)
      /\ \A k \in 1..Len(dirs) : dirs[k] \in Int \X Int
  BY <1>2, LenProperties, ElementOfSeq
<1>4. \A k \in 1..Len(dirs) :
        Moved(pos, dirs[k]) = <<x + dirs[k][1], y + dirs[k][2]>>
  BY <1>1, <1>3 DEF Moved
<1>5. /\ s \in Seq(Int \X Int) /\ Len(s) = Len(dirs) /\ DOMAIN s = 1..Len(dirs)
      /\ \A k \in 1..Len(dirs) : s[k] = <<x + dirs[k][1], y + dirs[k][2]>>
  <2>1. \A k \in 1..Len(dirs) : Moved(pos, dirs[k]) \in Int \X Int
    BY <1>3, <1>4
  <2>2. s = [k \in 1..Len(dirs) |-> Moved(pos, dirs[k])]
    BY <1>3
  <2> QED BY <1>3, <1>4, <2>1, <2>2
<1> HIDE DEF s
<1>6. NoRepeats(s)
  <2> SUFFICES ASSUME NEW i \in 1..Len(dirs), NEW j \in 1..Len(dirs), i < j, s[i] = s[j]
               PROVE  FALSE
    BY <1>5 DEF NoRepeats
  <2> DEFINE p == dirs[i]
             r == dirs[j]
  <2>0. /\ p \in Int \X Int /\ r \in Int \X Int
        /\ <<x + p[1], y + p[2]>> = <<x + r[1], y + r[2]>>
    BY <1>3, <1>5
  <2> HIDE DEF p, r
  <2>1. PICK a \in Int, b \in Int : p = <<a, b>>
    BY <2>0
  <2>2. PICK c \in Int, d \in Int : r = <<c, d>>
    BY <2>0
  <2>3. x + a = x + c /\ y + b = y + d
    BY <2>0, <2>1, <2>2
  <2>4. a = c /\ b = d
    BY <2>3
  <2>5. p # r
    BY <1>2 DEF NoRepeats, p, r
  <2> QED BY <2>1, <2>2, <2>4, <2>5
<1>7. ASSUME NEW q \in Vec2
      PROVE  q \in ToSet(s) <=> ChebyshevDistance2D(pos, q) = 1
  <2>1. PICK u \in 0..width - 1, v \in 0..height - 1 : q = <<u, v>>
    BY DEF Vec2
  <2>2. q \in ToSet(s) <=> <<u - x, v - y>> \in ToSet(dirs)
    <3>1. ASSUME NEW k \in 1..Len(dirs)
          PROVE  s[k] = q <=> dirs[k] = <<u - x, v - y>>
      <4> DEFINE d == dirs[k]
                 r == s[k]
      <4>1. d \in Int \X Int /\ r = <<x + d[1], y + d[2]>>
        BY <1>3, <1>5
      <4> HIDE DEF d, r
      <4>2. PICK a \in Int, b \in Int : d = <<a, b>>
        BY <4>1
      <4>3. r = <<x + a, y + b>>
        BY <4>1, <4>2
      <4>4. x + a = u /\ y + b = v <=> a = u - x /\ b = v - y
        OBVIOUS
      <4>5. r = q <=> d = <<u - x, v - y>>
        BY <2>1, <4>2, <4>3, <4>4
      <4> QED BY <4>5 DEF d, r
    <3>2. q \in ToSet(s) <=> \E k \in 1..Len(dirs) : s[k] = q
      BY <1>5 DEF ToSet
    <3>3. <<u - x, v - y>> \in ToSet(dirs) <=> \E k \in 1..Len(dirs) : dirs[k] = <<u - x, v - y>>
      BY <1>3 DEF ToSet
    <3> QED BY <3>1, <3>2, <3>3
  <2>3. <<u - x, v - y>> \in ToSet(dirs) <=>
          u - x \in -1..1 /\ v - y \in -1..1 /\ ~(u = x /\ v = y)
    BY <1>2
  <2>4. ChebyshevDistance2D(pos, q) = 1 <=>
          u - x \in -1..1 /\ v - y \in -1..1 /\ ~(u = x /\ v = y)
    <3>1. /\ ChebyshevDistance2D(pos, q) =
               IF Abs(x - u) > Abs(y - v) THEN Abs(x - u) ELSE Abs(y - v)
          /\ Abs(x - u) = IF x >= u THEN x - u ELSE u - x
          /\ Abs(y - v) = IF y >= v THEN y - v ELSE v - y
      BY <1>1, <2>1, DistanceFacts
    <3> QED BY <3>1
  <2> QED BY <2>2, <2>3, <2>4
<1>8. Neighbors8(pos) = Kept(s, Vec2)
  BY DEF Neighbors8, s, dirs
<1>9. /\ ToSet(Kept(s, Vec2)) = Vec2 \cap ToSet(s)
      /\ Len(Kept(s, Vec2)) = Cardinality(Vec2 \cap ToSet(s))
  BY <1>5, <1>6, KeptCounts
<1>10. Vec2 \cap ToSet(s) = {q \in Vec2 : ChebyshevDistance2D(pos, q) = 1}
  BY <1>7
<1> QED BY <1>8, <1>9, <1>10

(* What is at most n moves away: the next cell on the way back is nearer by one. *)
RookBall(pos, n) == {q \in Vec2 : ManhattanDistance2D(pos, q) <= n}
KingBall(pos, n) == {q \in Vec2 : ChebyshevDistance2D(pos, q) <= n}

LEMMA RookIsNearer ==
  ASSUME width \in Nat, height \in Nat, NEW pos \in Vec2, NEW q \in Vec2, q # pos
  PROVE  \E r \in Vec2 : /\ ManhattanDistance2D(r, q) = 1
                         /\ ManhattanDistance2D(pos, r) = ManhattanDistance2D(pos, q) - 1
<1>1. PICK x \in 0..width - 1, y \in 0..height - 1 : pos = <<x, y>>
  BY DEF Vec2
<1>2. PICK u \in 0..width - 1, v \in 0..height - 1 : q = <<u, v>>
  BY DEF Vec2
<1> DEFINE a == IF u > x THEN u - 1 ELSE IF u < x THEN u + 1 ELSE u
           b == IF u # x THEN v ELSE IF v > y THEN v - 1 ELSE v + 1
<1>3. ~(u = x /\ v = y)
  BY <1>1, <1>2
<1>4. a \in 0..width - 1 /\ b \in 0..height - 1
  BY <1>3
<1>5. /\ (IF a >= u THEN a - u ELSE u - a) + (IF b >= v THEN b - v ELSE v - b) = 1
      /\ (IF x >= a THEN x - a ELSE a - x) + (IF y >= b THEN y - b ELSE b - y) =
           (IF x >= u THEN x - u ELSE u - x) + (IF y >= v THEN y - v ELSE v - y) - 1
  BY <1>3
<1> HIDE DEF a, b
<1>6. /\ ManhattanDistance2D(<<a, b>>, q) = 1
      /\ ManhattanDistance2D(pos, <<a, b>>) = ManhattanDistance2D(pos, q) - 1
  <2>1. a \in Int /\ b \in Int /\ x \in Int /\ y \in Int /\ u \in Int /\ v \in Int
    BY <1>4
  <2>2. /\ ManhattanDistance2D(<<a, b>>, q) = Abs(a - u) + Abs(b - v)
        /\ ManhattanDistance2D(pos, <<a, b>>) = Abs(x - a) + Abs(y - b)
        /\ ManhattanDistance2D(pos, q) = Abs(x - u) + Abs(y - v)
    BY <1>1, <1>2, <2>1, DistanceFacts
  <2>3. /\ Abs(a - u) = IF a >= u THEN a - u ELSE u - a
        /\ Abs(b - v) = IF b >= v THEN b - v ELSE v - b
        /\ Abs(x - a) = IF x >= a THEN x - a ELSE a - x
        /\ Abs(y - b) = IF y >= b THEN y - b ELSE b - y
        /\ Abs(x - u) = IF x >= u THEN x - u ELSE u - x
        /\ Abs(y - v) = IF y >= v THEN y - v ELSE v - y
    BY <2>1, AbsOfDifference
  <2> QED BY <1>5, <2>2, <2>3
<1>7. <<a, b>> \in Vec2
  BY <1>4 DEF Vec2
<1> QED BY <1>6, <1>7

LEMMA KingIsNearer ==
  ASSUME width \in Nat, height \in Nat, NEW pos \in Vec2, NEW q \in Vec2, q # pos
  PROVE  \E r \in Vec2 : /\ ChebyshevDistance2D(r, q) = 1
                         /\ ChebyshevDistance2D(pos, r) = ChebyshevDistance2D(pos, q) - 1
<1>1. PICK x \in 0..width - 1, y \in 0..height - 1 : pos = <<x, y>>
  BY DEF Vec2
<1>2. PICK u \in 0..width - 1, v \in 0..height - 1 : q = <<u, v>>
  BY DEF Vec2
<1> DEFINE a == IF u > x THEN u - 1 ELSE IF u < x THEN u + 1 ELSE u
           b == IF v > y THEN v - 1 ELSE IF v < y THEN v + 1 ELSE v
           Far(m, n) == IF m > n THEN m ELSE n
           Gap(m, n) == IF m >= n THEN m - n ELSE n - m
<1>3. ~(u = x /\ v = y)
  BY <1>1, <1>2
<1>4. a \in 0..width - 1 /\ b \in 0..height - 1
  BY <1>3
<1>5. /\ Far(Gap(a, u), Gap(b, v)) = 1
      /\ Far(Gap(x, a), Gap(y, b)) = Far(Gap(x, u), Gap(y, v)) - 1
  BY <1>3
<1> HIDE DEF a, b
<1>6. /\ ChebyshevDistance2D(<<a, b>>, q) = 1
      /\ ChebyshevDistance2D(pos, <<a, b>>) = ChebyshevDistance2D(pos, q) - 1
  <2>1. a \in Int /\ b \in Int /\ x \in Int /\ y \in Int /\ u \in Int /\ v \in Int
    BY <1>4
  <2>2. /\ ChebyshevDistance2D(<<a, b>>, q) = Far(Abs(a - u), Abs(b - v))
        /\ ChebyshevDistance2D(pos, <<a, b>>) = Far(Abs(x - a), Abs(y - b))
        /\ ChebyshevDistance2D(pos, q) = Far(Abs(x - u), Abs(y - v))
    BY <1>1, <1>2, <2>1, DistanceFacts
  <2>3. /\ Abs(a - u) = Gap(a, u) /\ Abs(b - v) = Gap(b, v)
        /\ Abs(x - a) = Gap(x, a) /\ Abs(y - b) = Gap(y, b)
        /\ Abs(x - u) = Gap(x, u) /\ Abs(y - v) = Gap(y, v)
    BY <2>1, AbsOfDifference
  <2> HIDE DEF Far, Gap
  <2> QED BY <1>5, <2>2, <2>3
<1>7. <<a, b>> \in Vec2
  BY <1>4 DEF Vec2
<1> QED BY <1>6, <1>7

LEMMA Triangles ==
  ASSUME width \in Nat, height \in Nat, NEW p \in Vec2, NEW q \in Vec2, NEW r \in Vec2
  PROVE  /\ ManhattanDistance2D(p, q) \in Nat /\ ChebyshevDistance2D(p, q) \in Nat
         /\ ManhattanDistance2D(p, q) = 0 <=> p = q
         /\ ChebyshevDistance2D(p, q) = 0 <=> p = q
         /\ ManhattanDistance2D(p, r) <= ManhattanDistance2D(p, q) + ManhattanDistance2D(q, r)
         /\ ChebyshevDistance2D(p, r) <= ChebyshevDistance2D(p, q) + ChebyshevDistance2D(q, r)
<1>1. PICK x \in 0..width - 1, y \in 0..height - 1 : p = <<x, y>>
  BY DEF Vec2
<1>2. PICK u \in 0..width - 1, v \in 0..height - 1 : q = <<u, v>>
  BY DEF Vec2
<1>3. PICK a \in 0..width - 1, b \in 0..height - 1 : r = <<a, b>>
  BY DEF Vec2
<1> DEFINE Far(m, n) == IF m > n THEN m ELSE n
           Gap(m, n) == IF m >= n THEN m - n ELSE n - m
<1>4. a \in Int /\ b \in Int /\ x \in Int /\ y \in Int /\ u \in Int /\ v \in Int
  OBVIOUS
<1>5. /\ ManhattanDistance2D(p, q) = Abs(x - u) + Abs(y - v)
      /\ ManhattanDistance2D(q, r) = Abs(u - a) + Abs(v - b)
      /\ ManhattanDistance2D(p, r) = Abs(x - a) + Abs(y - b)
      /\ ChebyshevDistance2D(p, q) = Far(Abs(x - u), Abs(y - v))
      /\ ChebyshevDistance2D(q, r) = Far(Abs(u - a), Abs(v - b))
      /\ ChebyshevDistance2D(p, r) = Far(Abs(x - a), Abs(y - b))
  BY <1>1, <1>2, <1>3, <1>4, DistanceFacts
<1>6. /\ Abs(x - u) = Gap(x, u) /\ Abs(y - v) = Gap(y, v)
      /\ Abs(u - a) = Gap(u, a) /\ Abs(v - b) = Gap(v, b)
      /\ Abs(x - a) = Gap(x, a) /\ Abs(y - b) = Gap(y, b)
  BY <1>4, AbsOfDifference
<1>7. p = q <=> x = u /\ y = v
  BY <1>1, <1>2
<1>8. /\ Gap(x, u) + Gap(y, v) \in Nat /\ Far(Gap(x, u), Gap(y, v)) \in Nat
      /\ Gap(x, u) + Gap(y, v) = 0 <=> x = u /\ y = v
      /\ Far(Gap(x, u), Gap(y, v)) = 0 <=> x = u /\ y = v
  BY <1>4
<1>9. /\ Gap(x, a) + Gap(y, b) <= (Gap(x, u) + Gap(y, v)) + (Gap(u, a) + Gap(v, b))
      /\ Far(Gap(x, a), Gap(y, b)) <= Far(Gap(x, u), Gap(y, v)) + Far(Gap(u, a), Gap(v, b))
  <2>1. Gap(x, a) <= Gap(x, u) + Gap(u, a) /\ Gap(y, b) <= Gap(y, v) + Gap(v, b)
    BY <1>4
  <2>2. /\ Gap(x, a) \in Nat /\ Gap(x, u) \in Nat /\ Gap(u, a) \in Nat
        /\ Gap(y, b) \in Nat /\ Gap(y, v) \in Nat /\ Gap(v, b) \in Nat
    BY <1>4
  <2> HIDE DEF Gap
  <2> QED BY <2>1, <2>2
<1> HIDE DEF Far, Gap
<1> QED BY <1>5, <1>6, <1>7, <1>8, <1>9

(* One more move reaches what is one further away. *)
LEMMA RookBallGrows ==
  ASSUME width \in Nat, height \in Nat, NEW pos \in Vec2, NEW n \in Nat \ {0}
  PROVE  RookBall(pos, n) =
           RookBall(pos, n - 1) \cup UNION {ToSet(Neighbors4(q)) : q \in RookBall(pos, n - 1)}
<1> DEFINE step(q) == {r \in Vec2 : ManhattanDistance2D(q, r) = 1}
           near == RookBall(pos, n - 1)
<1>1. \A q \in near : q \in Vec2 /\ ToSet(Neighbors4(q)) = step(q)
  BY RookMoves DEF RookBall
<1>2. UNION {ToSet(Neighbors4(q)) : q \in near} = UNION {step(q) : q \in near}
  <2> HIDE DEF near, step
  <2> QED BY <1>1
<1>3. ASSUME NEW r \in RookBall(pos, n)
      PROVE  r \in near \/ \E q \in near : r \in step(q)
  <2>1. r \in Vec2 /\ ManhattanDistance2D(pos, r) <= n /\ ManhattanDistance2D(pos, r) \in Nat
    BY Triangles DEF RookBall
  <2>2. CASE r = pos
    <3>1. ManhattanDistance2D(pos, r) = 0
      BY <2>2, Triangles
    <3>2. 0 <= n - 1
      OBVIOUS
    <3> QED BY <2>1, <3>1, <3>2 DEF RookBall
  <2>3. CASE r # pos
    <3>1. PICK q \in Vec2 : ManhattanDistance2D(q, r) = 1 /\ ManhattanDistance2D(pos, q) = ManhattanDistance2D(pos, r) - 1
      BY <2>1, <2>3, RookIsNearer
    <3>2. ManhattanDistance2D(pos, q) <= n - 1
      BY <2>1, <3>1
    <3> QED BY <2>1, <3>1, <3>2 DEF RookBall
  <2> QED BY <2>2, <2>3
<1>4. ASSUME NEW r \in near
      PROVE  r \in RookBall(pos, n)
  <2>1. r \in Vec2 /\ ManhattanDistance2D(pos, r) <= n - 1 /\ ManhattanDistance2D(pos, r) \in Nat
    BY Triangles DEF RookBall
  <2>2. ManhattanDistance2D(pos, r) <= n
    BY <2>1
  <2> QED BY <2>1, <2>2 DEF RookBall
<1>5. ASSUME NEW q \in near, NEW r \in step(q)
      PROVE  r \in RookBall(pos, n)
  <2>1. q \in Vec2 /\ r \in Vec2 /\ ManhattanDistance2D(pos, q) <= n - 1 /\ ManhattanDistance2D(q, r) = 1
    BY DEF RookBall
  <2>2. /\ ManhattanDistance2D(pos, r) <= ManhattanDistance2D(pos, q) + ManhattanDistance2D(q, r)
        /\ ManhattanDistance2D(pos, r) \in Nat /\ ManhattanDistance2D(pos, q) \in Nat
    BY <2>1, Triangles
  <2>3. ManhattanDistance2D(pos, r) <= n
    BY <2>1, <2>2
  <2> QED BY <2>1, <2>3 DEF RookBall
<1> HIDE DEF near, step
<1>6. RookBall(pos, n) = near \cup UNION {step(q) : q \in near}
  BY <1>3, <1>4, <1>5
<1> QED BY <1>2, <1>6 DEF near

RookRounds(pos, f) ==
  [n \in Nat |-> IF n = 0 THEN {pos}
                 ELSE f[n - 1] \cup UNION {ToSet(Neighbors4(q)) : q \in f[n - 1]}]

LEMMA RookReach ==
  ASSUME width \in Nat, height \in Nat, NEW pos \in Vec2
  PROVE  Reach(pos, Neighbors4) = [n \in 0..width + height |-> RookBall(pos, n)]
<1> DEFINE D == [n \in Nat |-> RookBall(pos, n)]
           k == CHOOSE f : f = RookRounds(pos, f)
           Bad == {n \in Nat : k[n] # RookBall(pos, n)}
<1>1. RookBall(pos, 0) = {pos}
  <2>1. \A q \in Vec2 : ManhattanDistance2D(pos, q) <= 0 <=> q = pos
    BY Triangles
  <2> QED BY <2>1 DEF RookBall
<1>2. D = RookRounds(pos, D)
  <2>1. ASSUME NEW n \in Nat
        PROVE  D[n] = IF n = 0 THEN {pos}
                      ELSE D[n - 1] \cup UNION {ToSet(Neighbors4(q)) : q \in D[n - 1]}
    <3>1. CASE n = 0
      BY <1>1, <3>1
    <3>2. CASE n # 0
      <4>1. n \in Nat \ {0} /\ n - 1 \in Nat
        BY <3>2
      <4>2. D[n] = RookBall(pos, n) /\ D[n - 1] = RookBall(pos, n - 1)
        BY <4>1
      <4> HIDE DEF D
      <4> QED BY <3>2, <4>1, <4>2, RookBallGrows
    <3> QED BY <3>1, <3>2
  <2>2. D = [n \in Nat |-> D[n]]
    OBVIOUS
  <2> HIDE DEF D
  <2> QED BY <2>1, <2>2 DEF RookRounds
<1>3. k = RookRounds(pos, k)
  <2> HIDE DEF D
  <2> QED BY <1>2
<1>4. Reach(pos, Neighbors4) = [n \in 0..width + height |-> k[n]]
  BY DEF Reach, RookRounds
<1> HIDE DEF k, D
<1>5. /\ k[0] = {pos}
      /\ \A n \in Nat \ {0} : k[n] = k[n - 1] \cup UNION {ToSet(Neighbors4(q)) : q \in k[n - 1]}
  <2>1. ASSUME NEW n \in Nat
        PROVE  k[n] = IF n = 0 THEN {pos}
                      ELSE k[n - 1] \cup UNION {ToSet(Neighbors4(q)) : q \in k[n - 1]}
    BY <1>3 DEF RookRounds
  <2>2. 0 \in Nat
    OBVIOUS
  <2> QED BY <2>1, <2>2
<1>6. Bad = {}
  <2> SUFFICES ASSUME Bad # {} PROVE FALSE
    OBVIOUS
  <2>1. PICK n \in Bad : \A m \in Bad : n <= m
    <3>1. Bad \subseteq Nat
      OBVIOUS
    <3> HIDE DEF Bad
    <3> QED BY <3>1, LeastNumber
  <2>2. n \in Nat /\ k[n] # RookBall(pos, n) /\ n # 0
    BY <1>1, <1>5
  <2>3. n - 1 \in Nat /\ n - 1 < n /\ n \in Nat \ {0}
    BY <2>2
  <2>4. n - 1 \notin Bad
    <3> HIDE DEF Bad
    <3>1. n - 1 \in Bad => n <= n - 1
      BY <2>1
    <3> QED BY <2>3, <3>1
  <2>5. k[n - 1] = RookBall(pos, n - 1)
    BY <2>3, <2>4
  <2>6. k[n] = k[n - 1] \cup UNION {ToSet(Neighbors4(q)) : q \in k[n - 1]}
    BY <1>5, <2>3
  <2> QED BY <2>2, <2>3, <2>5, <2>6, RookBallGrows
<1>7. \A n \in 0..width + height : k[n] = RookBall(pos, n)
  BY <1>6
<1> QED BY <1>4, <1>7

(* One more move reaches what is one further away. *)
LEMMA KingBallGrows ==
  ASSUME width \in Nat, height \in Nat, NEW pos \in Vec2, NEW n \in Nat \ {0}
  PROVE  KingBall(pos, n) =
           KingBall(pos, n - 1) \cup UNION {ToSet(Neighbors8(q)) : q \in KingBall(pos, n - 1)}
<1> DEFINE step(q) == {r \in Vec2 : ChebyshevDistance2D(q, r) = 1}
           near == KingBall(pos, n - 1)
<1>1. \A q \in near : q \in Vec2 /\ ToSet(Neighbors8(q)) = step(q)
  BY KingMoves DEF KingBall
<1>2. UNION {ToSet(Neighbors8(q)) : q \in near} = UNION {step(q) : q \in near}
  <2> HIDE DEF near, step
  <2> QED BY <1>1
<1>3. ASSUME NEW r \in KingBall(pos, n)
      PROVE  r \in near \/ \E q \in near : r \in step(q)
  <2>1. r \in Vec2 /\ ChebyshevDistance2D(pos, r) <= n /\ ChebyshevDistance2D(pos, r) \in Nat
    BY Triangles DEF KingBall
  <2>2. CASE r = pos
    <3>1. ChebyshevDistance2D(pos, r) = 0
      BY <2>2, Triangles
    <3>2. 0 <= n - 1
      OBVIOUS
    <3> QED BY <2>1, <3>1, <3>2 DEF KingBall
  <2>3. CASE r # pos
    <3>1. PICK q \in Vec2 : ChebyshevDistance2D(q, r) = 1 /\ ChebyshevDistance2D(pos, q) = ChebyshevDistance2D(pos, r) - 1
      BY <2>1, <2>3, KingIsNearer
    <3>2. ChebyshevDistance2D(pos, q) <= n - 1
      BY <2>1, <3>1
    <3> QED BY <2>1, <3>1, <3>2 DEF KingBall
  <2> QED BY <2>2, <2>3
<1>4. ASSUME NEW r \in near
      PROVE  r \in KingBall(pos, n)
  <2>1. r \in Vec2 /\ ChebyshevDistance2D(pos, r) <= n - 1 /\ ChebyshevDistance2D(pos, r) \in Nat
    BY Triangles DEF KingBall
  <2>2. ChebyshevDistance2D(pos, r) <= n
    BY <2>1
  <2> QED BY <2>1, <2>2 DEF KingBall
<1>5. ASSUME NEW q \in near, NEW r \in step(q)
      PROVE  r \in KingBall(pos, n)
  <2>1. q \in Vec2 /\ r \in Vec2 /\ ChebyshevDistance2D(pos, q) <= n - 1 /\ ChebyshevDistance2D(q, r) = 1
    BY DEF KingBall
  <2>2. /\ ChebyshevDistance2D(pos, r) <= ChebyshevDistance2D(pos, q) + ChebyshevDistance2D(q, r)
        /\ ChebyshevDistance2D(pos, r) \in Nat /\ ChebyshevDistance2D(pos, q) \in Nat
    BY <2>1, Triangles
  <2>3. ChebyshevDistance2D(pos, r) <= n
    BY <2>1, <2>2
  <2> QED BY <2>1, <2>3 DEF KingBall
<1> HIDE DEF near, step
<1>6. KingBall(pos, n) = near \cup UNION {step(q) : q \in near}
  BY <1>3, <1>4, <1>5
<1> QED BY <1>2, <1>6 DEF near

KingRounds(pos, f) ==
  [n \in Nat |-> IF n = 0 THEN {pos}
                 ELSE f[n - 1] \cup UNION {ToSet(Neighbors8(q)) : q \in f[n - 1]}]

LEMMA KingReach ==
  ASSUME width \in Nat, height \in Nat, NEW pos \in Vec2
  PROVE  Reach(pos, Neighbors8) = [n \in 0..width + height |-> KingBall(pos, n)]
<1> DEFINE D == [n \in Nat |-> KingBall(pos, n)]
           k == CHOOSE f : f = KingRounds(pos, f)
           Bad == {n \in Nat : k[n] # KingBall(pos, n)}
<1>1. KingBall(pos, 0) = {pos}
  <2>1. \A q \in Vec2 : ChebyshevDistance2D(pos, q) <= 0 <=> q = pos
    BY Triangles
  <2> QED BY <2>1 DEF KingBall
<1>2. D = KingRounds(pos, D)
  <2>1. ASSUME NEW n \in Nat
        PROVE  D[n] = IF n = 0 THEN {pos}
                      ELSE D[n - 1] \cup UNION {ToSet(Neighbors8(q)) : q \in D[n - 1]}
    <3>1. CASE n = 0
      BY <1>1, <3>1
    <3>2. CASE n # 0
      <4>1. n \in Nat \ {0} /\ n - 1 \in Nat
        BY <3>2
      <4>2. D[n] = KingBall(pos, n) /\ D[n - 1] = KingBall(pos, n - 1)
        BY <4>1
      <4> HIDE DEF D
      <4> QED BY <3>2, <4>1, <4>2, KingBallGrows
    <3> QED BY <3>1, <3>2
  <2>2. D = [n \in Nat |-> D[n]]
    OBVIOUS
  <2> HIDE DEF D
  <2> QED BY <2>1, <2>2 DEF KingRounds
<1>3. k = KingRounds(pos, k)
  <2> HIDE DEF D
  <2> QED BY <1>2
<1>4. Reach(pos, Neighbors8) = [n \in 0..width + height |-> k[n]]
  BY DEF Reach, KingRounds
<1> HIDE DEF k, D
<1>5. /\ k[0] = {pos}
      /\ \A n \in Nat \ {0} : k[n] = k[n - 1] \cup UNION {ToSet(Neighbors8(q)) : q \in k[n - 1]}
  <2>1. ASSUME NEW n \in Nat
        PROVE  k[n] = IF n = 0 THEN {pos}
                      ELSE k[n - 1] \cup UNION {ToSet(Neighbors8(q)) : q \in k[n - 1]}
    BY <1>3 DEF KingRounds
  <2>2. 0 \in Nat
    OBVIOUS
  <2> QED BY <2>1, <2>2
<1>6. Bad = {}
  <2> SUFFICES ASSUME Bad # {} PROVE FALSE
    OBVIOUS
  <2>1. PICK n \in Bad : \A m \in Bad : n <= m
    <3>1. Bad \subseteq Nat
      OBVIOUS
    <3> HIDE DEF Bad
    <3> QED BY <3>1, LeastNumber
  <2>2. n \in Nat /\ k[n] # KingBall(pos, n) /\ n # 0
    BY <1>1, <1>5
  <2>3. n - 1 \in Nat /\ n - 1 < n /\ n \in Nat \ {0}
    BY <2>2
  <2>4. n - 1 \notin Bad
    <3> HIDE DEF Bad
    <3>1. n - 1 \in Bad => n <= n - 1
      BY <2>1
    <3> QED BY <2>3, <3>1
  <2>5. k[n - 1] = KingBall(pos, n - 1)
    BY <2>3, <2>4
  <2>6. k[n] = k[n - 1] \cup UNION {ToSet(Neighbors8(q)) : q \in k[n - 1]}
    BY <1>5, <2>3
  <2> QED BY <2>2, <2>3, <2>5, <2>6, KingBallGrows
<1>7. \A n \in 0..width + height : k[n] = KingBall(pos, n)
  BY <1>6
<1> QED BY <1>4, <1>7

(* In three dimensions too some cell one move away is nearer. *)
LEMMA NearerInSpace ==
  ASSUME width \in Nat, height \in Nat, depth \in Nat, NEW p \in Vec3, NEW q \in Vec3, p # q
  PROVE  \E r \in Vec3 : /\ ManhattanDistance3D(p, r) = 1
                         /\ ManhattanDistance3D(r, q) = ManhattanDistance3D(p, q) - 1
<1>1. PICK x \in 0..width - 1, y \in 0..height - 1, z \in 0..depth - 1 : p = <<x, y, z>>
  BY DEF Vec3
<1>2. PICK u \in 0..width - 1, v \in 0..height - 1, w \in 0..depth - 1 : q = <<u, v, w>>
  BY DEF Vec3
<1> DEFINE Gap(m, n) == IF m >= n THEN m - n ELSE n - m
<1>3. ASSUME NEW i \in Int, NEW j \in Int, NEW k \in Int, NEW l \in Int, NEW m \in Int, NEW n \in Int
      PROVE  ManhattanDistance3D(<<i, j, k>>, <<l, m, n>>) = Gap(i, l) + Gap(j, m) + Gap(k, n)
  <2>1. ManhattanDistance3D(<<i, j, k>>, <<l, m, n>>) = Abs(i - l) + Abs(j - m) + Abs(k - n)
    BY DEF ManhattanDistance3D, ManhattanDistance2D
  <2>2. Abs(i - l) = Gap(i, l) /\ Abs(j - m) = Gap(j, m) /\ Abs(k - n) = Gap(k, n)
    BY AbsOfDifference
  <2> HIDE DEF Gap
  <2> QED BY <2>1, <2>2
<1> DEFINE a == IF u > x THEN x + 1 ELSE IF u < x THEN x - 1 ELSE x
           b == IF u # x THEN y ELSE IF v > y THEN y + 1 ELSE IF v < y THEN y - 1 ELSE y
           c == IF u # x \/ v # y THEN z ELSE IF w > z THEN z + 1 ELSE z - 1
<1>4. ~(u = x /\ v = y /\ w = z)
  BY <1>1, <1>2
<1>5. a \in 0..width - 1 /\ b \in 0..height - 1 /\ c \in 0..depth - 1
  BY <1>4
<1>6. /\ Gap(x, a) + Gap(y, b) + Gap(z, c) = 1
      /\ Gap(a, u) + Gap(b, v) + Gap(c, w) = (Gap(x, u) + Gap(y, v) + Gap(z, w)) - 1
  BY <1>4
<1> HIDE DEF a, b, c, Gap
<1>7. <<a, b, c>> \in Vec3
  BY <1>5 DEF Vec3
<1>8. /\ ManhattanDistance3D(p, <<a, b, c>>) = 1
      /\ ManhattanDistance3D(<<a, b, c>>, q) = ManhattanDistance3D(p, q) - 1
  <2>1. /\ x \in Int /\ y \in Int /\ z \in Int /\ u \in Int /\ v \in Int /\ w \in Int
        /\ a \in Int /\ b \in Int /\ c \in Int
    BY <1>5
  <2>2. ManhattanDistance3D(p, <<a, b, c>>) = Gap(x, a) + Gap(y, b) + Gap(z, c)
    BY <1>1, <1>3, <2>1
  <2>3. ManhattanDistance3D(<<a, b, c>>, q) = Gap(a, u) + Gap(b, v) + Gap(c, w)
    BY <1>2, <1>3, <2>1
  <2>4. ManhattanDistance3D(p, q) = Gap(x, u) + Gap(y, v) + Gap(z, w)
    BY <1>1, <1>2, <1>3, <2>1
  <2>5. ManhattanDistance3D(p, <<a, b, c>>) = 1
    BY <1>6, <2>2
  <2>6. ManhattanDistance3D(<<a, b, c>>, q) = ManhattanDistance3D(p, q) - 1
    BY <1>6, <2>3, <2>4
  <2> QED BY <2>5, <2>6
<1> QED BY <1>7, <1>8

(* The distances count moves, and no neighbour is listed twice, in grids of any
   size. *)
THEOREM DistancesAreMoves == GridSpec => []DistancesCountMoves
<1>1. ASSUME GridTypeOK PROVE DistancesCountMoves
  <2>1. width \in Nat /\ height \in Nat /\ depth \in Nat
    BY <1>1, Sizes
  <2>2. ASSUME NEW pos \in Vec2
        PROVE  /\ Len(Neighbors4(pos)) = Cardinality({q \in Vec2 : ManhattanDistance2D(pos, q) = 1})
               /\ Len(Neighbors8(pos)) = Cardinality({q \in Vec2 : ChebyshevDistance2D(pos, q) = 1})
    BY <2>1, RookMoves, KingMoves
  <2>3. ASSUME NEW pos \in Vec2, NEW n \in DOMAIN Reach(pos, Neighbors4)
        PROVE  /\ Reach(pos, Neighbors4)[n] = {q \in Vec2 : ManhattanDistance2D(pos, q) <= n}
               /\ Reach(pos, Neighbors8)[n] = {q \in Vec2 : ChebyshevDistance2D(pos, q) <= n}
    <3>1. /\ Reach(pos, Neighbors4) = [m \in 0..width + height |-> RookBall(pos, m)]
          /\ Reach(pos, Neighbors8) = [m \in 0..width + height |-> KingBall(pos, m)]
      BY <2>1, RookReach, KingReach
    <3>2. n \in 0..width + height
      BY <2>3, <3>1
    <3>3. Reach(pos, Neighbors4)[n] = RookBall(pos, n) /\ Reach(pos, Neighbors8)[n] = KingBall(pos, n)
      BY <3>1, <3>2
    <3> QED BY <3>3 DEF RookBall, KingBall
  <2>4. \A p, q \in Vec3 :
          p # q => \E r \in Vec3 : /\ ManhattanDistance3D(p, r) = 1
                                   /\ ManhattanDistance3D(r, q) = ManhattanDistance3D(p, q) - 1
    BY <2>1, NearerInSpace
  <2> QED BY <2>2, <2>3, <2>4 DEF DistancesCountMoves
<1>2. GridInv => GridTypeOK
  BY DEF GridInv
<1> QED BY <1>1, <1>2, GridInvariant, PTL

-----------------------------------------------------------------------------
(* Cards, for decks and hands of any size. *)

(* Induction, for a set of numbers. *)
LEMMA Upward ==
  ASSUME NEW n \in Nat, NEW G, 0 \in G, \A m \in 1..n : m - 1 \in G => m \in G
  PROVE  0..n \subseteq G
<1> DEFINE Bad == (0..n) \ G
<1> SUFFICES ASSUME Bad # {} PROVE FALSE
  OBVIOUS
<1>1. Bad \subseteq Nat
  OBVIOUS
<1> HIDE DEF Bad
<1>2. PICK m \in Bad : \A k \in Bad : m <= k
  BY <1>1, LeastNumber
<1>3. m \in 0..n /\ m \notin G /\ m # 0
  BY <1>2 DEF Bad
<1>4. m \in 1..n /\ m - 1 \in 0..n /\ ~(m <= m - 1)
  BY <1>3
<1>5. m - 1 \in G
  BY <1>2, <1>4 DEF Bad
<1> QED BY <1>3, <1>4, <1>5

LEMMA Downward ==
  ASSUME NEW n \in Nat, NEW G, n \in G, \A m \in 2..n : m \in G => m - 1 \in G
  PROVE  1..n \subseteq G
<1> DEFINE H == {m \in 0..n - 1 : n - m \in G}
<1>1. CASE n = 0
  BY <1>1
<1>2. CASE n # 0
  <2>1. n - 1 \in Nat /\ 0 \in H
    BY <1>2
  <2>2. ASSUME NEW m \in 1..n - 1, m - 1 \in H
        PROVE  m \in H
    <3>1. n - (m - 1) \in G /\ n - (m - 1) \in 2..n /\ n - (m - 1) - 1 = n - m
      BY <2>2
    <3>2. n - m \in G
      BY <3>1
    <3> QED BY <3>2
  <2> HIDE DEF H
  <2>3. 0..n - 1 \subseteq H
    BY <2>1, <2>2, Upward
  <2>4. ASSUME NEW m \in 1..n PROVE m \in G
    <3>1. n - m \in 0..n - 1 /\ n - (n - m) = m
      OBVIOUS
    <3> QED BY <2>3, <3>1 DEF H
  <2> QED BY <2>4
<1> QED BY <1>1, <1>2

(* A loop whose rounds stay in X can be run. *)
LEMMA LoopRuns ==
  ASSUME NEW X, NEW b \in X, NEW n \in Nat, NEW step \in [1..n -> [X -> X]]
  PROVE  \E f \in [0..n -> X] : f[0] = b /\ \A m \in 1..n : f[m] = step[m][f[m - 1]]
<1> DEFINE Run(f, m) == /\ f \in [0..m -> X] /\ f[0] = b
                        /\ \A k \in 1..m : f[k] = step[k][f[k - 1]]
           G == {m \in 0..n : \E f : Run(f, m)}
<1>1. 0 \in G
  <2> DEFINE z == [k \in 0..0 |-> b]
  <2>1. z \in [0..0 -> X] /\ z[0] = b /\ 1..0 = {}
    OBVIOUS
  <2> HIDE DEF z
  <2>2. Run(z, 0)
    BY <2>1
  <2> HIDE DEF Run
  <2> QED BY <2>2
<1>2. ASSUME NEW m \in 1..n, m - 1 \in G
      PROVE  m \in G
  <2>1. PICK f : Run(f, m - 1)
    <3> HIDE DEF Run
    <3> QED BY <1>2
  <2> DEFINE g == [k \in 0..m |-> IF k = m THEN step[m][f[m - 1]] ELSE f[k]]
  <2>2. m \in Nat /\ m - 1 \in 0..m - 1 /\ step[m] \in [X -> X]
    OBVIOUS
  <2>3. f[m - 1] \in X /\ step[m][f[m - 1]] \in X
    BY <2>1, <2>2
  <2>4. g \in [0..m -> X]
    <3>1. ASSUME NEW k \in 0..m, k # m PROVE f[k] \in X
      <4>1. k \in 0..m - 1
        BY <2>2, <3>1
      <4> QED BY <2>1, <4>1
    <3> QED BY <2>3, <3>1
  <2>5. g[0] = b
    BY <2>1
  <2>6. ASSUME NEW k \in 1..m
        PROVE  g[k] = step[k][g[k - 1]]
    <3>1. k - 1 \in 0..m /\ k - 1 # m /\ g[k - 1] = f[k - 1]
      BY <2>2
    <3>2. CASE k = m
      BY <3>1, <3>2
    <3>3. CASE k # m
      <4>1. k \in 1..m - 1 /\ k \in 0..m
        BY <2>2, <3>3
      <4>2. g[k] = f[k] /\ f[k] = step[k][f[k - 1]]
        BY <2>1, <3>3, <4>1
      <4> QED BY <3>1, <4>2
    <3> QED BY <3>2, <3>3
  <2> HIDE DEF g
  <2>7. Run(g, m)
    BY <2>4, <2>5, <2>6
  <2> HIDE DEF Run
  <2>8. m \in 0..n
    OBVIOUS
  <2> QED BY <2>7, <2>8
<1> HIDE DEF G
<1>3. 0..n \subseteq G
  BY <1>1, <1>2, Upward
<1>4. n \in G
  BY <1>3
<1>5. PICK f : Run(f, n)
  <2> HIDE DEF Run
  <2> QED BY <1>4 DEF G
<1> QED BY <1>5

(* What Shuffle does to n positions, round by round. *)
Places(n) == [1..n -> 1..n]
Id(n) == [k \in 1..n |-> k]

IsRun(g, n, draw) ==
  /\ g \in [1..n -> Places(n)] /\ g[n] = Id(n)
  /\ \A i \in 2..n : g[i - 1] = Swap(g[i], i, draw[i])

LEMMA DrawFacts ==
  ASSUME NEW n, NEW draw \in Draws(n)
  PROVE  /\ draw \in [2..n -> 1..n]
         /\ \A i \in 2..n : draw[i] \in 1..n /\ draw[i] <= i
  BY DEF Draws

LEMMA SwapFacts ==
  ASSUME NEW T, NEW D, NEW s \in [D -> T], NEW i \in D, NEW j \in D
  PROVE  /\ Swap(s, i, j) \in [D -> T]
         /\ Swap(s, i, j)[i] = s[j] /\ Swap(s, i, j)[j] = s[i]
         /\ \A k \in D : k # i /\ k # j => Swap(s, i, j)[k] = s[k]
  BY DEF Swap

LEMMA RunExists ==
  ASSUME NEW n \in Nat \ {0}, NEW draw \in Draws(n)
  PROVE  \E g : IsRun(g, n, draw)
<1> DEFINE at(m) == n + 1 - m
           step == [m \in 1..n - 1 |-> [t \in Places(n) |-> Swap(t, at(m), draw[at(m)])]]
<1>1. Id(n) \in Places(n) /\ n - 1 \in Nat
  BY DEF Id, Places
<1>2. ASSUME NEW m \in 1..n - 1, NEW t \in Places(n)
      PROVE  Swap(t, at(m), draw[at(m)]) \in Places(n)
  <2>1. at(m) \in 2..n /\ at(m) \in 1..n
    OBVIOUS
  <2>2. draw[at(m)] \in 1..n
    BY <2>1, DrawFacts
  <2>3. t \in [1..n -> 1..n]
    BY DEF Places
  <2> HIDE DEF at
  <2> QED BY <2>1, <2>2, <2>3, SwapFacts DEF Places
<1>3. step \in [1..n - 1 -> [Places(n) -> Places(n)]]
  <2> HIDE DEF at
  <2> QED BY <1>2
<1> HIDE DEF step
<1>4. PICK f \in [0..n - 1 -> Places(n)] :
        f[0] = Id(n) /\ \A m \in 1..n - 1 : f[m] = step[m][f[m - 1]]
  <2> DEFINE X == Places(n)
             b == Id(n)
             last == n - 1
  <2>1. b \in X /\ last \in Nat /\ step \in [1..last -> [X -> X]]
    BY <1>1, <1>3
  <2> HIDE DEF X, b, last
  <2>2. \E f \in [0..last -> X] : f[0] = b /\ \A m \in 1..last : f[m] = step[m][f[m - 1]]
    BY <2>1, LoopRuns
  <2> QED BY <2>2 DEF X, b, last
<1> DEFINE g == [i \in 1..n |-> f[n - i]]
<1>5. g \in [1..n -> Places(n)] /\ g[n] = Id(n)
  <2>1. \A i \in 1..n : n - i \in 0..n - 1
    OBVIOUS
  <2>2. n \in 1..n /\ n - n = 0
    OBVIOUS
  <2> QED BY <1>4, <2>1, <2>2
<1>6. ASSUME NEW i \in 2..n
      PROVE  g[i - 1] = Swap(g[i], i, draw[i])
  <2> DEFINE m == n - (i - 1)
  <2>1. /\ m \in 1..n - 1 /\ m - 1 = n - i /\ at(m) = i /\ i \in 1..n /\ i - 1 \in 1..n
        /\ m - 1 \in 0..n - 1
    OBVIOUS
  <2>2. g[i - 1] = f[m] /\ g[i] = f[m - 1]
    BY <2>1
  <2> HIDE DEF m, at, g
  <2>3. f[m] = step[m][f[m - 1]] /\ f[m - 1] \in Places(n)
    BY <1>4, <2>1
  <2>4. step[m][f[m - 1]] = Swap(f[m - 1], at(m), draw[at(m)])
    BY <2>1, <2>3 DEF step
  <2> QED BY <2>1, <2>2, <2>3, <2>4
<1> HIDE DEF g
<1> QED BY <1>5, <1>6 DEF IsRun

(* The first n of the cards s, each place k showing the card of place p[k]. *)
Rearranged(s, p, n) == [k \in 1..n |-> s[p[k]]]

(* Two cards changing places is the same whether it is said of cards or of places. *)
LEMMA SwapPlaces ==
  ASSUME NEW n, NEW s, NEW p \in Places(n), NEW i \in 1..n, NEW j \in 1..n
  PROVE  Swap(Rearranged(s, p, n), i, j) = Rearranged(s, Swap(p, i, j), n)
<1>1. p \in [1..n -> 1..n] /\ \A k \in 1..n : p[k] \in 1..n
  BY DEF Places
<1> DEFINE c == [k \in 1..n |-> s[p[k]]]
           q == Swap(p, i, j)
           d == Swap(c, i, j)
<1>2. c = [k \in 1..n |-> c[k]] /\ \A k \in 1..n : c[k] = s[p[k]]
  OBVIOUS
<1>3. /\ q \in [1..n -> 1..n] /\ q[i] = p[j] /\ q[j] = p[i]
      /\ \A k \in 1..n : k # i /\ k # j => q[k] = p[k]
  BY <1>1 DEF Swap
<1> HIDE DEF c
<1>4. /\ d = [k \in 1..n |-> d[k]] /\ d[i] = c[j] /\ d[j] = c[i]
      /\ \A k \in 1..n : k # i /\ k # j => d[k] = c[k]
  BY <1>2 DEF Swap
<1> HIDE DEF q, d
<1>5. ASSUME NEW k \in 1..n PROVE d[k] = s[q[k]]
  BY <1>2, <1>3, <1>4
<1>6. d = [k \in 1..n |-> s[q[k]]]
  BY <1>4, <1>5
<1> QED BY <1>6 DEF c, d, q, Rearranged

(* So the shuffled cards are the cards at the places that its run has moved. *)
LEMMA ShuffledIs ==
  ASSUME NEW T, NEW s \in Seq(T), s # <<>>, NEW draw \in Draws(Len(s)),
         NEW g, IsRun(g, Len(s), draw)
  PROVE  Shuffled(s, draw) = [k \in 1..Len(s) |-> s[g[1][k]]]
<1> DEFINE n == Len(s)
           Rounds0(f) == [i \in 1..Len(s) |->
                            IF i = Len(s) THEN s ELSE Swap(f[i + 1], i + 1, draw[i + 1])]
           r == CHOOSE f : f = Rounds0(f)
           c == [i \in 1..n |-> [k \in 1..n |-> s[g[i][k]]]]
<1>1. n \in Nat \ {0} /\ s \in [1..n -> T]
  OBVIOUS
<1>2. Shuffled(s, draw) = r[1]
  BY DEF Shuffled
<1> HIDE DEF r, n
<1>3. /\ g \in [1..n -> Places(n)] /\ g[n] = Id(n)
      /\ \A i \in 2..n : g[i - 1] = Swap(g[i], i, draw[i])
  BY DEF IsRun, n
<1>4. c[n] = s
  <2>1. n \in 1..n /\ \A k \in 1..n : g[n][k] = k
    BY <1>1, <1>3 DEF Id
  <2>2. c[n] = [k \in 1..n |-> s[k]]
    BY <2>1
  <2> HIDE DEF c
  <2> QED BY <1>1, <2>2
<1>5. ASSUME NEW i \in 2..n
      PROVE  c[i - 1] = Swap(c[i], i, draw[i])
  <2>1. i \in 1..n /\ i - 1 \in 1..n /\ draw[i] \in 1..n /\ g[i] \in Places(n)
    BY <1>1, <1>3, DrawFacts DEF n
  <2>2. c[i] = [k \in 1..n |-> s[g[i][k]]] /\ c[i - 1] = [k \in 1..n |-> s[g[i - 1][k]]]
    BY <2>1
  <2>3. g[i - 1] = Swap(g[i], i, draw[i])
    BY <1>3
  <2> DEFINE p == g[i]
             j == draw[i]
  <2>4. p \in Places(n) /\ i \in 1..n /\ j \in 1..n
    BY <1>1, <2>1
  <2> HIDE DEF c, p, j
  <2>5. Swap(Rearranged(s, p, n), i, j) = Rearranged(s, Swap(p, i, j), n)
    BY <2>4, SwapPlaces
  <2>6. c[i] = Rearranged(s, p, n)
    BY <2>2 DEF p, Rearranged
  <2>7. c[i - 1] = Rearranged(s, Swap(p, i, j), n)
    BY <2>2, <2>3 DEF p, j, Rearranged
  <2>8. c[i - 1] = Swap(c[i], i, j)
    BY <2>5, <2>6, <2>7
  <2> QED BY <2>8 DEF j
<1>6. c = Rounds0(c)
  <2>1. ASSUME NEW i \in 1..n
        PROVE  c[i] = IF i = n THEN s ELSE Swap(c[i + 1], i + 1, draw[i + 1])
    <3>1. CASE i = n
      BY <1>4, <3>1
    <3>2. CASE i # n
      <4>1. i + 1 \in 2..n /\ i + 1 - 1 = i
        BY <1>1, <3>2
      <4> HIDE DEF c
      <4> QED BY <1>5, <3>2, <4>1
    <3> QED BY <3>1, <3>2
  <2>2. c = [i \in 1..n |-> c[i]]
    OBVIOUS
  <2> HIDE DEF c
  <2> QED BY <2>1, <2>2 DEF n
<1> HIDE DEF c
<1>7. r = Rounds0(r)
  <2> HIDE DEF Rounds0
  <2> QED BY <1>6 DEF r
<1>8. ASSUME NEW i \in 1..n
       PROVE  r[i] = IF i = n THEN s ELSE Swap(r[i + 1], i + 1, draw[i + 1])
  BY <1>7 DEF n
<1> DEFINE G == {i \in 1..n : r[i] = c[i]}
<1>9. n \in G
  <2>1. n \in 1..n
    BY <1>1
  <2> QED BY <1>4, <1>8, <2>1
<1>10. ASSUME NEW i \in 2..n, i \in G
      PROVE  i - 1 \in G
  <2>1. i - 1 \in 1..n /\ i - 1 # n /\ i - 1 + 1 = i
    BY <1>1
  <2>2. r[i - 1] = Swap(r[i], i, draw[i])
    BY <1>8, <2>1
  <2> QED BY <1>5, <1>10, <2>1, <2>2
<1> HIDE DEF G
<1>11. 1..n \subseteq G
  BY <1>1, <1>9, <1>10, Downward
<1>12. r[1] = c[1]
  BY <1>1, <1>11 DEF G
<1>13. c[1] = [k \in 1..n |-> s[g[1][k]]]
  BY <1>1 DEF c
<1> QED BY <1>2, <1>12, <1>13 DEF n

(* A shuffle only moves the places: none is lost and none is doubled. *)
Orders(n) == Bijection(1..n, 1..n)

LEMMA OrderFacts ==
  ASSUME NEW n, NEW p \in Orders(n)
  PROVE  /\ p \in Places(n)
         /\ p \in [1..n -> 1..n]
         /\ \A k \in 1..n : p[k] \in 1..n
         /\ \A k, l \in 1..n : p[k] = p[l] => k = l
         /\ \A v \in 1..n : \E k \in 1..n : p[k] = v
  BY DEF Orders, Places, Bijection, Injection, Surjection, IsInjective

LEMMA IsOrder ==
  ASSUME NEW n, NEW p \in [1..n -> 1..n],
         \A k, l \in 1..n : p[k] = p[l] => k = l,
         \A v \in 1..n : \E k \in 1..n : p[k] = v
  PROVE  p \in Orders(n)
  BY DEF Orders, Bijection, Injection, Surjection, IsInjective

LEMMA SwapKeepsOrder ==
  ASSUME NEW n, NEW p \in Orders(n), NEW i \in 1..n, NEW j \in 1..n
  PROVE  Swap(p, i, j) \in Orders(n)
<1> DEFINE q == Swap(p, i, j)
<1>1. /\ p \in [1..n -> 1..n]
      /\ \A k, l \in 1..n : p[k] = p[l] => k = l
      /\ \A v \in 1..n : \E k \in 1..n : p[k] = v
  BY OrderFacts
<1>2. /\ q \in [1..n -> 1..n] /\ q[i] = p[j] /\ q[j] = p[i]
      /\ \A k \in 1..n : k # i /\ k # j => q[k] = p[k]
  BY <1>1 DEF Swap
<1> HIDE DEF q
<1>3. ASSUME NEW k \in 1..n, NEW l \in 1..n, q[k] = q[l]
      PROVE  k = l
  <2> DEFINE old(m) == IF m = i THEN j ELSE IF m = j THEN i ELSE m
             a == old(k)
             b == old(l)
  <2>1. a \in 1..n /\ b \in 1..n /\ q[k] = p[a] /\ q[l] = p[b]
    BY <1>2
  <2> HIDE DEF a, b
  <2>2. p[a] = p[b]
    BY <1>3, <2>1
  <2>3. a = b
    BY <1>1, <2>1, <2>2, Zenon
  <2> QED BY <2>3 DEF a, b
<1>4. ASSUME NEW v \in 1..n
      PROVE  \E k \in 1..n : q[k] = v
  <2>1. PICK k \in 1..n : p[k] = v
    BY <1>1
  <2>2. CASE k = i
    BY <1>2, <2>1, <2>2
  <2>3. CASE k = j
    BY <1>2, <2>1, <2>3
  <2>4. CASE k # i /\ k # j
    BY <1>2, <2>1, <2>4
  <2> QED BY <2>2, <2>3, <2>4
<1>5. q \in Orders(n)
  BY <1>2, <1>3, <1>4, IsOrder
<1> QED BY <1>5 DEF q

LEMMA IdIsOrder ==
  ASSUME NEW n
  PROVE  Id(n) \in Orders(n)
<1>1. Id(n) \in [1..n -> 1..n] /\ \A k \in 1..n : Id(n)[k] = k
  BY DEF Id
<1> QED BY <1>1, IsOrder

LEMMA RunFacts ==
  ASSUME NEW n, NEW draw, NEW g, IsRun(g, n, draw)
  PROVE  /\ \A i \in 1..n : g[i] \in Places(n)
         /\ g[n] = Id(n)
         /\ \A i \in 2..n : g[i - 1] = Swap(g[i], i, draw[i])
  BY DEF IsRun

LEMMA RunKeepsOrder ==
  ASSUME NEW n \in Nat \ {0}, NEW draw \in Draws(n), NEW g, IsRun(g, n, draw)
  PROVE  \A i \in 1..n : g[i] \in Orders(n)
<1> DEFINE G == {i \in 1..n : g[i] \in Orders(n)}
<1>1. n \in G
  <2>1. n \in 1..n
    OBVIOUS
  <2> QED BY <2>1, RunFacts, IdIsOrder
<1>2. ASSUME NEW i \in 2..n, i \in G PROVE i - 1 \in G
  <2>1. i - 1 \in 1..n /\ i \in 1..n /\ draw[i] \in 1..n
    BY DrawFacts
  <2>2. Swap(g[i], i, draw[i]) \in Orders(n)
    BY <1>2, <2>1, SwapKeepsOrder
  <2> QED BY <2>1, <2>2, RunFacts
<1> HIDE DEF G
<1>3. 1..n \subseteq G
  BY <1>1, <1>2, Downward
<1> QED BY <1>3 DEF G

LEMMA SwapMoves ==
  ASSUME NEW n, NEW p \in Places(n), NEW i \in 1..n, NEW j \in 1..n
  PROVE  /\ Swap(p, i, j)[i] = p[j]
         /\ \A k \in 1..n : k # i /\ k # j => Swap(p, i, j)[k] = p[k]
  BY DEF Swap, Places

(* Once a place has had its round, it keeps its card. *)
LEMMA RunSettles ==
  ASSUME NEW n \in Nat \ {0}, NEW draw \in Draws(n), NEW g, IsRun(g, n, draw),
         NEW i \in 1..n
  PROVE  \A j \in i + 1..n : g[1][j] = g[i][j]
<1> DEFINE G == {m \in 1..n : m <= i => \A j \in i + 1..n : g[m][j] = g[i][j]}
<1>1. n \in G
  OBVIOUS
<1>2. ASSUME NEW m \in 2..n, m \in G PROVE m - 1 \in G
  <2>1. m - 1 \in 1..n /\ m \in 1..n /\ draw[m] \in 1..n /\ draw[m] <= m
    BY DrawFacts
  <2>2. ASSUME m - 1 <= i, NEW j \in i + 1..n
        PROVE  g[m - 1][j] = g[i][j]
    <3>1. CASE m - 1 = i
      BY <3>1
    <3>2. CASE m - 1 # i
      <4>1. m <= i /\ j # m /\ j # draw[m] /\ j \in 1..n
        BY <2>1, <2>2, <3>2
      <4>2. g[m] \in Places(n) /\ g[m - 1] = Swap(g[m], m, draw[m])
        BY <2>1, RunFacts
      <4>3. g[m - 1][j] = g[m][j]
        BY <2>1, <4>1, <4>2, SwapMoves
      <4>4. g[m][j] = g[i][j]
        BY <1>2, <2>2, <4>1
      <4> QED BY <4>3, <4>4
    <3> QED BY <3>1, <3>2
  <2> QED BY <2>1, <2>2
<1> HIDE DEF G
<1>3. 1..n \subseteq G
  BY <1>1, <1>2, Downward
<1>4. 1 \in G /\ 1 <= i
  BY <1>3
<1> QED BY <1>4 DEF G

LEMMA DrawSettles ==
  ASSUME NEW n \in Nat \ {0}, NEW draw \in Draws(n), NEW g, IsRun(g, n, draw),
         NEW i \in 2..n
  PROVE  g[1][i] = g[i][draw[i]]
<1>1. i - 1 \in 1..n /\ i \in 1..n /\ i \in (i - 1) + 1..n /\ draw[i] \in 1..n
  BY DrawFacts
<1>2. g[1][i] = g[i - 1][i]
  <2> DEFINE l == i - 1
  <2>1. l \in 1..n /\ i \in l + 1..n
    BY <1>1
  <2> HIDE DEF l
  <2>2. g[1][i] = g[l][i]
    BY <2>1, RunSettles
  <2> QED BY <2>2 DEF l
<1>3. g[i] \in Places(n) /\ g[i - 1] = Swap(g[i], i, draw[i])
  BY <1>1, RunFacts
<1>4. g[i - 1][i] = g[i][draw[i]]
  BY <1>1, <1>3, SwapMoves
<1> QED BY <1>2, <1>4

(* Different draws give different orders. *)
LEMMA DrawsDiffer ==
  ASSUME NEW n \in Nat \ {0}, NEW draw \in Draws(n), NEW other \in Draws(n),
         NEW g, IsRun(g, n, draw), NEW h, IsRun(h, n, other), g[1] = h[1]
  PROVE  draw = other
<1> DEFINE G == {i \in 1..n : g[i] = h[i]}
<1>1. n \in G
  <2>1. n \in 1..n
    OBVIOUS
  <2> QED BY <2>1, RunFacts
<1>2. ASSUME NEW i \in 2..n, g[i] = h[i] PROVE draw[i] = other[i]
  <2>1. i \in 1..n /\ draw[i] \in 1..n /\ other[i] \in 1..n
    BY DrawFacts
  <2>2. g[i][draw[i]] = g[i][other[i]]
    <3>1. g[1][i] = g[i][draw[i]]
      BY DrawSettles
    <3>2. h[1][i] = h[i][other[i]]
      BY DrawSettles
    <3> QED BY <1>2, <3>1, <3>2
  <2>3. g[i] \in Orders(n)
    BY <2>1, RunKeepsOrder
  <2> DEFINE p == g[i]
             k == draw[i]
             l == other[i]
  <2>4. p \in Orders(n) /\ k \in 1..n /\ l \in 1..n /\ p[k] = p[l]
    BY <2>1, <2>2, <2>3
  <2> HIDE DEF p, k, l
  <2>5. \A a, b \in 1..n : p[a] = p[b] => a = b
    BY <2>4, OrderFacts
  <2>6. k = l
    BY <2>4, <2>5, Zenon
  <2> QED BY <2>6 DEF k, l
<1>3. ASSUME NEW i \in 2..n, i \in G PROVE i - 1 \in G
  <2>1. i - 1 \in 1..n /\ draw[i] = other[i] /\ g[i] = h[i]
    BY <1>2, <1>3
  <2>2. g[i - 1] = Swap(g[i], i, draw[i]) /\ h[i - 1] = Swap(h[i], i, other[i])
    BY RunFacts
  <2> QED BY <2>1, <2>2
<1> HIDE DEF G
<1>4. 1..n \subseteq G
  BY <1>1, <1>3, Downward
<1>5. \A i \in 2..n : draw[i] = other[i]
  <2> TAKE i \in 2..n
  <2>1. i \in 1..n
    OBVIOUS
  <2>2. g[i] = h[i]
    BY <1>4, <2>1 DEF G
  <2> QED BY <1>2, <2>2
<1>6. draw \in [2..n -> 1..n] /\ other \in [2..n -> 1..n]
  BY DrawFacts
<1> QED BY <1>5, <1>6

(* Every order comes of some draws: in each round, draw the place that holds the
   card this place is to have. *)
LEMMA OrderIsReached ==
  ASSUME NEW n \in Nat \ {0}, NEW p \in Orders(n)
  PROVE  \E draw \in Draws(n) : \E g : IsRun(g, n, draw) /\ g[1] = p
<1> DEFINE Where(t, i) == CHOOSE j \in 1..n : t[j] = p[i]
           at(m) == n + 1 - m
           step == [m \in 1..n - 1 |-> [t \in Orders(n) |-> Swap(t, at(m), Where(t, at(m)))]]
<1>1. ASSUME NEW t \in Orders(n), NEW i \in 1..n
      PROVE  Where(t, i) \in 1..n /\ t[Where(t, i)] = p[i]
  <2>1. p[i] \in 1..n
    BY OrderFacts
  <2>2. \E j \in 1..n : t[j] = p[i]
    BY <2>1, OrderFacts
  <2> QED BY <2>2
<1> HIDE DEF Where
<1>2. step \in [1..n - 1 -> [Orders(n) -> Orders(n)]]
  <2>1. ASSUME NEW m \in 1..n - 1, NEW t \in Orders(n)
        PROVE  Swap(t, at(m), Where(t, at(m))) \in Orders(n)
    <3>1. at(m) \in 1..n
      OBVIOUS
    <3> HIDE DEF at
    <3> QED BY <1>1, <3>1, SwapKeepsOrder
  <2> HIDE DEF at
  <2> QED BY <2>1
<1> HIDE DEF step
<1>3. PICK f \in [0..n - 1 -> Orders(n)] :
        f[0] = Id(n) /\ \A m \in 1..n - 1 : f[m] = step[m][f[m - 1]]
  <2> DEFINE X == Orders(n)
             b == Id(n)
             last == n - 1
  <2>1. b \in X /\ last \in Nat /\ step \in [1..last -> [X -> X]]
    BY <1>2, IdIsOrder
  <2> HIDE DEF X, b, last
  <2>2. \E f \in [0..last -> X] : f[0] = b /\ \A m \in 1..last : f[m] = step[m][f[m - 1]]
    BY <2>1, LoopRuns
  <2> QED BY <2>2 DEF X, b, last
<1> DEFINE g == [i \in 1..n |-> f[n - i]]
           draw == [i \in 2..n |-> Where(g[i], i)]
<1>4. g \in [1..n -> Orders(n)] /\ g[n] = Id(n)
  <2>1. \A i \in 1..n : n - i \in 0..n - 1
    OBVIOUS
  <2>2. n \in 1..n /\ n - n = 0
    OBVIOUS
  <2> QED BY <1>3, <2>1, <2>2
<1>5. ASSUME NEW i \in 2..n
      PROVE  g[i - 1] = Swap(g[i], i, draw[i])
  <2> DEFINE m == n - (i - 1)
  <2>1. /\ m \in 1..n - 1 /\ m - 1 = n - i /\ at(m) = i /\ i \in 1..n /\ i - 1 \in 1..n
        /\ m - 1 \in 0..n - 1
    OBVIOUS
  <2>2. g[i - 1] = f[m] /\ g[i] = f[m - 1]
    BY <2>1
  <2>3. draw[i] = Where(g[i], i)
    OBVIOUS
  <2> HIDE DEF m, at, g, draw
  <2>4. f[m] = step[m][f[m - 1]] /\ f[m - 1] \in Orders(n)
    BY <1>3, <2>1
  <2>5. step[m][f[m - 1]] = Swap(f[m - 1], at(m), Where(f[m - 1], at(m)))
    BY <2>1, <2>4 DEF step
  <2> QED BY <2>1, <2>2, <2>3, <2>4, <2>5
<1> HIDE DEF g
<1>6. \A i \in 1..n : g[i] \in Orders(n)
  BY <1>4
<1> DEFINE G == {i \in 1..n : \A k \in i + 1..n : g[i][k] = p[k]}
<1>7. n \in G
  OBVIOUS
<1>8. ASSUME NEW i \in 2..n, i \in G
      PROVE  i - 1 \in G
  <2>1. i \in 1..n /\ i - 1 \in 1..n /\ g[i] \in Orders(n)
    BY <1>6
  <2>2. draw[i] \in 1..n /\ g[i][draw[i]] = p[i]
    BY <1>1, <2>1
  <2> DEFINE t == g[i]
             j == draw[i]
             u == g[i - 1]
  <2>3. t \in Places(n) /\ j \in 1..n
    BY <2>1, <2>2, OrderFacts
  <2>4. u = Swap(t, i, j) /\ t[j] = p[i]
    BY <1>5, <2>2
  <2> HIDE DEF t, j, u, draw
  <2>5. u[i] = t[j] /\ \A k \in 1..n : k # i /\ k # j => u[k] = t[k]
    BY <2>1, <2>3, <2>4, SwapMoves
  <2>6. g[i - 1][i] = p[i]
    BY <2>4, <2>5 DEF u
  <2>7. ASSUME NEW k \in i + 1..n PROVE g[i - 1][k] = p[k]
    <3>1. k \in 1..n /\ g[i][k] = p[k] /\ k # i
      BY <1>8
    <3>2. draw[i] # k
      <4>1. p[i] # p[k]
        <5>1. \A a, b \in 1..n : p[a] = p[b] => a = b
          BY OrderFacts
        <5> QED BY <2>1, <3>1, <5>1, Zenon
      <4> QED BY <2>2, <3>1, <4>1
    <3> QED BY <2>5, <3>1, <3>2 DEF t, j, u
  <2>8. \A k \in (i - 1) + 1..n : g[i - 1][k] = p[k]
    <3> TAKE k \in (i - 1) + 1..n
    <3>1. k = i \/ k \in i + 1..n
      OBVIOUS
    <3> QED BY <2>6, <2>7, <3>1
  <2> QED BY <2>1, <2>8
<1>9. \A i \in 1..n : \A k \in i + 1..n : g[i][k] = p[k]
  <2> HIDE DEF G
  <2>1. 1..n \subseteq G
    BY <1>7, <1>8, Downward
  <2> QED BY <2>1 DEF G
<1>10. draw \in Draws(n)
  <2>1. ASSUME NEW i \in 2..n
        PROVE  draw[i] \in 1..n /\ draw[i] <= i
    <3>1. i \in 1..n /\ g[i] \in Orders(n)
      BY <1>6
    <3>2. draw[i] \in 1..n /\ g[i][draw[i]] = p[i]
      BY <1>1, <3>1
    <3> DEFINE j == draw[i]
    <3> HIDE DEF draw, j
    <3>3. ASSUME j > i PROVE FALSE
      <4>1. j \in 1..n /\ j \in i + 1..n /\ g[i][j] = p[i] /\ j # i
        BY <3>1, <3>2, <3>3 DEF j
      <4>2. p[j] = p[i]
        BY <1>9, <3>1, <4>1
      <4>3. \A a, b \in 1..n : p[a] = p[b] => a = b
        BY OrderFacts
      <4>4. j = i
        BY <3>1, <4>1, <4>2, <4>3, Zenon
      <4> QED BY <4>1, <4>4
    <3> QED BY <3>2, <3>3 DEF j
  <2>2. draw \in [2..n -> 1..n]
    <3>1. \A i \in 2..n : Where(g[i], i) \in 1..n
      BY <2>1
    <3> QED BY <3>1
  <2> HIDE DEF draw
  <2> QED BY <2>1, <2>2 DEF Draws
<1>11. IsRun(g, n, draw)
  <2>1. g \in [1..n -> Places(n)]
    <3>1. \A i \in 1..n : g[i] \in Places(n)
      BY <1>6, OrderFacts
    <3> QED BY <1>4, <3>1
  <2> HIDE DEF draw
  <2> QED BY <1>4, <1>5, <2>1 DEF IsRun
<1>12. g[1] = p
  <2> DEFINE q == g[1]
  <2>1. q \in Orders(n) /\ 1 \in 1..n
    BY <1>6
  <2>2. \A k \in 2..n : q[k] = p[k]
    BY <1>9, <2>1
  <2> HIDE DEF q
  <2>3. q[1] = p[1]
    <3>1. p[1] \in 1..n
      BY <2>1, OrderFacts
    <3>2. PICK k \in 1..n : q[k] = p[1]
      BY <2>1, <3>1, OrderFacts
    <3>3. CASE k = 1
      BY <3>2, <3>3
    <3>4. CASE k # 1
      <4>1. k \in 2..n
        BY <3>4
      <4>2. p[k] = p[1]
        BY <2>2, <3>2, <4>1
      <4>3. \A a, b \in 1..n : p[a] = p[b] => a = b
        BY OrderFacts
      <4>4. k = 1
        BY <2>1, <4>2, <4>3, Zenon
      <4> QED BY <3>4, <4>4
    <3> QED BY <3>3, <3>4
  <2>4. \A k \in 1..n : q[k] = p[k]
    BY <2>2, <2>3
  <2>5. q \in [1..n -> 1..n] /\ p \in [1..n -> 1..n]
    BY <2>1, OrderFacts
  <2>6. q = p
    BY <2>4, <2>5
  <2> QED BY <2>6 DEF q
<1> HIDE DEF draw
<1> QED BY <1>10, <1>11, <1>12

LEMMA RunIsUnique ==
  ASSUME NEW n \in Nat \ {0}, NEW draw, NEW g, IsRun(g, n, draw), NEW h, IsRun(h, n, draw)
  PROVE  g[1] = h[1]
<1> DEFINE G == {i \in 1..n : g[i] = h[i]}
<1>1. n \in G
  <2>1. n \in 1..n
    OBVIOUS
  <2> QED BY <2>1, RunFacts
<1>2. ASSUME NEW i \in 2..n, i \in G PROVE i - 1 \in G
  <2>1. i - 1 \in 1..n /\ g[i] = h[i]
    BY <1>2
  <2>2. g[i - 1] = Swap(g[i], i, draw[i])
    BY RunFacts
  <2>3. h[i - 1] = Swap(h[i], i, draw[i])
    BY RunFacts
  <2> QED BY <2>1, <2>2, <2>3
<1> HIDE DEF G
<1>3. 1..n \subseteq G
  BY <1>1, <1>2, Downward
<1>4. 1 \in G
  BY <1>3
<1> QED BY <1>4 DEF G

LEMMA FiniteOrders ==
  ASSUME NEW n \in Nat
  PROVE  IsFiniteSet(Orders(n))
<1> DEFINE Pairs == SUBSET ((1..n) \X (1..n))
           graph == [p \in Orders(n) |-> {<<k, p[k]>> : k \in 1..n}]
<1>1. IsFiniteSet(Pairs)
  <2>1. IsFiniteSet(1..n)
    BY FS_Interval
  <2>2. IsFiniteSet((1..n) \X (1..n))
    BY <2>1, FS_Product
  <2> QED BY <2>2, FS_SUBSET
<1>2. graph \in [Orders(n) -> Pairs]
  <2>1. ASSUME NEW p \in Orders(n) PROVE {<<k, p[k]>> : k \in 1..n} \in Pairs
    <3>1. \A k \in 1..n : p[k] \in 1..n
      BY OrderFacts
    <3> QED BY <3>1
  <2> HIDE DEF Pairs
  <2> QED BY <2>1
<1>3. ASSUME NEW p \in Orders(n), NEW q \in Orders(n), graph[p] = graph[q]
      PROVE  p = q
  <2>1. p \in [1..n -> 1..n] /\ q \in [1..n -> 1..n]
    BY OrderFacts
  <2>2. {<<k, p[k]>> : k \in 1..n} = {<<k, q[k]>> : k \in 1..n}
    BY <1>3
  <2>3. ASSUME NEW k \in 1..n PROVE p[k] = q[k]
    <3>1. <<k, p[k]>> \in {<<l, q[l]>> : l \in 1..n}
      BY <2>2
    <3> QED BY <3>1
  <2> QED BY <2>1, <2>3
<1> HIDE DEF Pairs, graph
<1>4. graph \in Injection(Orders(n), Pairs)
  BY <1>2, <1>3 DEF Injection, IsInjective
<1> QED BY <1>1, <1>4, FS_Injection

(* There are as many sequences of draws as orders. *)
LEMMA AsManyDraws ==
  ASSUME NEW n \in Nat
  PROVE  Cardinality(Draws(n)) = Cardinality(Orders(n))
<1> DEFINE Reached(draw, p) == \E g : IsRun(g, n, draw) /\ g[1] = p
           end == [draw \in Draws(n) |-> CHOOSE p : Reached(draw, p)]
<1>1. CASE n = 0
  <2>1. 2..n = {} /\ 1..n = {}
    BY <1>1
  <2>2. Draws(n) = [{} -> {}]
    BY <2>1 DEF Draws
  <2>3. Orders(n) = [{} -> {}]
    BY <2>1 DEF Orders, Bijection, Injection, Surjection, IsInjective
  <2> QED BY <2>2, <2>3
<1>2. CASE n # 0
  <2>1. n \in Nat \ {0} /\ 1 \in 1..n
    BY <1>2
  <2>2. ASSUME NEW draw \in Draws(n)
        PROVE  Reached(draw, end[draw]) /\ end[draw] \in Orders(n)
    <3>1. PICK g : IsRun(g, n, draw)
      BY <2>1, RunExists
    <3>2. Reached(draw, g[1])
      BY <3>1
    <3>3. end[draw] = CHOOSE p : Reached(draw, p)
      OBVIOUS
    <3> HIDE DEF end
    <3>4. Reached(draw, end[draw])
      <4> HIDE DEF Reached
      <4> QED BY <3>2, <3>3
    <3>5. PICK h : IsRun(h, n, draw) /\ h[1] = end[draw]
      BY <3>4
    <3>6. h[1] \in Orders(n)
      BY <2>1, <3>5, RunKeepsOrder
    <3> QED BY <3>4, <3>5, <3>6
  <2>3. end = [draw \in Draws(n) |-> end[draw]]
    OBVIOUS
  <2> HIDE DEF end
  <2>4. end \in [Draws(n) -> Orders(n)]
    BY <2>2, <2>3
  <2>5. ASSUME NEW draw \in Draws(n), NEW other \in Draws(n), end[draw] = end[other]
        PROVE  draw = other
    <3>1. PICK g : IsRun(g, n, draw) /\ g[1] = end[draw]
      BY <2>2
    <3>2. PICK h : IsRun(h, n, other) /\ h[1] = end[other]
      BY <2>2
    <3>3. g[1] = h[1]
      BY <2>5, <3>1, <3>2
    <3> QED BY <2>1, <3>1, <3>2, <3>3, DrawsDiffer
  <2>6. ASSUME NEW p \in Orders(n)
        PROVE  \E draw \in Draws(n) : end[draw] = p
    <3>1. PICK draw \in Draws(n) : Reached(draw, p)
      BY <2>1, OrderIsReached
    <3>2. PICK g : IsRun(g, n, draw) /\ g[1] = p
      BY <3>1
    <3>3. PICK h : IsRun(h, n, draw) /\ h[1] = end[draw]
      BY <2>2
    <3>4. g[1] = h[1]
      BY <2>1, <3>2, <3>3, RunIsUnique
    <3> QED BY <3>2, <3>3, <3>4
  <2>7. end \in Injection(Draws(n), Orders(n)) /\ end \in Surjection(Draws(n), Orders(n))
    BY <2>4, <2>5, <2>6 DEF Injection, Surjection, IsInjective
  <2> QED BY <2>7, FiniteOrders, FS_Injection
<1> QED BY <1>1, <1>2

(* The orders that Shuffle reaches are all the orders. *)
LEMMA ShuffleReaches ==
  ASSUME NEW T, NEW s \in Seq(T)
  PROVE  {Shuffled(s, draw) : draw \in Draws(Len(s))}
           = {[i \in DOMAIN s |-> s[p[i]]] : p \in Orders(Len(s))}
<1> DEFINE n == Len(s)
           Shown(p) == [i \in 1..n |-> s[p[i]]]
<1>1. n \in Nat /\ DOMAIN s = 1..n
  OBVIOUS
<1>2. CASE s = <<>>
  <2>1. n = 0 /\ 2..n = {} /\ 1..n = {}
    BY <1>2
  <2>2. \A draw : Shuffled(s, draw) = <<>>
    BY <1>2 DEF Shuffled
  <2>3. \A p : Shown(p) = <<>>
    BY <2>1
  <2>4. Draws(n) = [{} -> {}]
    BY <2>1 DEF Draws
  <2>5. Orders(n) = [{} -> {}]
    BY <2>1 DEF Orders, Bijection, Injection, Surjection, IsInjective
  <2>6. {Shuffled(s, draw) : draw \in Draws(n)} = {Shown(p) : p \in Orders(n)}
    BY <2>2, <2>3, <2>4, <2>5
  <2> QED BY <1>1, <2>6
<1>3. CASE s # <<>>
  <2>1. n \in Nat \ {0} /\ 1 \in 1..n
    BY <1>3
  <2>2. ASSUME NEW draw \in Draws(n), NEW g, IsRun(g, n, draw)
        PROVE  Shuffled(s, draw) = Shown(g[1])
    BY <1>3, <2>2, ShuffledIs
  <2> HIDE DEF n, Shown
  <2>3. ASSUME NEW draw \in Draws(n)
        PROVE  \E p \in Orders(n) : Shuffled(s, draw) = Shown(p)
    <3>1. PICK g : IsRun(g, n, draw)
      BY <2>1, RunExists
    <3>2. g[1] \in Orders(n)
      BY <2>1, <3>1, RunKeepsOrder
    <3> QED BY <2>2, <3>1, <3>2
  <2>4. ASSUME NEW p \in Orders(n)
        PROVE  \E draw \in Draws(n) : Shuffled(s, draw) = Shown(p)
    <3>1. PICK draw \in Draws(n) : \E g : IsRun(g, n, draw) /\ g[1] = p
      BY <2>1, OrderIsReached
    <3>2. PICK g : IsRun(g, n, draw) /\ g[1] = p
      BY <3>1
    <3> QED BY <2>2, <3>2
  <2>5. {Shuffled(s, draw) : draw \in Draws(n)} = {Shown(p) : p \in Orders(n)}
    BY <2>3, <2>4
  <2> QED BY <1>1, <2>5 DEF n, Shown
<1> QED BY <1>2, <1>3

LEMMA UnbiasedState ==
  ASSUME CardsTypeOK
  PROVE  ShuffleIsUnbiased
<1>1. deck \in Seq(1..DeckSize)
  BY DEF CardsTypeOK
<1>2. DOMAIN deck = 1..Len(deck) /\ Len(deck) \in Nat
  BY <1>1
<1>3. Bijection(DOMAIN deck, DOMAIN deck) = Orders(Len(deck))
  BY <1>2 DEF Orders
<1>4. {Shuffled(deck, draw) : draw \in Draws(Len(deck))}
        = {[i \in DOMAIN deck |-> deck[p[i]]] : p \in Orders(Len(deck))}
  BY <1>1, ShuffleReaches
<1>5. Cardinality(Draws(Len(deck))) = Cardinality(Orders(Len(deck)))
  BY <1>2, AsManyDraws
<1> QED BY <1>3, <1>4, <1>5 DEF ShuffleIsUnbiased

(* The cards of a deck; the deck and the hands during DealTo. *)
CardIds == 1..DeckSize
Tables == [deck : {s \in Seq(CardIds) : Len(s) <= DeckSize}, hands : [Owners -> Seq(CardIds)]]

LEMMA CardsTypes ==
  ASSUME CardsTypeOK
  PROVE  /\ deck \in Seq(CardIds) /\ Len(deck) \in Nat /\ Len(deck) <= DeckSize
         /\ hands \in [Owners -> Seq(CardIds)] /\ table \in Seq(CardIds)
  BY DEF CardsTypeOK, CardIds

LEMMA DealOneTypes ==
  ASSUME NEW dh \in Tables, NEW o \in Owners
  PROVE  DealOne(dh, o) \in Tables
<1>1. CASE dh.deck = <<>>
  BY <1>1 DEF DealOne
<1>2. CASE dh.deck # <<>>
  <2>1. dh.deck \in Seq(CardIds) /\ Len(dh.deck) <= DeckSize /\ dh.hands \in [Owners -> Seq(CardIds)]
    BY DEF Tables
  <2>2. Head(dh.deck) \in CardIds /\ Tail(dh.deck) \in Seq(CardIds) /\ Len(Tail(dh.deck)) <= DeckSize
    BY <1>2, <2>1, CardsAssumption
  <2>3. Append(dh.hands[o], Head(dh.deck)) \in Seq(CardIds)
    BY <2>1, <2>2
  <2>4. [dh.hands EXCEPT ![o] = Append(@, Head(dh.deck))] \in [Owners -> Seq(CardIds)]
    BY <2>1, <2>3
  <2> QED BY <1>2, <2>2, <2>4 DEF DealOne, Tables
<1> QED BY <1>1, <1>2

(* Whom the m-th card is dealt to. *)
Turn(to, m) == to[((m - 1) % Len(to)) + 1]

LEMMA TurnIsAnOwner ==
  ASSUME NEW to \in Seq(Owners), NEW n \in Nat, NEW m \in 1..n * Len(to)
  PROVE  Turn(to, m) \in Owners
<1> DEFINE w == Len(to)
           l == m - 1
<1>1. w \in Nat /\ w # 0
  <2>1. w \in Nat
    OBVIOUS
  <2>2. CASE w = 0
    <3>1. n * Len(to) = 0
      BY <2>2
    <3>2. 1..n * Len(to) = {}
      BY <3>1
    <3> QED BY <3>2
  <2> QED BY <2>1, <2>2
<1>2. l \in Nat
  <2>1. n * w \in Nat
    BY <1>1
  <2> QED BY <2>1
<1> HIDE DEF w, l
<1>3. l % w \in 0..w - 1
  BY <1>1, <1>2, DivMod
<1>4. (l % w) + 1 \in 1..w
  BY <1>1, <1>3
<1>5. to[(l % w) + 1] \in Owners
  BY <1>4 DEF w
<1> QED BY <1>5 DEF Turn, w, l

(* DealTo runs to its end: the table after each card. *)
IsDeal(a, to, n) ==
  /\ a \in [0..n * Len(to) -> Tables]
  /\ a[0] = [deck |-> deck, hands |-> hands]
  /\ \A m \in 1..n * Len(to) : a[m] = DealOne(a[m - 1], Turn(to, m))

LEMMA DealRuns ==
  ASSUME CardsTypeOK, NEW to \in Seq(Owners), NEW n \in Nat
  PROVE  \E a : IsDeal(a, to, n) /\ Dealt(to, n) = a[n * Len(to)]
<1> DEFINE last == n * Len(to)
           b == [deck |-> deck, hands |-> hands]
           step == [m \in 1..last |-> [dh \in Tables |-> DealOne(dh, Turn(to, m))]]
           After(f) == [m \in 0..n * Len(to) |->
                          IF m = 0 THEN [deck |-> deck, hands |-> hands]
                                   ELSE DealOne(f[m - 1], to[((m - 1) % Len(to)) + 1])]
           after == CHOOSE f : f = After(f)
<1>1. last \in Nat
  <2>1. Len(to) \in Nat
    OBVIOUS
  <2> QED BY <2>1
<1>2. b \in Tables
  BY CardsTypes DEF Tables
<1>3. \A m \in 1..last : Turn(to, m) \in Owners
  BY TurnIsAnOwner
<1>4. step \in [1..last -> [Tables -> Tables]]
  <2>1. ASSUME NEW m \in 1..last, NEW dh \in Tables
        PROVE  DealOne(dh, Turn(to, m)) \in Tables
    BY <1>3, DealOneTypes
  <2> HIDE DEF last
  <2> QED BY <2>1
<1> HIDE DEF last, b, step
<1>5. PICK a \in [0..last -> Tables] : a[0] = b /\ \A m \in 1..last : a[m] = step[m][a[m - 1]]
  BY <1>1, <1>2, <1>4, LoopRuns
<1>6. ASSUME NEW m \in 1..last
      PROVE  a[m] = DealOne(a[m - 1], Turn(to, m))
  <2>1. a[m] = step[m][a[m - 1]] /\ a[m - 1] \in Tables
    <3>1. m - 1 \in 0..last
      BY <1>1
    <3> QED BY <1>5, <3>1
  <2> QED BY <2>1 DEF step
<1>7. a = After(a)
  <2>1. ASSUME NEW m \in 0..last
        PROVE  a[m] = IF m = 0 THEN b ELSE DealOne(a[m - 1], Turn(to, m))
    <3>1. m # 0 => m \in 1..last
      BY <1>1
    <3> QED BY <1>5, <1>6, <3>1
  <2>2. a = [m \in 0..last |-> a[m]]
    BY <1>5
  <2> QED BY <2>1, <2>2 DEF last, b, Turn
<1>8. after = After(after)
  <2> HIDE DEF After
  <2> QED BY <1>7
<1>9. Dealt(to, n) = after[last]
  BY DEF Dealt, last
<1> HIDE DEF after
<1>10. ASSUME NEW m \in 0..last
       PROVE  after[m] = IF m = 0 THEN b ELSE DealOne(after[m - 1], Turn(to, m))
  BY <1>8 DEF last, b, Turn
<1> DEFINE G == {m \in 0..last : after[m] = a[m]}
<1>11. 0 \in G
  <2>1. 0 \in 0..last
    BY <1>1
  <2> QED BY <1>5, <1>10, <2>1
<1>12. ASSUME NEW m \in 1..last, m - 1 \in G PROVE m \in G
  <2>1. m \in 0..last /\ m # 0
    BY <1>1
  <2> QED BY <1>6, <1>10, <1>12, <2>1
<1> HIDE DEF G
<1>13. 0..last \subseteq G
  BY <1>1, <1>11, <1>12, Upward
<1>14. after[last] = a[last]
  BY <1>1, <1>13 DEF G
<1>15. IsDeal(a, to, n)
  BY <1>5, <1>6 DEF IsDeal, last, b
<1> QED BY <1>9, <1>14, <1>15 DEF last

LEMMA DealtTypes ==
  ASSUME CardsTypeOK, NEW to \in Seq(Owners), NEW n \in Nat
  PROVE  Dealt(to, n) \in Tables
<1>1. PICK a : IsDeal(a, to, n) /\ Dealt(to, n) = a[n * Len(to)]
  BY DealRuns
<1>2. n * Len(to) \in Nat
  <2>1. Len(to) \in Nat
    OBVIOUS
  <2> QED BY <2>1
<1> DEFINE last == n * Len(to)
<1>3. a \in [0..last -> Tables] /\ last \in Nat
  BY <1>1, <1>2 DEF IsDeal
<1>4. Dealt(to, n) = a[last]
  BY <1>1
<1> HIDE DEF last
<1> QED BY <1>3, <1>4

LEMMA ShuffledTypes ==
  ASSUME NEW T, NEW s \in Seq(T), NEW draw \in Draws(Len(s))
  PROVE  \E p \in Orders(Len(s)) : Shuffled(s, draw) = [i \in 1..Len(s) |-> s[p[i]]]
<1>1. Shuffled(s, draw) \in {[i \in DOMAIN s |-> s[p[i]]] : p \in Orders(Len(s))}
  BY ShuffleReaches
<1>2. DOMAIN s = 1..Len(s)
  OBVIOUS
<1> QED BY <1>1, <1>2

LEMMA HandsInARow ==
  ASSUME NEW to \in SetToAllKPermutations(Owners)
  PROVE  /\ to \in Seq(Owners)
         /\ \A k, l \in 1..Len(to) : to[k] = to[l] => k = l
<1>1. PICK S \in SUBSET Owners : to \in SetToSeqs(S)
  BY DEF SetToAllKPermutations
<1>2. IsFiniteSet(S)
  BY CardsAssumption, FS_Subset
<1>3. Cardinality(S) \in Nat
  BY <1>2, FS_CardinalityType
<1> DEFINE n == Cardinality(S)
<1>4. to \in [1..n -> S] /\ \A i, j \in 1..n : i # j => to[i] # to[j]
  BY <1>1 DEF SetToSeqs
<1> HIDE DEF n
<1>5. to \in Seq(Owners) /\ Len(to) = n
  <2>1. to \in [1..n -> Owners]
    BY <1>1, <1>4
  <2>2. n \in Nat
    BY <1>3 DEF n
  <2> QED BY <2>1, <2>2, IsASeq
<1> QED BY <1>4, <1>5

LEMMA RemovedIs ==
  ASSUME NEW T, NEW s \in Seq(T), NEW c, Contains(s, c)
  PROVE  \E i \in 1..Len(s) :
           s[i] = c /\ RemoveFirst(s, c) = SubSeq(s, 1, i - 1) \o SubSeq(s, i + 1, Len(s))
<1> DEFINE I == {i \in 1..Len(s) : s[i] = c}
<1>1. I # {} /\ I \subseteq Nat
  BY DEF Contains
<1>2. PICK i \in I : \A j \in I : i <= j
  <2> HIDE DEF I
  <2> QED BY <1>1, LeastNumber
<1>3. Min(I) \in I
  <2> HIDE DEF I
  <2>1. \E x \in I : \A y \in I : x <= y
    BY <1>2
  <2> QED BY <2>1 DEF Min
<1>4. RemoveFirst(s, c) = RemoveAt(s, Min(I))
  BY <1>1 DEF RemoveFirst, SelectInSeq
<1> DEFINE m == Min(I)
<1>5. m \in 1..Len(s) /\ s[m] = c
  BY <1>3
<1>6. RemoveAt(s, m) = SubSeq(s, 1, m - 1) \o SubSeq(s, m + 1, Len(s))
  BY DEF RemoveAt
<1>7. RemoveFirst(s, c) = RemoveAt(s, m)
  BY <1>4
<1> HIDE DEF m, I
<1> QED BY <1>5, <1>6, <1>7

CallsOf(H) == [op : Ops, to : Seq(H), n : Nat, ok : BOOLEAN]

LEMMA CallTypes ==
  ASSUME NEW op \in Ops, NEW to \in Seq(Owners), NEW n \in Nat, NEW ok \in BOOLEAN,
         Call(op, to, n, ok)
  PROVE  did' \in CallsOf(Owners)
<1>1. did' = [op |-> op, to |-> to, n |-> n, ok |-> ok]
  BY DEF Call
<1> QED BY <1>1, Zenon DEF CallsOf

LEMMA CardsTypeStep ==
  ASSUME CardsTypeOK, [CardsNext]_cardsVars
  PROVE  CardsTypeOK'
<1>1. /\ deck \in Seq(CardIds) /\ Len(deck) \in Nat /\ Len(deck) <= DeckSize
      /\ hands \in [Owners -> Seq(CardIds)] /\ table \in Seq(CardIds)
  BY CardsTypes
<1>2. SUFFICES /\ deck' \in Seq(CardIds) /\ Len(deck') <= DeckSize
               /\ hands' \in [Owners -> Seq(CardIds)] /\ table' \in Seq(CardIds)
               /\ did' \in CallsOf(Owners)
  BY DEF CardsTypeOK, CardIds, CallsOf
<1>3. <<>> \in Seq(Owners) /\ \A o \in Owners : <<o>> \in Seq(Owners)
  OBVIOUS
<1>4. CASE Shuffle
  <2>1. PICK draw \in Draws(Len(deck)) : deck' = Shuffled(deck, draw)
    BY <1>4 DEF Shuffle
  <2>2. PICK p \in Orders(Len(deck)) : deck' = [i \in 1..Len(deck) |-> deck[p[i]]]
    BY <1>1, <2>1, ShuffledTypes
  <2>3. \A i \in 1..Len(deck) : deck[p[i]] \in CardIds
    <3> TAKE i \in 1..Len(deck)
    <3>1. p[i] \in 1..Len(deck)
      BY OrderFacts
    <3> QED BY <1>1, <3>1
  <2>4. deck' \in Seq(CardIds) /\ Len(deck') = Len(deck)
    BY <1>1, <2>2, <2>3
  <2>5. did' \in CallsOf(Owners)
    BY <1>3, <1>4, CallTypes DEF Shuffle, Ops
  <2> QED BY <1>1, <1>4, <2>4, <2>5 DEF Shuffle
<1>5. CASE Reset
  <2>1. Original \in Seq(CardIds) /\ Len(Original) <= DeckSize
    BY CardsAssumption DEF Original, CardIds
  <2>2. did' \in CallsOf(Owners)
    BY <1>3, <1>5, CallTypes DEF Reset, Ops
  <2> QED BY <1>1, <1>5, <2>1, <2>2 DEF Reset
<1>6. ASSUME NEW n \in 0..DeckSize, Deal(n)
      PROVE  /\ deck' \in Seq(CardIds) /\ Len(deck') <= DeckSize
             /\ hands' \in [Owners -> Seq(CardIds)] /\ table' \in Seq(CardIds)
             /\ did' \in CallsOf(Owners)
  <2>1. did' \in CallsOf(Owners) /\ hands' = hands
    <3>1. n \in Nat /\ (n <= Len(deck)) \in BOOLEAN
      OBVIOUS
    <3> QED BY <1>3, <1>6, <3>1, CallTypes DEF Deal, Ops
  <2>2. CASE n <= Len(deck)
    <3>1. /\ table' = table \o SubSeq(deck, 1, n)
          /\ deck' = SubSeq(deck, n + 1, Len(deck))
      BY <1>6, <2>2 DEF Deal
    <3>2. SubSeq(deck, 1, n) \in Seq(CardIds)
      BY <1>1, <2>2
    <3>3. deck' \in Seq(CardIds) /\ Len(deck') = Len(deck) - n
      BY <1>1, <2>2, <3>1
    <3>4. Len(deck') <= DeckSize
      BY <1>1, <3>3, CardsAssumption
    <3> QED BY <1>1, <2>1, <3>1, <3>2, <3>3, <3>4
  <2>3. CASE ~(n <= Len(deck))
    BY <1>1, <1>6, <2>1, <2>3 DEF Deal
  <2> QED BY <2>2, <2>3
<1>7. ASSUME NEW to \in SetToAllKPermutations(Owners), NEW n \in 0..MaxRounds, DealTo(to, n)
      PROVE  /\ deck' \in Seq(CardIds) /\ Len(deck') <= DeckSize
             /\ hands' \in [Owners -> Seq(CardIds)] /\ table' \in Seq(CardIds)
             /\ did' \in CallsOf(Owners)
  <2>1. to \in Seq(Owners)
    BY HandsInARow
  <2>2. table' = table
    BY <1>7 DEF DealTo
  <2>3. did' \in CallsOf(Owners)
    <3>1. n \in Nat /\ Enough(to, n) \in BOOLEAN
      BY DEF Enough
    <3> QED BY <1>7, <2>1, <3>1, CallTypes DEF DealTo, Ops
  <2>4. Dealt(to, n) \in Tables
    BY <2>1, DealtTypes
  <2>5. CASE Enough(to, n)
    <3>1. deck' = Dealt(to, n).deck /\ hands' = Dealt(to, n).hands
      BY <1>7, <2>5 DEF DealTo
    <3> QED BY <1>1, <2>2, <2>3, <2>4, <3>1 DEF Tables
  <2>6. CASE ~Enough(to, n)
    BY <1>1, <1>7, <2>2, <2>3, <2>6 DEF DealTo
  <2> QED BY <2>5, <2>6
<1>8. ASSUME NEW o \in Owners, HandAdd(o)
      PROVE  /\ deck' \in Seq(CardIds) /\ Len(deck') <= DeckSize
             /\ hands' \in [Owners -> Seq(CardIds)] /\ table' \in Seq(CardIds)
             /\ did' \in CallsOf(Owners)
  <2>1. hands[o] \o table \in Seq(CardIds)
    BY <1>1
  <2>2. hands' = [hands EXCEPT ![o] = hands[o] \o table] /\ table' = <<>> /\ deck' = deck
    BY <1>8 DEF HandAdd
  <2>3. did' \in CallsOf(Owners)
    BY <1>3, <1>8, CallTypes DEF HandAdd, Ops
  <2> QED BY <1>1, <2>1, <2>2, <2>3
<1>9. ASSUME NEW o \in Owners, NEW c \in 1..DeckSize, HandRemove(o, c)
      PROVE  /\ deck' \in Seq(CardIds) /\ Len(deck') <= DeckSize
             /\ hands' \in [Owners -> Seq(CardIds)] /\ table' \in Seq(CardIds)
             /\ did' \in CallsOf(Owners)
  <2>1. did' \in CallsOf(Owners) /\ deck' = deck
    <3>1. c \in Nat /\ Contains(hands[o], c) \in BOOLEAN
      BY DEF Contains
    <3> QED BY <1>3, <1>9, <3>1, CallTypes DEF HandRemove, Ops
  <2>2. CASE Contains(hands[o], c)
    <3>1. hands[o] \in Seq(CardIds)
      BY <1>1
    <3>2. PICK i \in 1..Len(hands[o]) :
            RemoveFirst(hands[o], c)
              = SubSeq(hands[o], 1, i - 1) \o SubSeq(hands[o], i + 1, Len(hands[o]))
      BY <2>2, <3>1, RemovedIs
    <3>3. RemoveFirst(hands[o], c) \in Seq(CardIds)
      <4> DEFINE s == hands[o]
      <4>1. s \in Seq(CardIds) /\ i \in 1..Len(s)
        BY <3>1
      <4> HIDE DEF s
      <4>2. SubSeq(s, 1, i - 1) \in Seq(CardIds) /\ SubSeq(s, i + 1, Len(s)) \in Seq(CardIds)
        BY <4>1
      <4>3. SubSeq(s, 1, i - 1) \o SubSeq(s, i + 1, Len(s)) \in Seq(CardIds)
        BY <4>2
      <4> QED BY <3>2, <4>3 DEF s
    <3>4. /\ hands' = [hands EXCEPT ![o] = RemoveFirst(hands[o], c)]
          /\ table' = Append(table, c)
      BY <1>9, <2>2 DEF HandRemove
    <3>5. table' \in Seq(CardIds)
      BY <1>1, <3>4 DEF CardIds
    <3> QED BY <1>1, <2>1, <3>3, <3>4, <3>5
  <2>3. CASE ~Contains(hands[o], c)
    BY <1>1, <1>9, <2>1, <2>3 DEF HandRemove
  <2> QED BY <2>2, <2>3
<1>10. CASE UNCHANGED cardsVars
  BY <1>1, <1>10 DEF cardsVars, CardsTypeOK, CallsOf
<1> QED BY <1>4, <1>5, <1>6, <1>7, <1>8, <1>9, <1>10 DEF CardsNext

LEMMA CardsTypeInit ==
  ASSUME CardsInit
  PROVE  CardsTypeOK
<1>1. Original \in Seq(1..DeckSize) /\ Len(Original) <= DeckSize
  BY CardsAssumption DEF Original
<1>2. hands \in [Owners -> Seq(1..DeckSize)]
  BY DEF CardsInit
<1>3. did \in [op : Ops, to : Seq(Owners), n : Nat, ok : BOOLEAN]
  <2>1. did = [op |-> "new", to |-> <<>>, n |-> 0, ok |-> TRUE]
    BY DEF CardsInit
  <2>2. <<>> \in Seq(Owners) /\ 0 \in Nat
    OBVIOUS
  <2> QED BY <2>1, <2>2 DEF Ops
<1> QED BY <1>1, <1>2, <1>3 DEF CardsInit, CardsTypeOK

LEMMA CardsTypesHold == CardsSpec => []CardsTypeOK
<1> QED BY CardsTypeInit, CardsTypeStep, PTL DEF CardsSpec

(* Whatever the deck holds, shuffling it reaches each order of its cards by one
   sequence of draws. *)
THEOREM ShuffleIsFair == CardsSpec => []ShuffleIsUnbiased
<1> QED BY CardsTypesHold, UnbiasedState, PTL

(* How often a card occurs in a sequence. *)
Spots(s, c) == {i \in DOMAIN s : s[i] = c}

LEMMA CopiesType ==
  ASSUME NEW T, NEW s \in Seq(T), NEW c
  PROVE  IsFiniteSet(Spots(s, c)) /\ Copies(s, c) = Cardinality(Spots(s, c)) /\ Copies(s, c) \in Nat
<1>1. IsFiniteSet(1..Len(s))
  BY FS_Interval
<1>2. Spots(s, c) \in SUBSET (1..Len(s))
  BY DEF Spots
<1>3. IsFiniteSet(Spots(s, c))
  BY <1>1, <1>2, FS_Subset
<1>4. Copies(s, c) = Cardinality(Spots(s, c))
  BY DEF Copies, Spots
<1> QED BY <1>3, <1>4, FS_CardinalityType

LEMMA CopiesConcat ==
  ASSUME NEW T, NEW s \in Seq(T), NEW t \in Seq(T), NEW c
  PROVE  Copies(s \o t, c) = Copies(s, c) + Copies(t, c)
<1> DEFINE A == Spots(s, c)
           B == Spots(t, c)
           n == Len(s)
           C == {n + i : i \in B}
           shift == [i \in B |-> n + i]
<1>1. n \in Nat /\ A \subseteq 1..n /\ B \subseteq Nat /\ \A i \in B : i >= 1
  BY DEF Spots
<1>2. Spots(s \o t, c) = A \cup C
  <2>1. s \o t \in Seq(T) /\ Len(s \o t) = n + Len(t) /\ DOMAIN (s \o t) = 1..n + Len(t)
    OBVIOUS
  <2>2. ASSUME NEW i \in Spots(s \o t, c) PROVE i \in A \cup C
    <3>1. i \in 1..n + Len(t) /\ (s \o t)[i] = c
      BY <2>1 DEF Spots
    <3>2. CASE i <= n
      <4>1. i \in DOMAIN s /\ s[i] = c
        BY <3>1, <3>2
      <4> QED BY <4>1 DEF Spots
    <3>3. CASE ~(i <= n)
      <4>1. i - n \in DOMAIN t /\ t[i - n] = c
        BY <3>1, <3>3
      <4>2. i - n \in B /\ i = n + (i - n)
        BY <3>1, <4>1 DEF Spots
      <4> QED BY <4>2
    <3> QED BY <3>2, <3>3
  <2>3. ASSUME NEW i \in A PROVE i \in Spots(s \o t, c)
    <3>1. i \in 1..n /\ s[i] = c
      BY DEF Spots
    <3>2. i \in 1..n + Len(t) /\ (s \o t)[i] = c
      BY <3>1
    <3> QED BY <2>1, <3>2 DEF Spots
  <2>4. ASSUME NEW i \in B PROVE n + i \in Spots(s \o t, c)
    <3>1. i \in 1..Len(t) /\ t[i] = c
      BY DEF Spots
    <3>2. n + i \in 1..n + Len(t) /\ (s \o t)[n + i] = c
      BY <3>1
    <3> QED BY <2>1, <3>2 DEF Spots
  <2> HIDE DEF A, B
  <2> QED BY <2>2, <2>3, <2>4
<1>3. IsFiniteSet(A) /\ IsFiniteSet(B) /\ Copies(s, c) = Cardinality(A) /\ Copies(t, c) = Cardinality(B)
  BY CopiesType
<1> HIDE DEF A, B, n
<1>4. shift \in Bijection(B, C)
  <2>1. shift \in [B -> C]
    OBVIOUS
  <2>2. ASSUME NEW i \in B, NEW j \in B, shift[i] = shift[j] PROVE i = j
    BY <1>1, <2>2
  <2>3. ASSUME NEW k \in C PROVE \E i \in B : shift[i] = k
    OBVIOUS
  <2> HIDE DEF shift, C
  <2> QED BY <2>1, <2>2, <2>3 DEF Bijection, Injection, Surjection, IsInjective
<1>5. IsFiniteSet(C) /\ Cardinality(C) = Cardinality(B)
  <2>1. ExistsBijection(B, C)
    BY <1>4 DEF ExistsBijection
  <2> HIDE DEF C
  <2> QED BY <1>3, <2>1, FS_Bijection
<1>6. A \cap C = {}
  BY <1>1
<1> HIDE DEF C
<1>7. Cardinality(A \cup C) = Cardinality(A) + Cardinality(C)
  <2>1. Cardinality(A \cup C) = Cardinality(A) + Cardinality(C) - Cardinality(A \cap C)
    BY <1>3, <1>5, FS_Union
  <2>2. Cardinality(A \cap C) = 0
    BY <1>6, FS_EmptySet
  <2>3. Cardinality(A) \in Nat /\ Cardinality(C) \in Nat
    BY <1>3, <1>5, FS_CardinalityType
  <2> QED BY <2>1, <2>2, <2>3
<1>8. s \o t \in Seq(T)
  OBVIOUS
<1>9. Copies(s \o t, c) = Cardinality(Spots(s \o t, c))
  BY <1>8, CopiesType
<1> QED BY <1>2, <1>3, <1>5, <1>7, <1>9

LEMMA CopiesFew ==
  ASSUME NEW c, NEW x
  PROVE  Copies(<<>>, c) = 0 /\ Copies(<<x>>, c) = IF x = c THEN 1 ELSE 0
<1>1. {i \in DOMAIN <<>> : <<>>[i] = c} = {}
  OBVIOUS
<1>2. {i \in DOMAIN <<x>> : <<x>>[i] = c} = IF x = c THEN {1} ELSE {}
  OBVIOUS
<1>3. Cardinality({}) = 0 /\ Cardinality({1}) = 1
  BY FS_EmptySet, FS_Singleton
<1> QED BY <1>1, <1>2, <1>3 DEF Copies

LEMMA CopiesSplit ==
  ASSUME NEW T, NEW s \in Seq(T), NEW n \in 0..Len(s), NEW c
  PROVE  Copies(s, c) = Copies(SubSeq(s, 1, n), c) + Copies(SubSeq(s, n + 1, Len(s)), c)
<1> DEFINE a == SubSeq(s, 1, n)
           b == SubSeq(s, n + 1, Len(s))
<1>1. a \in Seq(T) /\ b \in Seq(T)
  OBVIOUS
<1>2. s = a \o b
  <2> DEFINE l == Len(s)
  <2>1. l \in Nat /\ 1 \in 1..l + 1 /\ n \in 1 - 1..l /\ l \in n..l
    OBVIOUS
  <2> HIDE DEF l
  <2>2. SubSeq(s, 1, n) \o SubSeq(s, n + 1, l) = SubSeq(s, 1, l)
    BY <2>1, ConcatAdjacentSubSeq DEF l
  <2>3. SubSeq(s, 1, l) = s
    BY SubSeqFull DEF l
  <2> QED BY <2>2, <2>3 DEF l
<1> HIDE DEF a, b
<1>3. Copies(a \o b, c) = Copies(a, c) + Copies(b, c)
  BY <1>1, CopiesConcat
<1> QED BY <1>2, <1>3 DEF a, b

LEMMA CopiesReordered ==
  ASSUME NEW T, NEW s \in Seq(T), NEW p \in Orders(Len(s)), NEW c
  PROVE  Copies([i \in 1..Len(s) |-> s[p[i]]], c) = Copies(s, c)
<1> DEFINE n == Len(s)
           t == [i \in 1..n |-> s[p[i]]]
           A == Spots(t, c)
           B == Spots(s, c)
           move == [i \in A |-> p[i]]
<1>1. /\ \A i \in 1..n : p[i] \in 1..n
      /\ \A k, l \in 1..n : p[k] = p[l] => k = l
      /\ \A v \in 1..n : \E k \in 1..n : p[k] = v
  BY OrderFacts
<1>2. DOMAIN s = 1..n /\ DOMAIN t = 1..n
  OBVIOUS
<1>3. /\ A \subseteq 1..n /\ \A i \in 1..n : i \in A <=> s[p[i]] = c
      /\ B \subseteq 1..n /\ \A i \in 1..n : i \in B <=> s[i] = c
  BY <1>2 DEF Spots
<1>4. IsFiniteSet(B) /\ Copies(s, c) = Cardinality(B)
  BY CopiesType
<1>5. Copies(t, c) = Cardinality(A)
  BY DEF Copies, Spots
<1> HIDE DEF n, t, A, B
<1>6. move \in [A -> B]
  BY <1>1, <1>3
<1>7. ASSUME NEW i \in A, NEW j \in A, move[i] = move[j] PROVE i = j
  <2>1. i \in 1..n /\ j \in 1..n /\ p[i] = p[j]
    BY <1>3, <1>7
  <2> QED BY <1>1, <2>1, Zenon
<1>8. ASSUME NEW k \in B PROVE \E i \in A : move[i] = k
  <2>1. PICK i \in 1..n : p[i] = k
    BY <1>1, <1>3
  <2>2. i \in A
    BY <1>3, <2>1
  <2> QED BY <2>1, <2>2
<1> HIDE DEF move
<1>9. move \in Injection(A, B) /\ move \in Surjection(A, B)
  BY <1>6, <1>7, <1>8 DEF Injection, Surjection, IsInjective
<1>10. Cardinality(A) = Cardinality(B)
  BY <1>4, <1>9, FS_Injection
<1> QED BY <1>4, <1>5, <1>10 DEF t, n

(* How often it occurs in the hands. *)
HeldIn(h, c) == UNION {{o} \X {i \in DOMAIN h[o] : h[o][i] = c} : o \in Owners}
HeldBut(h, c, q) == UNION {{o} \X {i \in DOMAIN h[o] : h[o][i] = c} : o \in Owners \ {q}}
InHands(h, c) == Cardinality(HeldIn(h, c))

LEMMA HeldIsFinite ==
  ASSUME NEW h \in [Owners -> Seq(CardIds)], NEW c, NEW q
  PROVE  IsFiniteSet(HeldBut(h, c, q))
<1> DEFINE Others == Owners \ {q}
           Part(o) == {o} \X {i \in DOMAIN h[o] : h[o][i] = c}
           Parts == {Part(o) : o \in Others}
           part == [o \in Others |-> Part(o)]
<1>1. IsFiniteSet(Others)
  BY CardsAssumption, FS_Difference
<1>2. part \in Surjection(Others, Parts)
  BY DEF Surjection
<1>3. ASSUME NEW o \in Others PROVE IsFiniteSet(Part(o))
  <2> DEFINE P == {i \in DOMAIN h[o] : h[o][i] = c}
  <2>1. h[o] \in Seq(CardIds)
    OBVIOUS
  <2>2. P = Spots(h[o], c)
    BY DEF Spots
  <2>3. IsFiniteSet(P)
    BY <2>1, <2>2, CopiesType
  <2>4. IsFiniteSet({o})
    BY FS_Singleton
  <2> HIDE DEF P
  <2>5. IsFiniteSet({o} \X P)
    BY <2>3, <2>4, FS_Product
  <2> QED BY <2>5 DEF P
<1> HIDE DEF Others, Part
<1>4. \A S \in Parts : IsFiniteSet(S)
  BY <1>3
<1> HIDE DEF Parts, part
<1>5. IsFiniteSet(Parts)
  BY <1>1, <1>2, FS_Surjection
<1>6. IsFiniteSet(UNION Parts)
  BY <1>4, <1>5, FS_UNION
<1> QED BY <1>6 DEF HeldBut, Parts, Part, Others

LEMMA HeldSplits ==
  ASSUME NEW h \in [Owners -> Seq(CardIds)], NEW c, NEW q \in Owners
  PROVE  /\ Cardinality(HeldBut(h, c, q)) \in Nat
         /\ InHands(h, c) = Cardinality(HeldBut(h, c, q)) + Copies(h[q], c)
<1> DEFINE P == Spots(h[q], c)
           A == {q} \X P
           B == HeldBut(h, c, q)
<1>1. h[q] \in Seq(CardIds)
  OBVIOUS
<1>2. IsFiniteSet(P) /\ Copies(h[q], c) = Cardinality(P) /\ Cardinality(P) \in Nat
  BY <1>1, CopiesType
<1>3. IsFiniteSet(A) /\ Cardinality(A) = Cardinality(P)
  <2> HIDE DEF P
  <2>1. IsFiniteSet({q}) /\ Cardinality({q}) = 1
    BY FS_Singleton
  <2>2. IsFiniteSet(A) /\ Cardinality(A) = 1 * Cardinality(P)
    BY <1>2, <2>1, FS_Product
  <2> QED BY <1>2, <2>2
<1>4. IsFiniteSet(B) /\ Cardinality(B) \in Nat
  BY HeldIsFinite, FS_CardinalityType
<1>5. HeldIn(h, c) = B \cup A
  BY DEF HeldIn, HeldBut, Spots
<1>6. B \cap A = {}
  BY DEF HeldBut
<1> HIDE DEF A, B
<1>7. Cardinality(B \cup A) = Cardinality(B) + Cardinality(A) - Cardinality(B \cap A)
  BY <1>3, <1>4, FS_Union
<1>8. Cardinality(B \cap A) = 0
  BY <1>6, FS_EmptySet
<1> HIDE DEF P
<1>9. InHands(h, c) = Cardinality(B) + Cardinality(P)
  BY <1>2, <1>3, <1>4, <1>5, <1>7, <1>8 DEF InHands
<1> QED BY <1>2, <1>4, <1>9 DEF B

LEMMA HandChanges ==
  ASSUME NEW h \in [Owners -> Seq(CardIds)], NEW c, NEW q \in Owners, NEW t \in Seq(CardIds)
  PROVE  /\ InHands(h, c) \in Nat
         /\ InHands([h EXCEPT ![q] = t], c) = (InHands(h, c) - Copies(h[q], c)) + Copies(t, c)
<1> DEFINE u == [h EXCEPT ![q] = t]
<1>1. u \in [Owners -> Seq(CardIds)] /\ u[q] = t /\ \A o \in Owners \ {q} : u[o] = h[o]
  OBVIOUS
<1> HIDE DEF u
<1>2. HeldBut(u, c, q) = HeldBut(h, c, q)
  BY <1>1 DEF HeldBut
<1>3. /\ Cardinality(HeldBut(h, c, q)) \in Nat
      /\ InHands(h, c) = Cardinality(HeldBut(h, c, q)) + Copies(h[q], c)
  BY HeldSplits
<1>4. InHands(u, c) = Cardinality(HeldBut(u, c, q)) + Copies(u[q], c)
  BY <1>1, HeldSplits
<1>5. h[q] \in Seq(CardIds)
  OBVIOUS
<1>6. Copies(h[q], c) \in Nat /\ Copies(t, c) \in Nat
  BY <1>5, CopiesType
<1> QED BY <1>1, <1>2, <1>3, <1>4, <1>6 DEF u

(* What one card's dealing moves it does not double. *)
Spread(dh, c) == Copies(dh.deck, c) + InHands(dh.hands, c)

LEMMA AppendCopies ==
  ASSUME NEW T, NEW s \in Seq(T), NEW x \in T, NEW c
  PROVE  Copies(Append(s, x), c) = Copies(s, c) + Copies(<<x>>, c)
<1> DEFINE t == <<x>>
<1>1. t \in Seq(T) /\ Append(s, x) = s \o t
  OBVIOUS
<1> HIDE DEF t
<1>2. Copies(s \o t, c) = Copies(s, c) + Copies(t, c)
  BY <1>1, CopiesConcat
<1> QED BY <1>1, <1>2 DEF t

LEMMA HeadCopies ==
  ASSUME NEW T, NEW s \in Seq(T), s # <<>>, NEW c
  PROVE  Copies(s, c) = Copies(<<Head(s)>>, c) + Copies(Tail(s), c)
<1> DEFINE t == <<Head(s)>>
           r == Tail(s)
<1>1. t \in Seq(T) /\ r \in Seq(T) /\ s = t \o r
  OBVIOUS
<1> HIDE DEF t, r
<1>2. Copies(t \o r, c) = Copies(t, c) + Copies(r, c)
  BY <1>1, CopiesConcat
<1> QED BY <1>1, <1>2 DEF t, r

LEMMA DealOneKeeps ==
  ASSUME NEW dh \in Tables, NEW o \in Owners, NEW c
  PROVE  Spread(DealOne(dh, o), c) = Spread(dh, c)
<1>1. CASE dh.deck = <<>>
  BY <1>1 DEF DealOne
<1>2. CASE dh.deck # <<>>
  <2> DEFINE s == dh.deck
             h == dh.hands
             x == Head(s)
             t == Append(h[o], x)
  <2>1. s \in Seq(CardIds) /\ s # <<>> /\ h \in [Owners -> Seq(CardIds)]
    BY <1>2 DEF Tables
  <2>2. DealOne(dh, o) = [deck |-> Tail(s), hands |-> [h EXCEPT ![o] = t]]
    BY <1>2 DEF DealOne
  <2> HIDE DEF s, h
  <2>3. x \in CardIds /\ h[o] \in Seq(CardIds) /\ Tail(s) \in Seq(CardIds)
    BY <2>1
  <2>4. t \in Seq(CardIds)
    BY <2>3
  <2>5. Copies(s, c) = Copies(<<x>>, c) + Copies(Tail(s), c)
    BY <2>1, HeadCopies
  <2> HIDE DEF x
  <2>6. Copies(t, c) = Copies(h[o], c) + Copies(<<x>>, c)
    BY <2>3, AppendCopies
  <2> HIDE DEF t
  <2>7. /\ InHands(h, c) \in Nat
        /\ InHands([h EXCEPT ![o] = t], c) = (InHands(h, c) - Copies(h[o], c)) + Copies(t, c)
    BY <2>1, <2>4, HandChanges
  <2>8. Copies(h[o], c) \in Nat /\ Copies(Tail(s), c) \in Nat
    BY <2>3, CopiesType
  <2>9. Copies(<<x>>, c) \in Nat
    BY CopiesFew
  <2>10. Spread(DealOne(dh, o), c) = Copies(Tail(s), c) + InHands([h EXCEPT ![o] = t], c)
    BY <2>2 DEF Spread
  <2>11. Spread(dh, c) = Copies(s, c) + InHands(h, c)
    BY DEF Spread, s, h
  <2> QED BY <2>5, <2>6, <2>7, <2>8, <2>9, <2>10, <2>11
<1> QED BY <1>1, <1>2

LEMMA DealtKeeps ==
  ASSUME CardsTypeOK, NEW to \in Seq(Owners), NEW n \in Nat, NEW c
  PROVE  Spread(Dealt(to, n), c) = Copies(deck, c) + InHands(hands, c)
<1>1. PICK a : IsDeal(a, to, n) /\ Dealt(to, n) = a[n * Len(to)]
  BY DealRuns
<1> DEFINE last == n * Len(to)
           total == Copies(deck, c) + InHands(hands, c)
           G == {m \in 0..last : Spread(a[m], c) = total}
<1>2. last \in Nat
  <2>1. Len(to) \in Nat
    OBVIOUS
  <2> QED BY <2>1
<1>3. \A m \in 1..last : Turn(to, m) \in Owners
  BY TurnIsAnOwner
<1>4. /\ a \in [0..last -> Tables] /\ a[0] = [deck |-> deck, hands |-> hands]
      /\ \A m \in 1..last : a[m] = DealOne(a[m - 1], Turn(to, m))
  BY <1>1 DEF IsDeal
<1>5. 0 \in G
  <2>1. 0 \in 0..last
    BY <1>2
  <2>2. Spread([deck |-> deck, hands |-> hands], c) = total
    BY DEF Spread
  <2> QED BY <1>4, <2>1, <2>2
<1> HIDE DEF last
<1>6. ASSUME NEW m \in 1..last, m - 1 \in G
      PROVE  m \in G
  <2>1. m \in 0..last /\ m - 1 \in 0..last
    BY <1>2
  <2> DEFINE dh == a[m - 1]
             o == Turn(to, m)
  <2>2. dh \in Tables /\ o \in Owners /\ a[m] = DealOne(dh, o) /\ Spread(dh, c) = total
    BY <1>3, <1>4, <1>6, <2>1
  <2> HIDE DEF dh, o, total
  <2>3. Spread(DealOne(dh, o), c) = Spread(dh, c)
    BY <2>2, DealOneKeeps
  <2> QED BY <2>1, <2>2, <2>3
<1> HIDE DEF G
<1>7. 0..last \subseteq G
  BY <1>2, <1>5, <1>6, Upward
<1>8. last \in G
  BY <1>2, <1>7
<1> QED BY <1>1, <1>8 DEF G, last

(* No call but Reset loses or doubles a card. *)
LEMMA InPlayIs ==
  ASSUME NEW c
  PROVE  /\ InPlay(c) = (Copies(deck, c) + Copies(table, c)) + InHands(hands, c)
         /\ InPlay(c)' = (Copies(deck', c) + Copies(table', c)) + InHands(hands', c)
<1>1. InPlay(c) = (Copies(deck, c) + Copies(table, c)) + InHands(hands, c)
  BY DEF InPlay, InHands, HeldIn, Held
<1>2. InPlay(c)' = (Copies(deck', c) + Copies(table', c)) + InHands(hands', c)
  BY DEF InPlay, InHands, HeldIn, Held, Copies
<1> QED BY <1>1, <1>2

LEMMA DivModIs ==
  ASSUME NEW w \in Nat \ {0}, NEW y \in Nat, NEW x \in 0..w - 1, NEW n, n = y * w + x
  PROVE  n \in Nat /\ n % w = x /\ n \div w = y
<1>1. y * w \in Nat /\ n \in Nat
  BY Z3
<1> DEFINE q == n \div w
           r == n % w
<1>2. r \in 0..w - 1 /\ q \in Nat /\ n = q * w + r
  BY <1>1, DivMod
<1> HIDE DEF q, r
<1>3. ~(q < y) /\ ~(y < q)
  <2>1. q < y => q * w + r < y * w + x
    BY <1>2, RowsAreApart
  <2>2. y < q => y * w + x < q * w + r
    BY <1>2, RowsAreApart
  <2>3. q * w + r = y * w + x /\ q * w + r \in Int
    BY <1>1, <1>2
  <2> QED BY <2>1, <2>2, <2>3
<1>4. q = y
  BY <1>2, <1>3
<1>5. r = x
  BY <1>1, <1>2, <1>4
<1> QED BY <1>1, <1>4, <1>5 DEF q, r

(* How many of the first m cards the k-th of w hands has had. *)
Had(m, k, w) == IF k <= m % w THEN (m \div w) + 1 ELSE m \div w

LEMMA HadAtRounds ==
  ASSUME NEW w \in Nat \ {0}, NEW n \in Nat, NEW k \in 1..w, NEW m, m = n * w
  PROVE  Had(m, k, w) = n
<1>1. 0 \in 0..w - 1 /\ n * w \in Nat
  BY Z3
<1>2. m = n * w + 0
  BY <1>1
<1>3. m % w = 0 /\ m \div w = n
  BY <1>1, <1>2, DivModIs
<1> QED BY <1>3 DEF Had

LEMMA HadSteps ==
  ASSUME NEW w \in Nat \ {0}, NEW l \in Nat, NEW k \in 1..w
  PROVE  /\ Had(l, k, w) \in Nat
         /\ Had(l + 1, k, w) = IF k = (l % w) + 1 THEN Had(l, k, w) + 1 ELSE Had(l, k, w)
         /\ k = (l % w) + 1 => (Had(l, k, w) * w) + k = l + 1
<1> DEFINE q == l \div w
           j == l % w
           m == l + 1
<1>1. j \in 0..w - 1 /\ q \in Nat /\ l = q * w + j
  BY DivMod
<1>2. Had(l, k, w) = IF k <= j THEN q + 1 ELSE q
  BY DEF Had
<1>3. q * w \in Nat /\ (q + 1) * w = q * w + w
  <2> HIDE DEF q
  <2> QED BY <1>1, Z3
<1>4. Had(m, k, w) = IF k <= m % w THEN (m \div w) + 1 ELSE m \div w
  BY DEF Had
<1> HIDE DEF q, j
<1>5. CASE j + 1 < w
  <2> DEFINE x == j + 1
  <2>1. x \in 0..w - 1 /\ m = q * w + x
    BY <1>1, <1>3, <1>5
  <2> HIDE DEF x, m
  <2>2. m % w = x /\ m \div w = q
    BY <1>1, <2>1, DivModIs
  <2>3. Had(m, k, w) = IF k = j + 1 THEN Had(l, k, w) + 1 ELSE Had(l, k, w)
    BY <1>1, <1>2, <1>4, <2>2 DEF x
  <2>4. k = j + 1 => (Had(l, k, w) * w) + k = l + 1
    BY <1>1, <1>2, <1>3
  <2> QED BY <1>1, <1>2, <2>3, <2>4 DEF j, m
<1>6. CASE ~(j + 1 < w)
  <2> DEFINE y == q + 1
             x == 0
  <2>1. y \in Nat /\ x \in 0..w - 1 /\ m = y * w + x
    BY <1>1, <1>3, <1>6
  <2> HIDE DEF x, y, m
  <2>2. m % w = x /\ m \div w = y
    BY <2>1, DivModIs
  <2>3. Had(m, k, w) = IF k = j + 1 THEN Had(l, k, w) + 1 ELSE Had(l, k, w)
    BY <1>1, <1>2, <1>4, <1>6, <2>2 DEF x, y
  <2>4. k = j + 1 => (Had(l, k, w) * w) + k = l + 1
    BY <1>1, <1>2, <1>3
  <2> QED BY <1>1, <1>2, <2>3, <2>4 DEF j, m
<1> QED BY <1>5, <1>6

(* The first c of the cards at places k, k + w, ... of the deck. *)
Row(k, w, c) == [r \in 1..c |-> deck[(r - 1) * w + k]]

LEMMA AppendToConcat ==
  ASSUME NEW T, NEW s \in Seq(T), NEW c \in Nat, NEW f, f = [r \in 1..c + 1 |-> f[r]]
  PROVE  Append(s \o [r \in 1..c |-> f[r]], f[c + 1]) = s \o f
<1> DEFINE S == T \cup {f[r] : r \in 1..c + 1}
           g == [r \in 1..c |-> f[r]]
<1>1. s \in Seq(S)
  BY SeqMonotonic
<1>2. f \in Seq(S) /\ Len(f) = c + 1
  <2>1. f \in [1..c + 1 -> S] /\ c + 1 \in Nat
    OBVIOUS
  <2> HIDE DEF S
  <2> QED BY <2>1, IsASeq
<1>3. g \in Seq(S) /\ Len(g) = c
  <2>1. g \in [1..c -> S] /\ c \in Nat
    OBVIOUS
  <2> HIDE DEF S, g
  <2> QED BY <2>1, IsASeq
<1>4. \A r \in 1..c : g[r] = f[r]
  OBVIOUS
<1>5. f[c + 1] \in S
  OBVIOUS
<1> DEFINE u == s \o g
           x == f[c + 1]
           v == s \o f
<1> HIDE DEF S, g
<1>6. /\ u \in Seq(S) /\ Len(u) = Len(s) + c /\ Len(s) \in Nat
      /\ \A i \in 1..Len(s) : u[i] = s[i]
      /\ \A i \in Len(s) + 1..Len(s) + c : u[i] = g[i - Len(s)]
  BY <1>1, <1>3
<1>7. /\ v \in Seq(S) /\ Len(v) = Len(s) + (c + 1)
      /\ \A i \in 1..Len(s) : v[i] = s[i]
      /\ \A i \in Len(s) + 1..Len(s) + (c + 1) : v[i] = f[i - Len(s)]
  BY <1>1, <1>2
<1> HIDE DEF u, v
<1>8. Append(u, x) \in Seq(S)
  BY <1>5, <1>6
<1>9. Len(Append(u, x)) = Len(s) + (c + 1)
  <2>1. Len(Append(u, x)) = Len(u) + 1
    BY <1>5, <1>6
  <2> QED BY <1>6, <2>1
<1>10. ASSUME NEW i \in 1..Len(s) + (c + 1)
       PROVE  Append(u, x)[i] = v[i]
  <2>1. CASE i <= Len(s)
    <3>1. Append(u, x)[i] = u[i] /\ i \in 1..Len(s)
      BY <1>6, <2>1
    <3> QED BY <1>6, <1>7, <3>1
  <2>2. CASE i > Len(s) /\ i <= Len(s) + c
    <3>1. Append(u, x)[i] = u[i] /\ i \in Len(s) + 1..Len(s) + c
      BY <1>6, <2>2
    <3>2. i \in Len(s) + 1..Len(s) + (c + 1) /\ i - Len(s) \in 1..c
      BY <1>6, <2>2
    <3>3. v[i] = f[i - Len(s)]
      BY <1>7, <3>2
    <3>4. u[i] = g[i - Len(s)]
      BY <1>6, <3>1
    <3> QED BY <1>4, <3>1, <3>2, <3>3, <3>4
  <2>3. CASE i = Len(s) + (c + 1)
    <3>1. Append(u, x)[i] = x
      BY <1>6, <2>3
    <3>2. i \in Len(s) + 1..Len(s) + (c + 1) /\ i - Len(s) = c + 1
      BY <1>6, <2>3
    <3>3. v[i] = f[i - Len(s)]
      BY <1>7, <3>2
    <3> QED BY <3>1, <3>2, <3>3
  <2> QED BY <1>6, <2>1, <2>2, <2>3
<1>11. Append(u, x) = v
  BY <1>7, <1>8, <1>9, <1>10, SeqEqual
<1> QED BY <1>11 DEF g, u, v, x

LEMMA RowGrows ==
  ASSUME NEW T, NEW s \in Seq(T), NEW k, NEW w, NEW c \in Nat, NEW m, (c * w) + k = m
  PROVE  Append(s \o Row(k, w, c), deck[m]) = s \o Row(k, w, c + 1)
<1> DEFINE f == Row(k, w, c + 1)
<1>1. f = [r \in 1..c + 1 |-> f[r]] /\ Row(k, w, c) = [r \in 1..c |-> f[r]]
  BY DEF Row
<1>2. f[c + 1] = deck[m]
  <2>1. c + 1 \in 1..c + 1 /\ (c + 1) - 1 = c
    OBVIOUS
  <2>2. f[c + 1] = deck[((c + 1) - 1) * w + k]
    BY <2>1 DEF Row
  <2> QED BY <2>1, <2>2
<1> HIDE DEF f
<1>3. Append(s \o [r \in 1..c |-> f[r]], f[c + 1]) = s \o f
  BY <1>1, AppendToConcat
<1> QED BY <1>1, <1>2, <1>3 DEF f

(* The table after m cards of DealTo. *)
AfterCards(dh, to, m) ==
  /\ dh.deck = SubSeq(deck, m + 1, Len(deck))
  /\ \A k \in 1..Len(to) :
       dh.hands[to[k]] = hands[to[k]] \o Row(k, Len(to), Had(m, k, Len(to)))

LEMMA NextCard ==
  ASSUME NEW T, NEW s \in Seq(T), NEW m \in 1..Len(s)
  PROVE  /\ SubSeq(s, m, Len(s)) # <<>>
         /\ Head(SubSeq(s, m, Len(s))) = s[m]
         /\ Tail(SubSeq(s, m, Len(s))) = SubSeq(s, m + 1, Len(s))
<1> DEFINE t == SubSeq(s, m, Len(s))
           r == SubSeq(s, m + 1, Len(s))
           n == Len(s)
<1>1. n \in Nat /\ m \in 1..n /\ s \in [1..n -> T]
  OBVIOUS
<1>2. t = [i \in 1..(n - m) + 1 |-> s[(i + m) - 1]] /\ r = [i \in 1..n - m |-> s[i + m]]
  OBVIOUS
<1>3. t \in Seq(T) /\ Len(t) = (n - m) + 1 /\ \A i \in 1..(n - m) + 1 : t[i] = s[(i + m) - 1]
  OBVIOUS
<1>4. r \in Seq(T) /\ Len(r) = n - m /\ \A i \in 1..n - m : r[i] = s[i + m]
  OBVIOUS
<1> HIDE DEF t, r, n
<1>5. t # <<>> /\ Head(t) = s[m]
  <2>1. 1 \in 1..(n - m) + 1 /\ (1 + m) - 1 = m
    BY <1>1
  <2>2. t[1] = s[m]
    BY <1>3, <2>1
  <2> QED BY <1>1, <1>3, <2>2
<1>6. Tail(t) \in Seq(T) /\ Len(Tail(t)) = n - m
  BY <1>1, <1>3, <1>5
<1>7. ASSUME NEW i \in 1..n - m PROVE Tail(t)[i] = r[i]
  <2>1. Tail(t)[i] = t[i + 1]
    BY <1>1, <1>3, <1>5
  <2>2. i + 1 \in 1..(n - m) + 1 /\ ((i + 1) + m) - 1 = i + m
    BY <1>1
  <2>3. t[i + 1] = s[i + m]
    BY <1>3, <2>2
  <2> QED BY <1>4, <2>1, <2>3
<1>8. Tail(t) = r
  BY <1>4, <1>6, <1>7, SeqEqual
<1> QED BY <1>5, <1>8 DEF t, r, n

LEMMA AfterOneCard ==
  ASSUME CardsTypeOK, NEW to \in SetToAllKPermutations(Owners), NEW m \in 1..Len(deck),
         Len(to) # 0, NEW dh \in Tables, AfterCards(dh, to, m - 1)
  PROVE  AfterCards(DealOne(dh, Turn(to, m)), to, m)
<1> DEFINE w == Len(to)
           l == m - 1
           j == (l % w) + 1
           o == to[j]
           s == dh.deck
           h == dh.hands
           t == Append(h[o], Head(s))
<1>1. /\ to \in Seq(Owners) /\ \A k, i \in 1..w : to[k] = to[i] => k = i
      /\ w \in Nat \ {0} /\ l \in Nat /\ l + 1 = m /\ Len(deck) \in Nat /\ deck \in Seq(CardIds)
      /\ hands \in [Owners -> Seq(CardIds)]
  BY HandsInARow, CardsTypes
<1>2. j \in 1..w /\ o \in Owners
  <2> HIDE DEF l, w
  <2>1. l % w \in 0..w - 1
    BY <1>1, DivMod
  <2>2. j \in 1..w
    BY <1>1, <2>1
  <2> HIDE DEF j
  <2> QED BY <1>1, <2>2 DEF w
<1>3. /\ s = SubSeq(deck, m, Len(deck))
      /\ \A k \in 1..w : h[to[k]] = hands[to[k]] \o Row(k, w, Had(l, k, w))
  BY <1>1 DEF AfterCards
<1>4. s # <<>> /\ Head(s) = deck[m] /\ Tail(s) = SubSeq(deck, m + 1, Len(deck))
  BY <1>1, <1>3, NextCard
<1>5. Turn(to, m) = o
  BY DEF Turn
<1>6. DealOne(dh, o) = [deck |-> Tail(s), hands |-> [h EXCEPT ![o] = t]]
  BY <1>4 DEF DealOne
<1>7. h \in [Owners -> Seq(CardIds)]
  BY DEF Tables
<1> HIDE DEF s, h, w, l
<1>8. ASSUME NEW k \in 1..w
      PROVE  [h EXCEPT ![o] = t][to[k]] = hands[to[k]] \o Row(k, w, Had(m, k, w))
  <2> DEFINE c == Had(l, k, w)
  <2>1. /\ c \in Nat /\ Had(m, k, w) = IF k = j THEN c + 1 ELSE c
        /\ k = j => (c * w) + k = m
    BY <1>1, HadSteps
  <2>2. to[k] \in Owners
    BY <1>1 DEF w
  <2>3. h[to[k]] = hands[to[k]] \o Row(k, w, c)
    BY <1>3
  <2> HIDE DEF c, j
  <2>4. CASE k = j
    <3>1. [h EXCEPT ![o] = t][to[k]] = t
      BY <1>2, <1>7, <2>4
    <3>2. t = Append(hands[o] \o Row(k, w, c), deck[m])
      BY <1>4, <2>3, <2>4
    <3>3. hands[o] \in Seq(CardIds)
      BY <1>1, <1>2
    <3> DEFINE z == hands[o]
    <3> HIDE DEF z
    <3>4. Append(z \o Row(k, w, c), deck[m]) = z \o Row(k, w, c + 1)
      BY <2>1, <2>4, <3>3, RowGrows DEF z
    <3>5. Had(m, k, w) = c + 1 /\ hands[to[k]] = z
      BY <2>1, <2>4 DEF z
    <3> QED BY <3>1, <3>2, <3>4, <3>5 DEF z
  <2>5. CASE k # j
    <3>1. to[k] # o
      BY <1>1, <1>2, <2>5, Zenon
    <3>2. [h EXCEPT ![o] = t][to[k]] = h[to[k]]
      BY <1>7, <2>2, <3>1
    <3> QED BY <2>1, <2>3, <2>5, <3>2
  <2> QED BY <2>4, <2>5
<1> HIDE DEF t, o, j
<1>9. DealOne(dh, o).deck = SubSeq(deck, m + 1, Len(deck))
  BY <1>4, <1>6
<1>10. ASSUME NEW k \in 1..w
       PROVE  DealOne(dh, o).hands[to[k]] = hands[to[k]] \o Row(k, w, Had(m, k, w))
  BY <1>6, <1>8
<1> QED BY <1>5, <1>9, <1>10 DEF AfterCards, w

LEMMA DealtInTurn ==
  ASSUME CardsTypeOK, NEW to \in SetToAllKPermutations(Owners), NEW n \in Nat, Enough(to, n)
  PROVE  \A k \in 1..Len(to) : Dealt(to, n).hands[to[k]] = hands[to[k]] \o Row(k, Len(to), n)
<1>1. to \in Seq(Owners) /\ Len(to) \in Nat
  BY HandsInARow
<1>2. CASE Len(to) = 0
  BY <1>2
<1>3. CASE Len(to) # 0
  <2> DEFINE w == Len(to)
             last == n * w
  <2>1. w \in Nat \ {0} /\ last \in Nat /\ last <= Len(deck) /\ Len(deck) \in Nat
    <3>1. last \in Nat /\ last <= Len(deck)
      BY <1>1 DEF Enough
    <3> QED BY <1>1, <1>3, <3>1, CardsTypes
  <2>2. PICK a : IsDeal(a, to, n) /\ Dealt(to, n) = a[n * Len(to)]
    BY <1>1, DealRuns
  <2>3. /\ a \in [0..last -> Tables] /\ a[0] = [deck |-> deck, hands |-> hands]
        /\ \A m \in 1..last : a[m] = DealOne(a[m - 1], Turn(to, m))
    BY <2>2 DEF IsDeal
  <2>4. Dealt(to, n) = a[last]
    BY <2>2
  <2> DEFINE G == {m \in 0..last : AfterCards(a[m], to, m)}
  <2>5. AfterCards(a[0], to, 0)
    <3>1. deck = SubSeq(deck, 1, Len(deck))
      BY CardsTypes, SubSeqFull
    <3>2. ASSUME NEW k \in 1..w
          PROVE  hands[to[k]] = hands[to[k]] \o Row(k, w, Had(0, k, w))
      <4>1. Had(0, k, w) = 0
        BY <2>1, HadAtRounds
      <4>2. Row(k, w, 0) = <<>>
        BY DEF Row
      <4>3. hands[to[k]] \in Seq(CardIds)
        <5>1. to[k] \in Owners
          BY <1>1
        <5> QED BY <5>1, CardsTypes
      <4> QED BY <4>1, <4>2, <4>3, ConcatEmptySeq
    <3>3. a[0].deck = deck /\ a[0].hands = hands /\ 0 + 1 = 1
      BY <2>3
    <3> HIDE DEF w
    <3> QED BY <3>1, <3>2, <3>3 DEF AfterCards, w
  <2>6. 0 \in G
    BY <2>1, <2>5
  <2> HIDE DEF last, w
  <2>7. ASSUME NEW m \in 1..last, m - 1 \in G
        PROVE  m \in G
    <3>1. m \in 0..last /\ m - 1 \in 0..last /\ m \in 1..Len(deck) /\ Len(to) # 0
      BY <2>1 DEF w
    <3> DEFINE dh == a[m - 1]
    <3>2. dh \in Tables /\ AfterCards(dh, to, m - 1) /\ a[m] = DealOne(dh, Turn(to, m))
      BY <2>3, <2>7, <3>1
    <3> HIDE DEF dh
    <3>3. AfterCards(DealOne(dh, Turn(to, m)), to, m)
      BY <3>1, <3>2, AfterOneCard
    <3> QED BY <3>1, <3>2, <3>3
  <2> HIDE DEF G
  <2>8. 0..last \subseteq G
    BY <2>1, <2>6, <2>7, Upward
  <2>9. AfterCards(a[last], to, last)
    BY <2>1, <2>8 DEF G
  <2>10. ASSUME NEW k \in 1..Len(to)
         PROVE  Dealt(to, n).hands[to[k]] = hands[to[k]] \o Row(k, Len(to), n)
    <3>1. Had(last, k, w) = n
      BY <2>1, <2>10, HadAtRounds DEF last, w
    <3>2. a[last].hands[to[k]] = hands[to[k]] \o Row(k, w, Had(last, k, w))
      BY <2>9, <2>10 DEF AfterCards, w
    <3> QED BY <2>4, <3>1, <3>2 DEF w
  <2> QED BY <2>10
<1> QED BY <1>2, <1>3

(* A call but Reset loses no card and doubles none. *)
LEMMA CallsKeepCards ==
  ASSUME CardsTypeOK, NEW c \in 1..DeckSize,
         \/ Shuffle
         \/ \E n \in 0..DeckSize : Deal(n)
         \/ \E to \in SetToAllKPermutations(Owners), n \in 0..MaxRounds : DealTo(to, n)
         \/ \E o \in Owners : HandAdd(o)
         \/ \E o \in Owners, d \in 1..DeckSize : HandRemove(o, d)
  PROVE  InPlay(c)' = InPlay(c)
<1>1. /\ deck \in Seq(CardIds) /\ Len(deck) \in Nat /\ Len(deck) <= DeckSize
      /\ hands \in [Owners -> Seq(CardIds)] /\ table \in Seq(CardIds)
  BY CardsTypes
<1>2. /\ InPlay(c) = (Copies(deck, c) + Copies(table, c)) + InHands(hands, c)
      /\ InPlay(c)' = (Copies(deck', c) + Copies(table', c)) + InHands(hands', c)
  BY InPlayIs
<1>3. Copies(deck, c) \in Nat /\ Copies(table, c) \in Nat
  BY <1>1, CopiesType
<1>4. CASE Shuffle
  <2>1. PICK draw \in Draws(Len(deck)) : deck' = Shuffled(deck, draw)
    BY <1>4 DEF Shuffle
  <2>2. PICK p \in Orders(Len(deck)) : deck' = [i \in 1..Len(deck) |-> deck[p[i]]]
    BY <1>1, <2>1, ShuffledTypes
  <2>3. Copies([i \in 1..Len(deck) |-> deck[p[i]]], c) = Copies(deck, c)
    BY <1>1, CopiesReordered
  <2>4. table' = table /\ hands' = hands
    BY <1>4 DEF Shuffle
  <2> QED BY <1>2, <2>2, <2>3, <2>4
<1>5. ASSUME NEW n \in 0..DeckSize, Deal(n)
      PROVE  InPlay(c)' = InPlay(c)
  <2>1. CASE n <= Len(deck)
    <3> DEFINE top == SubSeq(deck, 1, n)
               rest == SubSeq(deck, n + 1, Len(deck))
    <3>1. table' = table \o top /\ deck' = rest /\ hands' = hands
      BY <1>5, <2>1 DEF Deal
    <3>2. n \in 0..Len(deck) /\ top \in Seq(CardIds) /\ rest \in Seq(CardIds)
      BY <1>1, <2>1
    <3>3. Copies(deck, c) = Copies(top, c) + Copies(rest, c)
      BY <1>1, <3>2, CopiesSplit
    <3> HIDE DEF top, rest
    <3>4. Copies(table \o top, c) = Copies(table, c) + Copies(top, c)
      BY <1>1, <3>2, CopiesConcat
    <3>5. Copies(top, c) \in Nat /\ Copies(rest, c) \in Nat
      BY <3>2, CopiesType
    <3>6. Copies(deck', c) + Copies(table', c) = Copies(deck, c) + Copies(table, c)
      BY <1>3, <3>1, <3>3, <3>4, <3>5
    <3> QED BY <1>2, <3>1, <3>6
  <2>2. CASE ~(n <= Len(deck))
    <3>1. table' = table /\ deck' = deck /\ hands' = hands
      BY <1>5, <2>2 DEF Deal
    <3> QED BY <1>2, <3>1
  <2> QED BY <2>1, <2>2
<1>6. ASSUME NEW to \in SetToAllKPermutations(Owners), NEW n \in 0..MaxRounds, DealTo(to, n)
      PROVE  InPlay(c)' = InPlay(c)
  <2>1. to \in Seq(Owners) /\ n \in Nat
    BY HandsInARow
  <2>2. table' = table
    BY <1>6 DEF DealTo
  <2>3. CASE Enough(to, n)
    <3>1. deck' = Dealt(to, n).deck /\ hands' = Dealt(to, n).hands
      BY <1>6, <2>3 DEF DealTo
    <3>2. Copies(deck', c) + InHands(hands', c) = Copies(deck, c) + InHands(hands, c)
      BY <2>1, <3>1, DealtKeeps DEF Spread
    <3>3. Dealt(to, n) \in Tables
      BY <2>1, DealtTypes
    <3>4. deck' \in Seq(CardIds) /\ hands' \in [Owners -> Seq(CardIds)]
      BY <3>1, <3>3 DEF Tables
    <3>5. Copies(deck', c) \in Nat
      BY <3>4, CopiesType
    <3>6. CASE Owners = {}
      <4>1. hands' = hands
        BY <1>1, <3>4, <3>6
      <4>2. InHands(hands, c) \in Nat
        <5>1. HeldIn(hands, c) = {}
          BY <3>6 DEF HeldIn
        <5> QED BY <5>1, FS_EmptySet DEF InHands
      <4> QED BY <1>2, <1>3, <2>2, <3>2, <3>5, <4>1, <4>2
    <3>7. CASE Owners # {}
      <4>1. PICK o \in Owners : TRUE
        BY <3>7
      <4>2. <<>> \in Seq(CardIds)
        OBVIOUS
      <4>3. InHands(hands, c) \in Nat
        BY <1>1, <4>1, <4>2, HandChanges
      <4>4. InHands(hands', c) \in Nat
        BY <3>4, <4>1, <4>2, HandChanges
      <4> QED BY <1>2, <1>3, <2>2, <3>2, <3>5, <4>3, <4>4
    <3> QED BY <3>6, <3>7
  <2>4. CASE ~Enough(to, n)
    <3>1. deck' = deck /\ hands' = hands
      BY <1>6, <2>4 DEF DealTo
    <3> QED BY <1>2, <2>2, <3>1
  <2> QED BY <2>3, <2>4
<1>7. ASSUME NEW o \in Owners, HandAdd(o)
      PROVE  InPlay(c)' = InPlay(c)
  <2> DEFINE t == hands[o] \o table
             h == hands
  <2>1. hands' = [h EXCEPT ![o] = t] /\ table' = <<>> /\ deck' = deck
    BY <1>7 DEF HandAdd
  <2>2. h \in [Owners -> Seq(CardIds)] /\ h[o] \in Seq(CardIds) /\ t \in Seq(CardIds)
    BY <1>1
  <2>3. Copies(t, c) = Copies(h[o], c) + Copies(table, c)
    BY <1>1, <2>2, CopiesConcat
  <2> HIDE DEF t, h
  <2>4. /\ InHands(h, c) \in Nat
        /\ InHands([h EXCEPT ![o] = t], c) = (InHands(h, c) - Copies(h[o], c)) + Copies(t, c)
    BY <2>2, HandChanges
  <2>5. Copies(h[o], c) \in Nat
    BY <2>2, CopiesType
  <2>6. Copies(table', c) = 0
    BY <2>1, CopiesFew
  <2>7. InPlay(c) = (Copies(deck, c) + Copies(table, c)) + InHands(h, c)
    BY <1>2 DEF h
  <2>8. InPlay(c)' = (Copies(deck, c) + 0) + InHands([h EXCEPT ![o] = t], c)
    BY <1>2, <2>1, <2>6
  <2> QED BY <1>3, <2>3, <2>4, <2>5, <2>7, <2>8
<1>8. ASSUME NEW o \in Owners, NEW d \in 1..DeckSize, HandRemove(o, d)
      PROVE  InPlay(c)' = InPlay(c)
  <2>1. CASE Contains(hands[o], d)
    <3> DEFINE h == hands
               s == hands[o]
    <3>1. h \in [Owners -> Seq(CardIds)] /\ s \in Seq(CardIds) /\ s = h[o]
      BY <1>1
    <3>2. PICK i \in 1..Len(s) : /\ s[i] = d
                                 /\ RemoveFirst(s, d) = SubSeq(s, 1, i - 1) \o SubSeq(s, i + 1, Len(s))
      BY <2>1, <3>1, RemovedIs
    <3>3. hands' = [h EXCEPT ![o] = RemoveFirst(s, d)] /\ table' = Append(table, d) /\ deck' = deck
      BY <1>8, <2>1 DEF HandRemove
    <3> HIDE DEF h, s
    <3> DEFINE before == SubSeq(s, 1, i - 1)
               after == SubSeq(s, i + 1, Len(s))
               tail == SubSeq(s, i, Len(s))
               t == before \o after
    <3>4. /\ before \in Seq(CardIds) /\ after \in Seq(CardIds)
          /\ tail \in Seq(CardIds) /\ t \in Seq(CardIds)
      BY <3>1
    <3>5. Copies(s, c) = Copies(before, c) + Copies(tail, c)
      <4> DEFINE n == i - 1
      <4>1. n \in 0..Len(s) /\ n + 1 = i
        BY <3>1
      <4> HIDE DEF n
      <4>2. Copies(s, c) = Copies(SubSeq(s, 1, n), c) + Copies(SubSeq(s, n + 1, Len(s)), c)
        BY <3>1, <4>1, CopiesSplit
      <4> QED BY <4>1, <4>2 DEF n
    <3>6. Copies(tail, c) = Copies(<<d>>, c) + Copies(after, c)
      <4>1. tail # <<>> /\ Head(tail) = s[i] /\ Tail(tail) = after
        BY <3>1, NextCard
      <4> HIDE DEF tail, after
      <4>2. Copies(tail, c) = Copies(<<Head(tail)>>, c) + Copies(Tail(tail), c)
        BY <3>4, <4>1, HeadCopies
      <4> QED BY <3>2, <4>1, <4>2
    <3>7. Copies(t, c) = Copies(before, c) + Copies(after, c)
      BY <3>4, CopiesConcat
    <3> HIDE DEF before, after, tail
    <3>8. Copies(before, c) \in Nat /\ Copies(after, c) \in Nat /\ Copies(s, c) \in Nat
      BY <3>1, <3>4, CopiesType
    <3>9. Copies(<<d>>, c) \in Nat
      BY CopiesFew
    <3>10. RemoveFirst(s, d) = t
      BY <3>2 DEF before, after
    <3> HIDE DEF t
    <3>11. /\ InHands(h, c) \in Nat
           /\ InHands([h EXCEPT ![o] = t], c) = (InHands(h, c) - Copies(h[o], c)) + Copies(t, c)
      BY <3>1, <3>4, HandChanges
    <3>12. Copies(Append(table, d), c) = Copies(table, c) + Copies(<<d>>, c)
      BY <1>1, AppendCopies DEF CardIds
    <3>13. InPlay(c) = (Copies(deck, c) + Copies(table, c)) + InHands(h, c)
      BY <1>2 DEF h
    <3>14. InPlay(c)' = (Copies(deck, c) + Copies(Append(table, d), c)) + InHands([h EXCEPT ![o] = t], c)
      BY <1>2, <3>3, <3>10
    <3>15. Copies(h[o], c) = Copies(s, c)
      BY <3>1
    <3> DEFINE u == [h EXCEPT ![o] = t]
               v == Append(table, d)
    <3>16. InHands(u, c) = (InHands(h, c) - Copies(s, c)) + Copies(t, c)
      BY <3>11, <3>15
    <3>17. InPlay(c)' = (Copies(deck, c) + Copies(v, c)) + InHands(u, c)
      BY <3>14
    <3> HIDE DEF u, v
    <3>18. InHands(u, c) = InHands(h, c) - Copies(<<d>>, c)
      BY <3>5, <3>6, <3>7, <3>8, <3>11, <3>16, <3>9
    <3>19. Copies(v, c) = Copies(table, c) + Copies(<<d>>, c)
      BY <3>12 DEF v
    <3> QED BY <1>3, <3>11, <3>13, <3>17, <3>18, <3>19, <3>9
  <2>2. CASE ~Contains(hands[o], d)
    <3>1. hands' = hands /\ table' = table /\ deck' = deck
      BY <1>8, <2>2 DEF HandRemove
    <3> QED BY <1>2, <3>1
  <2> QED BY <2>1, <2>2
<1> QED BY <1>4, <1>5, <1>6, <1>7, <1>8

(* DealTo deals round by round, or not at all. *)
LEMMA DealToInTurn ==
  ASSUME CardsTypeOK, NEW to \in SetToAllKPermutations(Owners), NEW n \in 0..MaxRounds, DealTo(to, n)
  PROVE  InTurn(to, n, Enough(to, n))
<1>1. to \in Seq(Owners) /\ Len(to) \in Nat /\ n \in Nat /\ Len(deck) \in Nat
  BY HandsInARow, CardsTypes
<1>2. CASE Enough(to, n)
  <2>1. hands' = Dealt(to, n).hands
    BY <1>2 DEF DealTo
  <2>2. \A k \in 1..Len(to) : hands'[to[k]] = hands[to[k]] \o Row(k, Len(to), n)
    BY <1>1, <1>2, <2>1, DealtInTurn
  <2> QED BY <1>2, <2>2 DEF InTurn, Enough, Row
<1>3. CASE ~Enough(to, n)
  <2>1. hands' = hands
    BY <1>3 DEF DealTo
  <2>2. ASSUME NEW k \in 1..Len(to)
        PROVE  hands'[to[k]] = hands[to[k]] \o [r \in 1..0 |-> deck[(r - 1) * Len(to) + k]]
    <3>1. hands[to[k]] \in Seq(CardIds)
      <4>1. to[k] \in Owners
        BY <1>1
      <4> QED BY <4>1, CardsTypes
    <3>2. [r \in 1..0 |-> deck[(r - 1) * Len(to) + k]] = <<>>
      OBVIOUS
    <3> QED BY <2>1, <3>1, <3>2, ConcatEmptySeq
  <2>3. 0 * Len(to) <= Len(deck)
    BY <1>1
  <2> QED BY <1>3, <2>2, <2>3 DEF InTurn
<1> QED BY <1>2, <1>3

LEMMA CardsStep ==
  ASSUME CardsTypeOK, CardsNext
  PROVE  DealtFairly
<1>1. CASE Shuffle
  <2>1. did'.op = "shuffle"
    BY <1>1 DEF Shuffle, Call
  <2> QED BY <1>1, <2>1, CallsKeepCards DEF DealtFairly
<1>2. CASE Reset
  <2>1. did'.op = "reset"
    BY <1>2 DEF Reset, Call
  <2> QED BY <2>1 DEF DealtFairly
<1>3. ASSUME NEW n \in 0..DeckSize, Deal(n)
      PROVE  DealtFairly
  <2>1. did'.op = "deal"
    BY <1>3 DEF Deal, Call
  <2> QED BY <1>3, <2>1, CallsKeepCards DEF DealtFairly
<1>4. ASSUME NEW to \in SetToAllKPermutations(Owners), NEW n \in 0..MaxRounds, DealTo(to, n)
      PROVE  DealtFairly
  <2>1. did' = [op |-> "dealTo", to |-> to, n |-> n, ok |-> Enough(to, n)]
    BY <1>4 DEF DealTo, Call
  <2>2. InTurn(to, n, Enough(to, n))
    BY <1>4, DealToInTurn
  <2>3. did'.op = "dealTo" /\ did'.to = to /\ did'.n = n /\ did'.ok = Enough(to, n)
    BY <2>1
  <2>4. \A c \in 1..DeckSize : InPlay(c)' = InPlay(c)
    BY <1>4, CallsKeepCards
  <2> QED BY <2>2, <2>3, <2>4 DEF DealtFairly
<1>5. ASSUME NEW o \in Owners, HandAdd(o)
      PROVE  DealtFairly
  <2>1. did'.op = "add"
    BY <1>5 DEF HandAdd, Call
  <2> QED BY <1>5, <2>1, CallsKeepCards DEF DealtFairly
<1>6. ASSUME NEW o \in Owners, NEW d \in 1..DeckSize, HandRemove(o, d)
      PROVE  DealtFairly
  <2>1. did'.op = "remove"
    BY <1>6 DEF HandRemove, Call
  <2> QED BY <1>6, <2>1, CallsKeepCards DEF DealtFairly
<1> QED BY <1>1, <1>2, <1>3, <1>4, <1>5, <1>6 DEF CardsNext

(* However often cards are shuffled, dealt and taken back, none is lost or doubled
   but by Reset, and DealTo deals as at a table or leaves all as it was. *)
THEOREM DealsAreFair == CardsSpec => CardsAreDealt
<1>1. CardsTypeOK /\ [CardsNext]_cardsVars => [DealtFairly]_cardsVars
  BY CardsStep
<1>2. CardsSpec => [][DealtFairly]_cardsVars
  BY <1>1, CardsTypesHold, PTL DEF CardsSpec
<1> QED BY <1>2 DEF CardsAreDealt
=============================================================================
