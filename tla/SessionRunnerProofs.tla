------------------------ MODULE SessionRunnerProofs -------------------------
(***************************************************************************)
(* Theorems about SessionRunner, for every game and any number of moves.   *)
(***************************************************************************)
EXTENDS SessionRunner, SequenceTheorems, TLAPS

(* Facts about the game every proof needs. *)
LEMMA GameFacts ==
  /\ \A n \in Nat : OnTurn(n) \in Names
  /\ \A s \in States, a \in Actions :
       /\ Valid[s][a] \in BOOLEAN
       /\ Apply[s][a] \in States
       /\ Reward[s][a] \in Int
  /\ \A s \in States : Over[s] \in BOOLEAN /\ Winner[s] \in Actors
<1>1. ASSUME NEW n \in Nat PROVE OnTurn(n) \in Names
  <2>1. Len(PlayerIDs) \in Nat \ {0} /\ PlayerIDs \in Seq(Names)
    BY GameAssumption, EmptySeq
  <2>2. (n % Len(PlayerIDs)) + 1 \in 1..Len(PlayerIDs)
    BY <2>1
  <2> QED BY <2>1, <2>2, ElementOfSeq DEF OnTurn
<1> QED BY <1>1, GameAssumption DEF Actors

-----------------------------------------------------------------------------
LEMMA InitTypes == Init => TypeOK
<1> SUFFICES ASSUME Init PROVE TypeOK
  OBVIOUS
<1>1. /\ config \in [mode : {"live", "headless"}, logged : BOOLEAN]
      /\ closed \in BOOLEAN /\ ctx \in BOOLEAN
      /\ state \in States /\ winner \in Actors
  BY GameAssumption, Zenon DEF Init, Actors
<1>2. /\ pc \in Stages \cup {"done"} /\ outcome \in Outcomes \cup {"none"}
      /\ step \in Nat /\ late \in Nat /\ lastReward \in Int
  BY DEF Init, Stages, Outcomes
<1>3. update \in Updates
  BY GameFacts, GameAssumption DEF Init, Updates
<1>4. action \in Actions
  BY GameAssumption DEF Init, Actions, Actors
<1>5. log \in Seq(Entries) /\ trace \in Seq(Moves)
  BY EmptySeq DEF Init
<1> QED BY <1>1, <1>2, <1>3, <1>4, <1>5 DEF TypeOK

(* What the fallback, the stamp and the replay entry are. *)
LEMMA ActionTypes ==
  ASSUME TypeOK
  PROVE  /\ Fallback \in Actions
         /\ \A a \in Actions : Stamped(a) \in Actions
         /\ \A r \in Int : Entry(NoAction, r, TRUE) \in Entries
         /\ \A a \in Actions, r \in Int : Entry(a, r, FALSE) \in Entries
         /\ \A e \in Entries : Write(e) => log' \in Seq(Entries)
<1> USE GameAssumption DEF TypeOK
<1>1. Fallback \in Actions
  BY DEF Fallback, Actions, Actors, Updates
<1>2. ASSUME NEW a \in Actions
      PROVE  Stamped(a) \in Actions
  BY DEF Stamped, Actions, Actors, Updates
<1>3. ASSUME NEW r \in Int
      PROVE  Entry(NoAction, r, TRUE) \in Entries
  BY DEF Entry, Entries, NoAction, Actors
<1>4. ASSUME NEW a \in Actions, NEW r \in Int
      PROVE  Entry(a, r, FALSE) \in Entries
  BY DEF Entry, Entries, Actions
<1>5. ASSUME NEW e \in Entries, Write(e)
      PROVE  log' \in Seq(Entries)
  BY <1>5 DEF Write
<1> QED BY <1>1, <1>2, <1>3, <1>4, <1>5

LEMMA NextTypes == TypeOK /\ [Next]_vars => TypeOK'
<1> SUFFICES ASSUME TypeOK, [Next]_vars PROVE TypeOK'
  OBVIOUS
<1> USE GameFacts, ActionTypes DEF TypeOK, Goto, Return, Stages, Outcomes
<1>1. CASE Start
  BY <1>1 DEF Start, session, history
<1>2. CASE CtxDone
  BY <1>2 DEF CtxDone, session, history
<1>3. CASE IsTerminalFails
  BY <1>3 DEF IsTerminalFails, session, history
<1>4. CASE GameOver
  <2>1. log' \in Seq(Entries)
    BY <1>4 DEF GameOver
  <2>2. closed' \in BOOLEAN
    BY <1>4 DEF GameOver
  <2>3. winner' \in Actors
    BY <1>4 DEF GameOver
  <2> QED BY <1>4, <2>1, <2>2, <2>3 DEF GameOver, history
<1>5. CASE SendUpdate
  BY <1>5 DEF SendUpdate, Updates, session, history
<1>6. ASSUME NEW a \in Actions, Answer(a)
      PROVE  TypeOK'
  BY <1>6 DEF Answer, session, history
<1>7. CASE AdapterFails
  BY <1>7 DEF AdapterFails, session, history
<1>8. CASE Accept
  BY <1>8 DEF Accept, session, history
<1>9. CASE Reject
  <2>1. action' \in Actions
    BY <1>9 DEF Reject
  <2> QED BY <1>9, <2>1 DEF Reject, session, history
<1>10. ASSUME NEW a \in Actions, AnswerAgain(a)
      PROVE  TypeOK'
  BY <1>10 DEF AnswerAgain, session, history
<1>11. CASE AdapterFailsAgain
  BY <1>11 DEF AdapterFailsAgain, session, history
<1>12. CASE ApplyFails
  BY <1>12 DEF ApplyFails, session, history
<1>13. CASE ApplyAction
  <2>1. /\ state' \in States /\ lastReward' \in Int /\ late' \in Nat
    BY <1>13 DEF ApplyAction, Actions
  <2>2. [turn |-> update.to, action |-> action,
         snap |-> state', reward |-> lastReward'] \in Moves
    BY <2>1 DEF Moves, Actions, Updates
  <2>3. trace' \in Seq(Moves)
    BY <1>13, <2>2 DEF ApplyAction
  <2> QED BY <1>13, <2>1, <2>3 DEF ApplyAction
<1>14. CASE WriteEntry
  <2>1. log' \in Seq(Entries)
    BY <1>14 DEF WriteEntry
  <2> QED BY <1>14, <2>1 DEF WriteEntry, history
<1>15. CASE WriteFails
  BY <1>15 DEF WriteFails, session, history
<1>16. CASE Cancel
  BY <1>16 DEF Cancel, session, history
<1>17. CASE UNCHANGED vars
  BY <1>17 DEF vars, session, history
<1> QED
  BY <1>1, <1>2, <1>3, <1>4, <1>5, <1>6, <1>7, <1>8, <1>9, <1>10, <1>11, <1>12,
     <1>13, <1>14, <1>15, <1>16, <1>17
  DEF Next, RunStep, AdapterReturns

(* Every variable keeps its type. *)
THEOREM RunnerTypes == Spec => []TypeOK
  BY InitTypes, NextTypes, PTL DEF Spec

-----------------------------------------------------------------------------
(* The invariant of a turn.  step counts the moves, except while the last one is
   being written, and from the moment an update is sent until a move is applied
   the game is not over and nothing about it changes. *)
Prompted == {"request", "validate", "reprompt", "apply"}

UpdateIsCurrent ==
  pc \in Prompted => update.to = OnTurn(Len(trace)) /\ update.state = state

TurnInv ==
  /\ pc = "done" <=> outcome # "none"
  /\ pc # "done" => Len(trace) = IF pc = "write" THEN step + 1 ELSE step
  /\ pc \in Prompted => ~Over[state]
  /\ UpdateIsCurrent

LEMMA InitTurn == Init => TurnInv
  BY EmptySeq DEF Init, TurnInv, UpdateIsCurrent, Prompted

LEMMA NextTurn == TypeOK /\ TurnInv /\ [Next]_vars => TurnInv'
<1> SUFFICES ASSUME TypeOK, TurnInv, [Next]_vars PROVE TurnInv'
  OBVIOUS
<1> USE DEF Goto, Return, Prompted
<1>1. ASSUME UNCHANGED <<state, step, lastReward, trace>>,
             \/ UNCHANGED <<pc, update, outcome>>
             \/ /\ UNCHANGED <<update, outcome>>
                /\ pc \in Prompted /\ pc' \in Prompted
             \/ UNCHANGED update /\ pc = "start" /\ pc' = "loop" /\ UNCHANGED outcome
             \/ UNCHANGED update /\ pc' = "done" /\ outcome' \in Outcomes
      PROVE  TurnInv'
  BY <1>1 DEF TurnInv, UpdateIsCurrent, Outcomes
<1>2. CASE Start
  BY <1>1, <1>2 DEF Start, session, history, Outcomes
<1>3. CASE CtxDone \/ IsTerminalFails \/ ApplyFails \/ WriteFails
  BY <1>1, <1>3
  DEF CtxDone, IsTerminalFails, ApplyFails, WriteFails, session, history, Outcomes
<1>4. CASE GameOver
  BY <1>1, <1>4 DEF GameOver, history, Outcomes
<1>5. CASE SendUpdate
  BY <1>5 DEF SendUpdate, TurnInv, UpdateIsCurrent, session, history
<1>6. ASSUME NEW a \in Actions, Answer(a) \/ AnswerAgain(a)
      PROVE  TurnInv'
  BY <1>1, <1>6 DEF Answer, AnswerAgain, session, history
<1>7. CASE AdapterFails \/ AdapterFailsAgain
  BY <1>1, <1>7 DEF AdapterFails, AdapterFailsAgain, session, history, Outcomes
<1>8. CASE Accept \/ Reject
  BY <1>1, <1>8 DEF Accept, Reject, session, history
<1>9. CASE ApplyAction
  <2> DEFINE m == [turn |-> update.to, action |-> action,
                   snap |-> state', reward |-> lastReward']
  <2>1. m \in Moves /\ m.reward = lastReward'
    BY <1>9, GameFacts DEF ApplyAction, TypeOK, Moves, Actions, Updates
  <2>2. trace \in Seq(Moves) /\ trace' = Append(trace, m)
    BY <1>9 DEF ApplyAction, TypeOK
  <2> HIDE DEF m
  <2>3. /\ trace' # <<>> /\ Len(trace') = Len(trace) + 1
        /\ trace'[Len(trace')] = m
    BY <2>1, <2>2, AppendProperties
  <2> QED BY <1>9, <2>1, <2>3 DEF ApplyAction, TurnInv, UpdateIsCurrent
<1>10. CASE WriteEntry
  BY <1>10 DEF WriteEntry, TurnInv, UpdateIsCurrent, history
<1>11. CASE Cancel
  BY <1>1, <1>11 DEF Cancel, session, history
<1>12. CASE UNCHANGED vars
  BY <1>1, <1>12 DEF vars, session, history
<1> QED
  BY <1>2, <1>3, <1>4, <1>5, <1>6, <1>7, <1>8, <1>9, <1>10, <1>11, <1>12
  DEF Next, RunStep, AdapterReturns

-----------------------------------------------------------------------------
(* Every run is a game played in turns: a move is made by applying an action,
   and every other step of the loop either ends the game or leaves it alone. *)
THEOREM RunsPlayInTurns == Spec => PlaysInTurns
<1>1. Init => Turns!TurnsInit
  BY DEF Init, Turns!TurnsInit
<1>2. TypeOK /\ TurnInv /\ [Next]_vars => [Turns!TurnsNext]_(Turns!turnVars)
  <2> SUFFICES ASSUME TypeOK, TurnInv, [Next]_vars
               PROVE  Turns!TurnsNext \/ UNCHANGED Turns!turnVars
    OBVIOUS
  <2> USE DEF Goto, Return
  <2>1. CASE UNCHANGED <<state, trace, outcome>>
    BY <2>1 DEF Turns!turnVars
  <2>2. CASE /\ UNCHANGED <<state, trace>> /\ outcome = "none"
             /\ outcome' \in {"cancelled", "error"}
    BY <2>2 DEF Turns!TurnsNext, Turns!Abandon
  <2>3. CASE /\ UNCHANGED <<state, trace>> /\ outcome = "none"
             /\ outcome' = "nil" /\ Over[state]
    BY <2>3 DEF Turns!TurnsNext, Turns!End
  <2>4. CASE ApplyAction
    <3>1. action \in Actions
      BY DEF TypeOK
    <3>2. /\ outcome = "none" /\ UNCHANGED outcome /\ ~Over[state]
          /\ update.to = OnTurn(Len(trace))
      BY <2>4 DEF ApplyAction, TurnInv, UpdateIsCurrent, Prompted
    <3>3. /\ state' = Apply[state][action]
          /\ trace' = Append(trace, [turn |-> OnTurn(Len(trace)),
                                     action |-> action,
                                     snap |-> Apply[state][action],
                                     reward |-> Reward[state][action]])
      BY <2>4, <3>2 DEF ApplyAction
    <3>4. Turns!Move(action)
      BY <3>2, <3>3 DEF Turns!Move, Turns!OnTurn, OnTurn
    <3> QED BY <3>1, <3>4 DEF Turns!TurnsNext, Turns!Actions, Turns!Actors, Actions, Actors
  <2>5. outcome = "none" <=> pc # "done"
    BY DEF TurnInv
  <2>6. CASE Start \/ CtxDone \/ IsTerminalFails \/ GameOver
    BY <2>1, <2>2, <2>3, <2>5, <2>6
    DEF Start, CtxDone, IsTerminalFails, GameOver, session, history
  <2>7. CASE SendUpdate \/ Accept \/ Reject \/ ApplyFails
    BY <2>1, <2>2, <2>5, <2>7
    DEF SendUpdate, Accept, Reject, ApplyFails, session, history
  <2>8. CASE AdapterReturns
    BY <2>1, <2>2, <2>5, <2>8
    DEF AdapterReturns, AdapterFails, AdapterFailsAgain, Answer, AnswerAgain,
        session, history
  <2>9. CASE WriteEntry \/ WriteFails \/ Cancel \/ UNCHANGED vars
    BY <2>1, <2>2, <2>5, <2>9
    DEF WriteEntry, WriteFails, Cancel, vars, session, history
  <2> QED BY <2>4, <2>6, <2>7, <2>8, <2>9 DEF Next, RunStep
<1> QED
  BY <1>1, <1>2, InitTypes, NextTypes, InitTurn, NextTurn, PTL
  DEF Spec, PlaysInTurns, Turns!TurnsSpec

-----------------------------------------------------------------------------
(* The invariant of the replay log.  It has an entry for every counted step, and
   while a run goes on its last snapshot is the state the next move starts
   from; a move that is waiting to be written started from update.state. *)
LastSnap == IF log = <<>> THEN InitialState ELSE log[Len(log)].snap

WritePending ==
  /\ state = Apply[update.state][action]
  /\ lastReward = Reward[update.state][action]
  /\ trace # <<>> /\ trace[Len(trace)].action = action

SameMoves ==
  \A i \in 1..Len(trace) : i <= Len(log) => Taken(log[i]) = trace[i].action

LogInv ==
  /\ pc = "done" => Len(trace) = step \/ (outcome = "error" /\ Len(trace) = step + 1)
  /\ pc = "write" => WritePending
  /\ ~config.logged => log = <<>>
  /\ config.logged =>
       /\ Len(log) = IF outcome = "nil" THEN step + 1 ELSE step
       /\ outcome = "none" =>
            LastSnap = IF pc = "write" THEN update.state ELSE state
       /\ SameMoves
  /\ LogReplays

LEMMA InitLog == Init => LogInv
  BY EmptySeq
  DEF Init, LogInv, LastSnap, SameMoves, LogReplays, WritePending

(* Appending an entry keeps a log replayable if the entry is the next one. *)
LEMMA AppendReplays ==
  ASSUME TypeOK, LogReplays, outcome = "none",
         NEW e \in Entries, log' = Append(log, e),
         e.step = Len(log),
         e.terminal => outcome' = "nil" /\ e.snap = LastSnap /\ Over[e.snap],
         ~e.terminal => /\ Taken(e) \in Actions
                        /\ e.snap = Apply[LastSnap][Taken(e)]
                        /\ e.reward = Reward[LastSnap][Taken(e)]
  PROVE  LogReplays' /\ LastSnap' = e.snap /\ Len(log') = Len(log) + 1
<1>1. log \in Seq(Entries)
  BY DEF TypeOK
<1>2. /\ Len(log') = Len(log) + 1 /\ log' # <<>>
      /\ \A i \in 1..Len(log) : log'[i] = log[i]
      /\ log'[Len(log) + 1] = e
  BY <1>1, AppendProperties
<1>3. LastSnap' = e.snap
  BY <1>2 DEF LastSnap
<1>4. \A i \in 1..Len(log) : ~log[i].terminal
  BY DEF LogReplays
<1>0. Len(log) \in Nat
  BY <1>1
<1>5. ASSUME NEW i \in 1..Len(log)
      PROVE  Before(i)' = Before(i)
  <2>1. CASE i = 1
    BY <2>1 DEF Before
  <2>2. CASE i # 1
    <3>1. i - 1 \in 1..Len(log)
      BY <1>0, <2>2
    <3> QED BY <1>2, <2>2, <3>1 DEF Before
  <2> QED BY <2>1, <2>2
<1>6. ASSUME NEW i \in Nat, i = Len(log) + 1
      PROVE  Before(i)' = LastSnap
  <2>1. CASE log = <<>>
    BY <1>1, <1>6, <2>1 DEF Before, LastSnap
  <2>2. CASE log # <<>>
    <3>1. Len(log) \in 1..Len(log) /\ i - 1 = Len(log) /\ i # 1
      BY <1>0, <1>1, <1>6, <2>2, EmptySeq
    <3> QED BY <1>2, <2>2, <3>1 DEF Before, LastSnap
  <2> QED BY <2>1, <2>2
<1>7. ASSUME NEW i \in 1..Len(log')
      PROVE  /\ log'[i].step = i - 1
             /\ ~log'[i].terminal =>
                  /\ Taken(log'[i]) \in Actions
                  /\ log'[i].snap = Apply[Before(i)'][Taken(log'[i])]
                  /\ log'[i].reward = Reward[Before(i)'][Taken(log'[i])]
             /\ log'[i].terminal =>
                  /\ i = Len(log')
                  /\ outcome' = "nil"
                  /\ log'[i].snap = Before(i)'
                  /\ Over[log'[i].snap]
  <2>1. CASE i \in 1..Len(log)
    <3>1. log'[i] = log[i] /\ ~log[i].terminal /\ Before(i)' = Before(i)
      BY <1>2, <1>4, <1>5, <2>1
    <3>2. /\ log[i].step = i - 1
          /\ Taken(log[i]) \in Actions
          /\ log[i].snap = Apply[Before(i)][Taken(log[i])]
          /\ log[i].reward = Reward[Before(i)][Taken(log[i])]
      BY <2>1, <3>1 DEF LogReplays
    <3> QED BY <3>1, <3>2
  <2>2. CASE i = Len(log) + 1
    <3>1. log'[i] = e /\ Before(i)' = LastSnap /\ i - 1 = Len(log)
      BY <1>1, <1>2, <1>6, <2>2
    <3> QED BY <1>2, <2>2, <3>1
  <2> QED BY <1>1, <1>2, <2>1, <2>2
<1>8. LogReplays'
  BY <1>7 DEF LogReplays
<1> QED BY <1>2, <1>3, <1>8

(* A step that writes nothing keeps the log replayable: before the run returns
   no entry is terminal. *)
LEMMA SameReplays ==
  ASSUME LogReplays, UNCHANGED log, outcome # "none" => UNCHANGED outcome
  PROVE  LogReplays' /\ LastSnap' = LastSnap
<1>1. LastSnap' = LastSnap
  BY DEF LastSnap
<1>2. ASSUME NEW i \in 1..Len(log)
      PROVE  /\ Before(i)' = Before(i)
             /\ log[i].terminal => outcome' = "nil"
  BY DEF Before, LogReplays
<1>3. LogReplays'
  BY <1>2 DEF LogReplays
<1> QED BY <1>1, <1>3

LEMMA NextLog == TypeOK /\ TurnInv /\ LogInv /\ [Next]_vars => LogInv'
<1> SUFFICES ASSUME TypeOK, TurnInv, LogInv, [Next]_vars PROVE LogInv'
  OBVIOUS
<1>1. ASSUME UNCHANGED <<config, state, step, lastReward, log, trace>>,
             \/ UNCHANGED <<pc, update, action, outcome>>
             \/ pc # "write" /\ pc' \notin {"write", "done"} /\ UNCHANGED outcome
             \/ pc # "done" /\ pc' = "done" /\ outcome' \in {"error", "cancelled"}
                /\ (pc = "write" => outcome' = "error")
      PROVE  LogInv'
  <2>1. outcome # "none" => UNCHANGED outcome
    BY <1>1 DEF TurnInv
  <2>2. LogReplays' /\ LastSnap' = LastSnap
    BY <1>1, <2>1, SameReplays DEF LogInv
  <2>3. SameMoves' = SameMoves
    BY <1>1 DEF SameMoves
  <2>4. WritePending' = WritePending \/ pc' # "write"
    BY <1>1 DEF WritePending
  <2>5. pc' = "done" =>
          Len(trace') = step' \/ (outcome' = "error" /\ Len(trace') = step' + 1)
    BY <1>1 DEF LogInv, TurnInv
  <2>6. config.logged =>
          /\ Len(log') = IF outcome' = "nil" THEN step' + 1 ELSE step'
          /\ outcome' = "none" =>
               LastSnap' = IF pc' = "write" THEN update'.state ELSE state'
    BY <1>1, <2>2 DEF LogInv, TurnInv
  <2> QED BY <1>1, <2>2, <2>3, <2>4, <2>5, <2>6 DEF LogInv
<1> USE DEF Goto, Return
<1>2. CASE Start \/ CtxDone \/ IsTerminalFails \/ ApplyFails \/ WriteFails
  BY <1>1, <1>2
  DEF Start, CtxDone, IsTerminalFails, ApplyFails, WriteFails, session, history
<1>3. CASE SendUpdate \/ Accept \/ Reject \/ AdapterReturns
  BY <1>1, <1>3
  DEF SendUpdate, Accept, Reject, AdapterReturns, AdapterFails, AdapterFailsAgain,
      Answer, AnswerAgain, session, history
<1>4. CASE Cancel \/ UNCHANGED vars
  BY <1>1, <1>4 DEF Cancel, vars, session, history
<1>5. CASE GameOver
  <2> DEFINE e == Entry(NoAction, lastReward, TRUE)
  <2>1. CASE outcome' = "error"
    BY <1>1, <1>5, <2>1 DEF GameOver, history
  <2>2. CASE outcome' = "nil" /\ ~config.logged
    <3>1. /\ UNCHANGED <<log, config, step, trace>> /\ outcome = "none"
          /\ pc = "loop" /\ pc' = "done"
      BY <1>5, <2>2 DEF GameOver, Write, history, TurnInv
    <3>2. LogReplays'
      BY <3>1, SameReplays DEF LogInv
    <3> QED BY <2>2, <3>1, <3>2 DEF LogInv, TurnInv
  <2>3. CASE outcome' = "nil" /\ config.logged
    <3>1. /\ log' = Append(log, e) /\ outcome = "none" /\ pc = "loop"
          /\ pc' = "done" /\ UNCHANGED <<config, step, trace>> /\ Over[state]
      BY <1>5, <2>3 DEF GameOver, Write, history, TurnInv
    <3>2. /\ e \in Entries /\ e.step = step /\ e.snap = state /\ e.terminal
      BY ActionTypes DEF TypeOK, Entry
    <3>3. LastSnap = state /\ Len(log) = step /\ Len(trace) = step /\ LogReplays
      BY <2>3, <3>1 DEF LogInv, TurnInv
    <3> HIDE DEF e
    <3>4. LogReplays' /\ Len(log') = step + 1
      BY <2>3, <3>1, <3>2, <3>3, AppendReplays
    <3>5. SameMoves'
      BY <2>3, <3>1, <3>3, AppendProperties DEF LogInv, SameMoves, TypeOK
    <3> QED BY <2>3, <3>1, <3>3, <3>4, <3>5 DEF LogInv
  <2> QED BY <1>5, <2>1, <2>2, <2>3 DEF GameOver
<1>6. CASE ApplyAction
  <2> DEFINE m == [turn |-> update.to, action |-> action,
                   snap |-> state', reward |-> lastReward']
  <2>1. /\ UNCHANGED <<config, log, step, update, action, outcome>>
        /\ outcome = "none" /\ pc = "apply" /\ pc' = "write"
        /\ state' = Apply[state][action]
        /\ lastReward' = Reward[state][action]
        /\ update.state = state /\ Len(trace) = step
    BY <1>6 DEF ApplyAction, TurnInv, UpdateIsCurrent, Prompted
  <2>2. m \in Moves /\ m.action = action
    BY <2>1, GameFacts DEF TypeOK, Moves, Actions, Updates
  <2>3. trace \in Seq(Moves) /\ trace' = Append(trace, m)
    BY <1>6 DEF ApplyAction, TypeOK
  <2> HIDE DEF m
  <2>4. /\ trace' # <<>> /\ Len(trace') = Len(trace) + 1
        /\ trace'[Len(trace')] = m
        /\ \A i \in 1..Len(trace) : trace'[i] = trace[i]
    BY <2>2, <2>3, AppendProperties
  <2>5. LogReplays' /\ LastSnap' = LastSnap
    BY <2>1, SameReplays DEF LogInv
  <2>6. WritePending'
    BY <2>1, <2>2, <2>4 DEF WritePending
  <2>7. config.logged => SameMoves'
    BY <2>1, <2>3, <2>4 DEF LogInv, SameMoves, TypeOK
  <2>8. config.logged => Len(log) = step /\ LastSnap = state
    BY <2>1 DEF LogInv
  <2> QED BY <2>1, <2>5, <2>6, <2>7, <2>8 DEF LogInv
<1>7. CASE WriteEntry
  <2> DEFINE e == Entry(action, lastReward, FALSE)
  <2>1. /\ UNCHANGED <<config, state, lastReward, trace, outcome, update>>
        /\ outcome = "none" /\ pc = "write" /\ pc' = "loop"
        /\ step' = step + 1
        /\ WritePending
    BY <1>7 DEF WriteEntry, TurnInv, LogInv, history
  <2>2. CASE ~config.logged
    <3>1. UNCHANGED log
      BY <1>7, <2>2 DEF WriteEntry, Write
    <3>2. LogReplays'
      BY <2>1, <3>1, SameReplays DEF LogInv
    <3> QED BY <2>1, <2>2, <3>1, <3>2 DEF LogInv
  <2>3. CASE config.logged
    <3>1. log' = Append(log, e)
      BY <1>7, <2>3 DEF WriteEntry, Write
    <3>2. /\ e \in Entries /\ e.step = step /\ e.snap = state /\ ~e.terminal
          /\ Taken(e) = action /\ e.reward = lastReward /\ action \in Actions
      BY ActionTypes DEF TypeOK, Entry, Actions, Taken
    <3>3. /\ LastSnap = update.state /\ Len(log) = step /\ LogReplays
          /\ SameMoves /\ Len(trace) = step + 1
      BY <2>1, <2>3 DEF LogInv, TurnInv
    <3> HIDE DEF e
    <3>4. LogReplays' /\ LastSnap' = state /\ Len(log') = step + 1
      BY <2>1, <3>1, <3>2, <3>3, AppendReplays DEF WritePending
    <3>5. /\ \A i \in 1..Len(log) : log'[i] = log[i]
          /\ log'[Len(log) + 1] = e
      BY <3>1, <3>2, AppendProperties DEF TypeOK
    <3>6. SameMoves'
      BY <2>1, <3>2, <3>3, <3>4, <3>5 DEF SameMoves, WritePending, TypeOK
    <3> QED BY <2>1, <2>3, <3>4, <3>6 DEF LogInv
  <2> QED BY <2>2, <2>3
<1> QED BY <1>2, <1>3, <1>4, <1>5, <1>6, <1>7 DEF Next, RunStep

(* Whatever the adapters answer, and whenever the run is cancelled or fails, its
   replay log can be replayed from the initial state, and lacks at most the move
   that was being written when the run stopped. *)
THEOREM LogsReplay == Spec => [](LogReplays /\ LogIsComplete)
<1>1. TypeOK /\ TurnInv /\ LogInv => LogReplays /\ LogIsComplete
  <2> SUFFICES ASSUME TypeOK, TurnInv, LogInv PROVE LogReplays /\ LogIsComplete
    OBVIOUS
  <2>1. Len(trace) \in Nat /\ Len(log) \in Nat /\ step \in Nat
    BY DEF TypeOK
  <2>2. pc # "done" => outcome # "nil"
    BY DEF TurnInv
  <2>3. pc # "done" => Len(trace) = IF pc = "write" THEN step + 1 ELSE step
    BY DEF TurnInv
  <2>4. config.logged => LogIsComplete
    BY <2>1, <2>2, <2>3 DEF LogInv, LogIsComplete, SameMoves
  <2> QED BY <2>4 DEF LogInv, LogIsComplete
<1> QED
  BY <1>1, InitTypes, NextTypes, InitTurn, NextTurn, InitLog, NextLog, PTL DEF Spec

-----------------------------------------------------------------------------
(* What a run leaves behind says how it ended: only GameOver names a winner or closes
   the log, nothing changes after a return, and while the run goes on it has done
   neither. *)
EndInv ==
  /\ outcome = "none" => winner = Blank /\ ~closed
  /\ EndsWell

LEMMA InitEnds == Init => EndInv
  BY DEF Init, EndInv, EndsWell

LEMMA NextEnds == TypeOK /\ TurnInv /\ EndInv /\ [Next]_vars => EndInv'
<1> SUFFICES ASSUME TypeOK, TurnInv, EndInv, [Next]_vars PROVE EndInv'
  OBVIOUS
<1> USE DEF Goto, Return
<1>1. pc # "done" <=> outcome = "none"
  BY DEF TurnInv
<1>2. CASE /\ UNCHANGED <<config, state, winner, log, closed, outcome>>
           /\ ctx' = ctx \/ ctx'
  BY <1>2 DEF EndInv, EndsWell
<1>3. CASE /\ UNCHANGED <<config, winner, closed, ctx>> /\ outcome = "none"
           /\ outcome' \in {"none", "error"} \/ (outcome' = "cancelled" /\ ctx)
  BY <1>3 DEF EndInv, EndsWell
<1>4. CASE GameOver
  <2> DEFINE e == Entry(NoAction, lastReward, TRUE)
  <2>1. CASE /\ outcome' = "error" /\ Over[state] /\ winner' = Winner[state]
             /\ UNCHANGED <<config, state, closed>> /\ outcome = "none" /\ config.logged
    BY <2>1 DEF EndInv, EndsWell
  <2>2. CASE /\ outcome' = "nil" /\ Over[state] /\ winner' = Winner[state]
             /\ UNCHANGED <<config, state>> /\ closed' = config.logged
             /\ Write(e)
    <3>1. e \in Entries /\ e.terminal
      BY ActionTypes DEF TypeOK, Entry
    <3> HIDE DEF e
    <3>2. config.logged => log' # <<>> /\ log'[Len(log')] = e
      BY <2>2, <3>1, AppendProperties DEF TypeOK, Write
    <3>3. config.logged => closed'
      BY <2>2
    <3> QED BY <2>2, <3>1, <3>2, <3>3 DEF EndInv, EndsWell
  <2> QED BY <1>1, <1>4, <2>1, <2>2 DEF GameOver
<1>5. CASE Start \/ CtxDone \/ IsTerminalFails \/ SendUpdate \/ Accept \/ Reject
  BY <1>1, <1>3, <1>5
  DEF Start, CtxDone, IsTerminalFails, SendUpdate, Accept, Reject, session
<1>6. CASE ApplyFails \/ ApplyAction \/ WriteEntry \/ WriteFails
  BY <1>1, <1>3, <1>6 DEF ApplyFails, ApplyAction, WriteEntry, WriteFails, session
<1>7. CASE AdapterReturns
  BY <1>1, <1>3, <1>7
  DEF AdapterReturns, AdapterFails, AdapterFailsAgain, Answer, AnswerAgain, session
<1>8. CASE Cancel \/ UNCHANGED vars
  BY <1>2, <1>8 DEF Cancel, vars, session
<1> QED BY <1>4, <1>5, <1>6, <1>7, <1>8 DEF Next, RunStep

(* However a run is left, the log is closed only by a good end, which has logged it
   and named the winner; a winner is named only for a game that is over, by a good
   end or by one whose last entry could not be written; and a run that says it
   was cancelled was. *)
THEOREM RunsEndWell == Spec => []EndsWell
<1>1. EndInv => EndsWell
  BY DEF EndInv
<1> QED
  BY <1>1, InitTypes, NextTypes, InitTurn, NextTurn, InitEnds, NextEnds, PTL DEF Spec

-----------------------------------------------------------------------------
(* The invariant of the actions.  An action that waits to be validated has an actor;
   one that waits to be applied was validated in the state it will be applied to,
   or is the fallback of the player on turn. *)
Checked(s, player, a) ==
  /\ Valid[s][a] \/ a = [actor |-> player, payload |-> Null]
  /\ a.actor = Blank => config.mode = "live"

CheckInv ==
  /\ state = IF trace = <<>> THEN InitialState ELSE trace[Len(trace)].snap
  /\ pc = "validate" => action.actor # Blank
  /\ pc = "reprompt" => config.mode = "live"
  /\ pc = "apply" => Checked(state, update.to, action)
  /\ MovesAreChecked

LEMMA InitChecked == Init => CheckInv
  BY EmptySeq DEF Init, CheckInv, MovesAreChecked

LEMMA NextChecked == TypeOK /\ TurnInv /\ CheckInv /\ [Next]_vars => CheckInv'
<1> SUFFICES ASSUME TypeOK, TurnInv, CheckInv, [Next]_vars PROVE CheckInv'
  OBVIOUS
<1> USE DEF Goto, Return
<1>1. ASSUME UNCHANGED <<config, state, trace>>,
             pc' = "validate" => action'.actor # Blank,
             pc' = "reprompt" => config.mode = "live",
             pc' = "apply" => Checked(state, update'.to, action')
      PROVE  CheckInv'
  <2>1. MovesAreChecked'
    BY <1>1 DEF CheckInv, MovesAreChecked, BeforeMove
  <2> QED BY <1>1, <2>1 DEF CheckInv, Checked
<1>2. update.to # Blank /\ update.to \in Names
  BY GameAssumption DEF TypeOK, Updates
<1>3. CASE Start \/ CtxDone \/ IsTerminalFails \/ GameOver \/ SendUpdate
  BY <1>1, <1>3
  DEF Start, CtxDone, IsTerminalFails, GameOver, SendUpdate, session, history
<1>4. ASSUME NEW a \in Actions, Answer(a)
      PROVE  CheckInv'
  <2>1. action'.actor # Blank
    BY <1>2, <1>4 DEF Answer, Stamped, Actions
  <2> QED BY <1>1, <1>4, <2>1 DEF Answer, session, history
<1>5. Checked(state, update.to, Fallback) /\ Fallback.actor # Blank
  BY <1>2 DEF Checked, Fallback
<1>6. CASE AdapterFails \/ AdapterFailsAgain
  BY <1>1, <1>5, <1>6 DEF AdapterFails, AdapterFailsAgain, session, history
<1>7. CASE Accept
  <2>1. Checked(state, update.to, action)
    BY <1>7 DEF Accept, CheckInv, Checked
  <2> QED BY <1>1, <1>7, <2>1 DEF Accept, session, history
<1>8. CASE Reject
  BY <1>1, <1>5, <1>8 DEF Reject, session, history
<1>9. pc = "reprompt" => config.mode = "live"
  BY DEF CheckInv
<1>10. ASSUME NEW a \in Actions, AnswerAgain(a)
       PROVE  CheckInv'
  <2>1. Checked(state, update.to, action')
    BY <1>5, <1>9, <1>10 DEF AnswerAgain, Checked
  <2> QED BY <1>1, <1>10, <2>1 DEF AnswerAgain, session, history
<1>11. CASE ApplyAction
  <2> DEFINE m == [turn |-> update.to, action |-> action,
                   snap |-> state', reward |-> lastReward']
  <2>1. /\ pc = "apply" /\ pc' = "write" /\ UNCHANGED config
        /\ Checked(state, OnTurn(Len(trace)), action)
    BY <1>11 DEF ApplyAction, CheckInv, TurnInv, UpdateIsCurrent, Prompted
  <2>2. m \in Moves /\ m.action = action /\ m.snap = state'
    BY <1>11, GameFacts DEF ApplyAction, TypeOK, Moves, Updates
  <2>3. trace \in Seq(Moves) /\ trace' = Append(trace, m)
    BY <1>11 DEF ApplyAction, TypeOK
  <2> HIDE DEF m
  <2>4. /\ Len(trace) \in Nat /\ Len(trace') = Len(trace) + 1 /\ trace' # <<>>
        /\ trace'[Len(trace) + 1] = m
        /\ \A i \in 1..Len(trace) : trace'[i] = trace[i]
    BY <2>2, <2>3, AppendProperties
  <2>5. ASSUME NEW i \in 1..Len(trace')
        PROVE  /\ \/ Valid[BeforeMove(i)'][trace'[i].action]
                  \/ trace'[i].action = [actor |-> OnTurn(i - 1), payload |-> Null]
               /\ trace'[i].action.actor = Blank => config.mode = "live"
    <3>1. CASE i \in 1..Len(trace)
      <4>1. trace'[i] = trace[i] /\ BeforeMove(i)' = BeforeMove(i)
        <5>1. i # 1 => i - 1 \in 1..Len(trace)
          BY <2>4, <3>1
        <5> QED BY <2>4, <3>1, <5>1 DEF BeforeMove
      <4> QED BY <3>1, <4>1 DEF CheckInv, MovesAreChecked
    <3>2. CASE i = Len(trace) + 1
      <4>1. BeforeMove(i)' = state
        <5>1. CASE trace = <<>>
          BY <2>4, <3>2, <5>1, EmptySeq DEF BeforeMove, CheckInv
        <5>2. CASE trace # <<>>
          <6>1. Len(trace) \in 1..Len(trace) /\ i # 1 /\ i - 1 = Len(trace)
            BY <2>3, <2>4, <3>2, <5>2, EmptySeq
          <6> QED BY <2>4, <5>2, <6>1 DEF BeforeMove, CheckInv
        <5> QED BY <5>1, <5>2
      <4>2. i - 1 = Len(trace)
        BY <2>4, <3>2
      <4> QED BY <2>1, <2>2, <2>4, <3>2, <4>1, <4>2 DEF Checked
    <3> QED BY <2>4, <3>1, <3>2
  <2>6. MovesAreChecked'
    BY <2>1, <2>5 DEF MovesAreChecked
  <2>7. state' = trace'[Len(trace')].snap
    BY <2>2, <2>4
  <2> QED BY <2>1, <2>4, <2>6, <2>7 DEF CheckInv
<1>12. CASE ApplyFails \/ WriteEntry \/ WriteFails
  BY <1>1, <1>12 DEF ApplyFails, WriteEntry, WriteFails, session, history
<1>13. CASE Cancel \/ UNCHANGED vars
  BY <1>1, <1>13 DEF Cancel, vars, session, history, CheckInv
<1> QED
  BY <1>3, <1>4, <1>6, <1>7, <1>8, <1>10, <1>11, <1>12, <1>13
  DEF Next, RunStep, AdapterReturns

(* Whatever the adapters answer, no move is applied that was not found valid in the
   state it is applied to, the no-op of the player on turn excepted, and none
   is anonymous in Headless mode. *)
THEOREM AppliedMovesAreChecked == Spec => []MovesAreChecked
<1>1. CheckInv => MovesAreChecked
  BY DEF CheckInv
<1> QED
  BY <1>1, InitTypes, NextTypes, InitTurn, NextTurn, InitChecked, NextChecked, PTL
  DEF Spec

-----------------------------------------------------------------------------
(* After a move that was applied in spite of the cancellation the loop comes back
   to its look at the context before it asks for another. *)
CancelInv ==
  /\ ~ctx => late = 0
  /\ OneMoveAfterCancel
  /\ late > 0 => pc \in {"write", "loop", "done"}

LEMMA InitCancel == Init => CancelInv
  BY DEF Init, CancelInv, OneMoveAfterCancel

LEMMA NextCancel == TypeOK /\ CancelInv /\ [Next]_vars => CancelInv'
<1> SUFFICES ASSUME TypeOK, CancelInv, [Next]_vars PROVE CancelInv'
  OBVIOUS
<1> USE DEF Goto, Return, CancelInv, OneMoveAfterCancel, TypeOK
<1>1. CASE Start \/ CtxDone \/ IsTerminalFails \/ GameOver
  BY <1>1 DEF Start, CtxDone, IsTerminalFails, GameOver, history
<1>2. CASE SendUpdate \/ Accept \/ Reject
  BY <1>2 DEF SendUpdate, Accept, Reject, history
<1>3. CASE ApplyFails \/ WriteEntry \/ WriteFails
  BY <1>3 DEF ApplyFails, WriteEntry, WriteFails, history
<1>4. CASE ApplyAction
  <2>1. /\ late = 0 /\ ctx' = ctx /\ pc' = "write"
        /\ late' = IF ctx THEN late + 1 ELSE late
    BY <1>4 DEF ApplyAction
  <2> QED BY <2>1
<1>5. CASE AdapterReturns
  BY <1>5
  DEF AdapterReturns, AdapterFails, AdapterFailsAgain, Answer, AnswerAgain, history
<1>6. CASE Cancel \/ UNCHANGED vars
  BY <1>6 DEF Cancel, vars, history
<1> QED BY <1>1, <1>2, <1>3, <1>4, <1>5, <1>6 DEF Next, RunStep

(* Once its context is done a run applies one more move at most. *)
THEOREM CancelledRunsStop == Spec => []OneMoveAfterCancel
<1>1. CancelInv => OneMoveAfterCancel
  BY DEF CancelInv
<1> QED BY <1>1, InitTypes, NextTypes, InitCancel, NextCancel, PTL DEF Spec
=============================================================================
