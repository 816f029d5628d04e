--------------------------- MODULE SessionRunner ----------------------------
(***************************************************************************)
(* Runner.Run (pkg/engine/runner.go): the loop that plays one session.     *)
(*                                                                         *)
(* The loop runs in one goroutine.  What interleaves with it is the        *)
(* cancellation of its context, which may come between any two of the      *)
(* places where the loop looks at it, and what varies is what the adapter, *)
(* the game logic and the replay log answer.  A step of this module goes   *)
(* from one such place to the next.  Sending to spectators and logging     *)
(* never block and never fail; they are left out.                          *)
(***************************************************************************)
EXTENDS Game

VARIABLES
  config,      \* [mode, logged]: the run mode and whether there is a replay log
  pc,          \* where the loop stands
  state,       \* session.State
  step,        \* session.step
  lastReward,  \* session.lastReward
  winner,      \* session.winnerID
  log,         \* the entries session.Log has accepted
  closed,      \* session.Log was flushed and closed
  update,      \* the StateUpdate of this turn
  action,      \* the action to be validated or applied
  ctx,         \* the context is done
  outcome,     \* what Run returned: "none" while it runs
  trace,       \* history: the moves applied
  late         \* history: how many of them since the context was done

session == <<state, step, lastReward, winner, log, closed>>
history == <<trace, late>>
vars == <<config, pc, session, update, action, ctx, outcome, history>>

Updates == [to : Names, state : States, reward : Int]
Entries == [step : Nat, actor : Actors, payload : Payloads \cup {Blank},
            snap : States, reward : Int, terminal : BOOLEAN]
Moves == [turn : Names, action : Actions, snap : States, reward : Int]

Stages == {"start", "loop", "request", "validate", "reprompt", "apply", "write"}
Outcomes == {"nil", "cancelled", "error"}

TypeOK ==
  /\ config \in [mode : {"live", "headless"}, logged : BOOLEAN]
  /\ pc \in Stages \cup {"done"}
  /\ state \in States
  /\ step \in Nat
  /\ lastReward \in Int
  /\ winner \in Actors
  /\ log \in Seq(Entries)
  /\ closed \in BOOLEAN
  /\ update \in Updates
  /\ action \in Actions
  /\ ctx \in BOOLEAN
  /\ outcome \in Outcomes \cup {"none"}
  /\ trace \in Seq(Moves)
  /\ late \in Nat

Init ==
  /\ config \in [mode : {"live", "headless"}, logged : BOOLEAN]
  /\ pc = "start"
  /\ state = InitialState
  /\ step = 0
  /\ lastReward = 0
  /\ winner = Blank
  /\ log = <<>>
  /\ closed = FALSE
  /\ update = [to |-> OnTurn(0), state |-> InitialState, reward |-> 0]
  /\ action = [actor |-> Blank, payload |-> Null]
  /\ ctx = FALSE
  /\ outcome = "none"
  /\ trace = <<>>
  /\ late = 0

-----------------------------------------------------------------------------

Goto(stage) == pc' = stage /\ UNCHANGED outcome
Return(result) == pc' = "done" /\ outcome' = result

(* The no-op action of RandomFallbackAdapter. *)
Fallback == [actor |-> update.to, payload |-> Null]

(* Faulty: a blank actor is left blank. *)
Unstamped(a) == a

(* Run fills in the actor that the adapter left blank. *)
Stamped(a) == IF a.actor = Blank THEN [a EXCEPT !.actor = update.to] ELSE a

(* writeReplayEntry.  EntryBefore is faulty: it records the state before the
   move. *)
EntryBefore(a, reward, terminal) ==
  [step |-> step, actor |-> a.actor, payload |-> a.payload,
   snap |-> update.state, reward |-> reward, terminal |-> terminal]

Entry(a, reward, terminal) ==
  [step |-> step, actor |-> a.actor, payload |-> a.payload,
   snap |-> state, reward |-> reward, terminal |-> terminal]
NoAction == [actor |-> Blank, payload |-> Blank]
Write(entry) == log' = IF config.logged THEN Append(log, entry) ELSE log

-----------------------------------------------------------------------------

(* A missing adapter, or metadata that cannot be written, ends the run. *)
Start ==
  /\ pc = "start"
  /\ Goto("loop") \/ Return("error")
  /\ UNCHANGED <<config, session, update, action, ctx, history>>

CtxDone ==
  /\ pc = "loop"
  /\ ctx
  /\ Return("cancelled")
  /\ UNCHANGED <<config, session, update, action, ctx, history>>

IsTerminalFails ==
  /\ pc = "loop"
  /\ ~ctx
  /\ Return("error")
  /\ UNCHANGED <<config, session, update, action, ctx, history>>

(* Faulty: the run ends well although its last entry was not written. *)
GameOverUnlogged ==
  /\ pc = "loop"
  /\ ~ctx
  /\ Over[state]
  /\ winner' = Winner[state]
  /\ \/ /\ Write(Entry(NoAction, lastReward, TRUE))
        /\ closed' = config.logged
     \/ config.logged /\ UNCHANGED <<log, closed>>
  /\ Return("nil")
  /\ UNCHANGED <<config, state, step, lastReward, update, action, ctx, history>>

(* The terminal branch.  The winner is recorded before the last entry is
   written, and a write that fails leaves the log open. *)
GameOver ==
  /\ pc = "loop"
  /\ ~ctx
  /\ Over[state]
  /\ winner' = Winner[state]
  /\ \/ /\ Write(Entry(NoAction, lastReward, TRUE))
        /\ closed' = config.logged
        /\ Return("nil")
     \/ /\ config.logged
        /\ Return("error")
        /\ UNCHANGED <<log, closed>>
  /\ UNCHANGED <<config, state, step, lastReward, update, action, ctx, history>>

(* Faulty: the context is not looked at. *)
SendUpdateUnchecked ==
  /\ pc = "loop"
  /\ ~Over[state]
  /\ update' = [to |-> OnTurn(step), state |-> state, reward |-> lastReward]
  /\ Goto("request")
  /\ UNCHANGED <<config, session, action, ctx, history>>

(* Faulty: the end of the game is not looked at. *)
SendUpdatePastEnd ==
  /\ pc = "loop"
  /\ ~ctx
  /\ update' = [to |-> OnTurn(step), state |-> state, reward |-> lastReward]
  /\ Goto("request")
  /\ UNCHANGED <<config, session, action, ctx, history>>

SendUpdate ==
  /\ pc = "loop"
  /\ ~ctx
  /\ ~Over[state]
  /\ update' = [to |-> OnTurn(step), state |-> state, reward |-> lastReward]
  /\ Goto("request")
  /\ UNCHANGED <<config, session, action, ctx, history>>

(* adapter.RequestAction returns an action, whatever actor it names. *)
Answer(a) ==
  /\ pc = "request"
  /\ action' = Stamped(a)
  /\ Goto("validate")
  /\ UNCHANGED <<config, session, update, ctx, history>>

(* adapter.RequestAction fails; handleAdapterError uses the fallback. *)
AdapterFails ==
  /\ pc = "request"
  /\ \/ /\ ctx
        /\ Return("cancelled")
        /\ UNCHANGED action
     \/ /\ ~ctx
        /\ action' = Fallback
        /\ Goto("validate")
  /\ UNCHANGED <<config, session, update, ctx, history>>

Accept ==
  /\ pc = "validate"
  /\ Valid[state][action]
  /\ Goto("apply")
  /\ UNCHANGED <<config, session, update, action, ctx, history>>

(* Faulty: in Live mode an invalid action is asked for again and again. *)
RejectForever ==
  /\ pc = "validate"
  /\ ~Valid[state][action]
  /\ IF config.mode = "live"
       THEN Goto("request") /\ UNCHANGED action
       ELSE Goto("apply") /\ action' = Fallback
  /\ UNCHANGED <<config, session, update, ctx, history>>

(* handleInvalidAction: the fallback, or one more prompt in Live mode.  Neither the
   fallback is validated nor is the actor of the second answer filled in. *)
Reject ==
  /\ pc = "validate"
  /\ ~Valid[state][action]
  /\ IF config.mode = "live"
       THEN Goto("reprompt") /\ UNCHANGED action
       ELSE Goto("apply") /\ action' = Fallback
  /\ UNCHANGED <<config, session, update, ctx, history>>

AnswerAgain(a) ==
  /\ pc = "reprompt"
  /\ action' = IF Valid[state][a] THEN a ELSE Fallback
  /\ Goto("apply")
  /\ UNCHANGED <<config, session, update, ctx, history>>

AdapterFailsAgain ==
  /\ pc = "reprompt"
  /\ action' = Fallback
  /\ Goto("apply")
  /\ UNCHANGED <<config, session, update, ctx, history>>

ApplyFails ==
  /\ pc = "apply"
  /\ Return("error")
  /\ UNCHANGED <<config, session, update, action, ctx, history>>

ApplyAction ==
  /\ pc = "apply"
  /\ state' = Apply[state][action]
  /\ lastReward' = Reward[state][action]
  /\ trace' = Append(trace, [turn |-> update.to, action |-> action,
                             snap |-> state', reward |-> lastReward'])
  /\ late' = IF ctx THEN late + 1 ELSE late
  /\ Goto("write")
  /\ UNCHANGED <<config, step, winner, log, closed, update, action, ctx>>

(* The entry is written, spectators are told, and only then step counts it. *)
WriteEntry ==
  /\ pc = "write"
  /\ Write(Entry(action, lastReward, FALSE))
  /\ step' = step + 1
  /\ Goto("loop")
  /\ UNCHANGED <<config, state, lastReward, winner, closed, update, action,
                 ctx, history>>

WriteFails ==
  /\ pc = "write"
  /\ config.logged
  /\ Return("error")
  /\ UNCHANGED <<config, session, update, action, ctx, history>>

(* Whoever owns the context cancels it, or its deadline passes. *)
Cancel ==
  /\ ~ctx
  /\ ctx' = TRUE
  /\ UNCHANGED <<config, pc, session, update, action, outcome, history>>

RunStep ==
  \/ Start
  \/ CtxDone \/ IsTerminalFails \/ GameOver \/ SendUpdate
  \/ Accept \/ Reject
  \/ ApplyFails \/ ApplyAction
  \/ WriteEntry \/ WriteFails

AdapterReturns ==
  \/ AdapterFails \/ AdapterFailsAgain
  \/ \E a \in Actions : Answer(a) \/ AnswerAgain(a)

Next == RunStep \/ AdapterReturns \/ Cancel

Spec == Init /\ [][Next]_vars

(* The loop's goroutine runs.  An adapter need not return: those of a session that
   was registered beforehand have no timeout and a context nobody cancels. *)
FairSpec == Spec /\ WF_vars(RunStep)

-----------------------------------------------------------------------------
(* Safety.                                                                  *)

(* The replay log replays: each entry's snapshot is what its action makes of
   the snapshot before it, with the reward of that move, under consecutive step
   indices; only the last entry may be terminal, and it repeats the state. *)
Before(i) == IF i = 1 THEN InitialState ELSE log[i - 1].snap

Taken(entry) == [actor |-> entry.actor, payload |-> entry.payload]

LogReplays ==
  \A i \in 1..Len(log) :
    /\ log[i].step = i - 1
    /\ ~log[i].terminal =>
         /\ Taken(log[i]) \in Actions
         /\ log[i].snap = Apply[Before(i)][Taken(log[i])]
         /\ log[i].reward = Reward[Before(i)][Taken(log[i])]
    /\ log[i].terminal =>
         /\ i = Len(log)
         /\ outcome = "nil"
         /\ log[i].snap = Before(i)
         /\ Over[log[i].snap]

(* No move is missing from the log but the one being written, or the one whose
   write failed and ended the run, and none is there twice. *)
LogIsComplete ==
  config.logged =>
    /\ \A i \in 1..Len(trace) :
         i <= Len(log) => Taken(log[i]) = trace[i].action
    /\ outcome = "nil" => Len(log) = Len(trace) + 1
    /\ outcome # "nil" => Len(trace) - Len(log) \in {0, 1}
    /\ Len(trace) = Len(log) + 1 => pc = "write" \/ outcome = "error"

(* What a run leaves behind says how it ended.  A run that ends well has logged
   the end and closed the log, and names the winner of the state it stopped in.
   Nothing else closes the log, and a run that says it was cancelled was.  A
   winner is named only when the game is over, and then the run ended well or
   could not write the last entry. *)
EndsWell ==
  /\ outcome = "nil" =>
       /\ Over[state]
       /\ winner = Winner[state]
       /\ config.logged => closed /\ log # <<>> /\ log[Len(log)].terminal
  /\ closed => outcome = "nil"
  /\ outcome = "cancelled" => ctx
  /\ winner # Blank =>
       /\ Over[state] /\ winner = Winner[state]
       /\ outcome = "nil" \/ (outcome = "error" /\ config.logged)

(* Every move that is applied was found valid in the state it was applied to, under
   the name it is logged under, or is the no-op in the name of the player on turn;
   only in Live mode, where a second answer may be taken, is a move anonymous. *)
BeforeMove(i) == IF i = 1 THEN InitialState ELSE trace[i - 1].snap

MovesAreChecked ==
  \A i \in 1..Len(trace) :
    /\ \/ Valid[BeforeMove(i)][trace[i].action]
       \/ trace[i].action = [actor |-> OnTurn(i - 1), payload |-> Null]
    /\ trace[i].action.actor = Blank => config.mode = "live"

(* Once its context is done the run applies one more move at most. *)
OneMoveAfterCancel == late <= 1

(* The run is a game played in turns, see GameTurns. *)
Turns == INSTANCE GameTurns
  WITH board <- state, moves <- trace,
       status <- CASE outcome = "none" -> "playing"
                   [] outcome = "nil" -> "over"
                   [] OTHER -> "abandoned"

PlaysInTurns == Turns!TurnsSpec

-----------------------------------------------------------------------------
(* Liveness.                                                                *)

(* A game that ends after a bounded number of moves, whatever they are, ends for
   the run too if every call of an adapter returns: no answer keeps the loop busy.
   A run whose context is done ends if the call it is in returns, as
   PlayerAdapter demands of a call whose context is done. *)
Asking == pc \in {"request", "reprompt"}

RunReturns ==
  /\ (Asking ~> ~Asking) => <>(outcome # "none")
  /\ (Asking /\ ctx ~> ~Asking) => (ctx ~> outcome # "none")
=============================================================================
