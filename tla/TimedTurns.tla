----------------------------- MODULE TimedTurns -----------------------------
(***************************************************************************)
(* How a single-player Play handler asks its client for actions: the runner*)
(* calls TimeoutAdapter.RequestAction (pkg/engine/dispatcher.go), which    *)
(* races a TurnTimer (pkg/components/timing/timing.go) against a call of   *)
(* streamPlayerAdapter.RequestAction (pkg/transport/server.go).            *)
(*                                                                         *)
(* Each call starts three goroutines: the watcher of the timer, the inner  *)
(* call, and the receiver that blocks in stream.Recv.  A call that is given*)
(* up on does not wait for them.  The watcher of an earlier call changes   *)
(* nothing any more and is left out; the inner call and the receiver do.   *)
(*                                                                         *)
(* The client answers each update once, when it likes, and in any order:   *)
(* run() of the TypeScript clients answers the updates it has concurrently.*)
(***************************************************************************)
EXTENDS Naturals, Sequences, SequencesExt

CONSTANT Calls  \* bound: how many times the runner asks for an action

ASSUME CallsAssumption == Calls \in Nat \ {0}

VARIABLES
  pc,        \* the handler: in the runner "loop", "ready" or "select", after it
             \* "terminal", "done" or "returned"
  again,     \* the call is the second prompt for the same move
  call,      \* the number of the current call
  ctx,       \* the session's context: "live", "cancelled" or "deadline"
  elapsed,   \* the whole timeout has passed since the call began
  timer,     \* the timer's child context, and "expired" once Expired() is closed
  ch,        \* the result channel of the call, 0 standing for an error
  inner,     \* inner[c]: the inner call that call c started
  receiver,  \* receiver[c]: the receiver that inner call started
  got,       \* got[c]: the answer the receiver got, named by its update
  stream,    \* "up", "halfClosed" by the client, or "down"
  sent,      \* updates on their way to the client
  inbox,     \* answers on their way to the server
  answers    \* history: the answer each call returned, 0 for the fallback

adapter == <<elapsed, timer, ch>>
goroutines == <<inner, receiver, got>>
wire == <<stream, sent, inbox>>
vars == <<pc, again, call, ctx, adapter, goroutines, wire, answers>>

TypeOK ==
  /\ pc \in {"loop", "ready", "select", "terminal", "done", "returned"}
  /\ again \in BOOLEAN
  /\ call \in 0..Calls
  /\ ctx \in {"live", "cancelled", "deadline"}
  /\ elapsed \in BOOLEAN
  /\ timer \in {"live", "cancelled", "deadline", "expired"}
  /\ ch \in Seq(0..Calls) /\ Len(ch) <= 1
  /\ inner \in [1..Calls -> {"none", "send", "recv", "ended"}]
  /\ receiver \in [1..Calls -> {"none", "blocked", "got", "failed"}]
  /\ got \in [1..Calls -> 0..Calls]
  /\ stream \in {"up", "halfClosed", "down"}
  /\ sent \in Seq(1..Calls)
  /\ inbox \in Seq(1..Calls)
  /\ answers \in Seq(0..Calls)

Init ==
  /\ pc = "loop"
  /\ again = FALSE
  /\ call = 0
  /\ ctx = "live"
  /\ elapsed = FALSE
  /\ timer = "live"
  /\ ch = <<>>
  /\ inner = [c \in 1..Calls |-> "none"]
  /\ receiver = [c \in 1..Calls |-> "none"]
  /\ got = [c \in 1..Calls |-> 0]
  /\ stream = "up"
  /\ sent = <<>>
  /\ inbox = <<>>
  /\ answers = <<>>

-----------------------------------------------------------------------------
(* The runner's loop, as far as it decides when an action is asked for.     *)

(* The run ends when the game is over, and otherwise when its context is done
   or a step fails; only a good end is followed by a terminal update. *)
Stop ==
  /\ pc = "loop"
  /\ pc' \in {"terminal", "done"}
  /\ UNCHANGED <<again, call, ctx, adapter, goroutines, wire, answers>>

NextMove ==
  /\ pc = "loop"
  /\ ctx = "live"
  /\ call < Calls
  /\ pc' = "ready"
  /\ again' = FALSE
  /\ UNCHANGED <<call, ctx, adapter, goroutines, wire, answers>>

(* What the runner does with a returned action: it applies it, or rejects it
   and asks once more. *)
Applied == pc' = "loop" /\ UNCHANGED again
Rejected == pc' = "ready" /\ ~again /\ call < Calls /\ again' = TRUE

(* The terminal update is sent by the handler itself, without a timeout, and
   waits like any other for a client that does not read.  Nobody answers it. *)
SendTerminal ==
  /\ pc = "terminal"
  /\ stream # "down"
  /\ pc' = "done"
  /\ UNCHANGED <<again, call, ctx, adapter, goroutines, wire, answers>>

(* The failure of that Send is only logged. *)
TerminalFails ==
  /\ pc = "terminal"
  /\ stream = "down"
  /\ pc' = "done"
  /\ UNCHANGED <<again, call, ctx, adapter, goroutines, wire, answers>>

(* The handler returns: gRPC ends the stream and its context. *)
HandlerReturns ==
  /\ pc = "done"
  /\ pc' = "returned"
  /\ stream' = "down"
  /\ ctx' = IF ctx = "live" THEN "cancelled" ELSE ctx
  /\ UNCHANGED <<again, call, adapter, goroutines, sent, inbox, answers>>

-----------------------------------------------------------------------------
(* TimeoutAdapter.RequestAction and the TurnTimer.                          *)

(* The timer's context and the inner one are derived from the session's. *)
Begin ==
  /\ pc = "ready"
  /\ pc' = "select"
  /\ call' = call + 1
  /\ elapsed' = FALSE
  /\ timer' = ctx
  /\ ch' = <<>>
  /\ inner' = [inner EXCEPT ![call + 1] = "send"]
  /\ UNCHANGED <<again, ctx, receiver, got, wire, answers>>

TimeoutElapses ==
  /\ pc = "select"
  /\ ~elapsed
  /\ elapsed' = TRUE
  /\ timer' = IF timer = "live" THEN "deadline" ELSE timer
  /\ UNCHANGED <<pc, again, call, ctx, ch, goroutines, wire, answers>>

(* Faulty: the watcher never reports the expiry. *)
WatchSilently ==
  /\ timer = "deadline"
  /\ timer' = "cancelled"
  /\ UNCHANGED <<pc, again, call, ctx, elapsed, ch, goroutines, wire, answers>>

(* The watcher closes Expired() if its context ended by a deadline. *)
Watch ==
  /\ timer = "deadline"
  /\ timer' = "expired"
  /\ UNCHANGED <<pc, again, call, ctx, elapsed, ch, goroutines, wire, answers>>

Return(answer) ==
  /\ answers' = Append(answers, answer)
  /\ Applied \/ Rejected
  /\ UNCHANGED <<call, ctx, adapter, goroutines, wire>>

(* The select: whichever case is ready may be taken. *)
InnerAnswered ==
  /\ pc = "select"
  /\ ch # <<>> /\ ch[1] # 0
  /\ Return(ch[1])

InnerFailed ==
  /\ pc = "select"
  /\ ch = <<0>>
  /\ Return(0)

Expired ==
  /\ pc = "select"
  /\ timer = "expired"
  /\ Return(0)

(* The error ends the run; after a second prompt the runner first applies its
   own fallback. *)
CtxDone ==
  /\ pc = "select"
  /\ ctx # "live"
  /\ pc' = IF again THEN "loop" ELSE "done"
  /\ UNCHANGED <<again, call, ctx, adapter, goroutines, wire, answers>>

-----------------------------------------------------------------------------
(* streamPlayerAdapter.RequestAction.                                       *)

(* The context of inner call c: its timeout, its parent, or its cancellation
   when call c returned. *)
InnerCtxDone(c) == ctx # "live" \/ c < call \/ pc # "select" \/ elapsed

(* stream.Send does not look at the inner context; it may block for as long as
   the client does not read. *)
Send(c) ==
  /\ inner[c] = "send"
  /\ stream # "down"
  /\ sent' = Append(sent, c)
  /\ inner' = [inner EXCEPT ![c] = "recv"]
  /\ receiver' = [receiver EXCEPT ![c] = "blocked"]
  /\ UNCHANGED <<pc, again, call, ctx, adapter, got, stream, inbox, answers>>

Finish(c, result) ==
  /\ inner' = [inner EXCEPT ![c] = "ended"]
  /\ ch' = IF c = call /\ pc = "select" THEN <<result>> ELSE ch
  /\ UNCHANGED <<pc, again, call, ctx, elapsed, timer, receiver, got, wire, answers>>

SendFails(c) ==
  /\ inner[c] = "send"
  /\ stream = "down"
  /\ Finish(c, 0)

InnerReturns(c) ==
  /\ inner[c] = "recv"
  /\ \/ InnerCtxDone(c) /\ Finish(c, 0)
     \/ receiver[c] = "failed" /\ Finish(c, 0)
     \/ receiver[c] = "got" /\ Finish(c, got[c])

(* Faulty: the answer is read but not consumed. *)
RecvPeeks(c) ==
  /\ receiver[c] = "blocked"
  /\ inbox # <<>>
  /\ got' = [got EXCEPT ![c] = Head(inbox)]
  /\ receiver' = [receiver EXCEPT ![c] = "got"]
  /\ UNCHANGED <<pc, again, call, ctx, adapter, inner, wire, answers>>

(* Whichever blocked receiver is served takes the next answer, also one whose
   call has been given up. *)
Recv(c) ==
  /\ receiver[c] = "blocked"
  /\ inbox # <<>>
  /\ inbox' = Tail(inbox)
  /\ got' = [got EXCEPT ![c] = Head(inbox)]
  /\ receiver' = [receiver EXCEPT ![c] = "got"]
  /\ UNCHANGED <<pc, again, call, ctx, adapter, inner, stream, sent, answers>>

RecvFails(c) ==
  /\ receiver[c] = "blocked"
  /\ stream = "down" \/ (stream = "halfClosed" /\ inbox = <<>>)
  /\ receiver' = [receiver EXCEPT ![c] = "failed"]
  /\ UNCHANGED <<pc, again, call, ctx, adapter, inner, got, wire, answers>>

-----------------------------------------------------------------------------
(* The client, its stream, and whoever cancels the session.                 *)

Answer ==
  /\ stream = "up"
  /\ \E i \in 1..Len(sent) :
       /\ sent' = RemoveAt(sent, i)
       /\ inbox' = Append(inbox, sent[i])
  /\ UNCHANGED <<pc, again, call, ctx, adapter, goroutines, stream, answers>>

CloseSend ==
  /\ stream = "up"
  /\ stream' = "halfClosed"
  /\ UNCHANGED <<pc, again, call, ctx, adapter, goroutines, sent, inbox, answers>>

(* A context that is done already stays done for its first reason. *)
EndCtx(reason) ==
  /\ ctx' = IF ctx = "live" THEN reason ELSE ctx
  /\ timer' = IF timer = "live" THEN reason ELSE timer
  /\ UNCHANGED <<pc, again, call, elapsed, ch, goroutines, sent, inbox, answers>>

(* The client goes away, or the deadline it gave the stream passes. *)
StreamEnds ==
  /\ stream # "down"
  /\ stream' = "down"
  /\ \E reason \in {"cancelled", "deadline"} : EndCtx(reason)

(* DrainSessions cancels the session; the stream stays. *)
SessionCancelled ==
  /\ ctx = "live"
  /\ EndCtx("cancelled")
  /\ UNCHANGED stream

-----------------------------------------------------------------------------

RunnerStep ==
  \/ Stop \/ NextMove \/ TerminalFails \/ HandlerReturns
  \/ Begin \/ InnerAnswered \/ InnerFailed \/ Expired \/ CtxDone

InnerStep(c) == SendFails(c) \/ InnerReturns(c)
RecvStep(c) == Recv(c) \/ RecvFails(c)

ClientStep == Answer \/ CloseSend \/ StreamEnds \/ SessionCancelled

Next ==
  \/ RunnerStep \/ SendTerminal
  \/ TimeoutElapses \/ Watch
  \/ \E c \in 1..Calls : Send(c) \/ InnerStep(c) \/ RecvStep(c)
  \/ ClientStep

Spec == Init /\ [][Next]_vars

(* Goroutines that can run do run and time passes.  A Send or SendTerminal that
   could complete need not, since the client may never read, and nothing is
   expected of the client. *)
FairSpec ==
  /\ Spec
  /\ WF_vars(RunnerStep) /\ WF_vars(TimeoutElapses) /\ WF_vars(Watch)
  /\ \A c \in 1..Calls : WF_vars(InnerStep(c)) /\ WF_vars(RecvStep(c))

-----------------------------------------------------------------------------
(* Safety.                                                                  *)

(* However late an answer comes and whichever receiver takes it, it is returned
   by one call at most, and by none that began before its update was sent.  As
   long as no call has been given up on, every call returns the answer to its own
   update: a client that always answers in time is never out of step. *)
AnsweredOnce ==
  /\ \A i, j \in 1..Len(answers) :
       answers[i] = answers[j] /\ answers[i] # 0 => i = j
  /\ \A i \in 1..Len(answers) : answers[i] <= i
  /\ \A i \in 1..Len(answers) :
       (\A j \in 1..i : answers[j] # 0) => answers[i] = i

-----------------------------------------------------------------------------
(* Liveness.                                                                *)

(* Every call returns, whatever the client does, even if the update cannot be
   sent.  Once the stream has gone, or the handler has nothing left to send, the
   handler returns and nothing outlives it: the inner calls and the receivers it
   gave up on all end. *)
CallsEnd ==
  /\ pc = "select" ~> pc # "select"
  /\ stream = "down" \/ pc = "done" ~>
       /\ pc = "returned"
       /\ \A c \in 1..Calls :
            inner[c] \in {"none", "ended"} /\ receiver[c] # "blocked"

-----------------------------------------------------------------------------
(* What the documentation says and the code does not do.                    *)

(* server.go:287-288 says RequestAction sends the update and waits for the
   player's response: the action returned answers the update that was sent. *)
AnswersItsUpdate == \A i \in 1..Len(answers) : answers[i] \in {0, i}

=============================================================================
