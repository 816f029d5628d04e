--------------------------- MODULE ServerShutdown ---------------------------
(***************************************************************************)
(* The server process from its first session to its exit: the single-player*)
(* half of Play and the table of sessions it keeps (s.sessions), Drain-    *)
(* Sessions, and the end of main in cmd/server and cmd/testserver.         *)
(*                                                                         *)
(* On a signal main starts a goroutine, here the drainer, which cancels the*)
(* sessions it finds in the table and then waits in GracefulStop for every *)
(* handler; main itself waits for it and for a timeout, whatever is first. *)
(* A session may enter the table after the drainer has looked.             *)
(***************************************************************************)
EXTENDS Naturals, FiniteSets, Functions

CONSTANTS
  Handlers,    \* Play calls
  SessionIDs,  \* values of playerID-UnixNano; two calls may draw the same
  None

ASSUME ShutdownAssumption == None \notin Handlers

VARIABLES
  sessionID,   \* sessionID[h]: the id that handler h draws
  pc,          \* where each handler stands
  ctx,         \* ctx[h]: the context of stream h is done
  cancelled,   \* cancelled[h]: the cancel function of h's session was called
  sessions,    \* sessions[id]: whose cancel function the table holds
  drainer,     \* "none", "copy", "cancel", "graceful" or "done"
  cancels,     \* the handlers whose cancel functions the drainer still has
  server,      \* the gRPC server: "serving", "graceful" or "stopped"
  main,        \* "serve", "shutdown", "stop" or "exited"
  clean,       \* main was told that the graceful stop is complete
  early        \* history: the sessions that were running at the copy

handlers == <<sessionID, pc, ctx, cancelled>>
process == <<drainer, cancels, server, main, clean, early>>
vars == <<handlers, sessions, process>>

Live == {h \in Handlers : pc[h] \notin {"idle", "returned"}}

TypeOK ==
  /\ sessionID \in [Handlers -> SessionIDs]
  /\ pc \in [Handlers -> {"idle", "recv", "attached", "register", "run",
                          "terminal", "cleanup", "returned"}]
  /\ ctx \in [Handlers -> BOOLEAN]
  /\ cancelled \in [Handlers -> BOOLEAN]
  /\ sessions \in [SessionIDs -> Handlers \cup {None}]
  /\ drainer \in {"none", "copy", "cancel", "graceful", "done"}
  /\ cancels \subseteq Handlers
  /\ server \in {"serving", "graceful", "stopped"}
  /\ main \in {"serve", "shutdown", "stop", "exited"}
  /\ clean \in BOOLEAN
  /\ early \subseteq Handlers

Init ==
  /\ sessionID \in [Handlers -> SessionIDs]
  /\ pc = [h \in Handlers |-> "idle"]
  /\ ctx = [h \in Handlers |-> FALSE]
  /\ cancelled = [h \in Handlers |-> FALSE]
  /\ sessions = [id \in SessionIDs |-> None]
  /\ drainer = "none"
  /\ cancels = {}
  /\ server = "serving"
  /\ main = "serve"
  /\ clean = FALSE
  /\ early = {}

-----------------------------------------------------------------------------
(* One Play handler.  Nothing runs once main has returned.                  *)

At(h, label) == pc[h] = label /\ main # "exited"
Goto(h, label) == pc' = [pc EXCEPT ![h] = label]
Local(h, label) ==
  Goto(h, label) /\ UNCHANGED <<sessionID, ctx, cancelled, sessions, process>>

(* A stream is opened while the server accepts new ones. *)
Open(h) == At(h, "idle") /\ server = "serving" /\ Local(h, "recv")

(* The first message is refused, or names a pre-registered session, whose
   handlers are not in the table, or begins a session of its own; NewSession may
   fail. *)
FirstMessage(h) ==
  /\ At(h, "recv")
  /\ \E label \in {"returned", "attached", "register"} : Local(h, label)

RecvFails(h) == At(h, "recv") /\ ctx[h] /\ Local(h, "returned")

(* Faulty: the session starts before it is in the table. *)
RegisterLate(h) ==
  /\ \/ At(h, "register") /\ Goto(h, "run") /\ UNCHANGED sessions
     \/ /\ At(h, "run") /\ sessions[sessionID[h]] # h
        /\ sessions' = [sessions EXCEPT ![sessionID[h]] = h]
        /\ UNCHANGED pc
  /\ UNCHANGED <<sessionID, ctx, cancelled, process>>

Register(h) ==
  /\ At(h, "register")
  /\ sessions' = [sessions EXCEPT ![sessionID[h]] = h]
  /\ Goto(h, "run")
  /\ UNCHANGED <<sessionID, ctx, cancelled, process>>

(* Runner.Run returns, well or not, at a time the players decide. *)
RunEnds(h) ==
  /\ At(h, "run")
  /\ \E label \in {"terminal", "cleanup"} : Local(h, label)

(* Runner.Run sees that its context is done, which is derived from the
   stream's. *)
RunCancelled(h) ==
  At(h, "run") /\ (cancelled[h] \/ ctx[h]) /\ Local(h, "cleanup")

(* The terminal update waits for a client that reads; that it failed is only
   logged. *)
TerminalSent(h) == At(h, "terminal") /\ Local(h, "cleanup")
TerminalFails(h) == At(h, "terminal") /\ ctx[h] /\ Local(h, "cleanup")

(* Faulty: a failed run returns without its deletion from the table. *)
CleanupIfSent(h) ==
  /\ At(h, "cleanup")
  /\ cancelled' = [cancelled EXCEPT ![h] = TRUE]
  /\ sessions' = IF cancelled[h] \/ ctx[h] THEN sessions
                 ELSE [sessions EXCEPT ![sessionID[h]] = None]
  /\ Goto(h, "returned")
  /\ UNCHANGED <<sessionID, ctx, process>>

(* The deferred function; it deletes by id, whoever's entry that is. *)
Cleanup(h) ==
  /\ At(h, "cleanup")
  /\ cancelled' = [cancelled EXCEPT ![h] = TRUE]
  /\ sessions' = [sessions EXCEPT ![sessionID[h]] = None]
  /\ Goto(h, "returned")
  /\ UNCHANGED <<sessionID, ctx, process>>

(* A handler of a pre-registered session: PendingSession. *)
AttachedReturns(h) == At(h, "attached") /\ Local(h, "returned")
AttachedCtxDone(h) == At(h, "attached") /\ ctx[h] /\ Local(h, "returned")

(* The client of h goes away. *)
Disconnect(h) ==
  /\ h \in Live /\ ~ctx[h] /\ main # "exited"
  /\ ctx' = [ctx EXCEPT ![h] = TRUE]
  /\ UNCHANGED <<sessionID, pc, cancelled, sessions, process>>

-----------------------------------------------------------------------------
(* Shutdown.                                                                *)

(* A signal comes, or Serve returns; main starts the drainer. *)
Signal ==
  /\ main = "serve"
  /\ main' = "shutdown"
  /\ drainer' = "copy"
  /\ UNCHANGED <<handlers, sessions, cancels, server, clean, early>>

(* DrainSessions copies the cancel functions under s.mu ... *)
Copy ==
  /\ drainer = "copy" /\ main # "exited"
  /\ cancels' = Range(sessions) \ {None}
  /\ early' = {h \in Handlers : pc[h] = "run"}
  /\ drainer' = "cancel"
  /\ UNCHANGED <<handlers, sessions, server, main, clean>>

(* ... and calls them without it, in the order the table was ranged over. *)
Cancel(h) ==
  /\ drainer = "cancel" /\ main # "exited"
  /\ h \in cancels
  /\ cancels' = cancels \ {h}
  /\ cancelled' = [cancelled EXCEPT ![h] = TRUE]
  /\ UNCHANGED <<sessionID, pc, ctx, sessions, drainer, server, main, clean, early>>

(* GracefulStop refuses new streams ... *)
GracefulStop ==
  /\ drainer = "cancel" /\ cancels = {} /\ main # "exited"
  /\ server' = IF server = "serving" THEN "graceful" ELSE server
  /\ drainer' = "graceful"
  /\ UNCHANGED <<handlers, sessions, cancels, main, clean, early>>

(* ... and returns when the last handler has. *)
GracefulStopped ==
  /\ drainer = "graceful" /\ main # "exited"
  /\ Live = {}
  /\ drainer' = "done"
  /\ UNCHANGED <<handlers, sessions, cancels, server, main, clean, early>>

(* done is closed: main returns. *)
Done ==
  /\ main = "shutdown" /\ drainer = "done"
  /\ main' = "exited"
  /\ clean' = TRUE
  /\ UNCHANGED <<handlers, sessions, drainer, cancels, server, early>>

(* Faulty: the time limit has no effect while handlers are busy. *)
TimeoutIfIdle ==
  /\ main = "shutdown" /\ Live = {}
  /\ main' = "stop"
  /\ server' = "stopped"
  /\ ctx' = [h \in Handlers |-> ctx[h] \/ h \in Live]
  /\ UNCHANGED <<sessionID, pc, cancelled, sessions, drainer, cancels, clean, early>>

(* The limit has passed: Stop closes all connections, which ends the contexts of
   their streams, and does not wait for the handlers. *)
Timeout ==
  /\ main = "shutdown"
  /\ main' = "stop"
  /\ server' = "stopped"
  /\ ctx' = [h \in Handlers |-> ctx[h] \/ h \in Live]
  /\ UNCHANGED <<sessionID, pc, cancelled, sessions, drainer, cancels, clean, early>>

Stopped ==
  /\ main = "stop"
  /\ main' = "exited"
  /\ UNCHANGED <<handlers, sessions, drainer, cancels, server, clean, early>>

-----------------------------------------------------------------------------
HandlerStep(h) ==
  \/ RecvFails(h) \/ Register(h) \/ RunCancelled(h)
  \/ TerminalFails(h) \/ Cleanup(h) \/ AttachedCtxDone(h)

ClientStep(h) ==
  \/ Open(h) \/ FirstMessage(h) \/ RunEnds(h) \/ TerminalSent(h)
  \/ AttachedReturns(h) \/ Disconnect(h)

DrainerStep ==
  \/ Copy \/ (\E h \in Handlers : Cancel(h)) \/ GracefulStop \/ GracefulStopped

MainStep == Done \/ Timeout \/ Stopped

Next ==
  \/ \E h \in Handlers : HandlerStep(h) \/ ClientStep(h)
  \/ Signal \/ DrainerStep \/ MainStep

Spec == Init /\ [][Next]_vars

(* Goroutines that can run do run.  What waits for a client, a silent game
   included, need not happen, nor need a signal come; that the time limit passes
   is a premise of the one property that needs it. *)
FairSpec ==
  /\ Spec
  /\ \A h \in Handlers : WF_vars(HandlerStep(h))
  /\ WF_vars(DrainerStep)
  /\ WF_vars(Done \/ Stopped)

-----------------------------------------------------------------------------
(* Safety.                                                                  *)

Sole(h) == \A g \in Handlers : sessionID[g] = sessionID[h] => g = h

(* The table holds the cancel functions of running handlers only, under their own
   ids, and of every one of them unless another session drew the same id: no way
   out of Play leaks an entry, and none is lost to another session's end.  When
   main reports a complete graceful shutdown, no handler and no entry is left. *)
TableIsLive ==
  /\ \A id \in SessionIDs : sessions[id] # None =>
       /\ sessionID[sessions[id]] = id
       /\ pc[sessions[id]] \in {"run", "terminal", "cleanup"}
  /\ \A h \in Handlers : Sole(h) /\ pc[h] \in {"run", "terminal", "cleanup"} =>
       sessions[sessionID[h]] = h
  /\ clean => Live = {} /\ \A id \in SessionIDs : sessions[id] = None

(* DrainSessions reaches every session that ran when it took its copy, although
   sessions come and go while it calls the cancel functions. *)
DrainReachesAll ==
  drainer \in {"graceful", "done"} =>
    \A h \in early : Sole(h) => cancelled[h] \/ pc[h] # "run"

-----------------------------------------------------------------------------
(* Liveness.                                                                *)

(* The drain works without the time limit: a session that the drainer cancelled
   ends though its player is silent, unless the process has ended first.  And
   with the limit the process exits, though clients neither read nor leave and a
   session that came too late for the drainer is never cancelled. *)
ShutdownEnds ==
  /\ \A h \in Handlers :
       pc[h] = "run" /\ cancelled[h] ~> pc[h] # "run" \/ main = "exited"
  /\ WF_vars(Timeout) => (main = "shutdown" ~> main = "exited")
=============================================================================
