------------------------ MODULE ServerShutdownProofs ------------------------
(***************************************************************************)
(* Theorems about ServerShutdown, for any number of handlers and sessions. *)
(***************************************************************************)
EXTENDS ServerShutdown, TLAPS

LEMMA InitTypes == Init => TypeOK
  BY ShutdownAssumption DEF Init, TypeOK

(* One handler moves and changes at most its own context and entry. *)
LEMMA HandlerTypes ==
  ASSUME TypeOK, NEW h \in Handlers, HandlerStep(h) \/ ClientStep(h)
  PROVE  TypeOK'
<1> USE DEF TypeOK, At, Goto, Local, process
<1>1. CASE RecvFails(h) \/ RunCancelled(h) \/ TerminalFails(h) \/ AttachedCtxDone(h)
  BY <1>1 DEF RecvFails, RunCancelled, TerminalFails, AttachedCtxDone
<1>2. CASE Register(h)
  BY <1>2 DEF Register
<1>3. CASE Cleanup(h)
  BY <1>3 DEF Cleanup
<1>4. CASE Open(h) \/ FirstMessage(h) \/ RunEnds(h)
  BY <1>4 DEF Open, FirstMessage, RunEnds
<1>5. CASE TerminalSent(h) \/ AttachedReturns(h)
  BY <1>5 DEF TerminalSent, AttachedReturns
<1>6. CASE Disconnect(h)
  BY <1>6 DEF Disconnect
<1> QED BY <1>1, <1>2, <1>3, <1>4, <1>5, <1>6 DEF HandlerStep, ClientStep

LEMMA NextTypes == TypeOK /\ [Next]_vars => TypeOK'
<1> SUFFICES ASSUME TypeOK, [Next]_vars PROVE TypeOK'
  OBVIOUS
<1>1. CASE \E h \in Handlers : HandlerStep(h) \/ ClientStep(h)
  BY <1>1, HandlerTypes
<1> USE DEF TypeOK, handlers
<1>2. CASE Signal
  BY <1>2 DEF Signal
<1>3. CASE Copy
  <2>1. Range(sessions) \ {None} \subseteq Handlers
    BY DEF Range
  <2>2. {h \in Handlers : pc[h] = "run"} \subseteq Handlers
    OBVIOUS
  <2> QED BY <1>3, <2>1, <2>2 DEF Copy
<1>4. ASSUME NEW h \in Handlers, Cancel(h)
      PROVE  TypeOK'
  BY <1>4 DEF Cancel
<1>5. CASE GracefulStop \/ GracefulStopped
  BY <1>5 DEF GracefulStop, GracefulStopped
<1>6. CASE Done \/ Stopped
  BY <1>6 DEF Done, Stopped
<1>7. CASE Timeout
  BY <1>7 DEF Timeout
<1>8. CASE UNCHANGED vars
  BY <1>8 DEF vars, process
<1> QED
  BY <1>1, <1>2, <1>3, <1>4, <1>5, <1>6, <1>7, <1>8 DEF Next, DrainerStep, MainStep

(* The variables of ServerShutdown have their types. *)
THEOREM ShutdownTypes == Spec => []TypeOK
  BY InitTypes, NextTypes, PTL DEF Spec

-----------------------------------------------------------------------------
(* What makes both invariants inductive: the drainer finishes only when the last
   handler has, no handler comes after it, and no run starts twice. *)

InTable(h) == pc[h] \in {"run", "terminal", "cleanup"}

EntriesRun ==
  \A id \in SessionIDs : sessions[id] # None =>
    sessionID[sessions[id]] = id /\ InTable(sessions[id])

RunnersEntered ==
  \A h \in Handlers : Sole(h) /\ InTable(h) => sessions[sessionID[h]] = h

NoneIsLeft ==
  /\ drainer \in {"graceful", "done"} => server # "serving"
  /\ drainer = "done" => Live = {}
  /\ clean => drainer = "done"
  /\ main = "serve" => drainer = "none"

EarlyRan ==
  /\ \A h \in early : pc[h] \in {"run", "terminal", "cleanup", "returned"}
  /\ drainer \in {"cancel", "graceful", "done"} =>
       \A h \in early :
         Sole(h) => h \in cancels \/ cancelled[h] \/ pc[h] # "run"
  /\ drainer \in {"graceful", "done"} => cancels = {}

ShutdownInv == EntriesRun /\ RunnersEntered /\ NoneIsLeft /\ EarlyRan

LEMMA InitShutdown == Init => ShutdownInv
  BY DEF Init, ShutdownInv, EntriesRun, RunnersEntered, InTable, NoneIsLeft, EarlyRan

(* A step that leaves the table alone keeps it true if it moves no handler into
   the table or out of it. *)
LEMMA SameTable ==
  ASSUME TypeOK, EntriesRun, RunnersEntered, UNCHANGED <<sessions, sessionID>>,
         \A h \in Handlers : InTable(h)' <=> InTable(h)
  PROVE  EntriesRun' /\ RunnersEntered'
<1>1. EntriesRun'
  BY DEF EntriesRun, TypeOK
<1>2. RunnersEntered'
  BY DEF RunnersEntered, Sole
<1> QED BY <1>1, <1>2

(* A handler's step changes no variable of the shutdown; if it opens a stream,
   the server is serving. *)
LEMMA HandlerFrame ==
  ASSUME TypeOK, NEW h \in Handlers, HandlerStep(h) \/ ClientStep(h)
  PROVE  /\ UNCHANGED <<process, sessionID>>
         /\ \A g \in Handlers \ {h} :
              pc'[g] = pc[g] /\ cancelled'[g] = cancelled[g]
         /\ cancelled[h] => cancelled'[h]
         /\ pc[h] \in {"idle", "returned"} => server = "serving" /\ pc[h] = "idle"
         /\ \/ pc'[h] = pc[h] \/ pc'[h] \notin {"run", "idle"}
            \/ pc[h] = "register" /\ pc'[h] = "run"
         /\ pc[h] \in {"run", "terminal", "cleanup"} =>
              pc'[h] \in {"run", "terminal", "cleanup", "returned"}
<1> USE DEF TypeOK, At, Goto, Local
<1>1. CASE RecvFails(h) \/ RunCancelled(h) \/ TerminalFails(h) \/ AttachedCtxDone(h)
  BY <1>1 DEF RecvFails, RunCancelled, TerminalFails, AttachedCtxDone
<1>2. CASE Register(h)
  BY <1>2 DEF Register
<1>3. CASE Cleanup(h)
  BY <1>3 DEF Cleanup
<1>4. CASE Open(h) \/ FirstMessage(h) \/ RunEnds(h)
  BY <1>4 DEF Open, FirstMessage, RunEnds
<1>5. CASE TerminalSent(h) \/ AttachedReturns(h)
  BY <1>5 DEF TerminalSent, AttachedReturns
<1>6. CASE Disconnect(h)
  BY <1>6 DEF Disconnect, Live
<1> QED BY <1>1, <1>2, <1>3, <1>4, <1>5, <1>6 DEF HandlerStep, ClientStep

LEMMA HandlerTable ==
  ASSUME TypeOK, EntriesRun, RunnersEntered,
         NEW h \in Handlers, HandlerStep(h) \/ ClientStep(h)
  PROVE  EntriesRun' /\ RunnersEntered'
<1> USE DEF TypeOK, At, Goto, Local, InTable
<1>1. CASE RecvFails(h) \/ RunCancelled(h) \/ TerminalFails(h) \/ AttachedCtxDone(h)
  BY <1>1, SameTable DEF RecvFails, RunCancelled, TerminalFails, AttachedCtxDone
<1>2. CASE Register(h)
  <2>1. /\ pc[h] = "register" /\ pc' = [pc EXCEPT ![h] = "run"]
        /\ sessions' = [sessions EXCEPT ![sessionID[h]] = h]
        /\ UNCHANGED sessionID
    BY <1>2 DEF Register
  <2>2. EntriesRun'
    BY <2>1 DEF EntriesRun
  <2>3. RunnersEntered'
    BY <2>1 DEF RunnersEntered, Sole
  <2> QED BY <2>2, <2>3
<1>3. CASE Cleanup(h)
  <2>1. /\ pc[h] = "cleanup" /\ pc' = [pc EXCEPT ![h] = "returned"]
        /\ sessions' = [sessions EXCEPT ![sessionID[h]] = None]
        /\ UNCHANGED sessionID
    BY <1>3 DEF Cleanup
  <2>2. EntriesRun'
    BY <2>1 DEF EntriesRun
  <2>3. RunnersEntered'
    BY <2>1 DEF RunnersEntered, Sole
  <2> QED BY <2>2, <2>3
<1>4. CASE Open(h) \/ FirstMessage(h) \/ RunEnds(h)
  BY <1>4, SameTable DEF Open, FirstMessage, RunEnds
<1>5. CASE TerminalSent(h) \/ AttachedReturns(h)
  BY <1>5, SameTable DEF TerminalSent, AttachedReturns
<1>6. CASE Disconnect(h)
  BY <1>6, SameTable DEF Disconnect
<1> QED BY <1>1, <1>2, <1>3, <1>4, <1>5, <1>6 DEF HandlerStep, ClientStep

LEMMA HandlerShutdown ==
  ASSUME TypeOK, ShutdownInv, NEW h \in Handlers, HandlerStep(h) \/ ClientStep(h)
  PROVE  ShutdownInv'
<1>1. EntriesRun' /\ RunnersEntered'
  BY HandlerTable DEF ShutdownInv
<1>2. NoneIsLeft'
  BY HandlerFrame DEF ShutdownInv, NoneIsLeft, process, Live
<1>3. EarlyRan'
  BY HandlerFrame DEF ShutdownInv, EarlyRan, process, Sole, TypeOK
<1> QED BY <1>1, <1>2, <1>3 DEF ShutdownInv

LEMMA NextShutdown == TypeOK /\ ShutdownInv /\ [Next]_vars => ShutdownInv'
<1> SUFFICES ASSUME TypeOK, ShutdownInv, [Next]_vars PROVE ShutdownInv'
  OBVIOUS
<1>1. CASE \E h \in Handlers : HandlerStep(h) \/ ClientStep(h)
  BY <1>1, HandlerShutdown
<1>2. ASSUME UNCHANGED <<sessions, sessionID, pc>>
      PROVE  EntriesRun' /\ RunnersEntered'
  BY <1>2, SameTable DEF ShutdownInv, InTable
<1> USE DEF ShutdownInv, NoneIsLeft, EarlyRan, handlers
<1>3. CASE Signal
  BY <1>2, <1>3 DEF Signal, Live, Sole
<1>4. CASE Copy
  <2>1. /\ UNCHANGED <<handlers, sessions, server, main, clean>>
        /\ drainer = "copy" /\ drainer' = "cancel"
        /\ cancels' = Range(sessions) \ {None}
        /\ early' = {h \in Handlers : pc[h] = "run"}
    BY <1>4 DEF Copy
  <2>2. ASSUME NEW h \in early', Sole(h)
        PROVE  h \in cancels'
    <3>1. sessions[sessionID[h]] = h /\ sessionID[h] \in SessionIDs /\ h # None
      BY <2>1, <2>2, ShutdownAssumption DEF RunnersEntered, InTable, TypeOK
    <3> QED BY <2>1, <3>1 DEF Range, TypeOK
  <2>3. EarlyRan'
    BY <2>1, <2>2 DEF Sole
  <2>4. NoneIsLeft'
    BY <2>1
  <2> QED BY <1>2, <2>1, <2>3, <2>4
<1>5. ASSUME NEW h \in Handlers, Cancel(h)
      PROVE  ShutdownInv'
  <2>1. /\ UNCHANGED <<sessionID, pc, sessions, drainer, server, main, clean, early>>
        /\ drainer = "cancel"
        /\ cancels' = cancels \ {h}
        /\ cancelled' = [cancelled EXCEPT ![h] = TRUE]
    BY <1>5 DEF Cancel
  <2>2. EarlyRan'
    BY <2>1 DEF Sole, TypeOK
  <2> QED BY <1>2, <2>1, <2>2
<1>6. CASE GracefulStop \/ GracefulStopped
  BY <1>2, <1>6 DEF GracefulStop, GracefulStopped, Live, Sole
<1>7. CASE Done \/ Stopped
  BY <1>2, <1>7 DEF Done, Stopped, Live, Sole
<1>8. CASE Timeout
  BY <1>2, <1>8 DEF Timeout, Live, Sole
<1>9. CASE UNCHANGED vars
  BY <1>2, <1>9 DEF vars, process, Live, Sole
<1> QED
  BY <1>1, <1>3, <1>4, <1>5, <1>6, <1>7, <1>8, <1>9 DEF Next, DrainerStep, MainStep

(* Whatever the players do and whenever the signal comes, the table of sessions
   holds the running handlers and nothing else, and it is empty when main reports
   a complete graceful shutdown. *)
THEOREM TableStaysLive == Spec => []TableIsLive
<1>1. TypeOK /\ ShutdownInv => TableIsLive
  <2> SUFFICES ASSUME TypeOK, ShutdownInv PROVE TableIsLive
    OBVIOUS
  <2>1. /\ \A id \in SessionIDs : sessions[id] # None =>
             /\ sessionID[sessions[id]] = id
             /\ pc[sessions[id]] \in {"run", "terminal", "cleanup"}
        /\ \A h \in Handlers : Sole(h) /\ pc[h] \in {"run", "terminal", "cleanup"} =>
             sessions[sessionID[h]] = h
    BY DEF ShutdownInv, EntriesRun, RunnersEntered, InTable
  <2>2. ASSUME clean
        PROVE  Live = {} /\ \A id \in SessionIDs : sessions[id] = None
    <3>1. Live = {}
      BY <2>2 DEF ShutdownInv, NoneIsLeft
    <3> QED BY <2>1, <3>1 DEF Live, TypeOK
  <2> QED BY <2>1, <2>2 DEF TableIsLive
<1> QED BY <1>1, InitTypes, NextTypes, InitShutdown, NextShutdown, PTL DEF Spec

(* Every session that ran when DrainSessions took its copy is cancelled, or has
   ended by itself, when it goes on to the graceful stop. *)
THEOREM DrainsReachAll == Spec => []DrainReachesAll
<1>1. ShutdownInv => DrainReachesAll
  BY DEF ShutdownInv, EarlyRan, DrainReachesAll
<1> QED BY <1>1, InitTypes, NextTypes, InitShutdown, NextShutdown, PTL DEF Spec
=============================================================================
