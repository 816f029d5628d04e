--------------------------- MODULE PendingSession ---------------------------
(***************************************************************************)
(* A pre-registered multi-player session (pendingSessionEntry, PreRegister-*)
(* Session and the first half of Play, pkg/transport/server.go).           *)
(*                                                                         *)
(* Each Play handler that names the session delivers its stream as the     *)
(* adapter of its player and waits.  The first of them starts a goroutine, *)
(* here the collector, which takes one adapter per player and then runs    *)
(* the session.  The collector watches the context of the stream that      *)
(* started it; the run itself has a context nobody cancels.                *)
(***************************************************************************)
EXTENDS Naturals, Sequences, FiniteSets

CONSTANTS
  Streams,     \* Play calls that name the session
  PlayerIDs,   \* session.Config.PlayerIDs
  Strangers,   \* ids that are not in the session
  None

ASSUME PendingAssumption ==
  /\ PlayerIDs \cap Strangers = {}
  /\ PlayerIDs # {}
  /\ None \notin Streams \cup PlayerIDs \cup Strangers

VARIABLES
  registered,  \* the entry is in s.pending, where it stays
  playerID,    \* playerID[s]: the actor id in the first message of s
  pc,          \* where each handler stands
  ctx,         \* ctx[s]: the context of stream s is done
  adapters,    \* adapters[p]: the channel of capacity 1 for p's adapter
  starter,     \* the stream that entered runOnce first
  collector,   \* "none", "collect", "run" or "done" (runDone is closed)
  awaited,     \* the player whose adapter the collector waits for
  players,     \* players[p]: the adapter collected for p
  runErr       \* entry.runErr

handlers == <<playerID, pc>>
entry == <<adapters, starter, collector, awaited, players, runErr>>
vars == <<registered, handlers, ctx, entry>>

Returned == {"invalid", "solo", "over", "cancelled"}

TypeOK ==
  /\ registered \in BOOLEAN
  /\ playerID \in [Streams -> PlayerIDs \cup Strangers]
  /\ pc \in [Streams -> {"idle", "deliver", "once", "wait"} \cup Returned]
  /\ ctx \in [Streams -> BOOLEAN]
  /\ adapters \in [PlayerIDs -> {<<>>} \cup {<<s>> : s \in Streams}]
  /\ starter \in Streams \cup {None}
  /\ collector \in {"none", "collect", "run", "done"}
  /\ awaited \in PlayerIDs \cup {None}
  /\ players \in [PlayerIDs -> Streams \cup {None}]
  /\ runErr \in {"nil", "cancelled", "error"}

Init ==
  /\ registered = FALSE
  /\ playerID \in [Streams -> PlayerIDs \cup Strangers]
  /\ pc = [s \in Streams |-> "idle"]
  /\ ctx = [s \in Streams |-> FALSE]
  /\ adapters = [p \in PlayerIDs |-> <<>>]
  /\ starter = None
  /\ collector = "none"
  /\ awaited = None
  /\ players = [p \in PlayerIDs |-> None]
  /\ runErr = "nil"

Goto(s, label) == pc' = [pc EXCEPT ![s] = label] /\ UNCHANGED playerID

-----------------------------------------------------------------------------
PreRegisterSession ==
  /\ ~registered
  /\ registered' = TRUE
  /\ UNCHANGED <<handlers, ctx, entry>>

(* The first message is read and the session looked up under s.mu.  A stream
   that comes too early plays a session of its own. *)
Lookup(s) ==
  /\ pc[s] = "idle"
  /\ Goto(s, CASE ~registered -> "solo"
               [] registered /\ playerID[s] \in PlayerIDs -> "deliver"
               [] OTHER -> "invalid")
  /\ UNCHANGED <<registered, ctx, entry>>

(* Faulty: the adapter replaces the one that is still in the channel. *)
DeliverReplaces(s) ==
  /\ pc[s] = "deliver"
  /\ adapters' = [adapters EXCEPT ![playerID[s]] = <<s>>]
  /\ Goto(s, "once")
  /\ UNCHANGED <<registered, ctx, starter, collector, awaited, players, runErr>>

(* A plain send: it waits for room in the channel and for nothing else. *)
Deliver(s) ==
  /\ pc[s] = "deliver"
  /\ adapters[playerID[s]] = <<>>
  /\ adapters' = [adapters EXCEPT ![playerID[s]] = <<s>>]
  /\ Goto(s, "once")
  /\ UNCHANGED <<registered, ctx, starter, collector, awaited, players, runErr>>

(* Faulty: every handler starts a collector. *)
StartAlways(s) ==
  /\ pc[s] = "once"
  /\ starter' = s
  /\ collector' = "collect"
  /\ Goto(s, "wait")
  /\ UNCHANGED <<registered, ctx, adapters, awaited, players, runErr>>

(* runOnce. *)
Start(s) ==
  /\ pc[s] = "once"
  /\ IF starter = None
       THEN starter' = s /\ collector' = "collect"
       ELSE UNCHANGED <<starter, collector>>
  /\ Goto(s, "wait")
  /\ UNCHANGED <<registered, ctx, adapters, awaited, players, runErr>>

(* A waiter gets the end of the run, or its own, whichever it sees.  The terminal
   update it sends first may wait for a client that does not read. *)
Wait(s) ==
  /\ pc[s] = "wait"
  /\ \/ collector = "done" /\ Goto(s, "over")
     \/ ctx[s] /\ Goto(s, "cancelled")
  /\ UNCHANGED <<registered, ctx, entry>>

(* The client of s goes away. *)
Disconnect(s) ==
  /\ pc[s] \in {"deliver", "once", "wait"}
  /\ ~ctx[s]
  /\ ctx' = [ctx EXCEPT ![s] = TRUE]
  /\ UNCHANGED <<registered, handlers, entry>>

-----------------------------------------------------------------------------
(* The collector's goroutine.                                               *)

Missing == {p \in PlayerIDs : players[p] = None}

(* Go ranges over the map in any order. *)
Await(p) ==
  /\ collector = "collect"
  /\ awaited = None
  /\ p \in Missing
  /\ awaited' = p
  /\ UNCHANGED <<registered, handlers, ctx, adapters, starter, collector,
                 players, runErr>>

(* Faulty: the adapter of a stream that has gone is thrown away. *)
CollectLive ==
  /\ collector = "collect"
  /\ awaited # None /\ adapters[awaited] # <<>>
  /\ adapters' = [adapters EXCEPT ![awaited] = Tail(@)]
  /\ IF ctx[Head(adapters[awaited])]
       THEN UNCHANGED <<players, awaited>>
       ELSE /\ players' = [players EXCEPT ![awaited] = Head(adapters[awaited])]
            /\ awaited' = None
  /\ UNCHANGED <<registered, handlers, ctx, starter, collector, runErr>>

Collect ==
  /\ collector = "collect"
  /\ awaited # None /\ adapters[awaited] # <<>>
  /\ players' = [players EXCEPT ![awaited] = Head(adapters[awaited])]
  /\ adapters' = [adapters EXCEPT ![awaited] = Tail(@)]
  /\ awaited' = None
  /\ UNCHANGED <<registered, handlers, ctx, starter, collector, runErr>>

(* The context of the stream that started the collector is done. *)
GiveUp ==
  /\ collector = "collect"
  /\ awaited # None
  /\ ctx[starter]
  /\ runErr' = "cancelled"
  /\ collector' = "done"
  /\ UNCHANGED <<registered, handlers, ctx, adapters, starter, awaited, players>>

Run ==
  /\ collector = "collect"
  /\ awaited = None /\ Missing = {}
  /\ collector' = "run"
  /\ UNCHANGED <<registered, handlers, ctx, adapters, starter, awaited, players,
                 runErr>>

(* Runner.Run returns; a stream that is gone makes its player's moves fall back
   and does not end the run. *)
RunEnds ==
  /\ collector = "run"
  /\ runErr' \in {"nil", "error"}
  /\ collector' = "done"
  /\ UNCHANGED <<registered, handlers, ctx, adapters, starter, awaited, players>>

-----------------------------------------------------------------------------
HandlerStep(s) == Deliver(s) \/ Start(s)

CollectorStep ==
  (\E p \in PlayerIDs : Await(p)) \/ Collect \/ GiveUp \/ Run

Next ==
  \/ PreRegisterSession
  \/ \E s \in Streams : Lookup(s) \/ HandlerStep(s) \/ Wait(s) \/ Disconnect(s)
  \/ CollectorStep
  \/ RunEnds

Spec == Init /\ [][Next]_vars

(* Goroutines that can run do run.  A run need not end: it waits for clients
   that may stay silent; nor need a waiter return. *)
FairSpec ==
  /\ Spec
  /\ \A s \in Streams : WF_vars(HandlerStep(s))
  /\ WF_vars(CollectorStep)

-----------------------------------------------------------------------------
(* Safety.                                                                  *)

Delivered(s) == pc[s] \in {"once", "wait", "over", "cancelled"}
Holder(s) == {p \in PlayerIDs : adapters[p] = <<s>>}
Playing(s) == {p \in PlayerIDs : players[p] = s}

(* An adapter that was delivered is in one place, its own player's: it waits in
   the channel or plays, never both and never for another player, and none is
   lost. *)
AdapterInOnePlace ==
  \A s \in Streams :
    /\ Delivered(s) => Cardinality(Holder(s)) + Cardinality(Playing(s)) = 1
    /\ ~Delivered(s) => Holder(s) = {} /\ Playing(s) = {}
    /\ Holder(s) \cup Playing(s) \subseteq {playerID[s]}

(* The run is started once: a collector that is past collecting never collects
   again, and what it collected is never replaced. *)
RunsOnce ==
  [][/\ collector \in {"run", "done"} => collector' \in {"run", "done"}
     /\ \A p \in PlayerIDs : players[p] # None => players'[p] = players[p]]_vars

-----------------------------------------------------------------------------
(* Liveness.                                                                *)

AllJoined == \A p \in PlayerIDs : \E s \in Streams : playerID[s] = p /\ Delivered(s)

(* Once every player has joined, the run starts, unless the stream that started
   the collector has gone. *)
SessionStarts ==
  AllJoined ~> collector \in {"run", "done"} \/ (starter # None /\ ctx[starter])
=============================================================================
