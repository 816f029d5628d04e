----------------------------- MODULE Spectators -----------------------------
(***************************************************************************)
(* SpectatorRegistry (pkg/engine/live.go): one registry for all sessions   *)
(* of the process.  Broadcast holds the read lock while it offers an       *)
(* update to every channel; Register and Deregister take the write lock.   *)
(***************************************************************************)
EXTENDS Naturals, Sequences, FiniteSets

CONSTANTS
  Sessions,    \* those whose runner broadcasts
  MaxTokens,   \* bound on registrations
  MaxUpdates,  \* bound on the updates of a session
  Capacity     \* of a spectator's channel

ASSUME SpectatorsAssumption ==
  MaxTokens \in Nat /\ MaxUpdates \in Nat /\ Capacity \in Nat \ {0}

Tokens == 0..MaxTokens - 1

VARIABLES
  channels,  \* the tokens in the map
  nextID,
  buffer,    \* buffer[t]: what is in the channel registered as t
  closed,    \* the tokens whose channel its owner has closed
  sent,      \* sent[s]: how many updates session s has begun to broadcast
  offering,  \* offering[s]: channels its loop has not come to yet
  reading,   \* sessions that hold the read lock
  got        \* history: got[t]: what the spectator has received

spectatorVars == <<channels, nextID, buffer, closed, sent, offering, reading, got>>

Updates == Sessions \X (1..MaxUpdates)

SpectatorsTypeOK ==
  /\ channels \subseteq Tokens /\ nextID \in 0..MaxTokens
  /\ buffer \in [Tokens -> Seq(Updates)] /\ \A t \in Tokens : Len(buffer[t]) <= Capacity
  /\ closed \subseteq Tokens
  /\ sent \in [Sessions -> 0..MaxUpdates]
  /\ offering \in [Sessions -> SUBSET Tokens]
  /\ reading \subseteq Sessions
  /\ got \in [Tokens -> Seq(Updates)]

SpectatorsInit ==
  /\ channels = {} /\ nextID = 0 /\ closed = {} /\ reading = {}
  /\ buffer = [t \in Tokens |-> <<>>] /\ got = [t \in Tokens |-> <<>>]
  /\ sent = [s \in Sessions |-> 0] /\ offering = [s \in Sessions |-> {}]

-----------------------------------------------------------------------------
Register ==
  /\ reading = {} /\ nextID < MaxTokens
  /\ channels' = channels \cup {nextID} /\ nextID' = nextID + 1
  /\ UNCHANGED <<buffer, closed, sent, offering, reading, got>>

(* Faulty: the map is changed without the write lock. *)
DeregisterUnlocked(t) ==
  /\ channels' = channels \ {t}
  /\ UNCHANGED <<nextID, buffer, closed, sent, offering, reading, got>>

Deregister(t) ==
  /\ reading = {}
  /\ channels' = channels \ {t}
  /\ UNCHANGED <<nextID, buffer, closed, sent, offering, reading, got>>

(* The spectator closes its channel once it is deregistered. *)
Close(t) ==
  /\ t < nextID /\ t \notin channels /\ t \notin closed
  /\ closed' = closed \cup {t}
  /\ UNCHANGED <<channels, nextID, buffer, sent, offering, reading, got>>

Receive(t) ==
  /\ buffer[t] # <<>>
  /\ got' = [got EXCEPT ![t] = Append(@, Head(buffer[t]))]
  /\ buffer' = [buffer EXCEPT ![t] = Tail(@)]
  /\ UNCHANGED <<channels, nextID, closed, sent, offering, reading>>

(* The runner of s has the next update; it takes the read lock. *)
Broadcast(s) ==
  /\ s \notin reading /\ sent[s] < MaxUpdates
  /\ sent' = [sent EXCEPT ![s] = @ + 1]
  /\ offering' = [offering EXCEPT ![s] = channels]
  /\ reading' = reading \cup {s}
  /\ UNCHANGED <<channels, nextID, buffer, closed, got>>

(* Faulty: a send that waits for room. *)
OfferWaiting(s, t) ==
  /\ t \in offering[s] /\ Len(buffer[t]) < Capacity
  /\ buffer' = [buffer EXCEPT ![t] = Append(@, <<s, sent[s]>>)]
  /\ offering' = [offering EXCEPT ![s] = @ \ {t}]
  /\ UNCHANGED <<channels, nextID, closed, sent, reading, got>>

(* One turn of the loop, in the map's order; a full channel is skipped. *)
Offer(s, t) ==
  /\ t \in offering[s]
  /\ buffer' = IF Len(buffer[t]) < Capacity
                 THEN [buffer EXCEPT ![t] = Append(@, <<s, sent[s]>>)] ELSE buffer
  /\ offering' = [offering EXCEPT ![s] = @ \ {t}]
  /\ UNCHANGED <<channels, nextID, closed, sent, reading, got>>

Unlock(s) ==
  /\ s \in reading /\ offering[s] = {}
  /\ reading' = reading \ {s}
  /\ UNCHANGED <<channels, nextID, buffer, closed, sent, offering, got>>

SpectatorsNext ==
  \/ Register
  \/ \E t \in Tokens : Deregister(t) \/ Close(t) \/ Receive(t)
  \/ \E s \in Sessions : Broadcast(s) \/ Unlock(s) \/ \E t \in Tokens : Offer(s, t)

(* The runners go on; spectators need not. *)
SpectatorsFairness ==
  \A s \in Sessions : /\ WF_spectatorVars(Unlock(s))
                      /\ WF_spectatorVars(\E t \in Tokens : Offer(s, t))

SpectatorsSpec == SpectatorsInit /\ [][SpectatorsNext]_spectatorVars /\ SpectatorsFairness

-----------------------------------------------------------------------------
(* A channel that was closed after it was deregistered is never sent to, which
   would panic.  A spectator may miss updates, but sees those of a session in
   their order and none twice. *)
SpectatorsAreSafe ==
  /\ SpectatorsTypeOK
  /\ \A t \in closed, s \in Sessions : t \notin offering[s]
  /\ \A t \in Tokens :
       LET all == got[t] \o buffer[t]
       IN \A i, j \in DOMAIN all : i < j /\ all[i][1] = all[j][1] => all[i][2] < all[j][2]

(* The game loop is not held up by spectators that receive nothing. *)
BroadcastEnds == \A s \in Sessions : s \in reading ~> s \notin reading
=============================================================================
