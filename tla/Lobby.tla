------------------------------- MODULE Lobby -------------------------------
(***************************************************************************)
(* Matchmaking: one lobby of the MatchmakingServer                         *)
(* (pkg/transport/server.go).                                              *)
(*                                                                         *)
(* Every JoinLobby stream is handled by a goroutine of its own (a handler) *)
(* and so is every CancelJoin call.  The lobby's mutex makes add, remove,  *)
(* snapshot, broadcast and drain atomic, but nothing makes the sequence    *)
(* snapshot; broadcast; drain atomic: it is that gap this module is about. *)
(*                                                                         *)
(* The server keeps one lobby per game type and never deletes one, so an   *)
(* absent lobby behaves as an empty one and lobbies do not interact; one   *)
(* lobby is modelled.  A channel is named by the handler that created it.  *)
(***************************************************************************)
EXTENDS Integers, Sequences, SequencesExt

CONSTANTS
  Handlers,     \* JoinLobby calls, each one stream
  Cancels,      \* CancelJoin calls
  Players,      \* non-empty player ids (an empty one is refused at once)
  MaxPlayers,   \* ServerOptions.maxPlayers()
  ChanCap       \* capacity of an update channel (8 in the code)

Actors == Handlers \cup Cancels

ASSUME LobbyAssumption ==
  /\ MaxPlayers \in Nat \ {0}
  /\ ChanCap \in Nat \ {0}
  /\ Handlers \cap Cancels = {}

VARIABLES
  playerIDs,    \* lobby.playerIDs
  subs,         \* lobby.subs: the handlers whose channels are subscribed
  chan,         \* chan[h]: updates buffered in h's channel
  sub,          \* sub[h]: h's channel; a closed one names what closed it
  pc,           \* where each call stands
  player,       \* the player id each call carries
  snap,         \* the call's local copy of the player list
  ctx,          \* ctx[h]: h's stream context is done
  last          \* last[h]: the last update h took from its channel to send

vars == <<playerIDs, subs, chan, sub, pc, player, snap, ctx, last>>

Update == [ready : Seq(Players), starting : BOOLEAN]
NoUpdate == [ready |-> <<>>, starting |-> FALSE]

Waiting == {"snapshot", "broadcast", "drain", "recv", "send"}
Returned == {"ok", "sendErr", "cancelled", "notFound"}

TypeOK ==
  /\ playerIDs \in Seq(Players)
  /\ subs \in Seq(Handlers)
  /\ chan \in [Handlers -> Seq(Update)]
  /\ sub \in [Handlers -> {"none", "open", "drained", "removed"}]
  /\ pc \in [Actors -> {"idle"} \cup Waiting \cup Returned]
  /\ player \in [Actors -> Players]
  /\ snap \in [Actors -> Seq(Players)]
  /\ ctx \in [Handlers -> BOOLEAN]
  /\ last \in [Handlers -> Update]

Init ==
  /\ playerIDs = <<>>
  /\ subs = <<>>
  /\ chan = [h \in Handlers |-> <<>>]
  /\ sub = [h \in Handlers |-> "none"]
  /\ pc = [a \in Actors |-> "idle"]
  /\ player \in [Actors -> Players]
  /\ snap = [a \in Actors |-> <<>>]
  /\ ctx = [h \in Handlers |-> FALSE]
  /\ last = [h \in Handlers |-> NoUpdate]

(* len(list) >= maxPlayers(), the test for a full lobby. *)
Full(list) == Len(list) >= MaxPlayers

Goto(a, label) == pc' = [pc EXCEPT ![a] = label]

-----------------------------------------------------------------------------
(* The lobby's operations, each atomic under lobby.mu.                      *)

add(h) ==
  /\ playerIDs' = Append(playerIDs, player[h])
  /\ subs' = Append(subs, h)
  /\ sub' = [sub EXCEPT ![h] = "open"]

(* The entry remove(p) finds: the first one with that player id. *)
IsFirst(i, p) ==
  /\ i \in 1..Len(playerIDs)
  /\ playerIDs[i] = p
  /\ \A j \in 1..(i - 1) : playerIDs[j] # p

present(p) == \E i \in 1..Len(playerIDs) : playerIDs[i] = p

(* Faulty: the channel is closed but stays subscribed. *)
removeKeepsSub(p) ==
  \/ \E i \in 1..Len(playerIDs) :
       /\ IsFirst(i, p)
       /\ playerIDs' = RemoveAt(playerIDs, i)
       /\ sub' = [sub EXCEPT ![subs[i]] = "removed"]
       /\ UNCHANGED subs
  \/ /\ ~present(p)
     /\ UNCHANGED <<playerIDs, subs, sub>>

(* Faulty: the entry goes and the newest channel is closed. *)
removeClosesLast(p) ==
  \/ \E i \in 1..Len(playerIDs) :
       /\ IsFirst(i, p)
       /\ playerIDs' = RemoveAt(playerIDs, i)
       /\ subs' = Front(subs)
       /\ sub' = [sub EXCEPT ![Last(subs)] = "removed"]
  \/ /\ ~present(p)
     /\ UNCHANGED <<playerIDs, subs, sub>>

remove(p) ==
  \/ \E i \in 1..Len(playerIDs) :
       /\ IsFirst(i, p)
       /\ playerIDs' = RemoveAt(playerIDs, i)
       /\ subs' = RemoveAt(subs, i)
       /\ sub' = [sub EXCEPT ![subs[i]] = "removed"]
  \/ /\ ~present(p)
     /\ UNCHANGED <<playerIDs, subs, sub>>

(* A send never blocks: a full channel misses the update. *)
broadcast(u) ==
  chan' = [h \in Handlers |->
             IF (\E i \in 1..Len(subs) : subs[i] = h) /\ Len(chan[h]) < ChanCap
               THEN Append(chan[h], u)
               ELSE chan[h]]

(* Faulty: the lists are cleared and no channel is closed. *)
drainWithoutClose ==
  /\ playerIDs' = <<>>
  /\ subs' = <<>>
  /\ UNCHANGED sub

drain ==
  /\ playerIDs' = <<>>
  /\ subs' = <<>>
  /\ sub' = [h \in Handlers |->
               IF \E i \in 1..Len(subs) : subs[i] = h THEN "drained" ELSE sub[h]]

-----------------------------------------------------------------------------
(* JoinLobby and CancelJoin, one action per step between two lock regions.  *)

Join(h) ==
  /\ pc[h] = "idle"
  /\ add(h)
  /\ Goto(h, "snapshot")
  /\ UNCHANGED <<chan, player, snap, ctx, last>>

CancelJoin(c) ==
  /\ pc[c] = "idle"
  /\ remove(player[c])
  /\ Goto(c, IF present(player[c]) THEN "snapshot" ELSE "notFound")
  /\ UNCHANGED <<chan, player, snap, ctx, last>>

Snapshot(a) ==
  /\ pc[a] = "snapshot"
  /\ snap' = [snap EXCEPT ![a] = playerIDs]
  /\ Goto(a, "broadcast")
  /\ UNCHANGED <<playerIDs, subs, chan, sub, player, ctx, last>>

(* Faulty: the test for a full lobby is off by one. *)
JoinBroadcastLate(h) ==
  /\ pc[h] = "broadcast"
  /\ broadcast([ready |-> snap[h], starting |-> Len(snap[h]) > MaxPlayers])
  /\ Goto(h, IF Len(snap[h]) > MaxPlayers THEN "drain" ELSE "recv")
  /\ UNCHANGED <<playerIDs, subs, sub, player, snap, ctx, last>>

JoinBroadcast(h) ==
  /\ pc[h] = "broadcast"
  /\ broadcast([ready |-> snap[h], starting |-> Full(snap[h])])
  /\ Goto(h, IF Full(snap[h]) THEN "drain" ELSE "recv")
  /\ UNCHANGED <<playerIDs, subs, sub, player, snap, ctx, last>>

CancelBroadcast(c) ==
  /\ pc[c] = "broadcast"
  /\ broadcast([ready |-> snap[c], starting |-> FALSE])
  /\ Goto(c, "cancelled")
  /\ UNCHANGED <<playerIDs, subs, sub, player, snap, ctx, last>>

(* Faulty: a handler drains only a lobby that is still full. *)
DrainIfStillFull(h) ==
  /\ pc[h] = "drain"
  /\ IF Full(playerIDs) THEN drain ELSE UNCHANGED <<playerIDs, subs, sub>>
  /\ Goto(h, "recv")
  /\ UNCHANGED <<chan, player, snap, ctx, last>>

Drain(h) ==
  /\ pc[h] = "drain"
  /\ drain
  /\ Goto(h, "recv")
  /\ UNCHANGED <<chan, player, snap, ctx, last>>

(* The select loop: any ready case may be taken.  An update that was taken is
   with stream.Send until that returns. *)
TakeUpdate(h) ==
  /\ pc[h] = "recv"
  /\ chan[h] # <<>>
  /\ chan' = [chan EXCEPT ![h] = Tail(@)]
  /\ last' = [last EXCEPT ![h] = Head(chan[h])]
  /\ Goto(h, "send")
  /\ UNCHANGED <<playerIDs, subs, sub, player, snap, ctx>>

(* stream.Send has accepted the update.  Flow control makes it wait for a
   client that does not read, as long as the stream lives. *)
SendUpdate(h) ==
  /\ pc[h] = "send"
  /\ Goto(h, IF last[h].starting THEN "ok" ELSE "recv")
  /\ UNCHANGED <<playerIDs, subs, chan, sub, player, snap, ctx, last>>

(* stream.Send fails once the stream is gone; the handler returns at once. *)
SendFails(h) ==
  /\ pc[h] = "send"
  /\ ctx[h]
  /\ Goto(h, "sendErr")
  /\ UNCHANGED <<playerIDs, subs, chan, sub, player, snap, ctx, last>>

(* A closed channel is still drained of what it buffered before it reports
   that it is closed. *)
ChannelClosed(h) ==
  /\ pc[h] = "recv"
  /\ chan[h] = <<>>
  /\ sub[h] # "open"
  /\ Goto(h, "ok")
  /\ UNCHANGED <<playerIDs, subs, chan, sub, player, snap, ctx, last>>

CtxDone(h) ==
  /\ pc[h] = "recv"
  /\ ctx[h]
  /\ remove(player[h])
  /\ Goto(h, "cancelled")
  /\ UNCHANGED <<chan, player, snap, ctx, last>>

(* The client goes away: its stream's context is cancelled. *)
Disconnect(h) ==
  /\ pc[h] \in Waiting
  /\ ~ctx[h]
  /\ ctx' = [ctx EXCEPT ![h] = TRUE]
  /\ UNCHANGED <<playerIDs, subs, chan, sub, pc, player, snap, last>>

HandlerStep(h) ==
  \/ Snapshot(h)
  \/ JoinBroadcast(h)
  \/ Drain(h)
  \/ TakeUpdate(h)
  \/ SendFails(h)
  \/ ChannelClosed(h)
  \/ CtxDone(h)

CancelStep(c) ==
  \/ Snapshot(c)
  \/ CancelBroadcast(c)

Next ==
  \/ \E h \in Handlers :
       Join(h) \/ HandlerStep(h) \/ SendUpdate(h) \/ Disconnect(h)
  \/ \E c \in Cancels : CancelJoin(c) \/ CancelStep(c)

Spec == Init /\ [][Next]_vars

(* The Go scheduler runs every goroutine that can run, and sync.Mutex does
   not starve a waiter.  Clients owe nothing: Join, CancelJoin, Disconnect and
   SendUpdate, which may wait for a client that does not read, have no
   fairness. *)
Fairness ==
  /\ \A h \in Handlers : WF_vars(HandlerStep(h))
  /\ \A c \in Cancels : WF_vars(CancelStep(c))

FairSpec == Spec /\ Fairness

-----------------------------------------------------------------------------
(* Safety.                                                                  *)

IsSubscribed(h) == \E i \in 1..Len(subs) : subs[i] = h

(* broadcast never sends on a closed channel and remove and drain never close
   one twice (either panics in Go), and no handler is left with an open channel
   nobody can write to or close: the subscribed channels are the open ones,
   each subscribed once, beside the id of its own player. *)
SubscriptionsMatch ==
  /\ Len(playerIDs) = Len(subs)
  /\ \A i \in 1..Len(subs) : playerIDs[i] = player[subs[i]]
  /\ \A i, j \in 1..Len(subs) : subs[i] = subs[j] => i = j
  /\ \A h \in Handlers : IsSubscribed(h) <=> sub[h] = "open"

(* However joins, cancellations and disconnects interleave between the
   snapshots and the drains, a full lobby is never forgotten: some JoinLobby
   call has yet to look at it, or has seen a full lobby and has yet to drain
   it. *)
FullLobbyHasStarter ==
  Full(playerIDs) =>
    \E h \in Handlers :
      \/ pc[h] = "snapshot"
      \/ pc[h] \in {"broadcast", "drain"} /\ Full(snap[h])

(* A subscription that has been told the game is starting never outlives that
   game's drain: the handler that announced the start (or another) is about to
   drain, so a player who has left for a game is not also kept for the next. *)
ToldToStart(h) ==
  last[h].starting \/ \E i \in 1..Len(chan[h]) : chan[h][i].starting

StartedAreDrained ==
  \A h \in Handlers :
    sub[h] = "open" /\ ToldToStart(h) => \E g \in Handlers : pc[g] = "drain"

(* A call that returned without an error leaves no entry behind for longer
   than the pending drain. *)
NoGhostAfterOk ==
  \A h \in Handlers :
    pc[h] = "ok" /\ sub[h] = "open" => \E g \in Handlers : pc[g] = "drain"

(* A subscription ends in one of two ways: some call for the same player
   removes it, or a JoinLobby call that saw a full lobby drains it.  No step
   closes the channel of a bystander. *)
EndsForAReason ==
  [][\A h \in Handlers : sub[h] = "open" /\ sub'[h] # "open" =>
       \/ /\ sub'[h] = "removed"
          /\ \E a \in Actors : player[a] = player[h] /\ pc'[a] # pc[a]
       \/ /\ sub'[h] = "drained"
          /\ \E g \in Handlers : pc[g] = "drain" /\ Full(snap[g])]_vars

-----------------------------------------------------------------------------
(* Liveness.                                                                *)

(* A full lobby is drained without any further help from a client. *)
FullLobbyDrains == Full(playerIDs) ~> ~Full(playerIDs)

(* A JoinLobby call returns when its client has gone.  It returns as well when
   its player was removed, and when it waits in a lobby about to be drained,
   the update that starts the game being lost to a full channel or not, unless
   it is held for ever by one Send to a client that is there and does not
   read: the lobby itself keeps nobody. *)
HeldByClient(h) == pc[h] = "send" /\ ~ctx[h]

MustReturn(h) ==
  \/ sub[h] = "removed"
  \/ sub[h] = "open" /\ \E g \in Handlers : pc[g] = "drain"

WaiterReturns ==
  \A h \in Handlers :
    /\ ctx[h] ~> pc[h] \in Returned
    /\ \/ MustReturn(h) ~> pc[h] \in Returned
       \/ <>[]HeldByClient(h)
=============================================================================
