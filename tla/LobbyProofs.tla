---------------------------- MODULE LobbyProofs ----------------------------
(***************************************************************************)
(* Theorems about Lobby, for any number of calls, players and places.      *)
(***************************************************************************)
EXTENDS Lobby, SequenceTheorems, TLAPS

-----------------------------------------------------------------------------
(* Removing the element at a place. *)
LEMMA RemoveAtProperties ==
  ASSUME NEW S, NEW s \in Seq(S), NEW i \in 1..Len(s)
  PROVE  /\ RemoveAt(s, i) \in Seq(S)
         /\ Len(RemoveAt(s, i)) = Len(s) - 1
         /\ \A j \in 1..(Len(s) - 1) :
              RemoveAt(s, i)[j] = IF j < i THEN s[j] ELSE s[j + 1]
<1> DEFINE l == SubSeq(s, 1, i - 1)
           r == SubSeq(s, i + 1, Len(s))
<1>1. /\ l \in Seq(S) /\ Len(l) = i - 1
      /\ \A j \in 1..(i - 1) : l[j] = s[j]
  OBVIOUS
<1>2. /\ r \in Seq(S) /\ Len(r) = Len(s) - i
      /\ \A j \in 1..(Len(s) - i) : r[j] = s[j + i]
  OBVIOUS
<1> HIDE DEF l, r
<1>3. /\ l \o r \in Seq(S)
      /\ Len(l \o r) = Len(l) + Len(r)
      /\ \A j \in 1..(Len(l) + Len(r)) :
           (l \o r)[j] = IF j <= Len(l) THEN l[j] ELSE r[j - Len(l)]
  BY <1>1, <1>2, ConcatProperties
<1>4. Len(l \o r) = Len(s) - 1
  BY <1>1, <1>2, <1>3
<1>5. ASSUME NEW j \in 1..(Len(s) - 1)
      PROVE  (l \o r)[j] = IF j < i THEN s[j] ELSE s[j + 1]
  <2>1. CASE j < i
    BY <1>1, <1>2, <1>3, <2>1
  <2>2. CASE ~(j < i)
    <3>1. j - Len(l) \in 1..(Len(s) - i) /\ ~(j <= Len(l))
      BY <1>1, <2>2
    <3>2. (l \o r)[j] = r[j - Len(l)]
      BY <1>1, <1>2, <1>3, <3>1
    <3>3. r[j - Len(l)] = s[(j - Len(l)) + i]
      BY <1>2, <3>1
    <3>4. (j - Len(l)) + i = j + 1
      BY <1>1
    <3> QED BY <2>2, <3>2, <3>3, <3>4
  <2> QED BY <2>1, <2>2
<1>6. RemoveAt(s, i) = l \o r
  BY DEF RemoveAt, l, r
<1> QED BY <1>3, <1>4, <1>5, <1>6

-----------------------------------------------------------------------------
(* TypeOK is not inductive on its own: remove closes subs[i] at a place found
   in playerIDs, which is a channel only because the two lists are aligned.
   The alignment needs in turn that a call joins with a fresh channel. *)
IdleIsFresh == \A h \in Handlers : pc[h] = "idle" => sub[h] = "none"

LobbyInv == TypeOK /\ SubscriptionsMatch /\ IdleIsFresh

LEMMA RemovePreserves ==
  ASSUME LobbyInv, NEW p \in Players, remove(p), UNCHANGED player
  PROVE  /\ playerIDs' \in Seq(Players)
         /\ subs' \in Seq(Handlers)
         /\ sub' \in [Handlers -> {"none", "open", "drained", "removed"}]
         /\ Len(playerIDs') <= Len(playerIDs)
         /\ SubscriptionsMatch'
         /\ \A h \in Handlers : sub[h] = "none" => sub'[h] = "none"
<1>1. CASE ~present(p) /\ UNCHANGED <<playerIDs, subs, sub>>
  BY <1>1 DEF LobbyInv, TypeOK, SubscriptionsMatch, IsSubscribed
<1>2. CASE \E i \in 1..Len(playerIDs) :
             /\ IsFirst(i, p)
             /\ playerIDs' = RemoveAt(playerIDs, i)
             /\ subs' = RemoveAt(subs, i)
             /\ sub' = [sub EXCEPT ![subs[i]] = "removed"]
  <2>1. PICK i \in 1..Len(playerIDs) :
             /\ playerIDs' = RemoveAt(playerIDs, i)
             /\ subs' = RemoveAt(subs, i)
             /\ sub' = [sub EXCEPT ![subs[i]] = "removed"]
    BY <1>2
  <2>2. /\ playerIDs \in Seq(Players) /\ subs \in Seq(Handlers)
        /\ Len(playerIDs) = Len(subs)
        /\ i \in 1..Len(subs) /\ subs[i] \in Handlers
        /\ sub \in [Handlers -> {"none", "open", "drained", "removed"}]
    BY DEF LobbyInv, TypeOK, SubscriptionsMatch
  <2>3. /\ playerIDs' \in Seq(Players)
        /\ Len(playerIDs') = Len(playerIDs) - 1
        /\ \A j \in 1..(Len(playerIDs) - 1) :
             playerIDs'[j] = IF j < i THEN playerIDs[j] ELSE playerIDs[j + 1]
    BY <2>1, <2>2, RemoveAtProperties
  <2>4. /\ subs' \in Seq(Handlers)
        /\ Len(subs') = Len(subs) - 1
        /\ \A j \in 1..(Len(subs) - 1) :
             subs'[j] = IF j < i THEN subs[j] ELSE subs[j + 1]
    BY <2>1, <2>2, RemoveAtProperties
  <2>5. sub' \in [Handlers -> {"none", "open", "drained", "removed"}]
    BY <2>1, <2>2
  <2> DEFINE orig(j) == IF j < i THEN j ELSE j + 1
  <2>6. \A j \in 1..Len(subs') :
          /\ orig(j) \in 1..Len(subs) /\ orig(j) # i
          /\ subs'[j] = subs[orig(j)]
          /\ playerIDs'[j] = playerIDs[orig(j)]
    <3>1. Len(subs) \in Nat /\ Len(subs') = Len(subs) - 1 /\ i \in 1..Len(subs)
      BY <2>2, <2>4
    <3> SUFFICES ASSUME NEW j \in 1..Len(subs')
                 PROVE  /\ orig(j) \in 1..Len(subs) /\ orig(j) # i
                        /\ subs'[j] = subs[orig(j)]
                        /\ playerIDs'[j] = playerIDs[orig(j)]
      OBVIOUS
    <3>2. j \in 1..(Len(subs) - 1) /\ j \in 1..(Len(playerIDs) - 1)
      BY <2>2, <3>1
    <3>3. orig(j) \in 1..Len(subs) /\ orig(j) # i
      BY <3>1, <3>2
    <3>4. subs'[j] = subs[orig(j)]
      BY <2>4, <3>2
    <3>5. playerIDs'[j] = playerIDs[orig(j)]
      BY <2>3, <3>2
    <3> QED BY <3>3, <3>4, <3>5
  <2>7. \A j, k \in 1..Len(subs') : orig(j) = orig(k) => j = k
    BY <2>2, <2>4
  <2>8. \A j \in 1..Len(subs) : j # i => \E k \in 1..Len(subs') : orig(k) = j
    <3>1. ASSUME NEW j \in 1..Len(subs), j < i
          PROVE  j \in 1..Len(subs') /\ orig(j) = j
      BY <2>2, <2>4, <3>1
    <3>2. ASSUME NEW j \in 1..Len(subs), j > i
          PROVE  j - 1 \in 1..Len(subs') /\ orig(j - 1) = j
      BY <2>2, <2>4, <3>2
    <3>3. \A j \in 1..Len(subs) : j # i => j < i \/ j > i
      BY <2>2
    <3> HIDE DEF orig
    <3> QED BY <3>1, <3>2, <3>3
  <2> HIDE DEF orig
  <2>9. SubscriptionsMatch'
    <3>1. Len(playerIDs') = Len(subs')
      BY <2>2, <2>3, <2>4
    <3>2. \A j \in 1..Len(subs') : playerIDs'[j] = player'[subs'[j]]
      BY <2>6 DEF LobbyInv, SubscriptionsMatch
    <3>3. \A j, k \in 1..Len(subs') : subs'[j] = subs'[k] => j = k
      BY <2>6, <2>7 DEF LobbyInv, SubscriptionsMatch
    <3>4. ASSUME NEW h \in Handlers
          PROVE  (\E k \in 1..Len(subs') : subs'[k] = h)
                   <=> (\E j \in 1..Len(subs) : subs[j] = h /\ j # i)
      <4>1. ASSUME NEW k \in 1..Len(subs'), subs'[k] = h
            PROVE  \E j \in 1..Len(subs) : subs[j] = h /\ j # i
        BY <2>6, <4>1
      <4>2. ASSUME NEW j \in 1..Len(subs), subs[j] = h, j # i
            PROVE  \E k \in 1..Len(subs') : subs'[k] = h
        <5>1. PICK k \in 1..Len(subs') : orig(k) = j
          BY <2>8, <4>2
        <5> QED BY <2>6, <4>2, <5>1
      <4> QED BY <4>1, <4>2
    <3>5. \A j \in 1..Len(subs) : subs[j] = subs[i] => j = i
      BY <2>2 DEF LobbyInv, SubscriptionsMatch
    <3>6. ASSUME NEW h \in Handlers
          PROVE  (\E k \in 1..Len(subs') : subs'[k] = h) <=> sub'[h] = "open"
      <4>1. CASE h = subs[i]
        BY <2>1, <2>2, <3>4, <3>5, <4>1
      <4>2. CASE h # subs[i]
        <5>1. sub'[h] = sub[h]
          BY <2>1, <2>2, <4>2
        <5>2. (\E j \in 1..Len(subs) : subs[j] = h) <=> sub[h] = "open"
          BY DEF LobbyInv, SubscriptionsMatch, IsSubscribed
        <5> QED BY <2>2, <3>4, <4>2, <5>1, <5>2
      <4> QED BY <4>1, <4>2
    <3> QED BY <3>1, <3>2, <3>3, <3>6 DEF SubscriptionsMatch, IsSubscribed
  <2>10. Len(playerIDs') <= Len(playerIDs)
    BY <2>2, <2>3
  <2>11. sub[subs[i]] = "open"
    BY <2>2 DEF LobbyInv, SubscriptionsMatch, IsSubscribed
  <2>12. \A h \in Handlers : sub[h] = "none" => sub'[h] = "none"
    BY <2>1, <2>2, <2>11
  <2> QED BY <2>3, <2>4, <2>5, <2>9, <2>10, <2>12
<1> QED BY <1>1, <1>2 DEF remove

(* The initial lobby is empty. *)
LEMMA InitLobby == Init => LobbyInv
<1> SUFFICES ASSUME Init PROVE LobbyInv
  OBVIOUS
<1> USE DEF Init
<1>1. TypeOK
  BY EmptySeq DEF TypeOK, NoUpdate, Update, Waiting, Returned
<1>2. SubscriptionsMatch
  BY DEF SubscriptionsMatch, IsSubscribed
<1>3. IdleIsFresh
  BY DEF IdleIsFresh
<1> QED BY <1>1, <1>2, <1>3 DEF LobbyInv

(* A broadcast buffers updates and touches nothing else. *)
LEMMA BroadcastTypes ==
  ASSUME TypeOK, NEW u \in Update, broadcast(u)
  PROVE  chan' \in [Handlers -> Seq(Update)]
  BY DEF TypeOK, broadcast

(* Every step keeps the types and the alignment of the two lists. *)
LEMMA NextLobby == LobbyInv /\ [Next]_vars => LobbyInv'
<1> SUFFICES ASSUME LobbyInv, [Next]_vars PROVE LobbyInv'
  OBVIOUS
<1> USE LobbyAssumption DEF LobbyInv, Actors, Waiting, Returned, Goto
<1>1. ASSUME NEW h \in Handlers, Join(h)
      PROVE  LobbyInv'
  <2>1. /\ playerIDs \in Seq(Players) /\ subs \in Seq(Handlers)
        /\ player[h] \in Players /\ sub[h] = "none"
        /\ Len(playerIDs) = Len(subs)
    BY <1>1 DEF Join, TypeOK, SubscriptionsMatch, IdleIsFresh
  <2>2. /\ playerIDs' = Append(playerIDs, player[h])
        /\ subs' = Append(subs, h)
        /\ sub' = [sub EXCEPT ![h] = "open"]
        /\ UNCHANGED player
    BY <1>1 DEF Join, add
  <2>3. TypeOK'
    BY <1>1, <2>1, <2>2 DEF Join, TypeOK
  <2>4. \A i \in 1..Len(subs) : subs[i] # h
    BY <2>1 DEF SubscriptionsMatch, IsSubscribed
  <2>5. Len(playerIDs') = Len(subs') /\ Len(subs') = Len(subs) + 1
    BY <2>1, <2>2
  <2>6. \A i \in 1..Len(subs') :
          /\ i \in 1..Len(subs) => /\ subs'[i] = subs[i]
                                   /\ playerIDs'[i] = playerIDs[i]
          /\ i \notin 1..Len(subs) => /\ i = Len(subs)+1
                                      /\ subs'[i] = h
                                      /\ playerIDs'[i] = player[h]
    BY <2>1, <2>2, <2>5
  <2>7. \A i \in 1..Len(subs') : playerIDs'[i] = player'[subs'[i]]
    BY <2>2, <2>6 DEF SubscriptionsMatch
  <2>8. \A i, j \in 1..Len(subs') : subs'[i] = subs'[j] => i = j
    BY <2>4, <2>6 DEF SubscriptionsMatch
  <2>9. ASSUME NEW g \in Handlers
        PROVE  (\E i \in 1..Len(subs') : subs'[i] = g) <=> sub'[g] = "open"
    <3>1. CASE g = h
      <4>1. Len(subs') \in 1..Len(subs') /\ subs'[Len(subs')] = h
        BY <2>1, <2>5, <2>6
      <4> QED BY <2>2, <3>1, <4>1 DEF TypeOK
    <3>2. CASE g # h
      <4>1. sub'[g] = sub[g]
        BY <2>2, <3>2 DEF TypeOK
      <4>2. (\E i \in 1..Len(subs) : subs[i] = g) <=> sub[g] = "open"
        BY DEF SubscriptionsMatch, IsSubscribed
      <4>3. \A i \in 1..Len(subs) : i \in 1..Len(subs')
        BY <2>1, <2>5
      <4> QED BY <2>6, <3>2, <4>1, <4>2, <4>3
    <3> QED BY <3>1, <3>2
  <2>10. SubscriptionsMatch'
    BY <2>5, <2>7, <2>8, <2>9 DEF SubscriptionsMatch, IsSubscribed
  <2>11. IdleIsFresh'
    BY <1>1, <2>2 DEF Join, IdleIsFresh, TypeOK
  <2> QED BY <2>3, <2>10, <2>11
<1>2. ASSUME NEW c \in Cancels, CancelJoin(c)
      PROVE  LobbyInv'
  <2>1. player[c] \in Players /\ remove(player[c]) /\ UNCHANGED player
    BY <1>2 DEF CancelJoin, TypeOK
  <2>2. /\ playerIDs' \in Seq(Players) /\ subs' \in Seq(Handlers)
        /\ sub' \in [Handlers -> {"none", "open", "drained", "removed"}]
        /\ SubscriptionsMatch'
        /\ \A g \in Handlers : sub[g] = "none" => sub'[g] = "none"
    BY <2>1, RemovePreserves
  <2>3. TypeOK'
    BY <1>2, <2>2 DEF CancelJoin, TypeOK
  <2>4. IdleIsFresh'
    BY <1>2, <2>2 DEF CancelJoin, TypeOK, IdleIsFresh
  <2> QED BY <2>2, <2>3, <2>4
<1>3. ASSUME NEW a \in Actors, Snapshot(a)
      PROVE  LobbyInv'
  <2>1. TypeOK'
    BY <1>3 DEF Snapshot, TypeOK
  <2>2. SubscriptionsMatch'
    BY <1>3 DEF Snapshot, SubscriptionsMatch, IsSubscribed
  <2>3. IdleIsFresh'
    BY <1>3 DEF Snapshot, TypeOK, IdleIsFresh
  <2> QED BY <2>1, <2>2, <2>3
<1>4. ASSUME NEW h \in Handlers, JoinBroadcast(h)
      PROVE  LobbyInv'
  <2>1. [ready |-> snap[h], starting |-> Full(snap[h])] \in Update
    BY DEF Update, TypeOK, Full
  <2>2. chan' \in [Handlers -> Seq(Update)]
    BY <1>4, <2>1, BroadcastTypes DEF JoinBroadcast
  <2>3. TypeOK'
    BY <1>4, <2>2 DEF JoinBroadcast, TypeOK
  <2>4. SubscriptionsMatch'
    BY <1>4 DEF JoinBroadcast, SubscriptionsMatch, IsSubscribed
  <2>5. IdleIsFresh'
    BY <1>4 DEF JoinBroadcast, TypeOK, IdleIsFresh
  <2> QED BY <2>3, <2>4, <2>5
<1>5. ASSUME NEW c \in Cancels, CancelBroadcast(c)
      PROVE  LobbyInv'
  <2>1. [ready |-> snap[c], starting |-> FALSE] \in Update
    BY DEF Update, TypeOK
  <2>2. chan' \in [Handlers -> Seq(Update)]
    BY <1>5, <2>1, BroadcastTypes DEF CancelBroadcast
  <2>3. TypeOK'
    BY <1>5, <2>2 DEF CancelBroadcast, TypeOK
  <2>4. SubscriptionsMatch'
    BY <1>5 DEF CancelBroadcast, SubscriptionsMatch, IsSubscribed
  <2>5. IdleIsFresh'
    BY <1>5 DEF CancelBroadcast, TypeOK, IdleIsFresh
  <2> QED BY <2>3, <2>4, <2>5
<1>6. ASSUME NEW h \in Handlers, Drain(h)
      PROVE  LobbyInv'
  <2>1. TypeOK'
    BY <1>6, EmptySeq DEF Drain, drain, TypeOK
  <2>2. SubscriptionsMatch'
    BY <1>6 DEF Drain, drain, TypeOK, SubscriptionsMatch, IsSubscribed
  <2>3. IdleIsFresh'
    BY <1>6 DEF Drain, drain, TypeOK, SubscriptionsMatch, IsSubscribed, IdleIsFresh
  <2> QED BY <2>1, <2>2, <2>3
<1>7. ASSUME NEW h \in Handlers, TakeUpdate(h)
      PROVE  LobbyInv'
  <2>1. Head(chan[h]) \in Update /\ Tail(chan[h]) \in Seq(Update)
    BY <1>7 DEF TakeUpdate, TypeOK
  <2> QED
    BY <1>7, <2>1
    DEF TakeUpdate, TypeOK, SubscriptionsMatch, IsSubscribed, IdleIsFresh
<1>8. ASSUME NEW h \in Handlers, SendUpdate(h) \/ SendFails(h)
      PROVE  LobbyInv'
  <2>1. /\ UNCHANGED <<playerIDs, subs, chan, sub, player, snap, ctx, last>>
        /\ pc[h] = "send"
        /\ \E label \in Waiting \cup Returned : pc' = [pc EXCEPT ![h] = label]
    BY <1>8 DEF SendUpdate, SendFails
  <2>2. TypeOK'
    BY <2>1 DEF TypeOK
  <2>3. SubscriptionsMatch'
    BY <2>1 DEF SubscriptionsMatch, IsSubscribed
  <2>4. IdleIsFresh'
    BY <2>1 DEF TypeOK, IdleIsFresh
  <2> QED BY <2>2, <2>3, <2>4
<1>9. ASSUME NEW h \in Handlers, ChannelClosed(h)
      PROVE  LobbyInv'
  BY <1>9
  DEF ChannelClosed, TypeOK, SubscriptionsMatch, IsSubscribed, IdleIsFresh
<1>10. ASSUME NEW h \in Handlers, CtxDone(h)
      PROVE  LobbyInv'
  <2>1. player[h] \in Players /\ remove(player[h]) /\ UNCHANGED player
    BY <1>10 DEF CtxDone, TypeOK
  <2>2. /\ playerIDs' \in Seq(Players) /\ subs' \in Seq(Handlers)
        /\ sub' \in [Handlers -> {"none", "open", "drained", "removed"}]
        /\ SubscriptionsMatch'
        /\ \A g \in Handlers : sub[g] = "none" => sub'[g] = "none"
    BY <2>1, RemovePreserves
  <2>3. TypeOK'
    BY <1>10, <2>2 DEF CtxDone, TypeOK
  <2>4. IdleIsFresh'
    BY <1>10, <2>2 DEF CtxDone, TypeOK, IdleIsFresh
  <2> QED BY <2>2, <2>3, <2>4
<1>11. ASSUME NEW h \in Handlers, Disconnect(h)
      PROVE  LobbyInv'
  BY <1>11 DEF Disconnect, TypeOK, SubscriptionsMatch, IsSubscribed, IdleIsFresh
<1>12. CASE UNCHANGED vars
  BY <1>12 DEF vars, TypeOK, SubscriptionsMatch, IsSubscribed, IdleIsFresh
<1> QED
  BY <1>1, <1>2, <1>3, <1>4, <1>5, <1>6, <1>7, <1>8, <1>9, <1>10, <1>11, <1>12
  DEF Next, HandlerStep, CancelStep

(* The two lists of the lobby stay aligned, no channel is subscribed twice and
   the subscribed channels are the open ones: no Go panic, no orphan. *)
THEOREM LobbyIsConsistent == Spec => [](TypeOK /\ SubscriptionsMatch)
<1>1. LobbyInv => TypeOK /\ SubscriptionsMatch
  BY DEF LobbyInv
<1> QED BY <1>1, InitLobby, NextLobby, PTL DEF Spec

-----------------------------------------------------------------------------
(* A removal never fills a lobby. *)
LEMMA RemoveNeverFills ==
  ASSUME LobbyInv, NEW p \in Players, remove(p), UNCHANGED player
  PROVE  Full(playerIDs') => Full(playerIDs)
<1>1. /\ Len(playerIDs') <= Len(playerIDs)
      /\ Len(playerIDs') \in Nat /\ Len(playerIDs) \in Nat
  BY RemovePreserves DEF LobbyInv, TypeOK
<1> QED BY <1>1, LobbyAssumption DEF Full

(* However the calls interleave, a full lobby always has a JoinLobby call that
   is still going to see it full and drain it.  FullLobbyHasStarter is inductive
   with the types: the call that makes the lobby full has its snapshot ahead of
   it, and only a drain, which empties the lobby, ends its duty. *)
THEOREM FullLobbyIsNeverForgotten == Spec => []FullLobbyHasStarter
<1> USE LobbyAssumption DEF Goto, Actors
<1> DEFINE Starter(h) ==
             \/ pc[h] = "snapshot"
             \/ pc[h] \in {"broadcast", "drain"} /\ Full(snap[h])
<1>1. Init => FullLobbyHasStarter
  BY DEF Init, FullLobbyHasStarter, Full
<1>2. LobbyInv /\ FullLobbyHasStarter /\ [Next]_vars => FullLobbyHasStarter'
  <2> SUFFICES ASSUME LobbyInv, FullLobbyHasStarter, [Next]_vars,
                      Full(playerIDs')
               PROVE  \E h \in Handlers : Starter(h)'
    BY DEF FullLobbyHasStarter, Full
  <2> USE DEF LobbyInv, TypeOK
  <2>1. ASSUME NEW h \in Handlers, Join(h)
        PROVE  Starter(h)'
    BY <2>1 DEF Join
  <2>2. ASSUME NEW c \in Cancels, CancelJoin(c)
        PROVE  \E h \in Handlers : Starter(h)'
    <3>1. Full(playerIDs)
      BY <2>2, RemoveNeverFills DEF CancelJoin
    <3>2. PICK h \in Handlers : Starter(h)
      BY <3>1 DEF FullLobbyHasStarter
    <3> QED BY <2>2, <3>2 DEF CancelJoin, Full
  <2>3. ASSUME NEW a \in Actors, Snapshot(a)
        PROVE  \E h \in Handlers : Starter(h)'
    <3>1. PICK h \in Handlers : Starter(h)
      BY <2>3 DEF FullLobbyHasStarter, Snapshot, Full
    <3>2. CASE a = h
      BY <2>3, <3>2 DEF Snapshot, Full
    <3>3. CASE a # h
      BY <2>3, <3>1, <3>3 DEF Snapshot, Full
    <3> QED BY <3>2, <3>3
  <2>4. ASSUME NEW g \in Handlers, JoinBroadcast(g)
        PROVE  \E h \in Handlers : Starter(h)'
    <3>1. PICK h \in Handlers : Starter(h)
      BY <2>4 DEF FullLobbyHasStarter, JoinBroadcast, Full
    <3>2. CASE g = h
      BY <2>4, <3>1, <3>2 DEF JoinBroadcast, Full
    <3>3. CASE g # h
      BY <2>4, <3>1, <3>3 DEF JoinBroadcast, Full
    <3> QED BY <3>2, <3>3
  <2>5. ASSUME NEW h \in Handlers, Drain(h)
        PROVE  FALSE
    BY <2>5 DEF Drain, drain, Full
  <2>6. ASSUME NEW g \in Handlers, CtxDone(g)
        PROVE  \E h \in Handlers : Starter(h)'
    <3>1. Full(playerIDs)
      BY <2>6, RemoveNeverFills DEF CtxDone
    <3>2. PICK h \in Handlers : Starter(h)
      BY <3>1 DEF FullLobbyHasStarter
    <3> QED BY <2>6, <3>2 DEF CtxDone, Full
  <2>7. ASSUME /\ UNCHANGED <<playerIDs, snap>>
               /\ \A h \in Handlers :
                    pc[h] \in {"snapshot", "broadcast", "drain"} => pc'[h] = pc[h]
        PROVE  \E h \in Handlers : Starter(h)'
    <3>1. PICK h \in Handlers : Starter(h)
      BY <2>7 DEF FullLobbyHasStarter, Full
    <3> QED BY <2>7, <3>1 DEF Full
  <2>8. ASSUME NEW c \in Cancels, CancelBroadcast(c)
        PROVE  \E h \in Handlers : Starter(h)'
    BY <2>7, <2>8 DEF CancelBroadcast
  <2>9. ASSUME NEW g \in Handlers,
               \/ TakeUpdate(g) \/ SendUpdate(g) \/ SendFails(g)
               \/ ChannelClosed(g) \/ Disconnect(g)
        PROVE  \E h \in Handlers : Starter(h)'
    BY <2>7, <2>9 DEF TakeUpdate, SendUpdate, SendFails, ChannelClosed, Disconnect
  <2>10. CASE UNCHANGED vars
    BY <2>7, <2>10 DEF vars
  <2> QED
    BY <2>1, <2>2, <2>3, <2>4, <2>5, <2>6, <2>8, <2>9, <2>10
    DEF Next, HandlerStep, CancelStep
<1> QED BY <1>1, <1>2, InitLobby, NextLobby, PTL DEF Spec

-----------------------------------------------------------------------------
(* The invariant behind StartedAreDrained: a call that has not joined was told
   nothing, and one that returned without an error while still subscribed was
   told that the game is starting. *)
DrainPending == \E g \in Handlers : pc[g] = "drain"

StartInv ==
  \A h \in Handlers :
    /\ sub[h] = "none" => ~ToldToStart(h)
    /\ sub[h] = "open" /\ ToldToStart(h) => DrainPending
    /\ pc[h] = "ok" /\ sub[h] = "open" => ToldToStart(h)

(* A broadcast tells the subscribed calls what it says and the others nothing. *)
LEMMA BroadcastTells ==
  ASSUME LobbyInv, NEW u \in Update, broadcast(u), UNCHANGED last,
         NEW h \in Handlers
  PROVE  ToldToStart(h)' =>
           ToldToStart(h) \/ (u.starting /\ sub[h] = "open")
<1> USE DEF LobbyInv, TypeOK
<1>1. CASE chan'[h] = chan[h]
  BY <1>1 DEF ToldToStart
<1>2. CASE IsSubscribed(h) /\ chan'[h] = Append(chan[h], u)
  <2>1. chan[h] \in Seq(Update) /\ sub[h] = "open"
    BY <1>2 DEF SubscriptionsMatch
  <2>2. /\ Len(chan'[h]) = Len(chan[h]) + 1
        /\ \A i \in 1..Len(chan[h]) : chan'[h][i] = chan[h][i]
        /\ chan'[h][Len(chan[h]) + 1] = u
    BY <1>2, <2>1, AppendProperties
  <2>3. \A i \in 1..Len(chan'[h]) : i \in 1..Len(chan[h]) \/ i = Len(chan[h]) + 1
    BY <2>1, <2>2
  <2> QED BY <2>1, <2>2, <2>3 DEF ToldToStart
<1>3. chan'[h] = chan[h] \/ (IsSubscribed(h) /\ chan'[h] = Append(chan[h], u))
  BY DEF broadcast, IsSubscribed
<1> QED BY <1>1, <1>2, <1>3

(* Nothing that was said is unsaid by a broadcast. *)
LEMMA BroadcastKeeps ==
  ASSUME LobbyInv, NEW u \in Update, broadcast(u), UNCHANGED last,
         NEW h \in Handlers, ToldToStart(h)
  PROVE  ToldToStart(h)'
<1> USE DEF LobbyInv, TypeOK
<1>1. chan'[h] = chan[h] \/ chan'[h] = Append(chan[h], u)
  BY DEF broadcast
<1>2. chan[h] \in Seq(Update)
  OBVIOUS
<1>3. /\ Len(chan'[h]) >= Len(chan[h])
      /\ \A i \in 1..Len(chan[h]) : chan'[h][i] = chan[h][i]
      /\ Len(chan'[h]) \in Nat /\ Len(chan[h]) \in Nat
  <2>1. CASE chan'[h] = chan[h]
    BY <1>2, <2>1
  <2>2. CASE chan'[h] = Append(chan[h], u)
    BY <1>2, <2>2, AppendProperties
  <2> QED BY <1>1, <2>1, <2>2
<1>4. \A i \in 1..Len(chan[h]) : i \in 1..Len(chan'[h])
  BY <1>3
<1> QED BY <1>3, <1>4 DEF ToldToStart

(* A removal closes at most the channel it finds and changes no other. *)
LEMMA RemoveCloses ==
  ASSUME LobbyInv, NEW p \in Players, remove(p), NEW h \in Handlers
  PROVE  sub'[h] = sub[h] \/ sub'[h] = "removed"
  BY DEF LobbyInv, TypeOK, remove

LEMMA StartInductive == LobbyInv /\ StartInv /\ [Next]_vars => StartInv'
<1> SUFFICES ASSUME LobbyInv, StartInv, [Next]_vars PROVE StartInv'
  OBVIOUS
<1> USE LobbyAssumption DEF Goto, Actors, LobbyInv, TypeOK
<1>1. ASSUME NEW g \in Handlers, Join(g)
      PROVE  StartInv'
  <2>1. sub[g] = "none" /\ ~ToldToStart(g)
    BY <1>1 DEF Join, IdleIsFresh, StartInv
  <2>2. \A h \in Handlers : ToldToStart(h)' <=> ToldToStart(h)
    BY <1>1 DEF Join, ToldToStart
  <2>3. DrainPending => DrainPending'
    BY <1>1 DEF Join, DrainPending
  <2>4. \A h \in Handlers : h # g => sub'[h] = sub[h] /\ pc'[h] = pc[h]
    BY <1>1 DEF Join, add
  <2>5. sub'[g] = "open" /\ pc'[g] = "snapshot"
    BY <1>1 DEF Join, add
  <2> QED BY <2>1, <2>2, <2>3, <2>4, <2>5 DEF StartInv
<1>2. ASSUME /\ UNCHANGED <<chan, last>>
             /\ \A h \in Handlers :
                  /\ sub'[h] = sub[h] \/ sub'[h] = "removed"
                  /\ pc'[h] = "ok" => pc[h] = "ok" \/ sub[h] # "open"
                  /\ pc[h] = "drain" => pc'[h] = "drain"
      PROVE  StartInv'
  <2>1. \A h \in Handlers : ToldToStart(h)' <=> ToldToStart(h)
    BY <1>2 DEF ToldToStart
  <2>2. DrainPending => DrainPending'
    BY <1>2 DEF DrainPending
  <2> QED BY <1>2, <2>1, <2>2 DEF StartInv
<1>3. ASSUME NEW c \in Cancels, CancelJoin(c)
      PROVE  StartInv'
  <2>1. \A h \in Handlers : sub'[h] = sub[h] \/ sub'[h] = "removed"
    BY <1>3, RemoveCloses DEF CancelJoin
  <2> QED BY <1>2, <1>3, <2>1 DEF CancelJoin
<1>4. ASSUME NEW g \in Handlers, CtxDone(g)
      PROVE  StartInv'
  <2>1. \A h \in Handlers : sub'[h] = sub[h] \/ sub'[h] = "removed"
    BY <1>4, RemoveCloses DEF CtxDone
  <2> QED BY <1>2, <1>4, <2>1 DEF CtxDone
<1>5. ASSUME NEW a \in Actors, Snapshot(a)
      PROVE  StartInv'
  BY <1>2, <1>5 DEF Snapshot
<1>6. ASSUME NEW g \in Handlers, ChannelClosed(g)
      PROVE  StartInv'
  BY <1>2, <1>6 DEF ChannelClosed
<1>7. ASSUME NEW g \in Handlers, Disconnect(g)
      PROVE  StartInv'
  BY <1>2, <1>7 DEF Disconnect
<1>8. ASSUME NEW g \in Handlers, JoinBroadcast(g)
      PROVE  StartInv'
  <2> DEFINE u == [ready |-> snap[g], starting |-> Full(snap[g])]
  <2>1. u \in Update /\ u.starting = Full(snap[g])
    BY DEF Update, Full
  <2>2. broadcast(u) /\ UNCHANGED <<last, sub>>
    BY <1>8 DEF JoinBroadcast
  <2> HIDE DEF u
  <2>3. Full(snap[g]) => DrainPending'
    BY <1>8 DEF JoinBroadcast, DrainPending
  <2>4. DrainPending => DrainPending'
    BY <1>8 DEF JoinBroadcast, DrainPending
  <2>5. \A h \in Handlers : pc'[h] = "ok" => pc[h] = "ok"
    BY <1>8 DEF JoinBroadcast
  <2>6. \A h \in Handlers : ToldToStart(h) => ToldToStart(h)'
    BY <2>1, <2>2, BroadcastKeeps
  <2>7. \A h \in Handlers : ToldToStart(h)' =>
          ToldToStart(h) \/ (Full(snap[g]) /\ sub[h] = "open")
    BY <2>1, <2>2, BroadcastTells
  <2> QED BY <2>2, <2>3, <2>4, <2>5, <2>6, <2>7 DEF StartInv
<1>9. ASSUME NEW c \in Cancels, CancelBroadcast(c)
      PROVE  StartInv'
  <2> DEFINE u == [ready |-> snap[c], starting |-> FALSE]
  <2>1. u \in Update /\ ~u.starting
    BY DEF Update
  <2>2. broadcast(u) /\ UNCHANGED <<last, sub>>
    BY <1>9 DEF CancelBroadcast
  <2> HIDE DEF u
  <2>3. DrainPending => DrainPending'
    BY <1>9 DEF CancelBroadcast, DrainPending
  <2>4. \A h \in Handlers : pc'[h] = "ok" => pc[h] = "ok"
    BY <1>9 DEF CancelBroadcast
  <2>5. \A h \in Handlers : ToldToStart(h)' <=> ToldToStart(h)
    BY <2>1, <2>2, BroadcastKeeps, BroadcastTells
  <2> QED BY <2>2, <2>3, <2>4, <2>5 DEF StartInv
<1>10. ASSUME NEW g \in Handlers, Drain(g)
      PROVE  StartInv'
  <2>1. \A h \in Handlers : sub'[h] # "open" /\ (sub'[h] = "none" => sub[h] = "none")
    BY <1>10 DEF Drain, drain, SubscriptionsMatch, IsSubscribed
  <2>2. \A h \in Handlers : ToldToStart(h)' <=> ToldToStart(h)
    BY <1>10 DEF Drain, ToldToStart
  <2> QED BY <2>1, <2>2 DEF StartInv
<1>11. ASSUME NEW g \in Handlers, TakeUpdate(g)
      PROVE  StartInv'
  <2>1. /\ chan[g] \in Seq(Update) /\ chan[g] # <<>>
        /\ chan' = [chan EXCEPT ![g] = Tail(chan[g])]
        /\ last' = [last EXCEPT ![g] = Head(chan[g])]
        /\ sub' = sub
    BY <1>11 DEF TakeUpdate
  <2>2. /\ Head(chan[g]) = chan[g][1] /\ 1 \in 1..Len(chan[g])
        /\ \A i \in 1..Len(Tail(chan[g])) :
             /\ i + 1 \in 1..Len(chan[g])
             /\ Tail(chan[g])[i] = chan[g][i + 1]
    BY <2>1
  <2>3. \A h \in Handlers : ToldToStart(h)' => ToldToStart(h)
    BY <2>1, <2>2 DEF ToldToStart
  <2>4. ASSUME NEW h \in Handlers, h # g
        PROVE  (ToldToStart(h)' <=> ToldToStart(h)) /\ pc'[h] = pc[h]
    BY <1>11, <2>1, <2>4 DEF ToldToStart, TakeUpdate
  <2>5. pc'[g] # "ok"
    BY <1>11 DEF TakeUpdate
  <2>6. DrainPending => DrainPending'
    BY <1>11 DEF TakeUpdate, DrainPending
  <2> QED BY <2>1, <2>3, <2>4, <2>5, <2>6 DEF StartInv
<1>12. ASSUME NEW g \in Handlers, SendUpdate(g) \/ SendFails(g)
      PROVE  StartInv'
  <2>1. UNCHANGED <<chan, last, sub>>
    BY <1>12 DEF SendUpdate, SendFails
  <2>2. \A h \in Handlers : ToldToStart(h)' <=> ToldToStart(h)
    BY <2>1 DEF ToldToStart
  <2>3. pc'[g] = "ok" => ToldToStart(g)
    BY <1>12 DEF SendUpdate, SendFails, ToldToStart
  <2>4. \A h \in Handlers : h # g => pc'[h] = pc[h]
    BY <1>12 DEF SendUpdate, SendFails
  <2>5. DrainPending => DrainPending'
    BY <1>12 DEF SendUpdate, SendFails, DrainPending
  <2> QED BY <2>1, <2>2, <2>3, <2>4, <2>5 DEF StartInv
<1>13. CASE UNCHANGED vars
  BY <1>2, <1>13 DEF vars
<1> QED
  BY <1>1, <1>3, <1>4, <1>5, <1>6, <1>7, <1>8, <1>9, <1>10, <1>11, <1>12, <1>13
  DEF Next, HandlerStep, CancelStep

(* A player who has been told that a game starts is not kept for another one:
   whoever said so, or somebody else, is about to empty the lobby.  The same
   holds of a player whose call has returned without an error. *)
THEOREM StartedPlayersAreDrained == Spec => [](StartedAreDrained /\ NoGhostAfterOk)
<1>1. Init => StartInv
  BY DEF Init, StartInv, ToldToStart, NoUpdate
<1>2. StartInv => StartedAreDrained /\ NoGhostAfterOk
  BY DEF StartInv, StartedAreDrained, NoGhostAfterOk, DrainPending
<1> QED BY <1>1, <1>2, InitLobby, NextLobby, StartInductive, PTL DEF Spec

-----------------------------------------------------------------------------
(* Somebody who drains saw a full lobby in its own snapshot. *)
DrainSawFull == \A g \in Handlers : pc[g] = "drain" => Full(snap[g])

(* No step closes a bystander's channel: a removal is a call of the same player
   and a drain is made by a call that saw the lobby full. *)
THEOREM NoBystanderIsClosed == Spec => EndsForAReason
<1> DEFINE Reason(h) ==
      \/ /\ sub'[h] = "removed"
         /\ \E a \in Actors : player[a] = player[h] /\ pc'[a] # pc[a]
      \/ /\ sub'[h] = "drained"
         /\ \E g \in Handlers : pc[g] = "drain" /\ Full(snap[g])
<1> USE LobbyAssumption DEF Goto, Actors
<1>1. Init => DrainSawFull
  BY DEF Init, DrainSawFull
<1>2. LobbyInv /\ DrainSawFull /\ [Next]_vars => DrainSawFull'
  <2> SUFFICES ASSUME LobbyInv, DrainSawFull, [Next]_vars,
                      NEW g \in Handlers, pc'[g] = "drain"
               PROVE  Full(snap'[g])
    BY DEF DrainSawFull, Full
  <2> USE DEF LobbyInv, TypeOK, DrainSawFull
  <2>1. CASE pc[g] = "drain" /\ snap'[g] = snap[g]
    BY <2>1 DEF Full
  <2>2. CASE JoinBroadcast(g)
    BY <2>2 DEF JoinBroadcast, Full
  <2>3. JoinBroadcast(g) \/ (pc[g] = "drain" /\ snap'[g] = snap[g])
    BY DEF Next, HandlerStep, CancelStep, vars, Join, CancelJoin, Snapshot,
           JoinBroadcast, CancelBroadcast, Drain, TakeUpdate, SendUpdate,
           SendFails, ChannelClosed, CtxDone, Disconnect
  <2> QED BY <2>1, <2>2, <2>3
<1>3. ASSUME LobbyInv, DrainSawFull, Next,
             NEW h \in Handlers, sub[h] = "open", sub'[h] # "open"
      PROVE  Reason(h)
  <2> USE DEF LobbyInv, TypeOK
  <2>1. ASSUME NEW a \in Actors, remove(player[a]), pc'[a] # pc[a]
        PROVE  Reason(h)
    <3>1. PICK i \in 1..Len(playerIDs) :
            /\ playerIDs[i] = player[a]
            /\ sub' = [sub EXCEPT ![subs[i]] = "removed"]
      BY <1>3, <2>1 DEF remove, IsFirst
    <3>2. subs[i] = h /\ sub'[h] = "removed"
      BY <1>3, <3>1 DEF SubscriptionsMatch
    <3>3. i \in 1..Len(subs) /\ player[h] = player[a]
      BY <1>3, <3>1, <3>2 DEF SubscriptionsMatch
    <3>4. \E b \in Actors : player[b] = player[h] /\ pc'[b] # pc[b]
      BY <2>1, <3>3
    <3> QED BY <3>2, <3>4
  <2>2. ASSUME NEW g \in Handlers, Drain(g)
        PROVE  Reason(h)
    BY <1>3, <2>2 DEF Drain, drain, DrainSawFull
  <2>3. CASE UNCHANGED sub
    BY <1>3, <2>3
  <2>4. ASSUME NEW g \in Handlers, Join(g)
        PROVE  Reason(h)
    BY <1>3, <2>4 DEF Join, add
  <2>5. ASSUME NEW c \in Cancels, CancelJoin(c)
        PROVE  Reason(h)
    <3>1. c \in Actors /\ remove(player[c]) /\ pc'[c] # pc[c]
      BY <1>3, <2>5 DEF CancelJoin, Waiting, Returned
    <3> HIDE DEF Reason
    <3> QED BY <2>1, <3>1
  <2>6. ASSUME NEW g \in Handlers, CtxDone(g)
        PROVE  Reason(h)
    <3>1. g \in Actors /\ remove(player[g]) /\ pc'[g] # pc[g]
      BY <1>3, <2>6 DEF CtxDone, Waiting, Returned
    <3> HIDE DEF Reason
    <3> QED BY <2>1, <3>1
  <2> HIDE DEF Reason
  <2> QED
    BY <1>3, <2>2, <2>3, <2>4, <2>5, <2>6
    DEF Next, HandlerStep, CancelStep, Snapshot, JoinBroadcast,
        CancelBroadcast, TakeUpdate, SendUpdate, SendFails, ChannelClosed,
        Disconnect
<1>4. ASSUME LobbyInv, DrainSawFull, [Next]_vars
      PROVE  [\A h \in Handlers : sub[h] = "open" /\ sub'[h] # "open" => Reason(h)]_vars
  BY <1>3, <1>4
<1> QED
  BY <1>1, <1>2, <1>4, InitLobby, NextLobby, PTL DEF Spec, EndsForAReason

=============================================================================
