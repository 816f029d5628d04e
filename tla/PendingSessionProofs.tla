------------------------ MODULE PendingSessionProofs ------------------------
(***************************************************************************)
(* Theorems about PendingSession, for any number of streams and players.   *)
(***************************************************************************)
EXTENDS PendingSession, FiniteSetTheorems, TLAPS

LEMMA OneElement ==
  ASSUME NEW s
  PROVE  <<s>> # <<>> /\ Head(<<s>>) = s /\ Tail(<<s>>) = <<>>
         /\ \A t : <<s>> = <<t>> => s = t
  OBVIOUS

LEMMA InitTypes == Init => TypeOK
  BY DEF Init, TypeOK

LEMMA NextTypes == TypeOK /\ [Next]_vars => TypeOK'
<1> SUFFICES ASSUME TypeOK, [Next]_vars PROVE TypeOK'
  OBVIOUS
<1> USE DEF TypeOK, Goto, handlers, entry, Returned
<1>1. CASE PreRegisterSession
  BY <1>1 DEF PreRegisterSession
<1>2. ASSUME NEW s \in Streams, Lookup(s)
      PROVE  TypeOK'
  BY <1>2 DEF Lookup
<1>3. ASSUME NEW s \in Streams, Deliver(s)
      PROVE  TypeOK'
  BY <1>3 DEF Deliver
<1>4. ASSUME NEW s \in Streams, Start(s)
      PROVE  TypeOK'
  BY <1>4 DEF Start
<1>5. ASSUME NEW s \in Streams, Wait(s) \/ Disconnect(s)
      PROVE  TypeOK'
  BY <1>5 DEF Wait, Disconnect
<1>6. CASE \E p \in PlayerIDs : Await(p)
  BY <1>6 DEF Await
<1>7. CASE Collect
  <2>1. PICK s \in Streams : adapters[awaited] = <<s>>
    BY <1>7, PendingAssumption DEF Collect
  <2>2. /\ players' = [players EXCEPT ![awaited] = s]
        /\ adapters' = [adapters EXCEPT ![awaited] = <<>>]
        /\ awaited' = None
        /\ UNCHANGED <<registered, handlers, ctx, starter, collector, runErr>>
    BY <1>7, <2>1, OneElement DEF Collect
  <2> QED BY <2>2
<1>8. CASE GiveUp \/ Run
  BY <1>8 DEF GiveUp, Run
<1>9. CASE RunEnds
  BY <1>9 DEF RunEnds
<1>10. CASE UNCHANGED vars
  BY <1>10 DEF vars
<1> QED
  BY <1>1, <1>2, <1>3, <1>4, <1>5, <1>6, <1>7, <1>8, <1>9, <1>10
  DEF Next, HandlerStep, CollectorStep

(* The variables of PendingSession have their types. *)
THEOREM PendingTypes == Spec => []TypeOK
  BY InitTypes, NextTypes, PTL DEF Spec

-----------------------------------------------------------------------------
(* What makes the invariant inductive: the collector waits only for a player it
   has no adapter of, and there is no collector before there is a starter. *)
OwnPlace ==
  \A s \in Streams, p \in PlayerIDs :
    adapters[p] = <<s>> \/ players[p] = s => playerID[s] = p /\ Delivered(s)

OnePlace ==
  \A s \in Streams : Delivered(s) =>
    /\ playerID[s] \in PlayerIDs
    /\ adapters[playerID[s]] = <<s>> \/ players[playerID[s]] = s
    /\ ~(adapters[playerID[s]] = <<s>> /\ players[playerID[s]] = s)

CollectorInv ==
  /\ awaited # None => players[awaited] = None
  /\ starter = None => collector = "none"
  /\ \A s \in Streams : pc[s] = "deliver" => playerID[s] \in PlayerIDs

PlaceInv == OwnPlace /\ OnePlace /\ CollectorInv

LEMMA InitPlace == Init => PlaceInv
<1> SUFFICES ASSUME Init PROVE PlaceInv
  OBVIOUS
<1>1. \A s \in Streams, p \in PlayerIDs : adapters[p] # <<s>> /\ players[p] # s
  BY OneElement, PendingAssumption DEF Init
<1>2. \A s \in Streams : ~Delivered(s)
  BY DEF Init, Delivered
<1> QED
  BY <1>1, <1>2 DEF Init, PlaceInv, OwnPlace, OnePlace, CollectorInv

(* A step that moves no adapter and delivers none keeps both places. *)
LEMMA SamePlace ==
  ASSUME PlaceInv, UNCHANGED <<adapters, players, playerID>>,
         \A s \in Streams : Delivered(s)' <=> Delivered(s)
  PROVE  OwnPlace' /\ OnePlace'
  BY DEF PlaceInv, OwnPlace, OnePlace

LEMMA DeliverPlaces ==
  ASSUME TypeOK, PlaceInv, NEW s \in Streams, Deliver(s)
  PROVE  PlaceInv'
<1>1. /\ pc[s] = "deliver" /\ adapters[playerID[s]] = <<>>
      /\ adapters' = [adapters EXCEPT ![playerID[s]] = <<s>>]
      /\ pc' = [pc EXCEPT ![s] = "once"]
      /\ UNCHANGED <<playerID, starter, collector, awaited, players>>
  BY DEF Deliver, Goto
<1>2. playerID[s] \in PlayerIDs
  BY <1>1 DEF PlaceInv, CollectorInv
<1>3. \A t \in Streams : Delivered(t)' <=> Delivered(t) \/ t = s
  BY <1>1 DEF Delivered, TypeOK
<1>4. ~Delivered(s) /\ \A p \in PlayerIDs : players[p] # s
  BY <1>1 DEF Delivered, PlaceInv, OwnPlace
<1>5. \A t \in Streams, p \in PlayerIDs :
        adapters'[p] = <<t>> <=>
          (p = playerID[s] /\ t = s) \/ (p # playerID[s] /\ adapters[p] = <<t>>)
  BY <1>1, <1>2, OneElement DEF TypeOK
<1>6. OwnPlace'
  BY <1>1, <1>3, <1>5 DEF PlaceInv, OwnPlace
<1>7. OnePlace'
  <2> SUFFICES ASSUME NEW t \in Streams, Delivered(t)'
               PROVE  /\ playerID[t] \in PlayerIDs
                      /\ adapters'[playerID[t]] = <<t>> \/ players[playerID[t]] = t
                      /\ ~(adapters'[playerID[t]] = <<t>> /\ players[playerID[t]] = t)
    BY <1>1 DEF OnePlace
  <2>1. CASE t = s
    BY <2>1, <1>2, <1>4, <1>5
  <2>2. CASE t # s
    <3>1. Delivered(t)
      BY <1>3, <2>2
    <3>2. /\ playerID[t] \in PlayerIDs
          /\ adapters[playerID[t]] = <<t>> \/ players[playerID[t]] = t
          /\ ~(adapters[playerID[t]] = <<t>> /\ players[playerID[t]] = t)
      BY <3>1 DEF PlaceInv, OnePlace
    <3>3. playerID[t] = playerID[s] => adapters[playerID[t]] # <<t>>
      BY <1>1, OneElement
    <3> QED BY <1>5, <2>2, <3>2, <3>3
  <2> QED BY <2>1, <2>2
<1>8. CollectorInv'
  BY <1>1 DEF PlaceInv, CollectorInv, TypeOK
<1> QED BY <1>6, <1>7, <1>8 DEF PlaceInv

LEMMA CollectPlaces ==
  ASSUME TypeOK, PlaceInv, Collect
  PROVE  PlaceInv' /\ \A p \in PlayerIDs : players[p] # None => players'[p] = players[p]
<1>1. awaited \in PlayerIDs /\ players[awaited] = None
  BY DEF Collect, TypeOK, PlaceInv, CollectorInv
<1>2. PICK s \in Streams : adapters[awaited] = <<s>>
  BY <1>1 DEF Collect, TypeOK
<1>3. /\ players' = [players EXCEPT ![awaited] = s]
      /\ adapters' = [adapters EXCEPT ![awaited] = <<>>]
      /\ awaited' = None
      /\ UNCHANGED <<playerID, pc, starter, collector>>
  BY <1>2, OneElement DEF Collect, handlers
<1>4. \A t \in Streams : Delivered(t)' <=> Delivered(t)
  BY <1>3 DEF Delivered
<1>5. playerID[s] = awaited /\ Delivered(s)
  BY <1>1, <1>2 DEF PlaceInv, OwnPlace
<1>6. \A t \in Streams, p \in PlayerIDs :
        /\ adapters'[p] = <<t>> <=> p # awaited /\ adapters[p] = <<t>>
        /\ players'[p] = t <=>
             (p = awaited /\ t = s) \/ (p # awaited /\ players[p] = t)
  BY <1>1, <1>3, OneElement DEF TypeOK
<1>7. OwnPlace'
  BY <1>3, <1>4, <1>5, <1>6 DEF PlaceInv, OwnPlace
<1>8. OnePlace'
  <2> SUFFICES ASSUME NEW t \in Streams, Delivered(t)
               PROVE  /\ playerID[t] \in PlayerIDs
                      /\ adapters'[playerID[t]] = <<t>> \/ players'[playerID[t]] = t
                      /\ ~(adapters'[playerID[t]] = <<t>> /\ players'[playerID[t]] = t)
    BY <1>3, <1>4 DEF OnePlace
  <2>1. /\ playerID[t] \in PlayerIDs
        /\ adapters[playerID[t]] = <<t>> \/ players[playerID[t]] = t
        /\ ~(adapters[playerID[t]] = <<t>> /\ players[playerID[t]] = t)
    BY DEF PlaceInv, OnePlace
  <2>2. playerID[t] = awaited => t = s
    BY <1>1, <1>2, <2>1, OneElement, PendingAssumption
  <2> QED BY <1>5, <1>6, <2>1, <2>2
<1>9. CollectorInv'
  BY <1>3 DEF PlaceInv, CollectorInv
<1>10. \A p \in PlayerIDs : players[p] # None => players'[p] = players[p]
  BY <1>1, <1>3 DEF TypeOK
<1> QED BY <1>7, <1>8, <1>9, <1>10 DEF PlaceInv

RunsOnceStep ==
  /\ collector \in {"run", "done"} => collector' \in {"run", "done"}
  /\ \A p \in PlayerIDs : players[p] # None => players'[p] = players[p]

LEMMA NextPlace ==
  TypeOK /\ PlaceInv /\ [Next]_vars => PlaceInv' /\ RunsOnceStep
<1> SUFFICES ASSUME TypeOK, PlaceInv, [Next]_vars
             PROVE  PlaceInv' /\ RunsOnceStep
  OBVIOUS
<1>1. ASSUME UNCHANGED <<adapters, players, playerID>>,
             \A s \in Streams : Delivered(s)' <=> Delivered(s),
             CollectorInv',
             collector \in {"run", "done"} => collector' \in {"run", "done"}
      PROVE  PlaceInv' /\ RunsOnceStep
  BY <1>1, SamePlace DEF PlaceInv, RunsOnceStep
<1> USE DEF Goto, handlers, entry, Delivered, CollectorInv
<1>2. CASE PreRegisterSession
  BY <1>1, <1>2 DEF PreRegisterSession, PlaceInv
<1>3. ASSUME NEW s \in Streams, Lookup(s)
      PROVE  PlaceInv' /\ RunsOnceStep
  <2>1. /\ pc[s] = "idle"
        /\ \/ playerID[s] \in PlayerIDs /\ pc' = [pc EXCEPT ![s] = "deliver"]
           \/ pc' = [pc EXCEPT ![s] = "solo"]
           \/ pc' = [pc EXCEPT ![s] = "invalid"]
        /\ UNCHANGED <<playerID, entry>>
    BY <1>3 DEF Lookup
  <2>2. CollectorInv'
    BY <2>1 DEF TypeOK, PlaceInv
  <2>3. \A t \in Streams : Delivered(t)' <=> Delivered(t)
    BY <2>1 DEF TypeOK
  <2> QED BY <1>1, <2>1, <2>2, <2>3
<1>4. ASSUME NEW s \in Streams, Deliver(s)
      PROVE  PlaceInv' /\ RunsOnceStep
  BY <1>4, DeliverPlaces DEF Deliver, RunsOnceStep
<1>5. ASSUME NEW s \in Streams, Start(s)
      PROVE  PlaceInv' /\ RunsOnceStep
  <2>1. /\ pc[s] = "once" /\ pc' = [pc EXCEPT ![s] = "wait"]
        /\ UNCHANGED <<playerID, adapters, awaited, players>>
        /\ \/ starter = None /\ starter' = s /\ collector' = "collect"
           \/ starter # None /\ UNCHANGED <<starter, collector>>
    BY <1>5 DEF Start
  <2>2. CollectorInv'
    BY <2>1, PendingAssumption DEF TypeOK, PlaceInv
  <2>3. \A t \in Streams : Delivered(t)' <=> Delivered(t)
    BY <2>1 DEF TypeOK
  <2>4. collector \in {"run", "done"} => collector' \in {"run", "done"}
    BY <2>1 DEF PlaceInv
  <2> QED BY <1>1, <2>1, <2>2, <2>3, <2>4
<1>6. ASSUME NEW s \in Streams, Wait(s) \/ Disconnect(s)
      PROVE  PlaceInv' /\ RunsOnceStep
  <2>1. /\ UNCHANGED <<playerID, entry>>
        /\ \/ UNCHANGED pc
           \/ /\ pc[s] = "wait"
              /\ \E label \in {"over", "cancelled"} : pc' = [pc EXCEPT ![s] = label]
    BY <1>6 DEF Wait, Disconnect
  <2>2. CollectorInv'
    BY <2>1 DEF TypeOK, PlaceInv
  <2>3. \A t \in Streams : Delivered(t)' <=> Delivered(t)
    BY <2>1 DEF TypeOK
  <2> QED BY <1>1, <2>1, <2>2, <2>3
<1>7. CASE \E p \in PlayerIDs : Await(p)
  <2>1. /\ UNCHANGED <<handlers, adapters, starter, collector, players>>
        /\ awaited' \in PlayerIDs /\ players[awaited'] = None
    BY <1>7 DEF Await, Missing
  <2> QED BY <1>1, <2>1 DEF PlaceInv
<1>8. CASE Collect
  BY <1>8, CollectPlaces DEF Collect, RunsOnceStep
<1>9. CASE GiveUp \/ Run \/ RunEnds
  <2>1. /\ UNCHANGED <<handlers, adapters, starter, awaited, players>>
        /\ collector' \in {"run", "done"} /\ collector # "none"
    BY <1>9 DEF GiveUp, Run, RunEnds
  <2> QED BY <1>1, <2>1 DEF PlaceInv
<1>10. CASE UNCHANGED vars
  BY <1>1, <1>10 DEF vars, PlaceInv
<1> QED
  BY <1>2, <1>3, <1>4, <1>5, <1>6, <1>7, <1>8, <1>9, <1>10
  DEF Next, HandlerStep, CollectorStep

(* An adapter that was delivered waits in its player's channel or plays for that
   player, never both, and none is lost: nobody else takes it, and the collector
   replaces no adapter it has. *)
THEOREM AdaptersInOnePlace == Spec => []AdapterInOnePlace
<1>1. TypeOK /\ PlaceInv => AdapterInOnePlace
  <2> SUFFICES ASSUME TypeOK, PlaceInv, NEW s \in Streams
               PROVE
                 /\ Delivered(s) =>
                      Cardinality(Holder(s)) + Cardinality(Playing(s)) = 1
                 /\ ~Delivered(s) => Holder(s) = {} /\ Playing(s) = {}
                 /\ Holder(s) \cup Playing(s) \subseteq {playerID[s]}
    BY DEF AdapterInOnePlace
  <2>1. Holder(s) \subseteq {playerID[s]} /\ Playing(s) \subseteq {playerID[s]}
    BY DEF PlaceInv, OwnPlace, Holder, Playing
  <2>2. ~Delivered(s) => Holder(s) = {} /\ Playing(s) = {}
    BY DEF PlaceInv, OwnPlace, Holder, Playing
  <2>3. ASSUME Delivered(s)
        PROVE  \/ Holder(s) = {playerID[s]} /\ Playing(s) = {}
               \/ Holder(s) = {} /\ Playing(s) = {playerID[s]}
    BY <2>1, <2>3 DEF PlaceInv, OnePlace, Holder, Playing
  <2>4. Cardinality({}) = 0 /\ Cardinality({playerID[s]}) = 1
    BY FS_EmptySet, FS_Singleton
  <2>5. Delivered(s) => Cardinality(Holder(s)) + Cardinality(Playing(s)) = 1
    BY <2>3, <2>4
  <2> QED BY <2>1, <2>2, <2>5
<1> QED BY <1>1, InitTypes, NextTypes, InitPlace, NextPlace, PTL DEF Spec

(* The session runs once, with the adapters that were collected for it. *)
THEOREM SessionsRunOnce == Spec => RunsOnce
<1>1. RunsOnceStep =>
        [/\ collector \in {"run", "done"} => collector' \in {"run", "done"}
         /\ \A p \in PlayerIDs : players[p] # None => players'[p] = players[p]]_vars
  BY DEF RunsOnceStep
<1> QED
  BY <1>1, InitTypes, NextTypes, InitPlace, NextPlace, PTL DEF Spec, RunsOnce
=============================================================================
