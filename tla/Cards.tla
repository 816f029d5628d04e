------------------------------- MODULE Cards --------------------------------
(***************************************************************************)
(* A deck and the hands it is dealt to (pkg/components/cards/cards.go),    *)
(* used by one goroutine.  A card is its ID.  What Deal and Remove return  *)
(* lies on the table until the game adds it to a hand.                     *)
(***************************************************************************)
EXTENDS Integers, SequencesExt

CONSTANTS
  DeckSize,  \* number of cards given to NewDeck
  Owners,    \* whose hands there are
  MaxCards,  \* bound on the copies in play: Reset does not take cards back
  MaxRounds  \* bound on the cards each hand is dealt by one DealTo

ASSUME CardsAssumption ==
  DeckSize \in Nat /\ MaxCards \in Nat /\ MaxRounds \in Nat /\ IsFiniteSet(Owners)

Original == [i \in 1..DeckSize |-> i]

VARIABLES
  deck,   \* d.cards; its first element is the top
  hands,  \* hands[o]: the Cards of o's hand
  table,  \* history: cards returned to the caller and not yet added to a hand
  did     \* history: the last call, its hands, its n, and whether it returned nil

cardsVars == <<deck, hands, table, did>>

Ops == {"new", "shuffle", "reset", "deal", "dealTo", "add", "remove"}

CardsTypeOK ==
  /\ deck \in Seq(1..DeckSize) /\ Len(deck) <= DeckSize
  /\ hands \in [Owners -> Seq(1..DeckSize)]
  /\ table \in Seq(1..DeckSize)
  /\ did \in [op : Ops, to : Seq(Owners), n : Nat, ok : BOOLEAN]

Call(op, to, n, ok) == did' = [op |-> op, to |-> to, n |-> n, ok |-> ok]

(* NewDeck copies its argument twice: a later Reset does not see what was
   done to the deck. *)
CardsInit ==
  /\ deck = Original
  /\ hands = [o \in Owners |-> <<>>]
  /\ table = <<>>
  /\ did = [op |-> "new", to |-> <<>>, n |-> 0, ok |-> TRUE]

-----------------------------------------------------------------------------
(* Faulty: rng.Intn(i) instead of rng.Intn(i + 1). *)
DrawsBelow(n) == {draw \in [2..n -> 1..n] : \A i \in 2..n : draw[i] < i}

(* What rng.Intn may return in each round of the loop, counted from 1. *)
Draws(n) == {draw \in [2..n -> 1..n] : \A i \in 2..n : draw[i] <= i}

Swap(s, i, j) == [s EXCEPT ![i] = s[j], ![j] = s[i]]

(* The loop of Shuffle, from the last position down to the second; round[i] is
   what it has made of s when position i is next. *)
Shuffled(s, draw) ==
  LET round[i \in 1..Len(s)] ==
        IF i = Len(s) THEN s ELSE Swap(round[i + 1], i + 1, draw[i + 1])
  IN IF s = <<>> THEN s ELSE round[1]

Shuffle ==
  /\ \E draw \in Draws(Len(deck)) : deck' = Shuffled(deck, draw)
  /\ Call("shuffle", <<>>, 0, TRUE)
  /\ UNCHANGED <<hands, table>>

(* The bound on the copies. *)
MayReset ==
  DeckSize + Len(table) + MapThenSumSet(LAMBDA o : Len(hands[o]), Owners) <= MaxCards

Reset ==
  /\ MayReset
  /\ deck' = Original
  /\ Call("reset", <<>>, 0, TRUE)
  /\ UNCHANGED <<hands, table>>

(* Too few cards: an error, and the deck is as it was. *)
Deal(n) ==
  /\ Call("deal", <<>>, n, n <= Len(deck))
  /\ IF n <= Len(deck)
       THEN /\ table' = table \o SubSeq(deck, 1, n)
            /\ deck' = SubSeq(deck, n + 1, Len(deck))
       ELSE UNCHANGED <<deck, table>>
  /\ UNCHANGED hands

(* One round of the inner loop of DealTo: Deal(1), whose error is dropped, and Add. *)
DealOne(dh, o) ==
  IF dh.deck = <<>> THEN dh
  ELSE [deck |-> Tail(dh.deck), hands |-> [dh.hands EXCEPT ![o] = Append(@, Head(dh.deck))]]

(* Faulty: one round is checked, not all of them. *)
EnoughForARound(to, n) == Len(to) <= Len(deck)

Enough(to, n) == n * Len(to) <= Len(deck)

(* The two loops of DealTo, over the rounds and in each over the hands. *)
Dealt(to, n) ==
  LET after[m \in 0..n * Len(to)] ==
        IF m = 0 THEN [deck |-> deck, hands |-> hands]
                 ELSE DealOne(after[m - 1], to[((m - 1) % Len(to)) + 1])
  IN after[n * Len(to)]

(* All is checked beforehand, so that no hand is left short. *)
DealTo(to, n) ==
  /\ Call("dealTo", to, n, Enough(to, n))
  /\ IF Enough(to, n) THEN deck' = Dealt(to, n).deck /\ hands' = Dealt(to, n).hands
                      ELSE UNCHANGED <<deck, hands>>
  /\ UNCHANGED table

(* The game adds what it holds to a hand. *)
HandAdd(o) ==
  /\ table # <<>>
  /\ hands' = [hands EXCEPT ![o] = @ \o table]
  /\ table' = <<>>
  /\ Call("add", <<o>>, 0, TRUE)
  /\ UNCHANGED deck

(* The first card with that ID; none is an error. *)
HandRemove(o, c) ==
  LET found == Contains(hands[o], c)
  IN /\ Call("remove", <<o>>, c, found)
     /\ IF found THEN /\ hands' = [hands EXCEPT ![o] = RemoveFirst(@, c)]
                      /\ table' = Append(table, c)
                 ELSE UNCHANGED <<hands, table>>
     /\ UNCHANGED deck

CardsNext ==
  \/ Shuffle
  \/ Reset
  \/ \E n \in 0..DeckSize : Deal(n)
  \/ \E to \in SetToAllKPermutations(Owners), n \in 0..MaxRounds : DealTo(to, n)
  \/ \E o \in Owners : HandAdd(o)
  \/ \E o \in Owners, c \in 1..DeckSize : HandRemove(o, c)

CardsSpec == CardsInit /\ [][CardsNext]_cardsVars

-----------------------------------------------------------------------------
Copies(s, c) == Cardinality({i \in DOMAIN s : s[i] = c})

(* Where c is in the hands. *)
Held(c) == UNION {{o} \X {i \in DOMAIN hands[o] : hands[o][i] = c} : o \in Owners}

InPlay(c) == Copies(deck, c) + Copies(table, c) + Cardinality(Held(c))

(* Round by round: the r-th card of the k-th hand was at position
   (r - 1) * hands + k; a request the deck cannot satisfy gives nobody anything. *)
InTurn(to, n, ok) ==
  LET width == Len(to)
      rounds == IF ok THEN n ELSE 0
  IN /\ rounds * width <= Len(deck)
     /\ \A k \in 1..width :
          hands'[to[k]] = hands[to[k]] \o [r \in 1..rounds |-> deck[(r - 1) * width + k]]

DealtFairly ==
  /\ did'.op # "reset" => \A c \in 1..DeckSize : InPlay(c)' = InPlay(c)
  /\ did'.op = "dealTo" => InTurn(did'.to, did'.n, did'.ok)

(* Every call but Reset moves each card from one place to another and loses or
   doubles none, and DealTo deals as at a table: one card at a time in the order
   of the hands. *)
CardsAreDealt == [][DealtFairly]_cardsVars

(* Shuffle is unbiased: its n! sequences of draws reach each of the n! orders
   of the cards, so each order comes from one of them. *)
ShuffleIsUnbiased ==
  LET orders == {Shuffled(deck, draw) : draw \in Draws(Len(deck))}
  IN /\ CardsTypeOK
     /\ orders = {[i \in DOMAIN deck |-> deck[p[i]]] : p \in Bijection(DOMAIN deck, DOMAIN deck)}
     /\ Cardinality(Draws(Len(deck))) = Cardinality(Bijection(DOMAIN deck, DOMAIN deck))
=============================================================================
