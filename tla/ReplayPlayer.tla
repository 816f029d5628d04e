---------------------------- MODULE ReplayPlayer ----------------------------
(***************************************************************************)
(* ReplayPlayer of the web client (clients/ts-web/src/replay.ts): one      *)
(* JavaScript thread, on which timers fire and callbacks call play() and   *)
(* stop().  Each play() makes a chain of ticks with an index of its own;   *)
(* timerId remembers one timer only.                                       *)
(***************************************************************************)
EXTENDS Naturals, FiniteSets, FiniteSetsExt

CONSTANTS
  MaxEntries,  \* bound on the length of a replay
  MaxTimers    \* bound on the timers that are pending at a time

ASSUME PlayerAssumption == MaxEntries \in Nat /\ MaxTimers \in Nat \ {0}

Null == 0
Idle == MaxEntries
Completing == MaxEntries + 1

VARIABLES
  entries,    \* this.entries.length
  timerId,
  timers,     \* pending timers and the index their chain has reached
  callback,   \* an index: in onEntry for it; or Completing, or Idle: in none
  shown,      \* history: entries shown since play() in order, from index 0
  completed,  \* history: onComplete was called since play()
  quiet,      \* history: stop() was called since play(), and not from onEntry
  tangled     \* history: onEntry called play() or stop(), and its chain may live

playerVars == <<entries, timerId, timers, callback, shown, completed, quiet, tangled>>

Ids == 1..MaxTimers + 2

PlayerTypeOK ==
  /\ entries \in 0..MaxEntries
  /\ timerId \in Ids \cup {Null}
  /\ timers \subseteq [id : Ids, index : 0..MaxEntries] /\ \A t \in timers : t.index < entries
  /\ Cardinality({t.id : t \in timers}) = Cardinality(timers)
  /\ callback \in 0..Completing
  /\ shown \in 0..MaxEntries
  /\ completed \in BOOLEAN /\ quiet \in BOOLEAN /\ tangled \in BOOLEAN

PlayerInit ==
  /\ entries \in 0..MaxEntries
  /\ timerId = Null /\ timers = {} /\ callback = Idle
  /\ shown = 0 /\ completed = FALSE /\ quiet = TRUE /\ tangled = FALSE

Showing == callback < Idle

(* clearTimeout of a timer that fired already does nothing. *)
Cleared == {t \in timers : t.id # timerId}

(* setTimeout(tick, speedMs); ids are unique among those still known. *)
SetTimeout(pending, index) ==
  LET id == Min(Ids \ ({t.id : t \in pending} \cup {timerId}))
  IN timerId' = id /\ timers' = pending \cup {[id |-> id, index |-> index]}

-----------------------------------------------------------------------------
(* Faulty: play() does not stop what is playing. *)
PlayOnTop ==
  /\ Cardinality(timers) < MaxTimers
  /\ IF entries = 0
       THEN /\ callback' = IF callback = Idle THEN Completing ELSE callback
            /\ UNCHANGED <<timerId, timers>>
       ELSE SetTimeout(timers, 0) /\ UNCHANGED callback
  /\ shown' = 0 /\ completed' = (entries = 0) /\ quiet' = FALSE
  /\ tangled' = (Showing \/ (tangled /\ Cleared # {}))
  /\ UNCHANGED entries

(* play(), from outside or from a callback: stop(), then the first timer, or
   onComplete at once. *)
Play ==
  /\ Cardinality(timers) < MaxTimers
  /\ IF entries = 0
       THEN /\ callback' = IF callback = Idle THEN Completing ELSE callback
            /\ timerId' = Null /\ timers' = Cleared
       ELSE SetTimeout(Cleared, 0) /\ UNCHANGED callback
  /\ shown' = 0 /\ completed' = (entries = 0) /\ quiet' = FALSE
  /\ tangled' = (Showing \/ (tangled /\ Cleared # {}))
  /\ UNCHANGED entries

(* stop(), from outside or from a callback *)
Stop ==
  /\ timerId' = Null /\ timers' = Cleared
  /\ quiet' = ~Showing
  /\ tangled' = (tangled \/ Showing)
  /\ UNCHANGED <<entries, callback, shown, completed>>

(* Faulty: tick does not look at timerId. *)
TickBlind ==
  \E t \in timers :
    /\ callback = Idle
    /\ timers' = timers \ {t}
    /\ callback' = t.index
    /\ shown' = IF t.index = shown THEN shown + 1 ELSE shown
    /\ UNCHANGED <<entries, timerId, completed, quiet, tangled>>

(* A timer fires: tick returns at once if nothing is to be played, else it
   calls onEntry. *)
Tick ==
  \E t \in timers :
    /\ callback = Idle
    /\ timers' = timers \ {t}
    /\ IF timerId = Null
         THEN UNCHANGED <<callback, shown>>
         ELSE /\ callback' = t.index
              /\ shown' = IF t.index = shown THEN shown + 1 ELSE shown
    /\ UNCHANGED <<entries, timerId, completed, quiet, tangled>>

(* onEntry returns and tick goes on, whatever onEntry called: the next timer,
   or onComplete. *)
EntryShown ==
  /\ Showing
  /\ IF callback + 1 < entries
       THEN SetTimeout(timers, callback + 1) /\ callback' = Idle /\ UNCHANGED completed
       ELSE timerId' = Null /\ callback' = Completing /\ completed' = TRUE /\ UNCHANGED timers
  /\ UNCHANGED <<entries, shown, quiet, tangled>>

(* onComplete returns *)
Complete ==
  /\ callback = Completing
  /\ callback' = Idle
  /\ UNCHANGED <<entries, timerId, timers, shown, completed, quiet, tangled>>

PlayerNext == Play \/ Stop \/ Tick \/ EntryShown \/ Complete

(* Timers fire and callbacks return. *)
PlayerFairness == WF_playerVars(Tick) /\ WF_playerVars(EntryShown) /\ WF_playerVars(Complete)

PlayerSpec == PlayerInit /\ [][PlayerNext]_playerVars /\ PlayerFairness

-----------------------------------------------------------------------------
(* As long as onEntry leaves the player alone there is one chain of ticks: the
   entry shown is the next one, none is shown twice, and onComplete follows
   the last. *)
ShowsInOrder ==
  /\ PlayerTypeOK
  /\ ~tangled =>
       /\ Cardinality(timers) <= 1
       /\ \A t \in timers : t.id = timerId /\ t.index = shown
       /\ Showing => callback + 1 = shown
       /\ completed => shown = entries

(* "Stop playback immediately" (line 58) holds of a stop() that does not come from
   onEntry, where the tick goes on all the same: it silences every chain, those
   that timerId has lost sight of too, until the next play().  Once play() is not called any more the player comes to rest:
   no timer is left, and onComplete was called unless stop() or onEntry
   interfered. *)
PlaybackEnds ==
  /\ [][quiet /\ quiet' => callback' \in {callback, Idle}]_playerVars
  /\ <>[][~Play]_playerVars =>
       <>[](timers = {} /\ callback = Idle /\ (completed \/ quiet \/ tangled))
=============================================================================
