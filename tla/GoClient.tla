------------------------------ MODULE GoClient ------------------------------
(***************************************************************************)
(* MatchmakingClient of pkg/transport/client.go against one lobby: the pump*)
(* behind the channel that Join returns, and CancelJoin with the unary     *)
(* interceptors of DefaultClientDialOptions, a retry around a deadline.    *)
(*                                                                         *)
(* A request or its answer may be lost or late, so that an attempt the     *)
(* client has given up may be carried out before or after the next ones.   *)
(* The player has two streams; the second one stands for a later join, and *)
(* only the first one's pump is followed.                                  *)
(***************************************************************************)
EXTENDS Integers, SequencesExt

CONSTANTS
  MaxAttempts, \* sets of values that RetryConfig may hold, those that are not
  Initial,     \* positive for a default; back-offs in units of time, multipliers
  MaxBackoff,  \* in parts of One, which stands for the factor 1.0
  Multiplier,
  One,
  ChanSize     \* the capacity of Join's channel, 8 in the code

ASSUME ConfigAssumption ==
  /\ \A S \in {MaxAttempts, Initial, MaxBackoff, Multiplier} : S \subseteq Int
  /\ One \in Nat \ {0} /\ ChanSize \in Nat \ {0}

VARIABLES
  cfg,         \* the RetryConfig
  entries,     \* the player's entries in the lobby, oldest first
  joined,      \* streams that have been opened
  wire,        \* updates on stream 1: TRUE for game_starting
  open,        \* the server has not ended stream 1
  pump,        \* "none", "recv", "send" or "closed"
  held, ch,    \* what the pump holds, and its channel
  joinCtx,     \* the context given to Join is done
  call,        \* "idle", "invoke", "wait", "ok", "notfound" or "failed"
  ctx,         \* the context given to CancelJoin is done
  attempt,     \* the number of this attempt
  inflight,    \* attempts whose request may still reach the server
  replies,     \* replies[a]: what the server answered to attempt a
  waits,       \* the back-offs so far
  backoff,
  errs,        \* history: how the attempts that failed did so
  before       \* history: the entries when CancelJoin was called

lobby == <<entries, joined>>
stream == <<wire, open, pump, held, ch, joinCtx>>
retry == <<call, ctx, attempt, inflight, replies, waits, backoff, errs,
           before>>
vars == <<cfg, lobby, stream, retry>>

(* Zero or less stands for a default. *)
Default(value, default) == IF value <= 0 THEN default ELSE value
maxAttempts == Default(cfg.attempts, 3)
initialBackoff == Default(cfg.initial, 1)
maxBackoff == Default(cfg.max, 50)
multiplier == Default(cfg.multiplier, 2 * One)

Streams == {1, 2}
Returned == {"ok", "notfound", "failed"}

TypeOK ==
  /\ entries \in Seq(joined) /\ joined \subseteq Streams
  /\ wire \in Seq(BOOLEAN) /\ held \in Seq(BOOLEAN) /\ Len(held) <= 1
  /\ ch \in Seq(BOOLEAN) /\ Len(ch) <= ChanSize
  /\ \A b \in {open, joinCtx, ctx} : b \in BOOLEAN
  /\ pump \in {"none", "recv", "send", "closed"}
  /\ call \in {"idle", "invoke", "wait"} \cup Returned
  /\ attempt \in 0..maxAttempts
  /\ inflight \subseteq 1..attempt
  /\ replies \in [1..attempt -> {"none", "ok", "notfound"}]
  /\ waits \in Seq(Nat) /\ backoff \in Nat
  /\ errs \in Seq({"transient", "permanent"})
  /\ before \in Seq(Streams)

Init ==
  /\ cfg \in [attempts : MaxAttempts, initial : Initial, max : MaxBackoff,
              multiplier : Multiplier]
  /\ entries = <<>> /\ joined = {}
  /\ wire = <<>> /\ open = FALSE /\ pump = "none" /\ held = <<>> /\ ch = <<>>
  /\ joinCtx = FALSE
  /\ call = "idle" /\ ctx = FALSE /\ attempt = 0 /\ inflight = {}
  /\ replies = <<>> /\ waits = <<>> /\ backoff = initialBackoff
  /\ errs = <<>> /\ before = <<>>

-----------------------------------------------------------------------------
(* Join, and the lobby as far as this player sees it.                       *)

Join(s) ==
  /\ s \notin joined
  /\ joined' = joined \cup {s}
  /\ entries' = Append(entries, s)
  /\ IF s = 1 THEN pump' = "recv" /\ open' = TRUE ELSE UNCHANGED <<pump, open>>
  /\ UNCHANGED <<cfg, wire, held, ch, joinCtx, retry>>

Update ==
  /\ 1 \in ToSet(entries) /\ open /\ wire = <<>> /\ ~joinCtx
  /\ wire' = <<FALSE>>
  /\ UNCHANGED <<cfg, lobby, open, pump, held, ch, joinCtx, retry>>

(* The lobby is full: everybody is told, and drained. *)
GameStarts ==
  /\ entries # <<>>
  /\ entries' = <<>>
  /\ IF open THEN wire' = Append(wire, TRUE) /\ open' = FALSE
             ELSE UNCHANGED <<wire, open>>
  /\ UNCHANGED <<cfg, joined, pump, held, ch, joinCtx, retry>>

(* Stream 1 ends because its entry was removed, or because its context is done,
   which removes an entry. *)
StreamEnds ==
  /\ open /\ (joinCtx \/ 1 \notin ToSet(entries))
  /\ open' = FALSE
  /\ entries' = IF joinCtx /\ entries # <<>> THEN Tail(entries) ELSE entries
  /\ UNCHANGED <<cfg, joined, wire, pump, held, ch, joinCtx, retry>>

(* The goroutine of Join. *)
Recv ==
  /\ pump = "recv" /\ wire # <<>>
  /\ held' = <<Head(wire)>>
  /\ wire' = Tail(wire)
  /\ pump' = "send"
  /\ UNCHANGED <<cfg, lobby, open, ch, joinCtx, retry>>

Pump ==
  /\ pump = "send" /\ Len(ch) < ChanSize
  /\ ch' = ch \o held
  /\ pump' = IF Head(held) THEN "closed" ELSE "recv"
  /\ held' = <<>>
  /\ UNCHANGED <<cfg, lobby, wire, open, joinCtx, retry>>

(* Faulty: a plain send to the channel. *)
PumpEndsBlind ==
  /\ pump = "recv" /\ (joinCtx \/ (wire = <<>> /\ ~open))
  /\ pump' = "closed"
  /\ UNCHANGED <<cfg, lobby, wire, open, held, ch, joinCtx, retry>>

PumpEnds ==
  /\ \/ pump \in {"recv", "send"} /\ joinCtx
     \/ pump = "recv" /\ wire = <<>> /\ ~open
  /\ pump' = "closed"
  /\ UNCHANGED <<cfg, lobby, wire, open, held, ch, joinCtx, retry>>

Consume ==
  /\ ch # <<>>
  /\ ch' = Tail(ch)
  /\ UNCHANGED <<cfg, lobby, wire, open, pump, held, joinCtx, retry>>

CancelJoinCtx ==
  /\ pump # "none" /\ ~joinCtx
  /\ joinCtx' = TRUE
  /\ UNCHANGED <<cfg, lobby, wire, open, pump, held, ch, retry>>

-----------------------------------------------------------------------------
(* CancelJoin through UnaryRetryInterceptor.                                *)

Invoke(n) ==
  /\ attempt' = n
  /\ inflight' = inflight \cup {n}
  /\ replies' = Append(replies, "none")
  /\ call' = "invoke"

CancelJoin ==
  /\ call = "idle"
  /\ Invoke(1)
  /\ before' = entries
  /\ UNCHANGED <<cfg, lobby, stream, ctx, waits, backoff, errs>>

(* Faulty: the server removes the newest entry. *)
ExecuteNewest(a) ==
  /\ a \in inflight
  /\ inflight' = inflight \ {a}
  /\ IF entries = <<>>
       THEN replies' = [replies EXCEPT ![a] = "notfound"] /\ UNCHANGED entries
       ELSE replies' = [replies EXCEPT ![a] = "ok"] /\ entries' = Front(entries)
  /\ UNCHANGED <<cfg, joined, stream, call, ctx, attempt, waits, backoff, errs,
                 before>>

(* The server carries out an attempt, though the client may have given it up. *)
Execute(a) ==
  /\ a \in inflight
  /\ inflight' = inflight \ {a}
  /\ IF entries = <<>>
       THEN replies' = [replies EXCEPT ![a] = "notfound"] /\ UNCHANGED entries
       ELSE replies' = [replies EXCEPT ![a] = "ok"] /\ entries' = Tail(entries)
  /\ UNCHANGED <<cfg, joined, stream, call, ctx, attempt, waits, backoff, errs,
                 before>>

Return(outcome) ==
  /\ call' = outcome
  /\ UNCHANGED <<cfg, lobby, stream, ctx, attempt, inflight, replies, waits,
                 backoff, before>>

Answered ==
  /\ call = "invoke" /\ replies[attempt] # "none"
  /\ Return(replies[attempt])
  /\ UNCHANGED errs

Error(err, outcome) ==
  /\ call = "invoke"
  /\ errs' = Append(errs, err)
  /\ Return(outcome)

orWait == IF attempt = maxAttempts THEN "failed" ELSE "wait"

(* Unavailable, ResourceExhausted or DeadlineExceeded, whatever the server did. *)
Transient == Error("transient", orWait)

(* Faulty: the code of the error is not looked at. *)
PermanentRetried == Error("permanent", orWait)

(* Any other error ends the call at once, whatever the server did: a refusal, an
   answer that is not understood, the cancellation of the context. *)
Permanent == Error("permanent", "failed")

(* Faulty: there is no deadline but the caller's. *)
CallersDeadline == ctx /\ Transient

(* UnaryDeadlineInjectionInterceptor gives an attempt a deadline if the caller's
   context has none. *)
Deadline == Transient

CtxDone == call = "wait" /\ ctx /\ Return("failed") /\ UNCHANGED errs

(* The timer fires before the context is done. *)
Retry ==
  /\ call = "wait"
  /\ waits' = Append(waits, backoff)
  /\ backoff' = Min({(backoff * multiplier) \div One, maxBackoff})
  /\ Invoke(attempt + 1)
  /\ UNCHANGED <<cfg, lobby, stream, ctx, errs, before>>

CancelCall ==
  /\ call \in {"invoke", "wait"} /\ ~ctx
  /\ ctx' = TRUE
  /\ UNCHANGED <<cfg, lobby, stream, call, attempt, inflight, replies, waits,
                 backoff, errs, before>>

-----------------------------------------------------------------------------
PumpStep == Recv \/ Pump \/ PumpEnds
CallStep == Answered \/ Deadline \/ CtxDone \/ Retry

Next ==
  \/ \E s \in Streams : Join(s)
  \/ Update \/ GameStarts \/ StreamEnds
  \/ PumpStep \/ Consume \/ CancelJoinCtx
  \/ CancelJoin \/ (\E a \in inflight : Execute(a))
  \/ Transient \/ Permanent
  \/ CallStep \/ CancelCall

Spec == Init /\ [][Next]_vars

(* Goroutines that can run do run, and timers fire.  Requests need not arrive,
   nor answers; nobody need read the channel. *)
FairSpec == Spec /\ WF_vars(PumpStep) /\ WF_vars(CallStep)

-----------------------------------------------------------------------------
(* Safety.                                                                  *)

(* An answer means what it says, whichever attempt it answers: the entry that the
   caller meant to cancel is gone, removed now or by an attempt whose answer was
   lost, also when the answer is that there is none. *)
CancelIsEffective ==
  /\ TypeOK
  /\ call \in {"ok", "notfound"} /\ before # <<>> => Head(before) \notin ToSet(entries)

(* A call is attempted again only after an error that is safe to retry, and
   while its context is live it gives up only after such an error of its last
   attempt or after an error of the other kind; however the configuration is
   filled in, there is an attempt.  The waits in between stay under the limit,
   the first one excepted, which is taken as configured, and never shrink unless
   the multiplier makes them. *)
RetriesAreBounded ==
  /\ \A i \in 1..attempt - 1 : errs[i] = "transient"
  /\ call = "failed" /\ ~ctx =>
       /\ attempt >= 1
       /\ errs[attempt] = "permanent" \/ attempt = maxAttempts
  /\ \A i \in 2..Len(waits) : waits[i] <= maxBackoff
  /\ multiplier >= One =>
       \A i \in 1..Len(waits) - 1 : waits[i] <= maxBackoff => waits[i] <= waits[i + 1]
  /\ call \in Returned \cup {"wait"} => Len(waits) = attempt - 1

-----------------------------------------------------------------------------
(* Liveness.                                                                *)

(* CancelJoin returns though no request or answer arrives, and whoever stops
   reading the channel of Join gets rid of its pump by its context. *)
CallsReturn ==
  /\ call = "invoke" ~> call \in Returned
  /\ joinCtx ~> pump = "closed"
=============================================================================
