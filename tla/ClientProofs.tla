---------------------------- MODULE ClientProofs ----------------------------
(***************************************************************************)
(* Theorems about the clients: GoClient, for every retry configuration and *)
(* any capacity of the channel, and PlayClient, for any number of updates. *)
(***************************************************************************)
EXTENDS GoClient, PlayClient, SequenceTheorems, TLAPS

(* However the configuration is filled in, there is an attempt and a wait. *)
CfgOK ==
  cfg \in [attempts : MaxAttempts, initial : Initial, max : MaxBackoff,
           multiplier : Multiplier]

LEMMA ConfigFacts ==
  ASSUME CfgOK
  PROVE  /\ maxAttempts \in Nat \ {0} /\ initialBackoff \in Nat \ {0}
         /\ maxBackoff \in Nat \ {0} /\ multiplier \in Nat \ {0}
<1>1. /\ cfg.attempts \in Int /\ cfg.initial \in Int
      /\ cfg.max \in Int /\ cfg.multiplier \in Int
  BY ConfigAssumption DEF CfgOK
<1>2. 2 * One \in Nat \ {0}
  BY ConfigAssumption
<1> QED
  BY <1>1, <1>2 DEF maxAttempts, initialBackoff, maxBackoff, multiplier, Default

LEMMA MinFacts ==
  ASSUME NEW a \in Nat, NEW b \in Nat
  PROVE  Min({a, b}) = IF a <= b THEN a ELSE b
<1> DEFINE m == IF a <= b THEN a ELSE b
<1>1. m \in {a, b} /\ \A y \in {a, b} : m <= y
  OBVIOUS
<1>2. ASSUME NEW x \in {a, b}, \A y \in {a, b} : x <= y
      PROVE  x = m
  BY <1>2
<1>3. Min({a, b}) = CHOOSE x \in {a, b} : \A y \in {a, b} : x <= y
  BY DEF Min
<1> QED BY <1>1, <1>2, <1>3

(* A wait times a factor of m parts of n. *)
LEMMA ScaledFacts ==
  ASSUME NEW a \in Nat, NEW m \in Nat \ {0}, NEW n \in Nat \ {0}
  PROVE  /\ (a * m) \div n \in Nat
         /\ m >= n => a <= (a * m) \div n
<1> DEFINE q == (a * m) \div n
<1>1. a * m \in Nat
  BY Z3
<1> DEFINE p == a * m
<1>2. /\ p \div n \in Nat /\ p % n \in 0..n - 1
      /\ p = (p \div n) * n + (p % n)
  <2> HIDE DEF p
  <2>1. p \in Nat
    BY <1>1 DEF p
  <2> QED BY <2>1, Z3
<1>3. ASSUME m >= n
      PROVE  a <= p \div n
  <2> SUFFICES ASSUME a > p \div n PROVE FALSE
    BY <1>2
  <2>1. PICK k \in Nat : m = n + k
    <3>1. m - n \in Nat /\ m = n + (m - n)
      BY <1>3
    <3> QED BY <3>1
  <2>2. PICK l \in Nat : a = (p \div n) + 1 + l
    <3>1. a - (p \div n) - 1 \in Nat /\ a = (p \div n) + 1 + (a - (p \div n) - 1)
      BY <1>2
    <3> QED BY <3>1
  <2>3. p = a * n + a * k /\ a * k \in Nat
    BY <2>1, Z3
  <2> DEFINE d == p \div n
  <2>4. d \in Nat /\ a = d + 1 + l
    BY <1>2, <2>2
  <2> HIDE DEF d
  <2>5. a * n = d * n + n + l * n /\ l * n \in Nat /\ d * n \in Int
    BY <2>4, Z3
  <2>6. p = d * n + (p % n)
    BY <1>2 DEF d
  <2> HIDE DEF p
  <2> QED BY <1>2, <2>3, <2>5, <2>6
<1> QED BY <1>2, <1>3

-----------------------------------------------------------------------------
(* The sequences of the module. *)
LEMMA TailFacts ==
  ASSUME NEW S, NEW q \in Seq(S), q # <<>>
  PROVE  /\ Tail(q) \in Seq(S) /\ Head(q) \in S /\ Head(q) = q[1]
         /\ Len(q) \in Nat \ {0} /\ Len(Tail(q)) = Len(q) - 1
         /\ \A i \in 1..Len(q) - 1 : Tail(q)[i] = q[i + 1]
  OBVIOUS

LEMMA AppendFacts ==
  ASSUME NEW S, NEW q \in Seq(S), NEW x \in S
  PROVE  /\ Append(q, x) \in Seq(S) /\ Len(Append(q, x)) = Len(q) + 1
         /\ Len(q) \in Nat
         /\ \A i \in 1..Len(q) : Append(q, x)[i] = q[i]
         /\ Append(q, x)[Len(q) + 1] = x
  OBVIOUS

LEMMA OneElement ==
  ASSUME NEW S, NEW x \in S
  PROVE  <<x>> \in Seq(S) /\ Len(<<x>>) = 1 /\ <<x>> # <<>>
  OBVIOUS

(* What the pump holds and hands on. *)
StreamOK ==
  /\ wire \in Seq(BOOLEAN)
  /\ held \in Seq(BOOLEAN) /\ Len(held) <= 1
  /\ ch \in Seq(BOOLEAN) /\ Len(ch) <= ChanSize
  /\ open \in BOOLEAN /\ joinCtx \in BOOLEAN
  /\ pump \in {"none", "recv", "send", "closed"}
  /\ pump = "send" => held # <<>>

(* The player's entries: every stream joins once, so that an entry that is gone
   does not come back. *)
Present(s) == \E i \in 1..Len(entries) : entries[i] = s

LobbyOK ==
  /\ joined \subseteq Streams /\ entries \in Seq(Streams)
  /\ \A i \in 1..Len(entries) : entries[i] \in joined
  /\ \A i, j \in 1..Len(entries) : entries[i] = entries[j] => i = j

(* The retried call: an attempt that was answered has removed the entry that was
   the oldest, or has found it gone; while that entry is there, it is first. *)
CallOK ==
  /\ ctx \in BOOLEAN
  /\ call \in {"idle", "invoke", "wait"} \cup Returned
  /\ attempt \in Nat /\ attempt <= maxAttempts
  /\ call = "idle" <=> attempt = 0
  /\ call = "wait" => attempt < maxAttempts
  /\ inflight \subseteq 1..attempt
  /\ \A a \in inflight : replies[a] = "none"
  /\ replies \in [1..attempt -> {"none", "ok", "notfound"}]
  /\ call \in {"ok", "notfound"} => replies[attempt] = call

(* Every attempt but the last has failed in a way that is safe to retry. *)
ErrsOK ==
  /\ errs \in Seq({"transient", "permanent"})
  /\ call = "idle" => Len(errs) = 0
  /\ call \in {"invoke", "ok", "notfound"} => Len(errs) = attempt - 1
  /\ call \in {"wait", "failed"} => Len(errs) = attempt
  /\ \A i \in 1..attempt - 1 : errs[i] = "transient"
  /\ call = "wait" => errs[attempt] = "transient"
  /\ call = "failed" /\ ~ctx =>
       errs[attempt] = "permanent" \/ attempt = maxAttempts

BeforeOK ==
  /\ before \in Seq(Streams)
  /\ \A i \in 1..Len(before) : before[i] \in joined
  /\ before # <<>> =>
       /\ Present(before[1]) => entries[1] = before[1]
       /\ \A a \in 1..attempt : replies[a] # "none" => ~Present(before[1])

(* The first wait is as configured, the next ones stay under the limit, and grow
   if the multiplier is not below one. *)
WaitsOK ==
  /\ waits \in Seq(Nat) /\ backoff \in Nat
  /\ waits # <<>> => backoff <= maxBackoff
  /\ \A i \in 2..Len(waits) : waits[i] <= maxBackoff
  /\ multiplier >= One =>
       /\ waits # <<>> /\ waits[Len(waits)] <= maxBackoff => waits[Len(waits)] <= backoff
       /\ \A i \in 1..Len(waits) - 1 : waits[i] <= maxBackoff => waits[i] <= waits[i + 1]
  /\ Len(waits) = IF attempt = 0 THEN 0 ELSE attempt - 1

ClientInv == CfgOK /\ StreamOK /\ LobbyOK /\ CallOK /\ ErrsOK /\ BeforeOK
             /\ WaitsOK

LEMMA InitClient == Init => ClientInv
<1> SUFFICES ASSUME Init PROVE ClientInv
  OBVIOUS
<1>1. CfgOK
  BY DEF Init, CfgOK
<1>2. /\ <<>> \in Seq(BOOLEAN) /\ <<>> \in Seq(Streams) /\ <<>> \in Seq(Nat)
      /\ Len(<<>>) = 0
  BY EmptySeq
<1>3. StreamOK
  <2>1. wire = <<>> /\ held = <<>> /\ ch = <<>> /\ 0 <= ChanSize /\ 0 <= 1
    BY ConfigAssumption DEF Init
  <2> QED BY <1>2, <2>1 DEF Init, StreamOK
<1>4. LobbyOK
  BY <1>2 DEF Init, LobbyOK
<1>5. CallOK
  <2>1. replies \in [1..attempt -> {"none", "ok", "notfound"}]
    <3>1. replies = <<>> /\ 1..attempt = {}
      BY DEF Init
    <3>2. <<>> \in [{} -> {"none", "ok", "notfound"}]
      OBVIOUS
    <3> QED BY <3>1, <3>2
  <2>2. maxAttempts \in Nat
    BY <1>1, ConfigFacts
  <2>3. call = "idle" /\ attempt = 0 /\ inflight = {} /\ ctx = FALSE
    BY DEF Init
  <2>4. /\ ctx \in BOOLEAN
        /\ call \in {"idle", "invoke", "wait"} \cup Returned
        /\ attempt \in Nat /\ attempt <= maxAttempts
    <3>1. ctx \in BOOLEAN /\ call \in {"idle", "invoke", "wait"} \cup Returned
      BY <2>3, Zenon
    <3>2. attempt \in Nat /\ attempt <= maxAttempts
      BY <2>2, <2>3
    <3> QED BY <3>1, <3>2
  <2>5. /\ call = "idle" <=> attempt = 0
        /\ call = "wait" => attempt < maxAttempts
        /\ call \in {"ok", "notfound"} => replies[attempt] = call
    BY <2>3
  <2>6. inflight \subseteq 1..attempt /\ \A a \in inflight : replies[a] = "none"
    BY <2>3
  <2> QED BY <2>1, <2>4, <2>5, <2>6 DEF CallOK
<1>6. BeforeOK
  BY <1>2 DEF Init, BeforeOK
<1>7. WaitsOK
  BY <1>1, <1>2, ConfigFacts DEF Init, WaitsOK
<1>8. ErrsOK
  BY <1>2 DEF Init, ErrsOK
<1> QED BY <1>1, <1>3, <1>4, <1>5, <1>6, <1>7, <1>8 DEF ClientInv

-----------------------------------------------------------------------------
(* Steps that leave one of the parts alone. *)
LEMMA SameCfg ==
  ASSUME ClientInv, UNCHANGED cfg
  PROVE  CfgOK' /\ maxAttempts' = maxAttempts /\ maxBackoff' = maxBackoff
         /\ multiplier' = multiplier
  BY DEF ClientInv, CfgOK, maxAttempts, maxBackoff, multiplier

LEMMA SameStream == ClientInv /\ UNCHANGED stream => StreamOK'
  BY DEF ClientInv, StreamOK, stream

LEMMA SameLobby == ClientInv /\ UNCHANGED lobby => LobbyOK'
  BY DEF ClientInv, LobbyOK, lobby

LEMMA SameErrs ==
  ASSUME ClientInv, UNCHANGED <<cfg, call, attempt, errs>>, ctx => ctx'
  PROVE  ErrsOK'
<1>1. maxAttempts' = maxAttempts
  BY SameCfg
<1> QED BY <1>1 DEF ClientInv, ErrsOK

LEMMA SameRetry ==
  ASSUME ClientInv, UNCHANGED <<cfg, retry>>
  PROVE  CallOK' /\ ErrsOK' /\ WaitsOK'
<1>1. maxAttempts' = maxAttempts /\ maxBackoff' = maxBackoff
      /\ multiplier' = multiplier
  BY SameCfg
<1>2. CallOK'
  BY <1>1 DEF ClientInv, CallOK, retry
<1>3. ErrsOK'
  BY SameErrs DEF retry
<1>4. WaitsOK'
  BY <1>1 DEF ClientInv, WaitsOK, retry
<1> QED BY <1>2, <1>3, <1>4

(* Removing entries from the front, or adding a stream that has not joined yet. *)
LEMMA LobbySteps ==
  ASSUME ClientInv,
         \/ entries' = <<>> /\ UNCHANGED joined
         \/ entries # <<>> /\ entries' = Tail(entries) /\ UNCHANGED joined
         \/ \E s \in Streams \ joined :
              joined' = joined \cup {s} /\ entries' = Append(entries, s)
  PROVE  /\ LobbyOK'
         /\ joined \subseteq joined'
         /\ \A s \in joined : Present(s)' => Present(s)
         /\ \A s \in joined : (Present(s) => entries[1] = s) =>
              (Present(s)' => entries'[1] = s)
         /\ entries' = Tail(entries) /\ entries # <<>> =>
              \A s \in joined : s = entries[1] => ~Present(s)'
<1>1. CASE entries' = <<>> /\ UNCHANGED joined
  <2>1. entries' \in Seq(Streams) /\ Len(entries') = 0
    BY <1>1, EmptySeq
  <2> QED BY <1>1, <2>1 DEF ClientInv, LobbyOK, Present
<1>2. CASE entries # <<>> /\ entries' = Tail(entries) /\ UNCHANGED joined
  <2>1. /\ entries' \in Seq(Streams) /\ Len(entries) \in Nat \ {0}
        /\ Len(entries') = Len(entries) - 1
        /\ \A i \in 1..Len(entries') : entries'[i] = entries[i + 1]
    BY <1>2, TailFacts DEF ClientInv, LobbyOK
  <2>2. LobbyOK'
    <3>1. \A i \in 1..Len(entries') : i + 1 \in 1..Len(entries)
      BY <2>1
    <3>2. \A i \in 1..Len(entries') : entries'[i] \in joined
      BY <2>1, <3>1 DEF ClientInv, LobbyOK
    <3>3. ASSUME NEW i \in 1..Len(entries'), NEW j \in 1..Len(entries'),
                 entries'[i] = entries'[j]
          PROVE  i = j
      <4>1. entries[i + 1] = entries[j + 1]
        BY <2>1, <3>3
      <4>2. i + 1 = j + 1
        BY <3>1, <4>1 DEF ClientInv, LobbyOK
      <4> QED BY <4>2
    <3> QED BY <1>2, <2>1, <3>2, <3>3 DEF ClientInv, LobbyOK
  <2>3. ASSUME NEW s, Present(s)'
        PROVE  Present(s) /\ entries[1] # s
    <3>1. PICK i \in 1..Len(entries') : entries'[i] = s
      BY <2>3 DEF Present
    <3>2. i + 1 \in 1..Len(entries) /\ entries[i + 1] = s /\ i + 1 # 1
      BY <2>1, <3>1
    <3>3. 1 \in 1..Len(entries)
      BY <2>1
    <3>4. Present(s)
      BY <3>2 DEF Present
    <3>5. entries[1] # entries[i + 1]
      BY <3>2, <3>3 DEF ClientInv, LobbyOK
    <3> QED BY <3>2, <3>4, <3>5
  <2> QED BY <1>2, <2>2, <2>3
<1>3. CASE \E s \in Streams \ joined :
              joined' = joined \cup {s} /\ entries' = Append(entries, s)
  <2>1. PICK s \in Streams \ joined :
          joined' = joined \cup {s} /\ entries' = Append(entries, s)
    BY <1>3
  <2>2. /\ entries' \in Seq(Streams) /\ Len(entries) \in Nat
        /\ Len(entries') = Len(entries) + 1
        /\ \A i \in 1..Len(entries) : entries'[i] = entries[i]
        /\ entries'[Len(entries) + 1] = s
    BY <2>1, AppendFacts DEF ClientInv, LobbyOK
  <2>3. LobbyOK'
    BY <2>1, <2>2 DEF ClientInv, LobbyOK
  <2>4. ASSUME NEW r \in joined, Present(r)'
        PROVE  Present(r) /\ entries'[1] = entries[1]
    <3>1. PICK i \in 1..Len(entries') : entries'[i] = r
      BY <2>4 DEF Present
    <3>2. i \in 1..Len(entries) /\ entries[i] = r
      BY <2>1, <2>2, <3>1
    <3>3. 1 \in 1..Len(entries)
      BY <2>2, <3>2
    <3> QED BY <2>2, <3>2, <3>3 DEF Present
  <2>5. entries' # Tail(entries) \/ entries = <<>>
    <3>1. entries # <<>> => Len(Tail(entries)) = Len(entries) - 1
      BY TailFacts DEF ClientInv, LobbyOK
    <3> QED BY <2>2, <3>1
  <2> QED BY <2>1, <2>3, <2>4, <2>5
<1> QED BY <1>1, <1>2, <1>3

(* Such a step keeps what is known of the entry to be cancelled. *)
LEMMA LobbyBefore ==
  ASSUME ClientInv, UNCHANGED <<before, attempt, replies>>,
         \/ UNCHANGED lobby
         \/ entries' = <<>> /\ UNCHANGED joined
         \/ entries # <<>> /\ entries' = Tail(entries) /\ UNCHANGED joined
         \/ \E s \in Streams \ joined :
              joined' = joined \cup {s} /\ entries' = Append(entries, s)
  PROVE  LobbyOK' /\ BeforeOK'
<1>1. CASE UNCHANGED lobby
  BY <1>1 DEF ClientInv, LobbyOK, BeforeOK, Present, lobby
<1>2. CASE ~UNCHANGED lobby
  <2>1. /\ LobbyOK' /\ joined \subseteq joined'
        /\ \A s \in joined : Present(s)' => Present(s)
        /\ \A s \in joined : (Present(s) => entries[1] = s) =>
             (Present(s)' => entries'[1] = s)
    BY <1>2, LobbySteps
  <2>2. before # <<>> => before[1] \in joined
    <3>1. before # <<>> => 1 \in 1..Len(before)
      BY TailFacts DEF ClientInv, BeforeOK
    <3> QED BY <3>1 DEF ClientInv, BeforeOK
  <2>3. BeforeOK'
    BY <2>1, <2>2 DEF ClientInv, BeforeOK, Present
  <2> QED BY <2>1, <2>3
<1> QED BY <1>1, <1>2

-----------------------------------------------------------------------------
(* The steps of the lobby and of the pump. *)
LEMMA StreamKeeps ==
  ASSUME ClientInv,
         \/ \E s \in Streams : Join(s)
         \/ Update \/ GameStarts \/ StreamEnds
         \/ PumpStep \/ Consume \/ CancelJoinCtx
  PROVE  ClientInv'
<1>1. UNCHANGED <<cfg, retry>>
  BY DEF Join, Update, GameStarts, StreamEnds, PumpStep, Recv, Pump, PumpEnds,
         Consume, CancelJoinCtx
<1>2. CfgOK' /\ CallOK' /\ ErrsOK' /\ WaitsOK'
  BY <1>1, SameCfg, SameRetry
<1>3. LobbyOK' /\ BeforeOK'
  <2>1. \/ UNCHANGED lobby
        \/ entries' = <<>> /\ UNCHANGED joined
        \/ entries # <<>> /\ entries' = Tail(entries) /\ UNCHANGED joined
        \/ \E s \in Streams \ joined :
             joined' = joined \cup {s} /\ entries' = Append(entries, s)
    BY DEF Join, Update, GameStarts, StreamEnds, PumpStep, Recv, Pump, PumpEnds,
           Consume, CancelJoinCtx, lobby
  <2>2. UNCHANGED <<before, attempt, replies>>
    BY <1>1 DEF retry
  <2> QED BY <2>1, <2>2, LobbyBefore
<1>4. StreamOK'
  <2>1. CASE (\E s \in Streams : Join(s)) \/ CancelJoinCtx
    BY <2>1 DEF Join, CancelJoinCtx, ClientInv, StreamOK
  <2>2. CASE Update
    BY <2>2, OneElement DEF Update, ClientInv, StreamOK
  <2>3. CASE GameStarts
    <3>1. wire' \in Seq(BOOLEAN)
      BY <2>3, AppendFacts DEF GameStarts, ClientInv, StreamOK
    <3> QED BY <2>3, <3>1 DEF GameStarts, ClientInv, StreamOK
  <2>4. CASE StreamEnds
    BY <2>4 DEF StreamEnds, ClientInv, StreamOK
  <2>5. CASE Recv
    <3>1. /\ wire' \in Seq(BOOLEAN)
          /\ held' \in Seq(BOOLEAN) /\ Len(held') <= 1 /\ held' # <<>>
      BY <2>5, TailFacts, OneElement DEF Recv, ClientInv, StreamOK
    <3> QED BY <2>5, <3>1 DEF Recv, ClientInv, StreamOK
  <2>6. CASE Pump
    <3>1. ch' \in Seq(BOOLEAN) /\ Len(ch') = Len(ch) + Len(held)
      BY <2>6, ConcatProperties DEF Pump, ClientInv, StreamOK
    <3>2. Len(ch) \in Nat /\ Len(held) \in Nat /\ ChanSize \in Nat
      <4>1. ch \in Seq(BOOLEAN) /\ held \in Seq(BOOLEAN)
        BY DEF ClientInv, StreamOK
      <4> QED BY <4>1, ConfigAssumption
    <3>3. Len(ch') <= ChanSize
      <4>1. Len(ch) < ChanSize /\ Len(held) <= 1
        BY <2>6 DEF Pump, ClientInv, StreamOK
      <4> QED BY <3>1, <3>2, <4>1
    <3>4. held' \in Seq(BOOLEAN) /\ Len(held') <= 1
      <4>1. held' = <<>>
        BY <2>6 DEF Pump
      <4>2. <<>> \in Seq(BOOLEAN) /\ Len(<<>>) = 0
        BY EmptySeq
      <4> QED BY <4>1, <4>2
    <3> QED BY <2>6, <3>1, <3>3, <3>4 DEF Pump, ClientInv, StreamOK
  <2>7. CASE PumpEnds
    BY <2>7 DEF PumpEnds, ClientInv, StreamOK
  <2>8. CASE Consume
    <3>1. ch' \in Seq(BOOLEAN) /\ Len(ch') = Len(ch) - 1 /\ Len(ch) \in Nat
      BY <2>8, TailFacts DEF Consume, ClientInv, StreamOK
    <3>2. Len(ch') <= ChanSize
      BY <3>1, ConfigAssumption DEF ClientInv, StreamOK
    <3> QED BY <2>8, <3>1, <3>2 DEF Consume, ClientInv, StreamOK
  <2> QED BY <2>1, <2>2, <2>3, <2>4, <2>5, <2>6, <2>7, <2>8 DEF PumpStep
<1> QED BY <1>2, <1>3, <1>4 DEF ClientInv

-----------------------------------------------------------------------------
(* The steps of the retried call. *)
LEMMA CancelJoinKeeps ==
  ASSUME ClientInv, CancelJoin
  PROVE  ClientInv'
<1>1. /\ call = "idle" /\ call' = "invoke" /\ attempt' = 1 /\ attempt = 0
      /\ inflight' = inflight \cup {1} /\ replies' = Append(replies, "none")
      /\ before' = entries
      /\ UNCHANGED <<cfg, lobby, stream, ctx, waits, backoff, errs>>
  BY DEF CancelJoin, Invoke, ClientInv, CallOK
<1>2. /\ maxAttempts' = maxAttempts /\ maxBackoff' = maxBackoff
      /\ multiplier' = multiplier /\ CfgOK' /\ maxAttempts \in Nat \ {0}
  BY <1>1, SameCfg, ConfigFacts DEF ClientInv
<1>3. /\ replies' \in [1..1 -> {"none", "ok", "notfound"}]
      /\ replies'[1] = "none"
  <2>1. replies \in [1..0 -> {"none", "ok", "notfound"}]
    BY <1>1 DEF ClientInv, CallOK
  <2>2. replies = <<>>
    BY <2>1
  <2>3. replies' = <<"none">>
    BY <1>1, <2>2
  <2> QED BY <2>3
<1>4. CallOK'
  BY <1>1, <1>2, <1>3 DEF ClientInv, CallOK
<1>5. BeforeOK'
  <2>1. entries # <<>> => 1 \in 1..Len(entries)
    BY TailFacts DEF ClientInv, LobbyOK
  <2> QED BY <1>1, <1>3, <2>1 DEF ClientInv, LobbyOK, BeforeOK, Present, lobby
<1>6. WaitsOK'
  BY <1>1, <1>2 DEF ClientInv, WaitsOK
<1>7. ErrsOK'
  BY <1>1, <1>2 DEF ClientInv, ErrsOK
<1> QED
  BY <1>1, <1>2, <1>4, <1>5, <1>6, <1>7, SameStream, SameLobby DEF ClientInv

LEMMA ExecuteKeeps ==
  ASSUME ClientInv, NEW a \in inflight, Execute(a)
  PROVE  ClientInv'
<1>1. /\ inflight' = inflight \ {a}
      /\ \/ /\ entries = <<>> /\ replies' = [replies EXCEPT ![a] = "notfound"]
            /\ UNCHANGED entries
         \/ /\ entries # <<>> /\ replies' = [replies EXCEPT ![a] = "ok"]
            /\ entries' = Tail(entries)
      /\ UNCHANGED <<cfg, joined, stream, call, ctx, attempt, waits, backoff, errs,
                     before>>
  BY DEF Execute
<1>2. /\ maxAttempts' = maxAttempts /\ maxBackoff' = maxBackoff
      /\ multiplier' = multiplier /\ CfgOK'
  BY <1>1, SameCfg
<1>3. a \in 1..attempt
  BY DEF ClientInv, CallOK
<1>4. CallOK'
  BY <1>1, <1>2, <1>3 DEF ClientInv, CallOK
<1>5. LobbyOK' /\ BeforeOK'
  <2>1. before # <<>> => before[1] \in joined
    <3>1. before # <<>> => 1 \in 1..Len(before)
      BY TailFacts DEF ClientInv, BeforeOK
    <3> QED BY <3>1 DEF ClientInv, BeforeOK
  <2>2. CASE entries = <<>>
    <3>1. UNCHANGED lobby /\ Len(entries) = 0
      BY <1>1, <2>2 DEF lobby
    <3>2. \A s : ~Present(s)'
      BY <1>1, <2>2, <3>1 DEF Present
    <3> QED BY <1>1, <3>1, <3>2, SameLobby DEF ClientInv, BeforeOK, Present
  <2>3. CASE entries # <<>>
    <3>1. /\ LobbyOK'
          /\ \A s \in joined : Present(s)' => Present(s)
          /\ \A s \in joined : (Present(s) => entries[1] = s) =>
               (Present(s)' => entries'[1] = s)
          /\ \A s \in joined : s = entries[1] => ~Present(s)'
      BY <1>1, <2>3, LobbySteps
    <3>2. ASSUME NEW s \in joined, before # <<>>, s = before[1]
          PROVE  ~Present(s)'
      <4>1. Present(s) => entries[1] = s
        BY <3>2 DEF ClientInv, BeforeOK
      <4> QED BY <3>1, <4>1
    <3>3. before # <<>> => ~(\E i \in 1..Len(entries') : entries'[i] = before[1])
      BY <2>1, <3>2 DEF Present
    <3> QED BY <1>1, <3>1, <3>3 DEF ClientInv, BeforeOK, Present
  <2> QED BY <2>2, <2>3
<1>6. WaitsOK'
  BY <1>1, <1>2 DEF ClientInv, WaitsOK
<1> QED
  BY <1>1, <1>2, <1>4, <1>5, <1>6, SameStream, SameErrs DEF ClientInv

LEMMA ReturnKeeps ==
  ASSUME ClientInv, attempt > 0, ErrsOK',
         NEW outcome \in {"wait", "ok", "notfound", "failed"}, Return(outcome),
         outcome = "wait" => attempt < maxAttempts,
         outcome \in {"ok", "notfound"} => replies[attempt] = outcome
  PROVE  ClientInv'
<1>1. /\ call' = outcome
      /\ UNCHANGED <<cfg, lobby, stream, ctx, attempt, inflight, replies, waits,
                     backoff, before>>
  BY DEF Return
<1>2. /\ maxAttempts' = maxAttempts /\ maxBackoff' = maxBackoff
      /\ multiplier' = multiplier /\ CfgOK'
  BY <1>1, SameCfg
<1>3. CallOK'
  BY <1>1, <1>2 DEF ClientInv, CallOK, Returned
<1>4. LobbyOK' /\ BeforeOK'
  BY <1>1, LobbyBefore
<1>5. WaitsOK'
  BY <1>1, <1>2 DEF ClientInv, WaitsOK
<1> QED BY <1>1, <1>2, <1>3, <1>4, <1>5, SameStream DEF ClientInv

LEMMA ErrorKeeps ==
  ASSUME ClientInv, NEW err \in {"transient", "permanent"},
         NEW outcome \in {"wait", "failed"}, Error(err, outcome),
         outcome = "wait" => attempt < maxAttempts /\ err = "transient",
         outcome = "failed" => attempt = maxAttempts \/ err = "permanent"
  PROVE  ClientInv'
<1>1. /\ call = "invoke" /\ call' = outcome /\ errs' = Append(errs, err)
      /\ Return(outcome) /\ UNCHANGED <<cfg, ctx, attempt>>
  BY DEF Error, Return
<1>2. attempt \in Nat /\ attempt > 0 /\ Len(errs) = attempt - 1
  BY <1>1 DEF ClientInv, CallOK, ErrsOK
<1>3. /\ errs' \in Seq({"transient", "permanent"}) /\ Len(errs') = attempt
      /\ \A i \in 1..attempt - 1 : errs'[i] = errs[i]
      /\ errs'[attempt] = err
  <2>1. /\ errs' \in Seq({"transient", "permanent"}) /\ Len(errs') = Len(errs) + 1
        /\ \A i \in 1..Len(errs) : errs'[i] = errs[i]
        /\ errs'[Len(errs) + 1] = err
    BY <1>1, AppendFacts DEF ClientInv, ErrsOK
  <2> QED BY <1>2, <2>1
<1>4. ErrsOK'
  <2>1. maxAttempts' = maxAttempts
    BY <1>1, SameCfg
  <2> QED BY <1>1, <1>2, <1>3, <2>1 DEF ClientInv, ErrsOK
<1> QED BY <1>1, <1>2, <1>4, ReturnKeeps

LEMMA RetryKeeps ==
  ASSUME ClientInv, Retry
  PROVE  ClientInv'
<1>1. /\ call = "wait" /\ call' = "invoke" /\ attempt' = attempt + 1
      /\ waits' = Append(waits, backoff)
      /\ backoff' = Min({(backoff * multiplier) \div One, maxBackoff})
      /\ inflight' = inflight \cup {attempt + 1}
      /\ replies' = Append(replies, "none")
      /\ UNCHANGED <<cfg, lobby, stream, ctx, errs, before>>
  BY DEF Retry, Invoke
<1>2. /\ maxAttempts' = maxAttempts /\ maxBackoff' = maxBackoff
      /\ multiplier' = multiplier /\ CfgOK'
      /\ maxAttempts \in Nat \ {0} /\ maxBackoff \in Nat \ {0}
      /\ multiplier \in Nat \ {0}
  BY <1>1, SameCfg, ConfigFacts DEF ClientInv
<1>3. attempt \in Nat \ {0} /\ attempt < maxAttempts
  BY <1>1 DEF ClientInv, CallOK
<1>4. /\ replies' \in [1..attempt + 1 -> {"none", "ok", "notfound"}]
      /\ \A a \in 1..attempt : replies'[a] = replies[a]
      /\ replies'[attempt + 1] = "none"
  <2>1. replies \in Seq({"none", "ok", "notfound"}) /\ Len(replies) = attempt
    BY <1>3 DEF ClientInv, CallOK
  <2>2. "none" \in {"none", "ok", "notfound"}
    OBVIOUS
  <2>3. /\ replies' \in Seq({"none", "ok", "notfound"}) /\ Len(replies') = attempt + 1
        /\ \A a \in 1..attempt : replies'[a] = replies[a]
        /\ replies'[attempt + 1] = "none"
    BY <1>1, <2>1, <2>2, AppendFacts
  <2> QED BY <2>3
<1>5. CallOK'
  BY <1>1, <1>2, <1>3, <1>4 DEF ClientInv, CallOK
<1>6. BeforeOK'
  <2>1. \A a \in 1..attempt' : replies'[a] # "none" => a \in 1..attempt
    BY <1>1, <1>3, <1>4
  <2> QED
    BY <1>1, <1>4, <2>1 DEF ClientInv, BeforeOK, Present, lobby
<1>7. WaitsOK'
  <2>1. /\ backoff \in Nat /\ Len(waits) \in Nat /\ Len(waits) = attempt - 1
        /\ Len(waits') = Len(waits) + 1 /\ waits' \in Seq(Nat) /\ waits' # <<>>
        /\ \A i \in 1..Len(waits) : waits'[i] = waits[i]
        /\ waits'[Len(waits) + 1] = backoff
    BY <1>1, <1>3, AppendFacts DEF ClientInv, WaitsOK
  <2> DEFINE next == (backoff * multiplier) \div One
  <2>2. next \in Nat /\ (multiplier >= One => backoff <= next)
    BY <1>2, <2>1, ScaledFacts, ConfigAssumption
  <2>3. /\ backoff' \in Nat /\ backoff' <= maxBackoff
        /\ multiplier >= One /\ backoff <= maxBackoff => backoff <= backoff'
    <3>1. backoff' = Min({next, maxBackoff})
      BY <1>1
    <3> HIDE DEF next
    <3>2. backoff' = IF next <= maxBackoff THEN next ELSE maxBackoff
      BY <1>2, <2>2, <3>1, MinFacts
    <3> QED BY <1>2, <2>1, <2>2, <3>2
  <2> HIDE DEF next
  <2>4. Len(waits) > 0 => waits # <<>>
    <3>1. Len(<<>>) = 0
      BY EmptySeq
    <3> QED BY <3>1
  <2>5. \A i \in 2..Len(waits') : waits'[i] <= maxBackoff
    <3> SUFFICES ASSUME NEW i \in 2..Len(waits') PROVE waits'[i] <= maxBackoff
      OBVIOUS
    <3>1. CASE i = Len(waits) + 1
      <4>1. waits # <<>>
        BY <2>1, <2>4, <3>1
      <4>2. backoff <= maxBackoff
        BY <4>1 DEF ClientInv, WaitsOK
      <4> QED BY <2>1, <3>1, <4>2
    <3>2. CASE i # Len(waits) + 1
      <4>1. i \in 2..Len(waits) /\ waits'[i] = waits[i]
        BY <2>1, <3>2
      <4>2. waits[i] <= maxBackoff
        BY <4>1 DEF ClientInv, WaitsOK
      <4> QED BY <4>1, <4>2
    <3> QED BY <3>1, <3>2
  <2>6. ASSUME multiplier >= One
        PROVE  \A i \in 1..Len(waits') - 1 :
                 waits'[i] <= maxBackoff => waits'[i] <= waits'[i + 1]
    <3> SUFFICES ASSUME NEW i \in 1..Len(waits), waits[i] <= maxBackoff
                 PROVE  waits[i] <= waits'[i + 1]
      BY <2>1
    <3>1. CASE i = Len(waits)
      <4>1. waits # <<>> /\ waits'[i + 1] = backoff
        BY <2>1, <2>4, <3>1
      <4>2. waits[Len(waits)] <= maxBackoff => waits[Len(waits)] <= backoff
        BY <2>6, <4>1 DEF ClientInv, WaitsOK
      <4> QED BY <3>1, <4>1, <4>2
    <3>2. CASE i # Len(waits)
      <4>1. i \in 1..Len(waits) - 1 /\ waits'[i + 1] = waits[i + 1]
        BY <2>1, <3>2
      <4>2. waits[i] <= waits[i + 1]
        BY <2>6, <4>1 DEF ClientInv, WaitsOK
      <4> QED BY <4>1, <4>2
    <3> QED BY <3>1, <3>2
  <2>7. /\ waits'[Len(waits')] = backoff
        /\ Len(waits') = IF attempt' = 0 THEN 0 ELSE attempt' - 1
    BY <1>1, <1>3, <2>1
  <2> QED BY <1>2, <2>1, <2>3, <2>5, <2>6, <2>7 DEF WaitsOK
<1>8. ErrsOK'
  <2>1. errs' = errs /\ Len(errs) = attempt /\ errs[attempt] = "transient"
    BY <1>1 DEF ClientInv, ErrsOK
  <2>2. \A i \in 1..attempt : i = attempt \/ i \in 1..attempt - 1
    BY <1>3
  <2>3. \A i \in 1..attempt : errs[i] = "transient"
    BY <2>1, <2>2 DEF ClientInv, ErrsOK
  <2>4. attempt' - 1 = attempt /\ call' = "invoke"
    BY <1>1, <1>3
  <2> QED BY <2>1, <2>3, <2>4 DEF ClientInv, ErrsOK
<1> QED
  BY <1>1, <1>2, <1>5, <1>6, <1>7, <1>8, SameStream, SameLobby DEF ClientInv

LEMMA CancelCallKeeps ==
  ASSUME ClientInv, CancelCall
  PROVE  ClientInv'
<1>1. /\ call \in {"invoke", "wait"} /\ ctx' = TRUE
      /\ UNCHANGED <<cfg, lobby, stream, call, attempt, inflight, replies, waits,
                     backoff, errs, before>>
  BY DEF CancelCall
<1>2. /\ maxAttempts' = maxAttempts /\ maxBackoff' = maxBackoff
      /\ multiplier' = multiplier /\ CfgOK'
  BY <1>1, SameCfg
<1>3. CallOK' /\ WaitsOK'
  BY <1>1, <1>2 DEF ClientInv, CallOK, WaitsOK
<1>4. LobbyOK' /\ BeforeOK'
  BY <1>1, LobbyBefore
<1>5. ErrsOK'
  BY <1>1, SameErrs
<1> QED BY <1>1, <1>2, <1>3, <1>4, <1>5, SameStream DEF ClientInv

LEMMA NextClient == ClientInv /\ [Next]_vars => ClientInv'
<1> SUFFICES ASSUME ClientInv, [Next]_vars PROVE ClientInv'
  OBVIOUS
<1>1. CASE Transient \/ Deadline \/ Permanent
  <2>1. \/ Error("transient", IF attempt = maxAttempts THEN "failed" ELSE "wait")
        \/ Error("permanent", "failed")
    BY <1>1 DEF Transient, Deadline, Permanent, orWait
  <2>2. attempt \in Nat /\ attempt <= maxAttempts /\ maxAttempts \in Nat
    BY ConfigFacts DEF ClientInv, CallOK
  <2> QED BY <2>1, <2>2, ErrorKeeps
<1>2. CASE Answered
  <2>1. /\ call = "invoke" /\ replies[attempt] # "none"
        /\ Return(replies[attempt]) /\ UNCHANGED errs
    BY <1>2 DEF Answered
  <2>2. /\ attempt \in Nat /\ attempt > 0
        /\ replies[attempt] \in {"ok", "notfound"}
    BY <2>1 DEF ClientInv, CallOK
  <2>3. ErrsOK'
    BY <2>1, <2>2 DEF Return, ClientInv, ErrsOK
  <2> QED BY <2>1, <2>2, <2>3, ReturnKeeps
<1>3. CASE CtxDone
  <2>1. call = "wait" /\ ctx /\ Return("failed") /\ UNCHANGED errs
    BY <1>3 DEF CtxDone
  <2>2. attempt > 0
    BY <2>1 DEF ClientInv, CallOK
  <2>3. ErrsOK'
    BY <2>1 DEF Return, ClientInv, ErrsOK
  <2> QED BY <2>1, <2>2, <2>3, ReturnKeeps
<1>4. CASE UNCHANGED vars
  <2>1. UNCHANGED <<cfg, lobby, stream, retry>>
    BY <1>4 DEF vars
  <2>2. LobbyOK' /\ BeforeOK'
    BY <2>1, LobbyBefore DEF retry
  <2> QED BY <2>1, <2>2, SameCfg, SameStream, SameRetry DEF ClientInv
<1> QED
  BY <1>1, <1>2, <1>3, <1>4, StreamKeeps, CancelJoinKeeps, ExecuteKeeps,
     RetryKeeps, CancelCallKeeps
  DEF Next, CallStep

-----------------------------------------------------------------------------
(* However requests and answers are lost or delayed, an answer that CancelJoin
   returns means that the entry the caller meant is gone. *)
THEOREM CancelsAreEffective == Spec => []CancelIsEffective
<1>1. ClientInv => CancelIsEffective
  <2> SUFFICES ASSUME ClientInv PROVE CancelIsEffective
    OBVIOUS
  <2>1. entries \in Seq(joined)
    <3>1. entries \in Seq(Streams) /\ \A i \in 1..Len(entries) : entries[i] \in joined
      BY DEF ClientInv, LobbyOK
    <3> QED BY <3>1
  <2>2. TypeOK
    BY <2>1 DEF ClientInv, StreamOK, LobbyOK, CallOK, ErrsOK, BeforeOK, WaitsOK, TypeOK
  <2>3. ASSUME call \in {"ok", "notfound"}, before # <<>>
        PROVE  Head(before) \notin ToSet(entries)
    <3>1. replies[attempt] # "none" /\ attempt \in 1..attempt
      BY <2>3 DEF ClientInv, CallOK
    <3>2. ~Present(before[1])
      BY <2>3, <3>1 DEF ClientInv, BeforeOK
    <3>3. Head(before) = before[1]
      BY <2>3, TailFacts DEF ClientInv, BeforeOK
    <3>4. DOMAIN entries = 1..Len(entries)
      BY DEF ClientInv, LobbyOK
    <3> QED BY <3>2, <3>3, <3>4 DEF ToSet, Present
  <2> QED BY <2>2, <2>3 DEF CancelIsEffective
<1> QED BY <1>1, InitClient, NextClient, PTL DEF Spec

(* For every configuration, fractional multipliers included, a call is attempted
   again only after a transient error, gives up early only on another one or with
   its context, and waits as configured. *)
THEOREM RetriesStayBounded == Spec => []RetriesAreBounded
<1>1. ClientInv => RetriesAreBounded
  <2> SUFFICES ASSUME ClientInv PROVE RetriesAreBounded
    OBVIOUS
  <2>1. /\ \A i \in 1..attempt - 1 : errs[i] = "transient"
        /\ call = "failed" /\ ~ctx =>
             /\ attempt >= 1
             /\ errs[attempt] = "permanent" \/ attempt = maxAttempts
    BY DEF ClientInv, CallOK, ErrsOK
  <2>2. call \in Returned \cup {"wait"} => Len(waits) = attempt - 1
    BY DEF ClientInv, CallOK, WaitsOK, Returned
  <2> QED BY <2>1, <2>2 DEF ClientInv, WaitsOK, RetriesAreBounded
<1> QED BY <1>1, InitClient, NextClient, PTL DEF Spec

-----------------------------------------------------------------------------
(* PlayClient, for any number of updates.  What the server has received and what
   is on its way to it is one sequence: reading moves a message inside it. *)
Got == got \o up

Increasing(s) == \A i, j \in 1..Len(s) : i < j => s[i] < s[j]

(* The updates that the server has sent. *)
Asked == 1..sent \cup (IF server = "over" THEN {Terminal} ELSE {})

(* The bot thinks about updates that came before those that are on their way. *)
UpdatesInv ==
  /\ thinking \subseteq Asked
  /\ \A i \in 1..Len(down) : down[i] \in Asked /\ \A u \in thinking : u < down[i]
  /\ Increasing(down)

(* No action was sent twice, and none for an update that is still being thought
   about or has not arrived. *)
GotInv ==
  /\ \A i \in 1..Len(Got) :
       /\ Got[i] \in {JoinAction} \cup Asked
       /\ Got[i] \notin thinking
       /\ \A j \in 1..Len(down) : Got[i] < down[j]
  /\ Got # <<>> => Got[1] = JoinAction
  /\ \A i, j \in 1..Len(Got) : Got[i] = Got[j] => i = j

(* What is queued comes after what was sent and before what is to come. *)
QueueInv ==
  /\ Increasing(queue)
  /\ \A j \in 1..Len(queue) :
       /\ queue[j] \in Asked \cup {Stop}
       /\ queue[j] = Stop => run # "play"
       /\ queue[j] # Stop => /\ \A u \in thinking : queue[j] < u
                             /\ \A i \in 1..Len(down) : queue[j] < down[i]
       /\ \A i \in 1..Len(Got) : Got[i] < queue[j]

PythonInv ==
  Python => /\ Increasing(Got)
            /\ \A i \in 1..Len(Got), u \in thinking : Got[i] < u

PhaseInv ==
  /\ matchmaker = "open" => Len(lobbyStream) <= Waits
  /\ server = "first" => got = <<>>
  /\ run \in {"lobby", "ready"} =>
       server = "first" /\ up = <<>> /\ sender = "none" /\ queue = <<>>
  /\ sender = "join" => Got = <<>>
  /\ sender = "get" => Got # <<>>
  /\ Got = <<>> => server \in {"first", "failed"} /\ thinking = {} /\ down = <<>>

OrderInv == UpdatesInv /\ GotInv /\ QueueInv /\ PythonInv

BotInv == BotTypeOK /\ OrderInv /\ PhaseInv /\ ResolvedMeansOver

LEMMA NumberFacts ==
  /\ Updates \in Nat /\ Waits \in Nat
  /\ JoinAction = 0 /\ Terminal = Updates + 1 /\ Stop = Updates + 2
  BY ClientAssumption DEF JoinAction, Terminal, Stop

LEMMA AskedFacts ==
  ASSUME BotTypeOK
  PROVE  /\ Asked \subseteq 1..Terminal
         /\ Terminal \in Asked <=> server = "over"
         /\ server # "over" => Asked = 1..sent
         /\ \A u \in 1..sent : u \in Asked
<1>1. sent \in 0..Updates
  BY DEF BotTypeOK
<1> QED BY <1>1, NumberFacts DEF Asked

LEMMA GotFacts ==
  ASSUME BotTypeOK
  PROVE  /\ Got \in Seq(0..Terminal) /\ Len(Got) \in Nat
         /\ Got = <<>> <=> got = <<>> /\ up = <<>>
<1>1. got \in Seq(0..Terminal) /\ up \in Seq(0..Terminal)
  BY DEF BotTypeOK
<1>2. Got \in Seq(0..Terminal) /\ Len(Got) = Len(got) + Len(up)
  BY <1>1, ConcatProperties DEF Got
<1>3. /\ got = <<>> <=> Len(got) = 0
      /\ up = <<>> <=> Len(up) = 0
      /\ Got = <<>> <=> Len(Got) = 0
      /\ Len(got) \in Nat /\ Len(up) \in Nat
  BY <1>1, <1>2, EmptySeq, LenProperties
<1> QED BY <1>2, <1>3

(* The server reads a message. *)
LEMMA GotMoves ==
  ASSUME BotTypeOK, up # <<>>, got' = Append(got, Head(up)), up' = Tail(up)
  PROVE  Got' = Got /\ got' \in Seq(0..Terminal) /\ up' \in Seq(0..Terminal)
<1> DEFINE S == 0..Terminal
<1>1. got \in Seq(S) /\ up \in Seq(S)
  BY DEF BotTypeOK
<1> HIDE DEF S
<1>5. /\ Head(up) \in S /\ Tail(up) \in Seq(S) /\ Head(up) = up[1]
      /\ Len(up) \in Nat \ {0} /\ Len(Tail(up)) = Len(up) - 1
      /\ \A i \in 1..Len(up) - 1 : Tail(up)[i] = up[i + 1]
  BY <1>1, TailFacts
<1>2. up = <<Head(up)>> \o Tail(up)
  <2> DEFINE w == <<Head(up)>> \o Tail(up)
  <2>1. <<Head(up)>> \in Seq(S) /\ Len(<<Head(up)>>) = 1 /\ <<Head(up)>>[1] = Head(up)
    BY <1>5
  <2>2. /\ w \in Seq(S) /\ Len(w) = 1 + Len(Tail(up))
        /\ \A i \in 1..1 + Len(Tail(up)) :
             w[i] = IF i <= 1 THEN <<Head(up)>>[i] ELSE Tail(up)[i - 1]
    BY <1>5, <2>1, ConcatProperties
  <2>3. Len(w) = Len(up) /\ \A i \in 1..Len(w) : w[i] = up[i]
    BY <1>5, <2>1, <2>2
  <2> QED BY <1>1, <2>2, <2>3, SeqEqual
<1>3. Append(got, Head(up)) = got \o <<Head(up)>> /\ <<Head(up)>> \in Seq(S)
  BY <1>1, <1>5, AppendIsConcat
<1>4. (got \o <<Head(up)>>) \o Tail(up) = got \o (<<Head(up)>> \o Tail(up))
  BY ONLY <1>1, <1>3, <1>5, ConcatAssociative
<1>6. Append(got, Head(up)) \in Seq(S)
  BY <1>1, <1>5, AppendFacts
<1> QED BY <1>2, <1>3, <1>4, <1>5, <1>6 DEF Got, S

(* A client writes an action. *)
LEMMA GotGrows ==
  ASSUME BotTypeOK, NEW x \in 0..Terminal, got' = got, up' = Append(up, x)
  PROVE  Got' = Append(Got, x) /\ up' \in Seq(0..Terminal)
<1> DEFINE S == 0..Terminal
<1>1. got \in Seq(S) /\ up \in Seq(S) /\ x \in S
  BY DEF BotTypeOK
<1> HIDE DEF S
<1>2. Append(up, x) = up \o <<x>> /\ <<x>> \in Seq(S)
  BY <1>1, AppendIsConcat
<1>3. got \o up \in Seq(S)
  BY <1>1, ConcatProperties
<1>4. Append(got \o up, x) = (got \o up) \o <<x>>
  BY <1>1, <1>3, AppendIsConcat
<1>5. (got \o up) \o <<x>> = got \o (up \o <<x>>)
  BY ONLY <1>1, <1>2, ConcatAssociative
<1>6. Append(up, x) \in Seq(S)
  BY <1>1, AppendFacts
<1> QED BY <1>2, <1>4, <1>5, <1>6 DEF Got, S

-----------------------------------------------------------------------------
(* What each kind of step does to the order of the answers. *)

(* Nothing new is sent, asked or queued. *)
LEMMA OrderKept ==
  ASSUME BotTypeOK, OrderInv,
         Got' = Got, queue' = queue, kind' = kind, Asked \subseteq Asked',
         down' = down \/ down' = <<>>, thinking' \subseteq thinking,
         run' = "play" => run = "play" \/ queue = <<>>
  PROVE  OrderInv'
<1>1. Len(<<>>) = 0 /\ 1..0 = {}
  OBVIOUS
<1>2. UpdatesInv'
  BY <1>1 DEF OrderInv, UpdatesInv, Increasing
<1>3. GotInv'
  BY <1>1 DEF OrderInv, GotInv
<1>4. QueueInv'
  <2>1. queue = <<>> => 1..Len(queue) = {}
    BY <1>1
  <2>2. CASE run' = "play" /\ run # "play"
    BY <2>1, <2>2 DEF QueueInv, Increasing
  <2>3. CASE run' = "play" => run = "play"
    BY <1>1, <2>3 DEF OrderInv, QueueInv, Increasing
  <2> QED BY <2>2, <2>3
<1>5. PythonInv'
  BY DEF OrderInv, PythonInv, Python, Increasing
<1> QED BY <1>2, <1>3, <1>4, <1>5 DEF OrderInv

(* An action that comes after all that were sent joins them. *)
LEMMA GotAppended ==
  ASSUME BotTypeOK, GotInv, Asked' = Asked, down' = down, thinking' \subseteq thinking,
         NEW x \in {JoinAction} \cup Asked, Got' = Append(Got, x), x \notin thinking',
         \A j \in 1..Len(down) : x < down[j],
         \A i \in 1..Len(Got) : Got[i] # x,
         Got = <<>> => x = JoinAction
  PROVE  GotInv'
<1>1. Got \in Seq(0..Terminal) /\ Len(Got) \in Nat /\ x \in 0..Terminal
  BY GotFacts, AskedFacts, NumberFacts
<1>2. /\ Len(Got') = Len(Got) + 1
      /\ \A i \in 1..Len(Got) : Got'[i] = Got[i]
      /\ Got'[Len(Got) + 1] = x
  BY <1>1, AppendFacts
<1>3. \A i \in 1..Len(Got') :
        \/ i \in 1..Len(Got) /\ Got'[i] = Got[i]
        \/ i = Len(Got) + 1 /\ Got'[i] = x
  BY <1>1, <1>2
<1>4. \A i \in 1..Len(Got') :
        /\ Got'[i] \in {JoinAction} \cup Asked
        /\ Got'[i] \notin thinking'
        /\ \A j \in 1..Len(down) : Got'[i] < down[j]
  BY <1>3 DEF GotInv
<1>5. Got'[1] = JoinAction
  <2>1. CASE Got = <<>>
    BY <1>1, <1>2, <2>1
  <2>2. CASE Got # <<>>
    <3>1. 1 \in 1..Len(Got)
      BY <1>1, <2>2
    <3> QED BY <1>2, <2>2, <3>1 DEF GotInv
  <2> QED BY <2>1, <2>2
<1>6. \A i, j \in 1..Len(Got') : Got'[i] = Got'[j] => i = j
  BY <1>3 DEF GotInv
<1>7. JoinAction' = JoinAction
  BY DEF JoinAction
<1> QED BY <1>4, <1>5, <1>6, <1>7 DEF GotInv

(* An update that is sent comes after all the others. *)
LEMMA UpdateSent ==
  ASSUME BotTypeOK, OrderInv, server = "ask",
         Got' = Got, queue' = queue, kind' = kind, run' = run, thinking' = thinking,
         NEW u \in 1..Terminal, u \in Asked', u \notin Asked, Asked \subseteq Asked',
         down' = Append(down, u)
  PROVE  OrderInv'
<1>1. /\ \A v \in Asked : v < u
      /\ Asked \subseteq 1..Terminal /\ JoinAction < u
      /\ \A v \in Asked : v \in Int
  BY AskedFacts, NumberFacts DEF BotTypeOK
<1>2. down \in Seq(1..Terminal)
  BY DEF BotTypeOK
<1>3. /\ Len(down') = Len(down) + 1 /\ Len(down) \in Nat
      /\ \A i \in 1..Len(down) : down'[i] = down[i]
      /\ down'[Len(down) + 1] = u
  BY <1>2, AppendFacts
<1>4. \A i \in 1..Len(down') :
        \/ i \in 1..Len(down) /\ down'[i] = down[i] /\ down'[i] \in Asked
        \/ i = Len(down) + 1 /\ down'[i] = u
  BY <1>3 DEF OrderInv, UpdatesInv
<1>5. UpdatesInv'
  <2>1. \A i, j \in 1..Len(down') : i < j => down'[i] < down'[j]
    <3> SUFFICES ASSUME NEW i \in 1..Len(down'), NEW j \in 1..Len(down'), i < j
                 PROVE  down'[i] < down'[j]
      OBVIOUS
    <3>1. i \in 1..Len(down) /\ down'[i] = down[i] /\ down'[i] \in Asked
      BY <1>3, <1>4
    <3>2. CASE j \in 1..Len(down)
      BY <1>3, <3>1, <3>2 DEF OrderInv, UpdatesInv, Increasing
    <3>3. CASE j \notin 1..Len(down)
      BY <1>1, <1>4, <3>1, <3>3
    <3> QED BY <3>2, <3>3
  <2>2. \A v \in thinking : v \in Asked /\ v < u
    BY <1>1 DEF OrderInv, UpdatesInv
  <2>3. \A i \in 1..Len(down') : down'[i] \in Asked' /\ \A v \in thinking : v < down'[i]
    BY <1>4, <2>2 DEF OrderInv, UpdatesInv
  <2> QED BY <2>1, <2>2, <2>3 DEF UpdatesInv, Increasing
<1>6. GotInv'
  <2>1. \A i \in 1..Len(Got) : Got[i] < u
    BY <1>1 DEF OrderInv, GotInv
  <2>2. \A i \in 1..Len(Got), j \in 1..Len(down') : Got[i] < down'[j]
    BY <1>4, <2>1 DEF OrderInv, GotInv
  <2> QED BY <2>2 DEF OrderInv, GotInv
<1>7. QueueInv'
  <2>1. \A j \in 1..Len(queue) : queue[j] # Stop => queue[j] < u
    BY <1>1 DEF OrderInv, QueueInv
  <2>2. \A j \in 1..Len(queue), i \in 1..Len(down') : queue[j] # Stop => queue[j] < down'[i]
    BY <1>4, <2>1 DEF OrderInv, QueueInv
  <2> QED BY <2>2 DEF OrderInv, QueueInv, Increasing, Stop
<1>8. PythonInv'
  BY DEF OrderInv, PythonInv, Python, Increasing
<1> QED BY <1>5, <1>6, <1>7, <1>8 DEF OrderInv

(* The bot is shown the oldest update that is on its way. *)
LEMMA UpdateShown ==
  ASSUME BotTypeOK, OrderInv, down # <<>>, down' = Tail(down),
         Got' = Got, queue' = queue, kind' = kind, Asked' = Asked,
         run' = "play" => run = "play",
         thinking' \subseteq thinking \cup {Head(down)}
  PROVE  OrderInv'
<1>1. down \in Seq(1..Terminal)
  BY DEF BotTypeOK
<1>2. /\ Head(down) = down[1] /\ Len(down) \in Nat \ {0}
      /\ Len(down') = Len(down) - 1
      /\ \A i \in 1..Len(down') : down'[i] = down[i + 1]
  BY <1>1, TailFacts
<1>3. 1 \in 1..Len(down) /\ \A i \in 1..Len(down') : i + 1 \in 1..Len(down) /\ 1 < i + 1
  BY <1>2
<1>4. \A i \in 1..Len(down') : down'[i] = down[i + 1] /\ down[1] < down'[i]
  BY <1>2, <1>3 DEF OrderInv, UpdatesInv, Increasing
<1>5. \A u \in thinking' : u \in thinking \/ u = down[1]
  BY <1>2
<1>6. UpdatesInv'
  <2>1. \A i, j \in 1..Len(down') : i < j => down'[i] < down'[j]
    BY <1>2, <1>3 DEF OrderInv, UpdatesInv, Increasing
  <2>2. \A i \in 1..Len(down') : down'[i] \in Asked /\ \A u \in thinking' : u < down'[i]
    BY <1>3, <1>4, <1>5 DEF OrderInv, UpdatesInv
  <2>3. thinking' \subseteq Asked
    BY <1>3, <1>5 DEF OrderInv, UpdatesInv
  <2> QED BY <2>1, <2>2, <2>3 DEF UpdatesInv, Increasing
<1>7. \A i \in 1..Len(Got) : Got[i] < down[1] /\ Got[i] # down[1]
  <2>1. \A i \in 1..Len(Got) : Got[i] \in 0..Terminal
    BY GotFacts, ElementOfSeq
  <2>2. down[1] \in 1..Terminal
    BY <1>1, <1>3, ElementOfSeq
  <2> QED BY <1>3, <2>1, <2>2, NumberFacts DEF OrderInv, GotInv
<1>8. GotInv'
  <2>1. \A i \in 1..Len(Got), j \in 1..Len(down') : Got[i] < down'[j]
    BY <1>3, <1>4 DEF OrderInv, GotInv
  <2> QED BY <1>5, <1>7, <2>1 DEF OrderInv, GotInv
<1>9. QueueInv'
  <2>1. \A j \in 1..Len(queue) : queue[j] # Stop =>
          /\ \A u \in thinking' : queue[j] < u
          /\ \A i \in 1..Len(down') : queue[j] < down'[i]
    BY <1>3, <1>4, <1>5 DEF OrderInv, QueueInv
  <2> QED BY <2>1 DEF OrderInv, QueueInv, Increasing, Stop
<1>10. PythonInv'
  BY <1>5, <1>7 DEF OrderInv, PythonInv, Python, Increasing
<1> QED BY <1>6, <1>8, <1>9, <1>10 DEF OrderInv

(* Python: something is queued behind all the rest; the bot thinks about nothing. *)
Fits(q, r) ==
  /\ Increasing(q)
  /\ \A j \in 1..Len(q) :
       /\ q[j] \in Asked \cup {Stop}
       /\ q[j] = Stop => r # "play"
       /\ q[j] # Stop => \A i \in 1..Len(down) : q[j] < down[i]
       /\ \A i \in 1..Len(Got) : Got[i] < q[j]

LEMMA Queued ==
  ASSUME NEW q \in Seq(Actions), Fits(q, "play"), NEW u \in Asked \cup {Stop}, u \in Actions,
         \A j \in 1..Len(q) : q[j] < u,
         \A i \in 1..Len(Got) : Got[i] < u,
         u # Stop => \A i \in 1..Len(down) : u < down[i],
         NEW r, u = Stop => r # "play"
  PROVE  Append(q, u) \in Seq(Actions) /\ Fits(Append(q, u), r)
<1> DEFINE w == Append(q, u)
<1>1. /\ w \in Seq(Actions) /\ Len(w) = Len(q) + 1 /\ Len(q) \in Nat
      /\ \A i \in 1..Len(q) : w[i] = q[i]
      /\ w[Len(q) + 1] = u
  BY AppendFacts
<1> HIDE DEF w
<1>2. \A j \in 1..Len(w) :
        \/ j \in 1..Len(q) /\ w[j] = q[j]
        \/ j = Len(q) + 1 /\ w[j] = u
  BY <1>1
<1>3. ASSUME NEW i \in 1..Len(w), NEW j \in 1..Len(w), i < j
      PROVE  w[i] < w[j]
  <2>1. i \in 1..Len(q) /\ w[i] = q[i]
    BY <1>1, <1>2, <1>3
  <2>2. CASE j \in 1..Len(q)
    BY <1>1, <1>3, <2>1, <2>2 DEF Fits, Increasing
  <2>3. CASE j \notin 1..Len(q)
    BY <1>2, <2>1, <2>3
  <2> QED BY <2>2, <2>3
<1>4. ASSUME NEW j \in 1..Len(w)
      PROVE  /\ w[j] \in Asked \cup {Stop}
             /\ w[j] = Stop => r # "play"
             /\ w[j] # Stop => \A i \in 1..Len(down) : w[j] < down[i]
             /\ \A i \in 1..Len(Got) : Got[i] < w[j]
  <2>1. CASE w[j] = u
    BY <2>1
  <2>2. CASE j \in 1..Len(q) /\ w[j] = q[j]
    BY <2>2 DEF Fits
  <2> QED BY <1>2, <2>1, <2>2
<1>5. Fits(w, r)
  BY <1>3, <1>4 DEF Fits, Increasing
<1> QED BY <1>1, <1>5 DEF w

(* Python: the thread takes the oldest action from the queue. *)
LEMMA Taken ==
  ASSUME BotTypeOK, OrderInv, queue # <<>>, queue' = Tail(queue),
         Got # <<>>, Got' = Got \/ (Head(queue) # Stop /\ Got' = Append(Got, Head(queue))),
         kind' = kind, Asked' = Asked, down' = down, thinking' = thinking, run' = run
  PROVE  OrderInv'
<1>1. queue \in Seq(Actions) /\ Got \in Seq(0..Terminal) /\ Len(Got) \in Nat
  BY GotFacts DEF BotTypeOK
<1>2. /\ Head(queue) = queue[1] /\ Len(queue) \in Nat \ {0}
      /\ Len(queue') = Len(queue) - 1
      /\ \A i \in 1..Len(queue') : queue'[i] = queue[i + 1]
  BY <1>1, TailFacts
<1>3. 1 \in 1..Len(queue) /\ \A i \in 1..Len(queue') : i + 1 \in 1..Len(queue) /\ 1 < i + 1
  BY <1>2
<1>4. \A i \in 1..Len(queue') : queue'[i] = queue[i + 1] /\ queue[1] < queue'[i]
  BY <1>2, <1>3 DEF OrderInv, QueueInv, Increasing
<1>5. /\ \A i, j \in 1..Len(queue') : i < j => queue'[i] < queue'[j]
      /\ \A j \in 1..Len(queue') :
           /\ queue'[j] \in Asked \cup {Stop}
           /\ queue'[j] = Stop => run # "play"
           /\ queue'[j] # Stop => /\ \A v \in thinking : queue'[j] < v
                                  /\ \A i \in 1..Len(down) : queue'[j] < down[i]
           /\ \A i \in 1..Len(Got) : Got[i] < queue'[j]
  BY <1>2, <1>3, <1>4 DEF OrderInv, QueueInv, Increasing
<1>6. UpdatesInv'
  BY DEF OrderInv, UpdatesInv, Increasing
<1>7. CASE Got' = Got
  <2>1. QueueInv'
    BY <1>5, <1>7 DEF QueueInv, Increasing, Stop
  <2>2. GotInv' /\ PythonInv'
    BY <1>7 DEF OrderInv, GotInv, PythonInv, Python, Increasing, JoinAction
  <2> QED BY <1>6, <2>1, <2>2 DEF OrderInv
<1>8. CASE Head(queue) # Stop /\ Got' = Append(Got, Head(queue))
  <2> DEFINE x == queue[1]
  <2>1. /\ x # Stop /\ x \in Asked /\ x \in Int /\ x \in 0..Terminal
        /\ \A u \in thinking : x < u
        /\ \A j \in 1..Len(down) : x < down[j]
        /\ \A i \in 1..Len(Got) : Got[i] < x
    <3>1. /\ x # Stop /\ x \in Asked
          /\ \A u \in thinking : x < u
          /\ \A j \in 1..Len(down) : x < down[j]
          /\ \A i \in 1..Len(Got) : Got[i] < x
      BY <1>2, <1>3, <1>8 DEF OrderInv, QueueInv
    <3> QED BY <3>1, AskedFacts, NumberFacts
  <2>2. \A i \in 1..Len(Got) : Got[i] \in Int
    BY <1>1, ElementOfSeq, NumberFacts
  <2>3. x \notin thinking /\ \A i \in 1..Len(Got) : Got[i] # x
    BY <2>1, <2>2
  <2>4. GotInv'
    <3>1. Got' = Append(Got, x)
      BY <1>2, <1>8
    <3> HIDE DEF x
    <3> QED BY <2>1, <2>3, <3>1, GotAppended DEF OrderInv
  <2>5. /\ Len(Got') = Len(Got) + 1
        /\ \A i \in 1..Len(Got) : Got'[i] = Got[i]
        /\ Got'[Len(Got) + 1] = x
    BY <1>1, <1>2, <1>8, <2>1, AppendFacts
  <2>6. \A i \in 1..Len(Got') :
          \/ i \in 1..Len(Got) /\ Got'[i] = Got[i]
          \/ i = Len(Got) + 1 /\ Got'[i] = x
    BY <1>1, <2>5
  <2>7. QueueInv'
    <3>1. \A i \in 1..Len(Got'), j \in 1..Len(queue') : Got'[i] < queue'[j]
      BY <1>4, <1>5, <2>6
    <3> QED BY <1>5, <3>1 DEF QueueInv, Increasing, Stop
  <2>8. PythonInv'
    <3> SUFFICES ASSUME Python
                 PROVE  /\ \A i, j \in 1..Len(Got') : i < j => Got'[i] < Got'[j]
                        /\ \A i \in 1..Len(Got'), u \in thinking : Got'[i] < u
      BY DEF PythonInv, Python, Increasing
    <3>1. \A i \in 1..Len(Got'), u \in thinking : Got'[i] < u
      BY <2>1, <2>6 DEF OrderInv, PythonInv
    <3>2. ASSUME NEW i \in 1..Len(Got'), NEW j \in 1..Len(Got'), i < j
          PROVE  Got'[i] < Got'[j]
      <4>1. i \in 1..Len(Got) /\ Got'[i] = Got[i]
        BY <1>1, <2>5, <2>6, <3>2
      <4>2. CASE j \in 1..Len(Got)
        BY <2>5, <3>2, <4>1, <4>2 DEF OrderInv, PythonInv, Increasing
      <4>3. CASE j \notin 1..Len(Got)
        BY <2>1, <2>6, <4>1, <4>3
      <4> QED BY <4>2, <4>3
    <3> QED BY <3>1, <3>2
  <2> QED BY <1>6, <2>4, <2>7, <2>8 DEF OrderInv
<1> QED BY <1>7, <1>8

-----------------------------------------------------------------------------
(* The steps. *)
LEMMA InitBot == BotInit => BotInv
<1> SUFFICES ASSUME BotInit PROVE BotInv
  OBVIOUS
<1>1. <<>> \in Seq(BOOLEAN) /\ <<>> \in Seq(Actions) /\ <<>> \in Seq(0..Terminal)
      /\ <<>> \in Seq(1..Terminal) /\ Len(<<>>) = 0 /\ 1..0 = {}
  BY EmptySeq
<1>2. BotTypeOK
  <2>1. 0 <= Waits + 1 /\ 0 \in 0..Updates
    BY NumberFacts
  <2>2. /\ lobbyStream \in Seq(BOOLEAN) /\ Len(lobbyStream) <= Waits + 1
        /\ queue \in Seq(Actions) /\ up \in Seq(0..Terminal) /\ down \in Seq(1..Terminal)
        /\ got \in Seq(0..Terminal) /\ sent \in 0..Updates
    BY <1>1, <2>1 DEF BotInit
  <2>3. /\ kind \in Kinds /\ matchmaker \in {"open", "ended", "failed"}
        /\ run \in {"lobby", "ready", "play", "resolved", "rejected"}
        /\ thinking \subseteq 1..Terminal
        /\ kind = "python" => \A u, v \in thinking : u = v
        /\ kind # "python" => queue = <<>>
        /\ sender \in {"none", "join", "get", "ended"}
        /\ half \in BOOLEAN
        /\ server \in {"first", "ask", "answer", "over", "failed"}
    BY DEF BotInit
  <2> QED BY <2>2, <2>3 DEF BotTypeOK
<1>3. Got = <<>>
  BY <1>2, GotFacts DEF BotInit
<1>4. OrderInv
  BY <1>1, <1>3
  DEF BotInit, OrderInv, UpdatesInv, GotInv, QueueInv, PythonInv, Increasing
<1>5. PhaseInv
  BY <1>1, <1>3, NumberFacts DEF BotInit, PhaseInv
<1> QED BY <1>2, <1>4, <1>5 DEF BotInv, BotInit, ResolvedMeansOver

(* Nothing but the lobby stream changes, or how run stands to it. *)
LEMMA LobbyStreamSteps ==
  ASSUME BotInv, LobbyUpdate \/ LobbyStarts \/ LobbyEnds \/ JoinLobby
  PROVE  BotInv'
<1>1. UNCHANGED <<kind, thinking, queue, sender, up, half, down, server, sent, got>>
  BY DEF LobbyUpdate, LobbyStarts, LobbyEnds, JoinLobby, bot, playStream, play
<1>2. run' = run \/ (run = "lobby" /\ run' \in {"lobby", "ready", "rejected"})
  BY DEF LobbyUpdate, LobbyStarts, LobbyEnds, JoinLobby, bot
<1>3. Got' = Got /\ Asked' = Asked
  BY <1>1 DEF Got, Asked, Terminal
<1>4. lobbyStream' \in Seq(BOOLEAN) /\ Len(lobbyStream') <= Waits + 1
      /\ (matchmaker' = "open" => Len(lobbyStream') <= Waits)
  <2>1. lobbyStream \in Seq(BOOLEAN) /\ Len(lobbyStream) \in Nat
        /\ Len(lobbyStream) <= Waits + 1
        /\ (matchmaker = "open" => Len(lobbyStream) <= Waits)
    BY LenProperties DEF BotInv, BotTypeOK, PhaseInv
  <2>2. ASSUME NEW b \in BOOLEAN
        PROVE  Append(lobbyStream, b) \in Seq(BOOLEAN)
               /\ Len(Append(lobbyStream, b)) = Len(lobbyStream) + 1
    BY <2>1, AppendFacts
  <2>3. CASE LobbyUpdate
    BY <2>1, <2>2, <2>3, NumberFacts DEF LobbyUpdate
  <2>4. CASE LobbyStarts
    BY <2>1, <2>2, <2>4, NumberFacts DEF LobbyStarts
  <2>5. CASE LobbyEnds
    BY <2>1, <2>5 DEF LobbyEnds
  <2>6. CASE JoinLobby
    <3>1. lobbyStream # <<>> =>
            /\ Tail(lobbyStream) \in Seq(BOOLEAN)
            /\ Len(Tail(lobbyStream)) = Len(lobbyStream) - 1
      BY <2>1, TailFacts
    <3>2. matchmaker' = matchmaker /\ (lobbyStream' = lobbyStream
            \/ (lobbyStream # <<>> /\ lobbyStream' = Tail(lobbyStream)))
      BY <2>6 DEF JoinLobby
    <3> QED BY <2>1, <3>1, <3>2, NumberFacts
  <2> QED BY <2>3, <2>4, <2>5, <2>6
<1>5. matchmaker' \in {"open", "ended", "failed"}
  BY DEF LobbyUpdate, LobbyStarts, LobbyEnds, JoinLobby, BotInv, BotTypeOK
<1>6. BotTypeOK'
  BY <1>1, <1>2, <1>4, <1>5 DEF BotInv, BotTypeOK, Actions, Stop, Terminal
<1>7. OrderInv'
  BY <1>1, <1>2, <1>3, OrderKept DEF BotInv
<1>8. PhaseInv'
  <2>1. run' \in {"lobby", "ready"} => run \in {"lobby", "ready"}
    BY <1>2 DEF BotInv, BotTypeOK
  <2> QED BY <1>1, <1>3, <1>4, <2>1 DEF BotInv, PhaseInv
<1>9. ResolvedMeansOver'
  BY <1>1, <1>2 DEF BotInv, ResolvedMeansOver
<1> QED BY <1>6, <1>7, <1>8, <1>9 DEF BotInv

LEMMA BeginStep ==
  ASSUME BotInv, Begin
  PROVE  BotInv'
<1>1. /\ UNCHANGED <<kind, lobbyStream, matchmaker, thinking, queue, half, down, server,
                     sent, got>>
      /\ run = "ready" /\ run' = "play"
      /\ sender' = IF kind = "python" THEN "join" ELSE "none"
      /\ up' = IF kind = "node" THEN <<JoinAction>> ELSE <<>>
  BY DEF Begin, lobbyVars, play
<1>2. /\ server = "first" /\ got = <<>> /\ up = <<>> /\ queue = <<>>
      /\ Got = <<>> /\ thinking = {} /\ down = <<>>
  BY <1>1, GotFacts DEF BotInv, PhaseInv
<1>3. Asked' = Asked
  BY <1>1 DEF Asked, Terminal
<1>4. JoinAction \in 0..Terminal /\ <<JoinAction>> \in Seq(0..Terminal)
      /\ <<>> \in Seq(0..Terminal)
  <2>1. JoinAction \in 0..Terminal
    BY NumberFacts
  <2> QED BY <2>1, OneElement, EmptySeq
<1>5. BotTypeOK'
  <2>1. up' \in Seq(0..Terminal) /\ run' = "play" /\ sender' \in {"join", "none"}
    BY <1>1, <1>4
  <2> QED BY <1>1, <2>1 DEF BotInv, BotTypeOK, Actions, Stop, Terminal
<1>6. CASE kind = "node"
  <2>1. Got' = Append(Got, JoinAction)
    <3>1. up' = Append(up, JoinAction)
      BY <1>1, <1>2, <1>6
    <3> QED BY <1>1, <1>4, <3>1, GotGrows DEF BotInv
  <2>2. Got' # <<>>
    <3>1. Got' = <<JoinAction>>
      BY <1>2, <2>1
    <3> QED BY <3>1, <1>4, OneElement
  <2>3. 1..Len(<<>>) = {}
    OBVIOUS
  <2>4. GotInv'
    <3>1. JoinAction \in {JoinAction} \cup Asked /\ thinking' = {} /\ thinking = {}
          /\ down' = down
      BY <1>1, <1>2
    <3> QED BY <1>2, <1>3, <2>1, <2>3, <3>1, GotAppended DEF BotInv, OrderInv
  <2>5. UpdatesInv' /\ QueueInv' /\ PythonInv'
    BY <1>1, <1>2, <1>3, <1>6, <2>3
    DEF BotInv, OrderInv, UpdatesInv, QueueInv, PythonInv, Python, Increasing
  <2>6. PhaseInv'
    BY <1>1, <1>2, <1>6, <2>2 DEF BotInv, PhaseInv
  <2> QED BY <1>1, <1>2, <1>5, <2>4, <2>5, <2>6 DEF BotInv, OrderInv, ResolvedMeansOver
<1>7. CASE kind # "node"
  <2>1. Got' = Got
    BY <1>1, <1>2, <1>7 DEF Got
  <2>2. OrderInv'
    BY <1>1, <1>2, <1>3, <2>1, OrderKept DEF BotInv
  <2>3. PhaseInv'
    BY <1>1, <1>2, <1>7, <2>1 DEF BotInv, PhaseInv
  <2> QED BY <1>1, <1>2, <1>5, <2>2, <2>3 DEF BotInv, ResolvedMeansOver
<1> QED BY <1>6, <1>7

LEMMA SenderStep ==
  ASSUME BotInv, Sender
  PROVE  BotInv'
<1>1. /\ UNCHANGED <<kind, lobbyStream, matchmaker, run, thinking, down, server, sent, got>>
      /\ \/ /\ sender = "join" /\ sender' = "get" /\ up' = Append(up, JoinAction)
            /\ queue' = queue /\ half' = half
         \/ /\ sender = "get" /\ queue # <<>> /\ queue' = Tail(queue)
            /\ \/ sender' = "ended" /\ half' = TRUE /\ up' = up
               \/ /\ Head(queue) # Stop /\ up' = Append(up, Head(queue))
                  /\ sender' = sender /\ half' = half
  BY DEF Sender, lobbyVars, play
<1>2. Asked' = Asked
  BY <1>1 DEF Asked, Terminal
<1>3. JoinAction \in 0..Terminal
  BY NumberFacts
<1>4. up \in Seq(0..Terminal) /\ queue \in Seq(Actions)
  BY DEF BotInv, BotTypeOK
<1>5. run \notin {"lobby", "ready"}
  BY <1>1 DEF BotInv, PhaseInv
<1>6. CASE sender = "join"
  <2>1. /\ sender' = "get" /\ up' = Append(up, JoinAction)
        /\ queue' = queue /\ half' = half
    BY <1>1, <1>6
  <2>2. Got = <<>> /\ Got' = Append(Got, JoinAction)
    BY <1>1, <1>3, <1>6, <2>1, GotGrows DEF BotInv, PhaseInv
  <2>3. /\ Len(Got') = 1 /\ Got'[1] = JoinAction /\ Got' # <<>>
        /\ thinking = {} /\ down = <<>> /\ 1..Len(<<>>) = {}
    <3>1. Got' = <<JoinAction>>
      BY <2>2
    <3>2. thinking = {} /\ down = <<>>
      BY <2>2 DEF BotInv, PhaseInv
    <3> QED BY <3>1, <3>2, OneElement
  <2>4. BotTypeOK'
    <3>1. up' \in Seq(0..Terminal)
      BY <1>3, <1>4, <2>1, AppendFacts
    <3> QED BY <1>1, <2>1, <3>1 DEF BotInv, BotTypeOK, Actions, Stop, Terminal
  <2>5. GotInv'
    <3>1. JoinAction \in {JoinAction} \cup Asked /\ thinking' = {}
      BY <1>1, <2>3
    <3> QED BY <1>1, <1>2, <2>2, <2>3, <3>1, GotAppended DEF BotInv, OrderInv
  <2>6. QueueInv'
    <3>1. \A j \in 1..Len(queue) : JoinAction < queue[j]
      BY AskedFacts, NumberFacts DEF BotInv, OrderInv, QueueInv
    <3>2. \A i \in 1..Len(Got') : Got'[i] = JoinAction
      BY <2>3
    <3> QED BY <1>1, <1>2, <2>1, <3>1, <3>2
            DEF BotInv, OrderInv, QueueInv, Increasing, Stop, JoinAction
  <2>7. UpdatesInv' /\ PythonInv'
    <3>1. \A i, j \in 1..Len(Got') : ~(i < j)
      BY <2>3
    <3> QED BY <1>1, <1>2, <2>3, <3>1
            DEF BotInv, OrderInv, UpdatesInv, PythonInv, Python, Increasing
  <2>8. PhaseInv'
    BY <1>1, <1>5, <2>1, <2>3 DEF BotInv, PhaseInv
  <2> QED BY <1>1, <2>4, <2>5, <2>6, <2>7, <2>8 DEF BotInv, OrderInv, ResolvedMeansOver
<1>7. CASE sender = "get"
  <2>1. /\ queue # <<>> /\ queue' = Tail(queue)
        /\ \/ sender' = "ended" /\ half' = TRUE /\ up' = up
           \/ /\ Head(queue) # Stop /\ up' = Append(up, Head(queue))
              /\ sender' = sender /\ half' = half
    BY <1>1, <1>7
  <2>2. Tail(queue) \in Seq(Actions) /\ Head(queue) \in Actions
    BY <1>4, <2>1, TailFacts
  <2>3. Head(queue) # Stop => Head(queue) \in 0..Terminal
    BY <2>2, NumberFacts DEF Actions
  <2>4. up' \in Seq(0..Terminal)
    BY <1>4, <2>1, <2>3, AppendFacts
  <2>5. Got' = Got \/ (Head(queue) # Stop /\ Got' = Append(Got, Head(queue)))
    <3>1. CASE up' = up
      BY <1>1, <3>1 DEF Got
    <3>2. CASE Head(queue) # Stop /\ up' = Append(up, Head(queue))
      BY <1>1, <2>3, <3>2, GotGrows DEF BotInv
    <3> QED BY <2>1, <3>1, <3>2
  <2>6. Got # <<>> /\ Got' # <<>>
    <3>1. Got # <<>> /\ Got \in Seq(0..Terminal)
      BY <1>7, GotFacts DEF BotInv, PhaseInv
    <3> QED BY <2>3, <2>5, <3>1
  <2>7. kind = "python"
    BY <2>1 DEF BotInv, BotTypeOK
  <2>8. BotTypeOK'
    <3>1. sender' \in {"none", "join", "get", "ended"} /\ half' \in BOOLEAN
      BY <2>1 DEF BotInv, BotTypeOK
    <3> QED BY <1>1, <2>1, <2>2, <2>4, <2>7, <3>1
            DEF BotInv, BotTypeOK, Actions, Stop, Terminal
  <2>9. OrderInv'
    BY <1>1, <1>2, <2>1, <2>5, <2>6, Taken DEF BotInv
  <2>10. PhaseInv'
    BY <1>1, <1>5, <1>7, <2>1, <2>6 DEF BotInv, PhaseInv
  <2> QED BY <1>1, <2>8, <2>9, <2>10 DEF BotInv, ResolvedMeansOver
<1> QED BY <1>1, <1>6, <1>7

(* The bot is shown an update, or, in the web client, the terminal one is not. *)
LEMMA ShownSteps ==
  ASSUME BotInv, NextUpdate \/ OnData
  PROVE  BotInv'
<1>1. /\ UNCHANGED <<kind, lobbyStream, matchmaker, queue, sender, up, server, sent, got>>
      /\ down # <<>> /\ down' = Tail(down)
  BY DEF NextUpdate, OnData, lobbyVars, play
<1>2. /\ \/ thinking' = {Head(down)} /\ thinking = {}
         \/ thinking' = thinking /\ ~Python
         \/ thinking' = thinking \cup {Head(down)} /\ ~Python
      /\ half' \in {half, TRUE}
      /\ run' = run \/ (run = "play" /\ run' = "resolved" /\ Head(down) = Terminal)
  BY DEF NextUpdate, OnData, Settle, TypeScript, Python
<1>3. Got' = Got /\ Asked' = Asked
  BY <1>1 DEF Got, Asked, Terminal
<1>4. down \in Seq(1..Terminal)
  BY DEF BotInv, BotTypeOK
<1>5. /\ Head(down) \in 1..Terminal /\ Tail(down) \in Seq(1..Terminal)
      /\ Head(down) = down[1] /\ 1 \in 1..Len(down)
  <2> HIDE DEF Terminal
  <2>1. /\ Head(down) \in 1..Terminal /\ Tail(down) \in Seq(1..Terminal)
        /\ Head(down) = down[1] /\ Len(down) \in Nat \ {0}
    BY <1>1, <1>4, TailFacts
  <2> QED BY <2>1
<1>6. BotTypeOK'
  <2>1. thinking' \subseteq 1..Terminal
    BY <1>2, <1>5 DEF BotInv, BotTypeOK
  <2>2. kind' = "python" => \A u, v \in thinking' : u = v
    BY <1>1, <1>2 DEF Python
  <2>3. half' \in BOOLEAN /\ run' \in {"lobby", "ready", "play", "resolved", "rejected"}
    BY <1>2 DEF BotInv, BotTypeOK
  <2> QED BY <1>1, <1>5, <2>1, <2>2, <2>3 DEF BotInv, BotTypeOK, Actions, Stop, Terminal
<1>7. OrderInv'
  BY <1>1, <1>2, <1>3, UpdateShown DEF BotInv
<1>8. PhaseInv'
  BY <1>1, <1>2, <1>3 DEF BotInv, PhaseInv
<1>9. ResolvedMeansOver'
  <2>1. Head(down) = Terminal => server = "over"
    BY <1>5, AskedFacts DEF BotInv, OrderInv, UpdatesInv
  <2> QED BY <1>1, <1>2, <2>1 DEF BotInv, ResolvedMeansOver
<1> QED BY <1>6, <1>7, <1>8, <1>9 DEF BotInv

LEMMA AnswerStep ==
  ASSUME BotInv, Answer
  PROVE  BotInv'
<1>1. /\ UNCHANGED <<kind, lobbyStream, matchmaker, sender, up, half, down, server, sent, got>>
      /\ Python /\ run = "play"
  BY DEF Answer, lobbyVars, playStream, play
<1>2. PICK u \in thinking :
        /\ queue' = IF u = Terminal THEN queue \o <<u, Stop>> ELSE Append(queue, u)
        /\ run' = IF u = Terminal THEN "resolved" ELSE "play"
        /\ thinking' = thinking \ {u}
  BY DEF Answer
<1>3. Got' = Got /\ Asked' = Asked
  BY <1>1 DEF Got, Asked, Terminal
<1>4. /\ u \in 1..Terminal /\ u \in Actions /\ u # Stop /\ Stop \in Actions
      /\ thinking' = {} /\ queue \in Seq(Actions)
  BY <1>1, <1>2, NumberFacts DEF BotInv, BotTypeOK, Python, Actions
<1>5. Append(queue, u) \in Seq(Actions) /\ Len(queue) \in Nat
      /\ Len(Append(queue, u)) = Len(queue) + 1
  BY <1>4, AppendFacts
<1>6. u = Terminal => server = "over"
  BY AskedFacts DEF BotInv, OrderInv, UpdatesInv
<1>7. queue' = IF u = Terminal THEN Append(Append(queue, u), Stop) ELSE Append(queue, u)
  <2>1. ASSUME u = Terminal
        PROVE  queue \o <<u, Stop>> = Append(Append(queue, u), Stop)
    <3> DEFINE S == Actions
    <3>1. queue \in Seq(S) /\ u \in S /\ Stop \in S /\ Append(queue, u) \in Seq(S)
      BY <1>4, <1>5
    <3> HIDE DEF S
    <3>2. /\ <<u>> \in Seq(S) /\ <<Stop>> \in Seq(S) /\ <<u, Stop>> = <<u>> \o <<Stop>>
          /\ Append(queue, u) = queue \o <<u>>
          /\ Append(Append(queue, u), Stop) = Append(queue, u) \o <<Stop>>
      BY <3>1, AppendIsConcat
    <3>3. (queue \o <<u>>) \o <<Stop>> = queue \o (<<u>> \o <<Stop>>)
      BY ONLY <3>1, <3>2, ConcatAssociative
    <3> QED BY <3>2, <3>3
  <2> QED BY <1>2, <2>1
<1>8. BotTypeOK'
  <2>1. queue' \in Seq(Actions)
    BY <1>4, <1>5, <1>7, AppendFacts
  <2>2. run' \in {"resolved", "play"}
    BY <1>2
  <2> QED BY <1>1, <1>4, <2>1, <2>2 DEF BotInv, BotTypeOK, Actions, Stop, Terminal, Python
<1>9. OrderInv'
  <2>1. /\ Fits(queue, "play")
        /\ \A j \in 1..Len(queue) : queue[j] < u
        /\ \A i \in 1..Len(Got) : Got[i] < u
        /\ \A i \in 1..Len(down) : u < down[i]
        /\ u \in Asked
    BY <1>1 DEF BotInv, OrderInv, UpdatesInv, QueueInv, PythonInv, Fits
  <2>2. \A r : Append(queue, u) \in Seq(Actions) /\ Fits(Append(queue, u), r)
    BY <1>4, <2>1, Queued
  <2>3. Fits(queue', run')
    <3>1. CASE u # Terminal
      BY <1>2, <2>2, <3>1
    <3>2. CASE u = Terminal
      <4> DEFINE w == Append(queue, u)
      <4>1. w \in Seq(Actions) /\ Fits(w, "play") /\ run' # "play" /\ queue' = Append(w, Stop)
        BY <1>2, <1>7, <2>2, <3>2
      <4> HIDE DEF w
      <4>2. /\ \A v \in Asked : v < Stop
            /\ JoinAction < Stop /\ Stop \notin Asked
        BY AskedFacts, NumberFacts DEF BotInv
      <4>3. /\ \A j \in 1..Len(w) : w[j] < Stop
            /\ \A i \in 1..Len(Got) : Got[i] < Stop
        BY <4>1, <4>2 DEF BotInv, OrderInv, GotInv, Fits
      <4>4. Fits(Append(w, Stop), run')
        BY <1>4, <4>1, <4>3, Queued
      <4> QED BY <4>1, <4>4
    <3> QED BY <3>1, <3>2
  <2>4. QueueInv'
    BY <1>1, <1>3, <1>4, <2>3 DEF QueueInv, Fits, Increasing, Stop
  <2>5. UpdatesInv' /\ GotInv' /\ PythonInv'
    BY <1>1, <1>3, <1>4
    DEF BotInv, OrderInv, UpdatesInv, GotInv, PythonInv, Python, Increasing, JoinAction
  <2> QED BY <2>4, <2>5 DEF OrderInv
<1>10. PhaseInv'
  BY <1>1, <1>2, <1>3, <1>4 DEF BotInv, PhaseInv
<1>11. ResolvedMeansOver'
  BY <1>1, <1>2, <1>6 DEF BotInv, ResolvedMeansOver
<1> QED BY <1>8, <1>9, <1>10, <1>11 DEF BotInv

(* The run ends in another way; what the bot was thinking about is dropped. *)
LEMMA EndSteps ==
  ASSUME BotInv, BotRaises \/ BotRejects \/ OnEnd
  PROVE  BotInv'
<1>1. /\ UNCHANGED <<kind, lobbyStream, matchmaker, queue, sender, up, down, server, sent, got>>
      /\ thinking' \subseteq thinking
      /\ half' \in {half, TRUE}
  BY DEF BotRaises, BotRejects, OnEnd, lobbyVars, playStream, play
<1>2. /\ run' \in {run, "rejected", "resolved"}
      /\ run' = "resolved" => run = "resolved" \/ server = "over"
      /\ run' \in {"lobby", "ready", "play"} => run = run'
  BY DEF BotRaises, BotRejects, OnEnd, Settle
<1>3. Got' = Got /\ Asked' = Asked
  BY <1>1 DEF Got, Asked, Terminal
<1>4. BotTypeOK'
  <2>1. half' \in BOOLEAN /\ run' \in {"lobby", "ready", "play", "resolved", "rejected"}
    BY <1>1, <1>2 DEF BotInv, BotTypeOK
  <2> QED BY <1>1, <2>1 DEF BotInv, BotTypeOK, Actions, Stop, Terminal
<1>5. OrderInv'
  BY <1>1, <1>2, <1>3, OrderKept DEF BotInv
<1>6. PhaseInv'
  BY <1>1, <1>2, <1>3 DEF BotInv, PhaseInv
<1>7. ResolvedMeansOver'
  BY <1>1, <1>2 DEF BotInv, ResolvedMeansOver
<1> QED BY <1>4, <1>5, <1>6, <1>7 DEF BotInv

LEMMA StreamErrorStep ==
  ASSUME BotInv, StreamError
  PROVE  BotInv'
<1>1. /\ UNCHANGED <<kind, lobbyStream, matchmaker, thinking, sender, up, half, down, server,
                     sent, got>>
      /\ Python /\ run = "play" /\ thinking = {} /\ server = "failed"
      /\ run' = "rejected" /\ queue' = Append(queue, Stop)
  BY DEF StreamError, lobbyVars, playStream, play
<1>2. Got' = Got /\ Asked' = Asked
  BY <1>1 DEF Got, Asked, Terminal
<1>3. queue \in Seq(Actions) /\ Stop \in Actions
  BY NumberFacts DEF BotInv, BotTypeOK, Actions
<1>4. Fits(queue, "play") /\ \A j \in 1..Len(queue) : queue[j] # Stop
  BY <1>1 DEF BotInv, OrderInv, QueueInv, Fits
<1>5. /\ \A j \in 1..Len(queue) : queue[j] < Stop
      /\ \A i \in 1..Len(Got) : Got[i] < Stop
  <2>1. (\A v \in Asked : v < Stop) /\ JoinAction < Stop
    BY AskedFacts, NumberFacts DEF BotInv
  <2> QED BY <1>4, <2>1 DEF BotInv, OrderInv, GotInv, Fits
<1>6. queue' \in Seq(Actions) /\ Fits(queue', run')
  BY <1>1, <1>3, <1>4, <1>5, Queued
<1>7. BotTypeOK'
  BY <1>1, <1>6 DEF BotInv, BotTypeOK, Actions, Stop, Terminal, Python
<1>8. OrderInv'
  <2>1. QueueInv'
    BY <1>1, <1>2, <1>6 DEF QueueInv, Fits, Increasing, Stop
  <2>2. UpdatesInv' /\ GotInv' /\ PythonInv'
    BY <1>1, <1>2
    DEF BotInv, OrderInv, UpdatesInv, GotInv, PythonInv, Python, Increasing, JoinAction
  <2> QED BY <2>1, <2>2 DEF OrderInv
<1>9. PhaseInv'
  BY <1>1, <1>2 DEF BotInv, PhaseInv
<1>10. ResolvedMeansOver'
  BY <1>1 DEF ResolvedMeansOver
<1> QED BY <1>7, <1>8, <1>9, <1>10 DEF BotInv

LEMMA BotAnswersStep ==
  ASSUME BotInv, BotAnswers
  PROVE  BotInv'
<1>1. /\ UNCHANGED <<kind, lobbyStream, matchmaker, queue, sender, down, server, sent, got>>
      /\ ~Python
  BY DEF BotAnswers, lobbyVars, play, TypeScript, Python
<1>2. PICK u \in thinking :
        /\ thinking' = thinking \ {u}
        /\ \/ /\ u = Terminal /\ half' = TRUE /\ up' = up
              /\ (run' = run \/ run' = "resolved")
           \/ /\ up' = up \/ up' = Append(up, u)
              /\ run' = run /\ half' = half
  BY DEF BotAnswers, Settle
<1>3. Asked' = Asked
  BY <1>1 DEF Asked, Terminal
<1>4. u \in 1..Terminal /\ u \in 0..Terminal /\ u \in Asked /\ u \notin thinking'
  BY <1>2, NumberFacts DEF BotInv, BotTypeOK, OrderInv, UpdatesInv
<1>5. queue = <<>> /\ up \in Seq(0..Terminal)
  BY <1>1 DEF BotInv, BotTypeOK, Python
<1>6. Got # <<>> /\ Got \in Seq(0..Terminal)
  BY GotFacts DEF BotInv, PhaseInv
<1>7. (Got' = Got \/ Got' = Append(Got, u)) /\ up' \in Seq(0..Terminal)
  <2>1. CASE up' = up
    BY <1>1, <1>5, <2>1 DEF Got
  <2>2. CASE up' = Append(up, u)
    BY <1>1, <1>4, <2>2, GotGrows DEF BotInv
  <2> QED BY <1>2, <2>1, <2>2
<1>8. Got' # <<>>
  BY <1>4, <1>6, <1>7
<1>9. run' \in {run, "resolved"} /\ (run' = "resolved" => run = "resolved" \/ u = Terminal)
  BY <1>2
<1>10. BotTypeOK'
  <2>1. half' \in BOOLEAN /\ run' \in {"lobby", "ready", "play", "resolved", "rejected"}
    BY <1>2 DEF BotInv, BotTypeOK
  <2> QED BY <1>1, <1>2, <1>7, <2>1 DEF BotInv, BotTypeOK, Actions, Stop, Terminal
<1>11. OrderInv'
  <2>1. CASE Got' = Got
    BY <1>1, <1>2, <1>3, <1>9, <2>1, OrderKept DEF BotInv
  <2>2. CASE Got' = Append(Got, u)
    <3>1. GotInv'
      <4>1. \A i \in 1..Len(Got) : Got[i] # u
        BY DEF BotInv, OrderInv, GotInv
      <4>2. \A j \in 1..Len(down) : u < down[j]
        BY DEF BotInv, OrderInv, UpdatesInv
      <4>3. u \in {JoinAction} \cup Asked /\ thinking' \subseteq thinking
        BY <1>2, <1>4
      <4> QED BY <1>1, <1>3, <1>4, <1>6, <2>2, <4>1, <4>2, <4>3, GotAppended
              DEF BotInv, OrderInv
    <3>2. 1..Len(<<>>) = {}
      OBVIOUS
    <3>3. UpdatesInv' /\ QueueInv' /\ PythonInv'
      BY <1>1, <1>2, <1>3, <1>5, <3>2
      DEF BotInv, OrderInv, UpdatesInv, QueueInv, PythonInv, Python, Increasing
    <3> QED BY <3>1, <3>3 DEF OrderInv
  <2> QED BY <1>7, <2>1, <2>2
<1>12. PhaseInv'
  <2>1. run \notin {"lobby", "ready"} /\ sender # "join"
    BY <1>6, GotFacts DEF BotInv, PhaseInv
  <2> QED BY <1>1, <1>8, <1>9, <2>1 DEF BotInv, PhaseInv
<1>13. ResolvedMeansOver'
  BY <1>1, <1>4, <1>9, AskedFacts DEF BotInv, ResolvedMeansOver
<1> QED BY <1>10, <1>11, <1>12, <1>13 DEF BotInv

(* The server reads a message. *)
LEMMA ReadSteps ==
  ASSUME BotInv, First \/ GetAnswer
  PROVE  BotInv'
<1>1. /\ UNCHANGED <<kind, lobbyStream, matchmaker, run, thinking, queue, sender, half, down,
                     sent>>
      /\ up # <<>> /\ up' = Tail(up)
      /\ server \in {"first", "answer"} /\ server' = "ask"
      /\ got' = IF server = "first" THEN <<Head(up)>> ELSE Append(got, Head(up))
  BY DEF First, GetAnswer, lobbyVars, bot
<1>2. got' = Append(got, Head(up))
  BY <1>1 DEF BotInv, PhaseInv
<1>3. Got' = Got /\ Asked' = Asked
  BY <1>1, <1>2, GotMoves DEF BotInv, Asked, Terminal
<1>4. Got # <<>> /\ run \notin {"lobby", "ready"}
  BY <1>1, GotFacts DEF BotInv, PhaseInv
<1>5. BotTypeOK'
  <2>1. got' \in Seq(0..Terminal) /\ up' \in Seq(0..Terminal)
    BY <1>1, <1>2, GotMoves DEF BotInv
  <2> QED BY <1>1, <2>1 DEF BotInv, BotTypeOK, Actions, Stop, Terminal
<1>6. OrderInv'
  BY <1>1, <1>3, OrderKept DEF BotInv
<1>7. PhaseInv'
  BY <1>1, <1>3, <1>4 DEF BotInv, PhaseInv
<1>8. ResolvedMeansOver'
  BY <1>1 DEF BotInv, ResolvedMeansOver
<1> QED BY <1>5, <1>6, <1>7, <1>8 DEF BotInv

(* The server sends an update. *)
LEMMA AskSteps ==
  ASSUME BotInv, Ask \/ GameOver
  PROVE  BotInv'
<1> DEFINE u == IF server' = "over" THEN Terminal ELSE sent + 1
<1>1. /\ UNCHANGED <<kind, lobbyStream, matchmaker, run, thinking, queue, sender, up, half, got>>
      /\ server = "ask" /\ server' \in {"answer", "over"}
      /\ sent' = IF server' = "over" THEN sent ELSE sent + 1
      /\ server' # "over" => sent < Updates
      /\ down' = Append(down, u)
  BY DEF Ask, GameOver, lobbyVars, bot
<1>2. /\ sent \in 0..Updates /\ sent' \in 0..Updates /\ u \in 1..Terminal
      /\ u \in Asked' /\ u \notin Asked /\ Asked \subseteq Asked'
  BY <1>1, NumberFacts DEF BotInv, BotTypeOK, Asked
<1>3. Got' = Got
  BY <1>1 DEF Got
<1>4. down \in Seq(1..Terminal)
  BY DEF BotInv, BotTypeOK
<1> HIDE DEF u
<1>5. BotTypeOK'
  <2>1. down' \in Seq(1..Terminal)
    BY <1>1, <1>2, <1>4, AppendFacts
  <2> QED BY <1>1, <1>2, <2>1 DEF BotInv, BotTypeOK, Actions, Stop, Terminal
<1>6. OrderInv'
  BY <1>1, <1>2, <1>3, UpdateSent DEF BotInv
<1>7. PhaseInv'
  BY <1>1, <1>3 DEF BotInv, PhaseInv
<1>8. ResolvedMeansOver'
  BY <1>1 DEF BotInv, ResolvedMeansOver
<1> QED BY <1>5, <1>6, <1>7, <1>8 DEF BotInv

LEMMA FailSteps ==
  ASSUME BotInv, TimesOut \/ Fails
  PROVE  BotInv'
<1>1. /\ UNCHANGED <<kind, lobbyStream, matchmaker, run, thinking, queue, sender, up, half,
                     sent, got>>
      /\ server # "over" /\ server' \in {"ask", "failed"}
      /\ server' = "ask" => server = "answer"
      /\ server' = "failed" => run \notin {"lobby", "ready"}
      /\ down' \in {down, <<>>}
  BY DEF TimesOut, Fails, lobbyVars, bot, playStream
<1>2. Got' = Got /\ Asked' = Asked
  BY <1>1 DEF Got, Asked, Terminal
<1>3. BotTypeOK'
  <2>1. down' \in Seq(1..Terminal)
    BY <1>1, EmptySeq DEF BotInv, BotTypeOK
  <2> QED BY <1>1, <2>1 DEF BotInv, BotTypeOK, Actions, Stop, Terminal
<1>4. OrderInv'
  BY <1>1, <1>2, OrderKept DEF BotInv
<1>5. PhaseInv'
  BY <1>1, <1>2 DEF BotInv, PhaseInv
<1>6. ResolvedMeansOver'
  BY <1>1 DEF BotInv, ResolvedMeansOver
<1> QED BY <1>3, <1>4, <1>5, <1>6 DEF BotInv

LEMMA StepBot == BotInv /\ [BotNext]_botVars => BotInv'
<1> SUFFICES ASSUME BotInv, [BotNext]_botVars PROVE BotInv'
  OBVIOUS
<1>1. CASE LobbyUpdate \/ LobbyStarts \/ LobbyEnds \/ JoinLobby
  BY <1>1, LobbyStreamSteps
<1>2. CASE Begin
  BY <1>2, BeginStep
<1>3. CASE PythonStep
  BY <1>3, SenderStep, ShownSteps, AnswerStep, EndSteps, StreamErrorStep DEF PythonStep
<1>4. CASE TypeScriptStep
  BY <1>4, ShownSteps, BotAnswersStep, EndSteps DEF TypeScriptStep
<1>5. CASE First \/ Ask \/ GetAnswer \/ TimesOut \/ GameOver \/ Fails
  BY <1>5, ReadSteps, AskSteps, FailSteps
<1>6. CASE UNCHANGED botVars
  <2>1. /\ UNCHANGED <<kind, lobbyStream, matchmaker, run, thinking, queue, sender>>
        /\ UNCHANGED <<up, half, down, server, sent, got>>
    BY <1>6 DEF botVars, lobbyVars, bot, playStream, play
  <2>2. Got' = Got /\ Asked' = Asked
    BY <2>1 DEF Got, Asked, Terminal
  <2>3. BotTypeOK'
    BY <2>1 DEF BotInv, BotTypeOK, Actions, Stop, Terminal
  <2>4. OrderInv'
    BY <2>1, <2>2, OrderKept DEF BotInv
  <2>5. PhaseInv' /\ ResolvedMeansOver'
    BY <2>1, <2>2 DEF BotInv, PhaseInv, ResolvedMeansOver
  <2> QED BY <2>3, <2>4, <2>5 DEF BotInv
<1> QED BY <1>1, <1>2, <1>3, <1>4, <1>5, <1>6 DEF BotNext

THEOREM BotInvariant == BotSpec => []BotInv
<1> QED BY InitBot, StepBot, PTL DEF BotSpec

(* A run that returns normally follows a game that ended normally. *)
THEOREM ResolvedRunsAreOver == BotSpec => []ResolvedMeansOver
<1>1. BotInv => ResolvedMeansOver
  BY DEF BotInv
<1> QED BY <1>1, BotInvariant, PTL

(* The invariant says of the whole sequence of answers what it says of its parts. *)
LEMMA AnswersAreAsked == BotInv => UpdatesAreAnswered
<1> SUFFICES ASSUME BotInv PROVE UpdatesAreAnswered
  OBVIOUS
<1>1. /\ Got \in Seq(0..Terminal) /\ got \in Seq(0..Terminal) /\ up \in Seq(0..Terminal)
      /\ queue \in Seq(Actions)
  BY GotFacts DEF BotInv, BotTypeOK
<1>2. Got \in Seq(Actions)
  <2>1. 0..Terminal \subseteq Actions
    BY NumberFacts DEF Actions
  <2> QED BY <1>1, <2>1, SeqMonotonic
<1>3. Answers = Got \o queue
  BY DEF Answers, Got
<1>4. /\ Answers \in Seq(Actions) /\ Len(Answers) = Len(Got) + Len(queue)
      /\ \A i \in 1..Len(Got) + Len(queue) :
           Answers[i] = IF i <= Len(Got) THEN Got[i] ELSE queue[i - Len(Got)]
  BY <1>1, <1>2, <1>3, ConcatProperties
<1>5. Len(Got) \in Nat /\ Len(queue) \in Nat /\ DOMAIN Answers = 1..Len(Answers)
  BY <1>1, <1>4, LenProperties
<1>6. ASSUME NEW i \in DOMAIN Answers
      PROVE  \/ i \in 1..Len(Got) /\ Answers[i] = Got[i]
             \/ i - Len(Got) \in 1..Len(queue) /\ Answers[i] = queue[i - Len(Got)]
  BY <1>4, <1>5
<1>7. ASSUME NEW i \in DOMAIN Answers
      PROVE  Answers[i] \in {JoinAction, Terminal, Stop} \cup 1..sent
  <2>1. Asked \subseteq 1..sent \cup {Terminal}
    BY DEF Asked
  <2>2. CASE i \in 1..Len(Got) /\ Answers[i] = Got[i]
    <3>1. Got[i] \in {JoinAction} \cup Asked
      BY <2>2 DEF BotInv, OrderInv, GotInv
    <3> QED BY <2>1, <2>2, <3>1
  <2>3. CASE i - Len(Got) \in 1..Len(queue) /\ Answers[i] = queue[i - Len(Got)]
    <3>1. queue[i - Len(Got)] \in Asked \cup {Stop}
      BY <2>3 DEF BotInv, OrderInv, QueueInv
    <3> QED BY <2>1, <2>3, <3>1
  <2> QED BY <1>6, <2>2, <2>3
<1>8. \A i \in DOMAIN Answers : Answers[i] \in Int
  <2>1. sent \in Nat
    BY NumberFacts DEF BotInv, BotTypeOK
  <2> QED BY <1>7, <2>1, NumberFacts
<1>9. ASSUME NEW i \in DOMAIN Answers, NEW j \in DOMAIN Answers, Answers[i] = Answers[j]
      PROVE  i = j
  <2>1. \A k \in 1..Len(Got), l \in 1..Len(queue) : Got[k] < queue[l]
    BY DEF BotInv, OrderInv, QueueInv
  <2>2. \A k, l \in 1..Len(Got) : Got[k] = Got[l] => k = l
    BY DEF BotInv, OrderInv, GotInv
  <2>3. \A k, l \in 1..Len(queue) : queue[k] = queue[l] => k = l
    <3>1. \A k, l \in 1..Len(queue) : k < l => queue[k] < queue[l]
      BY DEF BotInv, OrderInv, QueueInv, Increasing
    <3>2. \A k \in 1..Len(queue) : queue[k] \in Int
      BY <1>1, ElementOfSeq, NumberFacts DEF Actions
    <3> QED BY <1>5, <3>1, <3>2
  <2>4. i \in Int /\ j \in Int
    BY <1>5
  <2>5. CASE i \in 1..Len(Got) /\ Answers[i] = Got[i]
    <3>1. CASE j \in 1..Len(Got) /\ Answers[j] = Got[j]
      BY <1>9, <2>2, <2>5, <3>1
    <3>2. CASE j - Len(Got) \in 1..Len(queue) /\ Answers[j] = queue[j - Len(Got)]
      <4>1. Answers[i] < Answers[j]
        BY <2>1, <2>5, <3>2
      <4> QED BY <1>8, <1>9, <4>1
    <3> QED BY <1>6, <3>1, <3>2
  <2>6. CASE i - Len(Got) \in 1..Len(queue) /\ Answers[i] = queue[i - Len(Got)]
    <3>1. CASE j \in 1..Len(Got) /\ Answers[j] = Got[j]
      <4>1. Answers[j] < Answers[i]
        BY <2>1, <2>6, <3>1
      <4> QED BY <1>8, <1>9, <4>1
    <3>2. CASE j - Len(Got) \in 1..Len(queue) /\ Answers[j] = queue[j - Len(Got)]
      <4>1. i - Len(Got) = j - Len(Got)
        BY <1>9, <2>3, <2>6, <3>2
      <4> QED BY <1>5, <2>4, <4>1
    <3> QED BY <1>6, <3>1, <3>2
  <2> QED BY <1>6, <2>5, <2>6
<1>10. IsInjective(Answers)
  BY <1>9 DEF IsInjective
<1>11. got # <<>> => Head(got) = JoinAction
  <2>1. CASE got # <<>>
    <3>1. Got[1] = got[1] /\ Got # <<>> /\ Head(got) = got[1]
      <4>1. Len(got) \in Nat \ {0} /\ Len(up) \in Nat /\ Head(got) = got[1]
        BY <1>1, <2>1, TailFacts, LenProperties
      <4>2. 1 \in 1..Len(got) + Len(up) /\ 1 <= Len(got)
        BY <4>1
      <4>3. Got[1] = got[1]
        BY <1>1, <4>2, ConcatProperties DEF Got
      <4> QED BY <2>1, <4>1, <4>3, GotFacts DEF BotInv
    <3> QED BY <3>1 DEF BotInv, OrderInv, GotInv
  <2> QED BY <2>1
<1>12. ASSUME Python, NEW i \in DOMAIN Answers, NEW j \in DOMAIN Answers, i < j
       PROVE  Answers[i] < Answers[j]
  <2>1. /\ \A k \in 1..Len(Got), l \in 1..Len(queue) : Got[k] < queue[l]
        /\ \A k, l \in 1..Len(Got) : k < l => Got[k] < Got[l]
        /\ \A k, l \in 1..Len(queue) : k < l => queue[k] < queue[l]
    BY <1>12 DEF BotInv, OrderInv, QueueInv, PythonInv, Increasing
  <2>2. i \in Int /\ j \in Int
    BY <1>5
  <2>3. CASE i \in 1..Len(Got) /\ Answers[i] = Got[i]
    BY <1>6, <1>12, <2>1, <2>3
  <2>4. CASE i - Len(Got) \in 1..Len(queue) /\ Answers[i] = queue[i - Len(Got)]
    <3>1. i > Len(Got) /\ i - Len(Got) < j - Len(Got)
      BY <1>5, <1>12, <2>2, <2>4
    <3>2. j - Len(Got) \in 1..Len(queue) /\ Answers[j] = queue[j - Len(Got)]
      BY <1>5, <1>6, <1>12, <2>2, <3>1
    <3> QED BY <2>1, <2>4, <3>1, <3>2
  <2> QED BY <1>6, <2>3, <2>4
<1>13. ToSet(Answers) \subseteq {JoinAction, Terminal, Stop} \cup 1..sent
  BY <1>7 DEF ToSet
<1>14. BotTypeOK
  BY DEF BotInv
<1> QED BY <1>10, <1>11, <1>12, <1>13, <1>14 DEF UpdatesAreAnswered

(* An update is answered at most once, after it was sent, and not before the join
   action; the Python client's answers stay in order. *)
THEOREM UpdatesAreAnsweredOnce == BotSpec => []UpdatesAreAnswered
<1> QED BY AnswersAreAsked, BotInvariant, PTL
=============================================================================
