-------------------------- MODULE TimedTurnsProofs --------------------------
(***************************************************************************)
(* Theorems about TimedTurns, for any number of calls.                     *)
(***************************************************************************)
EXTENDS TimedTurns, SequenceTheorems, TLAPS

(* What the sequence operators of the module do to a sequence. *)
LEMMA AppendFacts ==
  ASSUME NEW S, NEW q \in Seq(S), NEW x \in S
  PROVE  /\ Append(q, x) \in Seq(S) /\ Len(Append(q, x)) = Len(q) + 1
         /\ Len(q) \in Nat
         /\ \A k \in 1..Len(q) : Append(q, x)[k] = q[k]
         /\ Append(q, x)[Len(q) + 1] = x
  OBVIOUS

LEMMA TailFacts ==
  ASSUME NEW S, NEW q \in Seq(S), q # <<>>
  PROVE  /\ Tail(q) \in Seq(S) /\ Len(q) \in Nat \ {0} /\ Len(Tail(q)) = Len(q) - 1
         /\ \A k \in 1..Len(q) - 1 : Tail(q)[k] = q[k + 1]
         /\ Head(q) = q[1] /\ q[1] \in S
  OBVIOUS

LEMMA RemoveFacts ==
  ASSUME NEW S, NEW q \in Seq(S), NEW i \in 1..Len(q)
  PROVE  /\ RemoveAt(q, i) \in Seq(S) /\ Len(q) \in Nat
         /\ Len(RemoveAt(q, i)) = Len(q) - 1
         /\ \A k \in 1..Len(q) - 1 :
              RemoveAt(q, i)[k] = IF k < i THEN q[k] ELSE q[k + 1]
         /\ q[i] \in S
<1> DEFINE front == SubSeq(q, 1, i - 1)
           rest == SubSeq(q, i + 1, Len(q))
<1>1. /\ front \in Seq(S) /\ Len(front) = i - 1
      /\ \A k \in 1..i - 1 : front[k] = q[k]
  OBVIOUS
<1>2. /\ rest \in Seq(S) /\ Len(rest) = Len(q) - i
      /\ \A k \in 1..Len(q) - i : rest[k] = q[k + i]
  OBVIOUS
<1>3. RemoveAt(q, i) = front \o rest
  BY DEF RemoveAt
<1> HIDE DEF front, rest
<1>4. /\ front \o rest \in Seq(S) /\ Len(front \o rest) = Len(q) - 1
      /\ \A k \in 1..Len(q) - 1 :
           (front \o rest)[k] = IF k < i THEN front[k] ELSE rest[k - (i - 1)]
  <2>1. front \o rest \in Seq(S) /\ Len(front \o rest) = Len(front) + Len(rest)
    BY <1>1, <1>2, ConcatProperties
  <2>2. \A k \in 1..Len(front) + Len(rest) :
          (front \o rest)[k] = IF k <= Len(front) THEN front[k] ELSE rest[k - Len(front)]
    BY <1>1, <1>2, ConcatProperties
  <2>3. Len(front) + Len(rest) = Len(q) - 1 /\ Len(q) \in Nat /\ i \in Nat
    BY <1>1, <1>2
  <2> QED BY <1>1, <2>1, <2>2, <2>3
<1>5. ASSUME NEW k \in 1..Len(q) - 1
      PROVE  RemoveAt(q, i)[k] = IF k < i THEN q[k] ELSE q[k + 1]
  <2>1. CASE k < i
    BY <2>1, <1>1, <1>3, <1>4
  <2>2. CASE k >= i
    <3>1. k - (i - 1) \in 1..Len(q) - i /\ (k - (i - 1)) + i = k + 1
      BY <2>2
    <3> QED BY <2>2, <3>1, <1>2, <1>3, <1>4
  <2> QED BY <2>1, <2>2
<1> QED BY <1>3, <1>4, <1>5

LEMMA OneElement ==
  ASSUME NEW S, NEW x \in S
  PROVE  <<x>> \in Seq(S) /\ Len(<<x>>) = 1 /\ <<x>>[1] = x
  OBVIOUS

LEMMA Elements ==
  ASSUME TypeOK
  PROVE  /\ Calls \in Nat \ {0} /\ call \in Nat
         /\ Len(sent) \in Nat /\ Len(inbox) \in Nat /\ Len(answers) \in Nat
         /\ \A k \in 1..Len(sent) : sent[k] \in 1..Calls
         /\ \A k \in 1..Len(inbox) : inbox[k] \in 1..Calls
         /\ \A k \in 1..Len(answers) : answers[k] \in 0..Calls
<1>1. sent \in Seq(1..Calls) /\ inbox \in Seq(1..Calls) /\ answers \in Seq(0..Calls)
  BY DEF TypeOK
<1>2. \A k \in 1..Len(sent) : sent[k] \in 1..Calls
  BY <1>1, ElementOfSeq
<1>3. \A k \in 1..Len(inbox) : inbox[k] \in 1..Calls
  BY <1>1, ElementOfSeq
<1>4. \A k \in 1..Len(answers) : answers[k] \in 0..Calls
  BY <1>1, ElementOfSeq
<1>5. Len(sent) \in Nat /\ Len(inbox) \in Nat /\ Len(answers) \in Nat
  BY <1>1, LenProperties
<1>6. Calls \in Nat \ {0} /\ call \in Nat
  BY CallsAssumption DEF TypeOK
<1> QED BY <1>2, <1>3, <1>4, <1>5, <1>6

-----------------------------------------------------------------------------
(* A call is only made within the bound. *)
BoundOK == pc = "ready" => call < Calls

LEMMA InitTypes == Init => TypeOK /\ BoundOK
<1> SUFFICES ASSUME Init PROVE TypeOK /\ BoundOK
  OBVIOUS
<1>1. /\ ch \in Seq(0..Calls) /\ Len(ch) <= 1
      /\ sent \in Seq(1..Calls) /\ inbox \in Seq(1..Calls)
      /\ answers \in Seq(0..Calls)
  BY DEF Init
<1>2. call \in 0..Calls /\ got \in [1..Calls -> 0..Calls]
  BY CallsAssumption DEF Init
<1> QED BY <1>1, <1>2 DEF Init, TypeOK, BoundOK

LEMMA RunnerTypes ==
  ASSUME TypeOK, BoundOK, RunnerStep \/ SendTerminal
  PROVE  TypeOK' /\ BoundOK'
<1> USE CallsAssumption DEF BoundOK, adapter, goroutines, wire
<1>1. CASE Stop \/ NextMove \/ CtxDone
  BY <1>1 DEF Stop, NextMove, CtxDone, TypeOK
<1>2. CASE SendTerminal \/ TerminalFails \/ HandlerReturns
  BY <1>2 DEF SendTerminal, TerminalFails, HandlerReturns, TypeOK
<1>3. CASE Begin
  <2>1. call' \in 0..Calls /\ call + 1 \in 1..Calls /\ ch' \in Seq(0..Calls)
        /\ Len(ch') <= 1
    BY <1>3 DEF Begin, TypeOK
  <2> QED BY <1>3, <2>1 DEF Begin, TypeOK
<1>4. ASSUME NEW answer \in 0..Calls, Return(answer)
      PROVE  TypeOK' /\ BoundOK'
  <2>1. answers' \in Seq(0..Calls)
    BY <1>4, AppendFacts DEF Return, TypeOK
  <2> QED BY <1>4, <2>1 DEF Return, Applied, Rejected, TypeOK
<1>5. CASE InnerAnswered
  <2>1. ch[1] \in 0..Calls
    BY <1>5, TailFacts DEF InnerAnswered, TypeOK
  <2> QED BY <1>4, <1>5, <2>1 DEF InnerAnswered
<1>6. CASE InnerFailed \/ Expired
  BY <1>4, <1>6 DEF InnerFailed, Expired
<1> QED BY <1>1, <1>2, <1>3, <1>5, <1>6 DEF RunnerStep

LEMMA InnerTypes ==
  ASSUME TypeOK, BoundOK, NEW c \in 1..Calls, Send(c) \/ InnerStep(c) \/ RecvStep(c)
  PROVE  TypeOK' /\ BoundOK'
<1> USE CallsAssumption DEF BoundOK, adapter, goroutines, wire
<1>1. CASE Send(c)
  <2>1. sent' \in Seq(1..Calls)
    BY <1>1, AppendFacts DEF Send, TypeOK
  <2>2. /\ inner' \in [1..Calls -> {"none", "send", "recv", "ended"}]
        /\ receiver' \in [1..Calls -> {"none", "blocked", "got", "failed"}]
    BY <1>1 DEF Send, TypeOK
  <2> QED BY <1>1, <2>1, <2>2 DEF Send, TypeOK
<1>2. ASSUME NEW result \in 0..Calls, Finish(c, result)
      PROVE  TypeOK' /\ BoundOK'
  <2>1. <<result>> \in Seq(0..Calls) /\ Len(<<result>>) <= 1
    BY OneElement
  <2>2. ch' \in Seq(0..Calls) /\ Len(ch') <= 1
    BY <1>2, <2>1 DEF Finish, TypeOK
  <2>3. inner' \in [1..Calls -> {"none", "send", "recv", "ended"}]
    BY <1>2 DEF Finish, TypeOK
  <2> QED BY <1>2, <2>2, <2>3 DEF Finish, TypeOK
<1>3. CASE InnerStep(c)
  <2>1. 0 \in 0..Calls /\ got[c] \in 0..Calls
    BY DEF TypeOK
  <2>2. PICK result \in 0..Calls : Finish(c, result)
    BY <1>3, <2>1 DEF InnerStep, SendFails, InnerReturns
  <2> QED BY <1>2, <2>2
<1>4. CASE Recv(c)
  <2> DEFINE head == Head(inbox)
             tail == Tail(inbox)
  <2>1. inbox # <<>> /\ inbox \in Seq(1..Calls)
    BY <1>4 DEF Recv, TypeOK
  <2>2. tail \in Seq(1..Calls) /\ head \in 1..Calls
    BY <2>1, TailFacts
  <2>3. /\ inbox' = tail /\ got' = [got EXCEPT ![c] = head]
        /\ receiver' = [receiver EXCEPT ![c] = "got"]
        /\ UNCHANGED <<pc, again, call, ctx, elapsed, timer, ch, inner, stream,
                       sent, answers>>
    BY <1>4 DEF Recv
  <2> HIDE DEF head, tail
  <2>4. head \in 0..Calls
    BY <2>2
  <2>5. /\ got' \in [1..Calls -> 0..Calls]
        /\ receiver' \in [1..Calls -> {"none", "blocked", "got", "failed"}]
    BY <2>3, <2>4 DEF TypeOK
  <2> QED BY <2>2, <2>3, <2>5 DEF TypeOK
<1>5. CASE RecvFails(c)
  <2>1. receiver' \in [1..Calls -> {"none", "blocked", "got", "failed"}]
    BY <1>5 DEF RecvFails, TypeOK
  <2> QED BY <1>5, <2>1 DEF RecvFails, TypeOK
<1> QED BY <1>1, <1>3, <1>4, <1>5 DEF RecvStep

LEMMA ClientTypes ==
  ASSUME TypeOK, BoundOK, ClientStep
  PROVE  TypeOK' /\ BoundOK'
<1> USE DEF BoundOK, adapter, goroutines, TypeOK
<1>1. CASE Answer
  <2>1. PICK i \in 1..Len(sent) :
          sent' = RemoveAt(sent, i) /\ inbox' = Append(inbox, sent[i])
    BY <1>1 DEF Answer
  <2>2. sent' \in Seq(1..Calls) /\ sent[i] \in 1..Calls
    BY <2>1, RemoveFacts
  <2>3. inbox' \in Seq(1..Calls)
    BY <2>1, <2>2, AppendFacts
  <2> QED BY <1>1, <2>2, <2>3 DEF Answer
<1>2. CASE CloseSend
  BY <1>2 DEF CloseSend
<1>3. CASE StreamEnds \/ SessionCancelled
  BY <1>3 DEF StreamEnds, SessionCancelled, EndCtx
<1> QED BY <1>1, <1>2, <1>3 DEF ClientStep

LEMMA NextTypes == TypeOK /\ BoundOK /\ [Next]_vars => TypeOK' /\ BoundOK'
<1> SUFFICES ASSUME TypeOK, BoundOK, [Next]_vars PROVE TypeOK' /\ BoundOK'
  OBVIOUS
<1>1. CASE TimeoutElapses \/ Watch
  BY <1>1 DEF TimeoutElapses, Watch, TypeOK, BoundOK, goroutines, wire
<1>2. CASE UNCHANGED vars
  BY <1>2 DEF vars, TypeOK, BoundOK, adapter, goroutines, wire
<1> QED BY <1>1, <1>2, RunnerTypes, InnerTypes, ClientTypes DEF Next

(* The variables of TimedTurns have their types. *)
THEOREM TurnTypes == Spec => []TypeOK
  BY InitTypes, NextTypes, PTL DEF Spec

-----------------------------------------------------------------------------
(* An answer, named by the update it answers, is in one place: its update is on
   its way, or it is on its way itself, or one receiver has it. *)
WasSent(c) == inner[c] \in {"recv", "ended"}

Distinct(q) == \A i, j \in 1..Len(q) : q[i] = q[j] => i = j

WireInv ==
  /\ Distinct(sent) /\ Distinct(inbox)
  /\ \A i \in 1..Len(sent) : receiver[sent[i]] # "none"
  /\ \A i \in 1..Len(inbox) : receiver[inbox[i]] # "none"
  /\ \A i \in 1..Len(sent), j \in 1..Len(inbox) : sent[i] # inbox[j]

GotInv ==
  /\ \A d \in 1..Calls : got[d] # 0 => receiver[d] = "got" /\ receiver[got[d]] # "none"
  /\ \A d, e \in 1..Calls : got[d] # 0 /\ got[d] = got[e] => d = e
  /\ \A d \in 1..Calls, i \in 1..Len(sent) : got[d] # sent[i]
  /\ \A d \in 1..Calls, i \in 1..Len(inbox) : got[d] # inbox[i]

(* Call i returns the i-th answer, which is the one its own receiver got. *)
CallInv ==
  /\ \A c \in 1..Calls : receiver[c] # "none" => c <= call /\ inner[c] \in {"recv", "ended"}
  /\ \A c \in 1..Calls : inner[c] # "none" => c <= call
  /\ ch # <<>> => ch[1] \in {0, got[call]}
  /\ pc = "select" => call = Len(answers) + 1
  /\ pc = "ready" => call = Len(answers)
  /\ pc = "loop" /\ ctx = "live" => call = Len(answers)
  /\ Len(answers) <= call

AnswerInv ==
  /\ \A i \in 1..Len(answers) : answers[i] \in {0, got[i]}
  /\ AnsweredOnce

TurnsInv == WireInv /\ GotInv /\ CallInv /\ AnswerInv

LEMMA InitTurns == Init => TurnsInv
<1> SUFFICES ASSUME Init PROVE TurnsInv
  OBVIOUS
<1>1. WireInv /\ GotInv
  BY DEF Init, WireInv, GotInv, Distinct
<1>2. CallInv
  BY DEF Init, CallInv
<1>3. AnswerInv
  BY DEF Init, AnswerInv, AnsweredOnce
<1> QED BY <1>1, <1>2, <1>3 DEF TurnsInv

(* The answer that a call returns has not been returned before, and answers an
   update that was sent before; if all calls before it returned their own, so
   does this one, since no other answer is left. *)
LEMMA ReturnKeeps ==
  ASSUME TypeOK, TurnsInv, pc = "select",
         NEW answer \in {0, got[call]}, Return(answer)
  PROVE  TurnsInv'
<1>1. /\ answers' = Append(answers, answer)
      /\ UNCHANGED <<call, ctx, ch, inner, receiver, got, sent, inbox>>
      /\ pc' \in {"loop", "ready"}
  BY DEF Return, Applied, Rejected, adapter, goroutines, wire
<1>2. /\ call = Len(answers) + 1 /\ call \in 1..Calls
      /\ answer \in 0..Calls
  BY CallsAssumption DEF TurnsInv, CallInv, TypeOK
<1>3. /\ Len(answers) \in Nat /\ Len(answers') = call
      /\ \A k \in 1..Len(answers) : answers'[k] = answers[k]
      /\ answers'[call] = answer
  BY <1>1, <1>2, AppendFacts DEF TypeOK
<1>4. WireInv' /\ GotInv'
  BY <1>1 DEF TurnsInv, WireInv, GotInv, Distinct
<1>5. CallInv'
  BY <1>1, <1>2, <1>3 DEF TurnsInv, CallInv
<1>6. \A i \in 1..Len(answers') : answers'[i] \in {0, got[i]}
  BY <1>1, <1>2, <1>3 DEF TurnsInv, AnswerInv
<1>7. answer <= call
  <2>1. CASE answer = 0
    BY <1>2, <2>1
  <2>2. CASE answer # 0
    <3>1. receiver[answer] # "none" /\ answer \in 1..Calls
      BY <1>2, <2>2 DEF TurnsInv, GotInv
    <3> QED BY <3>1 DEF TurnsInv, CallInv
  <2> QED BY <2>1, <2>2
<1>8. \A i, j \in 1..Len(answers') : answers'[i] = answers'[j] /\ answers'[i] # 0 => i = j
  <2>1. \A i \in 1..Len(answers') : i \in 1..Calls
    BY <1>2, <1>3, Elements
  <2>2. ASSUME NEW i \in 1..Len(answers'), NEW j \in 1..Len(answers'),
               answers'[i] = answers'[j], answers'[i] # 0
        PROVE  i = j
    <3>1. got[i] = answers'[i] /\ got[j] = answers'[j]
      BY <1>6, <2>2
    <3> QED BY <2>1, <2>2, <3>1 DEF TurnsInv, GotInv
  <2> QED BY <2>2
<1>9. \A i \in 1..Len(answers') : answers'[i] <= i
  BY <1>2, <1>3, <1>7 DEF TurnsInv, AnswerInv, AnsweredOnce
<1>10. \A i \in 1..Len(answers') :
         (\A j \in 1..i : answers'[j] # 0) => answers'[i] = i
  <2> SUFFICES ASSUME NEW i \in 1..Len(answers'), \A j \in 1..i : answers'[j] # 0
               PROVE  answers'[i] = i
    OBVIOUS
  <2>1. ASSUME NEW j \in 1..Len(answers), j <= i
        PROVE  answers'[j] = j
    <3>1. \A k \in 1..j : answers[k] # 0
      BY <1>3, <2>1
    <3>2. answers[j] = j
      BY <3>1 DEF TurnsInv, AnswerInv, AnsweredOnce
    <3> QED BY <1>3, <3>2
  <2>2. CASE i <= Len(answers)
    BY <1>3, <2>1, <2>2
  <2>3. CASE i = call
    <3>1. answer \in 1..call
      BY <1>2, <1>3, <1>7, <2>3
    <3>2. CASE answer < call
      <4>1. answer \in 1..Len(answers) /\ answers'[answer] = answer
        BY <1>2, <1>3, <2>1, <2>3, <3>1, <3>2
      <4>2. answer = call
        BY <1>2, <1>3, <1>8, <3>1, <4>1
      <4> QED BY <3>2, <4>2, <1>2
    <3> QED BY <1>2, <1>3, <2>3, <3>1, <3>2
  <2> QED BY <1>2, <1>3, <2>2, <2>3
<1>11. AnswerInv'
  BY <1>1, <1>6, <1>8, <1>9, <1>10 DEF AnswerInv, AnsweredOnce
<1> QED BY <1>4, <1>5, <1>11 DEF TurnsInv

LEMMA RunnerKeeps ==
  ASSUME TypeOK, TurnsInv, RunnerStep \/ SendTerminal
  PROVE  TurnsInv'
<1>1. CASE \/ Stop \/ NextMove \/ CtxDone
         \/ SendTerminal \/ TerminalFails \/ HandlerReturns
  <2>1. /\ UNCHANGED <<call, ch, inner, receiver, got, sent, inbox, answers>>
        /\ \/ pc' \in {"terminal", "done", "returned"}
           \/ pc = "loop" /\ ctx = "live" /\ pc' = "ready"
           \/ ctx' # "live" /\ pc' = "loop"
    BY <1>1
    DEF Stop, NextMove, CtxDone, SendTerminal, TerminalFails, HandlerReturns,
        adapter, goroutines, wire
  <2>2. WireInv' /\ GotInv' /\ AnswerInv'
    BY <2>1 DEF TurnsInv, WireInv, GotInv, AnswerInv, AnsweredOnce, Distinct
  <2>3. CallInv'
    BY <2>1 DEF TurnsInv, CallInv
  <2> QED BY <2>2, <2>3 DEF TurnsInv
<1>2. CASE Begin
  <2>1. /\ pc = "ready" /\ pc' = "select" /\ call' = call + 1 /\ ch' = <<>>
        /\ inner' = [inner EXCEPT ![call + 1] = "send"]
        /\ UNCHANGED <<ctx, receiver, got, sent, inbox, answers>>
        /\ call \in Nat
    BY <1>2 DEF Begin, goroutines, wire, TypeOK
  <2>2. WireInv' /\ GotInv' /\ AnswerInv'
    BY <2>1 DEF TurnsInv, WireInv, GotInv, AnswerInv, AnsweredOnce, Distinct
  <2>3. CallInv'
    BY <2>1 DEF TurnsInv, CallInv, TypeOK
  <2> QED BY <2>2, <2>3 DEF TurnsInv
<1>3. CASE InnerAnswered
  BY <1>3, ReturnKeeps DEF InnerAnswered, TurnsInv, CallInv
<1>4. CASE InnerFailed \/ Expired
  BY <1>4, ReturnKeeps DEF InnerFailed, Expired
<1> QED BY <1>1, <1>2, <1>3, <1>4 DEF RunnerStep

LEMMA SendKeeps ==
  ASSUME TypeOK, TurnsInv, NEW c \in 1..Calls, Send(c)
  PROVE  TurnsInv'
<1>1. /\ inner[c] = "send" /\ sent' = Append(sent, c)
      /\ inner' = [inner EXCEPT ![c] = "recv"]
      /\ receiver' = [receiver EXCEPT ![c] = "blocked"]
      /\ UNCHANGED <<pc, call, ctx, ch, got, inbox, answers>>
  BY DEF Send, adapter
<1>2. receiver[c] = "none"
  BY <1>1 DEF TurnsInv, CallInv
<1>3. /\ Len(sent) \in Nat /\ Len(sent') = Len(sent) + 1
      /\ \A k \in 1..Len(sent) : sent'[k] = sent[k] /\ sent[k] # c /\ sent[k] \in 1..Calls
      /\ sent'[Len(sent) + 1] = c
  <2>1. /\ Len(sent') = Len(sent) + 1 /\ sent'[Len(sent) + 1] = c
        /\ \A k \in 1..Len(sent) : sent'[k] = sent[k]
    BY <1>1, AppendFacts DEF TypeOK
  <2> QED BY <1>2, <2>1, Elements DEF TurnsInv, WireInv
<1>4. \A k \in 1..Len(inbox) : inbox[k] # c /\ inbox[k] \in 1..Calls
  BY <1>2, Elements DEF TurnsInv, WireInv
<1>5. \A d \in 1..Calls : (got[d] # c /\ d # c) \/ got[d] = 0
  BY <1>2 DEF TurnsInv, GotInv
<1>6. WireInv'
  <2>1. /\ inbox' = inbox /\ receiver' = [receiver EXCEPT ![c] = "blocked"]
        /\ receiver \in [1..Calls -> {"none", "blocked", "got", "failed"}]
    BY <1>1 DEF TypeOK
  <2>2. WireInv
    BY DEF TurnsInv
  <2>3. \A k \in 1..Len(sent') : k = Len(sent) + 1 \/ k \in 1..Len(sent)
    BY <1>3
  <2>4. Distinct(sent')
    BY <1>3, <2>2, <2>3 DEF WireInv, Distinct
  <2>5. \A k \in 1..Len(sent') : receiver'[sent'[k]] # "none"
    BY <1>3, <2>1, <2>2, <2>3 DEF WireInv
  <2>6. \A k \in 1..Len(inbox) : receiver'[inbox[k]] # "none"
    BY <1>4, <2>1, <2>2 DEF WireInv
  <2>7. \A k \in 1..Len(sent'), j \in 1..Len(inbox) : sent'[k] # inbox[j]
    BY <1>3, <1>4, <2>2, <2>3 DEF WireInv
  <2>8. Distinct(inbox)
    BY <2>2 DEF WireInv
  <2> QED BY <2>1, <2>4, <2>5, <2>6, <2>7, <2>8 DEF WireInv
<1>7. GotInv'
  BY <1>1, <1>3, <1>5 DEF TypeOK, TurnsInv, GotInv
<1>8. CallInv'
  BY <1>1 DEF TypeOK, TurnsInv, CallInv
<1>9. AnswerInv'
  BY <1>1 DEF TurnsInv, AnswerInv, AnsweredOnce
<1> QED BY <1>6, <1>7, <1>8, <1>9 DEF TurnsInv

LEMMA FinishKeeps ==
  ASSUME TypeOK, TurnsInv, NEW c \in 1..Calls, inner[c] \in {"send", "recv"},
         NEW result \in {0, got[c]}, Finish(c, result)
  PROVE  TurnsInv'
<1>1. /\ inner' = [inner EXCEPT ![c] = "ended"]
      /\ ch' = IF c = call /\ pc = "select" THEN <<result>> ELSE ch
      /\ UNCHANGED <<pc, call, ctx, receiver, got, sent, inbox, answers>>
  BY DEF Finish, wire
<1>2. WireInv' /\ GotInv' /\ AnswerInv'
  BY <1>1 DEF TurnsInv, WireInv, GotInv, AnswerInv, AnsweredOnce, Distinct
<1>3. CallInv'
  BY <1>1 DEF TypeOK, TurnsInv, CallInv
<1> QED BY <1>2, <1>3 DEF TurnsInv

LEMMA RecvKeeps ==
  ASSUME TypeOK, TurnsInv, NEW c \in 1..Calls, Recv(c)
  PROVE  TurnsInv'
<1> DEFINE a == inbox[1]
<1>1. /\ receiver[c] = "blocked" /\ inbox # <<>> /\ inbox' = Tail(inbox)
      /\ got' = [got EXCEPT ![c] = a]
      /\ receiver' = [receiver EXCEPT ![c] = "got"]
      /\ UNCHANGED <<pc, call, ctx, ch, inner, sent, answers>>
  BY TailFacts DEF Recv, adapter, TypeOK
<1>2. /\ Len(inbox) \in Nat \ {0} /\ Len(inbox') = Len(inbox) - 1
      /\ \A k \in 1..Len(inbox') : inbox'[k] = inbox[k + 1] /\ inbox[k + 1] # a
      /\ a \in 1..Calls
  <2>1. /\ Len(inbox) \in Nat \ {0} /\ Len(inbox') = Len(inbox) - 1
        /\ \A k \in 1..Len(inbox) - 1 : inbox'[k] = inbox[k + 1]
    BY <1>1, TailFacts DEF TypeOK
  <2>2. ASSUME NEW k \in 1..Len(inbox) - 1
        PROVE  inbox[k + 1] # a
    BY <2>1 DEF TurnsInv, WireInv, Distinct
  <2> QED BY <2>1, <2>2, Elements
<1>3. got[c] = 0 /\ receiver[a] # "none"
  BY <1>1, <1>2 DEF TurnsInv, GotInv, WireInv
<1>4. /\ \A d \in 1..Calls : got[d] # a
      /\ \A i \in 1..Len(sent) : sent[i] # a
  BY <1>2 DEF TurnsInv, GotInv, WireInv
<1> HIDE DEF a
<1>5. WireInv'
  <2>1. /\ sent' = sent /\ receiver' = [receiver EXCEPT ![c] = "got"]
        /\ receiver \in [1..Calls -> {"none", "blocked", "got", "failed"}]
    BY <1>1 DEF TypeOK
  <2>2. WireInv /\ \A k \in 1..Len(sent) : sent[k] \in 1..Calls
    BY Elements DEF TurnsInv
  <2>3. \A k \in 1..Len(inbox') : /\ k + 1 \in 1..Len(inbox)
                                 /\ inbox'[k] = inbox[k + 1]
                                 /\ inbox[k + 1] \in 1..Calls
    BY <1>2, Elements
  <2>4. Distinct(inbox') /\ Distinct(sent)
    BY <2>2, <2>3 DEF WireInv, Distinct
  <2>5. \A k \in 1..Len(sent) : receiver'[sent[k]] # "none"
    BY <2>1, <2>2 DEF WireInv
  <2>6. \A k \in 1..Len(inbox') : receiver'[inbox'[k]] # "none"
    BY <2>1, <2>2, <2>3 DEF WireInv
  <2>7. \A i \in 1..Len(sent), k \in 1..Len(inbox') : sent[i] # inbox'[k]
    BY <2>2, <2>3 DEF WireInv
  <2> QED BY <2>1, <2>4, <2>5, <2>6, <2>7 DEF WireInv
<1>6. GotInv'
  BY <1>1, <1>2, <1>3, <1>4 DEF TypeOK, TurnsInv, GotInv
<1>7. \A d \in 1..Calls : got[d] # 0 => got'[d] = got[d]
  BY <1>1, <1>3 DEF TypeOK
<1>8. CallInv'
  <2>1. ch # <<>> => ch[1] \in {0, got'[call]}
    BY <1>1, <1>3, <1>7 DEF TypeOK, TurnsInv, CallInv
  <2> QED BY <1>1, <2>1 DEF TypeOK, TurnsInv, CallInv
<1>9. AnswerInv'
  <2>1. \A i \in 1..Len(answers) : i \in 1..Calls
    BY Elements DEF TypeOK, TurnsInv, CallInv
  <2>2. \A i \in 1..Len(answers) : answers[i] \in {0, got'[i]}
    BY <1>7, <2>1 DEF TurnsInv, AnswerInv
  <2> QED BY <1>1, <2>2 DEF TurnsInv, AnswerInv, AnsweredOnce
<1> QED BY <1>5, <1>6, <1>8, <1>9 DEF TurnsInv

LEMMA AnswerKeeps ==
  ASSUME TypeOK, TurnsInv, Answer
  PROVE  TurnsInv'
<1>1. PICK i \in 1..Len(sent) :
        /\ sent' = RemoveAt(sent, i) /\ inbox' = Append(inbox, sent[i])
        /\ UNCHANGED <<pc, call, ctx, ch, inner, receiver, got, answers>>
  BY DEF Answer, adapter, goroutines
<1>2. /\ Len(sent) \in Nat /\ Len(sent') = Len(sent) - 1
      /\ \A k \in 1..Len(sent') : sent'[k] = IF k < i THEN sent[k] ELSE sent[k + 1]
      /\ sent[i] \in 1..Calls
  <2>1. sent \in Seq(1..Calls)
    BY DEF TypeOK
  <2> QED BY <1>1, <2>1, RemoveFacts
<1>3. /\ Len(inbox) \in Nat /\ Len(inbox') = Len(inbox) + 1
      /\ \A k \in 1..Len(inbox) : inbox'[k] = inbox[k]
      /\ inbox'[Len(inbox) + 1] = sent[i]
  BY <1>1, <1>2, AppendFacts DEF TypeOK
<1>4. \A k \in 1..Len(sent') :
        \E j \in 1..Len(sent) : j # i /\ sent'[k] = sent[j]
  <2> SUFFICES ASSUME NEW k \in 1..Len(sent')
               PROVE  \E j \in 1..Len(sent) : j # i /\ sent'[k] = sent[j]
    OBVIOUS
  <2>1. CASE k < i
    BY <2>1, <1>2
  <2>2. CASE k >= i
    <3>1. k + 1 \in 1..Len(sent) /\ k + 1 # i /\ sent'[k] = sent[k + 1]
      BY <2>2, <1>2
    <3> QED BY <3>1
  <2> QED BY <2>1, <2>2, <1>2
<1>5. Distinct(sent')
  <2> SUFFICES ASSUME NEW k \in 1..Len(sent'), NEW j \in 1..Len(sent'),
                      sent'[k] = sent'[j]
               PROVE  k = j
    BY DEF Distinct
  <2> DEFINE at(n) == IF n < i THEN n ELSE n + 1
  <2>1. /\ at(k) \in 1..Len(sent) /\ sent'[k] = sent[at(k)]
        /\ at(j) \in 1..Len(sent) /\ sent'[j] = sent[at(j)]
    BY <1>2
  <2>2. at(k) = at(j)
    BY <2>1 DEF Distinct, TurnsInv, WireInv
  <2> QED BY <2>2
<1>6. Distinct(inbox')
  <2>1. \A k \in 1..Len(inbox') : k = Len(inbox) + 1 \/ k \in 1..Len(inbox)
    BY <1>3
  <2>2. \A k \in 1..Len(inbox) : inbox[k] # sent[i]
    BY DEF TurnsInv, WireInv
  <2>3. \A k, j \in 1..Len(inbox) : inbox[k] = inbox[j] => k = j
    BY DEF Distinct, TurnsInv, WireInv
  <2> QED BY <1>3, <2>1, <2>2, <2>3 DEF Distinct
<1>7. \A k \in 1..Len(sent'), j \in 1..Len(inbox') : sent'[k] # inbox'[j]
  <2> SUFFICES ASSUME NEW k \in 1..Len(sent'), NEW j \in 1..Len(inbox')
               PROVE  sent'[k] # inbox'[j]
    OBVIOUS
  <2>1. PICK m \in 1..Len(sent) : m # i /\ sent'[k] = sent[m]
    BY <1>4
  <2>2. CASE j \in 1..Len(inbox)
    BY <1>3, <2>1, <2>2 DEF TurnsInv, WireInv
  <2>3. CASE j = Len(inbox) + 1
    BY <1>3, <2>1, <2>3 DEF Distinct, TurnsInv, WireInv
  <2> QED BY <1>3, <2>2, <2>3
<1>8. WireInv'
  <2>1. \A k \in 1..Len(sent') : receiver'[sent'[k]] # "none"
    BY <1>1, <1>4 DEF TurnsInv, WireInv
  <2>2. \A k \in 1..Len(inbox') : receiver'[inbox'[k]] # "none"
    <3> SUFFICES ASSUME NEW k \in 1..Len(inbox')
                 PROVE  receiver'[inbox'[k]] # "none"
      OBVIOUS
    <3>1. CASE k \in 1..Len(inbox)
      BY <1>1, <1>3, <3>1 DEF TurnsInv, WireInv
    <3>2. CASE k = Len(inbox) + 1
      BY <1>1, <1>3, <3>2 DEF TurnsInv, WireInv
    <3> QED BY <1>3, <3>1, <3>2
  <2> QED BY <1>5, <1>6, <1>7, <2>1, <2>2 DEF WireInv
<1>9. GotInv'
  BY <1>1, <1>3, <1>4 DEF TurnsInv, GotInv
<1>10. CallInv' /\ AnswerInv'
  BY <1>1 DEF TurnsInv, CallInv, AnswerInv, AnsweredOnce
<1> QED BY <1>8, <1>9, <1>10 DEF TurnsInv

(* The other steps move no answer. *)
LEMMA OthersKeep ==
  ASSUME TypeOK, TurnsInv, ctx = ctx' \/ ctx' # "live",
         UNCHANGED <<pc, call, ch, inner, got, sent, inbox, answers>>,
         \/ UNCHANGED receiver
         \/ \E c \in 1..Calls : receiver[c] = "blocked"
                             /\ receiver' = [receiver EXCEPT ![c] = "failed"]
  PROVE  TurnsInv'
<1>1. \A c \in 1..Calls :
        /\ receiver[c] # "none" <=> receiver'[c] # "none"
        /\ receiver[c] = "got" => receiver'[c] = "got"
  BY DEF TypeOK
<1>2. WireInv'
  <2>1. \A k \in 1..Len(sent) : receiver'[sent[k]] # "none"
    BY <1>1, Elements DEF TurnsInv, WireInv
  <2>2. \A k \in 1..Len(inbox) : receiver'[inbox[k]] # "none"
    BY <1>1, Elements DEF TurnsInv, WireInv
  <2> QED BY <2>1, <2>2 DEF TurnsInv, WireInv
<1>3. GotInv'
  <2>1. GotInv /\ got' = got /\ sent' = sent /\ inbox' = inbox
    BY DEF TurnsInv
  <2>2. \A d \in 1..Calls : got[d] # 0 => got[d] \in 1..Calls
    BY DEF TypeOK
  <2>3. \A d \in 1..Calls : got[d] # 0 => receiver'[d] = "got" /\ receiver'[got[d]] # "none"
    BY <1>1, <2>1, <2>2 DEF GotInv
  <2> QED BY <2>1, <2>3 DEF GotInv
<1>4. CallInv'
  BY <1>1 DEF TurnsInv, CallInv
<1>5. AnswerInv'
  BY DEF TurnsInv, AnswerInv, AnsweredOnce
<1> QED BY <1>2, <1>3, <1>4, <1>5 DEF TurnsInv

LEMMA NextTurns == TypeOK /\ TurnsInv /\ [Next]_vars => TurnsInv'
<1> SUFFICES ASSUME TypeOK, TurnsInv, [Next]_vars PROVE TurnsInv'
  OBVIOUS
<1> USE DEF adapter, goroutines, wire
<1>1. CASE TimeoutElapses \/ Watch
  BY <1>1, OthersKeep DEF TimeoutElapses, Watch
<1>2. ASSUME NEW c \in 1..Calls, InnerStep(c)
      PROVE  TurnsInv'
  BY <1>2, FinishKeeps DEF InnerStep, SendFails, InnerReturns
<1>3. ASSUME NEW c \in 1..Calls, RecvStep(c)
      PROVE  TurnsInv'
  BY <1>3, RecvKeeps, OthersKeep DEF RecvStep, RecvFails
<1>4. CASE CloseSend
  BY <1>4, OthersKeep DEF CloseSend
<1>5. CASE StreamEnds \/ SessionCancelled
  <2>1. /\ ctx = ctx' \/ ctx' # "live"
        /\ UNCHANGED <<pc, call, ch, inner, receiver, got, sent, inbox, answers>>
    BY <1>5 DEF StreamEnds, SessionCancelled, EndCtx
  <2> QED BY <2>1, OthersKeep
<1>6. CASE UNCHANGED vars
  BY <1>6, OthersKeep DEF vars
<1> QED
  BY <1>1, <1>2, <1>3, <1>4, <1>5, <1>6, RunnerKeeps, SendKeeps, AnswerKeeps
  DEF Next, ClientStep

(* No answer is returned twice or before its update was sent, and a client that
   always answers in time is never out of step, however many calls are made. *)
THEOREM AnswersAreUsedOnce == Spec => []AnsweredOnce
<1>1. TurnsInv => AnsweredOnce
  BY DEF TurnsInv, AnswerInv
<1> QED BY <1>1, InitTypes, NextTypes, InitTurns, NextTurns, PTL DEF Spec
=============================================================================
