-------------------------- MODULE ReplayLogProofs ---------------------------
(***************************************************************************)
(* Theorems about ReplayLog, for logs, buffers, windows and channels of    *)
(* any size.                                                               *)
(***************************************************************************)
EXTENDS ReplayLog, SequenceTheorems, WellFoundedInduction, TLAPS

(* The sequences of the module. *)
LEMMA CutFacts ==
  ASSUME NEW S, NEW s \in Seq(S), NEW a \in 0..Len(s), NEW b \in a..Len(s)
  PROVE  /\ SubSeq(s, a + 1, b) \in Seq(S) /\ Len(SubSeq(s, a + 1, b)) = b - a
         /\ \A i \in 1..b - a : SubSeq(s, a + 1, b)[i] = s[a + i]
  OBVIOUS

LEMMA ConcatFacts ==
  ASSUME NEW S, NEW s \in Seq(S), NEW t \in Seq(S)
  PROVE  /\ s \o t \in Seq(S) /\ Len(s \o t) = Len(s) + Len(t)
         /\ Len(s) \in Nat /\ Len(t) \in Nat
         /\ \A i \in 1..Len(s) : (s \o t)[i] = s[i]
         /\ \A i \in 1..Len(t) : (s \o t)[Len(s) + i] = t[i]
  OBVIOUS

LEMMA TailFacts ==
  ASSUME NEW S, NEW q \in Seq(S), q # <<>>
  PROVE  /\ Tail(q) \in Seq(S) /\ Head(q) \in S /\ Head(q) = q[1]
         /\ Len(q) \in Nat \ {0} /\ Len(Tail(q)) = Len(q) - 1
         /\ \A i \in 1..Len(q) - 1 : Tail(q)[i] = q[i + 1]
  OBVIOUS

LEMMA AppendFacts ==
  ASSUME NEW S, NEW q \in Seq(S), NEW x \in S
  PROVE  /\ Append(q, x) \in Seq(S) /\ Len(Append(q, x)) = Len(q) + 1
         /\ Len(q) \in Nat
         /\ \A i \in 1..Len(q) : Append(q, x)[i] = q[i]
         /\ Append(q, x)[Len(q) + 1] = x
  OBVIOUS

LEMMA Singleton ==
  ASSUME NEW S, NEW x \in S
  PROVE  <<x>> \in Seq(S) /\ Len(<<x>>) = 1 /\ <<x>>[1] = x
  OBVIOUS

LEMMA EmptyFacts ==
  ASSUME NEW S
  PROVE  /\ <<>> \in Seq(S) /\ Len(<<>>) = 0
         /\ \A q \in Seq(S) : Len(q) \in Nat /\ (Len(q) = 0 <=> q = <<>>)
  OBVIOUS

LEMMA HeadThenTail ==
  ASSUME NEW S, NEW q \in Seq(S), q # <<>>
  PROVE  <<Head(q)>> \o Tail(q) = q
<1> DEFINE h == Head(q)
           t == Tail(q)
<1>1. /\ t \in Seq(S) /\ h \in S /\ h = q[1] /\ Len(q) \in Nat /\ Len(t) = Len(q) - 1
      /\ \A i \in 1..Len(q) - 1 : t[i] = q[i + 1]
  BY TailFacts
<1> HIDE DEF h, t
<1>2. /\ <<h>> \in Seq(S) /\ Len(<<h>>) = 1 /\ <<h>>[1] = h
  BY <1>1, Singleton
<1>3. /\ <<h>> \o t \in Seq(S) /\ Len(<<h>> \o t) = Len(q)
      /\ \A i \in 1..1 : (<<h>> \o t)[i] = <<h>>[i]
      /\ \A i \in 1..Len(t) : (<<h>> \o t)[1 + i] = t[i]
  BY <1>1, <1>2, ConcatFacts
<1>4. ASSUME NEW i \in 1..Len(q)
      PROVE  (<<h>> \o t)[i] = q[i]
  <2>1. CASE i = 1
    BY <1>1, <1>2, <1>3, <2>1
  <2>2. CASE i # 1
    <3>1. i - 1 \in 1..Len(t) /\ 1 + (i - 1) = i /\ (i - 1) + 1 = i /\ i - 1 \in 1..Len(q) - 1
      BY <1>1, <2>2
    <3>2. (<<h>> \o t)[1 + (i - 1)] = t[i - 1] /\ t[i - 1] = q[(i - 1) + 1]
      BY <1>1, <1>3, <3>1
    <3> QED BY <3>1, <3>2
  <2> QED BY <2>1, <2>2
<1>5. <<h>> \o t = q
  BY <1>3, <1>4, SeqEqual
<1> QED BY <1>5 DEF h, t

(* A set of numbers has a least one. *)
LEMMA LeastNumber ==
  ASSUME NEW T, T \subseteq Nat, T # {}
  PROVE  \E x \in T : \A y \in T : x <= y
<1> DEFINE R == {ss \in Nat \X Nat : ss[1] < ss[2]}
<1>1. IsWellFoundedOn(R, Nat)
  BY NatLessThanWellFounded DEF OpToRel
<1>2. PICK x \in T : \A y \in T : ~(<<y, x>> \in R)
  <2> HIDE DEF R
  <2> QED BY <1>1, WFMin
<1>3. \A y \in T : ~(y < x)
  BY <1>2
<1> QED BY <1>3

LEMMA MinFacts ==
  ASSUME NEW T, T \subseteq Nat, T # {}
  PROVE  Min(T) \in T /\ \A y \in T : Min(T) <= y
BY LeastNumber DEF Min

(* The text of a log is its pieces in the order of the records; At is the place of
   a piece in it. *)
At(p) == 3 * p[1] + p[2]

LEMMA PieceFacts == Pieces = Records \X {1, 2, 3}
<1>1. ASSUME NEW i \in Records
      PROVE  ToSet(Line(i)) = {<<i, 1>>, <<i, 2>>, <<i, 3>>}
  <2>1. /\ DOMAIN Line(i) = {1, 2, 3}
        /\ Line(i)[1] = <<i, 1>> /\ Line(i)[2] = <<i, 2>> /\ Line(i)[3] = <<i, 3>>
    BY DEF Line
  <2> QED BY <2>1 DEF ToSet
<1> QED BY <1>1 DEF Pieces

LEMMA AtFacts ==
  ASSUME NEW p \in Pieces
  PROVE  /\ p[1] \in Records /\ p[2] \in {1, 2, 3} /\ p = <<p[1], p[2]>>
         /\ p[1] \in Nat /\ At(p) \in Nat
  BY PieceFacts, ReplayAssumption DEF Records, At

LEMMA MarkFacts ==
  Header \notin Pieces /\ Trailer \notin Pieces /\ Header # Trailer
  BY PieceFacts DEF Header, Trailer

LEMMA LineFacts ==
  ASSUME NEW i \in Records
  PROVE  /\ Line(i) \in Seq(Pieces) /\ Len(Line(i)) = 3
         /\ \A k \in 1..3 : Line(i)[k] = <<i, k>> /\ At(Line(i)[k]) = 3 * i + k
<1>1. i \in Nat
  BY ReplayAssumption DEF Records
<1>2. /\ <<i, 1>> \in Pieces /\ <<i, 2>> \in Pieces /\ <<i, 3>> \in Pieces
  BY PieceFacts
<1>3. /\ Line(i)[1] = <<i, 1>> /\ Line(i)[2] = <<i, 2>> /\ Line(i)[3] = <<i, 3>>
      /\ Len(Line(i)) = 3 /\ Line(i) \in Seq(Pieces)
  BY <1>2 DEF Line
<1>4. \A k \in 1..3 : Line(i)[k] = <<i, k>>
  BY <1>3
<1>5. \A k \in 1..3 : At(<<i, k>>) = 3 * i + k
  BY <1>1 DEF At
<1> QED BY <1>3, <1>4, <1>5

-----------------------------------------------------------------------------
LogTypes ==
  /\ headless \in BOOLEAN /\ broken \in BOOLEAN
  /\ oversized \subseteq Records
  /\ next \in 0..LastEntry + 1
  /\ buf \in Seq(Pieces) /\ Len(buf) <= BufSize
  /\ pending \in Seq(Pieces)
  /\ file \in Seq(Pieces \cup {Header, Trailer})
  /\ writer \in {"writing", "flushed", "closed", "abandoned", "crashed"}

(* Where the text begins in the file and how much of it is there. *)
Off == IF headless /\ file # <<>> THEN 1 ELSE 0
Whole == writer = "closed" /\ ~broken
Text == Len(file) - Off - (IF headless /\ Whole THEN 1 ELSE 0)
InText(s, w) == \A k \in 1..Len(s) : At(s[k]) = w + k

(* The file holds the header, the text from its beginning, and the trailer once it
   is closed. *)
FileInv ==
  /\ headless /\ file # <<>> => file[1] = Header
  /\ Text \in Nat
  /\ \A k \in 1..Text : file[Off + k] \in Pieces /\ At(file[Off + k]) = k
  /\ headless /\ Whole => file # <<>> /\ file[Len(file)] = Trailer

(* What the compressor and the buffer hold is the text that follows; together it
   is all of the records that were written.  After a failed write a part of the
   next record may have reached the file. *)
BufferInv ==
  /\ ~broken => InText(pending, Text) /\ InText(buf, Text + Len(pending))
  /\ ~headless \/ file = <<>> => pending = <<>>
  /\ ~broken /\ writer # "crashed" => Text + Len(pending) + Len(buf) = 3 * next
  /\ Text <= 3 * next + (IF broken THEN 3 ELSE 0)
  /\ writer = "writing" => ~broken
  /\ writer \in {"flushed", "closed"} =>
       next = LastEntry + 1 /\ (~broken => buf = <<>> /\ pending = <<>>)

LogInv == LogTypes /\ FileInv /\ BufferInv

(* The file only grows, and not after it was closed. *)
Grows ==
  /\ Text' >= Text /\ Len(file') >= Len(file)
  /\ file # <<>> => file' # <<>> /\ Off' = Off
  /\ Whole => Whole' /\ file' = file

LEMMA LogFacts ==
  ASSUME LogTypes
  PROVE  /\ Len(file) \in Nat /\ Len(buf) \in Nat /\ Len(pending) \in Nat
         /\ next \in Nat /\ LastEntry \in Nat /\ BufSize \in Nat
         /\ Off \in {0, 1} /\ Text \in Int
         /\ file = <<>> <=> Len(file) = 0
         /\ file # <<>> => Off <= Len(file)
BY ReplayAssumption, EmptyFacts DEF LogTypes, Off, Text

LEMMA InTextFacts ==
  ASSUME NEW s \in Seq(Pieces), NEW w \in Nat, InText(s, w)
  PROVE  /\ \A a \in 0..Len(s) : \A b \in a..Len(s) : InText(SubSeq(s, a + 1, b), w + a)
         /\ \A t \in Seq(Pieces) : InText(t, w + Len(s)) => InText(s \o t, w)
<1>1. ASSUME NEW a \in 0..Len(s), NEW b \in a..Len(s)
      PROVE  InText(SubSeq(s, a + 1, b), w + a)
  <2>1. /\ Len(SubSeq(s, a + 1, b)) = b - a
        /\ \A i \in 1..b - a : SubSeq(s, a + 1, b)[i] = s[a + i]
        /\ Len(s) \in Nat
    BY CutFacts, EmptyFacts
  <2>2. ASSUME NEW i \in 1..b - a
        PROVE  At(SubSeq(s, a + 1, b)[i]) = w + a + i
    <3>1. a + i \in 1..Len(s)
      BY <2>1
    <3>2. At(s[a + i]) = w + (a + i)
      BY <3>1 DEF InText
    <3> QED BY <2>1, <3>2
  <2> QED BY <2>1, <2>2 DEF InText
<1>2. ASSUME NEW t \in Seq(Pieces), InText(t, w + Len(s))
      PROVE  InText(s \o t, w)
  <2>1. /\ Len(s \o t) = Len(s) + Len(t) /\ Len(s) \in Nat /\ Len(t) \in Nat
        /\ \A i \in 1..Len(s) : (s \o t)[i] = s[i]
        /\ \A i \in 1..Len(t) : (s \o t)[Len(s) + i] = t[i]
    BY ConcatFacts
  <2>2. ASSUME NEW i \in 1..Len(s \o t)
        PROVE  At((s \o t)[i]) = w + i
    <3>1. CASE i <= Len(s)
      BY <2>1, <3>1 DEF InText
    <3>2. CASE i > Len(s)
      <4>1. i - Len(s) \in 1..Len(t) /\ i = Len(s) + (i - Len(s))
        BY <2>1, <3>2
      <4>2. (s \o t)[i] = t[i - Len(s)]
        BY <2>1, <4>1
      <4>3. At(t[i - Len(s)]) = (w + Len(s)) + (i - Len(s))
        BY <1>2, <4>1 DEF InText
      <4> QED BY <2>1, <4>2, <4>3
    <3> QED BY <2>1, <3>1, <3>2
  <2> QED BY <2>2 DEF InText
<1> QED BY <1>1, <1>2

(* Pieces that follow the text of a file, written to it. *)
LEMMA FileGrows ==
  ASSUME LogInv, writer # "closed", writer' # "closed", headless' = headless,
         NEW s \in Seq(Pieces), InText(s, Text),
         \/ s = <<>> /\ file' = file
         \/ file' = (IF headless /\ file = <<>> THEN <<Header>> ELSE file) \o s
  PROVE  /\ file' \in Seq(Pieces \cup {Header, Trailer})
         /\ FileInv' /\ Grows /\ Text' = Text + Len(s)
<1> DEFINE F == Pieces \cup {Header, Trailer}
           base == IF headless /\ file = <<>> THEN <<Header>> ELSE file
           off == IF headless THEN 1 ELSE 0
<1>1. /\ Len(file) \in Nat /\ Off \in {0, 1} /\ Text = Len(file) - Off
      /\ file = <<>> <=> Len(file) = 0
      /\ file \in Seq(F) /\ ~Whole /\ ~Whole' /\ headless \in BOOLEAN
  BY LogFacts DEF LogInv, LogTypes, Text, Whole
<1>2. CASE s = <<>> /\ file' = file
  <2>1. Off' = Off /\ Text' = Text
    BY <1>1, <1>2 DEF Off, Text
  <2>2. Len(s) = 0
    BY <1>2, EmptyFacts
  <2> QED BY <1>1, <1>2, <2>1, <2>2 DEF LogInv, FileInv, Grows
<1>3. CASE file' = base \o s
  <2>1. /\ base \in Seq(F) /\ s \in Seq(F) /\ Len(base) = Text + off
        /\ \A k \in 1..Text : base[off + k] = file[Off + k]
        /\ headless => base[1] = Header /\ Len(base) >= 1
    <3>1. CASE headless /\ file = <<>>
      <4>1. base = <<Header>> /\ off = 1 /\ Text = 0 /\ Off = 0
        BY <1>1, <3>1 DEF Off
      <4>2. base \in Seq(F) /\ Len(base) = 1 /\ base[1] = Header
        <5>1. Header \in F
          OBVIOUS
        <5> HIDE DEF F
        <5> QED BY <4>1, <5>1, Singleton
      <4>3. s \in Seq(F)
        OBVIOUS
      <4>4. \A k \in 1..Text : base[off + k] = file[Off + k]
        BY <4>1
      <4> HIDE DEF F, base
      <4> QED BY <4>1, <4>2, <4>3, <4>4
    <3>2. CASE ~(headless /\ file = <<>>)
      <4>1. base = file /\ Off = off
        BY <1>1, <3>2 DEF Off
      <4>2. headless => file[1] = Header /\ Len(file) >= 1
        BY <1>1, <3>2 DEF LogInv, FileInv
      <4>3. s \in Seq(F)
        OBVIOUS
      <4> HIDE DEF F
      <4> QED BY <1>1, <4>1, <4>2, <4>3
    <3> HIDE DEF F, base, off
    <3> QED BY <3>1, <3>2
  <2> HIDE DEF base, F, off
  <2>2. /\ file' \in Seq(F) /\ Len(file') = Len(base) + Len(s)
        /\ Len(base) \in Nat /\ Len(s) \in Nat
        /\ \A i \in 1..Len(base) : file'[i] = base[i]
        /\ \A i \in 1..Len(s) : file'[Len(base) + i] = s[i]
    <3>1. base \in Seq(F) /\ s \in Seq(F)
      BY <2>1
    <3> QED BY ONLY <1>3, <3>1, ConcatFacts
  <2>3. file' = <<>> <=> Len(file') = 0
    BY <2>2, EmptyFacts
  <2>4. /\ Off' = IF headless THEN 1 ELSE 0
        /\ file # <<>> => file' # <<>> /\ Off' = Off
    BY <1>1, <2>1, <2>2, <2>3 DEF Off
  <2>5. Text \in Nat
    BY DEF LogInv, FileInv
  <2>6. Off' = off /\ off \in {0, 1}
    BY <2>4 DEF off
  <2>7. Text' = Text + Len(s) /\ Len(file') >= Len(file) /\ Text' >= Text
    <3>1. Text' = Len(file') - Off'
      BY <1>1, <2>2, <2>4 DEF Text
    <3>2. Text' = Text + Len(s)
      BY <2>1, <2>2, <2>6, <2>5, <3>1
    <3> QED BY <1>1, <2>1, <2>2, <2>4, <2>5, <3>2
  <2>8. ASSUME NEW k \in 1..Text'
        PROVE  file'[Off' + k] \in Pieces /\ At(file'[Off' + k]) = k
    <3>1. CASE k <= Text
      <4>1. k \in 1..Text /\ off + k \in 1..Len(base)
        BY <2>1, <2>2, <2>5, <2>7, <2>6, <3>1
      <4>2. file'[Off' + k] = file[Off + k]
        BY <2>1, <2>2, <2>6, <4>1
      <4> QED BY <4>1, <4>2 DEF LogInv, FileInv
    <3>2. CASE k > Text
      <4>1. /\ k - Text \in 1..Len(s) /\ k = Text + (k - Text)
            /\ off + k = Len(base) + (k - Text)
        <5>1. k \in Int /\ k <= Text + Len(s) /\ Len(s) \in Nat /\ off \in Nat
          BY <2>2, <2>5, <2>7, <2>6
        <5> QED BY <5>1, <2>1, <2>5, <3>2
      <4>2. file'[Off' + k] = s[k - Text]
        BY <2>2, <2>6, <4>1
      <4>3. At(s[k - Text]) = Text + (k - Text)
        BY <4>1 DEF InText
      <4>4. s[k - Text] \in Pieces
        BY <4>1
      <4> QED BY <2>5, <4>1, <4>2, <4>3, <4>4
    <3> QED BY <2>5, <3>1, <3>2, <2>7, <2>2
  <2>9. headless => file'[1] = Header
    BY <2>1, <2>2
  <2>10. FileInv'
    BY <1>1, <2>2, <2>5, <2>7, <2>8, <2>9 DEF FileInv
  <2> QED BY <1>1, <2>2, <2>4, <2>7, <2>10 DEF Grows, F
<1> QED BY <1>2, <1>3

(* What Sink leaves behind is still the text in order, and nothing is lost. *)
LEMMA SinkKeeps ==
  ASSUME LogInv, ~broken, writer # "closed", writer' # "closed", headless' = headless,
         NEW data \in Seq(Pieces), InText(data, Text + Len(pending)), Sink(data)
  PROVE  /\ file' \in Seq(Pieces \cup {Header, Trailer}) /\ pending' \in Seq(Pieces)
         /\ FileInv' /\ Grows
         /\ InText(pending', Text')
         /\ Text' + Len(pending') = Text + Len(pending) + Len(data)
         /\ ~headless \/ file' = <<>> => pending' = <<>>
<1>1. /\ Text \in Nat /\ Len(pending) \in Nat /\ Len(data) \in Nat
      /\ pending \in Seq(Pieces) /\ InText(pending, Text)
      /\ ~headless => pending = <<>>
  BY LogFacts, EmptyFacts DEF LogInv, LogTypes, FileInv, BufferInv
<1>2. CASE ~headless
  <2>1. pending' = <<>> /\ pending = <<>> /\ Len(pending) = 0
    BY <1>1, <1>2, EmptyFacts DEF Sink
  <2>2. file' = (IF headless /\ file = <<>> THEN <<Header>> ELSE file) \o data
    BY <1>2 DEF Sink
  <2>3. InText(data, Text)
    BY <1>1, <2>1
  <2>4. /\ file' \in Seq(Pieces \cup {Header, Trailer})
        /\ FileInv' /\ Grows /\ Text' = Text + Len(data)
    BY <2>2, <2>3, FileGrows
  <2>5. InText(pending', Text')
    BY <2>1 DEF InText
  <2> QED BY <1>1, <2>1, <2>4, <2>5, EmptyFacts
<1>3. CASE headless
  <2> DEFINE D == pending \o data
  <2>1. /\ D \in Seq(Pieces) /\ Len(D) = Len(pending) + Len(data)
        /\ InText(D, Text)
    BY <1>1, ConcatFacts, InTextFacts
  <2>2. PICK k \in 0..Len(D) :
          /\ file' = (IF file = <<>> THEN <<Header>> ELSE file) \o SubSeq(D, 1, k)
          /\ pending' = SubSeq(D, k + 1, Len(D))
    BY <1>3 DEF Sink
  <2> DEFINE s == SubSeq(D, 1, k)
  <2> HIDE DEF D
  <2>3. /\ s \in Seq(Pieces) /\ Len(s) = k /\ InText(s, Text)
    <3>1. 0 \in 0..Len(D) /\ k \in 0..Len(D) /\ Len(D) \in Nat /\ 0 + 1 = 1
          /\ k - 0 = k /\ Text + 0 = Text
      BY <1>1, <2>1
    <3>2. SubSeq(D, 0 + 1, k) \in Seq(Pieces) /\ Len(SubSeq(D, 0 + 1, k)) = k - 0
      BY <2>1, <3>1, CutFacts
    <3>3. InText(SubSeq(D, 0 + 1, k), Text + 0)
      BY <1>1, <2>1, <3>1, InTextFacts
    <3> QED BY <3>1, <3>2, <3>3
  <2>4. /\ pending' \in Seq(Pieces) /\ Len(pending') = Len(D) - k
        /\ InText(pending', Text + k)
    <3>1. k \in 0..Len(D) /\ Len(D) \in k..Len(D)
      BY <1>1, <2>1
    <3>2. InText(SubSeq(D, k + 1, Len(D)), Text + k)
      BY <1>1, <2>1, <3>1, InTextFacts
    <3>3. /\ SubSeq(D, k + 1, Len(D)) \in Seq(Pieces)
          /\ Len(SubSeq(D, k + 1, Len(D))) = Len(D) - k
      BY <2>1, <3>1, CutFacts
    <3> QED BY <2>2, <3>2, <3>3
  <2>5. file' = (IF headless /\ file = <<>> THEN <<Header>> ELSE file) \o s
    BY <1>3, <2>2
  <2> HIDE DEF s
  <2>6. /\ file' \in Seq(Pieces \cup {Header, Trailer})
        /\ FileInv' /\ Grows /\ Text' = Text + k
    BY <2>3, <2>5, FileGrows
  <2>7. file' # <<>>
    <3>1. CASE file = <<>>
      <4>1. file' = <<Header>> \o s
        BY <2>5, <3>1, <1>3
      <4>2. <<Header>> \in Seq({Header} \cup Pieces) /\ s \in Seq({Header} \cup Pieces)
        BY <2>3
      <4>3. Len(file') = Len(<<Header>>) + Len(s) /\ Len(<<Header>>) = 1
        BY <4>1, <4>2, ConcatFacts
      <4> QED BY <2>3, <4>3
    <3>2. CASE file # <<>>
      BY <2>6, <3>2 DEF Grows
    <3> QED BY <3>1, <3>2
  <2> QED BY <1>1, <1>3, <2>1, <2>4, <2>6, <2>7
<1> QED BY <1>2, <1>3 DEF LogInv, LogTypes

LEMMA SinkFailsKeeps ==
  ASSUME LogInv, ~broken, writer # "closed", writer' # "closed", headless' = headless,
         NEW data \in Seq(Pieces), InText(data, Text + Len(pending)), SinkFails(data)
  PROVE  /\ file' \in Seq(Pieces \cup {Header, Trailer})
         /\ FileInv' /\ Grows
         /\ Text' <= Text + Len(pending) + Len(data)
         /\ ~headless \/ file' = <<>> => pending' = <<>>
<1> DEFINE D == pending \o data
<1>1. /\ Text \in Nat /\ Len(pending) \in Nat /\ Len(data) \in Nat
      /\ pending \in Seq(Pieces) /\ InText(pending, Text)
      /\ ~headless \/ file = <<>> => pending = <<>>
      /\ file \in Seq(Pieces \cup {Header, Trailer})
  BY LogFacts, EmptyFacts DEF LogInv, LogTypes, FileInv, BufferInv
<1>2. /\ D \in Seq(Pieces) /\ Len(D) = Len(pending) + Len(data)
      /\ InText(D, Text)
  BY <1>1, ConcatFacts, InTextFacts
<1>3. PICK k \in 0..Len(D) :
        file' = file \o (IF headless /\ file = <<>> /\ k > 0 THEN <<Header>> ELSE <<>>)
                     \o SubSeq(D, 1, k)
  BY DEF SinkFails
<1> DEFINE s == SubSeq(D, 1, k)
<1> HIDE DEF D
<1>4. s \in Seq(Pieces) /\ Len(s) = k /\ InText(s, Text)
  <2>1. 0 \in 0..Len(D) /\ k \in 0..Len(D) /\ Len(D) \in Nat /\ 0 + 1 = 1
        /\ k - 0 = k /\ Text + 0 = Text
    BY <1>1, <1>2
  <2>2. SubSeq(D, 0 + 1, k) \in Seq(Pieces) /\ Len(SubSeq(D, 0 + 1, k)) = k - 0
    BY <1>2, <2>1, CutFacts
  <2>3. InText(SubSeq(D, 0 + 1, k), Text + 0)
    BY <1>1, <1>2, <2>1, InTextFacts
  <2> QED BY <2>1, <2>2, <2>3
<1> HIDE DEF s
<1>5. \/ s = <<>> /\ file' = file
      \/ file' = (IF headless /\ file = <<>> THEN <<Header>> ELSE file) \o s
  <2>1. CASE k = 0
    <3>1. s = <<>>
      BY <1>4, <2>1, EmptyFacts
    <3>2. file' = (file \o <<>>) \o <<>>
      <4>1. ~(headless /\ file = <<>> /\ k > 0)
        BY <2>1
      <4>2. file' = (file \o <<>>) \o s
        BY <1>3, <4>1 DEF s
      <4> QED BY <3>1, <4>2
    <3>3. file \o <<>> = file
      BY <1>1
    <3> QED BY <3>1, <3>2, <3>3
  <2>2. CASE k > 0 /\ headless /\ file = <<>>
    <3>1. file' = (<<>> \o <<Header>>) \o s
      BY <1>3, <2>2 DEF s
    <3>2. <<>> \o <<Header>> = <<Header>>
      OBVIOUS
    <3> QED BY <2>2, <3>1, <3>2
  <2>3. CASE ~(headless /\ file = <<>>)
    <3>1. file' = (file \o <<>>) \o s
      BY <1>3, <2>3 DEF s
    <3>2. file \o <<>> = file
      BY <1>1
    <3> QED BY <2>3, <3>1, <3>2
  <2>4. k = 0 \/ k > 0
    BY <1>1, <1>2
  <2> QED BY <2>1, <2>2, <2>3, <2>4
<1>6. /\ file' \in Seq(Pieces \cup {Header, Trailer})
      /\ FileInv' /\ Grows /\ Text' = Text + k
  BY <1>4, <1>5, FileGrows
<1>7. ~headless \/ file' = <<>> => pending' = <<>>
  BY <1>1, <1>6 DEF SinkFails, Grows
<1> QED BY <1>1, <1>2, <1>6, <1>7

LEMMA InitLog == Init => LogInv
<1> SUFFICES ASSUME Init PROVE LogInv
  OBVIOUS
<1>1. /\ file = <<>> /\ buf = <<>> /\ pending = <<>> /\ next = 0 /\ ~broken
      /\ writer = "writing" /\ headless \in BOOLEAN
  BY DEF Init
<1>2. /\ <<>> \in Seq(Pieces) /\ <<>> \in Seq(Pieces \cup {Header, Trailer})
      /\ Len(<<>>) = 0
  BY EmptyFacts
<1>3. oversized \subseteq Records
  BY DEF Init
<1>4. LogTypes
  <2>1. next \in 0..LastEntry + 1 /\ Len(buf) <= BufSize
    BY <1>1, <1>2, ReplayAssumption
  <2>2. broken \in BOOLEAN
    BY DEF Init
  <2> QED BY <1>1, <1>2, <1>3, <2>1, <2>2 DEF LogTypes
<1>5. Off = 0 /\ Text = 0
  BY <1>1, <1>2 DEF Off, Text, Whole
<1>6. FileInv
  BY <1>1, <1>5 DEF FileInv, Whole
<1>7. InText(<<>>, 0)
  BY <1>2 DEF InText
<1>8. BufferInv
  BY <1>1, <1>2, <1>5, <1>7 DEF BufferInv
<1> QED BY <1>4, <1>6, <1>8 DEF LogInv

LEMMA WriteKeeps == LogInv /\ Write => LogInv' /\ Grows
<1> SUFFICES ASSUME LogInv, Write PROVE LogInv' /\ Grows
  OBVIOUS
<1> DEFINE data == buf \o Line(next)
           F == Pieces \cup {Header, Trailer}
<1>1. /\ headless' = headless /\ ~broken /\ ~broken' /\ writer = "writing"
      /\ writer' = "writing" /\ oversized' = oversized
      /\ next' = next + 1 /\ next \in Records /\ next \in Nat
      /\ headless \in BOOLEAN /\ broken' \in BOOLEAN /\ oversized \subseteq Records
  BY ReplayAssumption DEF Write, LogInv, LogTypes, BufferInv, Records
<1>2. /\ Text \in Nat /\ Len(pending) \in Nat /\ Len(buf) \in Nat
      /\ buf \in Seq(Pieces) /\ pending \in Seq(Pieces) /\ file \in Seq(F)
      /\ InText(pending, Text) /\ InText(buf, Text + Len(pending))
      /\ Text + Len(pending) + Len(buf) = 3 * next
      /\ BufSize \in Nat
  BY <1>1, LogFacts DEF LogInv, LogTypes, FileInv, BufferInv
<1>7. /\ Text \in Nat /\ Len(pending) \in Nat /\ Len(buf) \in Nat /\ next \in Nat
      /\ Text + Len(pending) + Len(buf) = 3 * next
      /\ 3 * next' = 3 * next + 3
  <2>1. next' = next + 1 /\ next \in Nat
    BY <1>1
  <2> QED BY <1>2, <2>1
<1>3. /\ data \in Seq(Pieces) /\ Len(data) = Len(buf) + 3
      /\ InText(data, Text + Len(pending))
  <2>1. Line(next) \in Seq(Pieces) /\ Len(Line(next)) = 3
    BY <1>1, LineFacts
  <2>2. InText(Line(next), (Text + Len(pending)) + Len(buf))
    BY <1>1, <1>2, <2>1, LineFacts DEF InText
  <2>3. Text + Len(pending) \in Nat
    BY <1>2
  <2>4. InText(data, Text + Len(pending))
    BY <1>2, <2>1, <2>2, <2>3, InTextFacts
  <2>5. data \in Seq(Pieces) /\ Len(data) = Len(buf) + Len(Line(next))
    BY <1>2, <2>1, ConcatFacts
  <2> QED BY <2>1, <2>4, <2>5
<1>4. next' \in 0..LastEntry + 1
  BY <1>1, ReplayAssumption DEF Records
<1>5. CASE Len(data) <= BufSize
  <2>1. buf' = data /\ pending' = pending /\ file' = file
    BY <1>5 DEF Write
  <2> HIDE DEF data, F
  <2>2. Off' = Off /\ Text' = Text
    BY <1>1, <2>1 DEF Off, Text, Whole
  <2>3. FileInv' /\ Grows
    BY <1>1, <1>2, <2>1, <2>2, LogFacts DEF LogInv, FileInv, Grows, Whole
  <2>4. BufferInv'
    <3>1. InText(pending', Text') /\ InText(buf', Text' + Len(pending'))
      BY <1>2, <1>3, <2>1, <2>2
    <3>2. Text' + Len(pending') + Len(buf') = 3 * next' /\ Text' <= 3 * next'
      <4>1. Len(buf') = Len(buf) + 3 /\ pending' = pending
        BY <1>3, <2>1
      <4> QED BY <1>7, <2>2, <4>1
    <3>3. ~headless' \/ file' = <<>> => pending' = <<>>
      BY <1>1, <2>1 DEF LogInv, BufferInv
    <3> QED BY <1>1, <3>1, <3>2, <3>3 DEF BufferInv
  <2>5. LogTypes'
    <3>1. /\ buf' \in Seq(Pieces) /\ Len(buf') <= BufSize
          /\ pending' \in Seq(Pieces) /\ file' \in Seq(F)
      BY <1>2, <1>3, <1>5, <2>1
    <3> QED BY <1>1, <1>4, <3>1 DEF LogTypes, F
  <2> QED BY <2>3, <2>4, <2>5 DEF LogInv
<1>6. CASE Len(data) > BufSize
  <2>1. PICK keep \in 0..BufSize :
          /\ Sink(SubSeq(data, 1, Len(data) - keep))
          /\ buf' = SubSeq(data, Len(data) - keep + 1, Len(data))
    <3>1. ~(Len(data) <= BufSize)
      BY <1>2, <1>3, <1>6
    <3> QED BY <3>1 DEF Write
  <2> DEFINE cut == Len(data) - keep
             down == SubSeq(data, 1, cut)
  <2> HIDE DEF data, F
  <2>2. cut \in 0..Len(data) /\ Len(data) \in Nat /\ 0 + 1 = 1 /\ cut - 0 = cut
    BY <1>2, <1>3, <1>6
  <2>3. /\ down \in Seq(Pieces) /\ Len(down) = cut
        /\ InText(down, Text + Len(pending))
    <3>1. /\ SubSeq(data, 0 + 1, cut) \in Seq(Pieces)
          /\ Len(SubSeq(data, 0 + 1, cut)) = cut - 0
      BY <1>3, <2>2, CutFacts
    <3>2. Text + Len(pending) \in Nat /\ (Text + Len(pending)) + 0 = Text + Len(pending)
      BY <1>2
    <3>3. InText(SubSeq(data, 0 + 1, cut), (Text + Len(pending)) + 0)
      BY <1>3, <2>2, <3>2, InTextFacts
    <3> QED BY <2>2, <3>1, <3>2, <3>3
  <2>4. /\ buf' \in Seq(Pieces) /\ Len(buf') = keep
        /\ InText(buf', Text + Len(pending) + cut)
    <3>1. Text + Len(pending) \in Nat /\ Len(data) \in cut..Len(data)
          /\ Len(data) - cut = keep /\ keep \in Nat
      BY <1>2, <2>2
    <3>2. /\ SubSeq(data, cut + 1, Len(data)) \in Seq(Pieces)
          /\ Len(SubSeq(data, cut + 1, Len(data))) = Len(data) - cut
      BY <1>3, <2>2, <3>1, CutFacts
    <3>3. InText(SubSeq(data, cut + 1, Len(data)), Text + Len(pending) + cut)
      BY <1>3, <2>2, <3>1, InTextFacts
    <3> QED BY <2>1, <3>1, <3>2, <3>3
  <2>5. Sink(down)
    BY <2>1
  <2> HIDE DEF cut, down
  <2>6. /\ file' \in Seq(F) /\ pending' \in Seq(Pieces)
        /\ FileInv' /\ Grows
        /\ InText(pending', Text')
        /\ Text' + Len(pending') = Text + Len(pending) + cut
        /\ ~headless \/ file' = <<>> => pending' = <<>>
    <3>1. writer # "closed" /\ writer' # "closed"
      BY <1>1
    <3> QED BY <1>1, <2>3, <2>5, <3>1, SinkKeeps DEF F
  <2>7. LogTypes'
    <3>1. Len(buf') <= BufSize
      BY <1>2, <2>4
    <3> QED BY <1>1, <1>4, <2>4, <2>6, <3>1 DEF LogTypes, F
  <2>8. BufferInv'
    <3>1. InText(buf', Text' + Len(pending'))
      BY <2>4, <2>6
    <3>2. Text' \in Nat /\ Len(pending') \in Nat
      BY <2>6, EmptyFacts DEF FileInv
    <3>3. Text' + Len(pending') + Len(buf') = 3 * next'
      <4>1. Len(buf') = keep /\ Len(data) = Len(buf) + 3 /\ cut = Len(data) - keep
        BY <1>3, <2>4 DEF cut
      <4>2. keep \in Int
        BY <1>2
      <4>3. cut = (Len(buf) + 3) - keep /\ Len(buf') = keep
        BY <4>1
      <4>4. Text' + Len(pending') = Text + Len(pending) + ((Len(buf) + 3) - keep)
        BY <2>6, <4>3
      <4> QED BY <1>7, <3>2, <4>2, <4>3, <4>4
    <3>4. Text' <= 3 * next'
      BY <1>1, <2>4, <3>2, <3>3
    <3> QED BY <1>1, <2>6, <3>1, <3>3, <3>4 DEF BufferInv
  <2> QED BY <2>6, <2>7, <2>8 DEF LogInv
<1> QED BY <1>2, <1>3, <1>5, <1>6

LEMMA WriteFailsKeeps == LogInv /\ WriteFails => LogInv' /\ Grows
<1> SUFFICES ASSUME LogInv, WriteFails PROVE LogInv' /\ Grows
  OBVIOUS
<1> DEFINE data == buf \o Line(next)
<1>1. /\ headless' = headless /\ ~broken /\ writer = "writing" /\ next \in Records
      /\ writer' = "abandoned" /\ oversized' = oversized /\ broken' = TRUE
      /\ next' = next /\ buf' = buf /\ pending' = pending /\ SinkFails(data)
  <2>1. /\ headless' = headless /\ writer = "writing" /\ writer' = "abandoned"
        /\ oversized' = oversized /\ next' = next /\ buf' = buf
        /\ next <= LastEntry /\ SinkFails(data)
    BY DEF WriteFails
  <2>2. broken' = TRUE /\ pending' = pending
    BY <2>1 DEF SinkFails
  <2>3. ~broken
    BY <2>1 DEF LogInv, BufferInv
  <2>4. next \in Records
    BY <2>1, ReplayAssumption DEF LogInv, LogTypes, Records
  <2> QED BY <2>1, <2>2, <2>3, <2>4
<1>2. /\ Text \in Nat /\ Len(pending) \in Nat /\ Len(buf) \in Nat /\ next \in Nat
      /\ buf \in Seq(Pieces) /\ InText(buf, Text + Len(pending))
      /\ Text + Len(pending) + Len(buf) = 3 * next
  BY <1>1, LogFacts DEF LogInv, LogTypes, FileInv, BufferInv
<1>3. /\ data \in Seq(Pieces) /\ Len(data) = Len(buf) + 3
      /\ InText(data, Text + Len(pending))
  <2>1. Line(next) \in Seq(Pieces) /\ Len(Line(next)) = 3
    BY <1>1, LineFacts
  <2>2. InText(Line(next), (Text + Len(pending)) + Len(buf))
    BY <1>1, <1>2, <2>1, LineFacts DEF InText
  <2>3. Text + Len(pending) \in Nat
    BY <1>2
  <2>4. InText(data, Text + Len(pending))
    BY <1>2, <2>1, <2>2, <2>3, InTextFacts
  <2>5. data \in Seq(Pieces) /\ Len(data) = Len(buf) + Len(Line(next))
    BY <1>2, <2>1, ConcatFacts
  <2> QED BY <2>1, <2>4, <2>5
<1> HIDE DEF data
<1>4. /\ file' \in Seq(Pieces \cup {Header, Trailer})
      /\ FileInv' /\ Grows
      /\ Text' <= Text + Len(pending) + Len(data)
      /\ ~headless \/ file' = <<>> => pending' = <<>>
  <2>1. writer # "closed" /\ writer' # "closed"
    BY <1>1
  <2> QED BY <1>1, <1>3, <2>1, SinkFailsKeeps
<1>5. LogTypes'
  BY <1>1, <1>4 DEF LogInv, LogTypes
<1>6. BufferInv'
  <2>1. Text' <= 3 * next' + 3
    <3>1. Text' \in Nat /\ next' = next /\ Len(data) = Len(buf) + 3
      BY <1>1, <1>3, <1>4 DEF FileInv
    <3> QED BY <1>2, <1>4, <3>1
  <2> QED BY <1>1, <1>4, <2>1 DEF BufferInv
<1> QED BY <1>4, <1>5, <1>6 DEF LogInv

LEMMA AbandonKeeps == LogInv /\ Abandon => LogInv' /\ Grows
<1> SUFFICES ASSUME LogInv, Abandon PROVE LogInv' /\ Grows
  OBVIOUS
<1>1. /\ headless' = headless /\ writer = "writing" /\ writer' = "abandoned"
      /\ broken' = broken /\ next' = next /\ buf' = buf /\ pending' = pending
      /\ file' = file /\ oversized' = oversized
  BY DEF Abandon
<1>2. Off' = Off /\ Text' = Text /\ Text \in Nat /\ Len(file) \in Nat
  BY <1>1, LogFacts DEF Off, Text, Whole, LogInv, FileInv
<1>3. FileInv' /\ Grows
  BY <1>1, <1>2 DEF LogInv, FileInv, Grows, Whole
<1>4. LogTypes'
  BY <1>1 DEF LogInv, LogTypes
<1>5. BufferInv'
  BY <1>1, <1>2 DEF LogInv, BufferInv
<1> QED BY <1>3, <1>4, <1>5 DEF LogInv

LEMMA FlushKeeps == LogInv /\ Flush => LogInv' /\ Grows
<1> SUFFICES ASSUME LogInv, Flush PROVE LogInv' /\ Grows
  OBVIOUS
<1>1. /\ headless' = headless /\ ~broken /\ broken' = broken /\ writer = "writing"
      /\ writer' = "flushed" /\ oversized' = oversized
      /\ next = LastEntry + 1 /\ next' = next /\ buf' = <<>> /\ pending' = <<>>
      /\ Sink(buf)
  BY DEF Flush, LogInv, BufferInv
<1>2. /\ Text \in Nat /\ Len(pending) \in Nat /\ Len(buf) \in Nat /\ next \in Nat
      /\ buf \in Seq(Pieces) /\ InText(buf, Text + Len(pending))
      /\ Text + Len(pending) + Len(buf) = 3 * next
      /\ BufSize \in Nat
  BY <1>1, LogFacts DEF LogInv, LogTypes, FileInv, BufferInv
<1>3. /\ file' \in Seq(Pieces \cup {Header, Trailer})
      /\ FileInv' /\ Grows
      /\ Text' + Len(pending') = Text + Len(pending) + Len(buf)
  <2>1. writer # "closed" /\ writer' # "closed"
    BY <1>1
  <2> QED BY <1>1, <1>2, <2>1, SinkKeeps
<1>4. <<>> \in Seq(Pieces) /\ Len(<<>>) = 0
  BY EmptyFacts
<1>5. LogTypes'
  <2>1. Len(buf') <= BufSize
    BY <1>1, <1>2, <1>4
  <2> QED BY <1>1, <1>3, <1>4, <2>1 DEF LogInv, LogTypes
<1>6. BufferInv'
  <2>1. /\ Text' \in Nat /\ Len(pending') = 0 /\ Len(buf') = 0
    BY <1>1, <1>3, <1>4 DEF FileInv
  <2>2. Text' + Len(pending') + Len(buf') = 3 * next' /\ Text' <= 3 * next'
    <3>1. Text' = 3 * next /\ next' = next
      BY <1>1, <1>2, <1>3, <2>1
    <3> QED BY <1>2, <2>1, <3>1
  <2>3. InText(<<>>, Text') /\ InText(<<>>, Text' + 0)
    BY <1>4 DEF InText
  <2>4. InText(pending', Text') /\ InText(buf', Text' + Len(pending'))
    BY <1>1, <2>1, <2>3
  <2> QED BY <1>1, <2>2, <2>4 DEF BufferInv
<1> QED BY <1>3, <1>5, <1>6 DEF LogInv

LEMMA FlushFailsKeeps == LogInv /\ FlushFails => LogInv' /\ Grows
<1> SUFFICES ASSUME LogInv, FlushFails PROVE LogInv' /\ Grows
  OBVIOUS
<1>1. /\ headless' = headless /\ ~broken /\ broken' = TRUE /\ writer = "writing"
      /\ writer' = "flushed" /\ oversized' = oversized
      /\ next = LastEntry + 1 /\ next' = next /\ buf' = buf /\ pending' = pending
      /\ SinkFails(buf)
  BY DEF FlushFails, SinkFails, LogInv, BufferInv
<1>2. /\ Text \in Nat /\ Len(pending) \in Nat /\ Len(buf) \in Nat /\ next \in Nat
      /\ buf \in Seq(Pieces) /\ InText(buf, Text + Len(pending))
      /\ Text + Len(pending) + Len(buf) = 3 * next
  BY <1>1, LogFacts DEF LogInv, LogTypes, FileInv, BufferInv
<1>3. /\ file' \in Seq(Pieces \cup {Header, Trailer})
      /\ FileInv' /\ Grows
      /\ Text' <= Text + Len(pending) + Len(buf)
      /\ ~headless \/ file' = <<>> => pending' = <<>>
  <2>1. writer # "closed" /\ writer' # "closed"
    BY <1>1
  <2> QED BY <1>1, <1>2, <2>1, SinkFailsKeeps
<1>4. LogTypes'
  BY <1>1, <1>3 DEF LogInv, LogTypes
<1>5. BufferInv'
  <2>1. Text' <= 3 * next' + 3
    <3>1. Text' \in Nat /\ next' = next
      BY <1>1, <1>3 DEF FileInv
    <3> QED BY <1>2, <1>3, <3>1
  <2> QED BY <1>1, <1>3, <2>1 DEF BufferInv
<1> QED BY <1>3, <1>4, <1>5 DEF LogInv

LEMMA CloseKeeps == LogInv /\ Close => LogInv' /\ Grows
<1> SUFFICES ASSUME LogInv, Close PROVE LogInv' /\ Grows
  OBVIOUS
<1> DEFINE F == Pieces \cup {Header, Trailer}
<1>1. /\ headless' = headless /\ writer = "flushed" /\ writer' = "closed"
      /\ oversized' = oversized /\ next' = next /\ buf' = buf /\ pending' = pending
      /\ broken' \in BOOLEAN /\ (broken => broken') /\ next = LastEntry + 1
      /\ (~headless => broken' = broken)
      /\ file' = IF headless /\ ~broken' THEN Append(file, Trailer) ELSE file
      /\ headless \in BOOLEAN /\ broken \in BOOLEAN
  BY DEF Close, LogInv, LogTypes, BufferInv
<1>2. /\ Text \in Nat /\ Len(file) \in Nat /\ Off \in {0, 1} /\ file \in Seq(F)
      /\ next \in Nat /\ Text = Len(file) - Off
      /\ file = <<>> <=> Len(file) = 0
  BY <1>1, LogFacts DEF LogInv, LogTypes, FileInv, Text, Whole
<1>3. ~broken => /\ buf = <<>> /\ pending = <<>> /\ Len(buf) = 0 /\ Len(pending) = 0
                 /\ Text = 3 * next
  <2>1. ~broken => /\ buf = <<>> /\ pending = <<>>
                   /\ Text + Len(pending) + Len(buf) = 3 * next
    BY <1>1 DEF LogInv, BufferInv
  <2>2. Len(<<>>) = 0
    BY EmptyFacts
  <2> QED BY <1>2, <2>1, <2>2
<1>4. CASE headless /\ ~broken'
  <2>1. file' = Append(file, Trailer) /\ ~broken
    BY <1>1, <1>4
  <2>2. Trailer \in F
    OBVIOUS
  <2> HIDE DEF F
  <2>3. /\ file' \in Seq(F) /\ Len(file') = Len(file) + 1
        /\ \A i \in 1..Len(file) : file'[i] = file[i]
        /\ file'[Len(file) + 1] = Trailer
    BY <1>2, <2>1, <2>2, AppendFacts
  <2>4. file # <<>> /\ file' # <<>> /\ Len(file) >= 1
    <3>1. Len(file) > 0
      BY <1>1, <1>2, <1>3, <2>1, ReplayAssumption
    <3>2. Len(file') # 0
      BY <1>2, <2>3
    <3> QED BY <1>2, <3>1, <3>2, EmptyFacts
  <2>5. Off' = 1 /\ Off = 1
    BY <1>1, <1>4, <2>4 DEF Off
  <2>6. Text' = Text
    <3>1. Text' = Len(file') - Off' - 1
      BY <1>1, <1>4 DEF Text, Whole
    <3> QED BY <1>2, <2>3, <2>5, <3>1
  <2>7. FileInv'
    <3>1. file'[1] = Header
      BY <1>2, <1>4, <2>3, <2>4 DEF LogInv, FileInv
    <3>2. \A k \in 1..Text' : file'[Off' + k] \in Pieces /\ At(file'[Off' + k]) = k
      <4>1. \A k \in 1..Text : Off + k \in 1..Len(file)
        BY <1>2, <2>5
      <4> QED BY <2>3, <2>5, <2>6, <4>1 DEF LogInv, FileInv
    <3> QED BY <1>2, <2>3, <2>4, <2>6, <3>1, <3>2 DEF FileInv
  <2>8. Grows
    BY <1>1, <1>2, <2>3, <2>4, <2>5, <2>6 DEF Grows, Whole
  <2>9. LogTypes'
    BY <1>1, <2>3 DEF LogInv, LogTypes, F
  <2>10. BufferInv'
    BY <1>1, <1>3, <1>4, <2>1, <2>4, <2>6 DEF LogInv, BufferInv
  <2> QED BY <2>7, <2>8, <2>9, <2>10 DEF LogInv
<1>5. CASE ~(headless /\ ~broken')
  <2>1. file' = file
    BY <1>1, <1>5
  <2>2. Off' = Off /\ Text' = Text
    <3>1. Off' = Off
      BY <1>1, <2>1 DEF Off
    <3>2. Text' = Len(file) - Off
      BY <1>1, <1>2, <1>5, <2>1, <3>1 DEF Text, Whole
    <3> QED BY <1>2, <3>1, <3>2
  <2>3. FileInv' /\ Grows
    BY <1>1, <1>2, <1>5, <2>1, <2>2 DEF LogInv, FileInv, Grows, Whole
  <2>4. LogTypes'
    BY <1>1, <2>1 DEF LogInv, LogTypes
  <2>5. BufferInv'
    <3>1. Text <= 3 * next + (IF broken' THEN 3 ELSE 0)
      BY <1>1, <1>2 DEF LogInv, BufferInv
    <3> QED BY <1>1, <1>3, <2>1, <2>2, <3>1 DEF LogInv, BufferInv
  <2> QED BY <2>3, <2>4, <2>5 DEF LogInv
<1> QED BY <1>4, <1>5

LEMMA CrashKeeps == LogInv /\ Crash => LogInv' /\ Grows
<1> SUFFICES ASSUME LogInv, Crash PROVE LogInv' /\ Grows
  OBVIOUS
<1>1. /\ headless' = headless /\ oversized' = oversized /\ next' = next
      /\ file' = file /\ broken' = broken /\ buf' = <<>> /\ pending' = <<>>
      /\ writer' = IF writer = "closed" THEN "closed" ELSE "crashed"
  BY DEF Crash
<1>2. <<>> \in Seq(Pieces) /\ Len(<<>>) = 0
  BY EmptyFacts
<1>3. Off' = Off /\ Text' = Text /\ Text \in Nat /\ Len(file) \in Nat
  BY <1>1, LogFacts DEF Off, Text, Whole, LogInv, FileInv
<1>4. FileInv' /\ Grows
  BY <1>1, <1>3 DEF LogInv, FileInv, Grows, Whole
<1>5. LogTypes'
  <2>1. Len(buf') <= BufSize
    BY <1>1, <1>2, ReplayAssumption
  <2> QED BY <1>1, <1>2, <2>1 DEF LogInv, LogTypes
<1>6. BufferInv'
  <2>1. InText(<<>>, Text) /\ InText(<<>>, Text + Len(<<>>))
    BY <1>2 DEF InText
  <2>2. ~broken /\ writer = "closed" => buf = <<>> /\ pending = <<>>
    BY DEF LogInv, BufferInv
  <2> QED BY <1>1, <1>2, <1>3, <2>1, <2>2 DEF LogInv, BufferInv
<1> QED BY <1>4, <1>5, <1>6 DEF LogInv

LEMMA WriterKeeps == LogInv /\ WriterStep => LogInv' /\ Grows
BY WriteKeeps, WriteFailsKeeps, AbandonKeeps, FlushKeeps, FlushFailsKeeps,
   CloseKeeps, CrashKeeps DEF WriterStep

LEMMA LogUnchanged == LogInv /\ UNCHANGED log => LogInv' /\ Grows
<1> SUFFICES ASSUME LogInv, UNCHANGED log PROVE LogInv' /\ Grows
  OBVIOUS
<1>1. /\ headless' = headless /\ oversized' = oversized /\ next' = next
      /\ file' = file /\ broken' = broken /\ buf' = buf /\ pending' = pending
      /\ writer' = writer
  BY DEF log
<1>2. Off' = Off /\ Text' = Text /\ Text \in Nat /\ Len(file) \in Nat
  BY <1>1, LogFacts DEF Off, Text, Whole, LogInv, FileInv
<1>3. FileInv' /\ Grows
  BY <1>1, <1>2 DEF LogInv, FileInv, Grows, Whole
<1>4. LogTypes' /\ BufferInv'
  BY <1>1, <1>2 DEF LogInv, LogTypes, BufferInv
<1> QED BY <1>3, <1>4 DEF LogInv

-----------------------------------------------------------------------------
(* The reader. *)
PosOK == LogInv /\ pos \in 0..Len(file)

LEMMA RestFacts ==
  ASSUME PosOK
  PROVE  /\ Rest \in Seq(Pieces \cup {Header, Trailer})
         /\ Len(Rest) = Len(file) - pos /\ Len(file) \in Nat /\ pos \in Nat
         /\ \A k \in 1..Len(file) - pos : Rest[k] = file[pos + k]
<1> DEFINE F == Pieces \cup {Header, Trailer}
<1>1. file \in Seq(F) /\ Len(file) \in Nat
  BY LogFacts DEF PosOK, LogInv, LogTypes
<1>2. pos \in 0..Len(file) /\ Len(file) \in pos..Len(file)
  BY <1>1 DEF PosOK
<1> HIDE DEF F
<1>3. /\ SubSeq(file, pos + 1, Len(file)) \in Seq(F)
      /\ Len(SubSeq(file, pos + 1, Len(file))) = Len(file) - pos
      /\ \A k \in 1..Len(file) - pos : SubSeq(file, pos + 1, Len(file))[k] = file[pos + k]
  BY <1>1, <1>2, CutFacts
<1> QED BY <1>1, <1>2, <1>3 DEF Rest, F

(* What was scanned is the beginning of the rest. *)
LEMMA ScannedFacts ==
  ASSUME PosOK
  PROVE  /\ Len(Scanned) \in 0..Len(file) - pos
         /\ \A k \in 1..Len(Scanned) : Scanned[k] = file[pos + k]
<1> DEFINE F == Pieces \cup {Header, Trailer}
           nl == {n \in 1..Len(Rest) : Rest[n] \in Newlines}
<1>1. /\ Rest \in Seq(F) /\ Len(Rest) = Len(file) - pos
      /\ Len(file) \in Nat /\ pos \in Nat /\ pos <= Len(file)
      /\ \A k \in 1..Len(file) - pos : Rest[k] = file[pos + k]
  BY RestFacts DEF PosOK
<1> HIDE DEF F
<1>2. CASE nl = {}
  <2>1. Scanned = Rest
    BY <1>2 DEF Scanned
  <2> QED BY <1>1, <2>1
<1>3. CASE nl # {}
  <2> DEFINE m == Min(nl)
  <2>1. m \in 1..Len(Rest)
    <3>1. nl \subseteq Nat
      OBVIOUS
    <3>2. m \in nl
      <4> HIDE DEF nl
      <4> QED BY <1>3, <3>1, MinFacts
    <3> QED BY <3>2
  <2>2. Scanned = SubSeq(Rest, 1, m - 1)
    BY <1>3 DEF Scanned
  <2> HIDE DEF m, nl
  <2>3. m - 1 \in 0..Len(Rest) /\ 0 \in 0..Len(Rest) /\ 0 + 1 = 1 /\ (m - 1) - 0 = m - 1
    BY <1>1, <2>1
  <2>4. /\ Len(SubSeq(Rest, 0 + 1, m - 1)) = (m - 1) - 0
        /\ \A k \in 1..(m - 1) - 0 : SubSeq(Rest, 0 + 1, m - 1)[k] = Rest[0 + k]
    BY <1>1, <2>3, CutFacts
  <2>5. Len(Scanned) = m - 1 /\ \A k \in 1..m - 1 : Scanned[k] = Rest[k]
    <3>1. \A k \in 1..m - 1 : 0 + k = k
      BY <2>1
    <3> QED BY <2>2, <2>3, <2>4, <3>1
  <2> QED BY <1>1, <2>1, <2>3, <2>5
<1> QED BY <1>2, <1>3

LEMMA LineCut ==
  ASSUME NEW i \in Records
  PROVE  /\ Len(SubSeq(Line(i), 1, 2)) = 2 /\ SubSeq(Line(i), 1, 2) \in Seq(Pieces)
         /\ SubSeq(Line(i), 1, 2)[1] = <<i, 1>> /\ SubSeq(Line(i), 1, 2)[2] = <<i, 2>>
<1>1. /\ Line(i) \in Seq(Pieces) /\ Len(Line(i)) = 3
      /\ \A k \in 1..3 : Line(i)[k] = <<i, k>>
  BY LineFacts
<1>2. /\ Len(SubSeq(Line(i), 0 + 1, 2)) = 2 - 0 /\ SubSeq(Line(i), 0 + 1, 2) \in Seq(Pieces)
      /\ \A k \in 1..2 - 0 : SubSeq(Line(i), 0 + 1, 2)[k] = Line(i)[0 + k]
  <2>1. 0 \in 0..Len(Line(i)) /\ 2 \in 0..Len(Line(i))
    BY <1>1
  <2> QED BY <1>1, <2>1, CutFacts
<1>3. 0 + 1 = 1 /\ 2 - 0 = 2 /\ 0 + 2 = 2 /\ 1 \in 1..2 /\ 2 \in 1..2 /\ 1 \in 1..3 /\ 2 \in 1..3
  OBVIOUS
<1> QED BY <1>1, <1>2, <1>3

(* Wherever the reader stands near the beginning of record m, what it takes for a
   record is record m, and it stands at the beginning. *)
LEMMA ReadsNext ==
  ASSUME PosOK, NEW m \in Nat,
         pos = Off + 3 * m \/ (pos = Off + 3 * m - 1 /\ m > 0),
         NEW i \in nextRecord
  PROVE  /\ i = m /\ i \in Records /\ pos = Off + 3 * m
         /\ 3 * m + 2 <= Text /\ Len(Scanned) = 2
<1>1. i \in Records /\ i \in Nat /\ Scanned = SubSeq(Line(i), 1, 2)
  BY ReplayAssumption DEF nextRecord, Records
<1>2. Len(Scanned) = 2 /\ Scanned[1] = <<i, 1>> /\ Scanned[2] = <<i, 2>>
  BY <1>1, LineCut
<1>3. /\ Len(file) \in Nat /\ Off \in {0, 1} /\ Text \in Nat /\ pos \in Nat
      /\ headless /\ Whole => file[Len(file)] = Trailer
      /\ Text = Len(file) - Off \/ (Text = Len(file) - Off - 1 /\ headless /\ Whole)
  BY LogFacts DEF PosOK, LogInv, FileInv, Text
<1>4. /\ pos + 2 <= Len(file)
      /\ file[pos + 1] = <<i, 1>> /\ file[pos + 2] = <<i, 2>>
  <2>1. 1 \in 1..Len(Scanned) /\ 2 \in 1..Len(Scanned)
    BY <1>2
  <2>2. Len(Scanned) <= Len(file) - pos
    BY <1>2, <1>3, ScannedFacts
  <2> QED BY <1>2, <1>3, <2>1, <2>2, ScannedFacts
<1>5. <<i, 1>> \in Pieces /\ <<i, 2>> \in Pieces
      /\ At(<<i, 1>>) = 3 * i + 1 /\ At(<<i, 2>>) = 3 * i + 2
  BY <1>1, PieceFacts DEF At
<1>6. pos + 2 - Off <= Text
  <2>1. CASE Text = Len(file) - Off
    BY <1>3, <1>4, <2>1
  <2>2. CASE Text = Len(file) - Off - 1 /\ headless /\ Whole
    <3>1. pos + 2 # Len(file)
      BY <1>3, <1>4, <1>5, <2>2, MarkFacts
    <3> QED BY <1>3, <1>4, <2>2, <3>1
  <2> QED BY <1>3, <2>1, <2>2
<1>7. pos + 1 - Off = 3 * i + 1
  <2>1. pos + 1 - Off \in 1..Text /\ Off + (pos + 1 - Off) = pos + 1
    BY <1>3, <1>6
  <2>2. At(file[Off + (pos + 1 - Off)]) = pos + 1 - Off
    BY <2>1 DEF PosOK, LogInv, FileInv
  <2> QED BY <1>4, <1>5, <2>1, <2>2
<1>8. pos - Off = 3 * i
  BY <1>1, <1>3, <1>7
<1>9. i = m
  BY <1>1, <1>3, <1>8
<1> QED BY <1>1, <1>2, <1>3, <1>6, <1>8, <1>9

(* A log that was closed without an error is there to its end. *)
LEMMA WholeFacts ==
  ASSUME LogInv, Whole
  PROVE  /\ Text = 3 * LastEntry + 3 /\ LastEntry \in Nat /\ next = LastEntry + 1
         /\ Len(file) = Off + Text + (IF headless THEN 1 ELSE 0)
         /\ headless => file[Len(file)] = Trailer
         /\ Off \in {0, 1} /\ Len(file) \in Nat
<1>1. /\ ~broken /\ writer = "closed"
  BY DEF Whole
<1>2. /\ next = LastEntry + 1 /\ buf = <<>> /\ pending = <<>>
      /\ Text + Len(pending) + Len(buf) = 3 * next
  BY <1>1 DEF LogInv, BufferInv
<1>3. Len(buf) = 0 /\ Len(pending) = 0
  BY <1>2, EmptyFacts
<1>4. /\ Len(file) \in Nat /\ Off \in {0, 1} /\ Text \in Nat /\ LastEntry \in Nat
      /\ Text = Len(file) - Off - (IF headless THEN 1 ELSE 0)
      /\ headless => file[Len(file)] = Trailer
  BY LogFacts, ReplayAssumption DEF LogInv, FileInv, Text, Whole
<1>5. Text = 3 * LastEntry + 3
  BY <1>2, <1>3, <1>4
<1> QED BY <1>2, <1>4, <1>5

(* At the beginning of a record of such a log the reader finds the record, unless
   it is too long, and at the end the end. *)
LEMMA ReadsOn ==
  ASSUME PosOK, Whole, oversized = {}, NEW m \in Records, pos = Off + 3 * m
  PROVE  nextRecord = {m} /\ Len(Scanned) = 2 /\ Len(Scanned) < Len(Rest)
<1>1. /\ m \in Nat /\ m <= LastEntry /\ LastEntry \in Nat
      /\ Text = 3 * LastEntry + 3 /\ Len(file) \in Nat /\ Off \in {0, 1}
      /\ Len(file) >= Off + Text
  BY WholeFacts DEF PosOK, Records
<1>2. /\ Rest \in Seq(Pieces \cup {Header, Trailer})
      /\ Len(Rest) = Len(file) - pos /\ pos \in Nat /\ Len(Rest) >= 3
      /\ \A k \in 1..Len(file) - pos : Rest[k] = file[pos + k]
  BY <1>1, RestFacts
<1>3. \A k \in 1..3 : Rest[k] = <<m, k>>
  <2> SUFFICES ASSUME NEW k \in 1..3 PROVE Rest[k] = <<m, k>>
    OBVIOUS
  <2>1. 3 * m + k \in 1..Text /\ Off + (3 * m + k) = pos + k /\ k \in 1..Len(file) - pos
    <3>1. 3 * m + k \in 1..Text
      BY <1>1
    <3>2. /\ m \in Nat /\ k \in Nat /\ Off \in Nat /\ Text \in Nat /\ Len(file) \in Nat
          /\ k >= 1 /\ 3 * m + k <= Text /\ Off + Text <= Len(file) /\ pos = Off + 3 * m
      BY <1>1, <3>1
    <3>3. Off + (3 * m + k) = pos + k
      BY ONLY <3>2
    <3>4. pos + k <= Len(file)
      BY ONLY <3>2
    <3>5. k \in 1..Len(file) - pos
      BY ONLY <3>2, <3>4
    <3> QED BY <3>1, <3>3, <3>5
  <2>2. Rest[k] \in Pieces /\ At(Rest[k]) = 3 * m + k
    <3>1. Rest[k] = file[Off + (3 * m + k)]
      BY <1>2, <2>1
    <3> QED BY <2>1, <3>1 DEF PosOK, LogInv, FileInv
  <2>3. PICK i \in Records, j \in {1, 2, 3} : Rest[k] = <<i, j>>
    BY <2>2, PieceFacts
  <2>4. 3 * i + j = 3 * m + k /\ i \in Nat
    BY <2>2, <2>3, ReplayAssumption DEF At, Records
  <2>5. i = m /\ j = k
    BY <1>1, <2>4
  <2> QED BY <2>3, <2>5
<1> DEFINE nl == {n \in 1..Len(Rest) : Rest[n] \in Newlines}
<1>4. /\ Rest[1] = <<m, 1>> /\ Rest[2] = <<m, 2>> /\ Rest[3] = <<m, 3>>
      /\ 1 \in 1..Len(Rest) /\ 2 \in 1..Len(Rest) /\ 3 \in 1..Len(Rest)
  <2>1. 1 \in 1..3 /\ 2 \in 1..3 /\ 3 \in 1..3
    OBVIOUS
  <2>2. Len(Rest) \in Nat
    BY <1>2, EmptyFacts
  <2> QED BY <1>2, <1>3, <2>1, <2>2
<1>5. Min(nl) = 3 /\ nl # {}
  <2>1. 3 \in nl
    BY <1>4 DEF Newlines
  <2>2. 1 \notin nl /\ 2 \notin nl
    BY <1>4 DEF Newlines
  <2>3. nl \subseteq Nat
    OBVIOUS
  <2> HIDE DEF nl
  <2>4. Min(nl) \in nl /\ Min(nl) <= 3 /\ Min(nl) \in Nat
    BY <2>1, <2>3, MinFacts
  <2>5. 0 \notin nl
    BY DEF nl
  <2> QED BY <2>1, <2>2, <2>4, <2>5
<1>6. Scanned = SubSeq(Rest, 1, 2)
  <2>1. 3 - 1 = 2
    OBVIOUS
  <2>2. Scanned = SubSeq(Rest, 1, Min(nl) - 1)
    BY <1>5 DEF Scanned
  <2> HIDE DEF nl
  <2> QED BY <1>5, <2>1, <2>2
<1>7. Scanned = SubSeq(Line(m), 1, 2) /\ Len(Scanned) = 2
  <2> DEFINE F == Pieces \cup {Header, Trailer}
  <2>1. /\ Len(SubSeq(Rest, 0 + 1, 2)) = 2 - 0 /\ SubSeq(Rest, 0 + 1, 2) \in Seq(F)
        /\ \A k \in 1..2 - 0 : SubSeq(Rest, 0 + 1, 2)[k] = Rest[0 + k]
    <3>1. 0 \in 0..Len(Rest) /\ 2 \in 0..Len(Rest) /\ Rest \in Seq(F)
      BY <1>2
    <3> HIDE DEF F
    <3> QED BY <3>1, CutFacts
  <2>2. SubSeq(Rest, 1, 2) \in Seq(F) /\ SubSeq(Line(m), 1, 2) \in Seq(F)
    BY <2>1, LineCut
  <2>3. /\ Len(SubSeq(Rest, 1, 2)) = 2 /\ Len(SubSeq(Line(m), 1, 2)) = 2
        /\ \A k \in 1..2 : SubSeq(Rest, 1, 2)[k] = SubSeq(Line(m), 1, 2)[k]
    <3>1. SubSeq(Rest, 1, 2)[1] = <<m, 1>> /\ SubSeq(Rest, 1, 2)[2] = <<m, 2>>
      <4>1. /\ 0 + 1 = 1 /\ 0 + 2 = 2 /\ 2 - 0 = 2 /\ 1 \in 1..2 /\ 2 \in 1..2
            /\ 1 \in 1..3 /\ 2 \in 1..3
        OBVIOUS
      <4> QED BY <1>3, <2>1, <4>1
    <3>2. \A k \in 1..2 : k = 1 \/ k = 2
      OBVIOUS
    <3> QED BY <2>1, <3>1, <3>2, LineCut
  <2>4. SubSeq(Rest, 1, 2) = SubSeq(Line(m), 1, 2)
    <3> HIDE DEF F
    <3> QED BY <2>2, <2>3, SeqEqual
  <2> QED BY <1>6, <2>3, <2>4
<1>8. ASSUME NEW i \in Records, Scanned = SubSeq(Line(i), 1, 2)
      PROVE  i = m
  BY <1>7, <1>8, LineCut
<1>9. nextRecord = {m}
  BY <1>7, <1>8 DEF nextRecord
<1> QED BY <1>2, <1>7, <1>9

LEMMA ReadsTheEnd ==
  ASSUME PosOK, Whole, NEW m \in Nat, pos = Off + 3 * m, m \notin Records
  PROVE  nextRecord = {} /\ m = LastEntry + 1
<1>1. /\ LastEntry \in Nat /\ Text = 3 * LastEntry + 3 /\ Len(file) \in Nat /\ Off \in {0, 1}
      /\ Len(file) = Off + Text + (IF headless THEN 1 ELSE 0)
  BY WholeFacts DEF PosOK
<1>2. m = LastEntry + 1 /\ Len(file) - pos <= 1
  <2>1. m > LastEntry /\ pos <= Len(file)
    BY <1>1 DEF Records, PosOK
  <2> QED BY <1>1, <2>1
<1>3. Len(Scanned) <= 1
  BY <1>1, <1>2, ScannedFacts, RestFacts
<1>4. \A i \in Records : Scanned # SubSeq(Line(i), 1, 2)
  BY <1>3, LineCut
<1> QED BY <1>2, <1>4 DEF nextRecord

-----------------------------------------------------------------------------
(* The stream and its consumer. *)
ServeTypes ==
  /\ pos \in 0..Len(file)
  /\ handler \in {"idle", "meta", "next", "returned"}
  /\ status \in {"none", "ok", "invalid", "notfound", "internal", "cancelled", "lost"}
  /\ sealed \in BOOLEAN

ClientTypes ==
  /\ wire \in Seq(Records) /\ Len(wire) <= Window
  /\ held \in Seq(Records) /\ Len(held) <= 1
  /\ pump \in {"recv", "send", "closed"}
  /\ ch \in Seq(Records) /\ Len(ch) <= ChanSize
  /\ seen \in Seq(Records)
  /\ ctx \in BOOLEAN

(* What was sent is entries 1, 2, ... of the file; the reader stands behind the
   last of them, or at its newline if that was not there when it was read. *)
SentInv ==
  /\ Sent = [i \in 1..Len(Sent) |-> i]
  /\ pump = "recv" => held = <<>>
  /\ Sent # <<>> => 3 * Len(Sent) + 2 <= Text

PosInv ==
  /\ handler \in {"idle", "meta"} => Sent = <<>>
  /\ handler = "meta" => file # <<>> /\ pos = Off
  /\ handler = "next" => /\ file # <<>>
                         /\ \/ pos = Off + 3 * (Len(Sent) + 1)
                            \/ pos = Off + 3 * (Len(Sent) + 1) - 1

(* A whole log is read from one beginning of a line to the next. *)
EndInv ==
  /\ status # "none" => handler = "returned"
  /\ headless /\ status = "ok" => Whole /\ pos = Len(file) - 1
  /\ sealed => Whole /\ handler # "idle" /\ file # <<>>
  /\ sealed /\ oversized = {} =>
       /\ handler = "next" => pos = Off + 3 * (Len(Sent) + 1)
       /\ status \notin {"notfound", "internal"}
       /\ status = "ok" => Len(Sent) = LastEntry

ServeInv == ServeTypes /\ SentInv /\ PosInv /\ EndInv /\ ClientTypes

ReplayInv == LogInv /\ ServeInv

LEMMA TypesTogether == TypeOK <=> LogTypes /\ ServeTypes /\ ClientTypes
BY DEF TypeOK, LogTypes, ServeTypes, ClientTypes

LEMMA SentFacts ==
  ASSUME ClientTypes
  PROVE  /\ Sent \in Seq(Records) /\ Len(Sent) \in Nat
         /\ Sent = <<>> <=> Len(Sent) = 0
<1>1. seen \o ch \in Seq(Records)
  BY ConcatFacts DEF ClientTypes
<1>2. (seen \o ch) \o held \in Seq(Records)
  BY <1>1, ConcatFacts DEF ClientTypes
<1>3. Sent \in Seq(Records)
  BY <1>2, ConcatFacts DEF ClientTypes, Sent
<1> QED BY <1>3, EmptyFacts

LEMMA InitServe == Init => ServeInv
<1> SUFFICES ASSUME Init PROVE ServeInv
  OBVIOUS
<1>1. /\ pos = 0 /\ handler = "idle" /\ status = "none" /\ sealed = FALSE
      /\ wire = <<>> /\ held = <<>> /\ pump = "recv" /\ ch = <<>> /\ seen = <<>>
      /\ ctx = FALSE /\ file = <<>>
  BY DEF Init
<1>2. <<>> \in Seq(Records) /\ Len(<<>>) = 0
  BY EmptyFacts
<1>3. ServeTypes
  <2>1. pos \in 0..Len(file)
    BY <1>1, <1>2
  <2> QED BY <1>1, <2>1 DEF ServeTypes
<1>4. ClientTypes
  <2>1. Len(<<>>) <= Window /\ Len(<<>>) <= 1 /\ Len(<<>>) <= ChanSize
    BY <1>2, ReplayAssumption
  <2> QED BY <1>1, <1>2, <2>1 DEF ClientTypes
<1>5. Sent = <<>> /\ Len(Sent) = 0
  <2>1. <<>> \o <<>> = <<>>
    OBVIOUS
  <2>2. Sent = <<>>
    BY <1>1, <2>1 DEF Sent
  <2> QED BY <1>2, <2>2
<1>6. SentInv /\ PosInv /\ EndInv
  <2>1. <<>> = [i \in 1..0 |-> i]
    OBVIOUS
  <2> QED BY <1>1, <1>5, <2>1 DEF SentInv, PosInv, EndInv
<1> QED BY <1>3, <1>4, <1>6 DEF ServeInv

(* While the session writes, the reader may only be cut off. *)
LEMMA WriterServe == ReplayInv /\ WriterStep => ServeInv'
<1> SUFFICES ASSUME ReplayInv, WriterStep PROVE ServeInv'
  OBVIOUS
<1>1. LogInv /\ LogInv' /\ Grows
  BY WriterKeeps DEF ReplayInv
<1>2. /\ pos' = pos /\ sealed' = sealed /\ wire' = wire /\ held' = held /\ pump' = pump
      /\ ch' = ch /\ seen' = seen /\ ctx' = ctx
      /\ headless' = headless /\ oversized' = oversized
      /\ \/ handler' = handler /\ status' = status
         \/ handler \in {"meta", "next"} /\ handler' = "returned" /\ status' = "lost"
  BY DEF WriterStep, Write, WriteFails, Abandon, Flush, FlushFails, Close, Crash,
         serving, client
<1>3. Sent' = Sent
  BY <1>2 DEF Sent
<1>4. /\ Text' \in Nat /\ Text \in Nat /\ Text' >= Text
      /\ Len(file) \in Nat /\ Len(file') \in Nat /\ Len(file') >= Len(file)
      /\ Len(Sent) \in Nat
  BY <1>1, LogFacts, EmptyFacts, SentFacts DEF LogInv, LogTypes, FileInv, Grows, ReplayInv, ServeInv
<1>5. ServeTypes'
  <2>1. pos' \in 0..Len(file')
    BY <1>2, <1>4 DEF ReplayInv, ServeInv, ServeTypes
  <2> QED BY <1>2, <2>1 DEF ReplayInv, ServeInv, ServeTypes
<1>6. ClientTypes'
  BY <1>2 DEF ReplayInv, ServeInv, ClientTypes
<1>7. SentInv'
  <2>1. Sent # <<>> => 3 * Len(Sent) + 2 <= Text'
    BY <1>4 DEF ReplayInv, ServeInv, SentInv
  <2> QED BY <1>2, <1>3, <2>1 DEF ReplayInv, ServeInv, SentInv
<1>8. PosInv'
  BY <1>1, <1>2, <1>3 DEF ReplayInv, ServeInv, PosInv, Grows
<1>9. EndInv'
  BY <1>1, <1>2, <1>3 DEF ReplayInv, ServeInv, EndInv, Grows
<1> QED BY <1>5, <1>6, <1>7, <1>8, <1>9 DEF ServeInv

LEMMA SameLog ==
  ASSUME LogInv, UNCHANGED log
  PROVE  /\ headless' = headless /\ file' = file /\ oversized' = oversized
         /\ writer' = writer /\ broken' = broken
         /\ Off' = Off /\ Text' = Text /\ Whole' = Whole
BY DEF log, Off, Text, Whole

(* The consumer's side moves entries on and neither adds nor drops any. *)
LEMMA ClientServe ==
  ReplayInv /\ (PumpStep \/ Consume \/ CancelCall) => ServeInv'
<1> SUFFICES ASSUME ReplayInv, PumpStep \/ Consume \/ CancelCall PROVE ServeInv'
  OBVIOUS
<1>1. /\ UNCHANGED log /\ pos' = pos /\ handler' = handler /\ status' = status
      /\ sealed' = sealed
  BY DEF PumpStep, Recv, Pump, PumpEnds, Consume, CancelCall, serving
<1>2. /\ wire \in Seq(Records) /\ held \in Seq(Records) /\ ch \in Seq(Records)
      /\ seen \in Seq(Records) /\ ctx \in BOOLEAN /\ pump \in {"recv", "send", "closed"}
      /\ Len(wire) \in Nat /\ Len(ch) \in Nat /\ Len(held) \in Nat
      /\ Len(wire) <= Window /\ Len(held) <= 1 /\ Len(ch) <= ChanSize
      /\ pump = "recv" => held = <<>>
      /\ Window \in Nat /\ ChanSize \in Nat
  BY EmptyFacts, ReplayAssumption DEF ReplayInv, ServeInv, ClientTypes, SentInv
<1>3. /\ <<>> \in Seq(Records) /\ Len(<<>>) = 0
      /\ \A s \in Seq(Records) : s \o <<>> = s
  BY EmptyFacts, ConcatEmptySeq
<1>4. /\ ClientTypes' /\ (pump' = "recv" => held' = <<>>)
      /\ Sent' = Sent
  <2>1. CASE Recv
    <3> DEFINE h == Head(wire)
               t == Tail(wire)
    <3>1. /\ pump = "recv" /\ wire # <<>> /\ held' = <<h>> /\ wire' = t /\ pump' = "send"
          /\ ch' = ch /\ seen' = seen /\ ctx' = ctx
      BY <2>1 DEF Recv
    <3>2. /\ t \in Seq(Records) /\ h \in Records /\ Len(t) = Len(wire) - 1
          /\ <<h>> \o t = wire
      BY <1>2, <3>1, TailFacts, HeadThenTail
    <3> HIDE DEF h, t
    <3>3. <<h>> \in Seq(Records) /\ Len(<<h>>) = 1
      BY <3>2, Singleton
    <3>4. seen \o ch \in Seq(Records)
      BY <1>2, ConcatFacts
    <3>5. ((seen \o ch) \o <<h>>) \o t = (seen \o ch) \o (<<h>> \o t)
      BY <3>2, <3>3, <3>4, ConcatAssociative
    <3>6. held = <<>> /\ (seen \o ch) \o <<>> = seen \o ch
      BY <1>2, <1>3, <3>1, <3>4
    <3>7. Sent' = Sent
      BY <3>1, <3>2, <3>5, <3>6 DEF Sent
    <3>8. Len(t) <= Window
      BY <1>2, <3>2
    <3> QED BY <1>2, <3>1, <3>2, <3>3, <3>7, <3>8 DEF ClientTypes
  <2>2. CASE Pump
    <3>1. /\ pump = "send" /\ Len(ch) < ChanSize /\ ch' = ch \o held /\ held' = <<>>
          /\ pump' = "recv" /\ wire' = wire /\ seen' = seen /\ ctx' = ctx
      BY <2>2 DEF Pump
    <3>2. ch \o held \in Seq(Records) /\ Len(ch \o held) = Len(ch) + Len(held)
      BY <1>2, ConcatFacts
    <3>3. Len(ch') <= ChanSize
      BY <1>2, <3>1, <3>2
    <3>4. (seen \o ch) \o held = seen \o (ch \o held)
      <4>1. seen \in Seq(Records) /\ ch \in Seq(Records) /\ held \in Seq(Records)
        BY <1>2
      <4> QED BY ONLY <4>1, ConcatAssociative
    <3>5. seen \o (ch \o held) \in Seq(Records)
      BY <1>2, <3>2, ConcatFacts
    <3>6. (seen \o (ch \o held)) \o <<>> = seen \o (ch \o held)
      BY <1>3, <3>5
    <3>7. Sent' = Sent
      BY <3>1, <3>4, <3>6 DEF Sent
    <3> QED BY <1>2, <1>3, <3>1, <3>2, <3>3, <3>7 DEF ClientTypes
  <2>3. CASE PumpEnds
    <3>1. /\ pump' = "closed" /\ wire' = wire /\ held' = held /\ ch' = ch /\ seen' = seen
          /\ ctx' = ctx
      BY <2>3 DEF PumpEnds
    <3>2. Sent' = Sent
      BY <3>1 DEF Sent
    <3> QED BY <1>2, <3>1, <3>2 DEF ClientTypes
  <2>4. CASE Consume
    <3> DEFINE h == Head(ch)
               t == Tail(ch)
    <3>1. /\ ch # <<>> /\ seen' = Append(seen, h) /\ ch' = t /\ pump' = pump
          /\ wire' = wire /\ held' = held /\ ctx' = ctx
      BY <2>4 DEF Consume
    <3>2. /\ t \in Seq(Records) /\ h \in Records /\ Len(t) = Len(ch) - 1
          /\ <<h>> \o t = ch
      BY <1>2, <3>1, TailFacts, HeadThenTail
    <3> HIDE DEF h, t
    <3>3. <<h>> \in Seq(Records)
      BY <3>2, Singleton
    <3>4. Append(seen, h) = seen \o <<h>> /\ Append(seen, h) \in Seq(Records)
      BY <1>2, <3>2, AppendIsConcat, AppendFacts
    <3>5. (seen \o <<h>>) \o t = seen \o ch
      <4>1. seen \in Seq(Records) /\ <<h>> \in Seq(Records) /\ t \in Seq(Records)
        BY <1>2, <3>2, <3>3
      <4>2. (seen \o <<h>>) \o t = seen \o (<<h>> \o t)
        BY ONLY <4>1, ConcatAssociative
      <4> QED BY <3>2, <4>2
    <3>6. Sent' = Sent
      BY <3>1, <3>4, <3>5 DEF Sent
    <3>7. Len(t) <= ChanSize
      BY <1>2, <3>2
    <3> QED BY <1>2, <3>1, <3>2, <3>4, <3>6, <3>7 DEF ClientTypes
  <2>5. CASE CancelCall
    <3>1. /\ pump' = pump /\ wire' = wire /\ held' = held /\ ch' = ch /\ seen' = seen
          /\ ctx' = TRUE
      BY <2>5 DEF CancelCall, client
    <3>2. Sent' = Sent
      BY <3>1 DEF Sent
    <3> QED BY <1>2, <3>1, <3>2 DEF ClientTypes
  <2> QED BY <2>1, <2>2, <2>3, <2>4, <2>5 DEF PumpStep
<1>5. /\ headless' = headless /\ file' = file /\ oversized' = oversized
      /\ Off' = Off /\ Text' = Text /\ Whole' = Whole
  BY <1>1, SameLog DEF ReplayInv
<1>6. ServeTypes'
  BY <1>1, <1>5 DEF ReplayInv, ServeInv, ServeTypes
<1>7. SentInv' /\ PosInv' /\ EndInv'
  BY <1>1, <1>4, <1>5 DEF ReplayInv, ServeInv, SentInv, PosInv, EndInv
<1> QED BY <1>4, <1>6, <1>7 DEF ServeInv

LEMMA OpenServe == ReplayInv /\ Open => ServeInv'
<1> SUFFICES ASSUME ReplayInv, Open PROVE ServeInv'
  OBVIOUS
<1>1. /\ UNCHANGED log /\ handler = "idle" /\ file # <<>> /\ handler' = "meta"
      /\ status' = status /\ sealed' = Whole /\ wire' = wire /\ held' = held
      /\ pump' = pump /\ ch' = ch /\ seen' = seen /\ ctx' = ctx
      /\ pos' = IF Head(file) = Header THEN 1 ELSE 0
  BY DEF Open, Whole, client
<1>2. /\ headless' = headless /\ file' = file /\ oversized' = oversized
      /\ Off' = Off /\ Text' = Text /\ Whole' = Whole
  BY <1>1, SameLog DEF ReplayInv
<1>3. Sent' = Sent /\ Sent = <<>> /\ status = "none"
  BY <1>1 DEF Sent, ReplayInv, ServeInv, PosInv, EndInv
<1>4. pos' = Off /\ pos' \in 0..Len(file)
  <2>1. /\ Len(file) \in Nat /\ Len(file) >= 1 /\ Head(file) = file[1]
        /\ headless \in BOOLEAN
    BY <1>1, LogFacts, TailFacts DEF ReplayInv, LogInv, LogTypes
  <2>2. headless => file[1] = Header
    BY <1>1 DEF ReplayInv, LogInv, FileInv
  <2>3. ~headless => file[1] \in Pieces
    <3> SUFFICES ASSUME ~headless PROVE file[1] \in Pieces
      OBVIOUS
    <3>1. Off = 0 /\ Text = Len(file)
      BY <2>1 DEF Off, Text
    <3>2. 1 \in 1..Text /\ Off + 1 = 1
      BY <2>1, <3>1
    <3> QED BY <3>2 DEF ReplayInv, LogInv, FileInv
  <2>4. Off = IF headless THEN 1 ELSE 0
    BY <1>1 DEF Off
  <2>5. pos' = Off
    BY <1>1, <2>1, <2>2, <2>3, <2>4, MarkFacts
  <2> QED BY <2>1, <2>4, <2>5
<1>5. ServeTypes'
  <2>1. Whole \in BOOLEAN
    BY DEF Whole
  <2> QED BY <1>1, <1>2, <1>4, <2>1 DEF ReplayInv, ServeInv, ServeTypes
<1>6. ClientTypes'
  BY <1>1 DEF ReplayInv, ServeInv, ClientTypes
<1>7. SentInv'
  BY <1>1, <1>2, <1>3 DEF ReplayInv, ServeInv, SentInv
<1>8. PosInv' /\ EndInv'
  BY <1>1, <1>2, <1>3, <1>4 DEF PosInv, EndInv
<1> QED BY <1>5, <1>6, <1>7, <1>8 DEF ServeInv

LEMMA AdvanceFacts ==
  ASSUME PosOK, Len(Scanned) = 2, Advance
  PROVE  /\ pos' \in 0..Len(file)
         /\ pos' = pos + 3 \/ pos' = pos + 2
         /\ Len(Scanned) < Len(Rest) => pos' = pos + 3
<1>1. /\ Len(file) \in Nat /\ pos \in Nat /\ Len(Rest) = Len(file) - pos
      /\ 2 <= Len(file) - pos
  BY RestFacts, ScannedFacts
<1>2. pos' = pos + (IF 2 < Len(Rest) THEN 3 ELSE 2)
  BY DEF Advance
<1> QED BY <1>1, <1>2

LEMMA MetadataServe == ReplayInv /\ ReadMetadata => ServeInv'
<1> SUFFICES ASSUME ReplayInv, ReadMetadata PROVE ServeInv'
  OBVIOUS
<1>1. /\ UNCHANGED log /\ handler = "meta" /\ handler' = "next" /\ nextRecord = {0}
      /\ Advance /\ status' = status /\ sealed' = sealed
      /\ wire' = wire /\ held' = held /\ pump' = pump /\ ch' = ch /\ seen' = seen
      /\ ctx' = ctx
  BY DEF ReadMetadata, client
<1>2. /\ headless' = headless /\ file' = file /\ oversized' = oversized
      /\ Off' = Off /\ Text' = Text /\ Whole' = Whole
  BY <1>1, SameLog DEF ReplayInv
<1>3. Sent' = Sent /\ Sent = <<>> /\ Len(Sent) = 0 /\ file # <<>> /\ pos = Off
  BY <1>1, EmptyFacts DEF Sent, ReplayInv, ServeInv, PosInv
<1>4. PosOK /\ Off \in {0, 1}
  BY LogFacts DEF PosOK, ReplayInv, ServeInv, ServeTypes, LogInv
<1>5. Len(Scanned) = 2
  <2>1. 0 \in Nat /\ pos = Off + 3 * 0 /\ 0 \in nextRecord
    BY <1>1, <1>3, <1>4
  <2> QED BY <1>4, <2>1, ReadsNext
<1>6. /\ pos' \in 0..Len(file) /\ (pos' = Off + 3 \/ pos' = Off + 2)
      /\ Len(Scanned) < Len(Rest) => pos' = Off + 3
  BY <1>1, <1>3, <1>4, <1>5, AdvanceFacts
<1>7. sealed /\ oversized = {} => pos' = Off + 3
  <2> SUFFICES ASSUME sealed, oversized = {} PROVE pos' = Off + 3
    OBVIOUS
  <2>1. Whole
    BY DEF ReplayInv, ServeInv, EndInv
  <2>2. 0 \in Records /\ pos = Off + 3 * 0
    BY <1>3, <1>4, ReplayAssumption DEF Records
  <2> QED BY <1>4, <1>6, <2>1, <2>2, ReadsOn
<1>8. ServeTypes' /\ ClientTypes'
  BY <1>1, <1>2, <1>6 DEF ReplayInv, ServeInv, ServeTypes, ClientTypes
<1>9. SentInv'
  BY <1>1, <1>2, <1>3 DEF ReplayInv, ServeInv, SentInv
<1>10. PosInv'
  <2>1. pos' = Off + 3 * (0 + 1) \/ pos' = Off + 3 * (0 + 1) - 1
    BY <1>4, <1>6
  <2> QED BY <1>1, <1>2, <1>3, <2>1 DEF PosInv
<1>11. EndInv'
  <2>1. sealed /\ oversized = {} => pos' = Off + 3 * (0 + 1)
    BY <1>4, <1>7
  <2> QED BY <1>1, <1>2, <1>3, <2>1 DEF ReplayInv, ServeInv, EndInv
<1> QED BY <1>8, <1>9, <1>10, <1>11 DEF ServeInv

(* An entry that is appended to 1, 2, ... n is n + 1. *)
LEMMA Counting ==
  ASSUME NEW s \in Seq(Records), s = [i \in 1..Len(s) |-> i], Len(s) + 1 \in Records
  PROVE  /\ Append(s, Len(s) + 1) = [i \in 1..Len(s) + 1 |-> i]
         /\ Len(Append(s, Len(s) + 1)) = Len(s) + 1 /\ Append(s, Len(s) + 1) \in Seq(Records)
<1> DEFINE n == Len(s)
           t == Append(s, n + 1)
<1>1. /\ t \in Seq(Records) /\ Len(t) = n + 1 /\ n \in Nat
      /\ \A i \in 1..n : t[i] = s[i]
      /\ t[n + 1] = n + 1
  BY AppendFacts
<1>2. \A i \in 1..n : s[i] = i
  OBVIOUS
<1>3. t \in [1..n + 1 -> Records]
  <2> HIDE DEF n, t
  <2> QED BY <1>1, LenProperties
<1> HIDE DEF n, t
<1>4. \A i \in 1..n + 1 : t[i] = i
  BY <1>1, <1>2
<1>5. t = [i \in 1..n + 1 |-> i]
  BY <1>3, <1>4
<1> QED BY <1>1, <1>5 DEF n, t

LEMMA SendServe == ReplayInv /\ SendEntry => ServeInv'
<1> SUFFICES ASSUME ReplayInv, SendEntry PROVE ServeInv'
  OBVIOUS
<1>1. /\ UNCHANGED log /\ handler = "next" /\ handler' = "next" /\ Len(wire) < Window
      /\ Advance /\ status' = status /\ sealed' = sealed
      /\ held' = held /\ pump' = pump /\ ch' = ch /\ seen' = seen
      /\ ctx' = ctx
  BY DEF SendEntry, client
<1>2. PICK i \in nextRecord \ {0} : wire' = Append(wire, i)
  BY DEF SendEntry
<1>3. /\ headless' = headless /\ file' = file /\ oversized' = oversized
      /\ Off' = Off /\ Text' = Text /\ Whole' = Whole
  BY <1>1, SameLog DEF ReplayInv
<1> DEFINE m == Len(Sent) + 1
<1>4. /\ PosOK /\ Off \in {0, 1} /\ Len(Sent) \in Nat /\ m \in Nat /\ m > 0
      /\ Sent \in Seq(Records) /\ file # <<>>
      /\ pos = Off + 3 * m \/ pos = Off + 3 * m - 1
  BY <1>1, LogFacts, SentFacts
  DEF PosOK, ReplayInv, ServeInv, ServeTypes, LogInv, PosInv
<1> HIDE DEF m
<1>5. /\ i = m /\ i \in Records /\ pos = Off + 3 * m /\ 3 * m + 2 <= Text
      /\ Len(Scanned) = 2
  BY <1>4, ReadsNext
<1>6. /\ pos' \in 0..Len(file)
      /\ pos' = Off + 3 * (m + 1) \/ pos' = Off + 3 * (m + 1) - 1
      /\ Len(Scanned) < Len(Rest) => pos' = Off + 3 * (m + 1)
  BY <1>1, <1>4, <1>5, AdvanceFacts
<1>7. sealed /\ oversized = {} => pos' = Off + 3 * (m + 1)
  <2> SUFFICES ASSUME sealed, oversized = {} PROVE pos' = Off + 3 * (m + 1)
    OBVIOUS
  <2>1. Whole
    BY DEF ReplayInv, ServeInv, EndInv
  <2> QED BY <1>4, <1>5, <1>6, <2>1, ReadsOn
<1>8. /\ wire \in Seq(Records) /\ held \in Seq(Records) /\ ch \in Seq(Records)
      /\ seen \in Seq(Records) /\ Len(wire) \in Nat /\ Window \in Nat
  BY EmptyFacts, ReplayAssumption DEF ReplayInv, ServeInv, ClientTypes
<1>9. /\ Sent' = [k \in 1..m |-> k] /\ Len(Sent') = m
  <2> DEFINE u == (seen \o ch) \o held
  <2>1. seen \o ch \in Seq(Records)
    BY <1>8, ConcatFacts
  <2>2. u \in Seq(Records)
    BY <1>8, <2>1, ConcatFacts
  <2>3. Sent' = u \o Append(wire, m) /\ Sent = u \o wire
    BY <1>1, <1>2, <1>5 DEF Sent
  <2> HIDE DEF u
  <2>4. <<m>> \in Seq(Records) /\ m \in Records
    BY <1>5, Singleton
  <2>5. Append(wire, m) = wire \o <<m>> /\ Append(Sent, m) = Sent \o <<m>>
    BY <1>4, <1>8, <2>4, AppendIsConcat
  <2>6. (u \o wire) \o <<m>> = u \o (wire \o <<m>>)
    <3>1. wire \in Seq(Records)
      BY <1>8
    <3> QED BY ONLY <2>2, <2>4, <3>1, ConcatAssociative
  <2>7. Sent' = Append(Sent, m)
    BY <2>3, <2>5, <2>6
  <2>8. Sent = [k \in 1..Len(Sent) |-> k]
    BY DEF ReplayInv, ServeInv, SentInv
  <2> QED BY <1>4, <2>4, <2>7, <2>8, Counting DEF m
<1>10. ServeTypes'
  BY <1>1, <1>3, <1>6 DEF ReplayInv, ServeInv, ServeTypes
<1>11. ClientTypes'
  <2>1. wire' \in Seq(Records) /\ Len(wire') = Len(wire) + 1
    BY <1>2, <1>5, <1>8, AppendFacts
  <2>2. Len(wire') <= Window
    BY <1>1, <1>8, <2>1
  <2> QED BY <1>1, <2>1, <2>2 DEF ReplayInv, ServeInv, ClientTypes
<1>12. SentInv'
  BY <1>1, <1>3, <1>5, <1>9 DEF ReplayInv, ServeInv, SentInv
<1>13. PosInv'
  BY <1>1, <1>3, <1>4, <1>6, <1>9 DEF PosInv
<1>14. EndInv'
  BY <1>1, <1>3, <1>7, <1>9 DEF ReplayInv, ServeInv, EndInv
<1> QED BY <1>10, <1>11, <1>12, <1>13, <1>14 DEF ServeInv

(* What holds of a whole log that is being read holds when GetReplay returns. *)
LEMMA ReturnServe ==
  ASSUME ReplayInv, NEW code \in {"ok", "invalid", "notfound", "internal", "cancelled"},
         Return(code), status = "none",
         code = "ok" /\ headless => Whole /\ pos = Len(file) - 1,
         sealed /\ oversized = {} =>
           /\ code \notin {"notfound", "internal"}
           /\ code = "ok" => Len(Sent) = LastEntry
  PROVE  ServeInv'
<1>1. /\ UNCHANGED log /\ handler' = "returned" /\ status' = code /\ sealed' = sealed
      /\ pos' = pos /\ wire' = wire /\ held' = held /\ pump' = pump /\ ch' = ch
      /\ seen' = seen /\ ctx' = ctx
  BY DEF Return, client
<1>2. /\ headless' = headless /\ file' = file /\ oversized' = oversized
      /\ Off' = Off /\ Text' = Text /\ Whole' = Whole /\ Sent' = Sent
  BY <1>1, SameLog DEF ReplayInv, Sent
<1>3. ServeTypes' /\ ClientTypes'
  BY <1>1, <1>2 DEF ReplayInv, ServeInv, ServeTypes, ClientTypes
<1>4. SentInv' /\ PosInv'
  BY <1>1, <1>2 DEF ReplayInv, ServeInv, SentInv, PosInv
<1>5. EndInv'
  BY <1>1, <1>2 DEF ReplayInv, ServeInv, EndInv
<1> QED BY <1>3, <1>4, <1>5 DEF ServeInv

(* A compressed log whose trailer is next is whole. *)
LEMMA TrailerIsLast ==
  ASSUME PosOK, headless, Rest = <<Trailer>>, pos >= Off
  PROVE  Whole /\ pos = Len(file) - 1
<1>1. /\ Len(file) \in Nat /\ pos \in Nat /\ Len(file) - pos = 1 /\ Off \in {0, 1}
      /\ file[pos + 1] = Trailer
  <2>1. Len(Rest) = 1 /\ Rest[1] = Trailer
    OBVIOUS
  <2>2. Len(file) - pos = 1 /\ 1 \in 1..Len(file) - pos
    BY <2>1, RestFacts
  <2> QED BY <2>1, <2>2, RestFacts, LogFacts DEF PosOK, LogInv
<1>2. Whole
  <2> SUFFICES ASSUME ~Whole PROVE FALSE
    OBVIOUS
  <2>1. Text = Len(file) - Off
    BY <1>1 DEF Text
  <2>2. Text \in 1..Text /\ Off + Text = pos + 1
    BY <1>1, <2>1
  <2> QED BY <1>1, <2>2, MarkFacts DEF PosOK, LogInv, FileInv
<1> QED BY <1>1, <1>2

LEMMA EndServe ==
  ASSUME ReplayInv,
         NoSession \/ OpenFails \/ MetadataFails \/ Finish \/ ReadFails \/ CtxDone
  PROVE  ServeInv'
<1>1. PosOK /\ Off \in {0, 1}
  BY LogFacts DEF PosOK, ReplayInv, ServeInv, ServeTypes, LogInv
<1>2. /\ handler # "returned" => status = "none"
      /\ sealed => Whole /\ handler # "idle"
  BY DEF ReplayInv, ServeInv, EndInv
<1>3. CASE NoSession \/ OpenFails
  BY <1>2, <1>3, ReturnServe DEF NoSession, OpenFails
<1>4. CASE CtxDone
  BY <1>2, <1>4, ReturnServe DEF CtxDone
<1>5. CASE MetadataFails
  <2>1. handler = "meta" /\ nextRecord # {0} /\ Return("internal")
    BY <1>5 DEF MetadataFails
  <2>2. ~(sealed /\ oversized = {})
    <3> SUFFICES ASSUME sealed, oversized = {} PROVE FALSE
      OBVIOUS
    <3>1. pos = Off
      BY <2>1 DEF ReplayInv, ServeInv, PosInv
    <3>2. 0 \in Records /\ pos = Off + 3 * 0
      BY <1>1, <3>1, ReplayAssumption DEF Records
    <3> QED BY <1>1, <1>2, <2>1, <3>2, ReadsOn
  <2> QED BY <1>2, <2>1, <2>2, ReturnServe
<1> DEFINE m == Len(Sent) + 1
<1>6. ASSUME handler = "next", sealed, oversized = {}
      PROVE  /\ pos = Off + 3 * m
             /\ IF m \in Records THEN nextRecord = {m}
                                 ELSE nextRecord = {} /\ m = LastEntry + 1
             /\ m \in Nat /\ m > 0
  <2>1. pos = Off + 3 * m /\ Whole
    BY <1>2, <1>6 DEF ReplayInv, ServeInv, EndInv
  <2>2. m \in Nat /\ m > 0
    BY SentFacts DEF ReplayInv, ServeInv
  <2> HIDE DEF m
  <2> QED BY <1>1, <1>6, <2>1, <2>2, ReadsOn, ReadsTheEnd
<1>7. CASE Finish
  <2>1. handler = "next" /\ nextRecord = {} /\ Ended /\ Return("ok")
    BY <1>7 DEF Finish
  <2>2. headless => Whole /\ pos = Len(file) - 1
    <3> SUFFICES ASSUME headless PROVE Whole /\ pos = Len(file) - 1
      OBVIOUS
    <3>1. Rest = <<Trailer>>
      BY <2>1 DEF Ended
    <3>2. pos >= Off
      <4>1. Len(Sent) \in Nat
        BY SentFacts DEF ReplayInv, ServeInv
      <4>2. pos = Off + 3 * (Len(Sent) + 1) \/ pos = Off + 3 * (Len(Sent) + 1) - 1
        BY <2>1 DEF ReplayInv, ServeInv, PosInv
      <4> QED BY <1>1, <4>1, <4>2
    <3> QED BY <1>1, <3>1, <3>2, TrailerIsLast
  <2>3. sealed /\ oversized = {} => Len(Sent) = LastEntry
    <3> SUFFICES ASSUME sealed, oversized = {} PROVE Len(Sent) = LastEntry
      OBVIOUS
    <3>1. Len(Sent) + 1 = LastEntry + 1
      BY <1>6, <2>1
    <3>2. Len(Sent) \in Nat /\ LastEntry \in Nat
      BY SentFacts, ReplayAssumption DEF ReplayInv, ServeInv
    <3> QED BY <3>1, <3>2
  <2> QED BY <1>2, <2>1, <2>2, <2>3, ReturnServe
<1>8. CASE ReadFails
  <2>1. /\ handler = "next" /\ Return("internal")
        /\ IF nextRecord = {} THEN ~Ended ELSE nextRecord = {0}
    BY <1>8 DEF ReadFails
  <2>2. ~(sealed /\ oversized = {})
    <3> SUFFICES ASSUME sealed, oversized = {} PROVE FALSE
      OBVIOUS
    <3>1. /\ pos = Off + 3 * m /\ m \in Nat /\ m > 0
          /\ IF m \in Records THEN nextRecord = {m}
                              ELSE nextRecord = {} /\ m = LastEntry + 1
      BY <1>6, <2>1
    <3> HIDE DEF m
    <3>2. CASE m \in Records
      BY <2>1, <3>1, <3>2
    <3>3. CASE m \notin Records
      <4>1. nextRecord = {} /\ m = LastEntry + 1 /\ Whole
        BY <1>2, <3>1, <3>3
      <4>2. /\ Len(file) - pos = (IF headless THEN 1 ELSE 0)
            /\ headless => file[Len(file)] = Trailer
            /\ Len(file) \in Nat
        <5>1. /\ Text = 3 * LastEntry + 3 /\ LastEntry \in Nat
              /\ Len(file) = Off + Text + (IF headless THEN 1 ELSE 0)
              /\ headless => file[Len(file)] = Trailer
              /\ Len(file) \in Nat
          BY <1>1, <4>1, WholeFacts DEF PosOK
        <5>2. pos = Off + Text
          BY <1>1, <3>1, <4>1, <5>1
        <5> QED BY <1>1, <5>1, <5>2
      <4>3. CASE headless
        <5>1. Len(file) - pos = 1 /\ pos + 1 = Len(file) /\ 1 \in 1..Len(file) - pos
          BY <1>1, <4>2, <4>3, RestFacts
        <5>2. Len(Rest) = 1 /\ Rest[1] = Trailer
          BY <1>1, <4>2, <4>3, <5>1, RestFacts
        <5>3. Rest = <<Trailer>>
          <6>1. /\ Rest \in Seq(Pieces \cup {Header, Trailer})
                /\ <<Trailer>> \in Seq(Pieces \cup {Header, Trailer})
                /\ Len(<<Trailer>>) = 1 /\ <<Trailer>>[1] = Trailer
            BY <1>1, RestFacts
          <6>2. \A i \in 1..Len(Rest) : Rest[i] = <<Trailer>>[i]
            BY <5>2, <6>1
          <6> QED BY <5>2, <6>1, <6>2, SeqEqual
        <5> QED BY <2>1, <4>1, <4>3, <5>3 DEF Ended
      <4>4. CASE ~headless
        <5>1. Rest = <<>>
          <6>1. Len(Rest) = 0 /\ Rest \in Seq(Pieces \cup {Header, Trailer})
            BY <1>1, <4>2, <4>4, RestFacts
          <6> QED BY <6>1, EmptyFacts
        <5> QED BY <2>1, <4>1, <4>4, <5>1 DEF Ended
      <4> QED BY <4>3, <4>4
    <3> QED BY <3>2, <3>3
  <2> QED BY <1>2, <2>1, <2>2, ReturnServe
<1> QED BY <1>3, <1>4, <1>5, <1>7, <1>8

LEMMA ReplayNext == ReplayInv /\ [Next]_vars => ReplayInv'
<1> SUFFICES ASSUME ReplayInv, [Next]_vars PROVE ReplayInv'
  OBVIOUS
<1>1. CASE WriterStep
  BY <1>1, WriterKeeps, WriterServe DEF ReplayInv
<1>2. CASE Open
  BY <1>2, OpenServe, LogUnchanged DEF ReplayInv, Open
<1>3. CASE NoSession \/ OpenFails \/ MetadataFails \/ Finish \/ ReadFails \/ CtxDone
  <2>1. UNCHANGED log
    BY <1>3 DEF NoSession, OpenFails, MetadataFails, Finish, ReadFails, CtxDone, Return
  <2> QED BY <1>3, <2>1, EndServe, LogUnchanged DEF ReplayInv
<1>4. CASE ReadMetadata
  BY <1>4, MetadataServe, LogUnchanged DEF ReplayInv, ReadMetadata
<1>5. CASE SendEntry
  BY <1>5, SendServe, LogUnchanged DEF ReplayInv, SendEntry
<1>6. CASE PumpStep \/ Consume \/ CancelCall
  <2>1. UNCHANGED log
    BY <1>6 DEF PumpStep, Recv, Pump, PumpEnds, Consume, CancelCall
  <2> QED BY <1>6, <2>1, ClientServe, LogUnchanged DEF ReplayInv
<1>7. CASE UNCHANGED vars
  <2>1. /\ UNCHANGED log /\ UNCHANGED serving /\ UNCHANGED client /\ wire' = wire
        /\ ctx' = ctx
    BY <1>7 DEF vars
  <2>2. LogInv' /\ headless' = headless /\ file' = file /\ oversized' = oversized
        /\ Off' = Off /\ Text' = Text /\ Whole' = Whole
    BY <2>1, LogUnchanged, SameLog DEF ReplayInv
  <2>3. Sent' = Sent
    BY <2>1 DEF client, Sent
  <2>4. ServeTypes' /\ ClientTypes'
    BY <2>1, <2>2 DEF serving, client, ReplayInv, ServeInv, ServeTypes, ClientTypes
  <2>5. SentInv' /\ PosInv' /\ EndInv'
    BY <2>1, <2>2, <2>3 DEF serving, client, ReplayInv, ServeInv, SentInv, PosInv, EndInv
  <2> QED BY <2>2, <2>4, <2>5 DEF ReplayInv, ServeInv
<1> QED BY <1>1, <1>2, <1>3, <1>4, <1>5, <1>6, <1>7 DEF Next, HandlerStep

LEMMA ReplaySafe == Spec => []ReplayInv
<1>1. Init => ReplayInv
  BY InitLog, InitServe DEF ReplayInv
<1> QED BY <1>1, ReplayNext, PTL DEF Spec

-----------------------------------------------------------------------------
(* However the log was cut, lost or broken off, and however far the stream, the
   pump and its consumer have got, what was sent is entries 1, 2, ... without a
   gap, and only such as the session has written or was writing. *)
THEOREM ReplaysArePrefixes == Spec => []SentIsPrefix
<1>1. ReplayInv => SentIsPrefix
  <2> SUFFICES ASSUME ReplayInv PROVE SentIsPrefix
    OBVIOUS
  <2>1. TypeOK
    BY TypesTogether DEF ReplayInv, LogInv, ServeInv
  <2>2. Sent # <<>> => Len(Sent) < IF broken THEN next + 1 ELSE next
    <3> SUFFICES ASSUME Sent # <<>>
                 PROVE  Len(Sent) < IF broken THEN next + 1 ELSE next
      OBVIOUS
    <3>1. /\ Len(Sent) \in Nat /\ next \in Nat /\ Text \in Nat
          /\ 3 * Len(Sent) + 2 <= Text
          /\ Text <= 3 * next + (IF broken THEN 3 ELSE 0)
      BY SentFacts, LogFacts
      DEF ReplayInv, LogInv, FileInv, BufferInv, ServeInv, SentInv
    <3> QED BY <3>1
  <2> QED BY <2>1, <2>2 DEF SentIsPrefix, ReplayInv, ServeInv, SentInv
<1> QED BY <1>1, ReplaySafe, PTL

(* GetReplay takes no cut for the end of a compressed log, and a log that was
   closed without an error it reads to the terminal entry. *)
THEOREM EndsAreRight == Spec => []EndIsRight
<1>1. ReplayInv => EndIsRight
  <2> SUFFICES ASSUME ReplayInv PROVE EndIsRight
    OBVIOUS
  <2>1. headless /\ status = "ok" => Whole /\ pos = Len(file) - 1
    BY DEF ReplayInv, ServeInv, EndInv
  <2>2. Whole => writer = "closed" /\ next = LastEntry + 1
    BY WholeFacts DEF ReplayInv, Whole
  <2>3. sealed /\ oversized = {} =>
          /\ status \notin {"notfound", "internal"}
          /\ status = "ok" => Len(Sent) = LastEntry
    BY DEF ReplayInv, ServeInv, EndInv
  <2> QED BY <2>1, <2>2, <2>3 DEF EndIsRight
<1> QED BY <1>1, ReplaySafe, PTL
=============================================================================
