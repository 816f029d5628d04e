----------------------------- MODULE ReplayLog ------------------------------
(***************************************************************************)
(* A session's .glog file from the runner to a client that replays it:     *)
(* ReplayLog writes through a buffer and, in headless mode, a compressor;  *)
(* ReplayReader reads it, perhaps while it is being written; GetReplay     *)
(* streams its entries and the Go client pumps them into a channel.        *)
(*                                                                         *)
(* A log is records 0 (metadata) to LastEntry (the terminal entry).  A     *)
(* record is two pieces and a newline, so that a write can be cut in the   *)
(* middle of a line.  Where the buffer and the compressor cut is their     *)
(* business.                                                               *)
(***************************************************************************)
EXTENDS Naturals, SequencesExt

CONSTANTS
  LastEntry,   \* the number of entries, the terminal one included
  BufSize,     \* replayLogBufSize, in pieces
  Window,      \* messages that gRPC's flow control lets into a stream
  ChanSize     \* capacity of the channel of GameClient.GetReplay

ASSUME ReplayAssumption == {LastEntry, BufSize, Window, ChanSize} \subseteq Nat \ {0}

VARIABLES
  headless,    \* RunModeHeadless: the log is compressed
  oversized,   \* records whose line is longer than the reader's 4 MB
  next,        \* the next record to be written
  buf,         \* what the bufio.Writer holds
  pending,     \* what the gzip.Writer holds
  file,        \* the file, decompressed
  broken,      \* a write has failed; both writers remember it
  writer,      \* "writing", "flushed", "closed", "abandoned" or "crashed"
  pos,         \* how much of the file the reader has consumed
  handler,     \* GetReplay: "idle", "meta", "next" or "returned"
  status,      \* what it returned
  sealed,      \* history: the log had been closed when the reader opened it
  wire,        \* entries sent and not received
  held,        \* the entry that the client's pump has received, if any
  pump,        \* "recv", "send" or "closed"
  ch,          \* the channel
  seen,        \* what its reader has taken
  ctx          \* the context of the call is done

log == <<headless, oversized, next, buf, pending, file, broken, writer>>
serving == <<pos, handler, status, sealed>>
client == <<held, pump, ch, seen>>
vars == <<log, serving, wire, client, ctx>>

Records == 0..LastEntry
Header == <<0>>     \* of the compressed stream
Trailer == <<1>>
Newlines == {<<i, 3>> : i \in Records}
Line(i) == <<<<i, 1>>, <<i, 2>>, <<i, 3>>>>
Pieces == UNION {ToSet(Line(i)) : i \in Records}

TypeOK ==
  /\ headless \in BOOLEAN /\ broken \in BOOLEAN /\ sealed \in BOOLEAN
  /\ ctx \in BOOLEAN
  /\ oversized \subseteq Records
  /\ next \in 0..LastEntry + 1
  /\ buf \in Seq(Pieces) /\ Len(buf) <= BufSize
  /\ pending \in Seq(Pieces)
  /\ file \in Seq(Pieces \cup {Header, Trailer})
  /\ writer \in {"writing", "flushed", "closed", "abandoned", "crashed"}
  /\ pos \in 0..Len(file)
  /\ handler \in {"idle", "meta", "next", "returned"}
  /\ status \in {"none", "ok", "invalid", "notfound", "internal",
                "cancelled", "lost"}
  /\ wire \in Seq(Records) /\ Len(wire) <= Window
  /\ held \in Seq(Records) /\ Len(held) <= 1
  /\ pump \in {"recv", "send", "closed"}
  /\ ch \in Seq(Records) /\ Len(ch) <= ChanSize
  /\ seen \in Seq(Records)

Init ==
  /\ headless \in BOOLEAN
  /\ oversized \in {{}} \cup {{i} : i \in Records}
  /\ next = 0
  /\ buf = <<>> /\ pending = <<>> /\ file = <<>>
  /\ broken = FALSE
  /\ writer = "writing"
  /\ pos = 0 /\ handler = "idle" /\ status = "none" /\ sealed = FALSE
  /\ wire = <<>>
  /\ held = <<>> /\ pump = "recv" /\ ch = <<>> /\ seen = <<>>
  /\ ctx = FALSE

-----------------------------------------------------------------------------
(* The writer.                                                              *)

(* Pieces go down to the file, or to the compressor, which writes its header at
   once and of the rest as much as it likes. *)
Sink(data) ==
  IF headless
    THEN \E k \in 0..Len(pending \o data) :
           /\ file' = (IF file = <<>> THEN <<Header>> ELSE file)
                        \o SubSeq(pending \o data, 1, k)
           /\ pending' = SubSeq(pending \o data, k + 1, Len(pending \o data))
    ELSE file' = file \o data /\ UNCHANGED pending

(* The disk is full: a part reaches it, and no write succeeds any more. *)
SinkFails(data) ==
  /\ \E k \in 0..Len(pending \o data) :
       file' = file \o (IF headless /\ file = <<>> /\ k > 0 THEN <<Header>> ELSE <<>>)
                    \o SubSeq(pending \o data, 1, k)
  /\ broken' = TRUE
  /\ UNCHANGED pending

(* writeRecord.  The buffer is written out when the line does not fit, and keeps
   an end of it. *)
Write ==
  /\ writer = "writing" /\ next <= LastEntry
  /\ LET data == buf \o Line(next) IN
       IF Len(data) <= BufSize
         THEN buf' = data /\ UNCHANGED <<pending, file>>
         ELSE \E keep \in 0..BufSize :
                /\ Sink(SubSeq(data, 1, Len(data) - keep))
                /\ buf' = SubSeq(data, Len(data) - keep + 1, Len(data))
  /\ next' = next + 1
  /\ UNCHANGED <<headless, oversized, broken, writer, serving, wire, client, ctx>>

(* The run returns with the error and never touches the log again. *)
WriteFails ==
  /\ writer = "writing" /\ next <= LastEntry
  /\ Len(buf \o Line(next)) > BufSize
  /\ SinkFails(buf \o Line(next))
  /\ writer' = "abandoned"
  /\ UNCHANGED <<headless, oversized, next, buf, serving, wire, client, ctx>>

(* The run was cancelled or failed: no flush, no close. *)
Abandon ==
  /\ writer = "writing"
  /\ writer' = "abandoned"
  /\ UNCHANGED <<headless, oversized, next, buf, pending, file, broken,
                 serving, wire, client, ctx>>

(* The runner flushes when the terminal entry is written ... *)
Flush ==
  /\ writer = "writing" /\ next = LastEntry + 1
  /\ Sink(buf) /\ pending' = <<>>
  /\ buf' = <<>>
  /\ writer' = "flushed"
  /\ UNCHANGED <<headless, oversized, next, broken, serving, wire, client, ctx>>

(* ... and only logs that it failed. *)
FlushFails ==
  /\ writer = "writing" /\ next = LastEntry + 1
  /\ SinkFails(buf)
  /\ writer' = "flushed"
  /\ UNCHANGED <<headless, oversized, next, buf, serving, wire, client, ctx>>

(* Close flushes once more, which writes nothing, ends the compressed stream
   unless a write has failed, and closes the file. *)
Close ==
  /\ writer = "flushed"
  /\ broken' \in (IF headless THEN {broken, TRUE} ELSE {broken})
  /\ file' = IF headless /\ ~broken' THEN Append(file, Trailer) ELSE file
  /\ writer' = "closed"
  /\ UNCHANGED <<headless, oversized, next, buf, pending, serving, wire, client,
                 ctx>>

-----------------------------------------------------------------------------
(* The reader, as GetReplay drives it.                                      *)

Rest == SubSeq(file, pos + 1, Len(file))

(* The pieces of the next line, without its newline; at the end of the file the
   scanner takes what is left for a line. *)
Scanned ==
  LET nl == {n \in 1..Len(Rest) : Rest[n] \in Newlines}
  IN  IF nl = {} THEN Rest ELSE SubSeq(Rest, 1, Min(nl) - 1)

(* The record that nextRecord returns, if any: not one whose line was cut or is
   too long. *)
nextRecord ==
  {i \in Records \ oversized : Scanned = SubSeq(Line(i), 1, 2)}

(* Faulty: the error of the scanner is not looked at. *)
EndedUnchecked == ToSet(Rest) \cap Pieces = {}

(* When there is none: the end of the file rather than an error.  A compressed
   stream without its end is an error. *)
Ended == IF headless THEN Rest = <<Trailer>> ELSE Rest = <<>>

Advance == pos' = pos + (IF Len(Scanned) < Len(Rest) THEN Len(Scanned) + 1
                                                     ELSE Len(Scanned))

Return(code) ==
  /\ handler' = "returned"
  /\ status' = code
  /\ UNCHANGED <<log, pos, sealed, wire, client, ctx>>

(* The request names no session. *)
NoSession == handler = "idle" /\ ~ctx /\ Return("invalid")

(* OpenReplayLog: a file that is missing or empty is not found; the magic bytes
   tell whether it is compressed. *)
Open ==
  /\ handler = "idle" /\ ~ctx
  /\ file # <<>>
  /\ pos' = IF Head(file) = Header THEN 1 ELSE 0
  /\ handler' = "meta"
  /\ sealed' = (writer = "closed" /\ ~broken)
  /\ UNCHANGED <<log, status, wire, client, ctx>>

OpenFails == handler = "idle" /\ ~ctx /\ file = <<>> /\ Return("notfound")

ReadMetadata ==
  /\ handler = "meta"
  /\ nextRecord = {0}
  /\ Advance
  /\ handler' = "next"
  /\ UNCHANGED <<log, status, sealed, wire, client, ctx>>

MetadataFails == handler = "meta" /\ nextRecord # {0} /\ Return("internal")

SendEntry ==
  /\ handler = "next"
  /\ Len(wire) < Window
  /\ \E i \in nextRecord \ {0} : wire' = Append(wire, i)
  /\ Advance
  /\ UNCHANGED <<log, handler, status, sealed, client, ctx>>

Finish == handler = "next" /\ nextRecord = {} /\ Ended /\ Return("ok")
ReadFails ==
  /\ handler = "next"
  /\ IF nextRecord = {} THEN ~Ended ELSE nextRecord = {0}
  /\ Return("internal")

CtxDone == handler \in {"idle", "next"} /\ ctx /\ Return("cancelled")

(* The process dies, and with it what had not reached the file and the stream;
   a client that asks later asks the next process. *)
Crash ==
  /\ writer # "crashed"
  /\ writer' = IF writer = "closed" THEN "closed" ELSE "crashed"
  /\ buf' = <<>> /\ pending' = <<>>
  /\ IF handler \in {"meta", "next"}
       THEN handler' = "returned" /\ status' = "lost"
       ELSE UNCHANGED <<handler, status>>
  /\ UNCHANGED <<headless, oversized, next, file, broken, pos, sealed,
                 wire, client, ctx>>

-----------------------------------------------------------------------------
(* The pump of GameClient.GetReplay and whoever ranges over its channel.    *)

Recv ==
  /\ pump = "recv" /\ wire # <<>>
  /\ held' = <<Head(wire)>>
  /\ wire' = Tail(wire)
  /\ pump' = "send"
  /\ UNCHANGED <<log, serving, ch, seen, ctx>>

(* Faulty: an entry that finds the channel full takes the place of the oldest. *)
PumpReplaces ==
  /\ pump = "send"
  /\ ch' = IF Len(ch) < ChanSize THEN ch \o held ELSE Tail(ch) \o held
  /\ held' = <<>>
  /\ pump' = "recv"
  /\ UNCHANGED <<log, serving, wire, seen, ctx>>

Pump ==
  /\ pump = "send" /\ Len(ch) < ChanSize
  /\ ch' = ch \o held
  /\ held' = <<>>
  /\ pump' = "recv"
  /\ UNCHANGED <<log, serving, wire, seen, ctx>>

(* Faulty: a pump that waits for room in the channel does not see the context. *)
PumpEndsBlind ==
  /\ pump = "recv" /\ (ctx \/ (wire = <<>> /\ handler = "returned"))
  /\ pump' = "closed"
  /\ UNCHANGED <<log, serving, wire, held, ch, seen, ctx>>

(* The stream has ended, well or not: the channel is closed all the same.  When
   the context is done whatever is under way is given up. *)
PumpEnds ==
  /\ \/ pump \in {"recv", "send"} /\ ctx
     \/ pump = "recv" /\ wire = <<>> /\ handler = "returned"
     \/ pump = "recv" /\ status = "lost"
  /\ pump' = "closed"
  /\ UNCHANGED <<log, serving, wire, held, ch, seen, ctx>>

Consume ==
  /\ ch # <<>>
  /\ seen' = Append(seen, Head(ch))
  /\ ch' = Tail(ch)
  /\ UNCHANGED <<log, serving, wire, held, pump, ctx>>

CancelCall ==
  /\ ~ctx
  /\ ctx' = TRUE
  /\ UNCHANGED <<log, serving, wire, client>>

-----------------------------------------------------------------------------
WriterStep ==
  Write \/ WriteFails \/ Abandon \/ Flush \/ FlushFails \/ Close \/ Crash

HandlerStep ==
  \/ ReadMetadata \/ MetadataFails \/ SendEntry \/ Finish \/ ReadFails
  \/ CtxDone

PumpStep == Recv \/ Pump \/ PumpEnds

Next ==
  \/ WriterStep
  \/ NoSession \/ Open \/ OpenFails \/ HandlerStep
  \/ PumpStep \/ Consume \/ CancelCall

Spec == Init /\ [][Next]_vars

(* A handler and a pump that can run do run.  Nothing obliges the session to go
   on, nor the client to ask, to read or to cancel. *)
FairSpec == Spec /\ WF_vars(HandlerStep) /\ WF_vars(PumpStep)

-----------------------------------------------------------------------------
(* Safety.                                                                  *)

Sent == seen \o ch \o held \o wire

(* Whatever was cut, lost or cancelled, what is on its way to the consumer is a
   prefix of what was written: no gap, no repetition, no half of an entry.  The
   one entry whose write failed may be in it. *)
SentIsPrefix ==
  /\ TypeOK
  /\ Sent = [i \in 1..Len(Sent) |-> i]
  /\ Sent # <<>> => Len(Sent) < IF broken THEN next + 1 ELSE next

(* GetReplay reports the end of a compressed log only when it has sent the whole
   of it.  (Of a plain log that was cut between two lines it cannot know.)  And
   every log that was closed without an error can be read back to its terminal
   entry, unless an entry is longer than the reader's limit. *)
EndIsRight ==
  /\ headless /\ status = "ok" =>
       writer = "closed" /\ pos = Len(file) - 1 /\ next = LastEntry + 1
  /\ sealed /\ oversized = {} =>
       /\ status \notin {"notfound", "internal"}
       /\ status = "ok" /\ ~ctx => Len(Sent) = LastEntry

-----------------------------------------------------------------------------
(* Liveness.                                                                *)

(* A consumer that stops reading and cancels sets the pump free: its goroutine
   ends, and the handler's.  One that goes on reading finds the channel closed in
   the end, also when the log was cut or the server died. *)
PumpReturns ==
  /\ ctx ~> pump = "closed"
  /\ ctx /\ handler \in {"meta", "next"} ~> handler = "returned"
  /\ WF_vars(Consume) => (handler = "meta" ~> pump = "closed" /\ ch = <<>>)
=============================================================================
