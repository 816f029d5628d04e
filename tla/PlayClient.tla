----------------------------- MODULE PlayClient -----------------------------
(***************************************************************************)
(* A bot of the Python, ts-node or ts-web library: joinLobby, then run over *)
(* one Play stream, against what the server does with that stream.         *)
(*                                                                         *)
(* The Python client answers one update after another, through a queue and *)
(* a thread that feeds the stream.  The TypeScript clients handle each      *)
(* update in an async callback, so that one may be waiting for the bot     *)
(* while the next arrives: the server does not wait for ever.              *)
(***************************************************************************)
EXTENDS Naturals, SequencesExt

CONSTANTS
  Kinds,       \* subset of {"python", "node", "web"}
  Updates,     \* bound on the updates of a game before the terminal one
  Waits        \* bound on the lobby updates before the start

ASSUME ClientAssumption ==
  Kinds \subseteq {"python", "node", "web"} /\ Updates \in Nat /\ Waits \in Nat

JoinAction == 0              \* the first action; action u answers update u
Terminal == Updates + 1      \* the terminal update
Stop == Updates + 2          \* _STOP

VARIABLES
  kind,
  lobbyStream, \* lobby updates on their way: TRUE for game_starting
  matchmaker,  \* the JoinLobby stream at the server: "open", "ended", "failed"
  run,         \* "lobby", "ready", "play", "resolved" or "rejected"
  thinking,    \* updates whose onStateUpdate has not returned
  queue,       \* Python: action_queue
  sender,      \* Python: the thread in _sender: "none", "join", "get", "ended"
  up,          \* actions on their way to the server
  half,        \* the client has ended its side of the stream
  down,        \* updates on their way to the client
  server,      \* Play: "first", "ask", "answer", "over" or "failed"
  sent,        \* updates the server has sent
  got          \* what it has received

lobbyVars == <<lobbyStream, matchmaker>>
bot == <<run, thinking, queue, sender>>
playStream == <<up, half, down>>
play == <<server, sent, got>>
botVars == <<kind, lobbyVars, bot, playStream, play>>

Actions == 0..Stop

BotTypeOK ==
  /\ kind \in Kinds
  /\ lobbyStream \in Seq(BOOLEAN) /\ Len(lobbyStream) <= Waits + 1
  /\ matchmaker \in {"open", "ended", "failed"}
  /\ run \in {"lobby", "ready", "play", "resolved", "rejected"}
  /\ thinking \subseteq 1..Terminal
  /\ kind = "python" => \A u, v \in thinking : u = v
  /\ queue \in Seq(Actions) /\ (kind # "python" => queue = <<>>)
  /\ sender \in {"none", "join", "get", "ended"}
  /\ up \in Seq(0..Terminal)
  /\ half \in BOOLEAN
  /\ down \in Seq(1..Terminal)
  /\ server \in {"first", "ask", "answer", "over", "failed"}
  /\ sent \in 0..Updates
  /\ got \in Seq(0..Terminal)

BotInit ==
  /\ kind \in Kinds
  /\ lobbyStream = <<>> /\ matchmaker = "open"
  /\ run = "lobby" /\ thinking = {} /\ queue = <<>> /\ sender = "none"
  /\ up = <<>> /\ half = FALSE /\ down = <<>>
  /\ server = "first" /\ sent = 0 /\ got = <<>>

-----------------------------------------------------------------------------
(* joinLobby.                                                               *)

LobbyUpdate ==
  /\ matchmaker = "open" /\ Len(lobbyStream) < Waits
  /\ lobbyStream' = Append(lobbyStream, FALSE)
  /\ UNCHANGED <<kind, matchmaker, bot, playStream, play>>

LobbyStarts ==
  /\ matchmaker = "open"
  /\ lobbyStream' = Append(lobbyStream, TRUE)
  /\ matchmaker' = "ended"
  /\ UNCHANGED <<kind, bot, playStream, play>>

(* The lobby was drained without us, or the call failed. *)
LobbyEnds ==
  /\ matchmaker = "open"
  /\ matchmaker' \in {"ended", "failed"}
  /\ UNCHANGED <<kind, lobbyStream, bot, playStream, play>>

(* Updates are passed over until the game starts; if the stream ends before that,
   the call fails. *)
JoinLobby ==
  /\ run = "lobby"
  /\ \/ /\ lobbyStream # <<>>
        /\ run' = IF Head(lobbyStream) THEN "ready" ELSE "lobby"
        /\ lobbyStream' = Tail(lobbyStream)
     \/ /\ matchmaker = "failed" \/ (matchmaker = "ended" /\ lobbyStream = <<>>)
        /\ run' = "rejected"
        /\ UNCHANGED lobbyStream
  /\ UNCHANGED <<kind, matchmaker, thinking, queue, sender, playStream, play>>

(* run opens the stream.  The ts-node client writes the join action at once; the
   Python client's thread is about to; the web client writes none. *)
Begin ==
  /\ run = "ready"
  /\ run' = "play"
  /\ sender' = IF kind = "python" THEN "join" ELSE "none"
  /\ up' = IF kind = "node" THEN <<JoinAction>> ELSE <<>>
  /\ UNCHANGED <<kind, lobbyVars, thinking, queue, half, down, play>>

-----------------------------------------------------------------------------
(* The Python client.                                                       *)

Python == kind = "python"

(* Faulty: the queue is read before the join action is yielded. *)
SenderWithoutJoin ==
  /\ sender \in {"join", "get"} /\ queue # <<>>
  /\ queue' = Tail(queue)
  /\ IF Head(queue) = Stop THEN sender' = "ended" /\ half' = TRUE /\ UNCHANGED up
                           ELSE up' = Append(up, Head(queue)) /\ UNCHANGED <<sender, half>>
  /\ UNCHANGED <<kind, lobbyVars, run, thinking, down, play>>

(* _sender: gRPC asks it for the next action, and takes no more after an action
   that it gets when the call has ended, which it may learn late. *)
Sender ==
  /\ \/ /\ sender = "join"
        /\ sender' = "get"
        /\ up' = Append(up, JoinAction)
        /\ UNCHANGED <<queue, half>>
     \/ /\ sender = "get" /\ queue # <<>>
        /\ queue' = Tail(queue)
        /\ \/ /\ Head(queue) = Stop \/ server \in {"over", "failed"}
              /\ sender' = "ended" /\ half' = TRUE
              /\ UNCHANGED up
           \/ /\ Head(queue) # Stop
              /\ up' = Append(up, Head(queue))
              /\ UNCHANGED <<sender, half>>
  /\ UNCHANGED <<kind, lobbyVars, run, thinking, down, play>>

NextUpdate ==
  /\ Python /\ run = "play" /\ thinking = {} /\ down # <<>>
  /\ thinking' = {Head(down)}
  /\ down' = Tail(down)
  /\ UNCHANGED <<kind, lobbyVars, run, queue, sender, up, half, play>>

(* Faulty: the thread is not told that the game is over. *)
AnswerWithoutStop ==
  /\ Python /\ run = "play"
  /\ \E u \in thinking :
       /\ queue' = Append(queue, u)
       /\ run' = IF u = Terminal THEN "resolved" ELSE "play"
  /\ thinking' = {}
  /\ UNCHANGED <<kind, lobbyVars, sender, playStream, play>>

(* Every update is answered, the terminal one too. *)
Answer ==
  /\ Python /\ run = "play"
  /\ \E u \in thinking :
       /\ queue' = IF u = Terminal THEN queue \o <<u, Stop>> ELSE Append(queue, u)
       /\ run' = IF u = Terminal THEN "resolved" ELSE "play"
       /\ thinking' = thinking \ {u}
  /\ UNCHANGED <<kind, lobbyVars, sender, playStream, play>>

(* An exception of the bot leaves run, and the thread waiting. *)
BotRaises ==
  /\ Python /\ run = "play" /\ thinking # {}
  /\ run' = "rejected"
  /\ thinking' = {}
  /\ UNCHANGED <<kind, lobbyVars, queue, sender, playStream, play>>

StreamError ==
  /\ Python /\ run = "play" /\ thinking = {} /\ server = "failed"
  /\ run' = "rejected"
  /\ queue' = Append(queue, Stop)
  /\ UNCHANGED <<kind, lobbyVars, thinking, sender, playStream, play>>

-----------------------------------------------------------------------------
(* The TypeScript clients.                                                  *)

TypeScript == kind \in {"node", "web"}

(* A promise is settled once. *)
Settle(outcome) == run' = IF run = "play" THEN outcome ELSE run

(* The callback runs up to its await.  In the web client the terminal update is
   not shown to the bot. *)
OnData ==
  /\ TypeScript /\ down # <<>>
  /\ down' = Tail(down)
  /\ IF kind = "web" /\ Head(down) = Terminal
       THEN half' = TRUE /\ Settle("resolved") /\ UNCHANGED thinking
       ELSE thinking' = thinking \cup {Head(down)} /\ UNCHANGED <<run, half>>
  /\ UNCHANGED <<kind, lobbyVars, queue, sender, up, play>>

(* Faulty: the callback for an update runs more than once. *)
BotAnswersAgain ==
  /\ TypeScript /\ Len(up) <= Updates
  /\ \E u \in thinking \ {Terminal} : up' = Append(up, u)
  /\ UNCHANGED <<kind, lobbyVars, bot, half, down, play>>

(* onStateUpdate returns, for updates in any order; a write after the end of the
   stream, or of the call, is lost. *)
BotAnswers ==
  /\ TypeScript
  /\ \E u \in thinking :
       /\ thinking' = thinking \ {u}
       /\ IF u = Terminal
            THEN half' = TRUE /\ Settle("resolved") /\ UNCHANGED up
            ELSE /\ up' = IF half \/ server \in {"over", "failed"} THEN up
                          ELSE Append(up, u)
                 /\ UNCHANGED <<run, half>>
  /\ UNCHANGED <<kind, lobbyVars, queue, sender, down, play>>

BotRejects ==
  /\ TypeScript
  /\ \E u \in thinking : thinking' = thinking \ {u}
  /\ half' = TRUE
  /\ Settle("rejected")
  /\ UNCHANGED <<kind, lobbyVars, queue, sender, up, down, play>>

(* Faulty: an error counts as an end. *)
OnEndOrError ==
  /\ TypeScript /\ run = "play"
  /\ server \in {"over", "failed"}
  /\ Settle("resolved")
  /\ UNCHANGED <<kind, lobbyVars, thinking, queue, sender, playStream, play>>

(* The events that end a stream; callbacks that still wait for the bot are not
   waited for. *)
OnEnd ==
  /\ TypeScript /\ run = "play"
  /\ \/ server = "over" /\ down = <<>> /\ Settle("resolved")
     \/ server = "failed" /\ Settle("rejected")
  /\ UNCHANGED <<kind, lobbyVars, thinking, queue, sender, playStream, play>>

-----------------------------------------------------------------------------
(* Play at the server, with its timed adapter (TimedTurns).                 *)

(* The first message opens the session. *)
First ==
  /\ server = "first" /\ up # <<>>
  /\ got' = <<Head(up)>>
  /\ up' = Tail(up)
  /\ server' = "ask"
  /\ UNCHANGED <<kind, lobbyVars, bot, half, down, sent>>

Ask ==
  /\ server = "ask" /\ sent < Updates
  /\ sent' = sent + 1
  /\ down' = Append(down, sent')
  /\ server' = "answer"
  /\ UNCHANGED <<kind, lobbyVars, bot, up, half, got>>

GetAnswer ==
  /\ server = "answer" /\ up # <<>>
  /\ got' = Append(got, Head(up))
  /\ up' = Tail(up)
  /\ server' = "ask"
  /\ UNCHANGED <<kind, lobbyVars, bot, half, down, sent>>

(* The bot is late, or has ended its side: the fallback plays. *)
TimesOut ==
  /\ server = "answer"
  /\ server' = "ask"
  /\ UNCHANGED <<kind, lobbyVars, bot, playStream, sent, got>>

GameOver ==
  /\ server = "ask"
  /\ down' = Append(down, Terminal)
  /\ server' = "over"
  /\ UNCHANGED <<kind, lobbyVars, bot, up, half, sent, got>>

(* The session fails or the connection is lost, with whatever is on its way. *)
Fails ==
  /\ server \in {"first", "ask", "answer"} /\ run \notin {"lobby", "ready"}
  /\ server' = "failed"
  /\ down' \in {down, <<>>}
  /\ UNCHANGED <<kind, lobbyVars, bot, up, half, sent, got>>

-----------------------------------------------------------------------------
PythonStep == Sender \/ NextUpdate \/ Answer \/ BotRaises \/ StreamError
TypeScriptStep == OnData \/ BotAnswers \/ BotRejects \/ OnEnd

BotNext ==
  \/ LobbyUpdate \/ LobbyStarts \/ LobbyEnds \/ JoinLobby \/ Begin
  \/ PythonStep \/ TypeScriptStep
  \/ First \/ Ask \/ GetAnswer \/ TimesOut \/ GameOver \/ Fails

BotSpec == BotInit /\ [][BotNext]_botVars

(* Clients' loops and threads run and their bots return in the end; the server
   reads a first message.  Neither the lobby nor the game need get anywhere. *)
BotFairSpec ==
  /\ BotSpec
  /\ WF_botVars(JoinLobby) /\ WF_botVars(Begin)
  /\ WF_botVars(Sender)
  /\ WF_botVars(NextUpdate \/ Answer \/ BotRaises \/ StreamError)
  /\ WF_botVars(OnData) /\ WF_botVars(OnEnd)
  /\ WF_botVars(First)

-----------------------------------------------------------------------------
(* Safety.                                                                  *)

Answers == got \o up \o queue

(* However late and whatever else is being thought about, an update is answered
   at most once, only after it was sent, and not before the join action; and the
   Python client's answers stay in the order of the updates, with nothing behind
   _STOP.  (Those of the TypeScript clients need not, since their callbacks
   overlap.) *)
UpdatesAreAnswered ==
  /\ BotTypeOK
  /\ IsInjective(Answers)
  /\ ToSet(Answers) \subseteq {JoinAction, Terminal, Stop} \cup 1..sent
  /\ got # <<>> => Head(got) = JoinAction
  /\ Python => \A i, j \in DOMAIN Answers : i < j => Answers[i] < Answers[j]

(* run returns normally only after a game that ended normally: a lost connection
   or a failed session always shows. *)
ResolvedMeansOver == run = "resolved" => server = "over"

-----------------------------------------------------------------------------
(* Liveness.                                                                *)

(* Nothing of a client outlives its stream: joinLobby returns when the lobby
   stream has ended, run when the Play stream has, and the Python client's thread
   ends with the run, unless an exception of the bot ended that. *)
NothingOutlivesTheStream ==
  /\ matchmaker # "open" ~> run # "lobby"
  /\ run = "play" /\ server \in {"over", "failed"} ~> run # "play"
  /\ Python /\ (run = "resolved" \/ (run = "rejected" /\ Stop \in ToSet(queue)))
       ~> sender \in {"none", "ended"}

(* Client and server do not wait for each other, unless it is the web client,
   which waits for an update before it has sent its first action. *)
StreamOpens == kind # "web" /\ run = "play" ~> server # "first"
=============================================================================
