# game-engine-core in TLA+

Specifications, model-checking runs and proofs for the game engine in `src/`: a Go library that runs
turn-based game sessions, a gRPC server that matches players and plays sessions with them, and client
libraries in Go, Python and TypeScript.

Run a check with `tlc -workers 2 -config Lobby_streams.cfg MCLobby`, and a proof with
`tlapm LobbyProofs.tla`. `PROJECT.json` lists every run, the faulty variants each property was tried
on, the source lines each definition stands for, the hazards, the finding and the theorems.

## The system

| Part | State | Operations | Talks to |
|---|---|---|---|
| Matchmaking lobby (`pkg/transport/server.go`) | per game type: player ids, one update channel per waiting stream, in parallel slices | JoinLobby, CancelJoin; under the mutex add, remove, broadcast, snapshot, drain | clients, by streams |
| Session runner (`pkg/engine/runner.go`, `session.go`) | current state, step, last reward, winner, replay log | Run: ask, validate, apply, log, count, until the game is over | GameLogic, PlayerAdapter, ReplayLog, spectators |
| Player adapters (`dispatcher.go`, `timing.go`, `server.go`) | a timer, a result channel and goroutines per call | RequestAction of TimeoutAdapter, of streamPlayerAdapter, of RandomFallbackAdapter | runner above, stream below |
| Pre-registered sessions (`server.go`) | table of entries, adapter channels, runOnce, runDone | PreRegisterSession, the joining half of Play | streams, runner |
| Play, GetReplay, shutdown (`server.go`, `cmd/server`) | table of active sessions | Play, GetReplay, DrainSessions, GracefulStop | runner, signals |
| Replay log (`replay_writer.go`, `replay_reader.go`) | buffered, possibly compressed file | WriteMetadata, WriteEntry, Flush, Close; ReadMetadata, Next | runner, GetReplay, glogtool |
| Batch runner (`headless.go`) | job channel, results | RunAll | runner |
| Spectators (`live.go`) | registry of channels | Register, Deregister, Broadcast | runner |
| Go client (`client.go`) | channels fed by pumps | Join, CancelJoin, Play, GetReplay, retry | server |
| Python, ts-node, ts-web clients | a stream, an action queue | join_lobby, run | server |
| Replay player (`ts-web/src/replay.ts`) | entries, a timer | play, stop | callbacks |
| Cards, grid (`pkg/components`) | decks, hands, grids | pure algorithms | games |
| Auth, TLS, interceptors, tools | none to speak of | | |

How they meet: a client joins the lobby until it is told to start, then opens a Play stream. The Play
handler wraps the stream in the timed adapters and calls the runner with it, alone or, when the session
was registered beforehand, with those of the other players. The runner writes the replay log, which
GetReplay reads, and offers updates to spectators. A signal makes `main` cancel what is in the table of
sessions. The batch runner calls the same runner without any of this.

What is hard here, and what makes each part correct:

* **Lobby.** The mutex covers single operations, while a handler's snapshot, broadcast and drain are
  three; so decisions are taken on stale copies. A full lobby must start and never be forgotten,
  nobody may be left in it who was told to start, the parallel slices must stay parallel (or a send or
  close panics), and nobody's channel may be closed by another one's business.
* **Runner.** Cancellation can come anywhere, every call it makes can fail, and state, log and
  counter change at different points of a turn. The log must replay, players must be asked in turn
  with the current state, a cancelled run must stop.
* **Adapters.** Timeouts race answers, cancellation makes several cases of a `select` ready, and
  abandoned goroutines keep reading from a stream that later calls use.
* **Pre-registered sessions.** Handlers race to deliver adapters and start the runner; one stream's
  context governs all.
* **Shutdown.** The table is copied under the lock and used without it, sessions come and go
  meanwhile, ids may coincide, clients may be silent, and a time limit races the graceful stop. The
  table must name the running sessions and nothing else, the drain must reach all it found, and the
  process must exit.
* **Replay log.** A buffer over a compressor over a file, each of which can fail or be lost halfway,
  read while it is being written and sent on through flow control and a channel. A reader must see a
  prefix and must not take a cut for the end.
* **Batch runner.** Workers store results in a slice without a lock. Each config must be run once, by
  one worker, and its result end in its place, also when the batch is cancelled.
* **Clients.** A retried call may be carried out late or twice; pumps outlive their readers; callbacks
  overlap; streams end while bots think. Answers must be given once, an end must be told from a
  failure, and nothing may wait for ever.
* **Registry, replay player, cards, grid.** A send to a closed channel; timers that `stop` has lost sight
  of; a swap loop that is off by one; index arithmetic at the border.

## Modules

| Module | What it is |
|---|---|
| `Lobby` | one lobby, its handlers and cancellations |
| `MCLobby` | symmetry for TLC |
| `LobbyProofs` | theorems about `Lobby` |
| `Game` | the GameLogic interface as constants |
| `GameTurns` | abstract: a game played one move at a time |
| `SessionRunner` | Runner.Run; implements `GameTurns` |
| `MCSessionRunner` | a countdown game for TLC |
| `SessionRunnerProofs` | theorems about `SessionRunner`, the refinement among them |
| `TimedTurns` | TimeoutAdapter, TurnTimer and stream adapter of one Play handler |
| `TimedTurnsProofs` | theorems about `TimedTurns` |
| `PendingSession` | a pre-registered session and the streams that join it |
| `PendingSessionProofs` | theorems about `PendingSession` |
| `ServerShutdown` | the table of sessions, DrainSessions, GracefulStop, the end of `main` |
| `ServerShutdownProofs` | theorems about `ServerShutdown` |
| `ReplayLog` | writer, file, reader, GetReplay and the Go client's pump |
| `ReplayLogProofs` | theorems about `ReplayLog` |
| `BatchMap` | abstract: a result for every config, in its place |
| `BatchRunner` | the worker pool of RunAll; implements `BatchMap` |
| `PlayClient` | a Python, ts-node or ts-web bot from joinLobby to the end of run |
| `GoClient` | Join's pump, and CancelJoin with the retry and deadline interceptors |
| `ClientProofs` | theorems about `GoClient` and `PlayClient` |
| `Cards` | a deck, hands, shuffling and dealing |
| `Grid` | occupancy map, neighbours, integer distances |
| `ReplayPlayer` | the web client's player: timers and callbacks |
| `Spectators` | the registry and its channels |
| `LibraryProofs` | theorems about `BatchRunner`, its refinement among them, `Spectators`, `ReplayPlayer`, `Grid` and `Cards` |
| `Toolkit` | `Cards`, `Grid`, `ReplayPlayer` and `Spectators` for TLC |

### Lobby

`playerIDs` and `subs` are the two slices, an entry of `subs` naming the handler that created the
channel; `chan[h]` is what the channel buffers and `sub[h]` whether it is open and, if not, what
closed it. `pc`, `snap` and `ctx` are the local state of each JoinLobby or CancelJoin call, `last`
what its client saw last. One action stands for the code between two lock operations: `Join`,
`Snapshot`, `JoinBroadcast`, `Drain` are the four steps of JoinLobby before its loop, and
`TakeUpdate`, `ChannelClosed`, `CtxDone` the cases of the loop. An update that was taken is then sent, which
lasts until `SendUpdate` or `SendFails`: a client that does not read can hold its handler there. Player ids are chosen in
`Init`, so two streams may carry one id. Lobbies are never deleted and do not interact, so there is one.

### SessionRunner

`pc` names the places where the loop looks at its context, its adapter or its log; an action goes from
one to the next. `config` is drawn in `Init`: Live or Headless, with or without a log. The game is
`Game`'s constants, functions of the state and the whole action, since GameLogic must be pure and sees the
actor as well as the payload. An adapter may return any action, under any player's name, a stranger's or none, or fail; `IsTerminal`, `ApplyAction` and a write may fail. `WriteFails` stands for
a failing marshal or write; flush and close errors are only logged by the code. `trace` and `late` are
history variables. The mapping to `GameTurns` is `board <- state`, `moves <- trace`, and `status` from
the outcome.

### TimedTurns

A call of `TimeoutAdapter.RequestAction` is `Begin`, then one of `InnerAnswered`, `InnerFailed`,
`Expired`, `CtxDone` - the cases of its select, `Expired` and `InnerFailed` with the fallback's action,
written 0. `Send`, `SendFails`, `InnerReturns` are the inner call, `Recv` and `RecvFails` the receiver
in `stream.Recv`, of which several may be blocked; `TimeoutElapses` and `Watch` are the timer and its
watcher. After the run the handler is in `"terminal"`, sending the last update, until `SendTerminal` or `TerminalFails`. An answer is named by the update it answers. gRPC (the stream, its context, its end) is
external. Two calls of Recv at once are outside gRPC's contract; the module takes
it that each message is delivered to one of them.

### PendingSession

`adapters[p]` is the channel of capacity 1, `collector` the goroutine that runOnce starts, `starter` the
stream whose context it watches, `awaited` the player it is waiting for in its range over the map.
A stream that looks the session up before it is registered plays one of its own (`"solo"`). `Wait` is a waiter's return
after the run, the terminal Send to its client included.

### ServerShutdown

`sessions[id]` is whose cancel function the table holds; `sessionID[h]`, chosen in `Init`, is what the
handler makes of the player's id and the clock, so two handlers may draw the same. `pc[h]` goes
through the single-player half of Play: `Register` is the insertion, `RunEnds` and `RunCancelled` the
return of Runner.Run, `Cleanup` the deferred cancel and deletion, by id, whoever's entry that is.
A handler of a pre-registered session is `"attached"` and never in the table. `drainer` is the
goroutine that `main` starts on a signal: `Copy` takes the functions under the lock, `Cancel` calls them
without, `GracefulStop` refuses new streams and `GracefulStopped` waits for the handlers. `Done`,
`Timeout` and `Stopped` are `main`. A session can register after the copy; only the limit ends it.

### ReplayLog

A record is two pieces and a newline, so a write can be cut in the middle of a line. `buf` and `pending`
are what the buffered writer and the compressor hold, `file` the decompressed file, and where either
cuts is left open. `WriteFails` and `FlushFails` put any part of the data on the disk and break both
writers; `Abandon` is a run that was cancelled or failed, `Crash` the end of the process at any point.
`NoSession` is a request without a session id. The reader (`Scanned`, `nextRecord`, `Ended`) decides as `bufio.Scanner` and the code around it do; a
line in `oversized` is beyond its 4 MB. GetReplay sends into a window, `Recv`, `Pump` and `PumpEnds` are
the client's goroutine. A client may ask while the log is being written: `sealed` remembers whether
it was closed at the opening.

### BatchMap and BatchRunner

`BatchMap` promises that results appear one by one, each in the place of its config and only once, and
that RunAll returns when all are there. `BatchRunner` has the job channel, the workers, the WaitGroup and
the slice; `Check` is where a worker looks at the context, `RunCancelled` the end of a run that sees it.

### PlayClient

One bot, whose `kind` is chosen in `BotInit`. `JoinLobby` reads lobby updates until the start; `Begin`
opens the stream. For Python, `queue` and `sender` are the action queue and the generator that gRPC's thread
drives, and one update is answered after the other. For TypeScript, `OnData` begins a callback and
`BotAnswers` ends one, in any order, since the handler is async. The server's half is the timed session
of `TimedTurns` reduced to what a client sees: `First`, `Ask`, `GetAnswer`, `TimesOut`, `GameOver`, `Fails`.

### GoClient

`entries` are the player's own entries in the lobby; `Join(1)` is followed with its pump, `Join(2)` stands for a
later join. CancelJoin goes out as `attempt` 1, 2, ...; each attempt stays `inflight` until the server
executes it or for ever, though the client may long have given it up. `Transient` is an error the
interceptor retries, `Permanent` one that ends the call, `Deadline` a transient one that comes from the injected deadline, `Retry`
the end of a back-off; `errs` remembers the errors. `cfg` ranges over configurations with zero or negative fields, which
stand for defaults. The multiplier is a float in the code; here it is a number of parts of which `One` make 1, so that it may be below one.

### Cards, Grid, ReplayPlayer, Spectators, Toolkit

`Cards`: `Shuffled` is the loop of Shuffle over a sequence of draws, `Dealt` the two loops of DealTo as one
over the cards in their order, both as recursive functions of the round. `Grid`: positions are pairs, cells a function from flat indices; neighbour lists keep the
order of the loops. `ReplayPlayer`: each `Play` starts a chain of ticks with an index of its own, `timerId` remembers one
timer only; `Play` and `Stop` can be called from callbacks. `Spectators`: `Broadcast` takes the read
lock, `Offer` is one turn of its loop, `Register` and `Deregister` need the lock free. These four are small
and independent of each other, so `Toolkit` puts them in one specification in which a behaviour uses
only its `subject`.

## Runs

Passing runs, with the number of distinct states:

| Run | Instance | Properties | States |
|---|---|---|---|
| `lobby_streams` | 3 streams, 2 player ids, lobby of 2, channels of 1 | FullLobbyHasStarter, StartedAreDrained | 618 k |
| `lobby_live` | 2 streams, 1 CancelJoin, channels of 1 | SubscriptionsMatch, EndsForAReason, FullLobbyDrains, WaiterReturns | 179 k |
| `runner_session` | countdown from 4, 2 players, 3 payloads in either's name or none | LogReplays, EndsWell, MovesAreChecked, OneMoveAfterCancel, PlaysInTurns, RunReturns | 29 k |
| `turns` | 2 calls | AnsweredOnce, CallsEnd | 54 k |
| `pending_session` | 3 streams, 2 players and a stranger | AdapterInOnePlace, RunsOnce, SessionStarts | 88 k |
| `server_shutdown` | 2 handlers, 2 ids | TableIsLive, DrainReachesAll, ShutdownEnds | 25 k |
| `replay_log` | metadata and 2 entries, buffer of 4 pieces, window and channel of 1 | SentIsPrefix, EndIsRight, PumpReturns | 168 k |
| `batch_runner` | 4 configs, 3 workers | MapsConfigs, CancelReturns | 61 k |
| `play_client` | 3 kinds of client, 4 updates and the terminal one | UpdatesAreAnswered, ResolvedMeansOver, NothingOutlivesTheStream, StreamOpens | 7.9 k |
| `go_client` | 3 attempts or 1, first waits of 1 or 7, limit 2, factor 1/2 or 3 | CancelIsEffective, RetriesAreBounded, CallsReturn | 709 k |
| `toolkit` | deck of 3, 2 hands; grids up to 3x2x2; replays up to 3; 2 broadcasting sessions, 2 spectators | ShuffleIsUnbiased, MapIsFaithful, DistancesCountMoves, ShowsInOrder, SpectatorsAreSafe, CardsAreDealt, PlaybackEnds, BroadcastEnds | 142 k |

What they show, where it is not plain from the names:

* `lobby_live`: a handler whose client has gone returns; one whose channel was closed returns too, unless it
  stays in the Send to a client that does not read.
* `runner_session`: what is applied was found valid in the name it is logged under, or is the fallback of the player
  on turn, and the log replays with the actors it names. A winner stands only for a game that is over. However invalid the
  answers, the loop does not spin: the run returns if its adapters do.
* `turns`: each call of RequestAction returns though its Send may block; the handler does once its stream is gone, or if
  its last Send comes to an end.
* `server_shutdown`: the table names running sessions only, and all of them but those whose id another one
  drew as well; the drain reaches every session that ran at the copy; a cancelled session ends without the
  time limit; and with it the process exits, whatever the clients do.
* `replay_log`: whatever is cut, lost or cancelled, entries arrive as a gapless prefix; the end of a
  compressed log is reported only for a whole log; a log that was closed without error can be read to
  its end; and neither pump nor handler outlives a cancelled call.
* `play_client`: no answer is given twice, early or before the join action; a lost connection never looks
  like the end of a game; threads, runs and joinLobby end with their streams.
* `go_client`: when CancelJoin says ok or not found, the entry it was called for is gone, though
  requests and answers are lost or late; a call is retried after transient errors only and, unless its context ends, given up only after a
  permanent one or at the last attempt; waits grow up to the limit (if the factor is not below one), and there is always an attempt.
* `toolkit`: all n! orders are equally likely; dealing is round by round and all or nothing; distances are
  lengths of shortest paths; one chain of ticks as long as `onEntry` leaves the player alone; a spectator's
  channel is not used once it may be closed.

The bounds are the smallest at which the interesting cases occur. Three streams and a lobby of two let
one join arrive between a snapshot and a drain; channels of one fill up; a cancellation and
a disconnect, or two streams of one player, compete for an entry. A countdown from 4 gives both
players two turns. Two calls are enough for a call to return while others of its goroutines are
blocked; the third, an answer taken by the wrong call, is in `turns_update`. Three streams for two
players give a player two rivals, or one stream nobody waits for. Two sessions are one that the drainer
finds and one that it misses, or two of one id. A buffer of four pieces is overrun in the middle of the
second line. Four configs keep one in the channel while three workers are busy, and a worker takes a
second. Four updates let three callbacks overlap. Two streams and three attempts allow an attempt that was given up to be
executed before, between and after the others. A grid of 3x2 tells a row from a column, a deck of three is the
smallest for which a biased shuffle differs, two sessions are two readers of the registry's lock.

Bounds on behaviour, all named constants: `Calls`, `Length`, `Updates` and `Waits` of `PlayClient`, `LastEntry`,
`MaxCards`, `MaxRounds`, `MaxTimers`, `MaxTokens`, `MaxUpdates`. Every other module is finite because its calls, streams
and configs are.

Deadlock is not checked: in every module the system stops when all calls have returned.

One run finds a violation. `turns_update` checks the comment at `server.go:287`, by which RequestAction
returns the response to the update it has sent. The receiver of a call that timed out stays in
`stream.Recv`, and a late answer is taken for that to a later update.

### Where code and comments part

Each of these can be read off an action, and no run is spent on it.

Lobby:
* `SendFails`: a failed Send leaves its entry in the lobby.
* `Drain`: a player who joins between snapshot and drain is sent away with no start.
* `CtxDone`: removal is by player id, so a disconnect may end another stream of the same player.
* `TakeUpdate`: a handler whose channel was closed stays in Send as long as its client does not read.
* `JoinBroadcast`, `CancelBroadcast`: broadcasts can overtake each other and leave an old list.

Runner and adapters:
* `SessionRunner!AnswerAgain`, `Fallback`: the fallback action is applied unvalidated after an invalid
  answer (`game_logic.go:35` makes validation the caller's duty), and the answer to a second prompt is not stamped:
  `MovesAreChecked` allows both, a move in nobody's name in Live mode only.
* `SessionRunner!SendUpdate`: the reward of an update is that of the last move, so with two players
  the other player's (`dispatcher.go:20` says the receiver's own, `session.go:106` the one for the action they just took).
  No property asserts either reading.
* `SessionRunner!GameOver`: the terminal entry repeats the last reward (`runner.go:297` says 0), and
  the winner stays set when writing that entry fails, though a failed BatchResult is documented to have none.
* `SessionRunner!CtxDone`: a cancelled or failed run neither flushes nor closes its log.
* `TimedTurns!InnerFailed`: a cancelled call may return a fallback action in place of an error.
* `TimedTurns!Watch`: a parent deadline closes Expired() before the timeout has elapsed.
* `TimedTurns!Begin`: inner calls overlap after a timeout.
* `PendingSession!GiveUp`: the first stream's departure ends the session for all, unplayed and reported as finished.
* `PendingSession!Run`: the adapters of a pre-registered session have no timeout and its context is not that of any stream, so a
  silent client holds it.
* `PendingSession!Deliver`: a player's second stream may block for ever, its context notwithstanding.

Server and log:
* `ServerShutdown!Cancel`: DrainSessions returns when it has called the cancel functions; its comment says it waits.
* `ServerShutdown!Register`: a session that registers after the copy is not cancelled before the limit.
* `ReplayLog!WriteFails`: an entry whose write failed may be readable all the same.
* `ReplayLog!Finish`: a plain log that was cut between two lines reads as complete.
* `ReplayLog!ReadFails`: an entry of more than 4 MB can be written and not read.

Clients and toolkit:
* `GoClient!PumpEnds`, `ReplayLog!PumpEnds`: the channel is closed on an error as on an end, and nothing tells which;
  Join's comment speaks of an error as last item.
* `GoClient!Execute`: a retry after a lost answer can remove an entry of a later join.
* `GoClient!Retry`: the first wait is not held to MaxBackoff.
* `PlayClient!Begin`: the web client sends no join action (`client.ts:12-19` shows one) and waits for an update, the
  server for an action: `StreamOpens` leaves it out, because there it does not hold.
* `PlayClient!BotRaises`: an exception of a Python bot leaves the sender thread waiting.
* `PlayClient!OnData`: callbacks of the TypeScript clients overlap, so answers may leave out of order; ts-node
  hands the terminal update to the bot though its comment says it does not.
* `PlayClient!OnEnd`: run may resolve while the callback for the terminal update is still waiting.
* `ReplayPlayer!EntryShown`: `stop()` from onEntry does not stop (`replay.ts:58`), and `play()` from onEntry leaves two
  chains of ticks (`replay.ts:23`).
* `Cards!Deal`: a negative count panics; `Grid!Occupy`: an empty id leaves the cell free.

## Fairness

* `Lobby`: weak fairness on each handler's steps. The Go scheduler runs what can run and `sync.Mutex`
  does not starve. Clients owe nothing: joining, cancelling, disconnecting and `SendUpdate`, which may wait for a
  client that does not read, are not fair.
* `SessionRunner`: weak fairness on the loop only. The timed adapters of a single-player session and the random ones of a
  batch do return (`CallsEnd` of `TimedTurns` for the former), but a pre-registered session gives its runner bare stream adapters and a
  context that nobody cancels (`server.go:449` and `470`). So that adapters return is a premise of `RunReturns`, not an
  assumption of the module.
* `TimedTurns`: weak fairness on the runner, the handler's return, the inner calls once sent or failing, the receivers, the
  watcher, and the passing of time. Not on `Send` and `SendTerminal`, which a client that does not read can
  block, nor on anything the client does.
* `PendingSession`: weak fairness on the handlers' delivery and start, and on the collector; not on the end of a run, which may wait
  for a silent client, nor on a waiter's return (`Wait`), whose terminal Send may, nor on clients joining.
* `ServerShutdown`: weak fairness on what handlers, drainer and `main` can do alone. Not on clients or games, nor on
  a signal. That the limit passes is a premise, stated in the one property that needs it.
* `ReplayLog`: weak fairness on GetReplay and on the pump. Not on the session, which may stop writing anywhere, nor on the
  reader of the channel; that one reads on is again a premise where it is needed.
* `BatchRunner`: weak fairness on each worker and on the return. Not on the end of a game: random moves may never end one.
* `PlayClient`: weak fairness on loops, threads and event handlers, and on a first message being read. Python's bot returns
  or raises; of a TypeScript callback nothing is assumed. Lobby and game need not get anywhere.
* `GoClient`: weak fairness on the pump and on the call, timers included. Requests and answers need not arrive.
* `ReplayPlayer`, `Spectators`: timers fire and callbacks return; a broadcast's loop goes on. Nobody has to call anything.

## Proofs

All proofs are for every value of the constants.

`LobbyProofs`, from `LobbyAssumption` (a positive lobby size and capacity, distinct calls):

* `LobbyIsConsistent`: TypeOK and SubscriptionsMatch. The two are inductive together: removing at
  an index needs the subscriptions to be distinct and to carry their own players' ids.
* `FullLobbyIsNeverForgotten`: FullLobbyHasStarter is inductive given the above, because only `Join`
  makes the list longer, and the joiner itself has then yet to look.
* `StartedPlayersAreDrained`: StartedAreDrained and NoGhostAfterOk. Inductive with the fact that
  whoever was told of a start, or has it in its channel, is subscribed only while a drain is pending.
* `NoBystanderIsClosed`: the action property EndsForAReason.

`SessionRunnerProofs`, from `GameAssumption` (the game's functions are total on their types):

* `RunnerTypes`: TypeOK is inductive.
* `RunsPlayInTurns`: Runner.Run implements GameTurns: `ApplyAction` is a `Move` by the player in turn,
  a good end is `End`, every other return `Abandon`, all else stutters. It needs `TurnInv`: `step` is the number of moves (one less while
  the last one is being written), no one is prompted when the game is over, and the update shows the current state and the player on turn.
* `AppliedMovesAreChecked`: MovesAreChecked, from `CheckInv`: an action that awaits validation has an actor, and one that is about
  to be applied was found valid in the current state or is the fallback of the player it was asked of.
* `LogsReplay`: LogReplays and LogIsComplete, from `LogInv`: the log is as long as `step`, its last
  snapshot is the current state or, while an entry is pending, the state the move started from.
* `RunsEndWell`: EndsWell, from `EndInv`: while a run goes on it has named no winner and closed no log, both are done where it finds the
  game over, and nothing changes after a return. A winner may stay named when the last entry could not be written; that is all an error can leave.
* `CancelledRunsStop`: OneMoveAfterCancel, from `CancelInv`: a move that was applied after the cancellation leaves the
  loop on its way back to its look at the context.

`TimedTurnsProofs`, for any number of calls:

* `TurnTypes`: TypeOK is inductive.
* `AnswersAreUsedOnce`: AnsweredOnce, from `TurnsInv`: an update that was sent is with the client or its answer on the
  stream or with one receiver, never in two of these places, and the i-th call returns the fallback or what its own receiver got.

`PendingSessionProofs`:

* `PendingTypes`: TypeOK is inductive.
* `AdaptersInOnePlace`: AdapterInOnePlace, from `PlaceInv`, which follows each stream from its handler into the
  channel of its own player and on to the collector, and says for whom the collector waits.
* `SessionsRunOnce`: the action property RunsOnce.

`ServerShutdownProofs`:

* `ShutdownTypes`: TypeOK is inductive.
* `TableStaysLive`, `DrainsReachAll`: TableIsLive and DrainReachesAll, from `ShutdownInv`: a handler of an id of its own is in
  the table exactly between Register and Cleanup, and what ran at the copy is with the drainer, cancelled or past its run.

`ReplayLogProofs`, from `ReplayAssumption`, for logs of any length. `ReplayInv` has two halves:

* `LogInv` follows the text through the buffer and the compressor into the file. Read one after the
  other, the file, the compressor and the buffer hold consecutive pieces of it, so the k-th piece of text in the file is the k-th of the
  log: a file that was cut has less of it, never something else. The place of a piece in the whole log (`At`) takes the
  place of a concatenation of the three sequences, so a step that moves text only has to regroup numbers.
* `ServeInv` follows the reader: it stands behind the last entry it sent, or at that entry's newline if this was not in the
  file yet; what was sent is the entries 1, 2, ... of the file; a regular end of a compressed log was reported only at its trailer.
* `ReplaysArePrefixes` and `EndsAreRight` follow: SentIsPrefix and EndIsRight.

`ClientProofs`:

* from `ConfigAssumption`, `CancelsAreEffective` and `RetriesStayBounded`, by `ClientInv`: an
  attempt that was answered has removed the then oldest entry or found none, so once one has been, the entry that was oldest
  at the call is gone; every error but the last attempt's was transient (`ErrsOK`), and the waits end with one that is not above the next,
  since a wait times the factor, rounded down, is not less than the wait if the factor is not below one (`ScaledFacts`).
* from `ClientAssumption`, for games of any length, `UpdatesAreAnsweredOnce` and `ResolvedRunsAreOver`, by `BotInv`: an update is on its way, with the
  bot, in the queue or answered, and everything in one of these places is younger than what is in the places after it, except that a
  TypeScript bot answers what it thinks about in any order.

`LibraryProofs`, one part after the other:

* from `BatchAssumption`, `BatchTypes` and `JobsInOnePlace`: a config is in the channel, with one worker, or done (`JobInOnePlace`); from `BatchInv`:
  the channel holds the configs that follow those taken, and no worker leaves before it is empty.
* `BatchMapsConfigs`: BatchRunner implements BatchMap. Storing a result is a `Complete`, since the place of a
  config that a worker holds is empty; when the counter is zero all workers have left, the channel is empty and every place is
  filled.
* `CancelledBatchesStop`: a worker begins at most one session after the cancellation (`OneSessionAfterCancel`).
* `SpectatorsStaySafe`, from `SpectatorsInv`: only under the lock is anything offered, and only to
  registered channels; what a spectator has of a session is older than what is still being offered to it.
* `EntriesAreShownInOrder`, from `PlayerInv`: as long as there is one chain of ticks its timer is the one remembered
  and set for the next entry, and there is none while an entry is shown. That there is an id for every new timer is a fact
  about cardinalities, and needs that a timer that fired has made room (`TimersInv`). `OutsideStopIsImmediate`, from the same:
  after a `stop()` that was not called by onEntry the player begins no callback until the next call, whatever was pending. Of one called by
  onEntry it says nothing: there the code plays on.
* `OccupancyIsFaithful`: MapIsFaithful, from `GridInv`, in which each position's cell holds what should be at the position.
  It rests on the index being injective (`IndexIsInjective`, from the uniqueness of quotient and remainder), and on what the
  filtering loop keeps and in which order (`KeptFacts`).
* `DistancesAreMoves`: DistancesCountMoves, which follows from the type invariant alone. The neighbour lists are the cells at distance one, each
  once (`RookMoves`, `KingMoves`); of a cell away from the centre some neighbour is nearer by one (`RookIsNearer`, `KingIsNearer`), and no move
  gains more (`Triangles`). So the balls satisfy the recursion that defines what n moves reach, and that has one
  solution (`RookReach`, `KingReach`).
* from `CardsAssumption`, `ShuffleIsFair`: ShuffleIsUnbiased. A run of the loop moves places (`ShuffledIs`) and keeps them a permutation
  (`RunKeepsOrder`); a place that had its round keeps its card, so the card it ends with names the draw (`DrawSettles`). Hence different draws end
  differently (`DrawsDiffer`); and each permutation is reached, drawing in each round the place of the card wanted (`OrderIsReached`), which
  cannot be a place that had its round.
* `DealsAreFair`: CardsAreDealt. A card's copies add up over concatenations, splits and permutations (`CopiesConcat`, `CopiesSplit`,
  `CopiesReordered`) and over the hands (`HandChanges`); after m cards of DealTo the k-th hand has had as many as quotient and remainder
  of m say (`HadSteps`, `DealtInTurn`).

What each module's type invariant says is proved where there is a proof; `NoGhostAfterOk`, `LogIsComplete`,
`JobInOnePlace` and `OneSessionAfterCancel` are proved and not also run.

Induction over data: the library's induction theorems take an operator as parameter, which the provers cannot instantiate.
Where a proof needs induction over a loop it is done by the least counterexample (`LeastNumber`, from the library's theorem
on minimal elements), and that the recursive function of a loop exists at all is a lemma too (`RoundsExist`). `Upward`, `Downward` and
`LoopRuns` say it once for the loops of `Cards`.

Only model-checked: everything under fairness (TLAPS does not treat ENABLED).

## Order of work

Modelled in this order: `Lobby`, `SessionRunner` over `GameTurns`, `TimedTurns`, `PendingSession`; then
`ServerShutdown`, `ReplayLog`, `BatchRunner` over `BatchMap`, `PlayClient`, `GoClient`, and the toolkit. Then the proofs, in the order of
the table. Left: a composition of several lobbies' clients with the sessions
they go on to, which share no state but the player's id.

## Not modelled

* Authentication, TLS, logging, panic recovery and the server's interceptors: a check or a wrapper around
  one call, with no state of their own.
* Command line tools, examples, the no-op game: sequential programs around the parts above. The generated
  protocol code: message formats.
* GRPCPlayerAdapter, which forwards one call of a runner to a stream; ForfeitAdapter and markDisconnected, which
  nothing calls.
* `fromJsonLines` and `fetchGlog` of the web client: parsing. (They read top-level fields, while the lines of a log
  are envelopes of `type` and `entry`.)
* MaskFor, which hides cards from other players in a copy; the Euclidean distances, which are floating point.
* Payloads: opaque to the engine, so a member of a small set here; timestamps, since nothing depends
  on them.
