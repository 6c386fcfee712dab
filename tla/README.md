# Fam100 in TLA+

Fam100 is a Telegram bot that plays a family quiz in group chats. Players gather
with `/join`; when a quorum is there, a game of several rounds starts. A round
asks a question with several answers, each worth points; whoever first writes an
answer in the chat gets its points. A round ends when every answer was given or
its time is up; a ranking follows every round.

These modules model the parts in which goroutines, processes and programs meet:
the game, the lobby around it, the way of a message from Telegram to the bot over
restarts, and the export of the scores the bot keeps adding to. TLC checks them
on small instances, and TLAPS proves the properties that matter most for every
value of the constants.

## 1. Inventory

| component | source | state it keeps | operations |
|---|---|---|---|
| game | `game.go`, `round.go` | `Game.State`, `rank`, `players`, `totalRoundPlayed`, `currentRound`; per round `correct`, `highlight`, `state` and three timers | `NewGame`, `Start` (one goroutine: `startRound`, `handleMessage`, `showAnswer`, `updateRanking`), `round.answer`, `round.ranking`, `round.finished` |
| rank arithmetic | `model/score.go` | none | `Rank.Add`, `Rank.Subtract`, order by score |
| lobby | `cmd/telegram/bot.go`, `cmdJoin` | `b.channels`; per channel `quorumPlayer`, `players`, `cancelTimer`, `cancelNotifyTimer`; `timeoutChan`, `finishedChan`, `gameOut` | `handleInbox`, `cmdJoin`, `startQuorumTimer`, `startQuorumNotifyTimer`, `handleOutbox`, `handleChannelMigration` |
| other commands | `cmd/telegram/commands.go` | `lastCmdRequest`; per `/broadcast` a goroutine with its list of channels | `/score`, `/help`, `/say`, `/channels`, `/broadcast`, `rateLimited` |
| questions | `qna/text.go`, `qna/question.go` | the list of questions | `NewText`, `scanQuestionRaw`, `NextQuestion`, `CheckAnswer` |
| store | `repo/redis.go` | counters, names, two sorted sets of scores, configuration | `NextGame`, `IncRoundPlayed`, `SaveScore`, rankings, statistics |
| score export | `cmd/scoreexport/main.go` | a file per chat: a total and a rank per week | add the store's ranking to its week, and delete it from the store with `-reset` |
| Telegram client | vendored `yulrizka/bot` | `lastUpdate`, its queues | polling, sending with retries, `ToMigratedMessage` |
| process | `cmd/telegram/main.go` | `startedAt`, the default question limit | start, end by a signal or a crash |
| metrics, memory store | `metrics.go`, `memory.go` | – | counters, a stub for tests |

**How they interact.** The client puts messages on the channel that `handleInbox`
reads. `handleInbox` is one goroutine; it alone owns `b.channels`. `/join` makes
a game and, per lobby, a quorum timer and a notify timer, each a goroutine of
its own; the quorum timer reports on `timeoutChan`. Other chat messages go into
the game's `In` with a blocking send. Every game runs in its own goroutine,
reads `In`, writes to the one `gameOut` all games share, and calls the store.
`handleOutbox` drains `gameOut`, formats texts, and passes the `Finished` message
of a game back to `handleInbox` on `finishedChan`, which frees the chat. Nothing
of this outlives the process: the next one asks Telegram from the first update
that was not confirmed and tells by `startedAt` which messages are not for it. The
export is a program of its own that reads and deletes the ranking games save to.

**What is hard.** `select` picks at random among ready cases, so a timer may win
over its cancel, and an answer over the time limit; messages wait in queues
while the state they are about moves on; sends block or drop; store calls fail
with a log line only; group chats change their ID under a running game; the
process may end between any two steps, and the export in the middle of a file.
`PROJECT.json` lists each such place with its line under `hazards`.

**What makes each component correct.**

- *game*: every answer is paid to the first who gives it, once, whichever way the
  round ends; the announced rank is the sum of what was paid; the store holds the
  same; a full board ends the round at once; players see every answer; the chat
  hears started – question – end – rank – … – finished without a gap; a
  started game finishes.
- *lobby*: a game starts with its quorum and never without; no lobby is left
  without a live timer, none has two; a started game is not cancelled; a
  finished game frees its chat; chat messages go to started games only; a game
  follows its chat to a new ID.
- *questions*: the chosen question is one of the file's; a text names one answer
  and the answer's own score.
- *store*: what games of all chats add up to; two games of a chat do not ask the
  same question until all were asked.
- *ranks*: positions follow scores; `Subtract` inverts `Add`.
- *inbox and commands*: over restarts no message is handled twice or out of order, a
  running process skips none and handles each in the end; scores keep their
  distance; a broadcast reaches each channel once.
- *export*: every point is exported once, whenever the export runs or dies.
- *client*: a message is sent at most as often as it was queued; order per chat.

## 2. Modules

| module | what it is |
|---|---|
| `Scoring` | pure operators: board, `round.finished`, `round.ranking`, `Rank.Add` |
| `ScoringProofs` | TLAPS proofs about the sums of `Scoring` |
| `Qna` | pure operators: a line of the questions file, `CheckAnswer`, whose turn it is |
| `GameContract` | what a game promises a chat, without queues, timers or store |
| `Game` | the goroutine of a game, its channels, tickers and store calls; the refinement of `GameContract` |
| `GameLife` | all that the bot relies on when it starts a game |
| `GameProofs` | TLAPS proofs about `Game` |
| `Lobby` | `handleInbox`, `/join`, timers, `handleOutbox`, migration; a game is reduced to what the bot sees of it |
| `LobbyProofs` | TLAPS proofs about `Lobby` |
| `QuestionCycle` | `Lobby` composed with the question counter: the games a chat plays one after the other or side by side |
| `CycleProofs` | TLAPS proofs about `QuestionCycle` |
| `Inbox` | client, `handleInbox`, `/score` and `/broadcast`, over restarts of the process |
| `InboxProofs` | TLAPS proofs about `Inbox` |
| `Questions` | one line of the questions file, read and then answered |
| `QuestionsProofs` | TLAPS proofs about `Questions` |
| `FinalScore` | the store calls behind the total score of a game's last message |
| `FinalScoreProofs` | TLAPS proofs about `FinalScore` |
| `Export` | the score export, beside games that save and the end of a game (`FinalScore`) |
| `ExportProofs` | TLAPS proofs about `Export` |
| `MC*` | instances for TLC |

`Game` extends `Scoring` and `Qna`; `QuestionCycle` extends `Lobby` and `Qna`;
`Export` extends `FinalScore` and `Scoring`. `Game` instantiates `GameContract`
(mapping `Stage`, `RoundAsked`) and `GameLife` (mapping `Lived`, `Told`), and
`Lobby` instantiates `GameLife` once for each of its games.

`GameLife` is what ties `Lobby` to `Game`. `Lobby` knows of a game only that it
starts, reads `In`, ends and says so. That it knows no more than `Game` delivers is
`LivesAsTheLobbySees` on the one side (`Game` implements `GameLife`) and
`GamesLive` on the other (each game of `Lobby` takes steps of `GameLife` only), so
that the lobby's results hold with games as `Game` has them in its place.

### Game

`pc` is the statement the goroutine of `Start` stands at. A blocking send is an
action whose guard is that `Out` has room (`Send`); a send under
`select/default` (`SendOrDrop`) drops the message when `Out` is full. The places

    created -> sendStarted -> startRound -> sendQuestion -> select
    select -> sendWrong -> select
    select -> sendRoundFinished -> sendRank          (board complete)
    select -> sendTimeout -> sendBoard -> sendRank   (time up)
    sendRank -> delay -> startRound | sendFinished -> done

follow `game.go:148-272`. In `select` the enabled cases of the loop are actions:
`WrongAnswer`, `AlreadyAnswered`, `CorrectAnswer`, `LastAnswer` for a message in
`In` (each the whole of `handleMessage`, `round.answer` and what `startRound`
does with the result, the save included), `TimeLeftTick`, `DisplayTick`,
`TimeUp` for the timers. A ticker's channel holds one tick, as in Go. Time is a
number of ticks since the round's timers were made; it passes while the
goroutine is blocked, too. The environment is the bot: `Answer` puts a message
on `In` in any state but `created`, and so also after the last round.

`SaveScore` adds the round's points to the store; with `StoreFaults` any of its
piped commands may be lost, because `conn.Flush` reads no reply. The question is
`NextQuestion` of the channel's order, counter and limit. `credited`, `shown`,
`dropped`, `saveFailed`, `announced` and `heard` are history that properties
read and no guard does; `dropped` says that the last board of the round found `Out`
full, and a later one that goes out makes up for it.

The data that is left out: wording, names, question texts (a text is a model
value with the answer it names in each question), the order and positions of a
rank, metrics.

### Lobby

Channel objects are numbered as they are made, so that an object that was
dropped from `b.channels` and the one that took its place stay apart — the
hazards of this component are messages about the one that reach the other, as
`timeoutChan` and `finishedChan` carry chat IDs. `JoinNew`, `JoinMore` and
`JoinLast` are the three ways `cmdJoin` can go (a refused `/join` changes
nothing). `timers[c]` holds every quorum timer ever started for an object: each
is a goroutine that waits for its notice or its cancel (`TimerNotice`,
`TimerCancelled`; `select` may pick either when both are there), and after the
notice sends the timeout (`TimerExpires`). The notify timer is `NotifierFires`,
`NotifierDone`, `NotifierCancelled`. A chat message sets `sending`, and
`handleInbox` does nothing else until `TextDelivered`. A game is `GameReads`,
`GameFinishes`, `GameSendsFinished`; `OutboxForwards` is the `Finished` case of
`handleOutbox`. `Idle` is the state in which every goroutine waits for players;
any other state without a step is a deadlock, which every run checks.

`MigratedAs` says how the client delivers a migration. The vendored client
delivers a value, for which the type switch of `handleInbox` has no case;
`"pointer"` is the handler as its author meant it to run; the theorems about
`Lobby` that do not name `MigratedAs` hold for it, too.

### QuestionCycle and Questions

`QuestionCycle` constrains every step of `Lobby`: a step that makes a game sets
its count to `NextGame` of the chat's counter, and a game finishes only after
its last round. `startRound` is two steps, `StartRound`, which counts the round
here and in the store, and `Ask`; the process may end between them, as between
any others (`Crash`), which leaves the counter and nothing else. A timeout that
comes too late leaves a game running without its chat (finding 1), and the next
game of the chat then reads the counter while the first still counts on. `Ask` reads
the limit anew in every round, as `game.go:182` does: the chat's own (`ChatLimits`),
or the default where there is none, the read fails or the value is no number. The
default is the one of `-questionLimit`, or four fifths of the file if it was not given
(`LimitFlag`). A chat's own limit is a key of the store that no program of the
repository writes, and so one that may also change between rounds. What was asked is
recorded with the limit it was chosen under (`asked`), and `NoEarlyRepeat` is about
rounds that went round in the same cycle, whatever limits the rounds between had.

A line of the questions file is a sequence of fields in `Questions`; the texts
are model values, and `lower` says which text `CheckAnswer` looks up for each.
Splitting a line at `*`, `:` and `/` is left out. What `Qna` makes of lines
as `questions.txt` has them is what `Game` assumes of a question
(`OrderAssumption`).

### Inbox

An update is known by its ID, its place in `sent`. `Poll` is a request that is
answered: Telegram forgets what lies below the offset, `lastUpdate + 1`, and
answers with the rest, a batch at most; `PollFails` is one whose answer is lost,
after Telegram has forgotten. `Receive` sets `lastUpdate` and puts the message into
the inbox, which blocks the client when it is full; `PassOver` is an update
without a message, for which the client does not move `lastUpdate`. `handleInbox`
is `Ignore` for a message from before `startedAt`, or one action per way of the
command: `Broadcast`, `Rest` for whatever `Lobby` models or changes nothing, and the
steps of `/score`. `cmdScore` calls the store twice and sends to `b.out`, any of which
may block, so it is one step up to each call and one from it on: `TakeScore` asks for
the group's configuration; `ScoreDisabled`, `ScoreLimited` or `Score` is what follows
its answer, `Score` being where the time is looked at and the request counted; and
`PostScore` or `ScoreFails` is what follows the ranking, at whatever time it comes.
`serving` says which call `handleInbox` waits in; until it is back, nothing else is
taken from the inbox. Every broadcast is a goroutine (`Cast`).
`Exit` takes all of it away, `Start` begins anew with a later `startedAt`.

Telegram dates messages in whole seconds and `startedAt` is exact; time therefore
runs in ticks of which a second has several, and that a message of the second of
the start is ignored, whether it came before or after, is part of the model. The clocks of
Telegram and of the bot are assumed to agree. A new process starts later than the
last one ended.

### FinalScore and Export

`FinalScore` has one step per command to the store; `PlayerChannelScore` is two,
`ReadScore` and `ReadPlace`. `ChannelRanking` is modelled for limits above 1, which
all its callers in the bot use.

`Export` follows `main` of the export for one chat: `StartExport` reads the file and
takes the week out of its total, `Fetch` reads the ranking, `Open` truncates the
file, `Write` writes it, `Reset` is the `DEL`, and `Die` ends it before any of
these. `WriteTorn` is an `Encode` that fails: the error is dropped and the `DEL`
follows. `amiss` records the three ways in which the export itself, at any time it is
run without a fault, loses or repeats points; what else happens, it makes good.

## 3. What is checked

| run | states | what it shows |
|---|---|---|
| `game_safety` | 4 550 229 | Two players, two rounds, queues of two, four messages; a question with no answers, one with two and one with aliases whose texts also answer the other. The store loses any subset of a save, `IncRoundPlayed` fails, the provider has no question, the limit is -1, 1 or too large, the chat has played before, wrong answers are answered. Types; every answer paid once (`CreditsKept`); store and rank agree, and the store is never ahead; no wait on a full board; what is new to the players is what no board showed (`NewUntilShown`, `ShownByTheEnd`); names are known; answers keep their owner; the chat hears everything in order (`HeardInOrder`); `GameContract` and `GameLife` are implemented. |
| `game_liveness` | 19 548 | Queues of one: a started game is heard to finish. |
| `lobby_safety` | 1 421 561 | Three players, quorum of three, two games of a chat, timers that may go off at any time after they start, an upgrade of the group. Also: every game lives as `GameLife` says. |
| `lobby_liveness` | 476 232 | Two players, quorum of two, timers of two steps with a notice in the middle: every lobby ends, every started game frees its chat. |
| `questions_plain` | 2 072 | Lines of up to three fields and an empty last one. |
| `cycle_safety` | 4 805 882 | Two games of two rounds, five questions, each round under the default limit of four or the chat's own of three, an `INCR` that may fail, late timeouts, a process that ends once at any point: of one cycle, no question comes back early. |
| `final_lists` | 4 933 362 | Four players, best two listed, a save of another game between any two commands, any command failing; the export in two weeks, any number of times, dying anywhere, with torn files: the list is complete, and every point is exported once (`Conserved`). |
| `inbox_restarts` | 835 651 | Two processes one after the other, three updates in three half seconds, batches of two, an inbox of one, a store and an outbox that take their time: order, nothing skipped, the distance of scores, one broadcast per channel; every message is handled and every broadcast ends. |

**Bounds.** Every property compares at most two players, two games of a chat, two
answers, two askings or two processes at a time, and the instances have at least
these. Two rounds are the least with a round that is not the last and one that is;
four messages fill both answers and leave two for a duplicate and a late one;
queues of one or two are full within a few steps, so every blocking send is met
while it blocks and every dropping send while it drops. A second game of a chat is
the one a stale timeout or a late `Finished` message can reach. Two games of two
rounds go once round a cycle of four and past the end of one of three. In
`cycle_safety` the group is not upgraded (`StaysGroup`, a constraint of the run):
`lobby_safety` and `lobby_migrated` have the upgrade, and the theorem does without the
constraint. Three updates are one more than a batch and
two more than the inbox takes; of three half seconds two are in one second, so that a
process may start between two messages of the same date. Two weeks are the least for points that move from one
week to another. The bounds are `MaxAnswers`, `MaxGames`, `MaxTexts`, `MaxSaves`,
`MaxUpdates`, `MaxTime`, `MaxRuns` and `MaxCrashes`; each bounds the environment
only, and none is a bound of a theorem. Symmetry over players or weeks is used in
safety runs, never with liveness. Deadlock is checked in every run but
`inbox_restarts`, where time and processes come to an end; `Terminated`, `Idle` and
`Ended` are the states in which the other systems rest.

**Fairness.** A goroutine runs when it can, time passes, and `handleOutbox`
drains its queue: weak fairness. `TimeUp` has strong fairness: `select` picks
uniformly among ready cases, so a timer that stays due across turns of the loop
is picked in the end although answers keep disabling it. Players are given no
fairness, and the notify timer needs none. `StartedGamesFreed` assumes an `In`
that has room for what players send in a game (10000 messages in the bot);
with less, `handleInbox` blocks for ever on a game that has finished, and with
it every chat. In `Inbox` the client's loop, `handleInbox` and each broadcast are
goroutines of their own with weak fairness; nothing makes the process start, end or
receive anything, and a request may fail any number of times, but not for ever.

### Where code and documents disagree

Each of these runs ends in a counterexample to a sentence of the code's own.

1. `lobby_timeout`: `// chan failed to get quorum` (`bot.go:170`). A timeout that
   is due or queued when the last player joins removes a game that has started;
   it plays on unheard, and its `Finished` message later frees whatever game has
   taken the chat.
2. `lobby_quorumwait`: "30s left" (`bot.go:335`). The list of notices is
   empty after the first, and an empty list means the time is over: the lobby
   ends at the notice, after 90 of its 120 s.
3. `lobby_migrated`: `handleChannelMigration` is never reached; the client
   delivers a value, the type switch expects a pointer.
4. `final_position`: the position of a player below the best three counts from 0,
   that of the best three from 1 (`redis.go:320`, `:279`).

More show in the model without a run of their own, as no sentence says otherwise.

- The notice that asks for "n more players" (`bot.go:357`) may be sent with n = 0
  after the game has started: the guard of `NotifierFires` knows nothing of the
  quorum.
- After an empty field of a line, `lookup` counts it and the list of answers does
  not, so that `PaysItsScore` fails and the last answer indexes past the list. An
  answer with a capital in the file is never found, as lowering the line
  (`text.go:92`) comes after it was split. `questions_plain` has lines without
  either, as `questions.txt` does.
- A failed read of the limit can repeat a question within one game
  (`game.go:182-187`): with a limit of 3 of the chat's own and a default of 8, turns 7
  and 8 are asked the questions of places 1 and 2, and turn 9, if the limit cannot be
  read, that of place 1 again. `NoEarlyRepeat` exempts rounds of different cycles.
- Two scores of a group may come closer than `cmdRateDelay`: the delay is looked at
  before the ranking is asked for and the text is put into `b.out`
  (`commands.go:112-126`). A request let through at 0 and answered at 20 s may be
  followed by one let through and answered at 30. What holds is `ScoresApart`: an
  answer comes at least the delay after the request for the one before was let
  through, and no three come within one delay, since `handleInbox` looks at no request
  while it answers another.
- A board that is dropped because `Out` is full takes the highlight with it
  (`game.go:332`). The next board shows the answer all the same, without highlighting
  it; if it was the last of the round, the answer stays hidden (`dropped`).
- A game past its last round reads no more; an `In` that players fill up then blocks
  `handleInbox` (`bot.go:162`), and with it every chat.
- A message of the second in which the process starts is ignored (`bot.go:81`).
- An answer full of updates without a message makes the client ask for the same
  again for ever (`Deaf`, the exception of `EventuallyHandled`).
- The export drops the error of `Encode` (`scoreexport/main.go:42`) and goes on to
  delete the ranking; a torn file is skipped by every later export.
- The three ways of `amiss`: a save between the export's reading and its `DEL`
  (`scoreexport/main.go:118`) is lost; a week exported again after a reset loses its
  first part; points that stay in the store and are exported under a second week
  count twice.

## 4. What is proved

All theorems hold for every value of the constants that the named `ASSUME`s
allow: any players, chats, questions, number of rounds, queue sizes, and with
all faults.

**Game** (`GameProofs`). `TypeCorrect` is inductive as it stands; it includes
that a game sleeps only before another round. `StoreKeepsUp`
(`StoreAgrees`) is inductive by itself: every step that changes the rank adds the
same to the store or records that the save failed. `NeverWaitsOnAFullBoard`
(`WaitsForAnAnswer`) is inductive with the types: only a new round and an
accepted answer touch a board that is open. `AnswersAreFirstCome` is an action property
that the types suffice for. `EveryAnswerIsShown` proves `NewUntilShown` and
`ShownByTheEnd` together, as neither is inductive without the other
(`NothingStaysHidden` is the second by itself); both are about rounds whose last board
was not dropped.
`RankedPlayersHaveNames` goes through the board: whoever is on it has sent a
message, and a rank is made of boards. `HeardInOrderAlways` needs an invariant of
the queue: the messages of the course of the game that lie in `Out`, with the one
heard last before them, follow one another, and the last of them is what the
goroutine's place says was said last (`InOrder`). `GameImplementsContract` and
`GameLivesAsTheLobbySees` map every action to a step of `GameContract` and
`GameLife` or to a stutter; their invariants are the types, and for the second that
nothing was told before the end.

`AnswersArePaidOnce` (`CreditsKept`) and `StoreStaysBehind` (`StoreNeverAhead`)
share the invariant `Accounts`: both ranks hold naturals, and both properties hold.
An answer adds the same to its sender's credit and to what the round's board is
worth to the sender (`AnswerPays`); the end of a round moves the board into the rank
(`RoundEndPays`), and of what is moved the store gets all, a part or nothing.

**Scoring** (`ScoringProofs`). What `round.ranking` adds up is a recursive function
on the subsets of the answers (`SumTable`), and an induction with a predicate as its
parameter is out of the provers' reach. Each statement about it is shown from the
least subset on which it fails, which exists since strict inclusion of finite sets is
well-founded (`LeastSubset`). In this way: the function exists and is unique; a sum
is a natural number; it does not depend on the order in which elements are taken
(`SumOverRemove`); the sum over two disjoint sets is the sum of the two sums.
`RoundPaysItsAnswers` is what follows for a round: what all players of its ranking
get is what the answered answers are worth.

**Lobby** (`LobbyProofs`). `TypeCorrect` includes that an object is registered
under the ID it holds only, which the migration handler has to keep.
`OneNotifier` and `OldTimersAreCancelled` are inductive with it.
`GamesStartWithAQuorum` rests on the cardinality of a set with one more player.
`TextsGoToStartedGames` needs it: `handleInbox` looks at the number of players,
and only the quorum ties that to the game's state. `FinishedGamesAreFreed` and
`LobbiesHaveTimers` are proved for `MigratedAs = "value"`, what the client
does: with migrations handled, a message that carries the old ID of a chat is
lost and both fail. For the timers the invariant is that the newest timer of a
lobby is not cancelled, and that one which has exited left its timeout in
`timeoutChan`; the hard case is a timeout of an earlier game of the chat at the
head of the queue, which takes the chat off the table as well.
`GamesLiveAsGamesDo` shows that every step of the lobby is a step of `GameLife` for
each of its games, for any number of them.

**QuestionCycle** (`CycleProofs`). `QuestionsComeBackLate` is `NoEarlyRepeat` for
any number of questions, rounds, games, chats and crashes, with the same
assumption about migrations. A chat is good while no round of it went uncounted and
none of its running games was taken off the table; in a good chat the only game
that runs is the one registered for it (`OnTable`). The invariant keeps four counts
together (`Turns`): a game's own askings are one turn apart (`OwnTurns`); any two
askings of a good chat are at least one and at most as many turns apart as askings,
games and crashes lie between them (`Pairs`); the store's counter is as far from
each asking (`StoreTurns`), and so is the count of the registered game
(`GameTurns`). All four are about turns and hold whatever limits the rounds read. The last two are what carries the distance over a new game, which
reads the counter, and over a crash, which leaves only it. That turns less than a
cycle apart have different questions in that cycle is arithmetic (`OtherTurn`).

**Questions** (`QuestionsProofs`). `PlainLinesPay` (`PaysItsScore`) has the hypothesis
`PlainLines`: an empty field stands at the end of a line only, and no answer has
capitals or blanks at its ends. All lines of `questions.txt` are like that, and
section 3 says what happens to others. The loop that drops empty fields is a recursive
function; for a plain line the table of its prefixes is one such function, and
two of them cannot differ, as there would be a first place where they do
(`LoopsAgree`, `AnswersOfPlain`). A text that stands in several answers is worth the
last of them, for the index and for the score.

**Inbox** (`InboxProofs`). `MessagesAreHandledInOrder` and `RunningProcessSkipsNothing`
rest on `Delivery`: dates grow with the IDs; what is on the way lies behind what the
process has handled; what an earlier process handled or confirmed is older than the
start. The last is where the whole seconds matter: a date is cut down, so that a
message handled before the end is never dated after a later start.
`ScoresStayApart` and `BroadcastsReachOnce` share `Commands`. Its part `Requests`
says that `lastCmdRequest` holds, for each of a process's scores, a request that is
not older than the one they answer; `InProgress`, that whoever is being
served was let through after every score there is was put out, and the delay
after the requests for them. `Casting` is that an update whose broadcast
runs was handled, and so, by the order, is not handled again. `TypeCorrect` follows from the two
invariants.

**FinalScore** (`FinalScoreProofs`). That the order of the store is one is proved
first: who is above whom is total and transitive, no two players have the same number of
players above them, and so every place is taken by exactly one of them
(`OrderedPlaces`). `FinalListIsComplete` (`ListsTheGame`) then follows from `ListOK`:
nobody is on the list twice; whoever of the game is on neither the list nor `failed`
is still to be looked up; of the others there are at most as many as `ChannelRanking`
gave. The case the invariant has to be made for is `ReadPlaceFails`, which takes the
last entry off again: it is a player of the game whose score was read and never one
of the best, as long as nobody has saved. Sorting may end in any order of equal
scores and only exchanges entries.

**Export** (`ExportProofs`). `PointsAreConserved` strengthens `Conserved` to files
that are about to be written (`Balanced`) and adds what the export has in hand at
each place (`InHand`): the total less the week, and a ranking that is at most what
the store holds now; and that the points the file has of the store under a week are
at most what the store holds.

The list of the total score is proved beside the export as well
(`ListSurvivesTheExport`): of the export's steps only the `DEL` touches what
`handleOutbox` reads, and it empties the ranking.

**Only model-checked.** Liveness (`StartedGameFinishes`, `LobbyResolved`,
`StartedGamesFreed`, `EventuallyHandled`, `BroadcastsEnd`) and deadlock, which are
out of the prover's reach. Every invariant and every action property that a passing
run checks is stated by a theorem.

## 5. Not modelled

- The maps `players` and `quorumPlayer`, which the notify goroutine reads while
  `/join` writes them, are read and written in one step each; that the Go runtime may
  end the program there is a case of `Crash`.
- Text formatting, metrics, flags, logging, the memory store (a stub), `/say` and
  `/channels`, which only answer the administrator, `/help`, whose handler is called by
  nobody, and the rankings of the store that no program reads.
- The positions `Rank.Add` writes into a game's rank; only points are modelled.
- The score export does not compile against the packages as they are (`Rank` and
  `DefaultDB` have moved); it is modelled with the ones they have become.
- Of the vendored client its outbox: texts that wait, are retried or discarded.
  `handleOutbox` is never blocked by it in the models, and what a full `b.out` would
  do to the games is not examined.
- Telegram delivering an update twice within one process: the offset excludes it.

## 6. Plan

Done, in this order: `Scoring`, `GameContract`, `Game`, its proofs; `Lobby`, its
proofs; `Qna`, `Questions`, `QuestionCycle`, `FinalScore`; `GameLife`, which joins
`Game` and `Lobby`; `Export` and `Inbox` with their proofs; crashes in
`QuestionCycle`, and its proof; the sums behind a game's accounts, the
lines of the questions file and the order of the total score, with which every
invariant and action property of the runs is proved.

Open, the most important first:

1. `Outbox`: the client's queue of texts, with retries, `DiscardAfter` and
   rate limits: order per chat, nothing sent twice but by a retry, and what a
   full `b.out` does to `handleOutbox` and so to every game. It is third-party code.
2. The order and positions of a rank after `Rank.Add`.
