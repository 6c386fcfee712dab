-------------------------------- MODULE Lobby --------------------------------
(***************************************************************************)
(* How the Telegram bot gathers players and runs games: the goroutine      *)
(* handleInbox with its table of channels (bot.go, cmdJoin of commands.go),*)
(* the goroutines of the quorum timers, handleOutbox, and what happens     *)
(* between them over timeoutChan, finishedChan and the games' channels.    *)
(*                                                                         *)
(* The table b.channels goes from chat IDs to channel objects.  A channel  *)
(* object and its game are a number here, in the order they were made, so  *)
(* that an object that was dropped from the table and the one that took    *)
(* its place stay apart.  A game is reduced to what the bot sees of it     *)
(* (Game.tla has the rest): it reads In while it runs and sends Finished   *)
(* when it ends.  Time passes in steps of the 30 s of the last notice.     *)
(***************************************************************************)
EXTENDS Integers, Sequences, FiniteSets

CONSTANTS
  Player,       \* the users of the chats
  Group,        \* chat IDs
  Supergroup,   \* the ID each of them gets when it is upgraded
  MinQuorum,    \* minQuorum
  QuorumWait,   \* quorumWait, in steps of the notice
  Notice,       \* the time left at the one notice, in the same steps
  InCap,        \* buffer of a game's In
  GameOutCap,   \* buffer of gameOut
  TimeoutCap, FinishedCap,  \* buffers of timeoutChan and finishedChan
  MigratedAs,   \* "value" or "pointer": how the client hands over a migration
  MaxGames,     \* bound on the channel objects made in a run
  MaxTexts      \* bound on the chat messages that go to games

Chat == Group \cup {Supergroup[g] : g \in Group}
NoGame == 0
Games == 1..MaxGames

ASSUME ChatAssumption ==
  /\ Group # {}
  /\ \A g \in Group : Supergroup[g] \notin Group
  /\ \A g, h \in Group : Supergroup[g] = Supergroup[h] => g = h
ASSUME QuorumAssumption ==
  /\ MinQuorum \in Nat \ {0}
  /\ QuorumWait \in Nat /\ Notice \in 0..QuorumWait
  /\ IsFiniteSet(Player)
ASSUME BufferAssumption ==
  /\ InCap \in Nat /\ MaxTexts \in Nat /\ MaxGames \in Nat
  /\ GameOutCap \in Nat \ {0} /\ TimeoutCap \in Nat \ {0}
  /\ FinishedCap \in Nat \ {0}
ASSUME MigratedAssumption == MigratedAs \in {"value", "pointer"}

VARIABLES
  channels,      \* b.channels: chat ID to channel object, or NoGame
  chat,          \* the ID a channel object and its game hold
  state,         \* the game's State; "none" before it is made, "done" once it
                 \* has sent Finished
  quorumPlayer,  \* who has joined
  timers,        \* the quorum timers started for the object, oldest first
  notifier,      \* its quorum notify timer
  cancelNotify,  \* cancelNotifyTimer: "nil", "held" or, once called, "called"
  inQueue,       \* messages waiting in the game's In
  sending,       \* the game whose In handleInbox is sending to, or NoGame
  gameOut,       \* the Finished messages in gameOut, as chat IDs
  timeoutChan, finishedChan,
  upgraded,      \* groups that have become supergroups
  made, texts    \* bounds on the environment

inbox == <<channels, sending, made, texts>>
lobby == <<chat, quorumPlayer, timers, notifier, cancelNotify>>
game == <<state, inQueue>>
queues == <<gameOut, timeoutChan, finishedChan>>
vars == <<inbox, lobby, game, queues, upgraded>>

\* A quorum timer: where its goroutine is, how long it has run, and whether its
\* context was cancelled.
Timer == [stage : {"waiting", "expire", "exited"}, elapsed : 0..QuorumWait,
          cancelled : BOOLEAN]

Init ==
  /\ channels = [ch \in Chat |-> NoGame] /\ sending = NoGame
  /\ chat = [c \in Games |-> CHOOSE ch \in Chat : TRUE]
  /\ state = [c \in Games |-> "none"]
  /\ quorumPlayer = [c \in Games |-> {}]
  /\ timers = [c \in Games |-> <<>>]
  /\ notifier = [c \in Games |-> "off"]
  /\ cancelNotify = [c \in Games |-> "nil"]
  /\ inQueue = [c \in Games |-> 0]
  /\ gameOut = <<>> /\ timeoutChan = <<>> /\ finishedChan = <<>>
  /\ upgraded = {} /\ made = 0 /\ texts = 0

-----------------------------------------------------------------------------
(* Timers *)

FreshTimer == [stage |-> "waiting", elapsed |-> 0, cancelled |-> FALSE]

\* Faulty: a timer once started is not started again.
StartedOnce(ts) == IF ts = <<>> THEN <<FreshTimer>> ELSE ts

\* startQuorumTimer: one more goroutine, whose cancel function the object holds.
Started(ts) == Append(ts, FreshTimer)

\* Faulty: the object holds on to the cancel function of its first timer.
CancelledFirst(ts) == [ts EXCEPT ![1].cancelled = TRUE]

\* c.cancelTimer: it reaches the timer started last.
Cancelled(ts) == [ts EXCEPT ![Len(ts)].cancelled = TRUE]

\* The timer c.cancelTimer would cancel.
Current(c) == timers[c][Len(timers[c])]

-----------------------------------------------------------------------------
(* handleInbox: /join *)

\* The IDs chat messages come from: a group's until it is upgraded, then its
\* supergroup's.
Live(ch) == IF ch \in Group THEN ch \notin upgraded
            ELSE \E g \in upgraded : Supergroup[g] = ch

\* handleInbox can take its next message.
InboxReady == sending = NoGame

\* Faulty: the object is made without its ID.
JoinNewUnnamed(ch, p) ==
  LET c == made + 1 IN
  /\ InboxReady /\ Live(ch)
  /\ channels[ch] = NoGame /\ c \in Games
  /\ made' = c
  /\ channels' = [channels EXCEPT ![ch] = c]
  /\ quorumPlayer' = [quorumPlayer EXCEPT ![c] = {p}]
  /\ state' = [state EXCEPT ![c] = "created"]
  /\ timers' = [timers EXCEPT ![c] = Started(@)]
  /\ notifier' = [notifier EXCEPT ![c] = "waiting"]
  /\ cancelNotify' = [cancelNotify EXCEPT ![c] = "held"]
  /\ UNCHANGED <<chat, sending, texts, inQueue, queues, upgraded>>

\* cmdJoin for a chat without a game, by its first player.
JoinNew(ch, p) ==
  LET c == made + 1 IN
  /\ InboxReady /\ Live(ch)
  /\ channels[ch] = NoGame /\ c \in Games
  /\ made' = c
  /\ channels' = [channels EXCEPT ![ch] = c]
  /\ chat' = [chat EXCEPT ![c] = ch]
  /\ quorumPlayer' = [quorumPlayer EXCEPT ![c] = {p}]
  /\ IF MinQuorum = 1
       THEN /\ state' = [state EXCEPT ![c] = "started"]
            /\ UNCHANGED <<timers, notifier, cancelNotify>>
       ELSE /\ state' = [state EXCEPT ![c] = "created"]
            /\ timers' = [timers EXCEPT ![c] = Started(@)]
            /\ notifier' = [notifier EXCEPT ![c] = "waiting"]
            /\ cancelNotify' = [cancelNotify EXCEPT ![c] = "held"]
  /\ UNCHANGED <<sending, texts, inQueue, queues, upgraded>>

\* Faulty: looks neither at the game's State nor at who has joined.
JoinsAnyTime(c, p) ==
  /\ InboxReady
  /\ c # NoGame
  /\ quorumPlayer' = [quorumPlayer EXCEPT ![c] = @ \cup {p}]
  /\ UNCHANGED <<inbox, chat, inQueue, queues, upgraded>>

\* The player is new to a game that still gathers players.
Joins(c, p) ==
  /\ InboxReady
  /\ c # NoGame /\ state[c] = "created" /\ p \notin quorumPlayer[c]
  /\ quorumPlayer' = [quorumPlayer EXCEPT ![c] = @ \cup {p}]
  /\ UNCHANGED <<inbox, chat, inQueue, queues, upgraded>>

\* Faulty: /join does not notice that the quorum is complete.
JoinMoreUnchecked(ch, p) ==
  LET c == channels[ch] IN
  /\ Live(ch) /\ Joins(c, p)
  /\ timers' = [timers EXCEPT ![c] = Started(Cancelled(@))]
  /\ UNCHANGED <<notifier, cancelNotify, state>>

\* cmdJoin by a player who is not the last one needed: the quorum timer starts
\* over, the notify timer only if the last one has fired.
JoinMore(ch, p) ==
  LET c == channels[ch] IN
  /\ Live(ch) /\ Joins(c, p)
  /\ Cardinality(quorumPlayer'[c]) # MinQuorum
  /\ timers' = [timers EXCEPT ![c] = Started(Cancelled(@))]
  /\ IF cancelNotify[c] = "nil"
       THEN /\ notifier' = [notifier EXCEPT ![c] = "waiting"]
            /\ cancelNotify' = [cancelNotify EXCEPT ![c] = "held"]
       ELSE UNCHANGED <<notifier, cancelNotify>>
  /\ UNCHANGED state

\* cmdJoin by the last player needed: the timers are cancelled and the game starts.
JoinLast(ch, p) ==
  LET c == channels[ch] IN
  /\ Live(ch) /\ Joins(c, p)
  /\ Cardinality(quorumPlayer'[c]) = MinQuorum
  /\ timers' = [timers EXCEPT ![c] = Cancelled(@)]
  /\ cancelNotify' = [cancelNotify EXCEPT ![c] = IF @ = "nil" THEN @ ELSE "called"]
  /\ state' = [state EXCEPT ![c] = "started"]
  /\ UNCHANGED notifier

-----------------------------------------------------------------------------
(* handleInbox: everything else *)

\* Faulty: messages go to the chat's game whether or not its quorum is complete.
TextUnchecked(ch) ==
  LET c == channels[ch] IN
  /\ InboxReady /\ Live(ch) /\ texts < MaxTexts
  /\ c # NoGame
  /\ sending' = c
  /\ texts' = texts + 1
  /\ UNCHANGED <<channels, made, lobby, game, queues, upgraded>>

\* A chat message that is no command goes to the chat's game, once its quorum
\* is complete.
Text(ch) ==
  LET c == channels[ch] IN
  /\ InboxReady /\ Live(ch) /\ texts < MaxTexts
  /\ c # NoGame
  /\ Cardinality(quorumPlayer[c]) >= MinQuorum
  /\ sending' = c
  /\ texts' = texts + 1
  /\ UNCHANGED <<channels, made, lobby, game, queues, upgraded>>

\* ch.game.In <- gameMsg goes through; until then handleInbox does nothing else.
TextDelivered ==
  /\ sending # NoGame
  /\ inQueue[sending] < InCap
  /\ inQueue' = [inQueue EXCEPT ![sending] = @ + 1]
  /\ sending' = NoGame
  /\ UNCHANGED <<channels, made, texts, lobby, state, queues, upgraded>>

\* Faulty: the timeout is announced, but the chat stays registered.
HandleTimeoutKeeps ==
  /\ InboxReady /\ timeoutChan # <<>>
  /\ timeoutChan' = Tail(timeoutChan)
  /\ UNCHANGED <<inbox, lobby, game, gameOut, finishedChan, upgraded>>

\* case chanID := <-timeoutChan
HandleTimeout ==
  /\ InboxReady /\ timeoutChan # <<>>
  /\ channels' = [channels EXCEPT ![Head(timeoutChan)] = NoGame]
  /\ timeoutChan' = Tail(timeoutChan)
  /\ UNCHANGED <<sending, made, texts, lobby, game, gameOut, finishedChan, upgraded>>

\* case chanID := <-finishedChan
HandleFinished ==
  /\ InboxReady /\ finishedChan # <<>>
  /\ channels' = [channels EXCEPT ![Head(finishedChan)] = NoGame]
  /\ finishedChan' = Tail(finishedChan)
  /\ UNCHANGED <<sending, made, texts, lobby, game, gameOut, timeoutChan, upgraded>>

\* handleChannelMigration: the channel object and its game take the new ID.
HandleChannelMigration(g) ==
  LET c == channels[g] IN
  IF c = NoGame
    THEN UNCHANGED <<channels, chat>>
    ELSE /\ chat' = [chat EXCEPT ![c] = Supergroup[g]]
         /\ channels' = [channels EXCEPT ![g] = NoGame, ![Supergroup[g]] = c]

\* A group is upgraded and the client reports it.  The type switch of
\* handleInbox has a case for a pointer only; a value falls through.
Upgrade(g) ==
  /\ InboxReady /\ g \notin upgraded
  /\ upgraded' = upgraded \cup {g}
  /\ IF MigratedAs = "pointer"
       THEN HandleChannelMigration(g)
       ELSE UNCHANGED <<channels, chat>>
  /\ UNCHANGED <<sending, made, texts, quorumPlayer, timers, notifier, cancelNotify,
                 game, queues>>

-----------------------------------------------------------------------------
(* The timer goroutines *)

\* 30 s pass for the quorum timers; the goroutine of a timer that was cancelled
\* gets to run before they are over.
Tick ==
  /\ \A c \in Games : \A k \in DOMAIN timers[c] :
       timers[c][k].stage = "waiting" => ~timers[c][k].cancelled
  /\ \E c \in Games : \E k \in DOMAIN timers[c] :
       timers[c][k].stage = "waiting" /\ timers[c][k].elapsed < QuorumWait
  /\ timers' = [c \in Games |-> [k \in DOMAIN timers[c] |->
       IF timers[c][k].stage = "waiting" /\ timers[c][k].elapsed < QuorumWait
         THEN [timers[c][k] EXCEPT !.elapsed = @ + 1]
         ELSE timers[c][k]]]
  /\ UNCHANGED <<inbox, chat, quorumPlayer, notifier, cancelNotify, game, queues,
                 upgraded>>

TimerStep(c, k, from, to) ==
  /\ timers[c][k].stage = from
  /\ timers' = [timers EXCEPT ![c][k].stage = to]
  /\ UNCHANGED <<inbox, chat, quorumPlayer, notifier, cancelNotify, game, gameOut,
                 finishedChan, upgraded>>

\* case <-ctx.Done()
TimerCancelled(c, k) ==
  /\ timers[c][k].cancelled
  /\ TimerStep(c, k, "waiting", "exited")
  /\ UNCHANGED timeoutChan

\* The notice is due.  If the timer was cancelled too, select may pick either.
TimerNotice(c, k) ==
  /\ timers[c][k].elapsed >= QuorumWait - Notice
  /\ TimerStep(c, k, "waiting", "expire")
  /\ UNCHANGED timeoutChan

\* timeoutChan <- c.ID: there is no notice left.
TimerExpires(c, k) ==
  /\ Len(timeoutChan) < TimeoutCap
  /\ TimerStep(c, k, "expire", "exited")
  /\ timeoutChan' = Append(timeoutChan, chat[c])

NotifierStep(c, from, to) ==
  /\ notifier[c] = from
  /\ notifier' = [notifier EXCEPT ![c] = to]
  /\ UNCHANGED <<inbox, chat, quorumPlayer, timers, game, queues, upgraded>>

NotifierCancelled(c) ==
  /\ cancelNotify[c] = "called"
  /\ NotifierStep(c, "waiting", "off")
  /\ UNCHANGED cancelNotify

\* Faulty: cancelNotifyTimer is cleared before the notice is sent.
NotifierFiresEarly(c) ==
  /\ NotifierStep(c, "waiting", "sending")
  /\ cancelNotify' = [cancelNotify EXCEPT ![c] = "nil"]

\* The 5 s are over: the notice counts the players and is sent.
NotifierFires(c) ==
  /\ NotifierStep(c, "waiting", "sending")
  /\ UNCHANGED cancelNotify

\* The notice is out, and c.cancelNotifyTimer = nil.
NotifierDone(c) ==
  /\ NotifierStep(c, "sending", "off")
  /\ cancelNotify' = [cancelNotify EXCEPT ![c] = "nil"]

-----------------------------------------------------------------------------
(* The games and handleOutbox *)

GameReads(c) ==
  /\ state[c] = "started" /\ inQueue[c] > 0
  /\ inQueue' = [inQueue EXCEPT ![c] = @ - 1]
  /\ UNCHANGED <<inbox, lobby, state, queues, upgraded>>

\* The last round is over; In is not read any more.
GameFinishes(c) ==
  /\ state[c] = "started"
  /\ state' = [state EXCEPT ![c] = "finished"]
  /\ UNCHANGED <<inbox, lobby, inQueue, queues, upgraded>>

\* g.Out <- StateMessage{ChanID: g.ChanID, State: Finished}
GameSendsFinished(c) ==
  /\ state[c] = "finished" /\ Len(gameOut) < GameOutCap
  /\ gameOut' = Append(gameOut, chat[c])
  /\ state' = [state EXCEPT ![c] = "done"]
  /\ UNCHANGED <<inbox, lobby, inQueue, timeoutChan, finishedChan, upgraded>>

\* Faulty: handleOutbox may go on to the next message without passing it on.
OutboxForwardsOrSkips ==
  /\ gameOut # <<>> /\ Len(finishedChan) < FinishedCap
  /\ finishedChan' \in {finishedChan, Append(finishedChan, Head(gameOut))}
  /\ gameOut' = Tail(gameOut)
  /\ UNCHANGED <<inbox, lobby, game, timeoutChan, upgraded>>

\* handleOutbox takes a Finished message and passes its channel on.
OutboxForwards ==
  /\ gameOut # <<>> /\ Len(finishedChan) < FinishedCap
  /\ finishedChan' = Append(finishedChan, Head(gameOut))
  /\ gameOut' = Tail(gameOut)
  /\ UNCHANGED <<inbox, lobby, game, timeoutChan, upgraded>>

\* Every goroutine waits for what players do next.
Idle ==
  /\ InboxReady
  /\ \A c \in Games :
       /\ state[c] \notin {"started", "finished"} /\ notifier[c] = "off"
       /\ \A k \in DOMAIN timers[c] : timers[c][k].stage = "exited"
  /\ gameOut = <<>> /\ timeoutChan = <<>> /\ finishedChan = <<>>
  /\ UNCHANGED vars

Next ==
  \/ \E ch \in Chat, p \in Player : JoinNew(ch, p) \/ JoinMore(ch, p) \/ JoinLast(ch, p)
  \/ \E ch \in Chat : Text(ch)
  \/ TextDelivered \/ HandleTimeout \/ HandleFinished
  \/ \E g \in Group : Upgrade(g)
  \/ Tick
  \/ \E c \in Games : \E k \in DOMAIN timers[c] :
       TimerCancelled(c, k) \/ TimerNotice(c, k) \/ TimerExpires(c, k)
  \/ \E c \in Games : NotifierCancelled(c) \/ NotifierFires(c) \/ NotifierDone(c)
  \/ \E c \in Games : GameReads(c) \/ GameFinishes(c) \/ GameSendsFinished(c)
  \/ OutboxForwards
  \/ Idle

Spec == Init /\ [][Next]_vars

\* Each goroutine runs whenever it can and time passes.  What players do, and
\* whether the notify timer is cancelled in time, is up to the environment.
Fairness ==
  /\ WF_vars(TextDelivered) /\ WF_vars(HandleTimeout) /\ WF_vars(HandleFinished)
  /\ WF_vars(Tick) /\ WF_vars(OutboxForwards)
  /\ \A c \in Games :
       /\ WF_vars(\E k \in DOMAIN timers[c] : TimerCancelled(c, k) \/ TimerNotice(c, k))
       /\ WF_vars(\E k \in DOMAIN timers[c] : TimerExpires(c, k))
       /\ WF_vars(GameReads(c)) /\ WF_vars(GameFinishes(c))
       /\ WF_vars(GameSendsFinished(c))

FairSpec == Spec /\ Fairness

-----------------------------------------------------------------------------
(* The life of each game *)

Life(c) == INSTANCE GameLife WITH
  life <- IF state[c] = "none" THEN "created" ELSE state[c],
  waiting <- inQueue[c],
  told <- state[c] = "done"

\* Every game the bot makes lives as GameLife says, which Game implements: no
\* message before its start, no start after its end, one Finished message.
GamesLive ==
  /\ \A c \in Games : Life(c)!Init
  /\ [][\A c \in Games : [Life(c)!Next]_(Life(c)!vars)]_vars

-----------------------------------------------------------------------------
(* Properties *)

\* The table of channels: an object is registered under the ID it holds, and
\* only objects that were made are.
TableOK ==
  /\ made \in 0..MaxGames /\ texts \in 0..MaxTexts
  /\ channels \in [Chat -> 0..made] /\ sending \in 0..made
  /\ chat \in [Games -> Chat]
  /\ \A ch \in Chat : channels[ch] # NoGame => chat[channels[ch]] = ch
  /\ state \in [Games -> {"none", "created", "started", "finished", "done"}]
  /\ \A c \in Games : state[c] = "none" <=> c > made
  /\ upgraded \subseteq Group

ObjectsOK ==
  /\ quorumPlayer \in [Games -> SUBSET Player]
  /\ notifier \in [Games -> {"off", "waiting", "sending"}]
  /\ cancelNotify \in [Games -> {"nil", "held", "called"}]
  /\ inQueue \in [Games -> Nat]

TimersOK == timers \in [Games -> Seq(Timer)]

QueuesOK ==
  /\ gameOut \in Seq(Chat) /\ timeoutChan \in Seq(Chat) /\ finishedChan \in Seq(Chat)

\* The type invariant.
TypeOK == TableOK /\ ObjectsOK /\ TimersOK /\ QueuesOK

In(ch, queue) == \E i \in DOMAIN queue : queue[i] = ch

\* A game starts with its last player and never without: as long as it gathers
\* players they are fewer than the quorum, and from then on exactly as many.
QuorumStartsGame ==
  \A c \in 1..made :
    IF state[c] = "created"
      THEN Cardinality(quorumPlayer[c]) < MinQuorum
      ELSE Cardinality(quorumPlayer[c]) = MinQuorum

\* No lobby waits for ever: a chat whose game still gathers players has a
\* quorum timer that nobody cancelled and that has not passed, or its timeout
\* is on its way.  Joins cancel and restart the timer, stale timeouts of other
\* games of the chat come and go, and an old timer may win over its cancel.
LobbyHasTimer ==
  \A ch \in Chat :
    LET c == channels[ch] IN
    c # NoGame /\ state[c] = "created" =>
      /\ timers[c] # <<>> /\ ~Current(c).cancelled
      /\ Current(c).stage = "exited" => In(ch, timeoutChan)

\* Of the timers of a lobby only the newest can still run its full time: every
\* older one was cancelled, and once the game has started all of them were.
OlderTimersCancelled ==
  \A c \in Games : \A k \in DOMAIN timers[c] :
    k < Len(timers[c]) \/ state[c] # "created" => timers[c][k].cancelled

\* A lobby has one notify timer at most: /join starts one only when the object
\* holds none, and the old one lets go of it after its notice only.
NotifierAlone == \A c \in Games : notifier[c] # "off" => cancelNotify[c] # "nil"

\* No finished game keeps its chat: as long as the chat of a finished game is
\* registered to it, the Finished message that frees the chat is on its way.
FinishedIsPending ==
  \A ch \in Chat :
    LET c == channels[ch] IN
    c # NoGame /\ state[c] \in {"finished", "done"} =>
      state[c] = "finished" \/ In(ch, gameOut) \/ In(ch, finishedChan)

\* Nothing is put on the In of a game that has not started: quorumPlayer, which
\* handleInbox looks at, and the game's State, which cmdJoin looks at, agree.
OnlyStartedGamesGetTexts ==
  \A c \in Games : sending = c \/ inQueue[c] > 0 => state[c] \notin {"none", "created"}

\* A lobby ends: its game starts or its chat is free again.
LobbyResolved ==
  \A c \in Games : (state[c] = "created") ~>
    (state[c] # "created" \/ \A ch \in Chat : channels[ch] # c)

\* A game that started ends and its chat is free for the next /join.
StartedGamesFreed ==
  \A c \in Games : (state[c] = "started") ~>
    (state[c] = "done" /\ \A ch \in Chat : channels[ch] # c)

\* "chan failed to get quorum" (bot.go:170): a timeout removes a chat whose game
\* still gathers players.
TimeoutMeansNoQuorum ==
  [][ HandleTimeout =>
        LET c == channels[Head(timeoutChan)] IN
        c # NoGame => state[c] = "created" ]_vars

\* The last notice says that its time is left (bot.go:335): a timer gives up no
\* sooner than quorumWait after it was started.
FullQuorumWait ==
  [][ \A c \in Games : \A k \in DOMAIN timers[c] :
        TimerExpires(c, k) => timers[c][k].elapsed = QuorumWait ]_vars

\* handleChannelMigration moves a chat's game to its new ID (bot.go:182): after
\* an upgrade the game that was registered under the old ID is registered under
\* the new one.
MigratedGameFollows ==
  [][ \A g \in Group : g \in upgraded' \ upgraded /\ channels[g] # NoGame
        => channels'[Supergroup[g]] = channels[g] /\ channels'[g] = NoGame ]_vars
=============================================================================
