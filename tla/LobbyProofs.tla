----------------------------- MODULE LobbyProofs -----------------------------
(***************************************************************************)
(* What holds of Lobby for every set of players and chats, every quorum,   *)
(* all buffer sizes and any number of games.                               *)
(***************************************************************************)
EXTENDS Lobby, FiniteSetTheorems, TLAPS

(***************************************************************************)
(* Lemmas on the operators of the lobby.                                   *)
(***************************************************************************)

LEMMA QueueOps ==
  ASSUME NEW S, NEW s \in Seq(S)
  PROVE  /\ \A e \in S : Append(s, e) \in Seq(S)
         /\ s # <<>> => Head(s) \in S /\ Tail(s) \in Seq(S)
  OBVIOUS

LEMMA ChatIDs ==
  /\ Group \subseteq Chat /\ \A g \in Group : Supergroup[g] \in Chat /\ Supergroup[g] # g
  /\ (CHOOSE ch \in Chat : TRUE) \in Chat
<1>1. /\ Group \subseteq Chat
      /\ \A g \in Group : Supergroup[g] \in Chat /\ Supergroup[g] # g
  BY ChatAssumption DEF Chat
<1>2. \E ch \in Chat : TRUE
  BY <1>1, ChatAssumption
<1> QED BY <1>1, <1>2

\* Starting a timer adds one at the end and leaves the others alone.
LEMMA StartedTimers ==
  ASSUME NEW ts \in Seq(Timer)
  PROVE  /\ Started(ts) \in Seq(Timer)
         /\ Len(Started(ts)) = Len(ts) + 1
         /\ Started(ts)[Len(ts) + 1] = FreshTimer
         /\ \A k \in DOMAIN ts : Started(ts)[k] = ts[k]
<1>1. FreshTimer \in Timer
  BY QuorumAssumption DEF FreshTimer, Timer
<1> QED BY <1>1 DEF Started

\* Cancelling reaches the last timer and leaves the others alone.
LEMMA CancelledTimers ==
  ASSUME NEW ts \in Seq(Timer), ts # <<>>
  PROVE  /\ Cancelled(ts) \in Seq(Timer)
         /\ Len(Cancelled(ts)) = Len(ts)
         /\ Cancelled(ts)[Len(ts)].cancelled
         /\ \A k \in DOMAIN ts : k # Len(ts) => Cancelled(ts)[k] = ts[k]
<1>1. Len(ts) \in DOMAIN ts /\ Len(ts) \in Nat /\ ts[Len(ts)] \in Timer
  OBVIOUS
<1>2. [ts[Len(ts)] EXCEPT !.cancelled = TRUE] \in Timer
  BY <1>1 DEF Timer
<1>3. [ts[Len(ts)] EXCEPT !.cancelled = TRUE].cancelled
  BY <1>1 DEF Timer
<1>4. Cancelled(ts) = [ts EXCEPT ![Len(ts)] = [ts[Len(ts)] EXCEPT !.cancelled = TRUE]]
  BY DEF Cancelled
<1>5. /\ Cancelled(ts) \in Seq(Timer) /\ Len(Cancelled(ts)) = Len(ts)
      /\ Cancelled(ts)[Len(ts)] = [ts[Len(ts)] EXCEPT !.cancelled = TRUE]
      /\ \A k \in DOMAIN ts : k # Len(ts) => Cancelled(ts)[k] = ts[k]
  BY <1>1, <1>2, <1>4
<1> QED BY <1>3, <1>5

(***************************************************************************)
(* Type correctness.                                                       *)
(***************************************************************************)

LEMMA InitType == Init => TypeOK
<1> SUFFICES ASSUME Init PROVE TypeOK
  OBVIOUS
<1>1. TableOK
  BY ChatIDs, BufferAssumption DEF Init, TableOK, NoGame, Games
<1>2. ObjectsOK
  BY DEF Init, ObjectsOK
<1>3. TimersOK
  <2>1. <<>> \in Seq(Timer)
    OBVIOUS
  <2> QED BY <2>1 DEF Init, TimersOK
<1>4. QueuesOK
  <2>1. <<>> \in Seq(Chat)
    OBVIOUS
  <2> QED BY <2>1 DEF Init, QueuesOK
<1> QED BY <1>1, <1>2, <1>3, <1>4 DEF TypeOK

\* What a step changes of the parts of the type invariant.
LEMMA SameParts ==
  /\ TableOK /\ UNCHANGED <<inbox, chat, state, upgraded>> => TableOK'
  /\ ObjectsOK /\ UNCHANGED <<quorumPlayer, notifier, cancelNotify, inQueue>>
       => ObjectsOK'
  /\ TimersOK /\ UNCHANGED timers => TimersOK'
  /\ QueuesOK /\ UNCHANGED queues => QueuesOK'
<1>1. TableOK /\ UNCHANGED <<inbox, chat, state, upgraded>> => TableOK'
  BY DEF TableOK, inbox
<1>2. ObjectsOK /\ UNCHANGED <<quorumPlayer, notifier, cancelNotify, inQueue>>
        => ObjectsOK'
  BY DEF ObjectsOK
<1>3. (TimersOK /\ UNCHANGED timers => TimersOK')
      /\ (QueuesOK /\ UNCHANGED queues => QueuesOK')
  BY DEF TimersOK, QueuesOK, queues
<1> QED BY <1>1, <1>2, <1>3

\* Removing chats from the table and registering a made object keeps it.
LEMMA RemoveChat ==
  ASSUME TableOK, NEW ch \in Chat,
         channels' = [channels EXCEPT ![ch] = NoGame],
         UNCHANGED <<sending, made, texts, chat, state, upgraded>>
  PROVE  TableOK'
<1>1. channels' \in [Chat -> 0..made]
  BY BufferAssumption DEF TableOK, NoGame
<1>2. \A d \in Chat : channels'[d] # NoGame => chat[channels'[d]] = d
  BY DEF TableOK
<1> QED BY <1>1, <1>2 DEF TableOK

LEMMA JoinNewType ==
  ASSUME TypeOK, NEW ch \in Chat, NEW p \in Player, JoinNew(ch, p)
  PROVE  TypeOK'
<1> DEFINE c == made + 1
<1>1. /\ c \in Games /\ c \in 1..MaxGames /\ made \in Nat /\ MaxGames \in Nat
      /\ made' = c /\ c # NoGame
  BY BufferAssumption DEF JoinNew, TypeOK, TableOK, Games, NoGame
<1>2. /\ channels' = [channels EXCEPT ![ch] = c]
      /\ chat' = [chat EXCEPT ![c] = ch]
      /\ quorumPlayer' = [quorumPlayer EXCEPT ![c] = {p}]
      /\ UNCHANGED <<sending, texts, inQueue, queues, upgraded>>
  BY DEF JoinNew
<1>3. /\ state' = [state EXCEPT ![c] = "started"] \/ state' = [state EXCEPT ![c] = "created"]
      /\ timers' = [timers EXCEPT ![c] = Started(@)] \/ timers' = timers
      /\ notifier' = [notifier EXCEPT ![c] = "waiting"] \/ notifier' = notifier
      /\ cancelNotify' = [cancelNotify EXCEPT ![c] = "held"] \/ cancelNotify' = cancelNotify
  BY DEF JoinNew
<1> HIDE DEF c
<1>4. TableOK'
  <2>1. channels' \in [Chat -> 0..made'] /\ sending' \in 0..made'
    BY <1>1, <1>2 DEF TypeOK, TableOK, c
  <2>2. chat' \in [Games -> Chat] /\ chat'[c] = ch
    BY <1>1, <1>2 DEF TypeOK, TableOK
  <2>3. \A d \in Chat : channels'[d] # NoGame => chat'[channels'[d]] = d
    <3> SUFFICES ASSUME NEW d \in Chat, channels'[d] # NoGame
                 PROVE  chat'[channels'[d]] = d
      OBVIOUS
    <3>1. CASE d = ch
      BY <1>1, <1>2, <2>2, <3>1 DEF TypeOK, TableOK
    <3>2. CASE d # ch
      <4>1. channels'[d] = channels[d] /\ channels[d] \in 0..made
        BY <1>2, <3>2 DEF TypeOK, TableOK
      <4>2. channels[d] # c
        BY <1>1, <4>1 DEF c
      <4>3. chat'[channels[d]] = chat[channels[d]]
        BY <1>1, <1>2, <4>2 DEF TypeOK, TableOK
      <4> QED BY <4>1, <4>3 DEF TypeOK, TableOK
    <3> QED BY <3>1, <3>2
  <2>4. state' \in [Games -> {"none", "created", "started", "finished", "done"}]
    BY <1>3 DEF TypeOK, TableOK
  <2>5. \A d \in Games : state'[d] = "none" <=> d > made'
    <3> SUFFICES ASSUME NEW d \in Games PROVE state'[d] = "none" <=> d > made'
      OBVIOUS
    <3>1. d \in Nat /\ (state[d] = "none" <=> d > made)
      BY <1>1 DEF TypeOK, TableOK, Games
    <3>2. CASE d = c
      BY <1>1, <1>3, <3>1, <3>2 DEF TypeOK, TableOK
    <3>3. CASE d # c
      <4>1. state'[d] = state[d]
        BY <1>3, <3>3 DEF TypeOK, TableOK
      <4> QED BY <1>1, <3>1, <3>3, <4>1 DEF c
    <3> QED BY <3>2, <3>3
  <2>6. made' \in 0..MaxGames /\ texts' \in 0..MaxTexts /\ upgraded' \subseteq Group
    BY <1>1, <1>2 DEF TypeOK, TableOK
  <2> QED BY <2>1, <2>2, <2>3, <2>4, <2>5, <2>6 DEF TableOK
<1>5. ObjectsOK'
  BY <1>1, <1>2, <1>3 DEF TypeOK, ObjectsOK
<1>6. TimersOK'
  BY <1>1, <1>3, StartedTimers DEF TypeOK, TimersOK
<1>7. QueuesOK'
  BY <1>2, SameParts DEF TypeOK
<1> QED BY <1>4, <1>5, <1>6, <1>7 DEF TypeOK

\* The game of a registered chat.
LEMMA RegisteredGame ==
  ASSUME TableOK, NEW ch \in Chat, channels[ch] # NoGame
  PROVE  channels[ch] \in Games /\ channels[ch] \in 1..made /\ chat[channels[ch]] = ch
  BY BufferAssumption DEF TableOK, Games, NoGame

\* A change of state of a game that was made keeps the table.
LEMMA StateMoves ==
  ASSUME TableOK, NEW c \in Games, state[c] # "none",
         NEW to \in {"created", "started", "finished", "done"},
         state' = [state EXCEPT ![c] = to],
         UNCHANGED <<inbox, chat, upgraded>>
  PROVE  TableOK'
<1>1. state' \in [Games -> {"none", "created", "started", "finished", "done"}]
  BY DEF TableOK
<1>2. \A d \in Games : state'[d] = "none" <=> d > made'
  BY DEF TableOK, inbox
<1> QED BY <1>1, <1>2 DEF TableOK, inbox

\* Cancelling keeps the type, also when there is no timer.
LEMMA CancelledType ==
  ASSUME NEW ts \in Seq(Timer)
  PROVE  Cancelled(ts) \in Seq(Timer)
<1>1. CASE ts = <<>>
  <2>1. Cancelled(ts) = ts
    BY <1>1 DEF Cancelled
  <2> QED BY <2>1
<1>2. CASE ts # <<>>
  BY <1>2, CancelledTimers
<1> QED BY <1>1, <1>2

\* The timers of a game after the goroutine of one of them has moved.
Moved(ts, k, to) == [ts EXCEPT ![k].stage = to]

\* The goroutine of a timer leaves everything but its place alone.
LEMMA MovedTimer ==
  ASSUME NEW ts \in Seq(Timer), NEW k \in DOMAIN ts,
         NEW to \in {"waiting", "expire", "exited"}
  PROVE  /\ Moved(ts, k, to) \in Seq(Timer)
         /\ Moved(ts, k, to)[k].cancelled = ts[k].cancelled
         /\ Moved(ts, k, to)[k].stage = to
<1>1. ts[k] \in Timer
  OBVIOUS
<1>2. /\ [ts[k] EXCEPT !.stage = to] \in Timer
      /\ [ts[k] EXCEPT !.stage = to].stage = to
      /\ [ts[k] EXCEPT !.stage = to].cancelled = ts[k].cancelled
  BY <1>1 DEF Timer
<1> DEFINE t == [ts[k] EXCEPT !.stage = to]
<1>3. Moved(ts, k, to) = [ts EXCEPT ![k] = t]
  BY DEF Moved
<1>4. t \in Timer /\ t.stage = to /\ t.cancelled = ts[k].cancelled
  BY <1>2
<1> HIDE DEF t
<1>5. [ts EXCEPT ![k] = t] \in Seq(Timer) /\ [ts EXCEPT ![k] = t][k] = t
  BY <1>4
<1> QED BY <1>3, <1>4, <1>5

LEMMA MovedLen ==
  ASSUME NEW ts \in Seq(Timer), NEW k, NEW to
  PROVE  DOMAIN Moved(ts, k, to) = DOMAIN ts /\ Len(Moved(ts, k, to)) = Len(ts)
  BY DEF Moved

LEMMA MovedOthers ==
  ASSUME NEW ts \in Seq(Timer), NEW k, NEW to, NEW j \in DOMAIN ts, j # k
  PROVE  Moved(ts, k, to)[j] = ts[j]
  BY DEF Moved

LEMMA JoinsType ==
  ASSUME TypeOK, NEW ch \in Chat, NEW p \in Player,
         JoinMore(ch, p) \/ JoinLast(ch, p)
  PROVE  TypeOK'
<1> DEFINE c == channels[ch]
<1>1. /\ c # NoGame /\ state[c] = "created"
      /\ quorumPlayer' = [quorumPlayer EXCEPT ![c] = @ \cup {p}]
      /\ UNCHANGED <<inbox, chat, inQueue, queues, upgraded>>
      /\ \/ timers' = [timers EXCEPT ![c] = Started(Cancelled(@))]
         \/ timers' = [timers EXCEPT ![c] = Cancelled(@)]
      /\ notifier' = [notifier EXCEPT ![c] = "waiting"] \/ notifier' = notifier
      /\ \/ cancelNotify' = [cancelNotify EXCEPT ![c] = "held"]
         \/ cancelNotify' = [cancelNotify EXCEPT ![c] = IF @ = "nil" THEN @ ELSE "called"]
         \/ cancelNotify' = cancelNotify
      /\ state' = state \/ state' = [state EXCEPT ![c] = "started"]
  BY DEF JoinMore, JoinLast, Joins
<1>2. c \in Games
  BY <1>1, RegisteredGame DEF TypeOK
<1> HIDE DEF c
<1>3. TableOK'
  <2>1. CASE state' = state
    BY <1>1, <2>1, SameParts DEF TypeOK
  <2>2. CASE state' = [state EXCEPT ![c] = "started"]
    BY <1>1, <1>2, <2>2, StateMoves DEF TypeOK
  <2> QED BY <1>1, <2>1, <2>2
<1>4. ObjectsOK'
  BY <1>1, <1>2 DEF TypeOK, ObjectsOK
<1>5. TimersOK'
  <2>1. timers[c] \in Seq(Timer)
    BY <1>2 DEF TypeOK, TimersOK
  <2>2. Cancelled(timers[c]) \in Seq(Timer) /\ Started(Cancelled(timers[c])) \in Seq(Timer)
    BY <2>1, CancelledType, StartedTimers
  <2> QED BY <1>1, <1>2, <2>2 DEF TypeOK, TimersOK
<1>6. QueuesOK'
  BY <1>1, SameParts DEF TypeOK
<1> QED BY <1>3, <1>4, <1>5, <1>6 DEF TypeOK

LEMMA MigrationType ==
  ASSUME TypeOK, NEW g \in Group, Upgrade(g)
  PROVE  TypeOK'
<1>1. /\ UNCHANGED <<sending, made, texts, quorumPlayer, timers, notifier, cancelNotify,
                     game, queues>>
      /\ upgraded' = upgraded \cup {g}
      /\ HandleChannelMigration(g) \/ UNCHANGED <<channels, chat>>
  BY DEF Upgrade
<1>2. ObjectsOK' /\ TimersOK' /\ QueuesOK'
  BY <1>1, SameParts DEF TypeOK, game
<1>3. TableOK'
  <2> DEFINE c == channels[g]
  <2>1. CASE UNCHANGED <<channels, chat>>
    BY <1>1, <2>1 DEF TypeOK, TableOK, game
  <2>2. CASE c # NoGame /\ HandleChannelMigration(g)
    <3>1. /\ chat' = [chat EXCEPT ![c] = Supergroup[g]]
          /\ channels' = [channels EXCEPT ![g] = NoGame, ![Supergroup[g]] = c]
      BY <2>2 DEF HandleChannelMigration
    <3>2. g \in Chat /\ Supergroup[g] \in Chat /\ Supergroup[g] # g
      BY ChatIDs
    <3>3. c \in Games /\ c \in 1..made /\ chat[c] = g
      BY <2>2, <3>2, RegisteredGame DEF TypeOK
    <3> HIDE DEF c
    <3>4. chat' \in [Games -> Chat] /\ chat'[c] = Supergroup[g]
      BY <3>1, <3>2, <3>3 DEF TypeOK, TableOK
    <3>5. channels' \in [Chat -> 0..made]
      BY <3>1, <3>2, <3>3, BufferAssumption DEF TypeOK, TableOK, NoGame
    <3>6. \A d \in Chat : channels'[d] # NoGame => chat'[channels'[d]] = d
      <4> SUFFICES ASSUME NEW d \in Chat, channels'[d] # NoGame
                   PROVE  chat'[channels'[d]] = d
        OBVIOUS
      <4>1. CASE d = Supergroup[g]
        BY <3>1, <3>2, <3>4, <4>1 DEF TypeOK, TableOK
      <4>2. CASE d # Supergroup[g]
        <5>1. d # g /\ channels'[d] = channels[d]
          BY <3>1, <3>2, <4>2 DEF TypeOK, TableOK
        <5>2. channels[d] # c /\ chat[channels[d]] = d
          BY <3>3, <5>1 DEF TypeOK, TableOK
        <5>3. chat'[channels[d]] = chat[channels[d]]
          <6>1. channels[d] \in Games
            BY <5>1, RegisteredGame DEF TypeOK
          <6> QED BY <3>1, <3>3, <5>2, <6>1 DEF TypeOK, TableOK
        <5> QED BY <5>1, <5>2, <5>3
      <4> QED BY <4>1, <4>2
    <3> QED BY <1>1, <3>4, <3>5, <3>6 DEF TypeOK, TableOK, game
  <2>3. CASE c = NoGame
    BY <1>1, <2>1, <2>3 DEF HandleChannelMigration
  <2> QED BY <1>1, <2>1, <2>2, <2>3
<1> QED BY <1>2, <1>3 DEF TypeOK

LEMMA TimerStepType ==
  ASSUME TypeOK, NEW c \in Games, NEW k \in DOMAIN timers[c],
         TimerCancelled(c, k) \/ TimerNotice(c, k) \/ TimerExpires(c, k)
  PROVE  TypeOK'
<1>1. \E to \in {"waiting", "expire", "exited"} :
        timers' = [timers EXCEPT ![c][k].stage = to]
  BY DEF TimerCancelled, TimerNotice, TimerExpires, TimerStep
<1>2. TimersOK'
  <2>1. PICK to \in {"waiting", "expire", "exited"} :
          timers' = [timers EXCEPT ![c][k].stage = to]
    BY <1>1
  <2>2. timers[c] \in Seq(Timer)
    BY DEF TypeOK, TimersOK
  <2>3. Moved(timers[c], k, to) \in Seq(Timer)
    BY <2>2, MovedTimer
  <2>4. timers' = [timers EXCEPT ![c] = Moved(timers[c], k, to)]
    BY <2>1 DEF Moved
  <2> QED BY <2>3, <2>4 DEF TypeOK, TimersOK
<1>3. UNCHANGED <<inbox, chat, quorumPlayer, notifier, cancelNotify, game, gameOut,
                  finishedChan, upgraded>>
  BY DEF TimerCancelled, TimerNotice, TimerExpires, TimerStep
<1>4. TableOK' /\ ObjectsOK'
  BY <1>3, SameParts DEF TypeOK, game
<1>5. QueuesOK'
  <2>1. chat[c] \in Chat
    BY DEF TypeOK, TableOK
  <2>2. timeoutChan' = timeoutChan \/ timeoutChan' = Append(timeoutChan, chat[c])
    BY DEF TimerCancelled, TimerNotice, TimerExpires
  <2> QED BY <1>3, <2>1, <2>2, QueueOps DEF TypeOK, QueuesOK
<1> QED BY <1>2, <1>4, <1>5 DEF TypeOK

LEMMA TickType ==
  ASSUME TypeOK, Tick
  PROVE  TypeOK'
<1>1. UNCHANGED <<inbox, chat, quorumPlayer, notifier, cancelNotify, game, queues,
                  upgraded>>
  BY DEF Tick
<1>2. TableOK' /\ ObjectsOK' /\ QueuesOK'
  BY <1>1, SameParts DEF TypeOK, game
<1>3. TimersOK'
  <2> DEFINE Tock(t) == IF t.stage = "waiting" /\ t.elapsed < QuorumWait
                          THEN [t EXCEPT !.elapsed = @ + 1] ELSE t
  <2>1. timers' = [c \in Games |-> [k \in DOMAIN timers[c] |-> Tock(timers[c][k])]]
    BY DEF Tick
  <2>2. \A t \in Timer : Tock(t) \in Timer
    BY QuorumAssumption DEF Timer
  <2> HIDE DEF Tock
  <2>3. ASSUME NEW c \in Games
        PROVE  [k \in DOMAIN timers[c] |-> Tock(timers[c][k])] \in Seq(Timer)
    <3>1. timers[c] \in Seq(Timer)
      BY DEF TypeOK, TimersOK
    <3> QED BY <2>2, <3>1
  <2> QED BY <2>1, <2>3 DEF TimersOK
<1> QED BY <1>2, <1>3 DEF TypeOK

\* Steps of the notify timers, the games and the queues.
LEMMA OtherStepsType ==
  ASSUME TypeOK,
         \/ \E ch \in Chat : Text(ch)
         \/ TextDelivered \/ HandleTimeout \/ HandleFinished \/ OutboxForwards
         \/ \E c \in Games : NotifierCancelled(c) \/ NotifierFires(c) \/ NotifierDone(c)
         \/ \E c \in Games : GameReads(c) \/ GameFinishes(c) \/ GameSendsFinished(c)
  PROVE  TypeOK'
<1>1. ASSUME NEW ch \in Chat, Text(ch) PROVE TypeOK'
  <2>1. /\ sending' = channels[ch] /\ texts' = texts + 1 /\ texts < MaxTexts
        /\ UNCHANGED <<channels, made, lobby, game, queues, upgraded>>
    BY <1>1 DEF Text
  <2>2. TableOK'
    BY <2>1, BufferAssumption DEF TypeOK, TableOK, lobby, game
  <2> QED BY <2>1, <2>2, SameParts DEF TypeOK, lobby, game
<1>2. CASE TextDelivered
  <2>1. /\ UNCHANGED <<channels, made, texts, lobby, state, queues, upgraded>>
        /\ inQueue' = [inQueue EXCEPT ![sending] = @ + 1] /\ sending' = NoGame
    BY <1>2 DEF TextDelivered
  <2>2. TableOK'
    BY <2>1, BufferAssumption DEF TypeOK, TableOK, lobby, NoGame
  <2>3. inQueue' \in [Games -> Nat]
    <3>1. ASSUME NEW c \in Games PROVE inQueue'[c] \in Nat
      BY <2>1 DEF TypeOK, ObjectsOK
    <3> QED BY <2>1, <3>1 DEF TypeOK, ObjectsOK
  <2>4. ObjectsOK'
    BY <2>1, <2>3 DEF TypeOK, ObjectsOK, lobby
  <2> QED BY <2>1, <2>2, <2>4, SameParts DEF TypeOK, lobby
<1>3. CASE HandleTimeout
  <2>1. /\ timeoutChan # <<>>
        /\ channels' = [channels EXCEPT ![Head(timeoutChan)] = NoGame]
        /\ timeoutChan' = Tail(timeoutChan)
        /\ UNCHANGED <<sending, made, texts, lobby, game, gameOut, finishedChan, upgraded>>
    BY <1>3 DEF HandleTimeout
  <2>2. Head(timeoutChan) \in Chat /\ Tail(timeoutChan) \in Seq(Chat)
    BY <2>1, QueueOps DEF TypeOK, QueuesOK
  <2>3. TableOK'
    BY <2>1, <2>2, RemoveChat DEF TypeOK, lobby, game
  <2>4. QueuesOK'
    BY <2>1, <2>2 DEF TypeOK, QueuesOK
  <2> QED BY <2>1, <2>3, <2>4, SameParts DEF TypeOK, lobby, game
<1>4. CASE HandleFinished
  <2>1. /\ finishedChan # <<>>
        /\ channels' = [channels EXCEPT ![Head(finishedChan)] = NoGame]
        /\ finishedChan' = Tail(finishedChan)
        /\ UNCHANGED <<sending, made, texts, lobby, game, gameOut, timeoutChan, upgraded>>
    BY <1>4 DEF HandleFinished
  <2>2. Head(finishedChan) \in Chat /\ Tail(finishedChan) \in Seq(Chat)
    BY <2>1, QueueOps DEF TypeOK, QueuesOK
  <2>3. TableOK'
    BY <2>1, <2>2, RemoveChat DEF TypeOK, lobby, game
  <2>4. QueuesOK'
    BY <2>1, <2>2 DEF TypeOK, QueuesOK
  <2> QED BY <2>1, <2>3, <2>4, SameParts DEF TypeOK, lobby, game
<1>5. CASE OutboxForwards
  <2>1. /\ gameOut # <<>>
        /\ finishedChan' = Append(finishedChan, Head(gameOut))
        /\ gameOut' = Tail(gameOut)
        /\ UNCHANGED <<inbox, lobby, game, timeoutChan, upgraded>>
    BY <1>5 DEF OutboxForwards
  <2>2. QueuesOK'
    BY <2>1, QueueOps DEF TypeOK, QueuesOK
  <2> QED BY <2>1, <2>2, SameParts DEF TypeOK, lobby, game
<1>6. ASSUME NEW c \in Games, NotifierCancelled(c) \/ NotifierFires(c) \/ NotifierDone(c)
      PROVE  TypeOK'
  <2>1. /\ UNCHANGED <<inbox, chat, quorumPlayer, timers, game, queues, upgraded>>
        /\ \/ notifier' = [notifier EXCEPT ![c] = "off"]
           \/ notifier' = [notifier EXCEPT ![c] = "sending"]
        /\ \/ cancelNotify' = cancelNotify
           \/ cancelNotify' = [cancelNotify EXCEPT ![c] = "nil"]
    BY <1>6 DEF NotifierCancelled, NotifierFires, NotifierDone, NotifierStep
  <2>2. ObjectsOK'
    BY <2>1 DEF TypeOK, ObjectsOK, game
  <2> QED BY <2>1, <2>2, SameParts DEF TypeOK, game
<1>7. ASSUME NEW c \in Games, GameReads(c) PROVE TypeOK'
  <2>1. /\ inQueue[c] > 0 /\ inQueue' = [inQueue EXCEPT ![c] = @ - 1]
        /\ UNCHANGED <<inbox, lobby, state, queues, upgraded>>
    BY <1>7 DEF GameReads
  <2>2. ObjectsOK'
    <3>1. inQueue[c] \in Nat /\ inQueue[c] - 1 \in Nat
      BY <2>1 DEF TypeOK, ObjectsOK
    <3> QED BY <2>1, <3>1 DEF TypeOK, ObjectsOK, lobby
  <2> QED BY <2>1, <2>2, SameParts DEF TypeOK, lobby
<1>8. ASSUME NEW c \in Games, GameFinishes(c) \/ GameSendsFinished(c) PROVE TypeOK'
  <2>1. /\ state[c] # "none"
        /\ \/ state' = [state EXCEPT ![c] = "finished"]
           \/ state' = [state EXCEPT ![c] = "done"]
        /\ gameOut' = gameOut \/ gameOut' = Append(gameOut, chat[c])
        /\ UNCHANGED <<inbox, lobby, inQueue, timeoutChan, finishedChan, upgraded>>
    BY <1>8 DEF GameFinishes, GameSendsFinished, queues
  <2>2. TableOK'
    BY <2>1, StateMoves DEF TypeOK, lobby
  <2>3. QueuesOK'
    <3>1. chat[c] \in Chat
      BY DEF TypeOK, TableOK
    <3> QED BY <2>1, <3>1, QueueOps DEF TypeOK, QueuesOK
  <2> QED BY <2>1, <2>2, <2>3, SameParts DEF TypeOK, lobby
<1> QED BY <1>1, <1>2, <1>3, <1>4, <1>5, <1>6, <1>7, <1>8

\* A step that changes nothing.
LEMMA Stutters ==
  vars' = vars =>
    UNCHANGED <<channels, sending, made, texts, chat, quorumPlayer, timers, notifier,
                cancelNotify, state, inQueue, gameOut, timeoutChan, finishedChan, upgraded>>
  BY DEF vars, inbox, lobby, game, queues

LEMMA NextType == TypeOK /\ [Next]_vars => TypeOK'
<1> SUFFICES ASSUME TypeOK, [Next]_vars PROVE TypeOK'
  OBVIOUS
<1>1. CASE \E ch \in Chat, p \in Player : JoinNew(ch, p) \/ JoinMore(ch, p) \/ JoinLast(ch, p)
  BY <1>1, JoinNewType, JoinsType
<1>2. CASE \E g \in Group : Upgrade(g)
  BY <1>2, MigrationType
<1>3. CASE Tick
  BY <1>3, TickType
<1>4. CASE \E c \in Games : \E k \in DOMAIN timers[c] :
             TimerCancelled(c, k) \/ TimerNotice(c, k) \/ TimerExpires(c, k)
  BY <1>4, TimerStepType
<1>5. CASE vars' = vars
  BY <1>5, Stutters, SameParts DEF TypeOK, inbox, queues
<1>6. CASE Idle
  BY <1>5, <1>6 DEF Idle
<1> QED BY <1>1, <1>2, <1>3, <1>4, <1>5, <1>6, OtherStepsType DEF Next

\* Every variable keeps its type; in particular a channel object is registered
\* under the ID it holds, whatever joins, timeouts, migrations and finished
\* games do to the table (bot.go, commands.go).
THEOREM TypeCorrect == Spec => []TypeOK
<1> QED BY InitType, NextType, PTL DEF Spec

(***************************************************************************)
(* The notify timer.                                                       *)
(***************************************************************************)

\* Only /join and the goroutine of the notify timer touch it.
LEMMA NotifierSteps ==
  Next =>
    \/ UNCHANGED <<notifier, cancelNotify>>
    \/ \E ch \in Chat, p \in Player : JoinNew(ch, p) \/ JoinMore(ch, p) \/ JoinLast(ch, p)
    \/ \E c \in Games : NotifierCancelled(c) \/ NotifierFires(c) \/ NotifierDone(c)
<1> SUFFICES ASSUME Next
             PROVE  \/ UNCHANGED <<notifier, cancelNotify>>
                    \/ \E ch \in Chat, p \in Player :
                         JoinNew(ch, p) \/ JoinMore(ch, p) \/ JoinLast(ch, p)
                    \/ \E c \in Games :
                         NotifierCancelled(c) \/ NotifierFires(c) \/ NotifierDone(c)
  OBVIOUS
<1>1. ASSUME NEW ch \in Chat, Text(ch) PROVE UNCHANGED <<notifier, cancelNotify>>
  BY <1>1 DEF Text, lobby
<1>2. CASE TextDelivered \/ HandleTimeout \/ HandleFinished \/ OutboxForwards
  BY <1>2 DEF TextDelivered, HandleTimeout, HandleFinished, OutboxForwards, lobby
<1>3. ASSUME NEW g \in Group, Upgrade(g) PROVE UNCHANGED <<notifier, cancelNotify>>
  BY <1>3 DEF Upgrade
<1>4. CASE Tick
  BY <1>4 DEF Tick
<1>5. ASSUME NEW c \in Games, NEW k \in DOMAIN timers[c],
             TimerCancelled(c, k) \/ TimerNotice(c, k) \/ TimerExpires(c, k)
      PROVE  UNCHANGED <<notifier, cancelNotify>>
  BY <1>5 DEF TimerCancelled, TimerNotice, TimerExpires, TimerStep
<1>6. ASSUME NEW c \in Games, GameReads(c) \/ GameFinishes(c) \/ GameSendsFinished(c)
      PROVE  UNCHANGED <<notifier, cancelNotify>>
  BY <1>6 DEF GameReads, GameFinishes, GameSendsFinished, lobby
<1>7. CASE Idle
  BY <1>7, Stutters DEF Idle
<1> QED BY <1>1, <1>2, <1>3, <1>4, <1>5, <1>6, <1>7 DEF Next

LEMMA NotifierAloneNext == TypeOK /\ NotifierAlone /\ [Next]_vars => NotifierAlone'
<1> SUFFICES ASSUME TypeOK, NotifierAlone, [Next]_vars PROVE NotifierAlone'
  OBVIOUS
<1>1. CASE UNCHANGED <<notifier, cancelNotify>>
  BY <1>1 DEF NotifierAlone
<1>2. ASSUME NEW ch \in Chat, NEW p \in Player, JoinNew(ch, p) PROVE NotifierAlone'
  BY <1>2 DEF JoinNew, NotifierAlone, TypeOK, ObjectsOK
<1>3. ASSUME NEW ch \in Chat, NEW p \in Player, JoinMore(ch, p) PROVE NotifierAlone'
  BY <1>3 DEF JoinMore, NotifierAlone, TypeOK, ObjectsOK
<1>4. ASSUME NEW ch \in Chat, NEW p \in Player, JoinLast(ch, p) PROVE NotifierAlone'
  BY <1>4 DEF JoinLast, NotifierAlone, TypeOK, ObjectsOK
<1>5. ASSUME NEW c \in Games, NotifierCancelled(c) \/ NotifierFires(c) \/ NotifierDone(c)
      PROVE  NotifierAlone'
  BY <1>5 DEF NotifierCancelled, NotifierFires, NotifierDone, NotifierStep, NotifierAlone,
              TypeOK, ObjectsOK
<1> QED BY <1>1, <1>2, <1>3, <1>4, <1>5, NotifierSteps, Stutters

\* A lobby never runs two notify timers, however joins, cancelled and sent
\* notices interleave (bot.go startQuorumNotifyTimer, cmdJoin).
THEOREM OneNotifier == Spec => []NotifierAlone
<1>1. Init => NotifierAlone
  BY DEF Init, NotifierAlone
<1> QED BY <1>1, InitType, NextType, NotifierAloneNext, PTL DEF Spec

(***************************************************************************)
(* The quorum timers.                                                      *)
(***************************************************************************)

\* Only /join starts or cancels a timer, and only /join starts a game.
LEMMA TimerSteps ==
  Next =>
    \/ UNCHANGED <<timers, state>>
    \/ \E ch \in Chat, p \in Player : JoinNew(ch, p) \/ JoinMore(ch, p) \/ JoinLast(ch, p)
    \/ UNCHANGED state /\ Tick
    \/ UNCHANGED state /\ \E c \in Games : \E k \in DOMAIN timers[c] :
         TimerCancelled(c, k) \/ TimerNotice(c, k) \/ TimerExpires(c, k)
    \/ UNCHANGED timers /\ \E c \in Games : GameFinishes(c) \/ GameSendsFinished(c)
<1> SUFFICES ASSUME Next
             PROVE  \/ UNCHANGED <<timers, state>>
                    \/ \E ch \in Chat, p \in Player :
                         JoinNew(ch, p) \/ JoinMore(ch, p) \/ JoinLast(ch, p)
                    \/ UNCHANGED state /\ Tick
                    \/ UNCHANGED state /\ \E c \in Games : \E k \in DOMAIN timers[c] :
                         TimerCancelled(c, k) \/ TimerNotice(c, k) \/ TimerExpires(c, k)
                    \/ UNCHANGED timers
                       /\ \E c \in Games : GameFinishes(c) \/ GameSendsFinished(c)
  OBVIOUS
<1>1. ASSUME NEW ch \in Chat, Text(ch) PROVE UNCHANGED <<timers, state>>
  BY <1>1 DEF Text, lobby, game
<1>2. CASE TextDelivered \/ HandleTimeout \/ HandleFinished \/ OutboxForwards
  BY <1>2 DEF TextDelivered, HandleTimeout, HandleFinished, OutboxForwards, lobby, game
<1>3. ASSUME NEW g \in Group, Upgrade(g) PROVE UNCHANGED <<timers, state>>
  BY <1>3 DEF Upgrade, game
<1>4. Tick => UNCHANGED state
  BY DEF Tick, game
<1>5. ASSUME NEW c \in Games, NEW k \in DOMAIN timers[c],
             TimerCancelled(c, k) \/ TimerNotice(c, k) \/ TimerExpires(c, k)
      PROVE  UNCHANGED state
  BY <1>5 DEF TimerCancelled, TimerNotice, TimerExpires, TimerStep, game
<1>6. ASSUME NEW c \in Games, GameReads(c) \/ GameFinishes(c) \/ GameSendsFinished(c)
      PROVE  UNCHANGED timers /\ (GameReads(c) => UNCHANGED state)
  BY <1>6 DEF GameReads, GameFinishes, GameSendsFinished, lobby
<1>7. ASSUME NEW c \in Games, NotifierCancelled(c) \/ NotifierFires(c) \/ NotifierDone(c)
      PROVE  UNCHANGED <<timers, state>>
  BY <1>7 DEF NotifierCancelled, NotifierFires, NotifierDone, NotifierStep, game
<1>8. CASE Idle
  BY <1>8, Stutters DEF Idle
<1> QED BY <1>1, <1>2, <1>3, <1>4, <1>5, <1>6, <1>7, <1>8 DEF Next

\* The timers of a game: which of them were cancelled.
OnlyLastRuns(ts, gathers) ==
  \A k \in DOMAIN ts : k < Len(ts) \/ ~gathers => ts[k].cancelled

LEMMA OlderAsTimers ==
  OlderTimersCancelled <=> \A c \in Games : OnlyLastRuns(timers[c], state[c] = "created")
  BY DEF OlderTimersCancelled, OnlyLastRuns

LEMMA OnlyLastRunsKept ==
  ASSUME NEW ts \in Seq(Timer), NEW gathers \in BOOLEAN, OnlyLastRuns(ts, gathers)
  PROVE  /\ ~gathers => OnlyLastRuns(Started(ts), TRUE)
         /\ OnlyLastRuns(Cancelled(ts), FALSE)
         /\ OnlyLastRuns(Started(Cancelled(ts)), TRUE)
<1>1. ASSUME NEW us \in Seq(Timer), OnlyLastRuns(us, FALSE)
      PROVE  OnlyLastRuns(Started(us), TRUE)
  <2>1. /\ Started(us) \in Seq(Timer) /\ Len(Started(us)) = Len(us) + 1
        /\ \A k \in DOMAIN us : Started(us)[k] = us[k]
    BY StartedTimers
  <2> SUFFICES ASSUME NEW k \in DOMAIN Started(us), k < Len(Started(us))
               PROVE  Started(us)[k].cancelled
    BY DEF OnlyLastRuns
  <2>2. k \in DOMAIN us
    BY <2>1
  <2> QED BY <1>1, <2>1, <2>2 DEF OnlyLastRuns
<1>2. OnlyLastRuns(Cancelled(ts), FALSE)
  <2>1. CASE ts = <<>>
    <3>1. Cancelled(ts) = ts
      BY <2>1 DEF Cancelled
    <3> QED BY <2>1, <3>1 DEF OnlyLastRuns
  <2>2. CASE ts # <<>>
    <3>1. /\ Cancelled(ts) \in Seq(Timer) /\ Len(Cancelled(ts)) = Len(ts)
          /\ Cancelled(ts)[Len(ts)].cancelled
          /\ \A k \in DOMAIN ts : k # Len(ts) => Cancelled(ts)[k] = ts[k]
      BY <2>2, CancelledTimers
    <3> SUFFICES ASSUME NEW k \in DOMAIN Cancelled(ts) PROVE Cancelled(ts)[k].cancelled
      BY DEF OnlyLastRuns
    <3>2. CASE k = Len(ts)
      BY <3>1, <3>2
    <3>3. CASE k # Len(ts)
      <4>1. k \in DOMAIN ts /\ k < Len(ts)
        BY <3>1, <3>3
      <4> QED BY <3>1, <3>3, <4>1 DEF OnlyLastRuns
    <3> QED BY <3>2, <3>3
  <2> QED BY <2>1, <2>2
<1>3. OnlyLastRuns(Started(Cancelled(ts)), TRUE)
  BY <1>1, <1>2, CancelledType
<1>4. ~gathers => OnlyLastRuns(ts, FALSE)
  BY DEF OnlyLastRuns
<1> QED BY <1>1, <1>2, <1>3, <1>4

LEMMA OlderTimersNext ==
  TypeOK /\ OlderTimersCancelled /\ [Next]_vars => OlderTimersCancelled'
<1> SUFFICES ASSUME TypeOK, OlderTimersCancelled, [Next]_vars
             PROVE  OlderTimersCancelled'
  OBVIOUS
<1> DEFINE Gathers(c) == state[c] = "created"
<1>0. \A c \in Games :
        timers[c] \in Seq(Timer) /\ Gathers(c) \in BOOLEAN
        /\ OnlyLastRuns(timers[c], Gathers(c))
  BY OlderAsTimers DEF TypeOK, TimersOK
<1>1. CASE UNCHANGED <<timers, state>>
  BY <1>1 DEF OlderTimersCancelled
<1>2. ASSUME NEW c \in Games,
             \/ /\ ~Gathers(c) /\ timers' = [timers EXCEPT ![c] = Started(@)]
                /\ state' = [state EXCEPT ![c] = "created"]
             \/ /\ timers' = [timers EXCEPT ![c] = Started(Cancelled(@))]
                /\ UNCHANGED state /\ Gathers(c)
             \/ /\ timers' = [timers EXCEPT ![c] = Cancelled(@)]
                /\ state' = [state EXCEPT ![c] = "started"]
             \/ UNCHANGED timers /\ ~Gathers(c) /\ \E to \in {"started", "finished", "done"} :
                  state' = [state EXCEPT ![c] = to]
      PROVE  OlderTimersCancelled'
  <2>1. OnlyLastRuns(timers'[c], state'[c] = "created")
    <3>1. state \in [Games -> {"none", "created", "started", "finished", "done"}]
          /\ timers \in [Games -> Seq(Timer)]
      BY DEF TypeOK, TableOK, TimersOK
    <3>2. /\ ~Gathers(c) => OnlyLastRuns(Started(timers[c]), TRUE)
          /\ OnlyLastRuns(Cancelled(timers[c]), FALSE)
          /\ OnlyLastRuns(Started(Cancelled(timers[c])), TRUE)
      BY <1>0, OnlyLastRunsKept
    <3> QED BY <1>0, <1>2, <3>1, <3>2
  <2>2. \A d \in Games : d # c => timers'[d] = timers[d] /\ state'[d] = state[d]
    BY <1>2 DEF TypeOK, TableOK, TimersOK
  <2>3. \A d \in Games : OnlyLastRuns(timers'[d], state'[d] = "created")
    BY <1>0, <2>1, <2>2
  <2> QED BY <2>3 DEF OlderTimersCancelled, OnlyLastRuns
<1>3. ASSUME NEW ch \in Chat, NEW p \in Player, JoinNew(ch, p)
      PROVE  OlderTimersCancelled'
  <2>1. made + 1 \in Games /\ ~Gathers(made + 1)
    BY <1>3, BufferAssumption DEF JoinNew, TypeOK, TableOK
  <2> QED BY <1>2, <1>3, <2>1 DEF JoinNew
<1>4. ASSUME NEW ch \in Chat, NEW p \in Player, JoinMore(ch, p) \/ JoinLast(ch, p)
      PROVE  OlderTimersCancelled'
  <2>1. channels[ch] \in Games /\ Gathers(channels[ch])
    BY <1>4, RegisteredGame DEF JoinMore, JoinLast, Joins, TypeOK
  <2> QED BY <1>2, <1>4, <2>1 DEF JoinMore, JoinLast
<1>5. CASE UNCHANGED state /\ Tick
  <2>1. \A c \in Games : \A k \in DOMAIN timers[c] :
          timers'[c][k].cancelled = timers[c][k].cancelled
    BY <1>5 DEF Tick, TypeOK, TimersOK, Timer
  <2>2. \A c \in Games : DOMAIN timers'[c] = DOMAIN timers[c] /\ Len(timers'[c]) = Len(timers[c])
    BY <1>5 DEF Tick, TypeOK, TimersOK
  <2> QED BY <1>5, <2>1, <2>2 DEF OlderTimersCancelled
<1>6. ASSUME UNCHANGED state, NEW c \in Games, NEW k \in DOMAIN timers[c],
             TimerCancelled(c, k) \/ TimerNotice(c, k) \/ TimerExpires(c, k)
      PROVE  OlderTimersCancelled'
  <2>1. PICK to \in {"waiting", "expire", "exited"} :
          timers' = [timers EXCEPT ![c] = Moved(timers[c], k, to)]
    BY <1>6 DEF TimerCancelled, TimerNotice, TimerExpires, TimerStep, Moved
  <2>2. /\ DOMAIN timers'[c] = DOMAIN timers[c] /\ Len(timers'[c]) = Len(timers[c])
        /\ \A j \in DOMAIN timers[c] : timers'[c][j].cancelled = timers[c][j].cancelled
    <3>1. timers[c] \in Seq(Timer) /\ timers'[c] = Moved(timers[c], k, to)
      BY <1>0, <2>1 DEF TypeOK, TimersOK
    <3>2. Len(timers'[c]) = Len(timers[c]) /\ DOMAIN timers'[c] = DOMAIN timers[c]
      BY <3>1, MovedLen
    <3>3. timers'[c][k].cancelled = timers[c][k].cancelled
      BY <3>1, MovedTimer
    <3>4. ASSUME NEW j \in DOMAIN timers[c], j # k PROVE timers'[c][j] = timers[c][j]
      BY <3>1, <3>4, MovedOthers
    <3> QED BY <3>2, <3>3, <3>4
  <2>3. \A d \in Games : d # c => timers'[d] = timers[d]
    BY <2>1 DEF TypeOK, TimersOK
  <2> QED BY <1>6, <2>2, <2>3 DEF OlderTimersCancelled
<1>7. ASSUME UNCHANGED timers, NEW c \in Games, GameFinishes(c) \/ GameSendsFinished(c)
      PROVE  OlderTimersCancelled'
  BY <1>2, <1>7 DEF GameFinishes, GameSendsFinished
<1> QED BY <1>1, <1>3, <1>4, <1>5, <1>6, <1>7, TimerSteps, Stutters

\* Whatever the order of joins and of the timers' own steps, only the newest
\* timer of a lobby that still gathers players can run its full time (bot.go
\* startQuorumTimer, cmdJoin).
THEOREM OldTimersAreCancelled == Spec => []OlderTimersCancelled
<1>1. Init => OlderTimersCancelled
  BY DEF Init, OlderTimersCancelled
<1> QED BY <1>1, InitType, NextType, OlderTimersNext, PTL DEF Spec

(***************************************************************************)
(* The quorum.                                                             *)
(***************************************************************************)

LEMMA PlayersFinite == \A S \in SUBSET Player : IsFiniteSet(S) /\ Cardinality(S) \in Nat
<1> SUFFICES ASSUME NEW S \in SUBSET Player
             PROVE  IsFiniteSet(S) /\ Cardinality(S) \in Nat
  OBVIOUS
<1>1. IsFiniteSet(S)
  BY QuorumAssumption, FS_Subset
<1> QED BY <1>1, FS_CardinalityType

\* A player who joins counts once.
LEMMA JoinsCount ==
  ASSUME NEW S \in SUBSET Player, NEW p \in Player, p \notin S
  PROVE  Cardinality(S \cup {p}) = Cardinality(S) + 1
  BY PlayersFinite, FS_AddElement

\* Only /join counts players or starts a game.
LEMMA QuorumSteps ==
  Next =>
    \/ UNCHANGED <<quorumPlayer, state, made>>
    \/ \E ch \in Chat, p \in Player : JoinNew(ch, p) \/ JoinMore(ch, p) \/ JoinLast(ch, p)
    \/ UNCHANGED <<quorumPlayer, made>>
       /\ \E c \in Games : GameFinishes(c) \/ GameSendsFinished(c)
<1> SUFFICES ASSUME Next
             PROVE  \/ UNCHANGED <<quorumPlayer, state, made>>
                    \/ \E ch \in Chat, p \in Player :
                         JoinNew(ch, p) \/ JoinMore(ch, p) \/ JoinLast(ch, p)
                    \/ UNCHANGED <<quorumPlayer, made>>
                       /\ \E c \in Games : GameFinishes(c) \/ GameSendsFinished(c)
  OBVIOUS
<1>1. ASSUME NEW ch \in Chat, Text(ch) PROVE UNCHANGED <<quorumPlayer, state, made>>
  BY <1>1 DEF Text, lobby, game
<1>2. CASE TextDelivered \/ HandleTimeout \/ HandleFinished \/ OutboxForwards
  BY <1>2 DEF TextDelivered, HandleTimeout, HandleFinished, OutboxForwards, lobby, game,
              inbox
<1>3. ASSUME NEW g \in Group, Upgrade(g) PROVE UNCHANGED <<quorumPlayer, state, made>>
  BY <1>3 DEF Upgrade, game
<1>4. CASE Tick
  BY <1>4 DEF Tick, game, inbox
<1>5. ASSUME NEW c \in Games, NEW k \in DOMAIN timers[c],
             TimerCancelled(c, k) \/ TimerNotice(c, k) \/ TimerExpires(c, k)
      PROVE  UNCHANGED <<quorumPlayer, state, made>>
  BY <1>5 DEF TimerCancelled, TimerNotice, TimerExpires, TimerStep, game, inbox
<1>6. ASSUME NEW c \in Games, GameReads(c) \/ GameFinishes(c) \/ GameSendsFinished(c)
      PROVE  UNCHANGED <<quorumPlayer, made>> /\ (GameReads(c) => UNCHANGED state)
  BY <1>6 DEF GameReads, GameFinishes, GameSendsFinished, lobby, inbox
<1>7. ASSUME NEW c \in Games, NotifierCancelled(c) \/ NotifierFires(c) \/ NotifierDone(c)
      PROVE  UNCHANGED <<quorumPlayer, state, made>>
  BY <1>7 DEF NotifierCancelled, NotifierFires, NotifierDone, NotifierStep, game, inbox
<1>8. CASE Idle
  BY <1>8, Stutters DEF Idle
<1> QED BY <1>1, <1>2, <1>3, <1>4, <1>5, <1>6, <1>7, <1>8 DEF Next

\* The quorum of one game.
QuorumOf(players, st) ==
  IF st = "created" THEN Cardinality(players) < MinQuorum
                    ELSE Cardinality(players) = MinQuorum

LEMMA QuorumNext == TypeOK /\ QuorumStartsGame /\ [Next]_vars => QuorumStartsGame'
<1> SUFFICES ASSUME TypeOK, QuorumStartsGame, [Next]_vars PROVE QuorumStartsGame'
  OBVIOUS
<1>0. /\ \A c \in 1..made : QuorumOf(quorumPlayer[c], state[c]) /\ c \in Games
      /\ quorumPlayer \in [Games -> SUBSET Player]
      /\ state \in [Games -> {"none", "created", "started", "finished", "done"}]
      /\ made \in Nat
  BY BufferAssumption DEF QuorumStartsGame, QuorumOf, TypeOK, TableOK, ObjectsOK, Games
<1>1. CASE UNCHANGED <<quorumPlayer, state, made>>
  BY <1>1 DEF QuorumStartsGame
<1>2. ASSUME NEW ch \in Chat, NEW p \in Player, JoinNew(ch, p) PROVE QuorumStartsGame'
  <2> DEFINE c == made + 1
  <2>1. c \in Games /\ made' = c
    BY <1>2 DEF JoinNew
  <2>2. quorumPlayer'[c] = {p} /\ Cardinality({p}) = 1
    BY <1>0, <1>2, <2>1, FS_Singleton DEF JoinNew
  <2>3. state'[c] = IF MinQuorum = 1 THEN "started" ELSE "created"
    BY <1>0, <1>2, <2>1 DEF JoinNew
  <2>4. QuorumOf(quorumPlayer'[c], state'[c])
    BY <2>2, <2>3, QuorumAssumption DEF QuorumOf
  <2>5. \A d \in 1..made : quorumPlayer'[d] = quorumPlayer[d] /\ state'[d] = state[d]
    <3> SUFFICES ASSUME NEW d \in 1..made
                 PROVE  quorumPlayer'[d] = quorumPlayer[d] /\ state'[d] = state[d]
      OBVIOUS
    <3>1. d # c
      BY <1>0
    <3> QED BY <1>0, <1>2, <3>1 DEF JoinNew
  <2>6. \A d \in 1..made' : QuorumOf(quorumPlayer'[d], state'[d])
    <3> SUFFICES ASSUME NEW d \in 1..made' PROVE QuorumOf(quorumPlayer'[d], state'[d])
      OBVIOUS
    <3>1. d = c \/ d \in 1..made
      BY <1>0, <2>1
    <3> QED BY <1>0, <2>4, <2>5, <3>1
  <2> QED BY <2>6 DEF QuorumStartsGame, QuorumOf
<1>3. ASSUME NEW ch \in Chat, NEW p \in Player, JoinMore(ch, p) \/ JoinLast(ch, p)
      PROVE  QuorumStartsGame'
  <2> DEFINE c == channels[ch]
  <2>1. /\ c # NoGame /\ state[c] = "created" /\ p \notin quorumPlayer[c]
        /\ quorumPlayer' = [quorumPlayer EXCEPT ![c] = @ \cup {p}]
        /\ UNCHANGED <<inbox, chat>>
    BY <1>3 DEF JoinMore, JoinLast, Joins
  <2>2. c \in 1..made /\ c \in Games /\ made' = made
    BY <2>1, RegisteredGame DEF TypeOK, inbox
  <2>3. Cardinality(quorumPlayer[c]) < MinQuorum
    BY <1>0, <2>1, <2>2 DEF QuorumOf
  <2>4. /\ quorumPlayer[c] \in SUBSET Player /\ Cardinality(quorumPlayer[c]) \in Nat
        /\ quorumPlayer'[c] = quorumPlayer[c] \cup {p}
    BY <1>0, <2>1, <2>2, PlayersFinite
  <2>5. Cardinality(quorumPlayer'[c]) = Cardinality(quorumPlayer[c]) + 1
    BY <2>1, <2>4, JoinsCount
  <2>6. QuorumOf(quorumPlayer'[c], state'[c])
    <3>1. CASE JoinMore(ch, p)
      <4>1. Cardinality(quorumPlayer'[c]) # MinQuorum /\ state'[c] = "created"
        BY <2>1, <3>1 DEF JoinMore
      <4> QED BY <2>3, <2>4, <2>5, <4>1, QuorumAssumption DEF QuorumOf
    <3>2. CASE JoinLast(ch, p)
      <4>1. Cardinality(quorumPlayer'[c]) = MinQuorum /\ state'[c] = "started"
        BY <1>0, <2>2, <3>2 DEF JoinLast
      <4> QED BY <4>1 DEF QuorumOf
    <3> QED BY <1>3, <3>1, <3>2
  <2>7. \A d \in 1..made : d # c =>
          quorumPlayer'[d] = quorumPlayer[d] /\ state'[d] = state[d]
    BY <1>0, <1>3, <2>1 DEF JoinMore, JoinLast
  <2>8. \A d \in 1..made' : QuorumOf(quorumPlayer'[d], state'[d])
    BY <1>0, <2>2, <2>6, <2>7
  <2> QED BY <2>8 DEF QuorumStartsGame, QuorumOf
<1>4. ASSUME UNCHANGED <<quorumPlayer, made>>, NEW c \in Games,
             GameFinishes(c) \/ GameSendsFinished(c)
      PROVE  QuorumStartsGame'
  <2>1. /\ state[c] # "created" /\ state'[c] # "created"
        /\ \A d \in Games : d # c => state'[d] = state[d]
    BY <1>0, <1>4 DEF GameFinishes, GameSendsFinished
  <2>2. \A d \in 1..made' : QuorumOf(quorumPlayer'[d], state'[d])
    BY <1>0, <1>4, <2>1 DEF QuorumOf
  <2> QED BY <2>2 DEF QuorumStartsGame, QuorumOf
<1> QED BY <1>1, <1>2, <1>3, <1>4, QuorumSteps, Stutters

\* A game starts with its last player and never without, whatever else happens
\* to its chat (commands.go cmdJoin).
THEOREM GamesStartWithAQuorum == Spec => []QuorumStartsGame
<1>1. Init => QuorumStartsGame
  BY DEF Init, QuorumStartsGame
<1> QED BY <1>1, InitType, NextType, QuorumNext, PTL DEF Spec

\* Only handleInbox and the games touch the games' In.
LEMMA TextSteps ==
  Next =>
    \/ UNCHANGED <<sending, inQueue>>
    \/ \E ch \in Chat : Text(ch)
    \/ TextDelivered
    \/ \E c \in Games : GameReads(c)
<1> SUFFICES ASSUME Next
             PROVE  \/ UNCHANGED <<sending, inQueue>>
                    \/ \E ch \in Chat : Text(ch)
                    \/ TextDelivered
                    \/ \E c \in Games : GameReads(c)
  OBVIOUS
<1>1. ASSUME NEW ch \in Chat, NEW p \in Player,
             JoinNew(ch, p) \/ JoinMore(ch, p) \/ JoinLast(ch, p)
      PROVE  UNCHANGED <<sending, inQueue>>
  BY <1>1 DEF JoinNew, JoinMore, JoinLast, Joins, inbox
<1>2. CASE HandleTimeout \/ HandleFinished \/ OutboxForwards \/ Tick
  BY <1>2 DEF HandleTimeout, HandleFinished, OutboxForwards, Tick, game, inbox
<1>3. ASSUME NEW g \in Group, Upgrade(g) PROVE UNCHANGED <<sending, inQueue>>
  BY <1>3 DEF Upgrade, game
<1>5. ASSUME NEW c \in Games, NEW k \in DOMAIN timers[c],
             TimerCancelled(c, k) \/ TimerNotice(c, k) \/ TimerExpires(c, k)
      PROVE  UNCHANGED <<sending, inQueue>>
  BY <1>5 DEF TimerCancelled, TimerNotice, TimerExpires, TimerStep, game, inbox
<1>6. ASSUME NEW c \in Games, GameFinishes(c) \/ GameSendsFinished(c)
      PROVE  UNCHANGED <<sending, inQueue>>
  BY <1>6 DEF GameFinishes, GameSendsFinished, inbox
<1>7. ASSUME NEW c \in Games, NotifierCancelled(c) \/ NotifierFires(c) \/ NotifierDone(c)
      PROVE  UNCHANGED <<sending, inQueue>>
  BY <1>7 DEF NotifierCancelled, NotifierFires, NotifierDone, NotifierStep, game, inbox
<1>8. CASE Idle
  BY <1>8, Stutters DEF Idle
<1> QED BY <1>1, <1>2, <1>3, <1>5, <1>6, <1>7, <1>8 DEF Next

\* A game that started stays started.
LEMMA StartedStays ==
  ASSUME TypeOK, [Next]_vars, NEW c \in Games, state[c] \notin {"none", "created"}
  PROVE  state'[c] \notin {"none", "created"}
<1>0. state \in [Games -> {"none", "created", "started", "finished", "done"}]
  BY DEF TypeOK, TableOK
<1>1. ASSUME NEW ch \in Chat, NEW p \in Player, JoinNew(ch, p)
      PROVE  state'[c] \notin {"none", "created"}
  <2>1. state[made + 1] = "none"
    BY <1>1, BufferAssumption DEF JoinNew, TypeOK, TableOK, Games
  <2> QED BY <1>0, <1>1, <2>1 DEF JoinNew
<1>2. ASSUME NEW ch \in Chat, NEW p \in Player, JoinMore(ch, p) \/ JoinLast(ch, p)
      PROVE  state'[c] \notin {"none", "created"}
  BY <1>0, <1>2 DEF JoinMore, JoinLast
<1>3. ASSUME NEW d \in Games, GameFinishes(d) \/ GameSendsFinished(d)
      PROVE  state'[c] \notin {"none", "created"}
  BY <1>0, <1>3 DEF GameFinishes, GameSendsFinished
<1> QED BY <1>1, <1>2, <1>3, QuorumSteps, Stutters

LEMMA TextsNext ==
  TypeOK /\ QuorumStartsGame /\ OnlyStartedGamesGetTexts /\ [Next]_vars
    => OnlyStartedGamesGetTexts'
<1> SUFFICES ASSUME TypeOK, QuorumStartsGame, OnlyStartedGamesGetTexts, [Next]_vars,
                    NEW c \in Games, sending' = c \/ inQueue'[c] > 0
             PROVE  state'[c] \notin {"none", "created"}
  BY DEF OnlyStartedGamesGetTexts
<1> SUFFICES state[c] \notin {"none", "created"}
  BY StartedStays
<1>0. (sending = c \/ inQueue[c] > 0) => state[c] \notin {"none", "created"}
  BY DEF OnlyStartedGamesGetTexts
<1>1. CASE UNCHANGED <<sending, inQueue>>
  BY <1>0, <1>1
<1>2. ASSUME NEW ch \in Chat, Text(ch) PROVE state[c] \notin {"none", "created"}
  <2>1. CASE inQueue'[c] > 0
    BY <1>0, <1>2, <2>1 DEF Text, game
  <2>2. CASE sending' = c
    <3>1. /\ channels[ch] = c /\ c # NoGame
          /\ Cardinality(quorumPlayer[c]) >= MinQuorum
      BY <1>2, <2>2 DEF Text
    <3>2. c \in 1..made
      BY <3>1, RegisteredGame DEF TypeOK
    <3>3. state[c] # "none"
      BY <3>2 DEF TypeOK, TableOK
    <3>4. quorumPlayer[c] \in SUBSET Player
      BY DEF TypeOK, ObjectsOK
    <3>5. Cardinality(quorumPlayer[c]) \in Nat
      BY <3>4, PlayersFinite
    <3>6. state[c] # "created"
      BY <3>1, <3>2, <3>5, QuorumAssumption DEF QuorumStartsGame
    <3> QED BY <3>3, <3>6
  <2> QED BY <2>1, <2>2
<1>3. CASE TextDelivered
  <2>1. /\ sending' = NoGame /\ c # NoGame
        /\ inQueue' = [inQueue EXCEPT ![sending] = @ + 1]
    BY <1>3 DEF TextDelivered, NoGame, Games
  <2>2. sending = c \/ inQueue'[c] = inQueue[c]
    BY <2>1 DEF TypeOK, ObjectsOK
  <2> QED BY <1>0, <2>1, <2>2
<1>4. ASSUME NEW d \in Games, GameReads(d) PROVE state[c] \notin {"none", "created"}
  <2>1. d = c \/ inQueue'[c] = inQueue[c]
    BY <1>4 DEF GameReads, TypeOK, ObjectsOK
  <2>2. sending' = sending /\ state[d] = "started"
    BY <1>4 DEF GameReads, inbox
  <2> QED BY <1>0, <2>1, <2>2
<1> QED BY <1>1, <1>2, <1>3, <1>4, TextSteps, Stutters

\* The players of the channel object and the State of its game agree: nothing is
\* put on the In of a game that nobody reads yet (bot.go:138-166).
THEOREM TextsGoToStartedGames == Spec => []OnlyStartedGamesGetTexts
<1>1. Init => OnlyStartedGamesGetTexts
  BY DEF Init, OnlyStartedGamesGetTexts, NoGame, Games
<1>2. Init => QuorumStartsGame
  BY DEF Init, QuorumStartsGame
<1> QED BY <1>1, <1>2, InitType, NextType, QuorumNext, TextsNext, PTL DEF Spec

(***************************************************************************)
(* The life of each game.                                                  *)
(***************************************************************************)

\* What GameLife allows of a game in one step.
LEMMA StepOfLife ==
  ASSUME NEW c \in Games,
         \/ UNCHANGED <<state[c], inQueue[c]>>
         \/ state[c] = "none" /\ state'[c] = "created" /\ UNCHANGED inQueue[c]
         \/ state[c] \in {"none", "created"} /\ state'[c] = "started" /\ UNCHANGED inQueue[c]
         \/ state[c] \notin {"none", "created"} /\ UNCHANGED state[c]
            /\ inQueue'[c] = inQueue[c] + 1
         \/ state[c] = "started" /\ UNCHANGED state[c] /\ inQueue[c] > 0
            /\ inQueue'[c] = inQueue[c] - 1
         \/ state[c] = "started" /\ state'[c] = "finished" /\ UNCHANGED inQueue[c]
         \/ state[c] = "finished" /\ state'[c] = "done" /\ UNCHANGED inQueue[c]
  PROVE  [Life(c)!Next]_(Life(c)!vars)
BY DEF Life!Next, Life!vars, Life!Begin, Life!Put, Life!Read, Life!End, Life!Tell

LEMMA LivesNext ==
  ASSUME TypeOK, OnlyStartedGamesGetTexts, [Next]_vars, NEW c \in Games
  PROVE  [Life(c)!Next]_(Life(c)!vars)
<1>0. /\ state \in [Games -> {"none", "created", "started", "finished", "done"}]
      /\ inQueue \in [Games -> Nat]
  BY DEF TypeOK, TableOK, ObjectsOK
<1>1. CASE UNCHANGED <<state, inQueue>>
  BY <1>1, StepOfLife
<1>2. ASSUME NEW ch \in Chat, NEW p \in Player, JoinNew(ch, p)
      PROVE  [Life(c)!Next]_(Life(c)!vars)
  <2>1. made + 1 \in Games /\ state[made + 1] = "none" /\ UNCHANGED inQueue
    BY <1>2, BufferAssumption DEF JoinNew, TypeOK, TableOK, Games
  <2>2. c # made + 1 => state'[c] = state[c]
    BY <1>0, <1>2 DEF JoinNew
  <2>3. c = made + 1 => state'[c] \in {"created", "started"}
    BY <1>0, <1>2 DEF JoinNew
  <2> QED BY <2>1, <2>2, <2>3, StepOfLife
<1>3. ASSUME NEW ch \in Chat, NEW p \in Player, JoinMore(ch, p) \/ JoinLast(ch, p)
      PROVE  [Life(c)!Next]_(Life(c)!vars)
  <2>1. UNCHANGED <<state, inQueue>> \/
        /\ UNCHANGED inQueue /\ state[channels[ch]] = "created"
        /\ state' = [state EXCEPT ![channels[ch]] = "started"]
    BY <1>3 DEF JoinMore, JoinLast, Joins
  <2> QED BY <1>0, <1>1, <2>1, StepOfLife
<1>4. CASE TextDelivered
  <2>1. /\ inQueue' = [inQueue EXCEPT ![sending] = @ + 1]
        /\ UNCHANGED state /\ sending # NoGame
    BY <1>4 DEF TextDelivered
  <2>2. c = sending => state[c] \notin {"none", "created"}
    BY DEF OnlyStartedGamesGetTexts
  <2> QED BY <1>0, <2>1, <2>2, StepOfLife
<1>5. ASSUME NEW d \in Games, GameReads(d) \/ GameFinishes(d) \/ GameSendsFinished(d)
      PROVE  [Life(c)!Next]_(Life(c)!vars)
  <2>1. CASE GameReads(d)
    BY <1>0, <2>1, StepOfLife DEF GameReads
  <2>2. CASE GameFinishes(d)
    BY <1>0, <2>2, StepOfLife DEF GameFinishes
  <2>3. CASE GameSendsFinished(d)
    BY <1>0, <2>3, StepOfLife DEF GameSendsFinished
  <2> QED BY <1>5, <2>1, <2>2, <2>3
<1>6. \/ UNCHANGED state
      \/ \E ch \in Chat, p \in Player : JoinNew(ch, p) \/ JoinMore(ch, p) \/ JoinLast(ch, p)
      \/ \E d \in Games : GameFinishes(d) \/ GameSendsFinished(d)
  BY QuorumSteps, Stutters
<1>7. \/ UNCHANGED inQueue
      \/ TextDelivered
      \/ \E d \in Games : GameReads(d)
  BY TextSteps, Stutters DEF Text, game
<1> QED BY <1>1, <1>2, <1>3, <1>4, <1>5, <1>6, <1>7

\* Every game the bot makes lives as GameLife says, and so as Game.tla runs it.
THEOREM GamesLiveAsGamesDo == Spec => GamesLive
<1>1. Init => \A c \in Games : Life(c)!Init
  BY DEF Init, Life!Init
<1>2. TypeOK /\ OnlyStartedGamesGetTexts /\ [Next]_vars
        => [\A c \in Games : [Life(c)!Next]_(Life(c)!vars)]_vars
  BY LivesNext
<1> QED BY <1>1, <1>2, TypeCorrect, TextsGoToStartedGames, PTL DEF Spec, GamesLive

(***************************************************************************)
(* The chats, when migrations arrive as values: handleInbox ignores them   *)
(* and a game keeps its ID.                                                *)
(***************************************************************************)

\* A message in a queue is still in it after the queue has moved, unless it was
\* the one that was taken.
LEMMA InQueue ==
  ASSUME NEW q \in Seq(Chat), NEW ch \in Chat
  PROVE  /\ \A e \in Chat : In(ch, q) => In(ch, Append(q, e))
         /\ In(ch, Append(q, ch))
         /\ q # <<>> /\ In(ch, q) => ch = Head(q) \/ In(ch, Tail(q))
<1>1. ASSUME NEW e \in Chat, In(ch, q) PROVE In(ch, Append(q, e))
  <2>1. PICK i \in DOMAIN q : q[i] = ch
    BY <1>1 DEF In
  <2>2. i \in DOMAIN Append(q, e) /\ Append(q, e)[i] = ch
    BY <2>1
  <2> QED BY <2>2 DEF In
<1>2. In(ch, Append(q, ch))
  <2>1. Len(q) + 1 \in DOMAIN Append(q, ch) /\ Append(q, ch)[Len(q) + 1] = ch
    OBVIOUS
  <2> QED BY <2>1 DEF In
<1>3. ASSUME q # <<>>, In(ch, q), ch # Head(q) PROVE In(ch, Tail(q))
  <2>1. PICK i \in DOMAIN q : q[i] = ch
    BY <1>3 DEF In
  <2>2. i # 1
    BY <1>3, <2>1
  <2>3. i - 1 \in DOMAIN Tail(q) /\ Tail(q)[i - 1] = q[i]
    BY <1>3, <2>1, <2>2
  <2> QED BY <2>1, <2>3 DEF In
<1> QED BY <1>1, <1>2, <1>3

\* Who registers chats and who removes them.
LEMMA ChannelSteps ==
  ASSUME MigratedAs = "value", Next
  PROVE  \/ UNCHANGED channels
         \/ \E ch \in Chat, p \in Player : JoinNew(ch, p)
         \/ HandleTimeout \/ HandleFinished
<1>1. ASSUME NEW ch \in Chat, NEW p \in Player, JoinMore(ch, p) \/ JoinLast(ch, p)
      PROVE  UNCHANGED channels
  BY <1>1 DEF JoinMore, JoinLast, Joins, inbox
<1>2. ASSUME NEW ch \in Chat, Text(ch) PROVE UNCHANGED channels
  BY <1>2 DEF Text
<1>3. CASE TextDelivered \/ OutboxForwards \/ Tick
  BY <1>3 DEF TextDelivered, OutboxForwards, Tick, inbox
<1>4. ASSUME NEW g \in Group, Upgrade(g) PROVE UNCHANGED channels
  BY <1>4 DEF Upgrade
<1>5. ASSUME NEW c \in Games, NEW k \in DOMAIN timers[c],
             TimerCancelled(c, k) \/ TimerNotice(c, k) \/ TimerExpires(c, k)
      PROVE  UNCHANGED channels
  BY <1>5 DEF TimerCancelled, TimerNotice, TimerExpires, TimerStep, inbox
<1>6. ASSUME NEW c \in Games, GameReads(c) \/ GameFinishes(c) \/ GameSendsFinished(c)
      PROVE  UNCHANGED channels
  BY <1>6 DEF GameReads, GameFinishes, GameSendsFinished, inbox
<1>7. ASSUME NEW c \in Games, NotifierCancelled(c) \/ NotifierFires(c) \/ NotifierDone(c)
      PROVE  UNCHANGED channels
  BY <1>7 DEF NotifierCancelled, NotifierFires, NotifierDone, NotifierStep, inbox
<1>8. CASE Idle
  BY <1>8, Stutters DEF Idle
<1> QED BY <1>1, <1>2, <1>3, <1>4, <1>5, <1>6, <1>7, <1>8 DEF Next

\* Who moves Finished messages, from the end of a game on.
LEMMA FinishedSteps ==
  Next =>
    \/ UNCHANGED <<gameOut, finishedChan, state>>
    \/ UNCHANGED <<gameOut, finishedChan>> /\ \E ch \in Chat, p \in Player :
         JoinNew(ch, p) \/ JoinMore(ch, p) \/ JoinLast(ch, p)
    \/ HandleFinished \/ OutboxForwards
    \/ \E c \in Games : GameFinishes(c) \/ GameSendsFinished(c)
<1> SUFFICES ASSUME Next
             PROVE  \/ UNCHANGED <<gameOut, finishedChan, state>>
                    \/ UNCHANGED <<gameOut, finishedChan>>
                       /\ \E ch \in Chat, p \in Player :
                            JoinNew(ch, p) \/ JoinMore(ch, p) \/ JoinLast(ch, p)
                    \/ HandleFinished \/ OutboxForwards
                    \/ \E c \in Games : GameFinishes(c) \/ GameSendsFinished(c)
  OBVIOUS
<1>1. ASSUME NEW ch \in Chat, NEW p \in Player,
             JoinNew(ch, p) \/ JoinMore(ch, p) \/ JoinLast(ch, p)
      PROVE  UNCHANGED <<gameOut, finishedChan>>
  BY <1>1 DEF JoinNew, JoinMore, JoinLast, Joins, queues
<1>2. ASSUME NEW ch \in Chat, Text(ch) PROVE UNCHANGED <<gameOut, finishedChan, state>>
  BY <1>2 DEF Text, queues, game
<1>3. CASE TextDelivered \/ HandleTimeout \/ Tick
  BY <1>3 DEF TextDelivered, HandleTimeout, Tick, queues, game
<1>4. ASSUME NEW g \in Group, Upgrade(g) PROVE UNCHANGED <<gameOut, finishedChan, state>>
  BY <1>4 DEF Upgrade, queues, game
<1>5. ASSUME NEW c \in Games, NEW k \in DOMAIN timers[c],
             TimerCancelled(c, k) \/ TimerNotice(c, k) \/ TimerExpires(c, k)
      PROVE  UNCHANGED <<gameOut, finishedChan, state>>
  BY <1>5 DEF TimerCancelled, TimerNotice, TimerExpires, TimerStep, game
<1>6. ASSUME NEW c \in Games, GameReads(c)
      PROVE  UNCHANGED <<gameOut, finishedChan, state>>
  BY <1>6 DEF GameReads, queues
<1>7. ASSUME NEW c \in Games, NotifierCancelled(c) \/ NotifierFires(c) \/ NotifierDone(c)
      PROVE  UNCHANGED <<gameOut, finishedChan, state>>
  BY <1>7 DEF NotifierCancelled, NotifierFires, NotifierDone, NotifierStep, queues, game
<1>8. CASE Idle
  BY <1>8, Stutters DEF Idle
<1> QED BY <1>1, <1>2, <1>3, <1>4, <1>5, <1>6, <1>7, <1>8 DEF Next

\* The Finished message of ch is due or on its way.
Pending(ch, c) == state[c] = "finished" \/ In(ch, gameOut) \/ In(ch, finishedChan)

LEMMA FinishedNext ==
  ASSUME MigratedAs = "value"
  PROVE  TypeOK /\ FinishedIsPending /\ [Next]_vars => FinishedIsPending'
<1> SUFFICES ASSUME TypeOK, FinishedIsPending, [Next]_vars,
                    NEW ch \in Chat, channels'[ch] # NoGame,
                    state'[channels'[ch]] \in {"finished", "done"}
             PROVE  Pending(ch, channels[ch])'
  BY DEF FinishedIsPending, Pending
<1> DEFINE c == channels'[ch]
<1>0. /\ state \in [Games -> {"none", "created", "started", "finished", "done"}]
      /\ gameOut \in Seq(Chat) /\ finishedChan \in Seq(Chat)
      /\ channels \in [Chat -> 0..made]
  BY DEF TypeOK, TableOK, QueuesOK
<1>1. ASSUME NEW d \in Chat, NEW p \in Player, JoinNew(d, p), c # channels[ch]
      PROVE  FALSE
  <2>1. made + 1 \in Games /\ c = made + 1
    BY <1>0, <1>1 DEF JoinNew
  <2>2. state'[c] \in {"started", "created"}
    BY <1>0, <1>1, <2>1 DEF JoinNew
  <2> QED BY <2>2
<1>2. c = channels[ch]
  <2>1. (HandleTimeout \/ HandleFinished) => c = channels[ch]
    BY <1>0 DEF HandleTimeout, HandleFinished
  <2>2. vars' = vars => c = channels[ch]
    BY Stutters
  <2> QED BY <1>1, <2>1, <2>2, ChannelSteps
<1>3. c \in Games /\ chat[c] = ch /\ channels[ch] # NoGame
  BY <1>2, RegisteredGame DEF TypeOK
<1>4. state[c] \in {"finished", "done"} => Pending(ch, c)
  BY <1>2, <1>3 DEF FinishedIsPending, Pending
<1>5. SUFFICES state'[c] = "finished" \/ In(ch, gameOut') \/ In(ch, finishedChan')
  BY DEF Pending, In
<1> HIDE DEF c
<1>6. CASE UNCHANGED <<gameOut, finishedChan, state>>
  BY <1>4, <1>6 DEF Pending, c
<1>7. ASSUME UNCHANGED <<gameOut, finishedChan>>, NEW d \in Chat, NEW p \in Player,
             JoinNew(d, p) \/ JoinMore(d, p) \/ JoinLast(d, p)
      PROVE  state'[c] = "finished" \/ In(ch, gameOut') \/ In(ch, finishedChan')
  <2>1. state'[c] = state[c]
    BY <1>0, <1>3, <1>7 DEF JoinNew, JoinMore, JoinLast, c
  <2> QED BY <1>4, <1>7, <2>1 DEF Pending, c
<1>8. CASE HandleFinished
  <2>1. /\ finishedChan # <<>> /\ finishedChan' = Tail(finishedChan)
        /\ gameOut' = gameOut /\ state' = state
        /\ channels' = [channels EXCEPT ![Head(finishedChan)] = NoGame]
    BY <1>8 DEF HandleFinished, game
  <2>2. ch # Head(finishedChan)
    BY <1>0, <2>1
  <2> QED BY <1>0, <1>4, <2>1, <2>2, InQueue DEF Pending, c
<1>9. CASE OutboxForwards
  <2>1. /\ gameOut # <<>> /\ gameOut' = Tail(gameOut) /\ state' = state
        /\ finishedChan' = Append(finishedChan, Head(gameOut))
    BY <1>9 DEF OutboxForwards, game
  <2>2. Head(gameOut) \in Chat
    BY <1>0, <2>1
  <2>3. Pending(ch, c)
    BY <1>4, <2>1 DEF c
  <2>4. CASE state[c] = "finished"
    BY <2>1, <2>4
  <2>5. CASE In(ch, gameOut)
    <3>1. ch = Head(gameOut) \/ In(ch, Tail(gameOut))
      BY <1>0, <2>1, <2>5, InQueue
    <3>2. In(ch, Append(finishedChan, ch))
      BY <1>0, InQueue
    <3> QED BY <2>1, <3>1, <3>2
  <2>6. CASE In(ch, finishedChan)
    <3>1. In(ch, Append(finishedChan, Head(gameOut)))
      BY <1>0, <2>2, <2>6, InQueue
    <3> QED BY <2>1, <3>1
  <2> QED BY <2>3, <2>4, <2>5, <2>6 DEF Pending
<1>10. ASSUME NEW d \in Games, GameFinishes(d)
       PROVE  state'[c] = "finished" \/ In(ch, gameOut') \/ In(ch, finishedChan')
  <2>1. UNCHANGED <<gameOut, finishedChan>> /\ state' = [state EXCEPT ![d] = "finished"]
    BY <1>10 DEF GameFinishes, queues
  <2>2. d = c \/ state'[c] = state[c]
    BY <1>0, <1>3, <2>1
  <2> QED BY <1>0, <1>3, <1>4, <2>1, <2>2 DEF Pending, c
<1>11. ASSUME NEW d \in Games, GameSendsFinished(d)
       PROVE  state'[c] = "finished" \/ In(ch, gameOut') \/ In(ch, finishedChan')
  <2>1. /\ gameOut' = Append(gameOut, chat[d]) /\ chat[d] \in Chat
        /\ finishedChan' = finishedChan /\ state' = [state EXCEPT ![d] = "done"]
    BY <1>11 DEF GameSendsFinished, TypeOK, TableOK
  <2>2. CASE d = c
    <3>1. In(ch, Append(gameOut, ch))
      BY <1>0, InQueue
    <3> QED BY <1>3, <2>1, <2>2, <3>1
  <2>3. CASE d # c
    <3>1. state'[c] = state[c]
      BY <1>0, <1>3, <2>1, <2>3
    <3>2. In(ch, gameOut) => In(ch, gameOut')
      BY <1>0, <2>1, InQueue
    <3> QED BY <1>4, <2>1, <3>1, <3>2 DEF Pending, c
  <2> QED BY <2>2, <2>3
<1>12. vars' = vars => UNCHANGED <<gameOut, finishedChan, state>>
  BY Stutters
<1> QED BY <1>6, <1>7, <1>8, <1>9, <1>10, <1>11, <1>12, FinishedSteps

\* No finished game keeps its chat, with any number of games ending and being
\* followed by others in the same chat (bot.go:176-177 and 231-233), as the
\* client delivers migrations.
THEOREM FinishedGamesAreFreed ==
  ASSUME MigratedAs = "value"
  PROVE  Spec => []FinishedIsPending
<1>1. Init => FinishedIsPending
  BY DEF Init, FinishedIsPending
<1> QED BY <1>1, InitType, NextType, FinishedNext, PTL DEF Spec

\* Who sends and takes timeouts.
LEMMA TimeoutSteps ==
  Next =>
    \/ UNCHANGED <<timers, state, timeoutChan>>
    \/ UNCHANGED timeoutChan /\ \E ch \in Chat, p \in Player :
         JoinNew(ch, p) \/ JoinMore(ch, p) \/ JoinLast(ch, p)
    \/ HandleTimeout \/ Tick
    \/ \E c \in Games : \E k \in DOMAIN timers[c] :
         TimerCancelled(c, k) \/ TimerNotice(c, k) \/ TimerExpires(c, k)
    \/ UNCHANGED <<timers, timeoutChan>>
       /\ \E c \in Games : GameFinishes(c) \/ GameSendsFinished(c)
<1> SUFFICES ASSUME Next
             PROVE  \/ UNCHANGED <<timers, state, timeoutChan>>
                    \/ UNCHANGED timeoutChan /\ \E ch \in Chat, p \in Player :
                         JoinNew(ch, p) \/ JoinMore(ch, p) \/ JoinLast(ch, p)
                    \/ HandleTimeout \/ Tick
                    \/ \E c \in Games : \E k \in DOMAIN timers[c] :
                         TimerCancelled(c, k) \/ TimerNotice(c, k) \/ TimerExpires(c, k)
                    \/ UNCHANGED <<timers, timeoutChan>>
                       /\ \E c \in Games : GameFinishes(c) \/ GameSendsFinished(c)
  OBVIOUS
<1>1. ASSUME NEW ch \in Chat, NEW p \in Player,
             JoinNew(ch, p) \/ JoinMore(ch, p) \/ JoinLast(ch, p)
      PROVE  UNCHANGED timeoutChan
  BY <1>1 DEF JoinNew, JoinMore, JoinLast, Joins, queues
<1>2. ASSUME NEW ch \in Chat, Text(ch) PROVE UNCHANGED <<timers, state, timeoutChan>>
  BY <1>2 DEF Text, queues, game, lobby
<1>3. CASE TextDelivered \/ HandleFinished \/ OutboxForwards
  BY <1>3 DEF TextDelivered, HandleFinished, OutboxForwards, queues, game, lobby
<1>4. ASSUME NEW g \in Group, Upgrade(g) PROVE UNCHANGED <<timers, state, timeoutChan>>
  BY <1>4 DEF Upgrade, queues, game
<1>6. ASSUME NEW c \in Games, GameReads(c) \/ GameFinishes(c) \/ GameSendsFinished(c)
      PROVE  UNCHANGED <<timers, timeoutChan>> /\ (GameReads(c) => UNCHANGED state)
  BY <1>6 DEF GameReads, GameFinishes, GameSendsFinished, queues, lobby
<1>7. ASSUME NEW c \in Games, NotifierCancelled(c) \/ NotifierFires(c) \/ NotifierDone(c)
      PROVE  UNCHANGED <<timers, state, timeoutChan>>
  BY <1>7 DEF NotifierCancelled, NotifierFires, NotifierDone, NotifierStep, queues, game
<1>8. CASE Idle
  BY <1>8, Stutters DEF Idle
<1> QED BY <1>1, <1>2, <1>3, <1>4, <1>6, <1>7, <1>8 DEF Next

\* The timers ts will end the lobby of ch, or its timeout is in the queue.
Ends(ch, ts, queue) ==
  /\ ts # <<>> /\ ~ts[Len(ts)].cancelled
  /\ ts[Len(ts)].stage = "exited" => In(ch, queue)

\* A timer that was just started ends its lobby.
LEMMA StartedEnds ==
  ASSUME NEW ts \in Seq(Timer), NEW ch, NEW queue
  PROVE  Ends(ch, Started(ts), queue)
<1>1. /\ Started(ts) \in Seq(Timer) /\ Len(Started(ts)) = Len(ts) + 1
      /\ Started(ts)[Len(ts) + 1] = FreshTimer
  BY StartedTimers
<1>2. Started(ts) # <<>>
  BY <1>1
<1>3. ~FreshTimer.cancelled /\ FreshTimer.stage = "waiting"
  BY DEF FreshTimer
<1> QED BY <1>1, <1>2, <1>3 DEF Ends

LEMMA LobbyHasTimerNext ==
  ASSUME MigratedAs = "value"
  PROVE  TypeOK /\ LobbyHasTimer /\ [Next]_vars => LobbyHasTimer'
<1> SUFFICES ASSUME TypeOK, LobbyHasTimer, [Next]_vars,
                    NEW ch \in Chat, channels'[ch] # NoGame,
                    state'[channels'[ch]] = "created"
             PROVE  Ends(ch, timers'[channels'[ch]], timeoutChan')
  BY DEF LobbyHasTimer, Ends, Current, In
<1> DEFINE c == channels'[ch]
<1>0. /\ state \in [Games -> {"none", "created", "started", "finished", "done"}]
      /\ timeoutChan \in Seq(Chat) /\ channels \in [Chat -> 0..made]
      /\ timers \in [Games -> Seq(Timer)] /\ made \in Nat
  BY BufferAssumption DEF TypeOK, TableOK, QueuesOK, TimersOK
<1>1. ASSUME NEW d \in Chat, NEW p \in Player, JoinNew(d, p), c # channels[ch]
      PROVE  Ends(ch, timers'[c], timeoutChan')
  <2>1. made + 1 \in Games /\ c = made + 1
    BY <1>0, <1>1 DEF JoinNew
  <2>2. MinQuorum # 1
    BY <1>0, <1>1, <2>1 DEF JoinNew
  <2>3. timers'[c] = Started(timers[c]) /\ timers[c] \in Seq(Timer)
    BY <1>0, <1>1, <2>1, <2>2 DEF JoinNew
  <2> QED BY <2>3, StartedEnds
<1>2. SUFFICES ASSUME c = channels[ch] PROVE Ends(ch, timers'[c], timeoutChan')
  <2>1. (HandleTimeout \/ HandleFinished) => c = channels[ch]
    BY <1>0 DEF HandleTimeout, HandleFinished
  <2>2. vars' = vars => c = channels[ch]
    BY Stutters
  <2> QED BY <1>1, <1>2, <2>1, <2>2, ChannelSteps
<1>3. c \in Games /\ c \in 1..made /\ chat[c] = ch /\ c # NoGame
  BY <1>2, RegisteredGame DEF TypeOK
<1>4. state[c] = "created" => Ends(ch, timers[c], timeoutChan)
  BY <1>2, <1>3 DEF LobbyHasTimer, Ends, Current
<1>5. state'[c] = "created"
  OBVIOUS
<1>6. /\ channels[ch] = c /\ channels'[ch] = c /\ timers[c] \in Seq(Timer)
  BY <1>0, <1>2, <1>3
<1> HIDE DEF c
<1>7. CASE UNCHANGED <<timers, state, timeoutChan>>
  BY <1>4, <1>5, <1>7
<1>8. ASSUME UNCHANGED timeoutChan, NEW d \in Chat, NEW p \in Player, JoinNew(d, p)
      PROVE  Ends(ch, timers'[c], timeoutChan')
  <2>1. c # made + 1
    BY <1>0, <1>3
  <2>2. timers'[c] = timers[c] /\ state'[c] = state[c]
    BY <1>0, <1>3, <1>8, <2>1 DEF JoinNew
  <2> QED BY <1>4, <1>5, <1>8, <2>2
<1>9. ASSUME UNCHANGED timeoutChan, NEW d \in Chat, NEW p \in Player,
             JoinMore(d, p) \/ JoinLast(d, p)
      PROVE  Ends(ch, timers'[c], timeoutChan')
  <2>1. CASE channels[d] = c
    <3>1. ~JoinLast(d, p)
      BY <1>0, <1>3, <1>5, <2>1 DEF JoinLast
    <3>2. timers'[c] = Started(Cancelled(timers[c]))
      BY <1>0, <1>3, <1>9, <2>1, <3>1 DEF JoinMore
    <3>3. Cancelled(timers[c]) \in Seq(Timer)
      BY <1>6, CancelledType
    <3> QED BY <3>2, <3>3, StartedEnds
  <2>2. CASE channels[d] # c
    <3>1. timers'[c] = timers[c] /\ state'[c] = state[c]
      BY <1>0, <1>3, <1>9, <2>2 DEF JoinMore, JoinLast
    <3> QED BY <1>4, <1>5, <1>9, <3>1
  <2> QED BY <2>1, <2>2
<1>10. CASE HandleTimeout
  <2>1. /\ timeoutChan # <<>> /\ timeoutChan' = Tail(timeoutChan)
        /\ timers' = timers /\ state' = state
        /\ channels' = [channels EXCEPT ![Head(timeoutChan)] = NoGame]
    BY <1>10 DEF HandleTimeout, game, lobby
  <2>2. ch # Head(timeoutChan)
    BY <1>0, <1>3, <1>6, <2>1
  <2>3. In(ch, timeoutChan) => In(ch, timeoutChan')
    BY <1>0, <2>1, <2>2, InQueue
  <2> QED BY <1>4, <1>5, <2>1, <2>3 DEF Ends
<1>11. CASE Tick
  <2>1. /\ DOMAIN timers'[c] = DOMAIN timers[c] /\ Len(timers'[c]) = Len(timers[c])
        /\ \A k \in DOMAIN timers[c] :
             /\ timers'[c][k].cancelled = timers[c][k].cancelled
             /\ timers'[c][k].stage = timers[c][k].stage
    BY <1>0, <1>3, <1>11 DEF Tick, Timer
  <2>2. UNCHANGED <<state, timeoutChan>>
    BY <1>11 DEF Tick, game, queues
  <2>3. Ends(ch, timers[c], timeoutChan)
    BY <1>4, <1>5, <2>2
  <2>4. Len(timers[c]) \in DOMAIN timers[c] /\ timers'[c] # <<>>
    BY <1>6, <2>1, <2>3 DEF Ends
  <2> QED BY <2>1, <2>2, <2>3, <2>4 DEF Ends
<1>12. ASSUME NEW d \in Games, NEW k \in DOMAIN timers[d],
              TimerCancelled(d, k) \/ TimerNotice(d, k) \/ TimerExpires(d, k)
       PROVE  Ends(ch, timers'[c], timeoutChan')
  <2>1. /\ state' = state /\ chat[d] \in Chat
        /\ timeoutChan' \in {timeoutChan, Append(timeoutChan, chat[d])}
    BY <1>12 DEF TimerCancelled, TimerNotice, TimerExpires, TimerStep, game, TypeOK, TableOK
  <2>2. In(ch, timeoutChan) => In(ch, timeoutChan')
    BY <1>0, <2>1, InQueue
  <2>3. Ends(ch, timers[c], timeoutChan)
    BY <1>4, <1>5, <2>1
  <2>4. PICK to \in {"waiting", "expire", "exited"} :
          /\ timers' = [timers EXCEPT ![d] = Moved(timers[d], k, to)]
          /\ to = "exited" =>
               timers[d][k].cancelled \/ timeoutChan' = Append(timeoutChan, chat[d])
    <3>1. CASE TimerCancelled(d, k)
      BY <3>1 DEF TimerCancelled, TimerStep, Moved
    <3>2. CASE TimerNotice(d, k)
      BY <3>2 DEF TimerNotice, TimerStep, Moved
    <3>3. CASE TimerExpires(d, k)
      BY <3>3 DEF TimerExpires, TimerStep, Moved
    <3> QED BY <1>12, <3>1, <3>2, <3>3
  <2>5. CASE d # c
    <3>1. timers'[c] = timers[c]
      BY <1>0, <1>3, <2>4, <2>5
    <3> QED BY <2>2, <2>3, <3>1 DEF Ends
  <2>6. CASE d = c
    <3> DEFINE us == timers'[c]
    <3>0. k \in DOMAIN timers[c] /\ timers[c] \in Seq(Timer)
      BY <1>6, <1>12, <2>6
    <3>1. us = Moved(timers[c], k, to)
      BY <1>0, <1>3, <2>4, <2>6
    <3>2. /\ us \in Seq(Timer) /\ us[k].stage = to
          /\ us[k].cancelled = timers[c][k].cancelled
      BY <3>0, <3>1, MovedTimer
    <3>3. Len(us) = Len(timers[c])
      BY <3>0, <3>1, MovedLen
    <3>4. ASSUME NEW j \in DOMAIN timers[c], j # k PROVE us[j] = timers[c][j]
      BY <3>0, <3>1, <3>4, MovedOthers
    <3> SUFFICES Ends(ch, us, timeoutChan')
      OBVIOUS
    <3> HIDE DEF us
    <3>5. us # <<>> /\ Len(us) \in DOMAIN timers[c]
      BY <1>6, <2>3, <3>2, <3>3 DEF Ends
    <3>6. CASE k # Len(us)
      <4>1. us[Len(us)] = timers[c][Len(us)]
        BY <3>4, <3>5, <3>6
      <4> QED BY <2>2, <2>3, <3>3, <3>5, <4>1 DEF Ends
    <3>7. CASE k = Len(us)
      <4>1. ~us[Len(us)].cancelled /\ us[Len(us)].stage = to
        BY <2>3, <3>2, <3>3, <3>7 DEF Ends
      <4>2. to = "exited" => In(ch, timeoutChan')
        <5>1. ~timers[c][k].cancelled
          BY <3>2, <3>7, <4>1
        <5>2. In(ch, Append(timeoutChan, ch))
          BY <1>0, InQueue
        <5> QED BY <1>3, <2>4, <2>6, <5>1, <5>2
      <4> QED BY <3>5, <4>1, <4>2 DEF Ends
    <3> QED BY <3>6, <3>7
  <2> QED BY <2>5, <2>6
<1>13. ASSUME UNCHANGED <<timers, timeoutChan>>, NEW d \in Games,
              GameFinishes(d) \/ GameSendsFinished(d)
       PROVE  Ends(ch, timers'[c], timeoutChan')
  <2>1. state[c] = "created"
    BY <1>0, <1>3, <1>5, <1>13 DEF GameFinishes, GameSendsFinished
  <2> QED BY <1>4, <1>13, <2>1
<1>14. vars' = vars => UNCHANGED <<timers, state, timeoutChan>>
  BY Stutters
<1> QED BY <1>7, <1>8, <1>9, <1>10, <1>11, <1>12, <1>13, <1>14, TimeoutSteps

\* No lobby waits for ever: one that still gathers players has a live quorum
\* timer or its timeout is in the queue, as the client delivers migrations
\* (bot.go startQuorumTimer, cmdJoin and the case of timeoutChan).
THEOREM LobbiesHaveTimers ==
  ASSUME MigratedAs = "value"
  PROVE  Spec => []LobbyHasTimer
<1>1. Init => LobbyHasTimer
  BY DEF Init, LobbyHasTimer
<1> QED BY <1>1, InitType, NextType, LobbyHasTimerNext, PTL DEF Spec
=============================================================================
