----------------------------- MODULE CycleProofs -----------------------------
(***************************************************************************)
(* What holds of QuestionCycle for every number of questions, of rounds,   *)
(* of games and of crashes, with migrations as the client delivers them.   *)
(***************************************************************************)
EXTENDS QuestionCycle, LobbyProofs

(***************************************************************************)
(* Turns that are less than a cycle apart have different questions.        *)
(***************************************************************************)

LEMMA NoMultipleBetween ==
  ASSUME NEW c \in Nat \ {0}, NEW d \in Int, NEW k \in Int, d = c * k, 0 < d, d < c
  PROVE  FALSE
<1>1. k >= 1
  <2>1. SUFFICES ASSUME k <= 0 PROVE FALSE
    OBVIOUS
  <2>2. c * k <= 0
    BY <2>1
  <2> QED BY <2>2
<1>2. c * k >= c
  BY <1>1
<1> QED BY <1>2

LEMMA OtherTurn ==
  ASSUME NEW c \in Nat \ {0}, NEW x \in Nat, NEW y \in Nat, 0 < y - x, y - x < c
  PROVE  x % c # y % c
<1> SUFFICES ASSUME x % c = y % c PROVE FALSE
  OBVIOUS
<1>1. x = c * (x \div c) + (x % c) /\ x \div c \in Int
  OBVIOUS
<1>2. y = c * (y \div c) + (y % c) /\ y \div c \in Int
  OBVIOUS
<1> DEFINE k == (y \div c) - (x \div c)
<1>3. y - x = c * (y \div c) - c * (x \div c)
  BY <1>1, <1>2
<1>4. c * (y \div c) - c * (x \div c) = c * k
  BY <1>1, <1>2
<1>5. k \in Int /\ y - x \in Int /\ y - x = c * k
  BY <1>1, <1>2, <1>3, <1>4
<1> HIDE DEF k
<1> QED BY <1>5, NoMultipleBetween

LEMMA LimitsType == QuestionLimits \subseteq Int
  BY CycleAssumption DEF QuestionLimits, DefaultQuestionLimit

LEMMA CycleType ==
  ASSUME NEW limit \in Int
  PROVE  Cycle(QuestionCount, limit) \in Nat \ {0}
  BY CycleAssumption DEF Cycle

LEMMA OtherQuestion ==
  ASSUME NEW a, NEW b, a.turn \in Nat, b.turn \in Nat, b.limit \in Int,
         CycleOf(a) = CycleOf(b),
         0 < b.turn - a.turn, b.turn - a.turn < CycleOf(b)
  PROVE  ~SameQuestion(a, b)
<1> DEFINE c == CycleOf(b)
<1>1. c \in Nat \ {0}
  BY CycleType DEF CycleOf
<1>2. a.turn % c # b.turn % c
  BY <1>1, OtherTurn
<1>3. a.turn % c \in Int /\ b.turn % c \in Int
  BY <1>1
<1> QED BY <1>2, <1>3 DEF SameQuestion, Place, CycleOf

(***************************************************************************)
(* What a step of the lobby does to the table and to the games.            *)
(***************************************************************************)

\* Only a first /join makes an object or gives it its ID.
LEMMA ObjectSteps ==
  ASSUME MigratedAs = "value", Next
  PROVE  UNCHANGED <<made, chat>> \/ \E ch \in Chat, p \in Player : JoinNew(ch, p)
<1>1. ASSUME NEW ch \in Chat, NEW p \in Player, JoinMore(ch, p) \/ JoinLast(ch, p)
      PROVE  UNCHANGED <<made, chat>>
  BY <1>1 DEF JoinMore, JoinLast, Joins, inbox
<1>2. ASSUME NEW ch \in Chat, Text(ch) PROVE UNCHANGED <<made, chat>>
  BY <1>2 DEF Text, lobby
<1>3. CASE TextDelivered \/ HandleTimeout \/ HandleFinished \/ OutboxForwards \/ Tick
  BY <1>3 DEF TextDelivered, HandleTimeout, HandleFinished, OutboxForwards, Tick, inbox, lobby
<1>4. ASSUME NEW g \in Group, Upgrade(g) PROVE UNCHANGED <<made, chat>>
  BY <1>4 DEF Upgrade
<1>5. ASSUME NEW c \in Games, NEW k \in DOMAIN timers[c],
             TimerCancelled(c, k) \/ TimerNotice(c, k) \/ TimerExpires(c, k)
      PROVE  UNCHANGED <<made, chat>>
  BY <1>5 DEF TimerCancelled, TimerNotice, TimerExpires, TimerStep, inbox
<1>6. ASSUME NEW c \in Games, GameReads(c) \/ GameFinishes(c) \/ GameSendsFinished(c)
      PROVE  UNCHANGED <<made, chat>>
  BY <1>6 DEF GameReads, GameFinishes, GameSendsFinished, inbox, lobby
<1>7. ASSUME NEW c \in Games, NotifierCancelled(c) \/ NotifierFires(c) \/ NotifierDone(c)
      PROVE  UNCHANGED <<made, chat>>
  BY <1>7 DEF NotifierCancelled, NotifierFires, NotifierDone, NotifierStep, inbox
<1>8. CASE Idle
  BY <1>8, Stutters DEF Idle
<1> QED BY <1>1, <1>2, <1>3, <1>4, <1>5, <1>6, <1>7, <1>8 DEF Next

Alive(c) == state[c] \in {"created", "started"}

\* Any other step leaves chats where they are or removes them, and a game that it
\* starts is the one registered for its chat.
LEMMA TableMoves ==
  ASSUME TypeOK, MigratedAs = "value", Next, NEW c \in Games,
         ~\E ch \in Chat, p \in Player : JoinNew(ch, p)
  PROVE  /\ \A ch \in Chat : channels'[ch] \in {channels[ch], NoGame}
         /\ Alive(c)' => Alive(c)
         /\ state'[c] = "started" =>
              state[c] = "started" \/ (channels'[chat[c]] = c /\ UNCHANGED channels)
<1>0. /\ state \in [Games -> {"none", "created", "started", "finished", "done"}]
      /\ channels \in [Chat -> 0..made] /\ chat \in [Games -> Chat]
      /\ \A ch \in Chat : channels[ch] # NoGame => chat[channels[ch]] = ch
  BY DEF TypeOK, TableOK
<1>1. \A ch \in Chat : channels'[ch] \in {channels[ch], NoGame}
  <2>1. CASE UNCHANGED channels
    BY <2>1
  <2>2. CASE HandleTimeout \/ HandleFinished
    BY <1>0, <2>2 DEF HandleTimeout, HandleFinished
  <2> QED BY <2>1, <2>2, ChannelSteps
<1>2. CASE UNCHANGED state
  BY <1>1, <1>2 DEF Alive
<1>3. ASSUME NEW ch \in Chat, NEW p \in Player, JoinMore(ch, p)
      PROVE  UNCHANGED state
  BY <1>3 DEF JoinMore
<1>4. ASSUME NEW ch \in Chat, NEW p \in Player, JoinLast(ch, p)
      PROVE  /\ UNCHANGED channels
             /\ channels[ch] # NoGame /\ state[channels[ch]] = "created"
             /\ state' = [state EXCEPT ![channels[ch]] = "started"]
  BY <1>4 DEF JoinLast, Joins, inbox
<1>5. ASSUME NEW ch \in Chat, NEW p \in Player, JoinLast(ch, p)
      PROVE  /\ Alive(c)' => Alive(c)
             /\ state'[c] = "started" =>
                  state[c] = "started" \/ (channels'[chat[c]] = c /\ UNCHANGED channels)
  BY <1>0, <1>4, <1>5 DEF Alive
<1>6. ASSUME NEW d \in Games, GameFinishes(d) \/ GameSendsFinished(d)
      PROVE  (Alive(c)' => Alive(c)) /\ (state'[c] = "started" => state[c] = "started")
  BY <1>0, <1>6 DEF GameFinishes, GameSendsFinished, Alive
<1> QED BY <1>1, <1>2, <1>3, <1>5, <1>6, QuorumSteps

\* A game that runs does not say that it is over before it is.
LEMMA StartedNotDone ==
  ASSUME TypeOK, Next, NEW c \in Games, state[c] = "started",
         ~\E ch \in Chat, p \in Player : JoinNew(ch, p)
  PROVE  state'[c] # "done"
<1>0. state \in [Games -> {"none", "created", "started", "finished", "done"}]
  BY DEF TypeOK, TableOK
<1>1. ASSUME NEW ch \in Chat, NEW p \in Player, JoinMore(ch, p) \/ JoinLast(ch, p)
      PROVE  state'[c] # "done"
  BY <1>0, <1>1 DEF JoinMore, JoinLast
<1>2. ASSUME NEW d \in Games, GameFinishes(d) \/ GameSendsFinished(d)
      PROVE  state'[c] # "done"
  BY <1>0, <1>2 DEF GameFinishes, GameSendsFinished
<1> QED BY <1>1, <1>2, QuorumSteps

\* A first /join, as far as the table goes.
LEMMA JoinNewMoves ==
  ASSUME TypeOK, NEW ch \in Chat, NEW p \in Player, JoinNew(ch, p)
  PROVE  /\ made' = made + 1 /\ made + 1 \in Games /\ made \in Nat
         /\ channels[ch] = NoGame /\ channels' = [channels EXCEPT ![ch] = made + 1]
         /\ chat' = [chat EXCEPT ![made + 1] = ch]
         /\ state[made + 1] = "none"
         /\ \A c \in Games : c # made + 1 => state'[c] = state[c] /\ chat'[c] = chat[c]
         /\ chat'[made + 1] = ch /\ channels'[ch] = made + 1
         /\ \A d \in Chat : d # ch => channels'[d] = channels[d]
<1>0. /\ state \in [Games -> {"none", "created", "started", "finished", "done"}]
      /\ channels \in [Chat -> 0..made] /\ chat \in [Games -> Chat]
      /\ made \in Nat /\ \A c \in Games : state[c] = "none" <=> c > made
  BY BufferAssumption DEF TypeOK, TableOK
<1>1. /\ made' = made + 1 /\ made + 1 \in Games
      /\ channels[ch] = NoGame /\ channels' = [channels EXCEPT ![ch] = made + 1]
      /\ chat' = [chat EXCEPT ![made + 1] = ch]
      /\ state' = [state EXCEPT ![made + 1] = "started"]
         \/ state' = [state EXCEPT ![made + 1] = "created"]
  BY DEF JoinNew
<1>2. state[made + 1] = "none"
  BY <1>0, <1>1 DEF Games
<1> QED BY <1>0, <1>1, <1>2

(***************************************************************************)
(* Types, and who is on the table.                                         *)
(***************************************************************************)

Asking == [game : Games, turn : Nat, limit : Int, after : Nat]

CycleTypes ==
  /\ TypeOK
  /\ played \in [Chat -> Nat] /\ totalRoundPlayed \in [Games -> Nat]
  /\ asked \in [Chat -> Seq(Asking)]
  /\ crashes \in Nat
  /\ counted \subseteq {c \in Games : state[c] = "started"}

\* A game that runs is registered for its chat, or a chat lost a game that ran.
OnTable ==
  \A c \in Games :
    state[c] = "started" => chat[c] \in orphaned \/ channels[chat[c]] = c

\* A game is asked for the first time after it was made, a process started before.
Past ==
  \A ch \in Chat : \A i \in DOMAIN asked[ch] :
    asked[ch][i].game <= made /\ asked[ch][i].after <= crashes

\* The facts about the lobby that every step keeps and is judged by.
Table == CycleTypes /\ OnTable /\ Past

\* The parts of the types that the arithmetic needs.
LEMMA TableFacts ==
  ASSUME Table
  PROVE  /\ channels \in [Chat -> 0..made] /\ chat \in [Games -> Chat] /\ made \in Nat
         /\ \A ch \in Chat : channels[ch] # NoGame =>
              channels[ch] \in Games /\ chat[channels[ch]] = ch
         /\ state \in [Games -> {"none", "created", "started", "finished", "done"}]
         /\ \A c \in Games : c \in Nat /\ (state[c] = "none" <=> c > made)
         /\ \A ch \in Chat : asked[ch] \in Seq(Asking) /\ Len(asked[ch]) \in Nat
                               /\ DOMAIN asked[ch] = 1..Len(asked[ch])
         /\ \A ch \in Chat : \A i \in DOMAIN asked[ch] :
              /\ asked[ch][i].game \in Nat /\ asked[ch][i].turn \in Nat
              /\ asked[ch][i].after \in Nat /\ asked[ch][i].limit \in Int
<1>1. /\ made \in Nat /\ MaxGames \in Nat /\ made <= MaxGames
      /\ channels \in [Chat -> 0..made] /\ chat \in [Games -> Chat]
      /\ \A ch \in Chat : channels[ch] # NoGame => chat[channels[ch]] = ch
      /\ state \in [Games -> {"none", "created", "started", "finished", "done"}]
      /\ \A c \in Games : state[c] = "none" <=> c > made
  BY BufferAssumption DEF Table, CycleTypes, TypeOK, TableOK
<1>2. \A ch \in Chat : channels[ch] # NoGame => channels[ch] \in Games
  BY <1>1 DEF Games, NoGame
<1>3. \A c \in Games : c \in Nat
  BY <1>1 DEF Games
<1>4. ASSUME NEW ch \in Chat
      PROVE  /\ asked[ch] \in Seq(Asking) /\ Len(asked[ch]) \in Nat
             /\ DOMAIN asked[ch] = 1..Len(asked[ch])
             /\ \A i \in DOMAIN asked[ch] : asked[ch][i] \in Asking
  BY DEF Table, CycleTypes
<1>5. \A a \in Asking :
        a.game \in Nat /\ a.turn \in Nat /\ a.after \in Nat /\ a.limit \in Int
  BY <1>3 DEF Asking
<1> QED BY <1>1, <1>2, <1>3, <1>4, <1>5

\* The three kinds of steps of a chat's lobby, with what they do to the counts.
LEMMA LobbyStepMoves ==
  ASSUME Table, MigratedAs = "value", LobbyStep
  PROVE  /\ UNCHANGED <<played, rounds, counted, asked, crashes, uncounted>>
         /\ orphaned \subseteq orphaned'
         /\ \A ch \in Chat : channels[ch] # NoGame /\ channels'[ch] = NoGame
                               /\ state[channels[ch]] = "started" => ch \in orphaned'
         /\ counted \subseteq {c \in Games : state'[c] = "started"}
         /\ \/ /\ UNCHANGED <<made, chat, totalRoundPlayed>>
               /\ ~\E ch \in Chat, p \in Player : JoinNew(ch, p)
            \/ \E ch \in Chat, p \in Player :
                 /\ JoinNew(ch, p)
                 /\ totalRoundPlayed' =
                      [totalRoundPlayed EXCEPT ![made + 1] = NextGame(played[ch])]
<1>1. /\ UNCHANGED <<played, rounds, counted, asked, crashes, uncounted>>
      /\ orphaned' = orphaned \cup Orphaned /\ Next /\ NewGame /\ PlaysAllRounds
  BY DEF LobbyStep
<1>2. \A ch \in Chat : channels[ch] # NoGame /\ channels'[ch] = NoGame
                        /\ state[channels[ch]] = "started" => ch \in orphaned'
  BY <1>1 DEF Orphaned
<1>0. \A c \in Games : state[c] = "none" <=> c > made
  BY TableFacts
<1>3. ASSUME NEW ch \in Chat, NEW p \in Player, JoinNew(ch, p)
      PROVE  /\ totalRoundPlayed' =
                  [totalRoundPlayed EXCEPT ![made + 1] = NextGame(played[ch])]
             /\ counted \subseteq {c \in Games : state'[c] = "started"}
  <2>1. /\ made' = made + 1 /\ made' # made /\ chat'[made'] = ch
        /\ state[made + 1] = "none"
        /\ \A c \in Games : c # made + 1 => state'[c] = state[c]
    BY <1>3, JoinNewMoves DEF Table, CycleTypes
  <2> QED BY <1>1, <2>1 DEF NewGame, Table, CycleTypes
<1>4. ASSUME ~\E ch \in Chat, p \in Player : JoinNew(ch, p)
      PROVE  /\ UNCHANGED <<made, chat, totalRoundPlayed>>
             /\ counted \subseteq {c \in Games : state'[c] = "started"}
  <2>1. UNCHANGED <<made, chat>>
    BY <1>1, <1>4, ObjectSteps
  <2>2. ASSUME NEW c \in counted PROVE c \in Games /\ state'[c] = "started"
    <3>1. c \in Games /\ state[c] = "started"
      BY DEF Table, CycleTypes
    <3>2. state'[c] \notin {"none", "created", "done"}
      <4>1. state'[c] \notin {"none", "created"}
        BY <1>1, <3>1, StartedStays DEF Table, CycleTypes
      <4>2. state'[c] # "done"
        BY <1>1, <1>4, <3>1, StartedNotDone DEF Table, CycleTypes
      <4> QED BY <4>1, <4>2
    <3>3. state'[c] # "finished"
      BY <1>1, <3>1 DEF PlaysAllRounds
    <3>4. state' \in [Games -> {"none", "created", "started", "finished", "done"}]
      BY <1>1, NextType DEF Table, CycleTypes, TypeOK, TableOK
    <3> QED BY <3>1, <3>2, <3>3, <3>4
  <2> QED BY <1>1, <2>1, <2>2 DEF NewGame
<1> QED BY <1>1, <1>2, <1>3, <1>4

LEMMA TableFirst == CycleInit => Table
<1> SUFFICES ASSUME CycleInit PROVE Table
  OBVIOUS
<1>1. TypeOK
  BY InitType DEF CycleInit
<1>2. <<>> \in Seq(Asking)
  OBVIOUS
<1> QED BY <1>1, <1>2 DEF CycleInit, Init, Table, CycleTypes, OnTable, Past

LEMMA TableLobby ==
  ASSUME Table, MigratedAs = "value", LobbyStep
  PROVE  Table'
<1>1. /\ UNCHANGED <<played, counted, asked, crashes>> /\ orphaned \subseteq orphaned'
      /\ counted \subseteq {c \in Games : state'[c] = "started"}
  BY LobbyStepMoves
<1>2. TypeOK'
  BY NextType DEF Table, CycleTypes, LobbyStep
<1>3. CASE \E ch \in Chat, p \in Player : JoinNew(ch, p)
  <2> PICK ch \in Chat, p \in Player : JoinNew(ch, p)
    BY <1>3
  <2>1. /\ made' = made + 1 /\ made + 1 \in Games /\ made \in Nat
        /\ channels[ch] = NoGame
        /\ \A c \in Games : c # made + 1 => state'[c] = state[c] /\ chat'[c] = chat[c]
        /\ chat'[made + 1] = ch /\ channels'[ch] = made + 1
        /\ \A d \in Chat : d # ch => channels'[d] = channels[d]
    BY JoinNewMoves DEF Table, CycleTypes
  <2>2. totalRoundPlayed' \in [Games -> Nat]
    <3> PICK d \in Chat : totalRoundPlayed' =
               [totalRoundPlayed EXCEPT ![made + 1] = NextGame(played[d])]
      BY <2>1, LobbyStepMoves
    <3>1. NextGame(played[d]) \in Nat
      BY DEF NextGame, Table, CycleTypes
    <3> QED BY <3>1 DEF Table, CycleTypes
  <2>3. OnTable'
    <3> SUFFICES ASSUME NEW c \in Games, state'[c] = "started"
                 PROVE  chat'[c] \in orphaned' \/ channels'[chat'[c]] = c
      BY DEF OnTable
    <3>1. CASE c = made + 1
      BY <2>1, <3>1
    <3>2. CASE c # made + 1
      <4>1. chat[c] \in orphaned \/ channels[chat[c]] = c
        BY <2>1, <3>2 DEF Table, OnTable
      <4>2. chat[c] \in Chat /\ c # NoGame
        BY TableFacts DEF NoGame, Games
      <4> QED BY <1>1, <2>1, <3>2, <4>1, <4>2
    <3> QED BY <3>1, <3>2
  <2>4. Past'
    BY <1>1, <2>1, TableFacts DEF Table, Past
  <2> QED BY <1>1, <1>2, <2>2, <2>3, <2>4 DEF Table, CycleTypes
<1>4. CASE ~\E ch \in Chat, p \in Player : JoinNew(ch, p)
  <2>1. UNCHANGED <<made, chat, totalRoundPlayed>>
    BY <1>4, LobbyStepMoves
  <2>2. OnTable'
    <3> SUFFICES ASSUME NEW c \in Games, state'[c] = "started"
                 PROVE  chat[c] \in orphaned' \/ channels'[chat[c]] = c
      BY <2>1 DEF OnTable
    <3>1. /\ \A ch \in Chat : channels'[ch] \in {channels[ch], NoGame}
          /\ state[c] = "started" \/ channels'[chat[c]] = c
      BY <1>4, TableMoves DEF Table, CycleTypes, LobbyStep
    <3>2. chat[c] \in Chat /\ c # NoGame
      BY TableFacts DEF NoGame, Games
    <3>3. CASE state[c] = "started" /\ channels[chat[c]] = c /\ channels'[chat[c]] = NoGame
      BY <3>2, <3>3, LobbyStepMoves
    <3> QED BY <1>1, <3>1, <3>2, <3>3 DEF Table, OnTable
  <2>3. Past'
    BY <1>1, <2>1 DEF Table, Past
  <2> QED BY <1>1, <1>2, <2>1, <2>2, <2>3 DEF Table, CycleTypes
<1> QED BY <1>3, <1>4

LEMMA TableCrash ==
  ASSUME Table, Crash
  PROVE  Table'
<1>0. /\ channels' = [ch \in Chat |-> NoGame] /\ sending' = NoGame
      /\ state' = [c \in Games |-> IF c <= made THEN "done" ELSE "none"]
      /\ timers' = [c \in Games |-> <<>>]
      /\ notifier' = [c \in Games |-> "off"] /\ cancelNotify' = [c \in Games |-> "nil"]
      /\ inQueue' = [c \in Games |-> 0]
      /\ gameOut' = <<>> /\ timeoutChan' = <<>> /\ finishedChan' = <<>>
      /\ counted' = {} /\ crashes' = crashes + 1
      /\ UNCHANGED <<chat, quorumPlayer, upgraded, made, texts, played,
                     totalRoundPlayed, asked, orphaned>>
  BY DEF Crash
<1>1. TypeOK'
  <2>1. TableOK'
    BY <1>0, TableFacts DEF Table, CycleTypes, TypeOK, TableOK, NoGame
  <2>2. ObjectsOK'
    BY <1>0 DEF Table, CycleTypes, TypeOK, ObjectsOK
  <2>3. TimersOK' /\ QueuesOK'
    <3>1. <<>> \in Seq(Timer) /\ <<>> \in Seq(Chat)
      OBVIOUS
    <3> QED BY <1>0, <3>1 DEF TimersOK, QueuesOK
  <2> QED BY <2>1, <2>2, <2>3 DEF TypeOK
<1>2. OnTable'
  BY <1>0 DEF OnTable
<1>3. Past'
  BY <1>0, TableFacts DEF Table, Past, CycleTypes
<1> QED BY <1>0, <1>1, <1>2, <1>3 DEF Table, CycleTypes

LEMMA TableRound ==
  ASSUME Table, NEW c \in Games, StartRound(c) \/ Ask(c)
  PROVE  Table'
<1>0. UNCHANGED vars /\ UNCHANGED <<crashes, orphaned>> /\ state[c] = "started"
  BY DEF StartRound, Ask, Table, CycleTypes
<1>1. TypeOK'
  BY <1>0, NextType DEF Table, CycleTypes
<1>2. OnTable'
  BY <1>0, Stutters DEF Table, OnTable
<1>3. CASE StartRound(c)
  <2>1. totalRoundPlayed' \in [Games -> Nat] /\ played' \in [Chat -> Nat] /\ asked' = asked
    BY <1>3 DEF StartRound, IncRoundPlayed, Table, CycleTypes
  <2>2. counted' = counted \cup {c}
    BY <1>3 DEF StartRound
  <2> QED BY <1>0, <1>1, <1>2, <2>1, <2>2, Stutters DEF Table, CycleTypes, Past
<1>4. CASE Ask(c)
  <2> PICK questionLimit \in QuestionLimits :
         asked' = [asked EXCEPT ![chat[c]] =
           Append(@, [game |-> c, turn |-> totalRoundPlayed[c],
                      limit |-> questionLimit, after |-> crashes])]
    BY <1>4 DEF Ask
  <2> DEFINE e == [game |-> c, turn |-> totalRoundPlayed[c], limit |-> questionLimit,
                   after |-> crashes]
  <2>1. /\ asked' = [asked EXCEPT ![chat[c]] = Append(@, e)] /\ counted' = counted \ {c}
        /\ UNCHANGED <<played, totalRoundPlayed>>
    BY <1>4 DEF Ask
  <2>2. e \in Asking /\ c <= made /\ chat[c] \in Chat
    <3>1. e \in Asking
      BY LimitsType DEF Table, CycleTypes, Asking
    <3>2. c <= made /\ chat[c] \in Chat
      BY <1>0, TableFacts
    <3> QED BY <3>1, <3>2
  <2> HIDE DEF e
  <2>3. asked' \in [Chat -> Seq(Asking)]
    BY <2>1, <2>2 DEF Table, CycleTypes
  <2>4. Past'
    <3> SUFFICES ASSUME NEW ch \in Chat, NEW i \in DOMAIN asked'[ch]
                 PROVE  asked'[ch][i].game <= made /\ asked'[ch][i].after <= crashes
      BY <1>0, Stutters DEF Past
    <3>1. CASE ch # chat[c]
      BY <2>1, <2>2, <3>1 DEF Table, Past, CycleTypes
    <3>2. CASE ch = chat[c]
      <4>1. asked'[ch] = Append(asked[ch], e) /\ asked[ch] \in Seq(Asking)
        BY <2>1, <3>2 DEF Table, CycleTypes
      <4>2. (i \in DOMAIN asked[ch] /\ asked'[ch][i] = asked[ch][i]) \/ asked'[ch][i] = e
        BY <4>1
      <4>3. e.game <= made /\ e.after <= crashes
        BY <2>2 DEF e, Table, CycleTypes
      <4> QED BY <4>2, <4>3 DEF Table, Past
    <3> QED BY <3>1, <3>2
  <2> QED BY <1>0, <1>1, <1>2, <2>1, <2>3, <2>4, Stutters DEF Table, CycleTypes
<1> QED BY <1>3, <1>4

(***************************************************************************)
(* How far the counts of a chat are from the turns it was asked.           *)
(***************************************************************************)

Good(ch) == ch \notin orphaned \cup uncounted

\* Is a round of the chat counted and not asked yet?
Due(ch) == IF \E c \in counted : chat[c] = ch THEN 1 ELSE 0

\* What an asking of game g, n askings and some crashes after a, may be off.
Far(a, n, g, k) == n + (g - a.game) + (k - a.after)

LEMMA FarCounts ==
  ASSUME NEW a, a.game \in Nat, a.after \in Nat, NEW n \in Int, NEW g \in Int, NEW k \in Int
  PROVE  /\ Far(a, n, g, k) \in Int
         /\ Far(a, n + 1, g, k) = Far(a, n, g, k) + 1
         /\ Far(a, n, g + 1, k) = Far(a, n, g, k) + 1
         /\ Far(a, n, g, k + 1) = Far(a, n, g, k) + 1
  BY DEF Far

\* A running game's own askings are one turn apart.
OwnTurns ==
  \A c \in Games : Alive(c) =>
    \A i \in DOMAIN asked[chat[c]] :
      LET a == asked[chat[c]][i]
          d == totalRoundPlayed[c] - a.turn
          n == Len(asked[chat[c]]) - i
      IN  a.game = c => IF c \in counted THEN 0 < d /\ d <= n + 1 ELSE 0 <= d /\ d <= n

\* Any two askings of a chat.
Apart(a, b, n, good) ==
  /\ a.after <= b.after
  /\ a.game = b.game => 0 < b.turn - a.turn /\ b.turn - a.turn <= n
  /\ good => 0 < b.turn - a.turn /\ b.turn - a.turn <= Far(a, n, b.game, b.after)

Pairs ==
  \A ch \in Chat : \A i, j \in DOMAIN asked[ch] :
    i < j => Apart(asked[ch][i], asked[ch][j], j - i, Good(ch))

\* The store's counter is not behind, but for the one a new game skips, nor far ahead.
StoreTurns ==
  \A ch \in Chat : Good(ch) =>
    /\ Due(ch) = 1 => played[ch] > 0
    /\ \A i \in DOMAIN asked[ch] :
         LET a == asked[ch][i] IN
         /\ played[ch] > 0 /\ a.turn <= played[ch] + 1
         /\ played[ch] - a.turn <= Far(a, Len(asked[ch]) - i, made, crashes) + Due(ch)

\* And the count of the game registered for the chat goes with it.
GameTurn(ch, c) ==
  /\ played[ch] <= totalRoundPlayed[c] /\ totalRoundPlayed[c] <= played[ch] + 1
  /\ \A i \in DOMAIN asked[ch] :
       LET a == asked[ch][i]
           d == totalRoundPlayed[c] - a.turn
           n == Len(asked[ch]) - i
       IN  IF c \in counted THEN 0 < d /\ d <= Far(a, n + 1, c, crashes)
                            ELSE 0 <= d /\ d <= Far(a, n, c, crashes)

GameTurns ==
  \A ch \in Chat, c \in Games :
    Good(ch) /\ channels[ch] = c /\ Alive(c) => GameTurn(ch, c)

Turns == OwnTurns /\ Pairs /\ StoreTurns /\ GameTurns

LEMMA TurnsFirst == CycleInit => Turns
<1> SUFFICES ASSUME CycleInit PROVE Turns
  OBVIOUS
<1>1. /\ \A ch \in Chat : asked[ch] = <<>> /\ channels[ch] = NoGame
      /\ counted = {} /\ \A c \in Games : state[c] = "none"
  BY DEF CycleInit, Init
<1> QED BY <1>1 DEF Turns, OwnTurns, Pairs, StoreTurns, GameTurns, Due, Alive

\* In a good chat no game runs but the one registered for it.
LEMMA OnlyOneRuns ==
  ASSUME Table, NEW ch \in Chat, Good(ch), NEW c \in Games, state[c] = "started", chat[c] = ch
  PROVE  channels[ch] = c
  BY DEF Table, OnTable, Good

LEMMA NoneDue ==
  ASSUME Table, NEW ch \in Chat, Good(ch), channels[ch] \notin counted
  PROVE  Due(ch) = 0
<1> SUFFICES ASSUME NEW e \in counted, chat[e] = ch PROVE FALSE
  BY DEF Due
<1>1. e \in Games /\ state[e] = "started"
  BY DEF Table, CycleTypes
<1> QED BY <1>1, OnlyOneRuns

LEMMA TurnsLobby ==
  ASSUME Table, Turns, MigratedAs = "value", LobbyStep
  PROVE  Turns'
<1>0. /\ UNCHANGED <<played, counted, asked, crashes, uncounted>>
      /\ \A ch \in Chat : Good(ch)' => Good(ch)
  BY LobbyStepMoves DEF Good
<1>1. \A ch \in Chat : \A i \in DOMAIN asked[ch] :
        /\ asked[ch][i].game \in Nat /\ asked[ch][i].turn \in Nat
        /\ asked[ch][i].after \in Nat /\ i \in Nat /\ Len(asked[ch]) \in Nat
  BY TableFacts
<1>2. Pairs'
  BY <1>0 DEF Turns, Pairs, Apart
<1>3. CASE ~\E ch \in Chat, p \in Player : JoinNew(ch, p)
  <2>1. UNCHANGED <<made, chat, totalRoundPlayed>>
    BY <1>3, LobbyStepMoves
  <2>2. \A c \in Games : Alive(c)' => Alive(c)
    BY <1>3, TableMoves DEF Table, CycleTypes, LobbyStep
  <2>3. \A ch \in Chat : channels'[ch] \in {channels[ch], NoGame}
    <3> SUFFICES ASSUME NEW ch \in Chat PROVE channels'[ch] \in {channels[ch], NoGame}
      OBVIOUS
    <3>1. CASE UNCHANGED channels
      BY <3>1
    <3>2. CASE HandleTimeout \/ HandleFinished
      BY <3>2, TableFacts DEF HandleTimeout, HandleFinished
    <3> QED BY <1>3, <3>1, <3>2, ChannelSteps DEF LobbyStep
  <2>4. OwnTurns'
    BY <1>0, <2>1, <2>2 DEF Turns, OwnTurns
  <2>5. StoreTurns'
    BY <1>0, <2>1 DEF Turns, StoreTurns, Due
  <2>6. GameTurns'
    <3>1. ASSUME NEW ch \in Chat, NEW c \in Games, channels'[ch] = c
          PROVE  channels[ch] = c
      <4> QED BY <2>3, <3>1 DEF NoGame, Games
    <3> QED BY <1>0, <2>1, <2>2, <3>1 DEF Turns, GameTurns, GameTurn, Far
  <2> QED BY <1>2, <2>4, <2>5, <2>6 DEF Turns
<1>4. CASE \E ch \in Chat, p \in Player : JoinNew(ch, p)
  <2> PICK ch \in Chat, p \in Player :
         /\ JoinNew(ch, p)
         /\ totalRoundPlayed' =
              [totalRoundPlayed EXCEPT ![made + 1] = NextGame(played[ch])]
    BY <1>4, LobbyStepMoves
  <2> DEFINE c == made + 1
  <2>1. /\ made' = c /\ c \in Games /\ made \in Nat
        /\ channels[ch] = NoGame /\ state[c] = "none"
        /\ \A d \in Games : d # c => state'[d] = state[d] /\ chat'[d] = chat[d]
        /\ chat'[c] = ch /\ channels'[ch] = c
        /\ \A d \in Chat : d # ch => channels'[d] = channels[d]
    BY JoinNewMoves DEF Table, CycleTypes
  <2>2. /\ totalRoundPlayed'[c] = NextGame(played[ch])
        /\ \A d \in Games : d # c => totalRoundPlayed'[d] = totalRoundPlayed[d]
        /\ c \notin counted
    BY <2>1 DEF Table, CycleTypes
  <2>3. \A d \in Chat : \A i \in DOMAIN asked[d] : asked[d][i].game < c
    BY <1>1, <2>1 DEF Table, Past
  <2> HIDE DEF c
  <2>4. OwnTurns'
    <3>1. ASSUME NEW d \in Games, Alive(d)', NEW i \in DOMAIN asked[chat'[d]],
                 asked[chat'[d]][i].game = d
          PROVE  /\ Alive(d) /\ chat'[d] = chat[d]
                 /\ totalRoundPlayed'[d] = totalRoundPlayed[d]
      <4>1. chat'[d] \in Chat
        BY <2>1, TableFacts
      <4>2. d # c /\ d \in Nat
        BY <2>3, <3>1, <4>1, TableFacts DEF c
      <4> QED BY <2>1, <2>2, <3>1, <4>2 DEF Alive
    <3> QED BY <1>0, <3>1 DEF Turns, OwnTurns
  <2>5. \A d \in Chat : Due(d)' = Due(d)
    BY <1>0, <2>1, <2>2 DEF Due, Table, CycleTypes
  <2>6. StoreTurns'
    <3> SUFFICES ASSUME NEW d \in Chat, Good(d)
                 PROVE  /\ Due(d) = 1 => played[d] > 0
                        /\ \A i \in DOMAIN asked[d] :
                             LET a == asked[d][i] IN
                             /\ played[d] > 0 /\ a.turn <= played[d] + 1
                             /\ played[d] - a.turn
                                  <= Far(a, Len(asked[d]) - i, c, crashes) + Due(d)
      BY <1>0, <2>1, <2>5 DEF StoreTurns, Far
    <3>1. ASSUME NEW i \in DOMAIN asked[d]
          PROVE  LET a == asked[d][i] IN
                 /\ played[d] > 0 /\ a.turn <= played[d] + 1
                 /\ played[d] - a.turn
                      <= Far(a, Len(asked[d]) - i, made, crashes) + Due(d)
      BY <3>1 DEF Turns, StoreTurns
    <3>2. ASSUME NEW i \in DOMAIN asked[d]
          PROVE  Far(asked[d][i], Len(asked[d]) - i, made, crashes) + Due(d) + 1
                   = Far(asked[d][i], Len(asked[d]) - i, c, crashes) + Due(d)
      <4>1. /\ Far(asked[d][i], Len(asked[d]) - i, made, crashes) \in Int
            /\ Far(asked[d][i], Len(asked[d]) - i, made + 1, crashes)
                 = Far(asked[d][i], Len(asked[d]) - i, made, crashes) + 1
        <5>1. Len(asked[d]) - i \in Int /\ crashes \in Int /\ made \in Int
          BY <1>1, <2>1, <3>2 DEF Table, CycleTypes
        <5> QED BY <1>1, <3>2, <5>1, FarCounts
      <4>2. Due(d) \in Int
        BY DEF Due
      <4> QED BY <4>1, <4>2 DEF c
    <3>3. ASSUME NEW i \in DOMAIN asked[d]
          PROVE  /\ Far(asked[d][i], Len(asked[d]) - i, made, crashes) + Due(d) \in Int
                 /\ played[d] - asked[d][i].turn \in Int
      <4>1. Len(asked[d]) - i \in Int /\ crashes \in Int /\ made \in Int
            /\ played[d] \in Int /\ Due(d) \in Int
        BY <1>1, <2>1, <3>3 DEF Table, CycleTypes, Due
      <4>2. Far(asked[d][i], Len(asked[d]) - i, made, crashes) \in Int
        BY <1>1, <3>3, <4>1, FarCounts
      <4>3. asked[d][i].turn \in Int
        BY <1>1, <3>3
      <4> DEFINE f == Far(asked[d][i], Len(asked[d]) - i, made, crashes)
      <4>4. f \in Int
        BY <4>2
      <4> HIDE DEF f
      <4>5. f + Due(d) \in Int /\ played[d] - asked[d][i].turn \in Int
        BY <4>1, <4>3, <4>4
      <4> QED BY <4>5 DEF f
    <3>4. ASSUME NEW x \in Int, NEW y \in Int, NEW z, x <= y, y + 1 = z PROVE x <= z
      BY <3>4
    <3>5. ASSUME NEW i \in DOMAIN asked[d]
          PROVE  played[d] - asked[d][i].turn
                   <= Far(asked[d][i], Len(asked[d]) - i, c, crashes) + Due(d)
      BY <3>1, <3>2, <3>3, <3>4, <3>5
    <3> QED BY <3>1, <3>5 DEF Turns, StoreTurns
  <2>7. GameTurns'
    <3> SUFFICES ASSUME NEW d \in Chat, NEW g \in Games, Good(d), channels'[d] = g, Alive(g)'
                 PROVE  GameTurn(d, g)'
      BY <1>0 DEF GameTurns
    <3>1. CASE d # ch
      <4>1. channels[d] = g /\ g # c
        BY <2>1, <3>1, TableFacts DEF c
      <4>2. Alive(g) /\ totalRoundPlayed'[g] = totalRoundPlayed[g]
        BY <2>1, <2>2, <4>1 DEF Alive
      <4> QED BY <1>0, <4>1, <4>2 DEF Turns, GameTurns, GameTurn, Far
    <3>2. CASE d = ch
      <4>1. g = c
        BY <2>1, <3>2
      <4>2. Due(ch) = 0
        <5>1. channels[ch] \notin counted
          BY <2>1 DEF NoGame, Games, Table, CycleTypes
        <5> QED BY <3>2, <5>1, NoneDue
      <4>3. CASE played[ch] = 0
        <5>1. DOMAIN asked[ch] = {} /\ totalRoundPlayed'[c] = 0
          BY <2>2, <3>2, <4>3 DEF Turns, StoreTurns, NextGame
        <5> QED BY <1>0, <3>2, <4>1, <4>3, <5>1 DEF GameTurn
      <4>4. CASE played[ch] # 0
        <5>1. played[ch] \in Nat /\ totalRoundPlayed'[c] = played[ch] + 1
          BY <2>2, <4>4 DEF NextGame, Table, CycleTypes
        <5>2. ASSUME NEW i \in DOMAIN asked[ch]
              PROVE  LET a == asked[ch][i]
                         n == Len(asked[ch]) - i
                     IN  /\ 0 <= played[ch] + 1 - a.turn
                         /\ played[ch] + 1 - a.turn <= Far(a, n, c, crashes)
          <6>1. Len(asked[ch]) - i \in Int /\ crashes \in Int /\ made \in Int
            BY <1>1, <2>1, <5>2 DEF Table, CycleTypes
          <6>2. /\ Far(asked[ch][i], Len(asked[ch]) - i, made, crashes) \in Int
                /\ Far(asked[ch][i], Len(asked[ch]) - i, made + 1, crashes)
                     = Far(asked[ch][i], Len(asked[ch]) - i, made, crashes) + 1
            BY <1>1, <5>2, <6>1, FarCounts
          <6>3. /\ asked[ch][i].turn <= played[ch] + 1
                /\ played[ch] - asked[ch][i].turn
                     <= Far(asked[ch][i], Len(asked[ch]) - i, made, crashes)
            BY <3>2, <4>2, <5>2, <6>2 DEF Turns, StoreTurns
          <6>4. asked[ch][i].turn \in Int
            BY <1>1, <5>2
          <6> DEFINE f == Far(asked[ch][i], Len(asked[ch]) - i, made, crashes)
          <6>5. f \in Int /\ played[ch] - asked[ch][i].turn <= f
            BY <6>2, <6>3
          <6> HIDE DEF f
          <6>6. /\ 0 <= played[ch] + 1 - asked[ch][i].turn
                /\ played[ch] + 1 - asked[ch][i].turn <= f + 1
            BY <5>1, <6>3, <6>4, <6>5
          <6>7. Far(asked[ch][i], Len(asked[ch]) - i, c, crashes) = f + 1
            BY <6>2 DEF f, c
          <6> QED BY <6>6, <6>7
        <5>3. /\ played'[ch] = played[ch] /\ asked' = asked /\ crashes' = crashes
              /\ c \notin counted'
          BY <1>0, <2>2
        <5>4. \A i \in DOMAIN asked[ch] :
                /\ 0 <= totalRoundPlayed'[c] - asked[ch][i].turn
                /\ totalRoundPlayed'[c] - asked[ch][i].turn
                     <= Far(asked[ch][i], Len(asked[ch]) - i, c, crashes)
          <6> SUFFICES ASSUME NEW i \in DOMAIN asked[ch]
                       PROVE  /\ 0 <= totalRoundPlayed'[c] - asked[ch][i].turn
                              /\ totalRoundPlayed'[c] - asked[ch][i].turn
                                   <= Far(asked[ch][i], Len(asked[ch]) - i, c, crashes)
            OBVIOUS
          <6>1. /\ 0 <= played[ch] + 1 - asked[ch][i].turn
                /\ played[ch] + 1 - asked[ch][i].turn
                     <= Far(asked[ch][i], Len(asked[ch]) - i, c, crashes)
            BY <5>2
          <6>2. totalRoundPlayed'[c] = played[ch] + 1 /\ played[ch] \in Int
            BY <5>1
          <6>3. asked[ch][i].turn \in Int
            BY <1>1
          <6> QED BY <6>1, <6>2, <6>3
        <5>5. played[ch] <= totalRoundPlayed'[c] /\ totalRoundPlayed'[c] <= played[ch] + 1
          BY <5>1
        <5> QED BY <3>2, <4>1, <5>3, <5>4, <5>5 DEF GameTurn, Far
      <4> QED BY <4>3, <4>4
    <3> QED BY <3>1, <3>2
  <2> QED BY <1>2, <2>4, <2>6, <2>7 DEF Turns
<1> QED BY <1>3, <1>4

LEMMA TurnsStartRound ==
  ASSUME Table, Turns, NEW c \in Games, NEW ch \in Chat, chat[c] = ch, StartRound(c)
  PROVE  Turns'
<1>0. /\ UNCHANGED vars /\ UNCHANGED <<asked, crashes, orphaned>>
      /\ state[c] = "started" /\ c \notin counted
      /\ counted' = counted \cup {c} /\ uncounted \subseteq uncounted'
      /\ totalRoundPlayed' = [totalRoundPlayed EXCEPT ![c] = @ + 1]
      /\ UNCHANGED played \/ played' = [played EXCEPT ![ch] = @ + 1]
      /\ ch \notin uncounted' => played' = [played EXCEPT ![ch] = @ + 1]
  BY DEF StartRound, IncRoundPlayed
<1>1. /\ UNCHANGED <<channels, chat, state, made>>
      /\ \A d \in Chat : Good(d)' => Good(d)
      /\ \A d \in Games : Alive(d)' <=> Alive(d)
  BY <1>0, Stutters DEF Good, Alive
<1>2. /\ ch \in Chat /\ c # NoGame /\ made \in Int /\ crashes \in Int /\ c \in Int
      /\ totalRoundPlayed'[c] = totalRoundPlayed[c] + 1
      /\ totalRoundPlayed \in [Games -> Nat] /\ played \in [Chat -> Nat]
      /\ \A d \in Games : d # c => totalRoundPlayed'[d] = totalRoundPlayed[d]
      /\ \A d \in Chat : d # ch => played'[d] = played[d]
      /\ Good(ch)' => played'[ch] = played[ch] + 1
  <2>1. ch \in Chat /\ c # NoGame /\ made \in Int /\ crashes \in Int /\ c \in Int
    <3>1. made \in Int /\ c \in Int /\ c # NoGame
      BY TableFacts DEF NoGame, Games
    <3>2. crashes \in Int
      BY DEF Table, CycleTypes
    <3> QED BY <3>1, <3>2
  <2>2. totalRoundPlayed \in [Games -> Nat] /\ played \in [Chat -> Nat]
    BY DEF Table, CycleTypes
  <2>3. Good(ch)' => played' = [played EXCEPT ![ch] = @ + 1]
    BY <1>0 DEF Good
  <2>4. /\ \A d \in Chat : d # ch => played'[d] = played[d]
        /\ Good(ch)' => played'[ch] = played[ch] + 1
    BY <1>0, <2>1, <2>2, <2>3
  <2> QED BY <1>0, <2>1, <2>2, <2>4
<1>3. ASSUME NEW d \in Chat, NEW i \in DOMAIN asked[d]
      PROVE  /\ asked[d][i].game \in Nat /\ asked[d][i].turn \in Nat
             /\ asked[d][i].after \in Nat /\ Len(asked[d]) - i \in Int
  BY TableFacts, <1>3
<1>4. Pairs'
  BY <1>0, <1>1 DEF Turns, Pairs, Apart
<1>5. OwnTurns'
  <2> SUFFICES ASSUME NEW d \in Games, Alive(d), NEW i \in DOMAIN asked[chat[d]],
                      asked[chat[d]][i].game = d
               PROVE  LET x == totalRoundPlayed'[d] - asked[chat[d]][i].turn
                          n == Len(asked[chat[d]]) - i
                      IN  IF d \in counted' THEN 0 < x /\ x <= n + 1 ELSE 0 <= x /\ x <= n
    BY <1>0, <1>1 DEF OwnTurns
  <2>1. LET x == totalRoundPlayed[d] - asked[chat[d]][i].turn
            n == Len(asked[chat[d]]) - i
        IN  IF d \in counted THEN 0 < x /\ x <= n + 1 ELSE 0 <= x /\ x <= n
    BY DEF Turns, OwnTurns
  <2>2. CASE d # c
    BY <1>0, <1>2, <2>1, <2>2
  <2>3. CASE d = c
    <3>1. chat[d] \in Chat
      BY TableFacts
    <3>2. asked[chat[d]][i].turn \in Nat /\ Len(asked[chat[d]]) - i \in Int
      BY <1>3, <3>1
    <3> QED BY <1>0, <1>2, <2>1, <2>3, <3>2
  <2> QED BY <2>2, <2>3
<1>6. ASSUME NEW d \in Chat, d # ch
      PROVE  Due(d)' = Due(d)
  BY <1>0, <1>1, <1>6 DEF Due
<1>7. ASSUME Good(ch)'
      PROVE  Good(ch) /\ channels[ch] = c /\ Due(ch) = 0 /\ Due(ch)' = 1
  <2>1. Good(ch) /\ channels[ch] = c
    BY <1>0, <1>1, <1>2, <1>7, OnlyOneRuns
  <2> QED BY <1>0, <1>1, <1>2, <2>1, NoneDue DEF Due
<1>8. StoreTurns'
  <2> SUFFICES ASSUME NEW d \in Chat, Good(d)'
               PROVE  /\ Due(d)' = 1 => played'[d] > 0
                      /\ \A i \in DOMAIN asked[d] :
                           LET a == asked[d][i] IN
                           /\ played'[d] > 0 /\ a.turn <= played'[d] + 1
                           /\ played'[d] - a.turn
                                <= Far(a, Len(asked[d]) - i, made, crashes) + Due(d)'
    BY <1>0, <1>1 DEF StoreTurns, Far
  <2>1. /\ Due(d) = 1 => played[d] > 0
        /\ \A i \in DOMAIN asked[d] :
             LET a == asked[d][i] IN
             /\ played[d] > 0 /\ a.turn <= played[d] + 1
             /\ played[d] - a.turn
                  <= Far(a, Len(asked[d]) - i, made, crashes) + Due(d)
    BY <1>1 DEF Turns, StoreTurns
  <2>2. CASE d # ch
    BY <1>2, <1>6, <2>1, <2>2
  <2>3. CASE d = ch
    <3>1. Due(ch) = 0 /\ Due(ch)' = 1 /\ played'[ch] = played[ch] + 1 /\ played[ch] \in Nat
      <4>1. Good(ch)'
        BY <2>3
      <4> QED BY <1>2, <1>7, <4>1
    <3>2. ASSUME NEW i \in DOMAIN asked[ch], NEW f \in Int, NEW t \in Nat,
                 t = asked[ch][i].turn,
                 f = Far(asked[ch][i], Len(asked[ch]) - i, made, crashes)
          PROVE  /\ played'[ch] > 0 /\ t <= played'[ch] + 1
                 /\ played'[ch] - t <= f + Due(ch)'
      <4>1. t <= played[ch] + 1 /\ played[ch] - t <= f + Due(ch)
        BY <2>1, <2>3, <3>2
      <4> QED BY <3>1, <4>1
    <3>3. ASSUME NEW i \in DOMAIN asked[ch]
          PROVE  /\ asked[ch][i].turn \in Nat
                 /\ Far(asked[ch][i], Len(asked[ch]) - i, made, crashes) \in Int
      BY <1>2, <1>3, FarCounts
    <3>4. ASSUME NEW i \in DOMAIN asked[ch]
          PROVE  LET a == asked[ch][i] IN
                 /\ played'[ch] > 0 /\ a.turn <= played'[ch] + 1
                 /\ played'[ch] - a.turn
                      <= Far(a, Len(asked[ch]) - i, made, crashes) + Due(ch)'
      BY <3>2, <3>3
    <3>5. played'[ch] > 0
      BY <3>1
    <3> QED BY <2>3, <3>4, <3>5
  <2> QED BY <2>2, <2>3
<1>9. GameTurns'
  <2> SUFFICES ASSUME NEW d \in Chat, NEW g \in Games, Good(d)', channels[d] = g, Alive(g)
               PROVE  GameTurn(d, g)'
    BY <1>1 DEF GameTurns
  <2>1. GameTurn(d, g)
    BY <1>1 DEF Turns, GameTurns
  <2>2. CASE d # ch
    <3>1. chat[g] = d /\ g # c
      BY <2>2, TableFacts DEF NoGame, Games
    <3>2. (g \in counted') <=> (g \in counted)
      BY <1>0, <3>1
    <3>3. totalRoundPlayed'[g] = totalRoundPlayed[g] /\ played'[d] = played[d]
      BY <1>2, <2>2, <3>1
    <3> QED BY <1>0, <2>1, <3>2, <3>3 DEF GameTurn, Far
  <2>3. CASE d = ch
    <3>1. g = c /\ g \notin counted /\ g \in counted'
      <4>1. Good(ch)'
        BY <2>3
      <4> QED BY <1>0, <1>7, <2>3, <4>1
    <3>2. played'[d] = played[d] + 1 /\ totalRoundPlayed'[g] = totalRoundPlayed[g] + 1
      <4>1. Good(ch)'
        BY <2>3
      <4> QED BY <1>2, <2>3, <3>1, <4>1
    <3>3. played[d] \in Int /\ totalRoundPlayed[g] \in Int
      BY <1>2
    <3>4. /\ played[d] <= totalRoundPlayed[g] /\ totalRoundPlayed[g] <= played[d] + 1
          /\ \A i \in DOMAIN asked[d] :
               /\ 0 <= totalRoundPlayed[g] - asked[d][i].turn
               /\ totalRoundPlayed[g] - asked[d][i].turn
                    <= Far(asked[d][i], Len(asked[d]) - i, g, crashes)
      BY <2>1, <3>1 DEF GameTurn
    <3>5. ASSUME NEW i \in DOMAIN asked[d]
          PROVE  /\ 0 < totalRoundPlayed'[g] - asked[d][i].turn
                 /\ totalRoundPlayed'[g] - asked[d][i].turn
                      <= Far(asked[d][i], Len(asked[d]) - i + 1, g, crashes)
      <4>1. /\ Far(asked[d][i], Len(asked[d]) - i, g, crashes) \in Int
            /\ Far(asked[d][i], Len(asked[d]) - i + 1, g, crashes)
                 = Far(asked[d][i], Len(asked[d]) - i, g, crashes) + 1
            /\ asked[d][i].turn \in Int
        BY <1>2, <1>3, <3>1, FarCounts
      <4> QED BY <3>2, <3>3, <3>4, <4>1
    <3>6. played'[d] <= totalRoundPlayed'[g] /\ totalRoundPlayed'[g] <= played'[d] + 1
      BY <3>2, <3>3, <3>4
    <3> QED BY <1>0, <3>1, <3>5, <3>6 DEF GameTurn, Far
  <2> QED BY <2>2, <2>3
<1> QED BY <1>4, <1>5, <1>8, <1>9 DEF Turns

LEMMA TurnsAsk ==
  ASSUME Table, Turns, NEW c \in Games, NEW ch \in Chat, chat[c] = ch, Ask(c)
  PROVE  Turns'
<1> PICK questionLimit \in QuestionLimits :
       asked' = [asked EXCEPT ![ch] =
         Append(@, [game |-> c, turn |-> totalRoundPlayed[c],
                    limit |-> questionLimit, after |-> crashes])]
  BY DEF Ask
<1> DEFINE e == [game |-> c, turn |-> totalRoundPlayed[c], limit |-> questionLimit,
                 after |-> crashes]
<1>0. /\ UNCHANGED vars /\ UNCHANGED <<played, totalRoundPlayed, crashes, orphaned, uncounted>>
      /\ c \in counted /\ counted' = counted \ {c} /\ state[c] = "started" /\ Alive(c)
      /\ asked' = [asked EXCEPT ![ch] = Append(@, e)]
  BY DEF Ask, Alive, Table, CycleTypes
<1>1. /\ UNCHANGED <<channels, chat, state, made>>
      /\ \A d \in Chat : Good(d)' <=> Good(d)
      /\ \A d \in Games : Alive(d)' <=> Alive(d)
  BY <1>0, Stutters DEF Good, Alive
<1>2. PICK L \in Nat, T \in Nat :
        /\ L = Len(asked[ch]) /\ DOMAIN asked[ch] = 1..L
        /\ asked[ch] \in Seq(Asking) /\ T = totalRoundPlayed[c]
        /\ made \in Int /\ crashes \in Nat /\ c \in Nat /\ c <= made
  <2>1. Len(asked[ch]) \in Nat /\ DOMAIN asked[ch] = 1..Len(asked[ch])
    BY TableFacts
  <2>2. totalRoundPlayed[c] \in Nat /\ asked[ch] \in Seq(Asking) /\ crashes \in Nat
    BY DEF Table, CycleTypes
  <2>3. made \in Int /\ c \in Nat /\ c <= made
    BY <1>0, TableFacts
  <2> QED BY <2>1, <2>2, <2>3
<1>3. e \in Asking /\ e.game = c /\ e.turn = T /\ e.after = crashes
  BY <1>2, LimitsType DEF Asking
<1> HIDE DEF e
<1>4. /\ \A d \in Chat : d # ch => asked'[d] = asked[d]
      /\ Len(asked'[ch]) = L + 1 /\ DOMAIN asked'[ch] = 1..(L + 1)
      /\ asked'[ch][L + 1] = e
      /\ \A i \in 1..L : i \in DOMAIN asked[ch] /\ asked'[ch][i] = asked[ch][i]
  <2>1. asked'[ch] = Append(asked[ch], e)
    BY <1>0 DEF Table, CycleTypes
  <2>2. \A d \in Chat : d # ch => asked'[d] = asked[d]
    BY <1>0 DEF Table, CycleTypes
  <2> QED BY <1>2, <1>3, <2>1, <2>2
<1>5. ASSUME NEW i \in 1..L
      PROVE  /\ asked[ch][i].game \in Nat /\ asked[ch][i].turn \in Nat
             /\ asked[ch][i].after \in Nat /\ asked[ch][i].after <= crashes
  BY <1>2, TableFacts DEF Table, Past
<1>6. ASSUME Good(ch)
      PROVE  /\ channels[ch] = c /\ Due(ch) = 1 /\ Due(ch)' = 0
             /\ played[ch] \in Nat /\ played[ch] <= T /\ T <= played[ch] + 1
             /\ \A i \in 1..L :
                  /\ 0 < T - asked[ch][i].turn
                  /\ T - asked[ch][i].turn <= Far(asked[ch][i], L - i + 1, c, crashes)
  <2>1. channels[ch] = c
    BY <1>0, <1>6, OnlyOneRuns
  <2>2. \A g \in counted : chat[g] = ch => g = c
    BY <1>6, <2>1, OnlyOneRuns DEF Table, CycleTypes
  <2>3. Due(ch) = 1
    BY <1>0 DEF Due
  <2>4. Due(ch)' = 0
    BY <1>0, <1>1, <2>2 DEF Due
  <2>5. GameTurn(ch, c)
    BY <1>0, <1>6, <2>1 DEF Turns, GameTurns
  <2>6. played[ch] \in Nat
    BY DEF Table, CycleTypes
  <2> QED BY <1>0, <1>2, <2>1, <2>3, <2>4, <2>5, <2>6 DEF GameTurn
<1>7. ASSUME NEW d \in Chat, d # ch
      PROVE  Due(d)' = Due(d)
  BY <1>0, <1>1, <1>7 DEF Due
<1>8. Pairs'
  <2> SUFFICES ASSUME NEW d \in Chat, NEW i \in DOMAIN asked'[d], NEW j \in DOMAIN asked'[d],
                      i < j
               PROVE  Apart(asked'[d][i], asked'[d][j], j - i, Good(d))
    BY <1>1 DEF Pairs, Apart
  <2>1. CASE d # ch
    BY <1>4, <2>1 DEF Turns, Pairs
  <2>2. CASE d = ch /\ j <= L
    <3>1. i \in 1..L /\ j \in 1..L
      BY <1>2, <1>4, <2>2
    <3> QED BY <1>4, <2>2, <3>1 DEF Turns, Pairs
  <2>3. CASE d = ch /\ ~(j <= L)
    <3>1. i \in 1..L /\ j = L + 1 /\ j - i = L - i + 1
      BY <1>2, <1>4, <2>3
    <3>2. asked'[d][i] = asked[ch][i] /\ asked'[d][j] = e
      BY <1>4, <2>3, <3>1
    <3>3. asked[ch][i].game = c => 0 < T - asked[ch][i].turn /\ T - asked[ch][i].turn <= L - i + 1
      BY <1>0, <1>2, <3>1 DEF Turns, OwnTurns
    <3> QED BY <1>3, <1>5, <1>6, <2>3, <3>1, <3>2, <3>3 DEF Apart
  <2> QED BY <2>1, <2>2, <2>3
<1>9. OwnTurns'
  <2> SUFFICES ASSUME NEW d \in Games, Alive(d), NEW i \in DOMAIN asked'[chat[d]],
                      asked'[chat[d]][i].game = d
               PROVE  LET x == totalRoundPlayed[d] - asked'[chat[d]][i].turn
                          n == Len(asked'[chat[d]]) - i
                      IN  IF d \in counted' THEN 0 < x /\ x <= n + 1 ELSE 0 <= x /\ x <= n
    BY <1>0, <1>1 DEF OwnTurns
  <2>0. chat[d] \in Chat /\ d \in Nat
    BY TableFacts
  <2>1. CASE chat[d] # ch
    <3>1. d # c /\ asked'[chat[d]] = asked[chat[d]]
      BY <1>4, <2>0, <2>1
    <3> QED BY <1>0, <3>1 DEF Turns, OwnTurns
  <2>2. CASE chat[d] = ch /\ i = L + 1
    <3>1. d = c /\ asked'[chat[d]][i].turn = T /\ totalRoundPlayed[d] = T
      BY <1>2, <1>3, <1>4, <2>2
    <3> QED BY <1>0, <1>2, <1>4, <2>2, <3>1
  <2>3. CASE chat[d] = ch /\ i # L + 1
    <3>1. i \in 1..L
      BY <1>2, <1>4, <2>3
    <3>2. asked'[chat[d]][i] = asked[ch][i] /\ asked[ch][i].game = d
      BY <1>4, <2>3, <3>1
    <3>3. LET x == totalRoundPlayed[d] - asked[ch][i].turn
              n == L - i
          IN  IF d \in counted THEN 0 < x /\ x <= n + 1 ELSE 0 <= x /\ x <= n
      BY <1>2, <2>3, <3>1, <3>2 DEF Turns, OwnTurns
    <3>4. totalRoundPlayed[d] \in Nat
      BY DEF Table, CycleTypes
    <3>5. Len(asked'[chat[d]]) - i = L - i + 1
      BY <1>2, <1>4, <2>3, <3>1
    <3>6. asked[ch][i].turn \in Nat /\ L - i \in Int
      BY <1>2, <1>5, <3>1
    <3> DEFINE x == totalRoundPlayed[d] - asked[ch][i].turn
               n == L - i
    <3>7. x \in Int /\ n \in Int
      BY <3>4, <3>6
    <3>8. IF d \in counted THEN 0 < x /\ x <= n + 1 ELSE 0 <= x /\ x <= n
      BY <3>3
    <3>9. totalRoundPlayed[d] - asked'[chat[d]][i].turn = x /\ Len(asked'[chat[d]]) - i = n + 1
      BY <3>2, <3>5
    <3> HIDE DEF x, n
    <3>10. IF d \in counted' THEN 0 < x /\ x <= n + 1 + 1 ELSE 0 <= x /\ x <= n + 1
      BY <1>0, <3>7, <3>8
    <3> QED BY <3>9, <3>10
  <2> QED BY <2>1, <2>2, <2>3
<1>10. StoreTurns'
  <2> SUFFICES ASSUME NEW d \in Chat, Good(d)
               PROVE  /\ Due(d)' = 1 => played[d] > 0
                      /\ \A i \in DOMAIN asked'[d] :
                           LET a == asked'[d][i] IN
                           /\ played[d] > 0 /\ a.turn <= played[d] + 1
                           /\ played[d] - a.turn
                                <= Far(a, Len(asked'[d]) - i, made, crashes) + Due(d)'
    BY <1>0, <1>1 DEF StoreTurns, Far
  <2>1. CASE d # ch
    BY <1>4, <1>7, <2>1 DEF Turns, StoreTurns
  <2>2. CASE d = ch
    <3>1. /\ played[ch] > 0
          /\ \A i \in 1..L :
               LET a == asked[ch][i] IN
               /\ a.turn <= played[ch] + 1
               /\ played[ch] - a.turn <= Far(a, L - i, made, crashes) + 1
      BY <1>2, <1>6, <2>2 DEF Turns, StoreTurns
    <3>2. ASSUME NEW i \in 1..L
          PROVE  /\ asked[ch][i].turn <= played[ch] + 1
                 /\ played[ch] - asked[ch][i].turn <= Far(asked[ch][i], L - i + 1, made, crashes)
                 /\ Far(asked[ch][i], L - i + 1, made, crashes) \in Int
      <4>1. /\ L - i \in Int /\ crashes \in Int /\ made \in Int
            /\ asked[ch][i].game \in Nat /\ asked[ch][i].after \in Nat
        BY <1>2, <1>5
      <4>2. /\ Far(asked[ch][i], L - i, made, crashes) \in Int
            /\ Far(asked[ch][i], L - i + 1, made, crashes)
                 = Far(asked[ch][i], L - i, made, crashes) + 1
        BY <4>1, FarCounts
      <4> QED BY <3>1, <4>2
    <3>3. T <= played[ch] + 1 /\ played[ch] - T <= Far(e, 0, made, crashes)
          /\ Far(e, 0, made, crashes) \in Int
      BY <1>2, <1>3, <1>6, <2>2 DEF Far
    <3>4. ASSUME NEW i \in DOMAIN asked'[ch]
          PROVE  LET a == asked'[ch][i] IN
                 /\ a.turn <= played[ch] + 1
                 /\ played[ch] - a.turn <= Far(a, Len(asked'[ch]) - i, made, crashes)
                 /\ Far(a, Len(asked'[ch]) - i, made, crashes) \in Int
      <4>1. CASE i \in 1..L
        <5>1. Len(asked'[ch]) - i = L - i + 1 /\ asked'[ch][i] = asked[ch][i]
          BY <1>2, <1>4, <4>1
        <5> QED BY <3>2, <4>1, <5>1
      <4>2. CASE i \notin 1..L
        <5>1. i = L + 1 /\ Len(asked'[ch]) - i = 0 /\ asked'[ch][i] = e
          BY <1>2, <1>4, <3>4, <4>2
        <5> QED BY <1>3, <3>3, <5>1
      <4> QED BY <4>1, <4>2
    <3>5. Due(ch)' = 0
      BY <1>6, <2>2
    <3> QED BY <2>2, <3>1, <3>4, <3>5
  <2> QED BY <2>1, <2>2
<1>11. GameTurns'
  <2> SUFFICES ASSUME NEW d \in Chat, NEW g \in Games, Good(d), channels[d] = g, Alive(g)
               PROVE  GameTurn(d, g)'
    BY <1>1 DEF GameTurns
  <2>1. CASE d # ch
    <3>1. GameTurn(d, g)
      BY DEF Turns, GameTurns
    <3>2. g # c
      BY <2>1, TableFacts DEF NoGame, Games
    <3> QED BY <1>0, <1>4, <2>1, <3>1, <3>2 DEF GameTurn, Far
  <2>2. CASE d = ch
    <3>1. g = c /\ g \notin counted' /\ totalRoundPlayed[g] = T
      BY <1>0, <1>2, <1>6, <2>2
    <3>2. ASSUME NEW i \in DOMAIN asked'[ch]
          PROVE  LET a == asked'[ch][i] IN
                 /\ 0 <= T - a.turn
                 /\ T - a.turn <= Far(a, Len(asked'[ch]) - i, c, crashes)
      <4>1. CASE i \in 1..L
        <5>1. Len(asked'[ch]) - i = L - i + 1 /\ asked'[ch][i] = asked[ch][i]
          BY <1>2, <1>4, <4>1
        <5>2. /\ 0 < T - asked[ch][i].turn
              /\ T - asked[ch][i].turn <= Far(asked[ch][i], L - i + 1, c, crashes)
          BY <1>6, <2>2, <4>1
        <5>3. T - asked[ch][i].turn \in Int
          <6>1. asked[ch][i].turn \in Nat
            BY <1>5, <4>1
          <6> QED BY <6>1
        <5> DEFINE x == T - asked[ch][i].turn
        <5>4. 0 <= x /\ x <= Far(asked[ch][i], L - i + 1, c, crashes)
          <6> HIDE DEF x
          <6>1. x \in Int /\ 0 < x /\ x <= Far(asked[ch][i], L - i + 1, c, crashes)
            BY <5>2, <5>3 DEF x
          <6> QED BY <6>1
        <5> QED BY <5>1, <5>4
      <4>2. CASE i \notin 1..L
        <5>1. i = L + 1 /\ Len(asked'[ch]) - i = 0 /\ asked'[ch][i] = e
          BY <1>2, <1>4, <3>2, <4>2
        <5>2. Far(e, 0, c, crashes) = 0
          BY <1>2, <1>3 DEF Far
        <5>3. T - e.turn = 0
          BY <1>2, <1>3
        <5> QED BY <5>1, <5>2, <5>3
      <4> QED BY <4>1, <4>2
    <3> QED BY <1>0, <1>6, <2>2, <3>1, <3>2 DEF GameTurn, Far
  <2> QED BY <2>1, <2>2
<1> QED BY <1>8, <1>9, <1>10, <1>11 DEF Turns

LEMMA TurnsCrash ==
  ASSUME Table, Turns, Crash
  PROVE  Turns'
<1>0. /\ state' = [c \in Games |-> IF c <= made THEN "done" ELSE "none"]
      /\ counted' = {} /\ crashes' = crashes + 1
      /\ UNCHANGED <<chat, made, played, totalRoundPlayed, asked, orphaned, uncounted>>
  BY DEF Crash
<1>1. \A c \in Games : ~Alive(c)'
  BY <1>0 DEF Alive
<1>2. \A ch \in Chat : (Good(ch)' <=> Good(ch)) /\ Due(ch)' = 0 /\ Due(ch) \in {0, 1}
  BY <1>0 DEF Good, Due
<1>3. OwnTurns' /\ GameTurns'
  BY <1>1 DEF OwnTurns, GameTurns
<1>4. Pairs'
  BY <1>0, <1>2 DEF Turns, Pairs, Apart
<1>5. StoreTurns'
  <2> SUFFICES ASSUME NEW ch \in Chat, Good(ch), NEW i \in DOMAIN asked[ch]
               PROVE  LET a == asked[ch][i] IN
                      /\ played[ch] > 0 /\ a.turn <= played[ch] + 1
                      /\ played[ch] - a.turn
                           <= Far(a, Len(asked[ch]) - i, made, crashes + 1) + 0
    BY <1>0, <1>2 DEF StoreTurns, Far
  <2> DEFINE f == Far(asked[ch][i], Len(asked[ch]) - i, made, crashes)
             x == played[ch] - asked[ch][i].turn
  <2>1. /\ asked[ch][i].game \in Nat /\ asked[ch][i].after \in Nat
        /\ asked[ch][i].turn \in Nat /\ played[ch] \in Nat
        /\ Len(asked[ch]) - i \in Int /\ made \in Int /\ crashes \in Int
    <3>1. crashes \in Int /\ played[ch] \in Nat
      BY DEF Table, CycleTypes
    <3> QED BY <3>1, TableFacts
  <2>2. f \in Int /\ Far(asked[ch][i], Len(asked[ch]) - i, made, crashes + 1) = f + 1
    BY <2>1, FarCounts
  <2>3. x \in Int
    BY <2>1
  <2>4. played[ch] > 0 /\ asked[ch][i].turn <= played[ch] + 1 /\ x <= f + Due(ch)
    BY DEF Turns, StoreTurns
  <2> HIDE DEF f, x
  <2>5. x <= f + 1
    BY <1>2, <2>2, <2>3, <2>4
  <2>6. x <= (f + 1) + 0
    BY <2>2, <2>5
  <2> QED BY <2>2, <2>4, <2>6 DEF x
<1> QED BY <1>3, <1>4, <1>5 DEF Turns

(***************************************************************************)
(* The inductive invariant, and what follows from it.                      *)
(***************************************************************************)

CycleInv == Table /\ Turns

LEMMA InvSteps ==
  ASSUME CycleInv, MigratedAs = "value", [CycleNext]_<<vars, cycle>>
  PROVE  CycleInv'
<1>1. CASE LobbyStep
  BY <1>1, TableLobby, TurnsLobby DEF CycleInv
<1>2. CASE Crash
  BY <1>2, TableCrash, TurnsCrash DEF CycleInv
<1>3. ASSUME NEW c \in Games, StartRound(c) PROVE CycleInv'
  <2>1. chat[c] \in Chat
    BY TableFacts DEF CycleInv
  <2>2. Turns'
    BY <1>3, <2>1, TurnsStartRound DEF CycleInv
  <2> QED BY <1>3, <2>2, TableRound DEF CycleInv
<1>4. ASSUME NEW c \in Games, Ask(c) PROVE CycleInv'
  <2>1. chat[c] \in Chat
    BY TableFacts DEF CycleInv
  <2>2. Turns'
    BY <1>4, <2>1, TurnsAsk DEF CycleInv
  <2> QED BY <1>4, <2>2, TableRound DEF CycleInv
<1>5. CASE UNCHANGED <<vars, cycle>>
  <2>1. UNCHANGED vars /\ UNCHANGED cycle
    BY <1>5
  <2>2. TypeOK'
    BY <2>1, NextType DEF CycleInv, Table, CycleTypes
  <2>3. Table'
    BY <2>1, <2>2, Stutters DEF CycleInv, Table, CycleTypes, OnTable, Past, cycle
  <2>4. OwnTurns' /\ Pairs'
    BY <2>1, Stutters DEF CycleInv, Turns, OwnTurns, Pairs, Apart, Good, Alive, Far, cycle
  <2>5. StoreTurns' /\ GameTurns'
    BY <2>1, Stutters DEF CycleInv, Turns, StoreTurns, GameTurns, GameTurn, Good, Alive, Due,
                          Far, cycle
  <2> QED BY <2>3, <2>4, <2>5 DEF CycleInv, Turns
<1> QED BY <1>1, <1>2, <1>3, <1>4, <1>5 DEF CycleNext

LEMMA TurnsTellApart == CycleInv => NoEarlyRepeat
<1> SUFFICES ASSUME CycleInv, NEW ch \in Chat,
                    NEW i \in DOMAIN asked[ch], NEW j \in DOMAIN asked[ch], NEW a, NEW b,
                    a = asked[ch][i], b = asked[ch][j], i < j, SameQuestion(a, b),
                    CycleOf(a) = CycleOf(b),
                    (j - i) + (b.game - a.game) + (b.after - a.after) < CycleOf(b)
             PROVE  a.game # b.game /\ (ch \in orphaned \/ ch \in uncounted)
  BY DEF NoEarlyRepeat
<1>1. /\ a.game \in Nat /\ a.turn \in Nat /\ a.after \in Nat
      /\ b.game \in Nat /\ b.turn \in Nat /\ b.after \in Nat /\ b.limit \in Int
      /\ i \in Nat /\ j \in Nat
  <2>1. /\ asked[ch][i].game \in Nat /\ asked[ch][i].turn \in Nat /\ asked[ch][i].after \in Nat
        /\ asked[ch][j].game \in Nat /\ asked[ch][j].turn \in Nat /\ asked[ch][j].after \in Nat
        /\ asked[ch][j].limit \in Int
    BY TableFacts DEF CycleInv
  <2>2. i \in Nat /\ j \in Nat
    BY TableFacts DEF CycleInv
  <2> QED BY <2>1, <2>2
<1>2. Apart(a, b, j - i, Good(ch))
  BY DEF CycleInv, Turns, Pairs
<1>3. CycleOf(b) \in Nat
  BY <1>1, CycleType DEF CycleOf
<1>4. ~(0 < b.turn - a.turn /\ b.turn - a.turn < CycleOf(b))
  BY <1>1, OtherQuestion
<1>5. a.game # b.game
  BY <1>1, <1>2, <1>3, <1>4 DEF Apart
<1>6. ~Good(ch)
  BY <1>1, <1>2, <1>3, <1>4 DEF Apart, Far
<1> QED BY <1>5, <1>6 DEF Good

\* Whatever the numbers of questions, rounds, games and process ends, whatever limits
\* a chat may have and whichever of them each of its rounds goes by, and whatever
\* goes wrong at the store: of two rounds with one cycle, however those between were
\* limited, the later gets the question of the earlier only when that cycle is round,
\* but for what new games and new processes skip, unless the store missed one of the
\* chat's rounds or two of its games ran side by side; and never within one game.
\* Migrations are as the bot's client delivers them.
THEOREM QuestionsComeBackLate ==
  ASSUME MigratedAs = "value"
  PROVE  CycleSpec => []NoEarlyRepeat
<1>1. CycleInit => CycleInv
  BY TableFirst, TurnsFirst DEF CycleInv
<1>2. CycleInv /\ [CycleNext]_<<vars, cycle>> => CycleInv'
  BY InvSteps
<1>3. CycleInv => NoEarlyRepeat
  BY TurnsTellApart
<1> QED BY <1>1, <1>2, <1>3, PTL DEF CycleSpec
=============================================================================
