-------------------------------- MODULE Game --------------------------------
(***************************************************************************)
(* One game of package fam100: the goroutine that Game.Start launches      *)
(* (game.go, round.go), its two channels, its timers and the part of the   *)
(* store it writes.  The bot that feeds In and drains Out is the           *)
(* environment here; Lobby.tla models it.                                  *)
(*                                                                         *)
(* pc is where the goroutine stands: at the statement it is about to run.  *)
(* A send that blocks while Out is full is an action whose guard is that   *)
(* Out has room; a send under select/default is one that drops instead.    *)
(***************************************************************************)
EXTENDS Scoring, Qna

CONSTANTS
  Player,          \* the players who may answer
  Text,            \* the texts they may send
  Order,           \* the questions in the order the channel's seed gives
  QuestionLimits,  \* the values the channel's questionLimit may have
  RoundPerGame,    \* rounds of a game
  RoundTicks,      \* RoundDuration / tickDuration
  TickAfterWrongAnswer, \* BOOLEAN: a wrong answer is told the time left
  PlayedBefore,    \* the values of the channel's "played" counter at the start
  QuestionFaults,  \* BOOLEAN: the provider may fail to give a question
  StoreFaults,     \* BOOLEAN: calls to the store may fail
  InCap, OutCap,   \* buffer sizes of the two channels
  MaxAnswers       \* bound on the messages players send in a run

IsQuestion(question) ==
  /\ question.score \in Seq(Nat)
  /\ question.lookup \in [Text -> 0..Len(question.score)]

ASSUME PlayersAssumption == NoPlayer \notin Player
ASSUME OrderAssumption ==
  /\ Order \in Seq({Order[i] : i \in DOMAIN Order})
  /\ Order # <<>>
  /\ \A i \in DOMAIN Order : IsQuestion(Order[i])
ASSUME BoundsAssumption ==
  /\ RoundPerGame \in Nat \ {0}
  /\ RoundTicks \in Nat \ {0}
  /\ InCap \in Nat \ {0}
  /\ OutCap \in Nat \ {0}
  /\ MaxAnswers \in Nat
  /\ QuestionLimits \subseteq Int
  /\ PlayedBefore \subseteq Nat
ASSUME SwitchesAssumption ==
  /\ TickAfterWrongAnswer \in BOOLEAN
  /\ QuestionFaults \in BOOLEAN
  /\ StoreFaults \in BOOLEAN

VARIABLES
  pc,            \* where the goroutine of Start stands
  State,         \* Game.State
  rnd,           \* the loop variable of Start, 0 before the first round
  totalRoundPlayed,
  players,       \* Game.players, which every round shares
  rank,          \* Game.rank
  q, correct, highlight, rstate,      \* the current round
  elapsed,       \* ticks since the timers of the round were started
  tick, display, \* what is waiting in timeLeftTick.C and displayAnswerTick.C
  In, Out,       \* Game.In and Game.Out
  played,        \* the store's "played" counter of the channel
  saved,         \* what the store added to the channel's ranking for this game
  sent,          \* messages players have sent (bounds the environment)
  (* History: read by the properties, by no guard. *)
  credited,      \* what each player's accepted answers are worth
  announced,     \* the rank of the last rank message
  shown,         \* answers of this round that a board put on Out has shown
  dropped,       \* the last board of this round found Out full
  saveFailed,    \* some SaveScore left something out
  heard          \* the last lifecycle message the outbox has taken off Out

game == <<State, rnd, totalRoundPlayed, players, rank>>
round == <<q, correct, highlight, rstate>>
timers == <<elapsed, tick, display>>
store == <<played, saved, saveFailed>>
history == <<credited, announced, shown, dropped, heard>>
vars == <<pc, game, round, timers, In, Out, store, sent, history>>

Places == {"created", "sendStarted", "startRound", "sendQuestion", "select",
           "sendWrong", "sendRoundFinished", "sendTimeout", "sendBoard",
           "sendRank", "delay", "sendFinished", "done"}

\* The places at which the round's timers run and its answers may count.
RoundOpen == pc \in {"sendQuestion", "select", "sendWrong"}

Lifecycle == {"started", "roundStarted", "roundFinished", "roundTimeout",
              "rank", "finished"}
Kinds == Lifecycle \cup {"tick", "wrong", "board"}

NoQuestion == [score |-> <<>>, lookup |-> [t \in Text |-> 0]]
Questions == {Order[i] : i \in DOMAIN Order} \cup {NoQuestion}

-----------------------------------------------------------------------------
(* NewGame *)

Init ==
  /\ pc = "created" /\ State = "created" /\ rnd = 0
  /\ played \in PlayedBefore
  /\ totalRoundPlayed = NextGame(played)
  /\ players = {} /\ rank = EmptyRank /\ saved = EmptyRank
  /\ q = NoQuestion /\ correct = <<>> /\ highlight = {} /\ rstate = "created"
  /\ elapsed = 0 /\ tick = FALSE /\ display = FALSE
  /\ In = <<>> /\ Out = <<>> /\ sent = 0
  /\ credited = [p \in Player |-> 0]
  /\ announced = EmptyRank
  /\ shown = {} /\ dropped = FALSE /\ saveFailed = FALSE
  /\ heard = [kind |-> "none", round |-> 0]

-----------------------------------------------------------------------------
(* Sending on Out *)

\* A blocking send: it happens when Out has room.
Send(kind, k) ==
  /\ Len(Out) < OutCap
  /\ Out' = Append(Out, [kind |-> kind, round |-> k])

\* The goroutine stands at a blocking send and goes on once it went through.
SendAt(place, kind, k, next) ==
  /\ pc = place
  /\ Send(kind, k)
  /\ pc' = next
  /\ UNCHANGED <<game, round, timers, In, store, sent, history>>

\* A send under select/default: dropped when Out is full.
SendOrDrop(kind) ==
  IF Len(Out) < OutCap
    THEN Out' = Append(Out, [kind |-> kind, round |-> rnd])
    ELSE UNCHANGED Out

\* Faulty: the new answers stay new after they were shown.
ShowAnswerKeepsNew(new, board) ==
  /\ UNCHANGED highlight
  /\ IF new = {}
       THEN UNCHANGED <<Out, shown, dropped>>
       ELSE /\ SendOrDrop("board")
            /\ IF Len(Out) < OutCap
                 THEN shown' = Answered(board) /\ dropped' = FALSE
                 ELSE dropped' = TRUE /\ UNCHANGED shown

\* Faulty: the new answers stop being new without a board.
ShowAnswerSendsNothing(new, board) ==
  /\ highlight' = {}
  /\ UNCHANGED <<Out, shown, dropped>>

\* showAnswer(r): the board with its new answers, if it has any; they stop
\* being new whether or not the board was sent.
ShowAnswer(new, board) ==
  /\ highlight' = {}
  /\ IF new = {}
       THEN UNCHANGED <<Out, shown, dropped>>
       ELSE /\ SendOrDrop("board")
            /\ IF Len(Out) < OutCap
                 THEN shown' = Answered(board) /\ dropped' = FALSE
                 ELSE dropped' = TRUE /\ UNCHANGED shown

-----------------------------------------------------------------------------
(* The store *)

\* IncRoundPlayed: an error is logged and the round goes on.
IncRoundPlayed ==
  \/ played' = played + 1
  \/ StoreFaults /\ UNCHANGED played

\* Faulty: saves the rank of the whole game after every round.
SaveScoreOfGame(r) ==
  saved' = Add(saved, Add(rank, r)) /\ UNCHANGED saveFailed

\* Faulty: after a partial save, the whole rank is saved again.
SaveScoreRetried(r) ==
  /\ saveFailed' = TRUE
  /\ \E kept \in SUBSET DOMAIN r :
       saved' = Add(Add(saved, [p \in kept |-> r[p]]), r)

\* SaveScore: one ZINCRBY per player of the rank.  The commands are piped and
\* nobody looks at their replies, so a fault may leave any of them out.
SaveScore(r) ==
  \/ saved' = Add(saved, r) /\ UNCHANGED saveFailed
  \/ /\ StoreFaults
     /\ saveFailed' = TRUE
     /\ \E kept \in SUBSET DOMAIN r :
          saved' = Add(saved, [p \in kept |-> r[p]])

\* Faulty: the rank of the game is the rank of its last round.
UpdateRankingReplaces(r) ==
  /\ rank' = r
  /\ SaveScore(r)

UpdateRanking(r) ==
  /\ rank' = Add(rank, r)
  /\ SaveScore(r)

-----------------------------------------------------------------------------
(* Start and the rounds *)

Start ==
  /\ pc = "created"
  /\ State' = "started" /\ rnd' = 1
  /\ pc' = "sendStarted"
  /\ UNCHANGED <<totalRoundPlayed, players, rank, round, timers, In, Out,
                 store, sent, history>>

SendStarted == SendAt("sendStarted", "started", 0, "startRound")

\* Text.NextQuestion: the question whose turn it is, within the limit.
NextQuestion(turn, limit) == Order[Place(Len(Order), limit, turn)]

CountRound ==
  /\ pc = "startRound"
  /\ totalRoundPlayed' = totalRoundPlayed + 1
  /\ IncRoundPlayed

\* newRound and the timers of the round.
NewRound(question) ==
  /\ q' = question
  /\ correct' = EmptyBoard(question)
  /\ highlight' = {}
  /\ rstate' = "roundStarted"
  /\ elapsed' = 0 /\ tick' = FALSE /\ display' = FALSE
  /\ shown' = {} /\ dropped' = FALSE

StartRound ==
  /\ CountRound
  /\ \E limit \in QuestionLimits : NewRound(NextQuestion(totalRoundPlayed', limit))
  /\ pc' = "sendQuestion"
  /\ UNCHANGED <<State, rnd, players, rank, In, Out, saved, saveFailed, sent,
                 credited, announced, heard>>

\* The provider has no question: the round is given up, its rank still goes out.
StartRoundFails ==
  /\ CountRound
  /\ QuestionFaults
  /\ pc' = "sendRank"
  /\ UNCHANGED <<State, rnd, players, rank, round, timers, In, Out, saved,
                 saveFailed, sent, history>>

SendQuestion == SendAt("sendQuestion", "roundStarted", rnd, "select")

-----------------------------------------------------------------------------
(* The select loop: an answer *)

\* The player and the answer of the message at the head of In (0: no answer).
Sender == Head(In).player
Given == q.lookup[Head(In).text]

\* Faulty: who answers is not registered with the game.
TakeAnswerUnregistered ==
  /\ pc = "select"
  /\ In # <<>>
  /\ rstate = "roundStarted"
  /\ In' = Tail(In)
  /\ UNCHANGED players

\* case rawMsg := <-g.In, up to the lookup in round.answer.
TakeAnswer ==
  /\ pc = "select"
  /\ In # <<>>
  /\ rstate = "roundStarted"
  /\ In' = Tail(In)
  /\ players' = players \cup {Sender}

\* The given answer is marked as the sender's.
Mark(board) == [board EXCEPT ![Given] = Sender]

WrongAnswer ==
  /\ TakeAnswer
  /\ Given = 0
  /\ pc' = IF TickAfterWrongAnswer THEN "sendWrong" ELSE "select"
  /\ UNCHANGED <<State, rnd, totalRoundPlayed, rank, round, timers, Out, store,
                 sent, history>>

AlreadyAnswered ==
  /\ TakeAnswer
  /\ Given # 0 /\ correct[Given] # NoPlayer
  /\ UNCHANGED <<pc, State, rnd, totalRoundPlayed, rank, round, timers, Out,
                 store, sent, history>>

\* Faulty: an answer that was given is taken again.
TakeCorrectAgain ==
  /\ TakeAnswer
  /\ Given # 0
  /\ correct' = Mark(correct)
  /\ credited' = [credited EXCEPT ![Sender] = @ + q.score[Given]]

TakeCorrect ==
  /\ TakeAnswer
  /\ Given # 0 /\ correct[Given] = NoPlayer
  /\ correct' = Mark(correct)
  /\ credited' = [credited EXCEPT ![Sender] = @ + q.score[Given]]

CorrectAnswer ==
  /\ TakeCorrect
  /\ ~Complete(correct')
  /\ highlight' = highlight \cup {Given}
  /\ UNCHANGED <<pc, State, rnd, totalRoundPlayed, rank, q, rstate, timers,
                 Out, store, sent, announced, shown, dropped, heard>>

LastAnswer ==
  /\ TakeCorrect
  /\ Complete(correct')
  /\ ShowAnswer(highlight \cup {Given}, correct')
  /\ rstate' = "roundFinished"
  /\ UpdateRanking(Ranking(q, correct'))
  /\ pc' = "sendRoundFinished"
  /\ UNCHANGED <<State, rnd, totalRoundPlayed, q, timers, played, sent,
                 announced, heard>>

SendWrong == SendAt("sendWrong", "wrong", rnd, "select")

-----------------------------------------------------------------------------
(* The select loop: the timers *)

TimeLeftTick ==
  /\ pc = "select" /\ tick
  /\ tick' = FALSE
  /\ SendOrDrop("tick")
  /\ UNCHANGED <<pc, game, round, elapsed, display, In, store, sent, history>>

DisplayTick ==
  /\ pc = "select" /\ display
  /\ display' = FALSE
  /\ ShowAnswer(highlight, correct)
  /\ UNCHANGED <<pc, game, q, correct, rstate, elapsed, tick, In, store, sent,
                 credited, announced, heard>>

\* Faulty: waits for a tick past the round's duration.
TimeUpTooLate ==
  /\ pc = "select" /\ elapsed > RoundTicks
  /\ State' = "roundFinished"
  /\ UpdateRanking(Ranking(q, correct))
  /\ pc' = "sendTimeout"
  /\ UNCHANGED <<rnd, totalRoundPlayed, players, round, timers, In, Out,
                 played, sent, history>>

TimeUp ==
  /\ pc = "select" /\ elapsed = RoundTicks
  /\ State' = "roundFinished"
  /\ UpdateRanking(Ranking(q, correct))
  /\ pc' = "sendTimeout"
  /\ UNCHANGED <<rnd, totalRoundPlayed, players, round, timers, In, Out,
                 played, sent, history>>

-----------------------------------------------------------------------------
(* The end of a round and of the game *)

SendRoundFinished == SendAt("sendRoundFinished", "roundFinished", rnd, "sendRank")

SendTimeout == SendAt("sendTimeout", "roundTimeout", rnd, "sendBoard")

\* The board with the answers nobody gave revealed; this send blocks.
SendBoard ==
  /\ pc = "sendBoard"
  /\ Send("board", rnd)
  /\ shown' = Answered(correct) /\ dropped' = FALSE
  /\ pc' = "sendRank"
  /\ UNCHANGED <<game, round, timers, In, store, sent, credited, announced, heard>>

\* Faulty: one round too many.
FinalOffByOne == rnd > RoundPerGame

Final == rnd = RoundPerGame

SendRank ==
  /\ pc = "sendRank"
  /\ Send("rank", rnd)
  /\ announced' = rank
  /\ State' = IF Final THEN "finished" ELSE State
  /\ pc' = IF Final THEN "sendFinished" ELSE "delay"
  /\ UNCHANGED <<rnd, totalRoundPlayed, players, rank, round, timers, In,
                 store, sent, credited, shown, dropped, heard>>

\* Faulty: the next round has the number of the last.
DelayUncounted ==
  /\ pc = "delay"
  /\ pc' = "startRound"
  /\ UNCHANGED <<game, round, timers, In, Out, store, sent, history>>

\* time.Sleep(DelayBetweenRound) is over.
Delay ==
  /\ pc = "delay"
  /\ rnd' = rnd + 1
  /\ pc' = "startRound"
  /\ UNCHANGED <<State, totalRoundPlayed, players, rank, round, timers, In,
                 Out, store, sent, history>>

\* Faulty: the last message is dropped when Out is full.
SendFinishedOrDrop ==
  /\ pc = "sendFinished"
  /\ SendOrDrop("finished")
  /\ pc' = "done"
  /\ UNCHANGED <<game, round, timers, In, store, sent, history>>

SendFinished == SendAt("sendFinished", "finished", 0, "done")

-----------------------------------------------------------------------------
(* The environment *)

\* The bot puts a chat message on In: once the game is started, and for as
\* long as its channel is registered, which may be past the last round.
Answer(p, t) ==
  /\ State # "created"
  /\ sent < MaxAnswers /\ Len(In) < InCap
  /\ In' = Append(In, [player |-> p, text |-> t])
  /\ sent' = sent + 1
  /\ UNCHANGED <<pc, game, round, timers, Out, store, history>>

\* The bot's handleOutbox takes a message off Out.
OutboxReceive ==
  /\ Out # <<>>
  /\ Out' = Tail(Out)
  /\ heard' = IF Head(Out).kind \in Lifecycle THEN Head(Out) ELSE heard
  /\ UNCHANGED <<pc, game, round, timers, In, store, sent, credited, announced,
                 shown, dropped>>

\* tickDuration passes: each ticker leaves a tick unless one is waiting.
TimePasses ==
  /\ RoundOpen
  /\ elapsed' = IF elapsed < RoundTicks THEN elapsed + 1 ELSE elapsed
  /\ tick' = TRUE /\ display' = TRUE
  /\ UNCHANGED <<pc, game, round, In, Out, store, sent, history>>

\* The goroutine has returned and the outbox has caught up.
Terminated ==
  /\ pc = "done" /\ Out = <<>>
  /\ UNCHANGED vars

Goroutine ==
  \/ SendStarted \/ StartRound \/ StartRoundFails \/ SendQuestion
  \/ WrongAnswer \/ AlreadyAnswered \/ CorrectAnswer \/ LastAnswer \/ SendWrong
  \/ TimeLeftTick \/ DisplayTick \/ TimeUp
  \/ SendRoundFinished \/ SendTimeout \/ SendBoard \/ SendRank \/ Delay
  \/ SendFinished

Next ==
  \/ Start
  \/ Goroutine
  \/ \E p \in Player, t \in Text : Answer(p, t)
  \/ OutboxReceive
  \/ TimePasses
  \/ Terminated

Spec == Init /\ [][Next]_vars

\* The goroutine runs whenever it can, time passes, the outbox drains Out.  A
\* select that finds several cases ready picks one at random, so the time-up
\* case, ready again at every turn of the loop, is picked in the end.
Fairness ==
  /\ WF_vars(Goroutine)
  /\ SF_vars(TimeUp)
  /\ WF_vars(TimePasses)
  /\ WF_vars(OutboxReceive)

FairSpec == Spec /\ Fairness

-----------------------------------------------------------------------------
(* The contracts the game implements *)

\* The stage of the contract, by where the goroutine stands.
Stage ==
  IF pc = "created" THEN "lobby"
  ELSE IF pc \in {"sendStarted", "startRound", "delay"} THEN "open"
  ELSE IF RoundOpen THEN "asked"
  ELSE IF pc \in {"sendFinished", "done"} THEN "ended"
  ELSE "over"

\* The loop variable already counts a round whose question is still to come.
RoundAsked == IF pc \in {"sendStarted", "startRound"} THEN rnd - 1 ELSE rnd

Contract == INSTANCE GameContract WITH
  Question <- {Order[i] : i \in DOMAIN Order}, stage <- Stage,
  round <- RoundAsked, question <- q, board <- correct, score <- rank

\* Queues, timers, dropped boards, store faults and late answers included, the
\* game does what GameContract promises.
ImplementsContract == Contract!Spec

\* The game's life as the bot sees it, and whether Out or the channel has its end.
Lived ==
  IF pc \in {"created", "done"} THEN pc
  ELSE IF State = "finished" THEN "finished" ELSE "started"

Told == heard.kind = "finished" \/ \E i \in DOMAIN Out : Out[i].kind = "finished"

Life == INSTANCE GameLife WITH life <- Lived, waiting <- Len(In), told <- Told

\* The game starts, reads its messages, ends and says so once, as Lobby takes
\* for granted of every game it starts.
LivesAsTheLobbySees == Life!Spec

-----------------------------------------------------------------------------
(* Properties *)

\* The goroutine: before Start it is in no round, and it only sleeps when
\* another round is to come.
ControlOK ==
  /\ pc \in Places
  /\ State \in {"created", "started", "roundFinished", "finished"}
  /\ rnd \in 0..RoundPerGame
  /\ pc = "created" <=> rnd = 0
  /\ pc = "delay" => rnd < RoundPerGame
  /\ totalRoundPlayed \in Nat /\ played \in Nat

RoundOK ==
  /\ players \subseteq Player
  /\ q \in Questions
  /\ correct \in [1..Len(q.score) -> Player \cup {NoPlayer}]
  /\ highlight \subseteq DOMAIN correct
  /\ rstate \in {"created", "roundStarted", "roundFinished"}
  /\ elapsed \in 0..RoundTicks /\ tick \in BOOLEAN /\ display \in BOOLEAN

QueuesOK ==
  /\ In \in Seq([player : Player, text : Text]) /\ Len(In) <= InCap
  /\ Out \in Seq([kind : Kinds, round : 0..RoundPerGame]) /\ Len(Out) <= OutCap
  /\ sent \in 0..MaxAnswers

HistoryOK ==
  /\ DOMAIN credited = Player
  /\ shown \subseteq DOMAIN correct
  /\ dropped \in BOOLEAN /\ saveFailed \in BOOLEAN
  /\ heard \in [kind : Lifecycle \cup {"none"}, round : 0..RoundPerGame]

\* The type invariant: what each variable of the game may hold.
TypeOK == ControlOK /\ RoundOK /\ QueuesOK /\ HistoryOK

\* Every answer a player was first to give is paid exactly once: what a player
\* was credited with is what the rank holds and, until the round is folded
\* into it, what the round's board is worth to the player.
CreditsKept ==
  \A p \in Player :
    credited[p] = Points(rank, p)
                  + (IF RoundOpen THEN Points(Ranking(q, correct), p) ELSE 0)

\* As long as every SaveScore went through, the store has added to the channel
\* ranking exactly what the game's own rank says.
StoreAgrees == ~saveFailed => saved = rank

\* Whatever SaveScore loses, the store never holds more than was earned.
StoreNeverAhead == \A p \in DOMAIN saved : saved[p] <= Points(rank, p)

\* A game waits for answers only while one is open: the answer that completes
\* the board ends the round in the same step, so no round with answers sits on
\* a full board until its time is up.
WaitsForAnAnswer ==
  RoundOpen /\ DOMAIN correct # {} => \E i \in DOMAIN correct : correct[i] = NoPlayer

\* An answer is new to the players exactly when no board has shown it: boards
\* show given answers only, and unless the last board was dropped the highlighted
\* answers are the given ones that have not been shown.
NewUntilShown ==
  RoundOpen =>
    /\ shown \subseteq Answered(correct)
    /\ ~dropped => highlight = Answered(correct) \ shown

\* Once a round is over and its last board is out, the players have been shown
\* every answer that was given in it, those of boards dropped on the way included;
\* only if the board of the last answer itself was dropped may some be missing.
ShownByTheEnd ==
  ~RoundOpen /\ pc \notin {"sendTimeout", "sendBoard"} /\ ~dropped
    => Answered(correct) \subseteq shown

\* Every player with an answer on the board or a place in the rank is known to
\* the game, which is where the lists take the names from.
RankedPlayersKnown ==
  /\ DOMAIN rank \subseteq players
  /\ \A i \in Answered(correct) : correct[i] \in players

\* Within a round an answer never changes hands and is never taken back.
AnswersKeepTheirOwner ==
  [][ \A i \in DOMAIN correct :
        correct[i] # NoPlayer /\ RoundOpen => correct'[i] = correct[i] ]_vars

\* What the channel hears: started, then per round its question, its end and
\* its rank, in that order and without a gap, then the end of the game.  A
\* round whose question failed is heard as its rank alone.
Follows(b, a) ==
  \/ b.kind = "started" /\ a.kind = "none"
  \/ /\ b.kind = "roundStarted"
     /\ \/ a.kind = "started" /\ b.round = 1
        \/ a.kind = "rank" /\ b.round = a.round + 1
  \/ /\ b.kind \in {"roundFinished", "roundTimeout"}
     /\ a.kind = "roundStarted" /\ b.round = a.round
  \/ /\ b.kind = "rank"
     /\ \/ a.kind \in {"roundFinished", "roundTimeout"} /\ b.round = a.round
        \/ QuestionFaults /\ a.kind = "started" /\ b.round = 1
        \/ QuestionFaults /\ a.kind = "rank" /\ b.round = a.round + 1
  \/ b.kind = "finished" /\ a.kind = "rank" /\ a.round = RoundPerGame

HeardInOrder == [][heard' # heard => Follows(heard', heard)]_vars

\* A game that was started is heard to finish, whatever the players do.
StartedGameFinishes == (State = "started") ~> (heard.kind = "finished")
=============================================================================
