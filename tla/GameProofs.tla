----------------------------- MODULE GameProofs -----------------------------
(***************************************************************************)
(* What holds of Game for every set of players, texts and questions, every *)
(* number of rounds, all buffer sizes and all faults.                      *)
(***************************************************************************)
EXTENDS Game, ScoringProofs

\* Abbreviations of the specification.
USE DEF game, history, SendAt

(***************************************************************************)
(* Lemmas on the operators of the game.                                    *)
(***************************************************************************)

\* Appending to a sequence and taking its head and tail stay within its type.
LEMMA QueueOps ==
  ASSUME NEW S, NEW s \in Seq(S)
  PROVE  /\ \A e \in S : Append(s, e) \in Seq(S) /\ Len(Append(s, e)) = Len(s) + 1
         /\ s # <<>> => /\ Head(s) \in S
                        /\ Tail(s) \in Seq(S)
                        /\ Len(Tail(s)) = Len(s) - 1
  OBVIOUS

\* The question drawn is one of the channel's, whatever the turn and limit.
LEMMA NextQuestionIsOne ==
  ASSUME NEW turn \in Nat, NEW limit \in Int
  PROVE  NextQuestion(turn, limit) \in {Order[i] : i \in DOMAIN Order}
<1> DEFINE size == IF limit <= 0 \/ limit > Len(Order) THEN Len(Order) ELSE limit
<1>1. Len(Order) \in Nat \ {0} /\ DOMAIN Order = 1..Len(Order)
  BY OrderAssumption
<1>2. size \in 1..Len(Order)
  BY <1>1
<1> HIDE DEF size
<1>3. turn % size \in 0..(size - 1)
  BY <1>2, <1>1
<1>4. (turn % size) + 1 \in DOMAIN Order
  BY <1>1, <1>2, <1>3
<1> QED BY <1>4 DEF NextQuestion, Place, Cycle, size

\* A fresh board is open everywhere.
LEMMA EmptyBoardType ==
  ASSUME NEW question \in Questions
  PROVE  /\ EmptyBoard(question) \in [1..Len(question.score) -> {NoPlayer}]
         /\ Answered(EmptyBoard(question)) = {}
  BY DEF EmptyBoard, Answered

LEMMA NoQuestionType == NoQuestion \in Questions /\ NoQuestion.score = <<>>
  BY DEF Questions, NoQuestion

\* What a question's text leads to is an answer of the question.
LEMMA LookupType ==
  ASSUME NEW question \in Questions, NEW t \in Text
  PROVE  question.lookup[t] \in 0..Len(question.score)
<1>1. CASE question = NoQuestion
  BY <1>1 DEF NoQuestion
<1>2. CASE question \in {Order[i] : i \in DOMAIN Order}
  BY <1>2, OrderAssumption DEF IsQuestion
<1> QED BY <1>1, <1>2 DEF Questions

(***************************************************************************)
(* Type correctness.                                                       *)
(***************************************************************************)

Messages == [kind : Kinds, round : 0..RoundPerGame]

\* What a send leaves on Out is typed and within the buffer.
LEMMA SendType ==
  ASSUME QueuesOK, NEW kind \in Kinds, NEW k \in 0..RoundPerGame, Send(kind, k)
  PROVE  Out' \in Seq(Messages) /\ Len(Out') <= OutCap
<1>1. [kind |-> kind, round |-> k] \in Messages
  BY DEF Messages
<1> QED BY <1>1, QueueOps, BoundsAssumption DEF QueuesOK, Send, Messages

LEMMA SendOrDropType ==
  ASSUME QueuesOK, NEW kind \in Kinds, rnd \in 0..RoundPerGame, SendOrDrop(kind)
  PROVE  Out' \in Seq(Messages) /\ Len(Out') <= OutCap
<1>1. [kind |-> kind, round |-> rnd] \in Messages
  BY DEF Messages
<1>2. Out \in Seq(Messages) /\ Len(Out) <= OutCap /\ Len(Out) \in Nat
  BY DEF QueuesOK, Messages
<1>3. CASE Len(Out) < OutCap
  <2>1. Out' = Append(Out, [kind |-> kind, round |-> rnd])
    BY <1>3 DEF SendOrDrop
  <2> QED BY <1>1, <1>2, <1>3, <2>1, QueueOps, BoundsAssumption
<1>4. CASE ~(Len(Out) < OutCap)
  BY <1>2, <1>4 DEF SendOrDrop
<1> QED BY <1>3, <1>4

LEMMA ShowAnswerType ==
  ASSUME TypeOK, NEW new, NEW board \in [DOMAIN correct -> Player \cup {NoPlayer}],
         ShowAnswer(new, board)
  PROVE  /\ Out' \in Seq(Messages) /\ Len(Out') <= OutCap
         /\ highlight' = {}
         /\ shown' \subseteq DOMAIN correct
         /\ dropped' \in BOOLEAN
<1>1. CASE new = {}
  BY <1>1 DEF ShowAnswer, TypeOK, QueuesOK, HistoryOK, Messages
<1>2. CASE new # {}
  <2>1. SendOrDrop("board") /\ "board" \in Kinds
    BY <1>2 DEF ShowAnswer, Kinds
  <2>2. Answered(board) \subseteq DOMAIN correct
    BY DEF Answered
  <2>3. Out' \in Seq(Messages) /\ Len(Out') <= OutCap
    BY <2>1, SendOrDropType DEF TypeOK, ControlOK
  <2> QED BY <1>2, <2>2, <2>3 DEF ShowAnswer, TypeOK, HistoryOK
<1> QED BY <1>1, <1>2

\* Taking an answer: its sender and the answer it names are in range, and
\* marking it gives a board of the same question.
LEMMA TakeAnswerType ==
  ASSUME RoundOK, QueuesOK, TakeAnswer
  PROVE  /\ Sender \in Player
         /\ Given \in 0..Len(q.score)
         /\ In' \in Seq([player : Player, text : Text]) /\ Len(In') <= InCap
         /\ players' \subseteq Player
         /\ Mark(correct) \in [1..Len(q.score) -> Player \cup {NoPlayer}]
<1>1. /\ Head(In) \in [player : Player, text : Text]
      /\ In' \in Seq([player : Player, text : Text]) /\ Len(In') = Len(In) - 1
  BY QueueOps DEF QueuesOK, TakeAnswer
<1>2. Head(In).player \in Player /\ Head(In).text \in Text
  BY <1>1
<1>3. Sender \in Player /\ Given \in 0..Len(q.score)
  BY <1>2, LookupType DEF RoundOK, Sender, Given
<1>4. Len(In') <= InCap
  BY <1>1, BoundsAssumption DEF QueuesOK
<1>5. Mark(correct) \in [1..Len(q.score) -> Player \cup {NoPlayer}]
  BY <1>3 DEF RoundOK, Mark
<1>6. players' \subseteq Player
  BY <1>3 DEF RoundOK, TakeAnswer
<1> QED BY <1>1, <1>3, <1>4, <1>5, <1>6

LEMMA InitType == Init => TypeOK
<1> SUFFICES ASSUME Init PROVE TypeOK
  OBVIOUS
<1>1. totalRoundPlayed \in Nat /\ played \in Nat
  BY BoundsAssumption DEF Init, NextGame
<1>2. ControlOK
  BY <1>1, BoundsAssumption DEF Init, ControlOK, Places
<1>3. RoundOK
  <2>1. Len(q.score) = 0 /\ q \in Questions
    BY NoQuestionType DEF Init
  <2>2. 1..Len(q.score) = {}
    BY <2>1
  <2>3. <<>> \in [{} -> Player \cup {NoPlayer}]
    OBVIOUS
  <2>4. correct \in [1..Len(q.score) -> Player \cup {NoPlayer}]
    BY <2>2, <2>3 DEF Init
  <2>5. elapsed \in 0..RoundTicks
    BY BoundsAssumption DEF Init
  <2>8. tick \in BOOLEAN /\ display \in BOOLEAN
    BY DEF Init
  <2>6. highlight \subseteq DOMAIN correct /\ players \subseteq Player
    BY DEF Init
  <2>7. rstate \in {"created", "roundStarted", "roundFinished"}
    BY DEF Init
  <2> QED BY <2>1, <2>4, <2>5, <2>6, <2>7, <2>8 DEF RoundOK
<1>4. QueuesOK
  <2>1. <<>> \in Seq([player : Player, text : Text]) /\ <<>> \in Seq(Messages)
    OBVIOUS
  <2> QED BY <2>1, BoundsAssumption DEF Init, QueuesOK, Messages
<1>5. HistoryOK
  <2>1. [kind |-> "none", round |-> 0]
          \in [kind : Lifecycle \cup {"none"}, round : 0..RoundPerGame]
    BY BoundsAssumption
  <2> QED BY <2>1 DEF Init, HistoryOK
<1> QED BY <1>2, <1>3, <1>4, <1>5 DEF TypeOK

\* Steps that leave the round alone keep its types; likewise the queues.
LEMMA SameRound ==
  RoundOK /\ UNCHANGED <<players, round, timers>> => RoundOK'
  BY DEF RoundOK, round, timers

LEMMA NextType == TypeOK /\ [Next]_vars => TypeOK'
<1> SUFFICES ASSUME TypeOK, [Next]_vars PROVE TypeOK'
  OBVIOUS
<1> USE DEF TypeOK
<1>0. /\ "started" \in Kinds /\ "roundStarted" \in Kinds /\ "roundFinished" \in Kinds
      /\ "roundTimeout" \in Kinds /\ "rank" \in Kinds /\ "finished" \in Kinds
      /\ "tick" \in Kinds /\ "wrong" \in Kinds /\ "board" \in Kinds
      /\ 0 \in 0..RoundPerGame /\ rnd \in 0..RoundPerGame
  BY BoundsAssumption DEF Kinds, Lifecycle, ControlOK
<1>1. CASE Start
  <2>1. ControlOK'
    BY <1>1, BoundsAssumption DEF ControlOK, Start, Places, store
  <2>2. RoundOK'
    BY <1>1, SameRound DEF Start
  <2> QED BY <1>1, <2>1, <2>2 DEF QueuesOK, HistoryOK, Start, round, store
<1>2. CASE SendStarted
  <2>1. ControlOK'
    BY <1>2 DEF ControlOK, SendStarted, Places, store
  <2>2. RoundOK'
    BY <1>2, SameRound DEF SendStarted
  <2>3. QueuesOK'
    BY <1>0, <1>2, SendType DEF QueuesOK, SendStarted, Messages
  <2> QED BY <1>2, <2>1, <2>2, <2>3 DEF HistoryOK, SendStarted, round, store
<1>3. CASE StartRound
  <2>1. totalRoundPlayed' \in Nat /\ played' \in Nat
    BY <1>3 DEF ControlOK, StartRound, CountRound, IncRoundPlayed
  <2>2. PICK limit \in QuestionLimits : NewRound(NextQuestion(totalRoundPlayed', limit))
    BY <1>3 DEF StartRound
  <2> DEFINE next == NextQuestion(totalRoundPlayed', limit)
  <2>3. next \in Questions
    BY <2>1, NextQuestionIsOne, BoundsAssumption DEF Questions
  <2>4. NewRound(next)
    BY <2>2
  <2> HIDE DEF next
  <2>5. ControlOK'
    BY <1>3, <2>1 DEF ControlOK, StartRound, CountRound, Places
  <2>6. RoundOK'
    <3>1. EmptyBoard(next) \in [1..Len(next.score) -> Player \cup {NoPlayer}]
      BY <2>3, EmptyBoardType
    <3>2. /\ q' = next /\ correct' = EmptyBoard(next) /\ highlight' = {}
          /\ rstate' = "roundStarted" /\ elapsed' = 0
          /\ tick' = FALSE /\ display' = FALSE /\ players' = players
      BY <1>3, <2>4 DEF NewRound, StartRound
    <3>3. q' \in Questions /\ correct' \in [1..Len(q'.score) -> Player \cup {NoPlayer}]
      BY <2>3, <3>1, <3>2
    <3>4. elapsed' \in 0..RoundTicks
      BY <3>2, BoundsAssumption
    <3>7. tick' \in BOOLEAN /\ display' \in BOOLEAN
      BY <3>2
    <3>5. highlight' \subseteq DOMAIN correct' /\ players' \subseteq Player
      BY <3>2 DEF RoundOK
    <3>6. rstate' \in {"created", "roundStarted", "roundFinished"}
      BY <3>2
    <3> QED BY <3>3, <3>4, <3>5, <3>6, <3>7 DEF RoundOK
  <2>7. HistoryOK'
    BY <1>3, <2>4 DEF HistoryOK, NewRound, StartRound
  <2> QED BY <1>3, <2>5, <2>6, <2>7 DEF QueuesOK, StartRound
<1>4. CASE StartRoundFails
  <2>1. ControlOK'
    BY <1>4 DEF ControlOK, StartRoundFails, CountRound, IncRoundPlayed, Places
  <2>2. RoundOK'
    BY <1>4, SameRound DEF StartRoundFails
  <2> QED BY <1>4, <2>1, <2>2 DEF QueuesOK, HistoryOK, StartRoundFails, round
<1>5. CASE SendQuestion
  <2>1. ControlOK'
    BY <1>5 DEF ControlOK, SendQuestion, Places, store
  <2>2. RoundOK'
    BY <1>5, SameRound DEF SendQuestion
  <2>3. QueuesOK'
    BY <1>0, <1>5, SendType DEF QueuesOK, SendQuestion, Messages
  <2> QED BY <1>5, <2>1, <2>2, <2>3 DEF HistoryOK, SendQuestion, round, store
<1>6. CASE WrongAnswer
  <2>1. TakeAnswer
    BY <1>6 DEF WrongAnswer
  <2>2. ControlOK'
    BY <1>6 DEF ControlOK, WrongAnswer, TakeAnswer, Places, store
  <2>3. RoundOK' /\ QueuesOK'
    BY <1>6, <2>1, TakeAnswerType DEF RoundOK, QueuesOK, WrongAnswer, round, timers
  <2> QED BY <1>6, <2>2, <2>3 DEF HistoryOK, WrongAnswer, round, store
<1>7. CASE AlreadyAnswered
  <2>1. TakeAnswer
    BY <1>7 DEF AlreadyAnswered
  <2>2. ControlOK'
    BY <1>7 DEF ControlOK, AlreadyAnswered, store
  <2>3. RoundOK' /\ QueuesOK'
    BY <1>7, <2>1, TakeAnswerType DEF RoundOK, QueuesOK, AlreadyAnswered, round, timers
  <2> QED BY <1>7, <2>2, <2>3 DEF HistoryOK, AlreadyAnswered, round, store
<1>8. CASE CorrectAnswer
  <2>1. TakeAnswer /\ Given \in DOMAIN correct /\ correct' = Mark(correct)
    BY <1>8, TakeAnswerType DEF CorrectAnswer, TakeCorrect, RoundOK
  <2>2. ControlOK'
    BY <1>8 DEF ControlOK, CorrectAnswer, store
  <2>3. DOMAIN correct' = DOMAIN correct
    BY <2>1, TakeAnswerType DEF RoundOK
  <2>4. RoundOK'
    BY <1>8, <2>1, <2>3, TakeAnswerType DEF RoundOK, CorrectAnswer, timers
  <2>5. QueuesOK'
    BY <1>8, <2>1, TakeAnswerType DEF QueuesOK, CorrectAnswer
  <2>6. DOMAIN credited' = DOMAIN credited
    BY <1>8 DEF CorrectAnswer, TakeCorrect
  <2> QED BY <1>8, <2>2, <2>3, <2>4, <2>5, <2>6 DEF HistoryOK, CorrectAnswer, store
<1>9. CASE LastAnswer
  <2>1. TakeAnswer /\ correct' = Mark(correct)
    BY <1>9 DEF LastAnswer, TakeCorrect
  <2>2. /\ DOMAIN correct' = DOMAIN correct
        /\ correct' \in [DOMAIN correct -> Player \cup {NoPlayer}]
    BY <2>1, TakeAnswerType DEF RoundOK
  <2>3. /\ Out' \in Seq(Messages) /\ Len(Out') <= OutCap
        /\ highlight' = {} /\ shown' \subseteq DOMAIN correct /\ dropped' \in BOOLEAN
    BY <1>9, <2>2, ShowAnswerType DEF LastAnswer
  <2>4. ControlOK'
    BY <1>9 DEF ControlOK, LastAnswer, TakeCorrect, TakeAnswer, Places
  <2>5. RoundOK'
    BY <1>9, <2>1, <2>3, TakeAnswerType DEF RoundOK, LastAnswer, timers
  <2>6. QueuesOK'
    BY <1>9, <2>1, <2>3, TakeAnswerType DEF QueuesOK, LastAnswer, Messages
  <2>7. DOMAIN credited' = DOMAIN credited /\ saveFailed' \in BOOLEAN
    BY <1>9 DEF HistoryOK, LastAnswer, TakeCorrect, UpdateRanking, SaveScore
  <2> QED BY <1>9, <2>2, <2>3, <2>4, <2>5, <2>6, <2>7 DEF HistoryOK, LastAnswer
<1>10. CASE SendWrong
  <2>1. ControlOK'
    BY <1>10 DEF ControlOK, SendWrong, Places, store
  <2>2. RoundOK'
    BY <1>10, SameRound DEF SendWrong
  <2>3. QueuesOK'
    BY <1>0, <1>10, SendType DEF QueuesOK, SendWrong, Messages
  <2> QED BY <1>10, <2>1, <2>2, <2>3 DEF HistoryOK, SendWrong, round, store
<1>11. CASE TimeLeftTick
  <2>1. ControlOK'
    BY <1>11 DEF ControlOK, TimeLeftTick, store
  <2>2. RoundOK'
    BY <1>11 DEF RoundOK, TimeLeftTick, round
  <2>3. QueuesOK'
    BY <1>0, <1>11, SendOrDropType DEF QueuesOK, TimeLeftTick, Messages
  <2> QED BY <1>11, <2>1, <2>2, <2>3 DEF HistoryOK, TimeLeftTick, round, store
<1>12. CASE DisplayTick
  <2>1. correct \in [DOMAIN correct -> Player \cup {NoPlayer}]
    BY DEF RoundOK
  <2>2. /\ Out' \in Seq(Messages) /\ Len(Out') <= OutCap
        /\ highlight' = {} /\ shown' \subseteq DOMAIN correct /\ dropped' \in BOOLEAN
    BY <1>12, <2>1, ShowAnswerType DEF DisplayTick
  <2>3. ControlOK'
    BY <1>12 DEF ControlOK, DisplayTick, store
  <2>4. RoundOK'
    BY <1>12, <2>2 DEF RoundOK, DisplayTick
  <2>5. QueuesOK'
    BY <1>12, <2>2 DEF QueuesOK, DisplayTick, Messages
  <2> QED BY <1>12, <2>2, <2>3, <2>4, <2>5 DEF HistoryOK, DisplayTick, store
<1>13. CASE TimeUp
  <2>1. ControlOK'
    BY <1>13 DEF ControlOK, TimeUp, Places
  <2>2. RoundOK'
    BY <1>13, SameRound DEF TimeUp
  <2>3. saveFailed' \in BOOLEAN
    BY <1>13 DEF HistoryOK, TimeUp, UpdateRanking, SaveScore
  <2> QED BY <1>13, <2>1, <2>2, <2>3 DEF QueuesOK, HistoryOK, TimeUp, round
<1>14. CASE SendRoundFinished
  <2>1. ControlOK'
    BY <1>14 DEF ControlOK, SendRoundFinished, Places, store
  <2>2. RoundOK'
    BY <1>14, SameRound DEF SendRoundFinished
  <2>3. QueuesOK'
    BY <1>0, <1>14, SendType DEF QueuesOK, SendRoundFinished, Messages
  <2> QED BY <1>14, <2>1, <2>2, <2>3 DEF HistoryOK, SendRoundFinished, round, store
<1>15. CASE SendTimeout
  <2>1. ControlOK'
    BY <1>15 DEF ControlOK, SendTimeout, Places, store
  <2>2. RoundOK'
    BY <1>15, SameRound DEF SendTimeout
  <2>3. QueuesOK'
    BY <1>0, <1>15, SendType DEF QueuesOK, SendTimeout, Messages
  <2> QED BY <1>15, <2>1, <2>2, <2>3 DEF HistoryOK, SendTimeout, round, store
<1>16. CASE SendBoard
  <2>1. ControlOK'
    BY <1>16 DEF ControlOK, SendBoard, Places, store
  <2>2. RoundOK'
    BY <1>16, SameRound DEF SendBoard
  <2>3. QueuesOK'
    BY <1>0, <1>16, SendType DEF QueuesOK, SendBoard, Messages
  <2>4. shown' \subseteq DOMAIN correct'
    BY <1>16 DEF SendBoard, Answered, round
  <2> QED BY <1>16, <2>1, <2>2, <2>3, <2>4 DEF HistoryOK, SendBoard, store
<1>17. CASE SendRank
  <2>1. ControlOK'
    BY <1>17, BoundsAssumption DEF ControlOK, SendRank, Final, Places, store
  <2>2. RoundOK'
    BY <1>17, SameRound DEF SendRank
  <2>3. QueuesOK'
    BY <1>0, <1>17, SendType DEF QueuesOK, SendRank, Messages
  <2> QED BY <1>17, <2>1, <2>2, <2>3 DEF HistoryOK, SendRank, round, store
<1>18. CASE Delay
  <2>1. ControlOK'
    BY <1>18, BoundsAssumption DEF ControlOK, Delay, Places, store
  <2>2. RoundOK'
    BY <1>18, SameRound DEF Delay
  <2> QED BY <1>18, <2>1, <2>2 DEF QueuesOK, HistoryOK, Delay, round, store
<1>19. CASE SendFinished
  <2>1. ControlOK'
    BY <1>19 DEF ControlOK, SendFinished, Places, store
  <2>2. RoundOK'
    BY <1>19, SameRound DEF SendFinished
  <2>3. QueuesOK'
    BY <1>0, <1>19, SendType DEF QueuesOK, SendFinished, Messages
  <2> QED BY <1>19, <2>1, <2>2, <2>3 DEF HistoryOK, SendFinished, round, store
<1>20. CASE \E p \in Player, t \in Text : Answer(p, t)
  <2> PICK p \in Player, t \in Text : Answer(p, t)
    BY <1>20
  <2>1. [player |-> p, text |-> t] \in [player : Player, text : Text]
    OBVIOUS
  <2>2. QueuesOK'
    BY <2>1, QueueOps, BoundsAssumption DEF QueuesOK, Answer
  <2>3. RoundOK'
    BY SameRound DEF Answer
  <2>4. ControlOK'
    BY DEF ControlOK, Answer, store
  <2> QED BY <2>2, <2>3, <2>4 DEF HistoryOK, Answer, round, store
<1>21. CASE OutboxReceive
  <2>1. /\ Out \in Seq(Messages) /\ Out # <<>> /\ Len(Out) <= OutCap
        /\ Out' = Tail(Out)
    BY <1>21 DEF QueuesOK, Messages, OutboxReceive
  <2>2. Head(Out) \in Messages /\ Out' \in Seq(Messages) /\ Len(Out') <= OutCap
    BY <2>1, QueueOps, BoundsAssumption
  <2>3. QueuesOK'
    BY <1>21, <2>2 DEF QueuesOK, Messages, OutboxReceive
  <2>4. heard' \in [kind : Lifecycle \cup {"none"}, round : 0..RoundPerGame]
    <3>1. CASE Head(Out).kind \in Lifecycle
      <4>1. heard' = Head(Out)
        BY <1>21, <3>1 DEF OutboxReceive
      <4>2. heard' \in [kind : Lifecycle, round : 0..RoundPerGame]
        BY <2>2, <3>1, <4>1 DEF Messages
      <4> QED BY <4>2
    <3>2. CASE Head(Out).kind \notin Lifecycle
      BY <1>21, <3>2 DEF OutboxReceive, HistoryOK
    <3> QED BY <3>1, <3>2
  <2>5. HistoryOK'
    BY <1>21, <2>4 DEF HistoryOK, OutboxReceive, round, store
  <2>6. ControlOK' /\ RoundOK'
    BY <1>21, SameRound DEF ControlOK, OutboxReceive, store
  <2> QED BY <2>3, <2>5, <2>6
<1>22. CASE TimePasses
  <2>1. RoundOK'
    BY <1>22, BoundsAssumption DEF RoundOK, TimePasses, round
  <2>2. ControlOK'
    BY <1>22 DEF ControlOK, TimePasses, store
  <2> QED BY <1>22, <2>1, <2>2 DEF QueuesOK, HistoryOK, TimePasses, round, store
<1>23. CASE UNCHANGED vars
  BY <1>23 DEF ControlOK, RoundOK, QueuesOK, HistoryOK, vars, round, timers, store
<1> QED BY <1>1, <1>2, <1>3, <1>4, <1>5, <1>6, <1>7, <1>8, <1>9, <1>10, <1>11,
           <1>12, <1>13, <1>14, <1>15, <1>16, <1>17, <1>18, <1>19, <1>20,
           <1>21, <1>22, <1>23 DEF Next, Goroutine, Terminated

\* The variables of a game keep their types, whatever the players send, the
\* timers do and the store refuses.
THEOREM TypeCorrect == Spec => []TypeOK
  BY InitType, NextType, PTL DEF Spec

(***************************************************************************)
(* What the steps leave alone: the points move only when a round ends, the *)
(* board only when a round starts or an answer is taken.                   *)
(***************************************************************************)

LEMMA OnlyRoundEndPays ==
  ASSUME [Next]_vars, ~LastAnswer, ~TimeUp
  PROVE  UNCHANGED <<rank, saved, saveFailed>>
  BY DEF Next, Goroutine, vars, store, Start, SendStarted, StartRound,
     StartRoundFails, SendQuestion, WrongAnswer, AlreadyAnswered, CorrectAnswer,
     SendWrong, TimeLeftTick, DisplayTick, SendRoundFinished, SendTimeout,
     SendBoard, SendRank, Delay, SendFinished, Answer, OutboxReceive, TimePasses,
     Terminated

LEMMA OnlyAnswersMark ==
  ASSUME [Next]_vars, ~StartRound, ~CorrectAnswer, ~LastAnswer
  PROVE  UNCHANGED <<q, correct>>
  BY DEF Next, Goroutine, vars, round, Start, SendStarted,
     StartRoundFails, SendQuestion, WrongAnswer, AlreadyAnswered,
     SendWrong, TimeLeftTick, DisplayTick, TimeUp, SendRoundFinished, SendTimeout,
     SendBoard, SendRank, Delay, SendFinished, Answer, OutboxReceive, TimePasses,
     Terminated

LEMMA OnlyStartOpens ==
  ASSUME [Next]_vars, ~StartRound, RoundOpen'
  PROVE  RoundOpen
  BY DEF Next, Goroutine, vars, RoundOpen, Start, SendStarted, StartRoundFails,
     SendQuestion, WrongAnswer, AlreadyAnswered, CorrectAnswer, LastAnswer,
     TakeCorrect, TakeAnswer, SendWrong, TimeLeftTick, DisplayTick, TimeUp,
     SendRoundFinished, SendTimeout, SendBoard, SendRank, Delay, SendFinished,
     Answer, OutboxReceive, TimePasses, Terminated

(***************************************************************************)
(* The store.                                                              *)
(***************************************************************************)

\* SaveScore, when it goes through, adds to the store what updateRanking adds
\* to the rank, so the two stay equal until a call fails.
THEOREM StoreKeepsUp == Spec => []StoreAgrees
<1>1. Init => StoreAgrees
  BY DEF Init, StoreAgrees
<1>2. StoreAgrees /\ [Next]_vars => StoreAgrees'
  <2> SUFFICES ASSUME StoreAgrees, [Next]_vars PROVE StoreAgrees'
    OBVIOUS
  <2>1. ASSUME NEW r, UpdateRanking(r) PROVE StoreAgrees'
    BY <2>1 DEF StoreAgrees, UpdateRanking, SaveScore
  <2>2. CASE LastAnswer
    BY <2>1, <2>2 DEF LastAnswer
  <2>3. CASE TimeUp
    BY <2>1, <2>3 DEF TimeUp
  <2>4. CASE ~LastAnswer /\ ~TimeUp
    BY <2>4, OnlyRoundEndPays DEF StoreAgrees
  <2> QED BY <2>2, <2>3, <2>4
<1> QED BY <1>1, <1>2, PTL DEF Spec

(***************************************************************************)
(* The board.                                                              *)
(***************************************************************************)

\* An incomplete board has an open answer.
LEMMA IncompleteIsOpen ==
  ASSUME NEW board, ~Complete(board)
  PROVE  \E i \in DOMAIN board : board[i] = NoPlayer
  BY DEF Complete, Answered

\* Marking an answer gives it to the sender and changes nothing else.
LEMMA MarkOne ==
  ASSUME RoundOK, QueuesOK, TakeCorrect
  PROVE  /\ Given \in DOMAIN correct
         /\ correct[Given] = NoPlayer
         /\ Sender \in Player
         /\ correct' = [correct EXCEPT ![Given] = Sender]
         /\ DOMAIN correct' = DOMAIN correct
         /\ Answered(correct') = Answered(correct) \cup {Given}
<1>1. /\ Sender \in Player /\ Given \in 0..Len(q.score)
      /\ Given # 0 /\ correct[Given] = NoPlayer
      /\ correct' = [correct EXCEPT ![Given] = Sender]
  BY TakeAnswerType DEF TakeCorrect, Mark
<1>2. Given \in DOMAIN correct /\ Sender # NoPlayer
  BY <1>1, PlayersAssumption DEF RoundOK
<1>3. DOMAIN correct' = DOMAIN correct
  BY <1>1
<1>4. Answered(correct') = Answered(correct) \cup {Given}
  BY <1>1, <1>2, <1>3 DEF Answered
<1> QED BY <1>1, <1>2, <1>3, <1>4

\* A round is open only while an answer is: completing the board ends it.
THEOREM NeverWaitsOnAFullBoard == Spec => []WaitsForAnAnswer
<1>1. Init => WaitsForAnAnswer
  BY DEF Init, WaitsForAnAnswer, RoundOpen
<1>2. TypeOK /\ WaitsForAnAnswer /\ [Next]_vars => WaitsForAnAnswer'
  <2> SUFFICES ASSUME TypeOK, WaitsForAnAnswer, [Next]_vars,
                      RoundOpen', DOMAIN correct' # {}
               PROVE  \E i \in DOMAIN correct' : correct'[i] = NoPlayer
    BY DEF WaitsForAnAnswer, RoundOpen
  <2>1. CASE StartRound
    BY <2>1 DEF StartRound, NewRound, EmptyBoard
  <2>2. CASE CorrectAnswer
    BY <2>2, IncompleteIsOpen DEF CorrectAnswer
  <2>3. CASE LastAnswer
    BY <2>3 DEF LastAnswer, RoundOpen
  <2>4. CASE ~StartRound /\ ~CorrectAnswer /\ ~LastAnswer
    BY <2>4, OnlyAnswersMark, OnlyStartOpens DEF WaitsForAnAnswer
  <2> QED BY <2>1, <2>2, <2>3, <2>4
<1> QED BY <1>1, <1>2, TypeCorrect, PTL DEF Spec

\* An answer taken is never taken again by another player, nor given up.
THEOREM AnswersAreFirstCome == Spec => AnswersKeepTheirOwner
<1> DEFINE Keep == \A i \in DOMAIN correct :
                     correct[i] # NoPlayer /\ RoundOpen => correct'[i] = correct[i]
<1>1. TypeOK /\ [Next]_vars => Keep
  <2> SUFFICES ASSUME TypeOK, [Next]_vars PROVE Keep
    OBVIOUS
  <2>1. CASE StartRound
    BY <2>1 DEF StartRound, CountRound, RoundOpen
  <2>2. CASE CorrectAnswer \/ LastAnswer
    BY <2>2, MarkOne DEF CorrectAnswer, LastAnswer, TypeOK, RoundOK
  <2>3. CASE ~StartRound /\ ~CorrectAnswer /\ ~LastAnswer
    BY <2>3, OnlyAnswersMark
  <2> QED BY <2>1, <2>2, <2>3
<1> QED BY <1>1, TypeCorrect, PTL DEF Spec, AnswersKeepTheirOwner

(***************************************************************************)
(* The points.                                                             *)
(***************************************************************************)

\* Rank and store hold points, every player's answers are paid once, and the
\* store is never ahead of the rank.
Accounts == IsRank(rank) /\ IsRank(saved) /\ CreditsKept /\ StoreNeverAhead

\* The board of the round has finitely many answers, each worth points.
LEMMA BoardOfRound == RoundOK => IsBoardOf(q, correct)
<1> SUFFICES ASSUME RoundOK PROVE IsBoardOf(q, correct)
  OBVIOUS
<1>1. q.score \in Seq(Nat)
  <2>1. CASE q = NoQuestion
    BY <2>1, NoQuestionType
  <2>2. CASE q \in {Order[i] : i \in DOMAIN Order}
    BY <2>2, OrderAssumption DEF IsQuestion
  <2> QED BY <2>1, <2>2 DEF RoundOK, Questions
<1>2. DOMAIN correct = 1..Len(q.score) /\ Len(q.score) \in Nat
  BY <1>1 DEF RoundOK
<1>3. IsFiniteSet(DOMAIN correct)
  BY <1>2, FS_Interval
<1>4. \A i \in DOMAIN correct : q.score[i] \in Nat
  BY <1>1, <1>2
<1> QED BY <1>3, <1>4 DEF IsBoardOf

\* SaveScore adds no more than the round's ranking has, whatever it loses.
LEMMA SaveScoreBounds ==
  ASSUME NEW r, IsRank(r), IsRank(saved), SaveScore(r)
  PROVE  /\ IsRank(saved')
         /\ \A p : Points(saved', p) <= Points(saved, p) + Points(r, p)
<1>1. CASE saved' = Add(saved, r)
  <2>1. \A p : Points(saved, p) \in Nat /\ Points(r, p) \in Nat
    BY PointsType
  <2> QED BY <1>1, <2>1, AddPoints
<1>2. ASSUME NEW kept \in SUBSET DOMAIN r,
             saved' = Add(saved, [p \in kept |-> r[p]])
      PROVE  /\ IsRank(saved')
             /\ \A p : Points(saved', p) <= Points(saved, p) + Points(r, p)
  <2> DEFINE part == [p \in kept |-> r[p]]
  <2>1. IsRank(part)
    BY DEF IsRank
  <2>2. \A p : /\ Points(saved, p) \in Nat /\ Points(r, p) \in Nat
               /\ Points(part, p) \in Nat
    BY <2>1, PointsType
  <2>3. \A p : Points(part, p) <= Points(r, p)
    BY <2>2 DEF Points
  <2>4. saved' = Add(saved, part)
    BY <1>2
  <2> HIDE DEF part
  <2>5. IsRank(saved') /\ \A p : Points(saved', p) = Points(saved, p) + Points(part, p)
    BY <2>1, <2>4, AddPoints
  <2> QED BY <2>2, <2>3, <2>5
<1> QED BY <1>1, <1>2 DEF SaveScore

\* The end of a round moves what its board is worth into the rank, and at most
\* that into the store.
LEMMA RoundEndPays ==
  ASSUME Accounts, NEW r, IsRank(r), UpdateRanking(r)
  PROVE  /\ IsRank(rank') /\ IsRank(saved') /\ StoreNeverAhead'
         /\ \A p : Points(rank', p) = Points(rank, p) + Points(r, p)
<1>1. \A p : Points(rank, p) \in Nat /\ Points(saved, p) \in Nat /\ Points(r, p) \in Nat
  BY PointsType DEF Accounts
<1>2. IsRank(rank') /\ \A p : Points(rank', p) = Points(rank, p) + Points(r, p)
  BY AddPoints DEF Accounts, UpdateRanking
<1>3. IsRank(saved') /\ \A p : Points(saved', p) <= Points(saved, p) + Points(r, p)
  BY SaveScoreBounds DEF Accounts, UpdateRanking
<1>4. \A p : Points(saved, p) <= Points(rank, p)
  BY <1>1 DEF Accounts, StoreNeverAhead, Points
<1>5. \A p \in DOMAIN saved' : Points(saved', p) \in Nat /\ saved'[p] = Points(saved', p)
  BY <1>3, PointsType DEF Points
<1>6. ASSUME NEW p \in DOMAIN saved' PROVE saved'[p] <= Points(rank', p)
  BY <1>1, <1>2, <1>3, <1>4, <1>5
<1> QED BY <1>2, <1>3, <1>6 DEF StoreNeverAhead

\* A first answer is paid to its sender, by the credit and by the board alike.
LEMMA AnswerPays ==
  ASSUME TypeOK, TakeCorrect, NEW p \in Player
  PROVE  LET pay == IF p = Sender THEN q.score[Given] ELSE 0
         IN  /\ pay \in Nat
             /\ credited[p] \in Int => credited'[p] = credited[p] + pay
             /\ Points(Ranking(q, correct'), p) = Points(Ranking(q, correct), p) + pay
             /\ IsBoardOf(q, correct')
<1>1. /\ Given \in DOMAIN correct /\ correct[Given] = NoPlayer
      /\ Sender \in Player /\ correct' = [correct EXCEPT ![Given] = Sender]
  BY MarkOne DEF TypeOK
<1>2. IsBoardOf(q, correct)
  BY BoardOfRound DEF TypeOK
<1>3. IsBoardOf(q, correct')
  BY <1>1, <1>2 DEF IsBoardOf
<1>4. q.score[Given] \in Nat
  BY <1>1, <1>2 DEF IsBoardOf
<1>5. p # NoPlayer /\ Sender # NoPlayer
  BY <1>1, PlayersAssumption
<1>6. Points(Ranking(q, correct'), p)
        = Points(Ranking(q, correct), p) + (IF p = Sender THEN q.score[Given] ELSE 0)
  <2>1. ASSUME NEW i \in DOMAIN correct, correct[i] = NoPlayer, NEW s, s # NoPlayer
        PROVE  Points(Ranking(q, [correct EXCEPT ![i] = s]), p)
                 = Points(Ranking(q, correct), p) + (IF p = s THEN q.score[i] ELSE 0)
    BY <1>2, <1>5, <2>1, MarkPaysOnce
  <2> QED BY <1>1, <1>5, <2>1
<1>7. credited'[p] = IF p = Sender THEN credited[p] + q.score[Given] ELSE credited[p]
  BY <1>1 DEF TakeCorrect, TypeOK, HistoryOK
<1> QED BY <1>3, <1>4, <1>6, <1>7

\* Outside of these steps nobody is credited with anything.
LEMMA OnlyAnswersCredit ==
  ASSUME [Next]_vars, ~CorrectAnswer, ~LastAnswer
  PROVE  UNCHANGED credited
  BY DEF Next, Goroutine, vars, history, Start, SendStarted, StartRound,
     StartRoundFails, SendQuestion, WrongAnswer, AlreadyAnswered, SendWrong,
     TimeLeftTick, DisplayTick, TimeUp, SendRoundFinished, SendTimeout, SendBoard,
     SendRank, Delay, SendFinished, Answer, OutboxReceive, TimePasses, Terminated

\* A round is open until its last answer or until its time is up.
LEMMA OnlyRoundEndCloses ==
  ASSUME [Next]_vars, ~LastAnswer, ~TimeUp, RoundOpen
  PROVE  RoundOpen'
  BY DEF Next, Goroutine, vars, RoundOpen, Start, SendStarted, StartRound,
     CountRound, StartRoundFails, SendQuestion, WrongAnswer, AlreadyAnswered,
     TakeAnswer, CorrectAnswer, SendWrong, TimeLeftTick, DisplayTick,
     SendRoundFinished, SendTimeout, SendBoard, SendRank, Delay, SendFinished,
     Answer, OutboxReceive, TimePasses, Terminated

\* Before the first round nobody has anything.
LEMMA InitAccounts == Init => Accounts
<1> SUFFICES ASSUME Init PROVE Accounts
  OBVIOUS
<1>1. IsRank(rank) /\ IsRank(saved)
  BY EmptyIsRank DEF Init
<1>2. CreditsKept
  <2>1. ~RoundOpen
    BY DEF Init, RoundOpen
  <2>2. \A p \in Player : credited[p] = 0 /\ Points(rank, p) = 0
    BY EmptyIsRank DEF Init
  <2> QED BY <2>1, <2>2 DEF CreditsKept
<1>3. StoreNeverAhead
  BY DEF Init, StoreNeverAhead, EmptyRank
<1> QED BY <1>1, <1>2, <1>3 DEF Accounts

\* Every step keeps the accounts.
LEMMA NextAccounts == TypeOK /\ Accounts /\ [Next]_vars => Accounts'
<1> SUFFICES ASSUME TypeOK, Accounts, [Next]_vars PROVE Accounts'
  OBVIOUS
<1> DEFINE Board(p) == Points(Ranking(q, correct), p)
           NewBoard(p) == Points(Ranking(q, correct'), p)
<1>1. IsBoardOf(q, correct) /\ IsRank(Ranking(q, correct))
  BY BoardOfRound, RankingIsRank DEF TypeOK
<1>2. \A p : Board(p) \in Nat /\ Points(rank, p) \in Nat
  BY <1>1, PointsType DEF Accounts
<1>3. \A p \in Player :
        credited[p] = Points(rank, p) + (IF RoundOpen THEN Board(p) ELSE 0)
  BY DEF Accounts, CreditsKept
<1>4. \A p \in Player : credited[p] \in Nat
  BY <1>2, <1>3
<1>5. ASSUME LastAnswer \/ CorrectAnswer, NEW p \in Player
      PROVE  /\ IsRank(Ranking(q, correct'))
             /\ credited'[p] = Points(rank, p) + NewBoard(p)
             /\ NewBoard(p) \in Nat
  <2>1. TakeCorrect /\ RoundOpen
    BY <1>5 DEF LastAnswer, CorrectAnswer, TakeCorrect, TakeAnswer, RoundOpen
  <2> DEFINE pay == IF p = Sender THEN q.score[Given] ELSE 0
  <2>2. /\ pay \in Nat /\ credited'[p] = credited[p] + pay
        /\ NewBoard(p) = Board(p) + pay /\ IsBoardOf(q, correct')
    BY <1>4, <2>1, AnswerPays
  <2>3. credited[p] = Points(rank, p) + Board(p)
    BY <1>3, <2>1
  <2> HIDE DEF pay, Board, NewBoard
  <2>4. credited'[p] = Points(rank, p) + NewBoard(p) /\ NewBoard(p) \in Nat
    BY <1>2, <2>2, <2>3
  <2> QED BY <2>2, <2>4, RankingIsRank
<1>6. CASE LastAnswer
  <2>1. UpdateRanking(Ranking(q, correct')) /\ ~RoundOpen'
    BY <1>6 DEF LastAnswer, RoundOpen
  <2>2. IsRank(Ranking(q, correct'))
    BY <1>6, AnswerPays, RankingIsRank, MarkOne DEF LastAnswer, TypeOK
  <2>3. /\ IsRank(rank') /\ IsRank(saved') /\ StoreNeverAhead'
        /\ \A p : Points(rank', p) = Points(rank, p) + NewBoard(p)
    BY <2>1, <2>2, RoundEndPays
  <2>4. \A p \in Player : credited'[p] = Points(rank', p)
    BY <1>5, <1>6, <2>3
  <2>5. \A p \in Player : credited'[p] \in Nat
    BY <1>2, <1>5, <1>6
  <2>6. CreditsKept'
    BY <2>1, <2>4, <2>5 DEF CreditsKept
  <2> QED BY <2>3, <2>6 DEF Accounts
<1>7. CASE TimeUp
  <2>1. UpdateRanking(Ranking(q, correct)) /\ RoundOpen /\ ~RoundOpen'
    BY <1>7 DEF TimeUp, RoundOpen
  <2>2. /\ IsRank(rank') /\ IsRank(saved') /\ StoreNeverAhead'
        /\ \A p : Points(rank', p) = Points(rank, p) + Board(p)
    BY <1>1, <2>1, RoundEndPays
  <2>3. UNCHANGED credited
    BY <1>7 DEF TimeUp
  <2>4. \A p \in Player : credited'[p] = Points(rank', p)
    BY <1>3, <2>1, <2>2, <2>3
  <2>5. CreditsKept'
    BY <1>4, <2>1, <2>3, <2>4 DEF CreditsKept
  <2> QED BY <2>2, <2>5 DEF Accounts
<1>8. CASE CorrectAnswer
  <2>1. UNCHANGED <<rank, saved, q>> /\ RoundOpen'
    BY <1>8 DEF CorrectAnswer, TakeCorrect, TakeAnswer, RoundOpen, store
  <2>2. CreditsKept'
    BY <1>5, <1>8, <2>1 DEF CreditsKept
  <2> QED BY <2>1, <2>2 DEF Accounts, StoreNeverAhead
<1>9. CASE StartRound
  <2>1. UNCHANGED <<rank, saved, credited>> /\ ~RoundOpen
    BY <1>9 DEF StartRound, CountRound, RoundOpen, store
  <2>2. Answered(correct') = {}
    BY <1>9 DEF StartRound, NewRound, EmptyBoard, Answered
  <2>3. \A p : Points(Ranking(q', correct'), p) = 0
    BY <2>2, UnansweredPaysNothing
  <2>4. CreditsKept'
    BY <1>2, <1>3, <2>1, <2>3 DEF CreditsKept
  <2> QED BY <2>1, <2>4 DEF Accounts, StoreNeverAhead
<1>10. CASE ~LastAnswer /\ ~TimeUp /\ ~CorrectAnswer /\ ~StartRound
  <2>1. UNCHANGED <<rank, saved, credited, q, correct>>
    BY <1>10, OnlyRoundEndPays, OnlyAnswersMark, OnlyAnswersCredit
  <2>2. RoundOpen' <=> RoundOpen
    BY <1>10, OnlyStartOpens, OnlyRoundEndCloses
  <2>3. CreditsKept'
    BY <2>1, <2>2 DEF Accounts, CreditsKept
  <2> QED BY <2>1, <2>3 DEF Accounts, StoreNeverAhead
<1> QED BY <1>6, <1>7, <1>8, <1>9, <1>10

\* No answer is paid twice, to somebody else or not at all: what answer and
\* updateRanking leave a player with is what the player's first answers pay.
THEOREM AnswersArePaidOnce == Spec => []CreditsKept
<1>1. Accounts => CreditsKept
  BY DEF Accounts
<1> QED BY <1>1, InitAccounts, NextAccounts, TypeCorrect, PTL DEF Spec

\* SaveScore may lose points; it never gives the channel more than was earned.
THEOREM StoreStaysBehind == Spec => []StoreNeverAhead
<1>1. Accounts => StoreNeverAhead
  BY DEF Accounts
<1> QED BY <1>1, InitAccounts, NextAccounts, TypeCorrect, PTL DEF Spec

(***************************************************************************)
(* What the players are shown.                                             *)
(***************************************************************************)

LEMMA OnlyTheseShow ==
  ASSUME [Next]_vars, ~StartRound, ~CorrectAnswer, ~LastAnswer, ~DisplayTick,
         ~SendBoard
  PROVE  UNCHANGED <<correct, highlight, shown, dropped>>
  BY DEF Next, Goroutine, vars, round, Start, SendStarted, StartRoundFails,
     SendQuestion, WrongAnswer, AlreadyAnswered, SendWrong, TimeLeftTick, TimeUp,
     SendRoundFinished, SendTimeout, SendRank, Delay, SendFinished, Answer,
     OutboxReceive, TimePasses, Terminated

\* After showAnswer nothing is new, and all that was new has been shown unless
\* the board was dropped.
LEMMA ShowAnswerShows ==
  ASSUME NEW new, NEW board, ShowAnswer(new, board),
         shown \subseteq Answered(board),
         ~dropped => new = Answered(board) \ shown
  PROVE  /\ highlight' = {} /\ shown' \subseteq Answered(board)
         /\ ~dropped' => shown' = Answered(board)
<1>1. CASE new = {}
  BY <1>1 DEF ShowAnswer
<1>2. CASE new # {} /\ Len(Out) < OutCap
  BY <1>2 DEF ShowAnswer
<1>3. CASE new # {} /\ ~(Len(Out) < OutCap)
  BY <1>3 DEF ShowAnswer
<1> QED BY <1>1, <1>2, <1>3

\* Without its last answer, a round is closed by its time being up, and then
\* the board goes out.
LEMMA OnlyTimeUpCloses ==
  ASSUME [Next]_vars, ~LastAnswer, RoundOpen, ~RoundOpen'
  PROVE  pc' = "sendTimeout"
  BY DEF Next, Goroutine, vars, RoundOpen, Start, SendStarted, StartRound,
     CountRound, StartRoundFails, SendQuestion, WrongAnswer, AlreadyAnswered,
     TakeAnswer, CorrectAnswer, SendWrong, TimeLeftTick, DisplayTick, TimeUp,
     SendRoundFinished, SendTimeout, SendBoard, SendRank, Delay, SendFinished,
     Answer, OutboxReceive, TimePasses, Terminated

LEMMA OnlySendBoardLeaves ==
  ASSUME [Next]_vars, ~SendBoard, pc \in {"sendTimeout", "sendBoard"}
  PROVE  pc' \in {"sendTimeout", "sendBoard"}
  BY DEF Next, Goroutine, vars, RoundOpen, Start, SendStarted, StartRound,
     CountRound, StartRoundFails, SendQuestion, WrongAnswer, AlreadyAnswered,
     TakeAnswer, CorrectAnswer, LastAnswer, TakeCorrect, SendWrong, TimeLeftTick,
     DisplayTick, TimeUp, SendRoundFinished, SendTimeout, SendRank, Delay,
     SendFinished, Answer, OutboxReceive, TimePasses, Terminated

Shows == NewUntilShown /\ ShownByTheEnd

LEMMA NextShows == TypeOK /\ Shows /\ [Next]_vars => Shows'
<1> SUFFICES ASSUME TypeOK, Shows, [Next]_vars PROVE Shows'
  OBVIOUS
<1>1. CASE StartRound
  <2>1. PICK limit \in QuestionLimits : NewRound(NextQuestion(totalRoundPlayed', limit))
    BY <1>1 DEF StartRound
  <2>2. shown' = {} /\ highlight' = {} /\ Answered(correct') = {}
    BY <2>1 DEF NewRound, EmptyBoard, Answered
  <2> QED BY <1>1, <2>2 DEF StartRound, Shows, NewUntilShown, ShownByTheEnd, RoundOpen
<1>2. CASE CorrectAnswer
  <2>1. /\ Given \in DOMAIN correct /\ correct[Given] = NoPlayer
        /\ Answered(correct') = Answered(correct) \cup {Given}
    BY <1>2, MarkOne DEF CorrectAnswer, TypeOK
  <2>2. RoundOpen /\ UNCHANGED <<pc, shown, dropped>>
        /\ highlight' = highlight \cup {Given}
    BY <1>2 DEF CorrectAnswer, TakeCorrect, TakeAnswer, RoundOpen
  <2>3. Given \notin Answered(correct)
    BY <2>1 DEF Answered
  <2> QED BY <2>1, <2>2, <2>3 DEF Shows, NewUntilShown, ShownByTheEnd, RoundOpen
<1>3. CASE LastAnswer
  <2>1. /\ Given \in DOMAIN correct /\ correct[Given] = NoPlayer
        /\ Answered(correct') = Answered(correct) \cup {Given}
    BY <1>3, MarkOne DEF LastAnswer, TypeOK
  <2>2. Given \notin Answered(correct)
    BY <2>1 DEF Answered
  <2>3. RoundOpen /\ pc' = "sendRoundFinished"
        /\ ShowAnswer(highlight \cup {Given}, correct')
    BY <1>3 DEF LastAnswer, TakeCorrect, TakeAnswer, RoundOpen
  <2>4. /\ shown \subseteq Answered(correct')
        /\ ~dropped => highlight \cup {Given} = Answered(correct') \ shown
    BY <2>1, <2>2, <2>3 DEF Shows, NewUntilShown
  <2>5. ~dropped' => shown' = Answered(correct')
    BY <2>3, <2>4, ShowAnswerShows
  <2> QED BY <2>3, <2>5 DEF Shows, NewUntilShown, ShownByTheEnd, RoundOpen
<1>4. CASE DisplayTick
  <2>1. RoundOpen /\ UNCHANGED <<pc, correct>> /\ ShowAnswer(highlight, correct)
    BY <1>4 DEF DisplayTick, RoundOpen
  <2>2. /\ highlight' = {} /\ shown' \subseteq Answered(correct)
        /\ ~dropped' => shown' = Answered(correct)
    BY <2>1, ShowAnswerShows DEF Shows, NewUntilShown
  <2> QED BY <2>1, <2>2 DEF Shows, NewUntilShown, ShownByTheEnd, RoundOpen
<1>5. CASE SendBoard
  BY <1>5 DEF SendBoard, round, Shows, NewUntilShown, ShownByTheEnd, RoundOpen
<1>6. CASE ~StartRound /\ ~CorrectAnswer /\ ~LastAnswer /\ ~DisplayTick /\ ~SendBoard
  <2>1. UNCHANGED <<correct, highlight, shown, dropped>>
    BY <1>6, OnlyTheseShow
  <2>2. RoundOpen' => RoundOpen
    BY <1>6, OnlyStartOpens
  <2>3. ASSUME RoundOpen, ~RoundOpen' PROVE pc' = "sendTimeout"
    BY <1>6, <2>3, OnlyTimeUpCloses
  <2>4. ASSUME pc \in {"sendTimeout", "sendBoard"}
        PROVE  pc' \in {"sendTimeout", "sendBoard"}
    BY <1>6, <2>4, OnlySendBoardLeaves
  <2> QED BY <2>1, <2>2, <2>3, <2>4 DEF Shows, NewUntilShown, ShownByTheEnd, RoundOpen
<1> QED BY <1>1, <1>2, <1>3, <1>4, <1>5, <1>6

\* Boards show given answers only, an answer stays new until a board with it is
\* sent, unless it found Out full, and by the end of the round every given answer
\* has been shown, unless the last board did.
THEOREM EveryAnswerIsShown == Spec => [](NewUntilShown /\ ShownByTheEnd)
<1>1. Init => Shows
  BY DEF Init, Shows, NewUntilShown, ShownByTheEnd, RoundOpen, Answered
<1> QED BY <1>1, NextShows, TypeCorrect, PTL DEF Spec, Shows

\* By the end of a round every given answer has been shown, unless its last board
\* found Out full.
COROLLARY NothingStaysHidden == Spec => []ShownByTheEnd
BY EveryAnswerIsShown, PTL

(***************************************************************************)
(* The names of the ranked.                                                *)
(***************************************************************************)

LEMMA RankingLists ==
  ASSUME NEW question, NEW board
  PROVE  DOMAIN Ranking(question, board) = {board[i] : i \in Answered(board)}
  BY DEF Ranking

LEMMA AddLists ==
  ASSUME NEW r, NEW source
  PROVE  DOMAIN Add(r, source) = DOMAIN r \cup DOMAIN source
  BY DEF Add

LEMMA AddRankingLists ==
  ASSUME NEW r, NEW question, NEW board
  PROVE  DOMAIN Add(r, Ranking(question, board))
           = DOMAIN r \cup {board[i] : i \in Answered(board)}
<1>1. DOMAIN Add(r, Ranking(question, board))
        = DOMAIN r \cup DOMAIN Ranking(question, board)
  BY AddLists
<1> QED BY <1>1, RankingLists

LEMMA OnlyAnswersRegister ==
  ASSUME [Next]_vars
  PROVE  players \subseteq players'
  BY DEF Next, Goroutine, vars, Start, SendStarted, StartRound, StartRoundFails,
     SendQuestion, WrongAnswer, AlreadyAnswered, CorrectAnswer, LastAnswer,
     TakeCorrect, TakeAnswer, SendWrong, TimeLeftTick, DisplayTick, TimeUp,
     SendRoundFinished, SendTimeout, SendBoard, SendRank, Delay, SendFinished,
     Answer, OutboxReceive, TimePasses, Terminated

\* The game knows every player on the board or in the rank, so the lists it
\* prints have a name for each.
THEOREM RankedPlayersHaveNames == Spec => []RankedPlayersKnown
<1>1. Init => RankedPlayersKnown
  BY DEF Init, RankedPlayersKnown, EmptyRank, Answered
<1>2. TypeOK /\ RankedPlayersKnown /\ [Next]_vars => RankedPlayersKnown'
  <2> SUFFICES ASSUME TypeOK, RankedPlayersKnown, [Next]_vars PROVE RankedPlayersKnown'
    OBVIOUS
  <2>1. CASE StartRound
    <3>1. Answered(correct') = {} /\ UNCHANGED <<rank, players>>
      BY <2>1 DEF StartRound, NewRound, EmptyBoard, Answered
    <3> QED BY <3>1 DEF RankedPlayersKnown
  <2>2. ASSUME TakeCorrect
        PROVE  \A i \in Answered(correct') : correct'[i] \in players'
    <3>1. players' = players \cup {Sender}
      BY <2>2 DEF TakeCorrect, TakeAnswer
    <3> QED BY <2>2, <3>1, MarkOne DEF RankedPlayersKnown, TypeOK, Answered
  <2>3. CASE CorrectAnswer
    BY <2>2, <2>3, OnlyAnswersRegister, OnlyRoundEndPays
       DEF CorrectAnswer, RankedPlayersKnown
  <2>4. CASE LastAnswer
    <3>1. TakeCorrect /\ rank' = Add(rank, Ranking(q, correct'))
      BY <2>4 DEF LastAnswer, UpdateRanking
    <3>2. DOMAIN rank' = DOMAIN rank \cup {correct'[i] : i \in Answered(correct')}
      BY <3>1, AddRankingLists
    <3>3. \A i \in Answered(correct') : correct'[i] \in players'
      BY <2>2, <3>1
    <3> QED BY <3>2, <3>3, OnlyAnswersRegister DEF RankedPlayersKnown
  <2>5. CASE TimeUp
    <3>1. UNCHANGED <<correct, players>> /\ rank' = Add(rank, Ranking(q, correct))
      BY <2>5 DEF TimeUp, UpdateRanking, round
    <3>2. DOMAIN rank' = DOMAIN rank \cup {correct[i] : i \in Answered(correct)}
      BY <3>1, AddRankingLists
    <3> QED BY <3>1, <3>2 DEF RankedPlayersKnown
  <2>6. CASE ~StartRound /\ ~CorrectAnswer /\ ~LastAnswer /\ ~TimeUp
    BY <2>6, OnlyAnswersMark, OnlyRoundEndPays, OnlyAnswersRegister
       DEF RankedPlayersKnown
  <2> QED BY <2>1, <2>3, <2>4, <2>5, <2>6
<1> QED BY <1>1, <1>2, TypeCorrect, PTL DEF Spec

(***************************************************************************)
(* The contract.                                                           *)
(***************************************************************************)

\* The steps that the contract does not see.
LEMMA Unseen ==
  ASSUME TypeOK, [Next]_vars,
         ~Start, ~StartRound, ~StartRoundFails, ~CorrectAnswer, ~LastAnswer,
         ~TimeUp, ~SendRank
  PROVE  UNCHANGED <<Stage, RoundAsked, q, correct, rank, announced>>
<1>1. UNCHANGED <<q, correct, rank>>
  BY OnlyAnswersMark, OnlyRoundEndPays
<1>2. UNCHANGED announced
  BY DEF Next, Goroutine, vars, SendStarted, SendQuestion, WrongAnswer,
     AlreadyAnswered, SendWrong, TimeLeftTick, DisplayTick, SendRoundFinished,
     SendTimeout, SendBoard, Delay, SendFinished, Answer, OutboxReceive,
     TimePasses, Terminated
<1> SUFFICES UNCHANGED <<Stage, RoundAsked>>
  BY <1>1, <1>2
<1>3. CASE UNCHANGED <<pc, rnd>>
  BY <1>3 DEF Stage, RoundAsked, RoundOpen
<1>4. CASE SendStarted
  BY <1>4 DEF SendStarted, Stage, RoundAsked, RoundOpen
<1>5. CASE SendQuestion
  BY <1>5 DEF SendQuestion, Stage, RoundAsked, RoundOpen
<1>6. CASE WrongAnswer
  BY <1>6 DEF WrongAnswer, TakeAnswer, Stage, RoundAsked, RoundOpen
<1>7. CASE SendWrong
  BY <1>7 DEF SendWrong, Stage, RoundAsked, RoundOpen
<1>8. CASE SendRoundFinished
  BY <1>8 DEF SendRoundFinished, Stage, RoundAsked, RoundOpen
<1>9. CASE SendTimeout
  BY <1>9 DEF SendTimeout, Stage, RoundAsked, RoundOpen
<1>10. CASE SendBoard
  BY <1>10 DEF SendBoard, Stage, RoundAsked, RoundOpen
<1>11. CASE Delay
  <2>1. rnd \in Nat
    BY BoundsAssumption DEF TypeOK, ControlOK
  <2> QED BY <1>11, <2>1 DEF Delay, Stage, RoundAsked, RoundOpen
<1>12. CASE SendFinished
  BY <1>12 DEF SendFinished, Stage, RoundAsked, RoundOpen
<1>13. ~(UNCHANGED <<pc, rnd>>)
         => \/ SendStarted \/ SendQuestion \/ WrongAnswer \/ SendWrong
            \/ SendRoundFinished \/ SendTimeout \/ SendBoard \/ Delay \/ SendFinished
  BY DEF Next, Goroutine, vars, AlreadyAnswered, TimeLeftTick, DisplayTick,
     Answer, OutboxReceive, TimePasses, Terminated
<1> QED BY <1>3, <1>4, <1>5, <1>6, <1>7, <1>8, <1>9, <1>10, <1>11, <1>12, <1>13

LEMMA StepsMeetContract ==
  ASSUME TypeOK, [Next]_vars
  PROVE  [Contract!Next]_(Contract!vars)
<1>1. rnd \in 0..RoundPerGame /\ RoundPerGame \in Nat \ {0} /\ rnd \in Nat
      /\ (pc = "created" <=> rnd = 0)
  BY BoundsAssumption DEF TypeOK, ControlOK
<1>2. CASE Start
  <2>1. Contract!Begin
    BY <1>1, <1>2 DEF Start, round, Contract!Begin, Stage, RoundAsked, RoundOpen
  <2> QED BY <2>1 DEF Contract!Next
<1>3. CASE StartRound
  <2>1. totalRoundPlayed' \in Nat
    BY <1>3 DEF StartRound, CountRound, TypeOK, ControlOK
  <2>2. PICK limit \in QuestionLimits : NewRound(NextQuestion(totalRoundPlayed', limit))
    BY <1>3 DEF StartRound
  <2> DEFINE next == NextQuestion(totalRoundPlayed', limit)
  <2>3. next \in {Order[i] : i \in DOMAIN Order}
    BY <2>1, NextQuestionIsOne, BoundsAssumption
  <2>4. q' = next /\ correct' = EmptyBoard(next)
    BY <2>2 DEF NewRound
  <2> HIDE DEF next
  <2>5. Contract!Ask(next)
    BY <1>1, <1>3, <2>4 DEF StartRound, CountRound, Contract!Ask,
       Stage, RoundAsked, RoundOpen
  <2> QED BY <2>3, <2>5 DEF Contract!Next
<1>4. CASE StartRoundFails
  <2>1. Contract!GiveUp
    BY <1>1, <1>4 DEF StartRoundFails, CountRound, round, Contract!GiveUp, Stage,
       RoundAsked, RoundOpen
  <2> QED BY <2>1 DEF Contract!Next
<1>5. ASSUME TakeCorrect, UNCHANGED <<RoundAsked, q, announced>>
      PROVE  Sender \in Player /\ Given \in DOMAIN correct
             /\ Contract!Give(Sender, Given)
  <2>1. Stage = "asked"
    BY <1>5 DEF TakeCorrect, TakeAnswer, Stage, RoundOpen
  <2> QED BY <1>5, <2>1, MarkOne DEF TypeOK, Contract!Give
<1>6. CASE CorrectAnswer
  <2>1. TakeCorrect /\ UNCHANGED <<pc, rnd, q, announced, rank>>
    BY <1>6 DEF CorrectAnswer
  <2>2. UNCHANGED <<Stage, RoundAsked>>
    BY <2>1 DEF Stage, RoundAsked, RoundOpen
  <2>3. ~Complete(correct')
    BY <1>6 DEF CorrectAnswer
  <2>4. Contract!GiveOne(Sender, Given)
    BY <1>5, <2>1, <2>2, <2>3 DEF Contract!GiveOne
  <2> QED BY <1>5, <2>1, <2>2, <2>4 DEF Contract!Next
<1>7. CASE LastAnswer
  <2>1. TakeCorrect /\ UNCHANGED <<rnd, q, announced>>
        /\ pc = "select" /\ pc' = "sendRoundFinished"
    BY <1>7 DEF LastAnswer, TakeCorrect, TakeAnswer
  <2>2. UNCHANGED RoundAsked
    BY <2>1 DEF RoundAsked
  <2>3. Complete(correct')
    BY <1>7 DEF LastAnswer
  <2>4. Contract!Pay
    BY <1>7, <2>1 DEF LastAnswer, UpdateRanking, Contract!Pay, Stage, RoundOpen
  <2>5. Contract!GiveLast(Sender, Given)
    BY <1>5, <2>1, <2>2, <2>3, <2>4 DEF Contract!GiveLast
  <2> QED BY <1>5, <2>1, <2>2, <2>5 DEF Contract!Next
<1>8. CASE TimeUp
  <2>1. /\ UNCHANGED <<rnd, q, correct, announced>>
        /\ pc = "select" /\ pc' = "sendTimeout"
        /\ rank' = Add(rank, Ranking(q, correct'))
    BY <1>8 DEF TimeUp, round, UpdateRanking
  <2>2. UNCHANGED RoundAsked /\ Stage = "asked" /\ Stage' = "over"
    BY <2>1 DEF RoundAsked, Stage, RoundOpen
  <2>3. Contract!Pay
    BY <2>1, <2>2 DEF Contract!Pay
  <2>4. Contract!TimeUp
    BY <2>1, <2>2, <2>3 DEF Contract!TimeUp
  <2> QED BY <2>4 DEF Contract!Next
<1>9. CASE SendRank
  <2>1. Contract!Announce
    BY <1>9 DEF SendRank, Final, round, Contract!Announce, Stage, RoundAsked, RoundOpen
  <2> QED BY <2>1 DEF Contract!Next
<1>10. CASE ~Start /\ ~StartRound /\ ~StartRoundFails /\ ~CorrectAnswer
            /\ ~LastAnswer /\ ~TimeUp /\ ~SendRank
  BY <1>10, Unseen DEF Contract!vars
<1> QED BY <1>2, <1>3, <1>4, <1>6, <1>7, <1>8, <1>9, <1>10

\* The game implements its contract.
THEOREM GameImplementsContract == Spec => ImplementsContract
<1>1. Init => Contract!Init
  BY DEF Init, Contract!Init, Stage, RoundAsked
<1>2. TypeOK /\ [Next]_vars => [Contract!Next]_(Contract!vars)
  BY StepsMeetContract
<1> QED BY <1>1, <1>2, TypeCorrect, PTL DEF Spec, Contract!Spec, ImplementsContract

(***************************************************************************)
(* What the channel hears, and what the bot sees of the game.              *)
(***************************************************************************)

\* The messages of the game in the order they were put on Out, the one heard
\* last at place 0, and the places of those that tell the course of the game.
Msg(i) == IF i = 0 THEN heard ELSE Out[i]
Marks == {0} \cup {i \in DOMAIN Out : Out[i].kind \in Lifecycle}

\* What came last before the round that is about to begin.
BeforeRound(m) ==
  \/ rnd = 1 /\ m.kind = "started"
  \/ m.kind = "rank" /\ rnd = m.round + 1

\* The last thing the game has said, by where it stands.
Said(m) ==
  \/ pc \in {"created", "sendStarted"} /\ m.kind = "none"
  \/ pc \in {"startRound", "sendQuestion"} /\ BeforeRound(m)
  \/ /\ pc \in {"select", "sendWrong", "sendRoundFinished", "sendTimeout"}
     /\ m.kind = "roundStarted" /\ m.round = rnd
  \/ pc = "sendBoard" /\ m.kind = "roundTimeout" /\ m.round = rnd
  \/ /\ pc = "sendRank"
     /\ \/ m.kind \in {"roundFinished", "roundTimeout"} /\ m.round = rnd
        \/ QuestionFaults /\ BeforeRound(m)
  \/ pc = "delay" /\ m.kind = "rank" /\ m.round = rnd
  \/ pc = "sendFinished" /\ m.kind = "rank" /\ m.round = RoundPerGame
  \/ pc = "done" /\ m.kind = "finished"

\* Between two marks lies no third.
Adjacent(i, j) == i < j /\ \A k \in Marks : ~(i < k /\ k < j)

\* Neighbours on the way to the channel follow one another, and the last of
\* them is what the game has just said.
InOrder ==
  /\ pc = "sendStarted" => rnd = 1
  /\ \A i, j \in Marks : Adjacent(i, j) => Follows(Msg(j), Msg(i))
  /\ \A i \in Marks : (\A j \in Marks : j <= i) => Said(Msg(i))

\* Steps that say nothing of the course of the game.
Quiet ==
  /\ heard' = heard
  /\ \/ Out' = Out
     \/ \E k \in 0..RoundPerGame, kind \in Kinds \ Lifecycle :
          Out' = Append(Out, [kind |-> kind, round |-> k])
  /\ \A m : Said(m) => Said(m)'

\* Steps that say the next thing.
Speaks ==
  /\ heard' = heard
  /\ \E k \in 0..RoundPerGame, kind \in Lifecycle :
       LET e == [kind |-> kind, round |-> k] IN
       /\ Out' = Append(Out, e)
       /\ Said(e)'
       /\ \A m : Said(m) => Follows(e, m)

LEMMA SendOrDropQuiet ==
  ASSUME TypeOK, NEW kind \in Kinds \ Lifecycle, SendOrDrop(kind)
  PROVE  \/ Out' = Out
         \/ \E k \in 0..RoundPerGame, kd \in Kinds \ Lifecycle :
              Out' = Append(Out, [kind |-> kd, round |-> k])
<1>1. rnd \in 0..RoundPerGame
  BY DEF TypeOK, ControlOK
<1> QED BY <1>1 DEF SendOrDrop

LEMMA ShowAnswerQuiet ==
  ASSUME TypeOK, NEW new, NEW board, ShowAnswer(new, board)
  PROVE  \/ Out' = Out
         \/ \E k \in 0..RoundPerGame, kd \in Kinds \ Lifecycle :
              Out' = Append(Out, [kind |-> kd, round |-> k])
<1>1. "board" \in Kinds \ Lifecycle
  BY DEF Kinds, Lifecycle
<1>2. CASE new = {}
  BY <1>2 DEF ShowAnswer
<1>3. CASE new # {}
  BY <1>1, <1>3, SendOrDropQuiet DEF ShowAnswer
<1> QED BY <1>2, <1>3

LEMMA StepsQuietOrSpeaking ==
  ASSUME TypeOK, InOrder, [Next]_vars
  PROVE  Quiet \/ Speaks \/ OutboxReceive
<1>0. /\ rnd \in 0..RoundPerGame /\ RoundPerGame \in Nat \ {0}
      /\ (pc = "created" <=> rnd = 0) /\ 0 \in 0..RoundPerGame
  BY BoundsAssumption DEF TypeOK, ControlOK
<1>1. CASE SendStarted
  <2>1. rnd = 1 /\ pc' = "startRound" /\ rnd' = rnd /\ heard' = heard
        /\ Out' = Append(Out, [kind |-> "started", round |-> 0])
    BY <1>1 DEF SendStarted, Send, InOrder
  <2>2. Said([kind |-> "started", round |-> 0])'
    BY <2>1 DEF Said, BeforeRound
  <2>3. \A m : Said(m) => Follows([kind |-> "started", round |-> 0], m)
    BY <1>1 DEF SendStarted, Said, Follows
  <2> QED BY <1>0, <2>1, <2>2, <2>3 DEF Speaks, Lifecycle
<1>2. CASE SendQuestion
  <2>1. pc' = "select" /\ rnd' = rnd /\ heard' = heard
        /\ Out' = Append(Out, [kind |-> "roundStarted", round |-> rnd])
    BY <1>2 DEF SendQuestion, Send
  <2>2. Said([kind |-> "roundStarted", round |-> rnd])'
    BY <2>1 DEF Said
  <2>3. \A m : Said(m) => Follows([kind |-> "roundStarted", round |-> rnd], m)
    BY <1>2 DEF SendQuestion, Said, BeforeRound, Follows
  <2> QED BY <1>0, <2>1, <2>2, <2>3 DEF Speaks, Lifecycle
<1>3. CASE SendRoundFinished
  <2>1. pc' = "sendRank" /\ rnd' = rnd /\ heard' = heard
        /\ Out' = Append(Out, [kind |-> "roundFinished", round |-> rnd])
    BY <1>3 DEF SendRoundFinished, Send
  <2>2. Said([kind |-> "roundFinished", round |-> rnd])'
    BY <2>1 DEF Said
  <2>3. \A m : Said(m) => Follows([kind |-> "roundFinished", round |-> rnd], m)
    BY <1>3 DEF SendRoundFinished, Said, Follows
  <2> QED BY <1>0, <2>1, <2>2, <2>3 DEF Speaks, Lifecycle
<1>4. CASE SendTimeout
  <2>1. pc' = "sendBoard" /\ rnd' = rnd /\ heard' = heard
        /\ Out' = Append(Out, [kind |-> "roundTimeout", round |-> rnd])
    BY <1>4 DEF SendTimeout, Send
  <2>2. Said([kind |-> "roundTimeout", round |-> rnd])'
    BY <2>1 DEF Said
  <2>3. \A m : Said(m) => Follows([kind |-> "roundTimeout", round |-> rnd], m)
    BY <1>4 DEF SendTimeout, Said, Follows
  <2> QED BY <1>0, <2>1, <2>2, <2>3 DEF Speaks, Lifecycle
<1>5. CASE SendRank
  <2>1. pc' = (IF Final THEN "sendFinished" ELSE "delay") /\ rnd' = rnd
        /\ heard' = heard /\ Out' = Append(Out, [kind |-> "rank", round |-> rnd])
    BY <1>5 DEF SendRank, Send
  <2>2. Said([kind |-> "rank", round |-> rnd])'
    BY <2>1 DEF Said, Final
  <2>3. \A m : Said(m) => Follows([kind |-> "rank", round |-> rnd], m)
    BY <1>5 DEF SendRank, Said, BeforeRound, Follows
  <2> QED BY <1>0, <2>1, <2>2, <2>3 DEF Speaks, Lifecycle
<1>6. CASE SendFinished
  <2>1. pc' = "done" /\ rnd' = rnd /\ heard' = heard
        /\ Out' = Append(Out, [kind |-> "finished", round |-> 0])
    BY <1>6 DEF SendFinished, Send
  <2>2. Said([kind |-> "finished", round |-> 0])'
    BY <2>1 DEF Said
  <2>3. \A m : Said(m) => Follows([kind |-> "finished", round |-> 0], m)
    BY <1>6 DEF SendFinished, Said, Follows
  <2> QED BY <1>0, <2>1, <2>2, <2>3 DEF Speaks, Lifecycle
<1>7. ASSUME heard' = heard, Out' = Out, \A m : Said(m) => Said(m)'
      PROVE  Quiet
  BY <1>7 DEF Quiet
<1>8. CASE UNCHANGED <<pc, rnd, Out, heard>>
  <2>1. \A m : Said(m) => Said(m)'
    BY <1>8 DEF Said, BeforeRound
  <2> QED BY <1>7, <1>8, <2>1
<1>9. CASE Start
  <2>1. \A m : Said(m) => Said(m)'
    BY <1>9 DEF Start, Said
  <2> QED BY <1>7, <1>9, <2>1 DEF Start
<1>10. CASE StartRound
  <2>1. \A m : Said(m) => Said(m)'
    BY <1>10 DEF StartRound, CountRound, Said, BeforeRound
  <2> QED BY <1>7, <1>10, <2>1 DEF StartRound
<1>11. CASE StartRoundFails
  <2>1. \A m : Said(m) => Said(m)'
    BY <1>11 DEF StartRoundFails, CountRound, Said, BeforeRound
  <2> QED BY <1>7, <1>11, <2>1 DEF StartRoundFails
<1>12. CASE WrongAnswer
  <2>1. \A m : Said(m) => Said(m)'
    BY <1>12 DEF WrongAnswer, TakeAnswer, Said
  <2> QED BY <1>7, <1>12, <2>1 DEF WrongAnswer
<1>13. CASE LastAnswer
  <2>1. \A m : Said(m) => Said(m)'
    BY <1>13 DEF LastAnswer, TakeCorrect, TakeAnswer, Said
  <2> QED BY <1>13, <2>1, ShowAnswerQuiet DEF LastAnswer, Quiet
<1>14. CASE SendWrong
  <2>1. \A m : Said(m) => Said(m)'
    BY <1>14 DEF SendWrong, Said
  <2>2. "wrong" \in Kinds \ Lifecycle
    BY DEF Kinds, Lifecycle
  <2> QED BY <1>0, <1>14, <2>1, <2>2 DEF SendWrong, Send, Quiet
<1>15. CASE TimeLeftTick
  <2>1. \A m : Said(m) => Said(m)'
    BY <1>15 DEF TimeLeftTick, Said, BeforeRound
  <2>2. "tick" \in Kinds \ Lifecycle
    BY DEF Kinds, Lifecycle
  <2> QED BY <1>15, <2>1, <2>2, SendOrDropQuiet DEF TimeLeftTick, Quiet
<1>16. CASE DisplayTick
  <2>1. \A m : Said(m) => Said(m)'
    BY <1>16 DEF DisplayTick, Said, BeforeRound
  <2> QED BY <1>16, <2>1, ShowAnswerQuiet DEF DisplayTick, Quiet
<1>17. CASE TimeUp
  <2>1. \A m : Said(m) => Said(m)'
    BY <1>17 DEF TimeUp, Said
  <2> QED BY <1>7, <1>17, <2>1 DEF TimeUp
<1>18. CASE SendBoard
  <2>1. \A m : Said(m) => Said(m)'
    BY <1>18 DEF SendBoard, Said
  <2>2. "board" \in Kinds \ Lifecycle
    BY DEF Kinds, Lifecycle
  <2> QED BY <1>0, <1>18, <2>1, <2>2 DEF SendBoard, Send, Quiet
<1>19. CASE Delay
  <2>1. \A m : Said(m) => Said(m)'
    BY <1>0, <1>19 DEF Delay, Said, BeforeRound
  <2> QED BY <1>7, <1>19, <2>1 DEF Delay
<1>20. ASSUME ~UNCHANGED <<pc, rnd, Out, heard>>
       PROVE  \/ SendStarted \/ SendQuestion \/ SendRoundFinished \/ SendTimeout
              \/ SendRank \/ SendFinished \/ Start \/ StartRound \/ StartRoundFails
              \/ WrongAnswer \/ LastAnswer \/ SendWrong \/ TimeLeftTick \/ DisplayTick
              \/ TimeUp \/ SendBoard \/ Delay \/ OutboxReceive
  BY <1>20 DEF Next, Goroutine, vars, AlreadyAnswered, CorrectAnswer, Answer,
     TimePasses, Terminated
<1> QED BY <1>1, <1>2, <1>3, <1>4, <1>5, <1>6, <1>8, <1>9, <1>10, <1>11, <1>12,
       <1>13, <1>14, <1>15, <1>16, <1>17, <1>18, <1>19, <1>20

\* The places of the messages when nothing of the course of the game is said,
\* when its next mark is appended, and when the outbox takes one message.
LEMMA QuietMarks ==
  ASSUME TypeOK, Quiet
  PROVE  Marks' = Marks /\ \A i \in Marks : Msg(i)' = Msg(i)
<1>1. Out \in Seq(Messages)
  BY DEF TypeOK, QueuesOK, Messages
<1>2. CASE Out' = Out
  BY <1>2 DEF Quiet, Marks, Msg
<1>3. ASSUME NEW k \in 0..RoundPerGame, NEW kind \in Kinds \ Lifecycle,
             Out' = Append(Out, [kind |-> kind, round |-> k])
      PROVE  Marks' = Marks /\ \A i \in Marks : Msg(i)' = Msg(i)
  <2> DEFINE n == Len(Out)
             e == [kind |-> kind, round |-> k]
  <2>1. /\ n \in Nat /\ DOMAIN Out = 1..n /\ DOMAIN Out' = 1..(n + 1)
        /\ \A i \in 1..n : Out'[i] = Out[i]
        /\ Out'[n + 1] = e
    BY <1>1, <1>3
  <2>2. e.kind \notin Lifecycle
    BY <1>3
  <2>3. \A i \in 1..(n + 1) : i \in 1..n \/ i = n + 1
    BY <2>1
  <2>4. Marks' = {0} \cup {i \in 1..(n + 1) : Out'[i].kind \in Lifecycle}
    BY <2>1 DEF Marks
  <2>5. {i \in 1..(n + 1) : Out'[i].kind \in Lifecycle}
          = {i \in 1..n : Out[i].kind \in Lifecycle}
    <3> HIDE DEF e
    <3>1. 1..n \subseteq 1..(n + 1)
      BY <2>1
    <3> QED BY <2>1, <2>2, <2>3, <3>1
  <2>6. Marks' = Marks
    BY <2>1, <2>4, <2>5 DEF Marks
  <2>7. \A i \in Marks : i = 0 \/ i \in 1..n
    BY <2>1 DEF Marks
  <2> QED BY <1>3, <2>1, <2>6, <2>7 DEF Msg, Quiet
<1> QED BY <1>2, <1>3 DEF Quiet

LEMMA NextInOrder == TypeOK /\ InOrder /\ [Next]_vars => InOrder'
<1> SUFFICES ASSUME TypeOK, InOrder, [Next]_vars PROVE InOrder'
  OBVIOUS
<1>1. Out \in Seq(Messages) /\ Len(Out) \in Nat /\ DOMAIN Out = 1..Len(Out)
  BY DEF TypeOK, QueuesOK, Messages
<1>2. Marks \subseteq Nat
  BY <1>1 DEF Marks
<1>3. pc' = "sendStarted" => rnd' = 1
  BY DEF InOrder, Next, Goroutine, vars, Start, SendStarted, StartRound, CountRound,
     StartRoundFails, SendQuestion, WrongAnswer, AlreadyAnswered, CorrectAnswer,
     LastAnswer, TakeCorrect, TakeAnswer, SendWrong, TimeLeftTick, DisplayTick,
     TimeUp, SendRoundFinished, SendTimeout, SendBoard, SendRank, Delay,
     SendFinished, Answer, OutboxReceive, TimePasses, Terminated
<1>4. CASE Quiet
  <2>1. Marks' = Marks /\ \A i \in Marks : Msg(i)' = Msg(i)
    BY <1>4, QuietMarks
  <2>2. \A m : Said(m) => Said(m)'
    BY <1>4 DEF Quiet
  <2>3. \A i, j \in Marks' : Adjacent(i, j)' => Follows(Msg(j), Msg(i))'
    BY <2>1 DEF InOrder, Adjacent, Follows
  <2>4. \A i \in Marks' : (\A j \in Marks' : j <= i) => Said(Msg(i))'
    BY <2>1, <2>2 DEF InOrder, Said, BeforeRound
  <2> QED BY <1>3, <2>3, <2>4 DEF InOrder
<1>5. CASE Speaks
  <2>1. PICK k \in 0..RoundPerGame, kind \in Lifecycle :
          LET e == [kind |-> kind, round |-> k] IN
          /\ Out' = Append(Out, e)
          /\ Said(e)'
          /\ \A m : Said(m) => Follows(e, m)
    BY <1>5 DEF Speaks
  <2>0. PICK n \in Nat : n = Len(Out)
    BY <1>1
  <2> DEFINE e == [kind |-> kind, round |-> k]
  <2>2. /\ DOMAIN Out' = 1..(n + 1)
        /\ \A i \in 1..n : Out'[i] = Out[i]
        /\ Out'[n + 1] = e
    BY <1>1, <2>0, <2>1
  <2>3. e.kind \in Lifecycle
    BY <2>1
  <2>4. heard' = heard /\ Said(e)' /\ \A m : Said(m) => Follows(e, m)
    BY <1>5, <2>1 DEF Speaks
  <2> HIDE DEF e
  <2>5. \A i \in 1..(n + 1) : i \in 1..n \/ i = n + 1
    BY <2>0
  <2>6. Marks' = Marks \cup {n + 1}
    <3>1. 1..n \subseteq 1..(n + 1) /\ n + 1 \in 1..(n + 1)
      BY <2>0
    <3> QED BY <1>1, <2>0, <2>2, <2>3, <2>5, <3>1 DEF Marks
  <2>7. \A i \in Marks : i <= n /\ i < n + 1 /\ Msg(i)' = Msg(i)
    BY <1>1, <2>0, <2>2, <2>4 DEF Marks, Msg
  <2>8. Msg(n + 1)' = e
    BY <2>0, <2>2 DEF Msg
  <2>9. ASSUME NEW i \in Marks', NEW j \in Marks', Adjacent(i, j)'
        PROVE  Follows(Msg(j), Msg(i))'
    <3>0. i \in Nat /\ j \in Nat /\ i < j /\ \A m \in Marks' : ~(i < m /\ m < j)
      BY <1>1, <1>2, <2>6, <2>9 DEF Adjacent
    <3>1. i \in Marks
      BY <1>1, <1>2, <2>6, <2>7, <3>0
    <3>2. CASE j \in Marks
      <4>1. Adjacent(i, j)
        BY <2>6, <3>0 DEF Adjacent
      <4>2. Follows(Msg(j), Msg(i))
        BY <3>1, <3>2, <4>1 DEF InOrder
      <4> QED BY <2>7, <3>1, <3>2, <4>2 DEF Follows
    <3>3. CASE j = n + 1
      <4>1. \A m \in Marks : m <= i
        BY <1>2, <2>6, <2>7, <3>0, <3>3
      <4>2. Said(Msg(i))
        BY <3>1, <4>1 DEF InOrder
      <4>3. Follows(e, Msg(i))
        BY <2>4, <4>2
      <4> QED BY <2>7, <2>8, <3>1, <3>3, <4>3 DEF Follows
    <3> QED BY <2>6, <3>2, <3>3
  <2>10. ASSUME NEW i \in Marks', \A j \in Marks' : j <= i
         PROVE  Said(Msg(i))'
    <3>1. i = n + 1
      BY <1>1, <1>2, <2>6, <2>7, <2>10
    <3> QED BY <2>4, <2>8, <3>1 DEF Said, BeforeRound
  <2> QED BY <1>3, <2>9, <2>10 DEF InOrder
<1>6. CASE OutboxReceive
  <2> DEFINE n == Len(Out)
  <2>1. /\ n > 0 /\ DOMAIN Out' = 1..(n - 1)
        /\ \A i \in 1..(n - 1) : Out'[i] = Out[i + 1]
        /\ Head(Out) = Out[1]
    BY <1>1, <1>6 DEF OutboxReceive
  <2>2. \A m : Said(m) = Said(m)'
    BY <1>6 DEF OutboxReceive, Said, BeforeRound
  <2> DEFINE shift == IF Out[1].kind \in Lifecycle THEN 1 ELSE 0
             was(i) == IF i = 0 THEN shift ELSE i + 1
  <2>3. heard' = Msg(shift) /\ shift \in Marks
    <3>1. heard' = IF Out[1].kind \in Lifecycle THEN Out[1] ELSE heard
      BY <1>6, <2>1 DEF OutboxReceive
    <3> QED BY <1>1, <2>1, <3>1 DEF Msg, Marks
  <2>4. \A i \in Marks' : was(i) \in Marks /\ Msg(i)' = Msg(was(i))
    <3> SUFFICES ASSUME NEW i \in Marks' PROVE was(i) \in Marks /\ Msg(i)' = Msg(was(i))
      OBVIOUS
    <3>1. CASE i = 0
      BY <2>3, <3>1 DEF Msg
    <3>2. CASE i # 0
      <4>1. i \in 1..(n - 1) /\ Out[i + 1].kind \in Lifecycle /\ Out'[i] = Out[i + 1]
        BY <2>1, <3>2 DEF Marks
      <4>2. i + 1 \in DOMAIN Out /\ i + 1 # 0
        BY <1>1, <2>1, <4>1
      <4> QED BY <3>2, <4>1, <4>2 DEF Marks, Msg
    <3> QED BY <3>1, <3>2
  <2>5. Marks' \subseteq Nat
    BY <1>1, <2>1 DEF Marks
  \* Every mark that is still there has its place among the new ones.
  <2>6. \A m \in Marks : m >= shift =>
          \E i \in Marks' : was(i) = m
    <3> SUFFICES ASSUME NEW m \in Marks, m >= shift PROVE \E i \in Marks' : was(i) = m
      OBVIOUS
    <3>1. CASE m = shift
      BY <3>1 DEF Marks
    <3>2. CASE m # shift
      <4>1. m \in 1..n /\ Out[m].kind \in Lifecycle /\ m # 1
        BY <1>1, <2>1, <3>2 DEF Marks
      <4>2. m - 1 \in 1..(n - 1) /\ (m - 1) + 1 = m
        BY <1>1, <4>1
      <4>3. m - 1 \in Marks' /\ was(m - 1) = m
        BY <2>1, <4>1, <4>2 DEF Marks
      <4> QED BY <4>3
    <3> QED BY <3>1, <3>2
  <2>7. \A i, j \in Marks' : (i < j <=> was(i) < was(j)) /\ was(i) >= shift /\ was(i) \in Nat
    BY <2>5
  <2> HIDE DEF was, shift
  <2>8. ASSUME NEW i \in Marks', NEW j \in Marks', Adjacent(i, j)'
        PROVE  Follows(Msg(j), Msg(i))'
    <3>1. i < j /\ \A m \in Marks' : ~(i < m /\ m < j)
      BY <2>8 DEF Adjacent
    <3>2. ASSUME NEW m \in Marks, was(i) < m, m < was(j) PROVE FALSE
      <4>1. shift \in Nat /\ m \in Nat /\ was(i) \in Nat /\ was(i) >= shift
        BY <1>2, <2>3, <2>7
      <4>2. PICK k \in Marks' : was(k) = m
        BY <2>6, <3>2, <4>1
      <4> QED BY <2>7, <3>1, <3>2, <4>2
    <3>3. Adjacent(was(i), was(j))
      BY <2>7, <3>1, <3>2 DEF Adjacent
    <3>4. Follows(Msg(was(j)), Msg(was(i)))
      BY <2>4, <3>3 DEF InOrder
    <3> QED BY <2>4, <3>4 DEF Follows
  <2>9. ASSUME NEW i \in Marks', \A j \in Marks' : j <= i
        PROVE  Said(Msg(i))'
    <3>1. ASSUME NEW m \in Marks PROVE m <= was(i)
      <4>0. m \in Nat /\ was(i) \in Nat /\ was(i) >= shift /\ shift \in Nat
        BY <1>2, <2>3, <2>7
      <4>1. CASE m >= shift
        <5>1. PICK j \in Marks' : was(j) = m
          BY <2>6, <4>1
        <5>2. j <= i /\ j \in Nat /\ i \in Nat
          BY <2>5, <2>9
        <5>3. ~(was(i) < was(j))
          BY <2>7, <5>2
        <5> QED BY <4>0, <5>1, <5>3
      <4>2. CASE ~(m >= shift)
        BY <4>0, <4>2
      <4> QED BY <4>1, <4>2
    <3>2. Said(Msg(was(i)))
      BY <2>4, <3>1 DEF InOrder
    <3>3. Msg(i)' = Msg(was(i))
      BY <2>4
    <3> QED BY <1>6, <3>2, <3>3 DEF OutboxReceive, Said, BeforeRound
  <2> QED BY <1>3, <2>8, <2>9 DEF InOrder
<1> QED BY <1>4, <1>5, <1>6, StepsQuietOrSpeaking

LEMMA InOrderFirst == Init => InOrder
<1> SUFFICES ASSUME Init PROVE InOrder
  OBVIOUS
<1>1. Marks = {0} /\ pc = "created" /\ heard.kind = "none"
  BY DEF Init, Marks
<1> QED BY <1>1 DEF InOrder, Adjacent, Said, Msg

\* What the channel hears comes in the order of the game and without a gap,
\* through a queue in which other messages come between and some are dropped.
THEOREM HeardInOrderAlways == Spec => HeardInOrder
<1>2. TypeOK /\ InOrder /\ [Next]_vars => [heard' # heard => Follows(heard', heard)]_vars
  <2> SUFFICES ASSUME TypeOK, InOrder, [Next]_vars, heard' # heard
               PROVE  Follows(heard', heard)
    OBVIOUS
  <2>1. OutboxReceive
    BY StepsQuietOrSpeaking DEF Quiet, Speaks
  <2>2. /\ Out # <<>> /\ Head(Out) = Out[1] /\ 1 \in DOMAIN Out
        /\ heard' = Out[1] /\ Out[1].kind \in Lifecycle
    BY <2>1 DEF OutboxReceive, TypeOK, QueuesOK
  <2>3. 0 \in Marks /\ 1 \in Marks /\ Marks \subseteq Nat
    BY <2>2 DEF Marks, TypeOK, QueuesOK
  <2>4. Adjacent(0, 1)
    BY <2>3 DEF Adjacent
  <2> QED BY <2>2, <2>3, <2>4 DEF InOrder, Msg
<1> QED BY <1>2, InOrderFirst, NextInOrder, TypeCorrect, PTL DEF Spec, HeardInOrder

(***************************************************************************)
(* The life of the game.                                                   *)
(***************************************************************************)

\* The goroutine's place and the game's state go together.
PlaceOfState ==
  /\ pc = "created" <=> State = "created"
  /\ pc = "sendFinished" => State = "finished"
  /\ State = "finished" => pc \in {"sendFinished", "done"}
  /\ Told <=> pc = "done"

\* A message that is not the last one does not tell that the game is over.
LEMMA NothingTold ==
  ASSUME TypeOK, heard' = heard, NEW m, m.kind # "finished", Out' = Append(Out, m)
  PROVE  Told' = Told
<1>1. Out \in Seq(Messages)
  BY DEF TypeOK, QueuesOK, Messages
<1>2. PICK n \in Nat : n = Len(Out)
  BY <1>1
<1>3. DOMAIN Out = 1..n /\ DOMAIN Out' = 1..(n + 1)
      /\ (\A i \in 1..n : Out'[i] = Out[i]) /\ Out'[n + 1] = m
  BY <1>1, <1>2
<1>4. \A i \in 1..(n + 1) : i \in 1..n \/ i = n + 1
  BY <1>2
<1>5. 1..n \subseteq 1..(n + 1)
  BY <1>2
<1> QED BY <1>3, <1>4, <1>5 DEF Told

\* Only the goroutine's last send tells it, and what was told stays so: on the
\* way from Out to the channel nothing comes after it.
LEMMA OnlyTheEndTells ==
  ASSUME TypeOK, InOrder, [Next]_vars
  PROVE  Told' <=> Told \/ SendFinished
<1>1. /\ Out \in Seq(Messages)
      /\ Len(Out) \in Nat /\ DOMAIN Out = 1..Len(Out)
  BY DEF TypeOK, QueuesOK, Messages
<1>2. CASE OutboxReceive
  <2>1. /\ Out # <<>> /\ Head(Out) = Out[1] /\ 1 \in DOMAIN Out
        /\ heard' = IF Out[1].kind \in Lifecycle THEN Out[1] ELSE heard
    BY <1>1, <1>2 DEF OutboxReceive
  <2>2. PICK n \in Nat : n = Len(Out)
    BY <1>1
  <2>3. n > 0
    BY <1>1, <2>1, <2>2
  <2>4. DOMAIN Out = 1..n /\ DOMAIN Out' = 1..(n - 1)
        /\ \A i \in 1..(n - 1) : Out'[i] = Out[i + 1]
    BY <1>1, <1>2, <2>2, <2>3 DEF OutboxReceive
  <2>5. Out[1].kind \in Lifecycle => heard.kind # "finished"
    <3> SUFFICES ASSUME Out[1].kind \in Lifecycle PROVE heard.kind # "finished"
      OBVIOUS
    <3>1. 0 \in Marks /\ 1 \in Marks /\ Marks \subseteq Nat
      BY <1>1, <2>1 DEF Marks
    <3>2. Adjacent(0, 1)
      BY <3>1 DEF Adjacent
    <3> QED BY <3>1, <3>2 DEF InOrder, Msg, Follows
  <2>6. "finished" \in Lifecycle
    BY DEF Lifecycle
  <2>7. \A i \in 1..n : i = 1 \/ (i - 1 \in 1..(n - 1) /\ (i - 1) + 1 = i)
    BY <2>2, <2>3
  <2>8. \A i \in 1..(n - 1) : i + 1 \in 1..n
    BY <2>2
  <2>9. Told => Told'
    <3>1. CASE heard.kind = "finished"
      BY <2>1, <2>5, <3>1 DEF Told
    <3>2. ASSUME NEW i \in 1..n, Out[i].kind = "finished", i # 1 PROVE Told'
      <4>1. i - 1 \in 1..(n - 1) /\ Out'[i - 1] = Out[i]
        BY <2>7, <2>4, <3>2
      <4> QED BY <2>4, <3>2, <4>1 DEF Told
    <3>3. CASE Out[1].kind = "finished"
      BY <2>1, <2>6, <3>3 DEF Told
    <3> QED BY <2>4, <3>1, <3>2, <3>3 DEF Told
  <2>10. Told' => Told
    BY <2>1, <2>8, <2>4 DEF Told
  <2>11. ~SendFinished
    BY <1>2 DEF OutboxReceive, SendFinished
  <2> QED BY <2>9, <2>10, <2>11
<1>3. CASE SendFinished
  <2> DEFINE e == [kind |-> "finished", round |-> 0]
  <2>1. Out' = Append(Out, e) /\ e.kind = "finished"
    BY <1>3 DEF SendFinished, Send
  <2> HIDE DEF e
  <2>2. PICK n \in Nat : n = Len(Out)
    BY <1>1
  <2>3. n + 1 \in DOMAIN Out' /\ Out'[n + 1] = e
    BY <1>1, <2>1, <2>2
  <2> QED BY <1>3, <2>1, <2>3 DEF Told
<1>4. CASE UNCHANGED <<Out, heard>> /\ ~SendFinished
  BY <1>4 DEF Told
<1>5. CASE \E m : m.kind # "finished" /\ heard' = heard /\ Out' = Append(Out, m)
  <2>1. ~SendFinished
    <3>1. SUFFICES ASSUME SendFinished PROVE FALSE
      OBVIOUS
    <3>2. PICK m : m.kind # "finished" /\ Out' = Append(Out, m)
      BY <1>5
    <3> DEFINE e == [kind |-> "finished", round |-> 0]
    <3>3. Out' = Append(Out, e) /\ e.kind = "finished"
      BY <3>1 DEF SendFinished, Send
    <3> HIDE DEF e
    <3>4. Append(Out, m)[Len(Out) + 1] = m /\ Append(Out, e)[Len(Out) + 1] = e
      BY <1>1
    <3> QED BY <3>2, <3>3, <3>4
  <2> QED BY <1>5, <2>1, NothingTold
<1>6. ~OutboxReceive /\ ~SendFinished
        => \/ UNCHANGED <<Out, heard>>
           \/ \E m : m.kind # "finished" /\ heard' = heard /\ Out' = Append(Out, m)
  BY DEF Next, Goroutine, vars, Start, SendStarted, StartRound, CountRound,
     StartRoundFails, SendQuestion, WrongAnswer, AlreadyAnswered, CorrectAnswer,
     LastAnswer, TakeCorrect, TakeAnswer, SendWrong, TimeLeftTick, DisplayTick,
     TimeUp, SendRoundFinished, SendTimeout, SendBoard, SendRank, Delay, Answer,
     TimePasses, Terminated, Send, SendOrDrop, ShowAnswer
<1> QED BY <1>2, <1>3, <1>4, <1>5, <1>6

LEMMA StepsOfLife ==
  ASSUME TypeOK, InOrder, PlaceOfState, [Next]_vars
  PROVE  PlaceOfState' /\ [Life!Next]_(Life!vars)
<1>1. /\ In \in Seq([player : Player, text : Text]) /\ Len(In) \in Nat
      /\ pc \in Places /\ State \in {"created", "started", "roundFinished", "finished"}
  BY DEF TypeOK, ControlOK, QueuesOK
<1>2. Told' <=> Told \/ SendFinished
  BY OnlyTheEndTells
<1>3. CASE Start
  <2>1. ~SendFinished /\ ~Told /\ ~Told' /\ Told' = Told
    BY <1>2, <1>3 DEF Start, SendFinished, PlaceOfState, Told
  <2>2. PlaceOfState'
    BY <1>3, <2>1 DEF Start, PlaceOfState
  <2>3. Life!Begin
    BY <1>3, <2>1 DEF Start, Life!Begin, Lived
  <2> QED BY <2>2, <2>3 DEF Life!Next
<1>4. CASE SendFinished
  <2>1. PlaceOfState'
    BY <1>2, <1>4 DEF SendFinished, PlaceOfState
  <2>2. Life!Tell
    BY <1>2, <1>4 DEF SendFinished, PlaceOfState, Life!Tell, Lived
  <2> QED BY <2>1, <2>2 DEF Life!Next
<1>5. CASE SendRank
  <2>1. ~SendFinished /\ ~Told /\ ~Told' /\ Told' = Told
    BY <1>2, <1>5 DEF SendRank, SendFinished, PlaceOfState, Told
  <2>2. PlaceOfState' /\ UNCHANGED In
    BY <1>5, <2>1 DEF SendRank, PlaceOfState
  <2>3. CASE Final
    <3>1. Life!End
      BY <1>5, <2>1, <2>2, <2>3 DEF SendRank, PlaceOfState, Life!End, Lived
    <3> QED BY <2>2, <3>1 DEF Life!Next
  <2>4. CASE ~Final
    BY <1>5, <2>1, <2>2, <2>4 DEF SendRank, PlaceOfState, Life!vars, Lived
  <2> QED BY <2>3, <2>4
<1>6. CASE \E p \in Player, t \in Text : Answer(p, t)
  <2>1. UNCHANGED <<pc, State>> /\ Len(In') = Len(In) + 1 /\ State # "created"
    BY <1>1, <1>6 DEF Answer
  <2>2. ~SendFinished /\ (Told' <=> Told)
    BY <1>2, <2>1 DEF SendFinished
  <2>3. Told' = Told
    BY <2>2 DEF Told
  <2>4. Life!Put /\ PlaceOfState'
    BY <2>1, <2>3 DEF PlaceOfState, Life!Put, Lived
  <2> QED BY <2>4 DEF Life!Next
<1>7. ASSUME TakeAnswer, pc' \in {"select", "sendWrong", "sendRoundFinished"},
             UNCHANGED State
      PROVE  PlaceOfState' /\ Life!Read
  <2>1. Len(In) > 0 /\ Len(In') = Len(In) - 1 /\ pc = "select"
    BY <1>1, <1>7 DEF TakeAnswer
  <2>2. ~SendFinished /\ ~Told /\ ~Told'
    BY <1>2, <2>1 DEF SendFinished, PlaceOfState
  <2>3. Told' = Told
    BY <2>2 DEF Told
  <2> QED BY <1>7, <2>1, <2>2, <2>3 DEF PlaceOfState, Life!Read, Lived
<1>8. CASE WrongAnswer \/ AlreadyAnswered \/ CorrectAnswer \/ LastAnswer
  <2>1. TakeAnswer /\ pc' \in {"select", "sendWrong", "sendRoundFinished"} /\ UNCHANGED State
    BY <1>8 DEF WrongAnswer, AlreadyAnswered, CorrectAnswer, LastAnswer, TakeCorrect,
       TakeAnswer
  <2> QED BY <1>7, <2>1 DEF Life!Next
<1>9. ASSUME pc \notin {"created", "sendFinished", "done"},
             pc' \notin {"created", "sendFinished", "done"},
             State' \in {State, "roundFinished"}, UNCHANGED In
      PROVE  PlaceOfState' /\ UNCHANGED Life!vars
  <2>1. ~SendFinished /\ ~Told /\ ~Told' /\ Told' = Told
    BY <1>2, <1>9 DEF SendFinished, PlaceOfState, Told
  <2> QED BY <1>9, <2>1 DEF PlaceOfState, Life!vars, Lived
<1>10. CASE \/ SendStarted \/ StartRound \/ StartRoundFails \/ SendQuestion
            \/ SendWrong \/ TimeLeftTick \/ DisplayTick \/ TimeUp
            \/ SendRoundFinished \/ SendTimeout \/ SendBoard \/ Delay \/ TimePasses
  BY <1>9, <1>10 DEF SendStarted, StartRound, CountRound, StartRoundFails, SendQuestion,
     SendWrong, TimeLeftTick, DisplayTick, TimeUp, SendRoundFinished, SendTimeout,
     SendBoard, Delay, TimePasses, RoundOpen
<1>11. CASE UNCHANGED <<pc, State, In>>
  <2>1. ~SendFinished /\ Told' = Told
    BY <1>2, <1>11 DEF SendFinished, Told
  <2> QED BY <1>11, <2>1 DEF PlaceOfState, Life!vars, Lived
<1> QED
  BY <1>3, <1>4, <1>5, <1>6, <1>8, <1>10, <1>11
     DEF Next, Goroutine, vars, OutboxReceive, Terminated

\* The game starts, reads its messages, ends and says so once, however the bot
\* puts messages on In and takes them off Out.
THEOREM GameLivesAsTheLobbySees == Spec => LivesAsTheLobbySees
<1>1. Init => PlaceOfState /\ Life!Init
  BY DEF Init, PlaceOfState, Life!Init, Lived, Told
<1>2. TypeOK /\ InOrder /\ PlaceOfState /\ [Next]_vars
        => PlaceOfState' /\ [Life!Next]_(Life!vars)
  BY StepsOfLife
<1> QED BY <1>1, <1>2, InOrderFirst, NextInOrder, TypeCorrect, PTL
        DEF Spec, Life!Spec, LivesAsTheLobbySees
=============================================================================
