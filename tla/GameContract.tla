---------------------------- MODULE GameContract ----------------------------
(***************************************************************************)
(* What a game of package fam100 promises to a channel, without queues,    *)
(* timers, boards to print or a store: rounds are asked one after another; *)
(* an answer belongs to the first player who gives it; the round is over   *)
(* at once when its last answer is given, or else when its time is up;     *)
(* every answer given is then paid to its owner, once; and the rank that   *)
(* is announced after each round, the last one included, is the sum of     *)
(* what all rounds so far have paid.                                       *)
(***************************************************************************)
EXTENDS Integers

CONSTANTS
  NoPlayer,           \* nobody: the answer is open
  EmptyBoard(_),      \* the board of a question nobody has answered yet
  Complete(_),        \* is every answer of the board given?
  Ranking(_, _),      \* what a board of a question pays to whom
  Add(_, _),          \* the sum of two ranks
  EmptyRank,          \* nobody has points
  Player,        \* the players who may answer
  Question,      \* the questions that may be asked
  NoQuestion,    \* before the first one
  RoundPerGame,  \* rounds of a game
  QuestionFaults \* BOOLEAN: a round may be given up for want of a question

VARIABLES
  stage,     \* "lobby", "open" (between rounds), "asked", "over", "ended"
  round,     \* the last round that was asked or given up
  question,  \* the question of the round
  board,     \* who gave each of its answers
  score,     \* what the rounds so far have paid
  announced  \* the rank announced last

vars == <<stage, round, question, board, score, announced>>

Init ==
  /\ stage = "lobby" /\ round = 0
  /\ question = NoQuestion /\ board = <<>>
  /\ score = EmptyRank /\ announced = EmptyRank

Begin ==
  /\ stage = "lobby"
  /\ stage' = "open"
  /\ UNCHANGED <<round, question, board, score, announced>>

Ask(next) ==
  /\ stage = "open" /\ round < RoundPerGame
  /\ stage' = "asked" /\ round' = round + 1
  /\ question' = next /\ board' = EmptyBoard(next)
  /\ UNCHANGED <<score, announced>>

GiveUp ==
  /\ QuestionFaults
  /\ stage = "open" /\ round < RoundPerGame
  /\ stage' = "over" /\ round' = round + 1
  /\ UNCHANGED <<question, board, score, announced>>

\* Player p is the first to give answer i.
Give(p, i) ==
  /\ stage = "asked"
  /\ i \in DOMAIN board /\ board[i] = NoPlayer
  /\ board' = [board EXCEPT ![i] = p]
  /\ UNCHANGED <<round, question, announced>>

GiveOne(p, i) ==
  /\ Give(p, i)
  /\ ~Complete(board')
  /\ UNCHANGED <<stage, score>>

\* The round's board is paid.
Pay ==
  /\ score' = Add(score, Ranking(question, board'))
  /\ stage' = "over"

GiveLast(p, i) ==
  /\ Give(p, i)
  /\ Complete(board')
  /\ Pay

TimeUp ==
  /\ stage = "asked"
  /\ UNCHANGED <<round, question, board, announced>>
  /\ Pay

Announce ==
  /\ stage = "over"
  /\ announced' = score
  /\ stage' = IF round = RoundPerGame THEN "ended" ELSE "open"
  /\ UNCHANGED <<round, question, board, score>>

Next ==
  \/ Begin
  \/ \E next \in Question : Ask(next)
  \/ GiveUp
  \/ \E p \in Player, i \in DOMAIN board : GiveOne(p, i) \/ GiveLast(p, i)
  \/ TimeUp
  \/ Announce

Spec == Init /\ [][Next]_vars
=============================================================================
