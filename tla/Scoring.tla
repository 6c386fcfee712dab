------------------------------- MODULE Scoring -------------------------------
(***************************************************************************)
(* How a board of answers turns into points: round.finished and            *)
(* round.ranking of round.go, and Rank.Add of model/score.go.              *)
(*                                                                         *)
(* A question is a record [score, lookup]: score[i] is what answer i pays  *)
(* and lookup[t] the answer that text t names, 0 when it names none (Go    *)
(* counts answers from 0, this model from 1).  A board maps every answer   *)
(* to the player who gave it, NoPlayer when it is still open.  A rank maps *)
(* the players it lists to their points; the order of the list and the     *)
(* positions printed from it are left out.                                 *)
(***************************************************************************)
EXTENDS Integers, Sequences, FiniteSets, FiniteSetsExt

CONSTANTS
  NoPlayer    \* the empty player ID, "" in the code: nobody gave the answer

EmptyRank == [p \in {} |-> 0]

EmptyBoard(question) == [i \in 1..Len(question.score) |-> NoPlayer]

\* The answers somebody has given.
Answered(board) == {i \in DOMAIN board : board[i] # NoPlayer}

\* Faulty: counts one answer too many.
CompleteOffByOne(board) == Cardinality(Answered(board)) > Cardinality(DOMAIN board)

\* round.finished: every answer of the question has been given.
Complete(board) == Answered(board) = DOMAIN board

\* Faulty: a player's second answer replaces the first instead of adding to it.
RankingNoSum(question, board) ==
  [p \in {board[i] : i \in Answered(board)} |->
     Max({question.score[i] : i \in {j \in Answered(board) : board[j] = p}})]

\* round.ranking: what each player who gave an answer has earned.
Ranking(question, board) ==
  [p \in {board[i] : i \in Answered(board)} |->
     MapThenSumSet(LAMBDA i : question.score[i],
                   {i \in Answered(board) : board[i] = p})]

\* What a rank gives a player; a player it does not list has no points.
Points(rank, p) == IF p \in DOMAIN rank THEN rank[p] ELSE 0

\* Rank.Add: the points of both ranks, for the players of either.
Add(rank, source) ==
  [p \in DOMAIN rank \cup DOMAIN source |-> Points(rank, p) + Points(source, p)]

\* Rank.Subtract: what is left of a rank, at least 0, for the players it lists.
Subtract(rank, source) ==
  [p \in DOMAIN rank |->
     IF rank[p] > Points(source, p) THEN rank[p] - Points(source, p) ELSE 0]
=============================================================================
