------------------------------- MODULE MCGame -------------------------------
(***************************************************************************)
(* Small questions to play Game with.                                      *)
(***************************************************************************)
EXTENDS Game, TLC

CONSTANTS ayam, kucing, salah   \* texts: two answers and a wrong one

\* Two answers, worth different points.
TwoAnswers == [score |-> <<3, 2>>,
               lookup |-> (ayam :> 1 @@ kucing :> 2 @@ salah :> 0)]

\* One answer with an alias; its texts also answer TwoAnswers, so an answer
\* that arrives late counts for the next question.
OneAnswer == [score |-> <<5>>,
              lookup |-> (ayam :> 1 @@ kucing :> 1 @@ salah :> 0)]

\* What scanQuestionRaw makes of a line without answers.
NoAnswer == [score |-> <<>>,
             lookup |-> (ayam :> 0 @@ kucing :> 0 @@ salah :> 0)]

Texts == {ayam, kucing, salah}
TwoThenOne == <<TwoAnswers, OneAnswer>>
BlankTwoOne == <<NoAnswer, TwoAnswers, OneAnswer>>
Limits == {0}
AnyLimit == {-1, 1, 5}
Fresh == {0}
FreshOrUsed == {0, 3}
Symmetry == Permutations(Player)
=============================================================================
