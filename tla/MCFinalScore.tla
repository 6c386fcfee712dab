----------------------------- MODULE MCFinalScore -----------------------------
(***************************************************************************)
(* Scores for FinalScore.                                                  *)
(***************************************************************************)
EXTENDS FinalScore

OneOrTwo == {1, 2}
=============================================================================
