------------------------------- MODULE MCExport -------------------------------
(***************************************************************************)
(* Scores and weeks for Export.                                            *)
(***************************************************************************)
EXTENDS Export

One == {1}
Symmetry == Permutations(Week)
=============================================================================
