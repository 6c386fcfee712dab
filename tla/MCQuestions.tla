----------------------------- MODULE MCQuestions -----------------------------
(***************************************************************************)
(* Short lines for Questions.                                              *)
(***************************************************************************)
EXTENDS Questions, TLC, SequencesExt

CONSTANTS ayam, kucing, Kucing   \* the last as players may type it

Texts == {ayam, kucing, Kucing}
Lower == (ayam :> ayam @@ kucing :> kucing @@ Kucing :> kucing)

Fields(texts) == [score : 1..2, texts : texts]
Blank == [score |-> 0, texts |-> <<>>]
Plain == {<<ayam>>, <<kucing>>, <<kucing, ayam>>}

\* As questions.txt has them: an empty field after the last "*" only.
PlainLines ==
  LET full == UNION {[1..n -> Fields(Plain)] : n \in 0..3}
  IN  full \cup {Append(line_, Blank) : line_ \in full}
=============================================================================
