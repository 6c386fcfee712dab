--------------------------------- MODULE Qna ---------------------------------
(***************************************************************************)
(* The questions of package qna, and the counter of package repo that says *)
(* which one a channel is asked next.                                      *)
(*                                                                         *)
(* A line of the questions file is a sequence of fields, one per "*" of    *)
(* the line.  A field is a record [score, texts]: the number before its    *)
(* colon, 0 if there is none, and the texts between its slashes, <<>> if   *)
(* nothing follows the score.  What is read from a line is a question as   *)
(* Scoring has them: score[i] is what answer i pays and lookup[t] the      *)
(* answer the text t names, 0 for none.                                    *)
(***************************************************************************)
EXTENDS Integers, Sequences, FiniteSetsExt

\* RedisDB.NextGame: where a new game goes on counting, 0 for a channel that
\* has no counter, else one past it.
NextGame(counter) == IF counter = 0 THEN 0 ELSE counter + 1

\* The limit of channels that have none of their own: the flag's, if it was given,
\* else four fifths of the questions.
DefaultQuestionLimit(size, flag) == IF flag >= 0 THEN flag ELSE (size * 8) \div 10

\* The part of the order that Text.NextQuestion goes round in.
Cycle(size, limit) == IF limit <= 0 \/ limit > size THEN size ELSE limit

\* Text.NextQuestion: the place, in the order of the channel's seed, of the
\* question whose turn it is.
Place(size, limit, turn) == (turn % Cycle(size, limit)) + 1

-----------------------------------------------------------------------------
(* scanQuestionRaw *)

TextsOf(field) == {field.texts[i] : i \in DOMAIN field.texts}

\* Faulty: counts the question before the first "*" as a field.
IndexFromQuestion(fields, t) ==
  LET at == {i \in DOMAIN fields : t \in TextsOf(fields[i])}
  IN  IF at = {} THEN 0 ELSE Max(at) + 1

\* lookup[t]: the last field that has the text, counting the empty ones.
IndexOf(fields, t) ==
  LET at == {i \in DOMAIN fields : t \in TextsOf(fields[i])}
  IN  IF at = {} THEN 0 ELSE Max(at)

\* The list of answers, which leaves the empty fields out: "continue" and
\* append in the loop over the fields.
Answers(fields) ==
  LET upTo[n \in 0..Len(fields)] ==
        IF n = 0 THEN <<>>
        ELSE IF fields[n].texts = <<>> THEN upTo[n - 1]
        ELSE Append(upTo[n - 1], fields[n])
  IN  upTo[Len(fields)]

\* The question of a line.  Lowering the case comes after the line was split
\* and reaches none of the fields: the texts stay as they are written.
ScanQuestion(fields, Text) ==
  [score  |-> [i \in DOMAIN Answers(fields) |-> Answers(fields)[i].score],
   lookup |-> [t \in Text |-> IndexOf(fields, t)]]

\* Question.CheckAnswer for a text of a player.  lower[t] is t as CheckAnswer
\* looks it up, without capitals and blanks at the ends.
CheckAnswer(question, lower, t) == question.lookup[lower[t]]
=============================================================================
