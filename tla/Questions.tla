------------------------------ MODULE Questions ------------------------------
(***************************************************************************)
(* One line of the questions file, read by scanQuestionRaw and then asked: *)
(* what CheckAnswer replies to the texts players send.                     *)
(***************************************************************************)
EXTENDS Qna

CONSTANTS
  Text,    \* what may stand between the slashes of a line or be sent
  lower,   \* each text as CheckAnswer looks it up
  Line     \* the lines that are read

ASSUME TextAssumption ==
  /\ lower \in [Text -> Text]
  /\ \A t \in Text : lower[lower[t]] = lower[t]
ASSUME LineAssumption == Line \subseteq Seq([score : Nat, texts : Seq(Text)])

VARIABLES
  line,      \* the line that was read
  question,  \* what was made of it
  reply      \* CheckAnswer's last reply: [text, kind, score]

vars == <<line, question, reply>>

Init ==
  /\ line \in Line
  /\ question = ScanQuestion(line, Text)
  /\ reply = [text |-> CHOOSE t \in Text : TRUE, kind |-> "none", score |-> 0]

\* CheckAnswer: an index past the list of answers ends the program.
Check(t) ==
  LET i == CheckAnswer(question, lower, t)
      says(kind, score) == [text |-> t, kind |-> kind, score |-> score]
  IN
  /\ reply.kind # "panic"
  /\ reply' = IF i = 0 THEN says("wrong", 0)
              ELSE IF i > Len(question.score) THEN says("panic", 0)
              ELSE says("correct", question.score[i])
  /\ UNCHANGED <<line, question>>

Next == \E t \in Text : Check(t)

Spec == Init /\ [][Next]_vars

-----------------------------------------------------------------------------
\* The fields of the line that have the text, as players write it.
Naming(t) == {i \in DOMAIN line : \E u \in TextsOf(line[i]) : lower[u] = lower[t]}

\* "Check answers gives the score for particular answer to a question"
\* (question.go:37): a text that stands in a field of the line is worth the
\* score of that field, any other text is wrong.  scanQuestionRaw and
\* CheckAnswer have to agree on indexes and on case for that.
PaysItsScore ==
  reply.kind # "none" =>
    IF Naming(reply.text) = {}
      THEN reply.kind = "wrong"
      ELSE /\ reply.kind = "correct"
           /\ \E i \in Naming(reply.text) : reply.score = line[i].score
=============================================================================
