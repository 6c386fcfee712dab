--------------------------- MODULE QuestionsProofs ---------------------------
(***************************************************************************)
(* What holds of Questions for all texts and for every line that is as     *)
(* those of questions.txt are: of any length, with any scores, any number  *)
(* of texts to an answer and texts that stand in several answers.          *)
(***************************************************************************)
EXTENDS Questions, WellFoundedInduction, TLAPS

\* As the lines of questions.txt are: an empty field after the last "*" only,
\* and answers without capitals or blanks at the ends.
IsPlain(fields) ==
  \A i \in DOMAIN fields :
    /\ fields[i].texts = <<>> => i = Len(fields)
    /\ \A t \in TextsOf(fields[i]) : lower[t] = t

PlainLines == \A fields \in Line : IsPlain(fields)

Field == [score : Nat, texts : Seq(Text)]

(***************************************************************************)
(* Naturals.                                                               *)
(***************************************************************************)

\* A set of naturals has a least member.
LEMMA LeastNatural ==
  ASSUME NEW S \in SUBSET Nat, S # {}
  PROVE  \E m \in S : \A k \in S : m <= k
<1>1. IsWellFoundedOn(OpToRel(<, Nat), Nat)
  BY NatLessThanWellFounded
<1>2. PICK m \in S : \A k \in S : <<k, m>> \notin OpToRel(<, Nat)
  BY <1>1, WFMin
<1>3. \A k \in S : ~(k < m)
  BY <1>2 DEF OpToRel
<1> QED BY <1>3

\* The greatest of some of the first naturals is one of them.
LEMMA MaxIsOne ==
  ASSUME NEW n \in Nat, NEW S \in SUBSET (1..n), S # {}
  PROVE  Max(S) \in S
<1> DEFINE Bounds == {b \in Nat : \A x \in S : x <= b}
<1>1. n \in Bounds
  OBVIOUS
<1>2. PICK m \in Bounds : \A b \in Bounds : m <= b
  <2>1. Bounds \in SUBSET Nat /\ Bounds # {}
    BY <1>1
  <2> HIDE DEF Bounds
  <2> QED BY <2>1, LeastNatural
<1>3. m \in S
  <2> SUFFICES ASSUME m \notin S PROVE FALSE
    OBVIOUS
  <2>1. \A x \in S : x <= m - 1 /\ x >= 1
    BY <1>2
  <2>2. PICK x \in S : x \in 1..n
    OBVIOUS
  <2>3. m - 1 \in Nat
    BY <1>2, <2>1, <2>2
  <2>4. m - 1 \in Bounds
    BY <2>1, <2>3
  <2> QED BY <1>2, <2>4
<1>4. \E x \in S : \A y \in S : x >= y
  BY <1>2, <1>3
<1> QED BY <1>4 DEF Max

(***************************************************************************)
(* The loop of scanQuestionRaw.                                            *)
(***************************************************************************)

\* g holds the answers of the first fields, after each field.
Loop(fields, g) ==
  g = [n \in 0..Len(fields) |->
         IF n = 0 THEN <<>>
         ELSE IF fields[n].texts = <<>> THEN g[n - 1]
         ELSE Append(g[n - 1], fields[n])]

\* The loop's last list is the list of answers.
LEMMA AnswersIsLoop ==
  ASSUME NEW fields
  PROVE  Answers(fields) = (CHOOSE g : Loop(fields, g))[Len(fields)]
  BY DEF Answers, Loop

\* The loop goes one way only.
LEMMA LoopsAgree ==
  ASSUME NEW fields \in Seq(Field), NEW g, Loop(fields, g), NEW h, Loop(fields, h)
  PROVE  g[Len(fields)] = h[Len(fields)]
<1> DEFINE Differ == {n \in 0..Len(fields) : g[n] # h[n]}
<1> SUFFICES ASSUME Differ # {} PROVE FALSE
  OBVIOUS
<1>1. PICK m \in Differ : \A k \in Differ : m <= k
  <2>1. Differ \in SUBSET Nat
    OBVIOUS
  <2> HIDE DEF Differ
  <2> QED BY <2>1, LeastNatural
<1>2. m \in 0..Len(fields) /\ g[m] # h[m]
  BY <1>1
<1>3. \A k \in 0..Len(fields) : k < m => g[k] = h[k]
  BY <1>1, <1>2
<1> HIDE DEF Differ
<1>4. g[m] = IF m = 0 THEN <<>>
             ELSE IF fields[m].texts = <<>> THEN g[m - 1]
             ELSE Append(g[m - 1], fields[m])
  BY <1>2, Zenon DEF Loop
<1>5. h[m] = IF m = 0 THEN <<>>
             ELSE IF fields[m].texts = <<>> THEN h[m - 1]
             ELSE Append(h[m - 1], fields[m])
  BY <1>2, Zenon DEF Loop
<1>6. m # 0 => g[m - 1] = h[m - 1]
  BY <1>2, <1>3
<1> QED BY <1>2, <1>4, <1>5, <1>6

\* Of a plain line every field with a text is an answer, at its own index.
LEMMA AnswersOfPlain ==
  ASSUME NEW fields \in Seq(Field), IsPlain(fields)
  PROVE  /\ Answers(fields) \in Seq(Field)
         /\ Len(Answers(fields)) <= Len(fields)
         /\ \A i \in DOMAIN fields : fields[i].texts # <<>> =>
              i <= Len(Answers(fields)) /\ Answers(fields)[i] = fields[i]
<1> DEFINE size(n) == IF n = 0 THEN 0
                      ELSE IF fields[n].texts = <<>> THEN n - 1 ELSE n
           prefix(n) == SubSeq(fields, 1, size(n))
           g == [n \in 0..Len(fields) |-> prefix(n)]
<1>1. Len(fields) \in Nat /\ DOMAIN fields = 1..Len(fields)
  OBVIOUS
<1>2. \A n \in 1..Len(fields) : fields[n].texts = <<>> => n = Len(fields)
  BY <1>1, Zenon DEF IsPlain
<1>3. \A n \in 0..Len(fields) : size(n) \in 0..n
  BY <1>1
<1>4. ASSUME NEW n \in 1..Len(fields), fields[n].texts = <<>>
      PROVE  prefix(n) = prefix(n - 1)
  <2>1. size(n) = n - 1
    BY <1>4
  <2>2. size(n - 1) = n - 1
    <3>1. n - 1 \in 1..Len(fields) => fields[n - 1].texts # <<>>
      BY <1>1, <1>2
    <3> QED BY <1>1, <3>1
  <2> QED BY <2>1, <2>2
<1>5. ASSUME NEW n \in 1..Len(fields), fields[n].texts # <<>>
      PROVE  prefix(n) = Append(prefix(n - 1), fields[n])
  <2>1. size(n) = n
    BY <1>5
  <2>2. size(n - 1) = n - 1
    <3>1. n - 1 \in 1..Len(fields) => fields[n - 1].texts # <<>>
      BY <1>1, <1>2
    <3> QED BY <1>1, <3>1
  <2>3. SubSeq(fields, 1, n) = Append(SubSeq(fields, 1, n - 1), fields[n])
    BY <1>1
  <2> QED BY <2>1, <2>2, <2>3
<1>6. prefix(0) = <<>>
  BY <1>1
<1>7. Loop(fields, g)
  <2>1. \A n \in 0..Len(fields) :
          prefix(n) = IF n = 0 THEN <<>>
                      ELSE IF fields[n].texts = <<>> THEN prefix(n - 1)
                      ELSE Append(prefix(n - 1), fields[n])
    <3> HIDE DEF prefix
    <3> QED BY <1>4, <1>5, <1>6
  <2>2. \A n \in 0..Len(fields) : n # 0 => g[n - 1] = prefix(n - 1)
    <3> HIDE DEF prefix
    <3> QED BY <1>1
  <2> HIDE DEF prefix
  <2> QED BY <2>1, <2>2 DEF Loop
<1>8. Answers(fields) = prefix(Len(fields))
  <2> DEFINE h == CHOOSE h : Loop(fields, h)
  <2>1. Loop(fields, h)
    <3> HIDE DEF g
    <3> QED BY <1>7
  <2>2. h[Len(fields)] = g[Len(fields)]
    <3> HIDE DEF h, g
    <3> QED BY <1>7, <2>1, LoopsAgree
  <2>3. Answers(fields) = h[Len(fields)]
    BY AnswersIsLoop
  <2> QED BY <1>1, <2>2, <2>3
<1>9. /\ prefix(Len(fields)) \in Seq(Field)
      /\ Len(prefix(Len(fields))) = size(Len(fields))
      /\ \A i \in 1..size(Len(fields)) : prefix(Len(fields))[i] = fields[i]
  BY <1>1, <1>3
<1>10. \A i \in 1..Len(fields) : fields[i].texts # <<>> => i <= size(Len(fields))
  BY <1>1
<1> HIDE DEF prefix, size
<1> QED BY <1>1, <1>3, <1>8, <1>9, <1>10

(***************************************************************************)
(* The replies.                                                            *)
(***************************************************************************)

\* A text leads to a field that has it, if there is one.
LEMMA IndexOfNames ==
  ASSUME NEW fields \in Seq(Field), NEW t
  PROVE  LET at == {i \in DOMAIN fields : t \in TextsOf(fields[i])}
         IN  IF at = {} THEN IndexOf(fields, t) = 0 ELSE IndexOf(fields, t) \in at
<1> DEFINE at == {i \in DOMAIN fields : t \in TextsOf(fields[i])}
<1>1. Len(fields) \in Nat /\ at \in SUBSET (1..Len(fields))
  OBVIOUS
<1>2. IndexOf(fields, t) = IF at = {} THEN 0 ELSE Max(at)
  BY DEF IndexOf
<1> HIDE DEF at
<1>3. IF at = {} THEN IndexOf(fields, t) = 0 ELSE IndexOf(fields, t) \in at
  BY <1>1, <1>2, MaxIsOne
<1> QED BY <1>3 DEF at

\* What CheckAnswer looks up in the question of a plain line: an answer that
\* names the text and pays what its field says, or none when no field names it.
LEMMA CheckAnswerOfPlain ==
  ASSUME NEW fields \in Line, IsPlain(fields), NEW t \in Text
  PROVE  LET asked == ScanQuestion(fields, Text)
             i == CheckAnswer(asked, lower, t)
             naming == {k \in DOMAIN fields :
                          \E u \in TextsOf(fields[k]) : lower[u] = lower[t]}
         IN  IF naming = {} THEN i = 0
             ELSE /\ i \in naming /\ i # 0 /\ ~(i > Len(asked.score))
                  /\ asked.score[i] = fields[i].score
<1> DEFINE asked == ScanQuestion(fields, Text)
           i == IndexOf(fields, lower[t])
           naming == {k \in DOMAIN fields :
                        \E u \in TextsOf(fields[k]) : lower[u] = lower[t]}
           at == {k \in DOMAIN fields : lower[t] \in TextsOf(fields[k])}
<1>1. fields \in Seq(Field)
  BY LineAssumption DEF Field
<1>2. CheckAnswer(asked, lower, t) = i
  <2>1. lower[t] \in Text
    BY TextAssumption
  <2> QED BY <2>1 DEF CheckAnswer, ScanQuestion
<1>3. naming = at
  <2>1. ASSUME NEW k \in DOMAIN fields, NEW u \in TextsOf(fields[k])
        PROVE  lower[u] = u
    BY DEF IsPlain
  <2>2. ASSUME NEW k \in DOMAIN fields
        PROVE  (\E u \in TextsOf(fields[k]) : lower[u] = lower[t])
                 <=> lower[t] \in TextsOf(fields[k])
    BY <2>1, TextAssumption
  <2> QED BY <2>2
<1>4. CASE at = {}
  <2>1. i = 0
    BY <1>1, <1>4, IndexOfNames
  <2> HIDE DEF i, at, naming, asked
  <2>2. naming = {} /\ CheckAnswer(asked, lower, t) = 0
    BY <1>2, <1>3, <1>4, <2>1
  <2> QED BY <2>2 DEF naming, asked
<1>5. CASE at # {}
  <2>1. i \in at
    BY <1>1, <1>5, IndexOfNames
  <2>2. i \in 1..Len(fields) /\ fields[i].texts # <<>>
    <3>1. i \in DOMAIN fields /\ lower[t] \in TextsOf(fields[i])
      BY <2>1
    <3> HIDE DEF i
    <3>2. fields[i].texts # <<>>
      BY <3>1 DEF TextsOf
    <3> QED BY <1>1, <3>1, <3>2
  <2> HIDE DEF i
  <2>3. /\ Answers(fields) \in Seq(Field)
        /\ i <= Len(Answers(fields)) /\ Answers(fields)[i] = fields[i]
    BY <1>1, <2>2, AnswersOfPlain
  <2>4. asked.score = [k \in DOMAIN Answers(fields) |-> Answers(fields)[k].score]
    BY DEF ScanQuestion
  <2>5. DOMAIN Answers(fields) = 1..Len(Answers(fields)) /\ Len(Answers(fields)) \in Nat
    BY <2>3
  <2>6. Len(asked.score) = Len(Answers(fields)) /\ asked.score[i] = fields[i].score
    BY <2>2, <2>3, <2>4, <2>5
  <2>7. i # 0 /\ ~(i > Len(asked.score))
    BY <2>2, <2>3, <2>5, <2>6
  <2> HIDE DEF at, naming, asked
  <2>8. naming # {} /\ CheckAnswer(asked, lower, t) = i /\ i \in naming
    BY <1>2, <1>3, <1>5, <2>1 DEF i
  <2>9. IF naming = {} THEN CheckAnswer(asked, lower, t) = 0
        ELSE LET k == CheckAnswer(asked, lower, t)
             IN  /\ k \in naming /\ k # 0 /\ ~(k > Len(asked.score))
                 /\ asked.score[k] = fields[k].score
    BY <2>6, <2>7, <2>8
  <2> QED BY <2>9 DEF naming, asked
<1> QED BY <1>4, <1>5

\* What is asked is what the line says.
Asked == line \in Line /\ question = ScanQuestion(line, Text)

\* For every plain line scanQuestionRaw and CheckAnswer agree on indexes and
\* case: a text that stands in a field pays that field's score, any other is
\* wrong, and no reply runs past the list of answers.
THEOREM PlainLinesPay == ASSUME PlainLines PROVE Spec => []PaysItsScore
<1> DEFINE Inv == Asked /\ PaysItsScore
<1>1. Init => Inv
  BY DEF Init, Asked, PaysItsScore
<1>2. Inv /\ [Next]_vars => Inv'
  <2> SUFFICES ASSUME Inv, [Next]_vars PROVE Inv'
    OBVIOUS
  <2>1. CASE Next
    <3>1. PICK t \in Text : Check(t)
      BY <2>1 DEF Next
    <3>2. UNCHANGED <<line, question>> /\ line \in Line
          /\ question = ScanQuestion(line, Text) /\ IsPlain(line)
      BY <3>1 DEF Check, Asked, PlainLines
    <3> DEFINE i == CheckAnswer(question, lower, t)
    <3>3. reply'.text = t
      BY <3>1 DEF Check
    <3>4. IF Naming(t) = {} THEN i = 0
          ELSE /\ i \in Naming(t) /\ i # 0 /\ ~(i > Len(question.score))
               /\ question.score[i] = line[i].score
      BY <3>2, CheckAnswerOfPlain DEF Naming
    <3>5. reply' = [text |-> t,
                    kind |-> IF i = 0 THEN "wrong"
                             ELSE IF i > Len(question.score) THEN "panic" ELSE "correct",
                    score |-> IF i = 0 \/ i > Len(question.score) THEN 0
                              ELSE question.score[i]]
      BY <3>1 DEF Check
    <3>6. Naming(t)' = Naming(t)
      BY <3>2 DEF Naming
    <3>7. IF Naming(t) = {} THEN reply'.kind = "wrong"
          ELSE /\ reply'.kind = "correct"
               /\ \E k \in Naming(t) : reply'.score = line[k].score
      BY <3>4, <3>5
    <3> QED BY <3>2, <3>3, <3>6, <3>7 DEF Asked, PaysItsScore, Naming
  <2>2. CASE UNCHANGED vars
    BY <2>2 DEF vars, Asked, PaysItsScore, Naming
  <2> QED BY <2>1, <2>2
<1>3. Inv => PaysItsScore
  OBVIOUS
<1> QED BY <1>1, <1>2, <1>3, PTL DEF Spec
=============================================================================
