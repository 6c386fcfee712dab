--------------------------- MODULE ScoringProofs ---------------------------
(***************************************************************************)
(* What the sums of Scoring are, for every board and every rank.           *)
(*                                                                         *)
(* A sum over a set is a recursive function on its subsets.  What such a   *)
(* function computes is shown from the least subset on which a statement   *)
(* fails: strict inclusion of finite sets is well-founded.                 *)
(***************************************************************************)
EXTENDS Scoring, FiniteSetTheorems, TLAPS

\* The element a sum takes out of a set next.
Picked(s) == CHOOSE x \in s : TRUE

\* g holds the sum of f over every subset of S.
SumTable(f, S, g) ==
  g = [s \in SUBSET S |->
         IF s = {} THEN 0 ELSE f[Picked(s)] + g[s \ {Picked(s)}]]

SumOver(f, S) == (CHOOSE g : SumTable(f, S, g))[S]

(***************************************************************************)
(* The recursive sum.                                                      *)
(***************************************************************************)

\* A set of subsets of a finite set has a least member.
LEMMA LeastSubset ==
  ASSUME NEW S, IsFiniteSet(S), NEW T \in SUBSET SUBSET S, T # {}
  PROVE  \E M \in T : \A U \in T : U \subseteq M => U = M
<1>1. FiniteSubsetsOf(S) = SUBSET S
  BY FS_Subset DEF FiniteSubsetsOf
<1>2. IsWellFoundedOn(StrictSubsetOrdering(S), SUBSET S)
  BY <1>1, FS_StrictSubsetOrderingWellFounded
<1>3. PICK M \in T : \A U \in T : <<U, M>> \notin StrictSubsetOrdering(S)
  BY <1>2, WFMin
<1>4. \A U \in T : U \subseteq M => U = M
  BY <1>3 DEF StrictSubsetOrdering
<1> QED BY <1>4

\* What round.ranking adds up is the table's entry for the whole set.
LEMMA MapThenSumIsSumOver ==
  ASSUME NEW f, NEW S
  PROVE  MapThenSumSet(LAMBDA i : f[i], S) = SumOver(f, S)
  BY DEF MapThenSumSet, MapThenFoldSet, SumOver, SumTable, Picked

\* The element that the fold takes next is one of the set.
LEMMA PickedIsOne == ASSUME NEW s, s # {} PROVE Picked(s) \in s
  BY DEF Picked

\* What a table says of one subset.
LEMMA SumTableAt ==
  ASSUME NEW f, NEW S, NEW g, SumTable(f, S, g), NEW s \in SUBSET S
  PROVE  g[s] = IF s = {} THEN 0 ELSE f[Picked(s)] + g[s \ {Picked(s)}]
  BY Zenon DEF SumTable

\* Two tables agree wherever both say something.
LEMMA SumTablesAgree ==
  ASSUME NEW f, NEW S, IsFiniteSet(S), NEW R \in SUBSET S,
         NEW g, SumTable(f, S, g), NEW h, SumTable(f, R, h)
  PROVE  \A s \in SUBSET R : g[s] = h[s]
<1> DEFINE Differ == {s \in SUBSET R : g[s] # h[s]}
<1> SUFFICES ASSUME Differ # {} PROVE FALSE
  OBVIOUS
<1>1. PICK M \in Differ : \A U \in Differ : U \subseteq M => U = M
  <2>1. Differ \in SUBSET SUBSET S
    OBVIOUS
  <2> HIDE DEF Differ
  <2> QED BY <2>1, LeastSubset
<1>2. M \in SUBSET R /\ M \in SUBSET S /\ g[M] # h[M]
  BY <1>1
<1> HIDE DEF Differ
<1>3. g[M] = IF M = {} THEN 0 ELSE f[Picked(M)] + g[M \ {Picked(M)}]
  <2>1. M \in SUBSET S
    BY <1>2
  <2>2. SumTable(f, S, g)
    OBVIOUS
  <2> QED BY <2>1, <2>2, Zenon DEF SumTable
<1>4. h[M] = IF M = {} THEN 0 ELSE f[Picked(M)] + h[M \ {Picked(M)}]
  <2>1. M \in SUBSET R
    BY <1>2
  <2> QED BY <2>1, SumTableAt
<1>5. M # {}
  BY <1>2, <1>3, <1>4
<1> DEFINE rest == M \ {Picked(M)}
<1>6. rest \in SUBSET R /\ rest \subseteq M /\ rest # M
  BY <1>2, <1>5, PickedIsOne
<1>7. g[rest] = h[rest]
  BY <1>1, <1>6 DEF Differ
<1> QED BY <1>2, <1>3, <1>4, <1>5, <1>7

\* The entry for a set is the table's, whichever table has one.
LEMMA SumOverIsEntry ==
  ASSUME NEW f, NEW S, IsFiniteSet(S), NEW g, SumTable(f, S, g),
         NEW s \in SUBSET S, \E h : SumTable(f, s, h)
  PROVE  SumOver(f, s) = g[s]
<1> DEFINE h == CHOOSE h : SumTable(f, s, h)
<1>1. SumTable(f, s, h)
  OBVIOUS
<1>2. s \in SUBSET s
  OBVIOUS
<1>3. g[s] = h[s]
  <2> HIDE DEF h
  <2> QED BY <1>1, <1>2, SumTablesAgree
<1> QED BY <1>3 DEF SumOver

\* Every finite set has a table.
LEMMA SumTableExists ==
  ASSUME NEW f, NEW S, IsFiniteSet(S)
  PROVE  \E g : SumTable(f, S, g)
<1> DEFINE Without == {s \in SUBSET S : ~\E g : SumTable(f, s, g)}
<1> SUFFICES ASSUME Without # {} PROVE FALSE
  OBVIOUS
<1>1. PICK M \in Without : \A U \in Without : U \subseteq M => U = M
  <2>1. Without \in SUBSET SUBSET S
    OBVIOUS
  <2> HIDE DEF Without
  <2> QED BY <2>1, LeastSubset
<1>2. M \in SUBSET S /\ IsFiniteSet(M)
  BY <1>1, FS_Subset
<1>3. \A s \in SUBSET M : s # M => \E h : SumTable(f, s, h)
  BY <1>1, <1>2
<1> DEFINE value(s) == IF s = {} THEN 0
                       ELSE f[Picked(s)] + SumOver(f, s \ {Picked(s)})
           g == [s \in SUBSET M |-> value(s)]
<1>4. ASSUME NEW s \in SUBSET M, s # M
      PROVE  SumOver(f, s) = value(s)
  <2>1. PICK h : SumTable(f, s, h)
    BY <1>3, <1>4
  <2>2. IsFiniteSet(s)
    BY <1>2, FS_Subset
  <2>3. s \in SUBSET s
    OBVIOUS
  <2>4. SumOver(f, s) = h[s]
    BY <2>1, <2>2, <2>3, SumOverIsEntry
  <2>5. CASE s = {}
    BY <2>1, <2>3, <2>4, <2>5, SumTableAt
  <2>6. CASE s # {}
    <3> DEFINE rest == s \ {Picked(s)}
    <3>1. rest \in SUBSET s /\ rest \in SUBSET M /\ rest # M
      BY <2>6, PickedIsOne
    <3>2. SumOver(f, rest) = h[rest]
      BY <1>3, <2>1, <2>2, <3>1, SumOverIsEntry
    <3>3. h[s] = f[Picked(s)] + h[rest]
      BY <2>1, <2>3, <2>6, SumTableAt
    <3> QED BY <2>4, <2>6, <3>2, <3>3
  <2> QED BY <2>5, <2>6
<1>5. ASSUME NEW s \in SUBSET M, s # {}
      PROVE  SumOver(f, s \ {Picked(s)}) = g[s \ {Picked(s)}]
  <2>1. s \ {Picked(s)} \in SUBSET M /\ s \ {Picked(s)} # M
    BY <1>5, PickedIsOne
  <2> QED BY <1>4, <2>1
<1>6. \A s \in SUBSET M : value(s) = IF s = {} THEN 0
                                     ELSE f[Picked(s)] + g[s \ {Picked(s)}]
  BY <1>5
<1>7. g = [s \in SUBSET M |-> IF s = {} THEN 0
                              ELSE f[Picked(s)] + g[s \ {Picked(s)}]]
  <2>1. g = [s \in SUBSET M |-> value(s)]
    OBVIOUS
  <2> HIDE DEF g, value
  <2> QED BY <1>6, <2>1
<1>8. SumTable(f, M, g)
  BY <1>7 DEF SumTable
<1>9. \E h : SumTable(f, M, h)
  <2> HIDE DEF g
  <2> QED BY <1>8
<1> QED BY <1>1, <1>9

\* The sum over nothing, and the sum by way of the element picked.
LEMMA SumOverUnfolds ==
  ASSUME NEW f, NEW S, IsFiniteSet(S)
  PROVE  SumOver(f, S) = IF S = {} THEN 0
                         ELSE f[Picked(S)] + SumOver(f, S \ {Picked(S)})
<1>1. PICK g : SumTable(f, S, g)
  BY SumTableExists
<1>2. ASSUME NEW s \in SUBSET S PROVE SumOver(f, s) = g[s]
  <2>1. \E h : SumTable(f, s, h)
    BY FS_Subset, SumTableExists
  <2> QED BY <1>1, <2>1, SumOverIsEntry
<1>3. S \in SUBSET S /\ S \ {Picked(S)} \in SUBSET S
  OBVIOUS
<1>4. g[S] = IF S = {} THEN 0 ELSE f[Picked(S)] + g[S \ {Picked(S)}]
  BY <1>1, <1>3, SumTableAt
<1> QED BY <1>2, <1>3, <1>4

\* A sum of naturals is a natural.
LEMMA SumOverType ==
  ASSUME NEW f, NEW S, IsFiniteSet(S), \A i \in S : f[i] \in Nat
  PROVE  SumOver(f, S) \in Nat
<1> DEFINE Odd == {s \in SUBSET S : SumOver(f, s) \notin Nat}
<1> SUFFICES ASSUME Odd # {} PROVE FALSE
  OBVIOUS
<1>1. PICK M \in Odd : \A U \in Odd : U \subseteq M => U = M
  <2>1. Odd \in SUBSET SUBSET S
    OBVIOUS
  <2> HIDE DEF Odd
  <2> QED BY <2>1, LeastSubset
<1>2. M \in SUBSET S /\ IsFiniteSet(M) /\ SumOver(f, M) \notin Nat
  BY <1>1, FS_Subset
<1>3. M # {}
  <2>1. M = {} => SumOver(f, M) = 0
    BY <1>2, SumOverUnfolds
  <2> QED BY <1>2, <2>1
<1> DEFINE rest == M \ {Picked(M)}
<1>4. Picked(M) \in M /\ rest \in SUBSET S /\ rest \subseteq M /\ rest # M
  BY <1>2, <1>3, PickedIsOne
<1>5. SumOver(f, rest) \in Nat
  BY <1>1, <1>4
<1>6. SumOver(f, M) = f[Picked(M)] + SumOver(f, rest)
  BY <1>2, <1>3, SumOverUnfolds
<1>7. f[Picked(M)] \in Nat
  BY <1>2, <1>4
<1> QED BY <1>2, <1>5, <1>6, <1>7

\* Any element may be taken out first.
LEMMA SumOverRemove ==
  ASSUME NEW f, NEW S, IsFiniteSet(S), \A i \in S : f[i] \in Nat, NEW x \in S
  PROVE  SumOver(f, S) = f[x] + SumOver(f, S \ {x})
<1> DEFINE Odd == {s \in SUBSET S :
                     \E y \in s : SumOver(f, s) # f[y] + SumOver(f, s \ {y})}
<1> SUFFICES ASSUME Odd # {} PROVE FALSE
  OBVIOUS
<1>1. PICK M \in Odd : \A U \in Odd : U \subseteq M => U = M
  <2>1. Odd \in SUBSET SUBSET S
    OBVIOUS
  <2> HIDE DEF Odd
  <2> QED BY <2>1, LeastSubset
<1>2. M \in SUBSET S /\ IsFiniteSet(M)
  BY <1>1, FS_Subset
<1>3. PICK y \in M : SumOver(f, M) # f[y] + SumOver(f, M \ {y})
  BY <1>1
<1> DEFINE c == Picked(M)
<1>4. c \in M
  BY <1>3, PickedIsOne
<1>5. SumOver(f, M) = f[c] + SumOver(f, M \ {c})
  BY <1>2, <1>3, SumOverUnfolds
<1>6. c # y
  BY <1>3, <1>5
<1> HIDE DEF c
<1>7. SumOver(f, M \ {c}) = f[y] + SumOver(f, (M \ {c}) \ {y})
  <2>1. M \ {c} \in SUBSET S /\ M \ {c} \subseteq M /\ M \ {c} # M /\ y \in M \ {c}
    BY <1>2, <1>3, <1>4, <1>6
  <2> QED BY <1>1, <2>1
<1>8. SumOver(f, M \ {y}) = f[c] + SumOver(f, (M \ {y}) \ {c})
  <2>1. M \ {y} \in SUBSET S /\ M \ {y} \subseteq M /\ M \ {y} # M /\ c \in M \ {y}
    BY <1>2, <1>3, <1>4, <1>6
  <2> QED BY <1>1, <2>1
<1>9. (M \ {c}) \ {y} = (M \ {y}) \ {c}
  OBVIOUS
<1>10. SumOver(f, (M \ {c}) \ {y}) \in Nat
  <2>1. IsFiniteSet((M \ {c}) \ {y})
    BY <1>2, FS_Subset
  <2> QED BY <1>2, <2>1, SumOverType
<1>11. f[c] \in Nat /\ f[y] \in Nat
  BY <1>2, <1>3, <1>4
<1>12. \A a, b, k \in Nat : a + (b + k) = b + (a + k)
  OBVIOUS
<1>13. f[c] + SumOver(f, M \ {c}) = f[y] + SumOver(f, M \ {y})
  <2> DEFINE k == SumOver(f, (M \ {c}) \ {y})
  <2>1. SumOver(f, M \ {c}) = f[y] + k
    BY <1>7
  <2>2. SumOver(f, M \ {y}) = f[c] + k
    BY <1>8, <1>9
  <2>3. k \in Nat
    BY <1>10
  <2> HIDE DEF k
  <2> QED BY <1>11, <1>12, <2>1, <2>2, <2>3
<1> QED BY <1>3, <1>5, <1>13

\* Two sets without a common element are added up one after the other.
LEMMA SumOverUnion ==
  ASSUME NEW f, NEW A, NEW B, IsFiniteSet(A), IsFiniteSet(B), A \cap B = {},
         \A i \in A \cup B : f[i] \in Nat
  PROVE  SumOver(f, A \cup B) = SumOver(f, A) + SumOver(f, B)
<1> DEFINE Odd == {s \in SUBSET B : SumOver(f, A \cup s) # SumOver(f, A) + SumOver(f, s)}
<1>1. B \notin Odd
  <2> SUFFICES ASSUME Odd # {} PROVE FALSE
    OBVIOUS
  <2>1. PICK M \in Odd : \A U \in Odd : U \subseteq M => U = M
    <3>1. Odd \in SUBSET SUBSET B
      OBVIOUS
    <3> HIDE DEF Odd
    <3> QED BY <3>1, LeastSubset
  <2>2. M \in SUBSET B /\ SumOver(f, A \cup M) # SumOver(f, A) + SumOver(f, M)
    BY <2>1
  <2>3. IsFiniteSet(M) /\ IsFiniteSet(A \cup M)
    BY <2>2, FS_Subset, FS_Union
  <2>4. SumOver(f, A) \in Nat
    BY SumOverType
  <2>5. M # {}
    <3>1. SumOver(f, {}) = 0
      BY FS_EmptySet, SumOverUnfolds
    <3>2. M = {} => A \cup M = A
      OBVIOUS
    <3> QED BY <2>2, <2>4, <3>1, <3>2
  <2> DEFINE x == Picked(M)
             rest == M \ {x}
  <2>6. x \in M /\ x \notin A /\ f[x] \in Nat
    BY <2>2, <2>5, PickedIsOne
  <2>7. rest \in SUBSET B /\ rest \subseteq M /\ rest # M
    BY <2>2, <2>6
  <2>8. SumOver(f, A \cup rest) = SumOver(f, A) + SumOver(f, rest)
    BY <2>1, <2>7
  <2>9. SumOver(f, M) = f[x] + SumOver(f, rest)
    BY <2>2, <2>3, <2>6, SumOverRemove
  <2>10. SumOver(f, A \cup M) = f[x] + SumOver(f, (A \cup M) \ {x})
    <3>1. x \in A \cup M /\ \A i \in A \cup M : f[i] \in Nat
      BY <2>2, <2>6
    <3> HIDE DEF x
    <3> QED BY <2>3, <3>1, SumOverRemove
  <2>11. (A \cup M) \ {x} = A \cup rest
    BY <2>6
  <2>12. SumOver(f, rest) \in Nat
    <3>1. IsFiniteSet(rest) /\ \A i \in rest : f[i] \in Nat
      BY <2>3, <2>7, FS_Subset
    <3> QED BY <3>1, SumOverType
  <2>13. \A a, b, c \in Nat : a + (b + c) = b + (a + c)
    OBVIOUS
  <2>14. f[x] + (SumOver(f, A) + SumOver(f, rest)) = SumOver(f, A) + SumOver(f, M)
    <3> DEFINE b == SumOver(f, A)
               c == SumOver(f, rest)
               d == SumOver(f, M)
               a == f[x]
    <3>1. a \in Nat /\ b \in Nat /\ c \in Nat /\ d = a + c
      BY <2>4, <2>6, <2>9, <2>12
    <3> HIDE DEF a, b, c, d
    <3>2. a + (b + c) = b + d
      BY <3>1
    <3> QED BY <3>2 DEF a, b, c, d
  <2> QED BY <2>2, <2>8, <2>10, <2>11, <2>14
<1> QED BY <1>1

(***************************************************************************)
(* Ranks.                                                                  *)
(***************************************************************************)

IsRank(r) == r \in [DOMAIN r -> Nat]

\* A player's points are a natural number, listed or not.
LEMMA PointsType == ASSUME NEW r, IsRank(r), NEW p PROVE Points(r, p) \in Nat
  BY DEF IsRank, Points

\* Nobody has points in an empty rank.
LEMMA EmptyIsRank == IsRank(EmptyRank) /\ \A p : Points(EmptyRank, p) = 0
  BY DEF IsRank, EmptyRank, Points

\* Rank.Add: everybody's points are added up.
LEMMA AddPoints ==
  ASSUME NEW r, NEW s, IsRank(r), IsRank(s)
  PROVE  /\ IsRank(Add(r, s))
         /\ \A p : Points(Add(r, s), p) = Points(r, p) + Points(s, p)
<1>1. \A p : Points(r, p) \in Nat /\ Points(s, p) \in Nat
  BY PointsType
<1>2. DOMAIN Add(r, s) = DOMAIN r \cup DOMAIN s
      /\ \A p \in DOMAIN r \cup DOMAIN s : Add(r, s)[p] = Points(r, p) + Points(s, p)
  BY DEF Add
<1>3. IsRank(Add(r, s))
  BY <1>1, <1>2 DEF IsRank, Add
<1> QED BY <1>1, <1>2, <1>3 DEF Points

\* Rank.Subtract: exact for whoever has as many points as are taken.
LEMMA SubtractPoints ==
  ASSUME NEW r, IsRank(r), NEW s, IsRank(s)
  PROVE  /\ IsRank(Subtract(r, s))
         /\ \A p : Points(s, p) <= Points(r, p) =>
              Points(Subtract(r, s), p) = Points(r, p) - Points(s, p)
<1>1. \A p : Points(r, p) \in Nat /\ Points(s, p) \in Nat
  BY PointsType
<1>2. IsRank(Subtract(r, s))
  BY <1>1 DEF IsRank, Subtract
<1> QED BY <1>1, <1>2 DEF Subtract, Points, IsRank

(***************************************************************************)
(* round.ranking.                                                          *)
(***************************************************************************)

\* A board of the question: finitely many answers, each worth points.
IsBoardOf(question, board) ==
  /\ IsFiniteSet(DOMAIN board)
  /\ \A i \in DOMAIN board : question.score[i] \in Nat

\* The answers of one player.
Own(board, p) == {i \in DOMAIN board : board[i] = p}

\* A board marks finitely many answers for a player.
LEMMA OwnFinite ==
  ASSUME NEW question, NEW board, IsBoardOf(question, board), NEW p
  PROVE  /\ IsFiniteSet(Own(board, p))
         /\ \A i \in Own(board, p) : question.score[i] \in Nat
  BY FS_Subset DEF IsBoardOf, Own

\* What a player has in a round's ranking is the sum of the player's answers.
LEMMA PointsOfRanking ==
  ASSUME NEW question, NEW board, IsBoardOf(question, board), NEW p, p # NoPlayer
  PROVE  Points(Ranking(question, board), p) = SumOver(question.score, Own(board, p))
<1>1. {i \in Answered(board) : board[i] = p} = Own(board, p)
  BY DEF Answered, Own
<1>2. DOMAIN Ranking(question, board) = {board[i] : i \in Answered(board)}
  BY DEF Ranking
<1>3. CASE p \in DOMAIN Ranking(question, board)
  <2>1. Ranking(question, board)[p]
          = MapThenSumSet(LAMBDA i : question.score[i],
                          {i \in Answered(board) : board[i] = p})
    BY <1>2, <1>3 DEF Ranking
  <2>2. Ranking(question, board)[p] = SumOver(question.score, Own(board, p))
    BY <1>1, <2>1, MapThenSumIsSumOver
  <2> QED BY <1>3, <2>2 DEF Points
<1>4. CASE p \notin DOMAIN Ranking(question, board)
  <2>1. Own(board, p) = {}
    BY <1>2, <1>4 DEF Own, Answered
  <2>2. SumOver(question.score, {}) = 0
    BY FS_EmptySet, SumOverUnfolds
  <2> QED BY <1>4, <2>1, <2>2 DEF Points
<1> QED BY <1>3, <1>4

\* Nobody has earned less than nothing.
LEMMA RankingIsRank ==
  ASSUME NEW question, NEW board, IsBoardOf(question, board)
  PROVE  IsRank(Ranking(question, board))
<1> DEFINE r == Ranking(question, board)
<1>1. ASSUME NEW p \in DOMAIN r PROVE r[p] \in Nat
  <2>1. p # NoPlayer
    BY DEF Ranking, Answered
  <2>2. Points(r, p) = SumOver(question.score, Own(board, p))
    BY <2>1, PointsOfRanking
  <2>3. SumOver(question.score, Own(board, p)) \in Nat
    BY OwnFinite, SumOverType
  <2> QED BY <2>2, <2>3 DEF Points
<1> QED BY <1>1 DEF IsRank, Ranking

\* Nobody has earned anything on a board without answers.
LEMMA UnansweredPaysNothing ==
  ASSUME NEW question, NEW board, Answered(board) = {}, NEW p
  PROVE  Points(Ranking(question, board), p) = 0
  BY DEF Ranking, Points

\* An answer marked as a player's pays that player its score, and nobody else.
LEMMA MarkPaysOnce ==
  ASSUME NEW question, NEW board, IsBoardOf(question, board),
         NEW i \in DOMAIN board, board[i] = NoPlayer,
         NEW s, s # NoPlayer, NEW p, p # NoPlayer
  PROVE  Points(Ranking(question, [board EXCEPT ![i] = s]), p)
           = Points(Ranking(question, board), p)
             + (IF p = s THEN question.score[i] ELSE 0)
<1> DEFINE marked == [board EXCEPT ![i] = s]
<1>1. IsBoardOf(question, marked)
  BY DEF IsBoardOf
<1>2. /\ Points(Ranking(question, marked), p) = SumOver(question.score, Own(marked, p))
      /\ Points(Ranking(question, board), p) = SumOver(question.score, Own(board, p))
  BY <1>1, PointsOfRanking
<1>3. SumOver(question.score, Own(board, p)) \in Nat /\ question.score[i] \in Nat
  BY OwnFinite, SumOverType DEF IsBoardOf
<1>4. CASE p # s
  <2>1. Own(marked, p) = Own(board, p)
    BY <1>4 DEF Own
  <2> QED BY <1>2, <1>3, <1>4, <2>1
<1>5. CASE p = s
  <2> DEFINE f == question.score
             own == Own(marked, p)
             before == SumOver(f, Own(board, p))
  <2>1. i \in own /\ own \ {i} = Own(board, p)
    BY <1>5 DEF Own
  <2>2. IsFiniteSet(own) /\ \A j \in own : f[j] \in Nat
    BY <1>1, OwnFinite
  <2>3. before \in Nat /\ f[i] \in Nat
    BY <1>3
  <2> HIDE DEF own, f, marked
  <2>4. SumOver(f, own) = f[i] + SumOver(f, own \ {i})
    BY <2>1, <2>2, SumOverRemove
  <2>5. SumOver(f, own) = f[i] + before
    BY <2>1, <2>4
  <2>6. /\ Points(Ranking(question, marked), p) = SumOver(f, own)
        /\ Points(Ranking(question, board), p) = before
    BY <1>2 DEF own, f
  <2> HIDE DEF before
  <2>7. Points(Ranking(question, marked), p)
          = Points(Ranking(question, board), p) + f[i]
    BY <2>3, <2>5, <2>6
  <2> QED BY <1>5, <2>7 DEF f, marked
<1> QED BY <1>4, <1>5

\* A round pays what its answers are worth and no more: the points of all players
\* of round.ranking are the scores of the answers that were given.
THEOREM RoundPaysItsAnswers ==
  ASSUME NEW question, NEW board, IsBoardOf(question, board)
  PROVE  LET r == Ranking(question, board)
         IN  SumOver(r, DOMAIN r) = SumOver(question.score, Answered(board))
<1> DEFINE r == Ranking(question, board)
           f == question.score
           By(P) == {i \in Answered(board) : board[i] \in P}
           Odd == {P \in SUBSET DOMAIN r : SumOver(r, P) # SumOver(f, By(P))}
<1>1. DOMAIN r = {board[i] : i \in Answered(board)}
  BY DEF Ranking
<1>2. IsFiniteSet(Answered(board)) /\ \A i \in Answered(board) : f[i] \in Nat
  BY FS_Subset DEF IsBoardOf, Answered
<1>3. IsFiniteSet(DOMAIN r)
  <2> DEFINE owner == [i \in Answered(board) |-> board[i]]
  <2>1. owner \in Surjection(Answered(board), DOMAIN r)
    BY <1>1 DEF Surjection
  <2> HIDE DEF owner
  <2> QED BY <1>2, <2>1, FS_Surjection
<1>4. \A p \in DOMAIN r : r[p] \in Nat
  BY RankingIsRank DEF IsRank
<1>5. \A P : IsFiniteSet(By(P)) /\ \A i \in By(P) : f[i] \in Nat
  BY <1>2, FS_Subset
<1>6. By(DOMAIN r) = Answered(board)
  BY <1>1
<1>7. DOMAIN r \notin Odd
  <2> SUFFICES ASSUME Odd # {} PROVE FALSE
    OBVIOUS
  <2>1. PICK M \in Odd : \A U \in Odd : U \subseteq M => U = M
    <3>1. Odd \in SUBSET SUBSET DOMAIN r
      OBVIOUS
    <3> HIDE DEF Odd, r
    <3> QED BY <1>3, <3>1, LeastSubset
  <2>2. M \in SUBSET DOMAIN r /\ SumOver(r, M) # SumOver(f, By(M))
    BY <2>1
  <2>3. IsFiniteSet(M)
    BY <1>3, <2>2, FS_Subset
  <2>4. M # {}
    <3>1. SumOver(r, {}) = 0 /\ SumOver(f, {}) = 0
      BY FS_EmptySet, SumOverUnfolds
    <3>2. By({}) = {}
      OBVIOUS
    <3> QED BY <2>2, <3>1, <3>2
  <2> DEFINE p == Picked(M)
             rest == M \ {p}
  <2>5. p \in M /\ p \in DOMAIN r
    BY <2>2, <2>4, PickedIsOne
  <2>6. rest \in SUBSET DOMAIN r /\ rest \subseteq M /\ rest # M
    BY <2>2, <2>5
  <2> HIDE DEF p
  <2>7. SumOver(r, rest) = SumOver(f, By(rest))
    BY <2>1, <2>6
  <2>8. SumOver(r, M) = r[p] + SumOver(r, rest)
    <3>1. \A x \in M : r[x] \in Nat
      BY <1>4, <2>2
    <3> HIDE DEF r
    <3> QED BY <2>3, <2>5, <3>1, SumOverRemove
  <2>9. r[p] = SumOver(f, Own(board, p))
    <3>1. p # NoPlayer
      BY <1>1, <2>5 DEF Answered
    <3>2. Points(r, p) = SumOver(f, Own(board, p))
      BY <3>1, PointsOfRanking
    <3> QED BY <2>5, <3>2 DEF Points
  <2>10. /\ By(M) = Own(board, p) \cup By(rest)
         /\ Own(board, p) \cap By(rest) = {}
    <3>1. p # NoPlayer
      BY <1>1, <2>5 DEF Answered
    <3> QED BY <2>5, <3>1 DEF Own, Answered
  <2>11. SumOver(f, By(M)) = SumOver(f, Own(board, p)) + SumOver(f, By(rest))
    <3>1. /\ IsFiniteSet(Own(board, p)) /\ IsFiniteSet(By(rest))
          /\ \A i \in Own(board, p) \cup By(rest) : f[i] \in Nat
      BY <1>5, OwnFinite
    <3> HIDE DEF By, f, rest
    <3> QED BY <2>10, <3>1, SumOverUnion
  <2> HIDE DEF By, f, rest, r
  <2> QED BY <2>2, <2>7, <2>8, <2>9, <2>11
<1> HIDE DEF Odd
<1>8. SumOver(r, DOMAIN r) = SumOver(f, By(DOMAIN r))
  BY <1>7 DEF Odd
<1> QED BY <1>6, <1>8
=============================================================================
