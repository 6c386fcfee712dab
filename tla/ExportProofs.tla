----------------------------- MODULE ExportProofs -----------------------------
(***************************************************************************)
(* What holds of Export for every number of players, all scores and any    *)
(* number of weeks and exports.                                            *)
(***************************************************************************)
EXTENDS Export, ScoringProofs, FinalScoreProofs

\* The least of two ranks, player by player.
Within(r, s) == \A p \in Player : Points(r, p) <= Points(s, p)

(***************************************************************************)
(* The books.                                                              *)
(***************************************************************************)

RanksOK ==
  /\ IsRank(total) /\ IsRank(sum) /\ IsRank(rest) /\ IsRank(current)
  /\ DOMAIN weeks = Week /\ \A w \in Week : IsRank(weeks[w])
  /\ earned \in [Player -> Nat]
  /\ under \in Week \cup {NoWeek}
  /\ place # "idle" => key \in Week

\* What the export has in hand is what it has read, as far as nobody but itself
\* takes points away; and nothing the store or the file has was never earned.
InHand ==
  /\ \A p \in Player : Points(total, p) <= earned[p]
  /\ under # NoWeek => Within(weeks[under], total)
  /\ place \in {"fetch", "open", "write"} => rest = Subtract(sum, weeks[key])
  /\ place \in {"open", "write", "reset"} => Within(current, total)
  /\ place \in {"fetch", "open"} => file # "torn"
  /\ place = "write" => file = "torn"
  /\ place = "reset" /\ file # "torn" => under = key /\ weeks[key] = current

\* Conserved, for a file that is about to be written as for a whole one.
Balanced ==
  ~amiss /\ (file # "torn" \/ place = "write") =>
    \A p \in Player :
      Points(sum, p) + Points(total, p)
        = earned[p] + (IF under = NoWeek THEN 0 ELSE Points(weeks[under], p))

Books == RanksOK /\ InHand /\ Balanced

\* Only Save and Reset change the ranking in the store.
LEMMA FinalRankReads == HandleFinalRank \/ Ended => UNCHANGED total
BY DEF HandleFinalRank, Ended, vars, ReadTop, ReadTopFails, ReadScore, ReadFails,
       ReadPlace, ReadPlaceFails, SortAndSend

\* A save gives one player one point more.
LEMMA SavePoints ==
  ASSUME RanksOK, NEW p \in Player, Save(p)
  PROVE  /\ IsRank(total') /\ UNCHANGED <<output, export, under, amiss>>
         /\ earned' \in [Player -> Nat]
         /\ \A x \in Player :
              /\ Points(total', x) = Points(total, x) + (IF x = p THEN 1 ELSE 0)
              /\ earned'[x] = earned[x] + (IF x = p THEN 1 ELSE 0)
<1>1. \A x \in Player : Points(total, x) \in Nat
  BY PointsType DEF RanksOK
<1>2. /\ DOMAIN total' = DOMAIN total \cup {p}
      /\ \A x \in DOMAIN total \cup {p} :
           total'[x] = IF x # p THEN total[x]
                       ELSE IF p \in DOMAIN total THEN total[p] + 1 ELSE 1
  BY DEF Save, OtherGameSaves
<1>3. total' = [x \in DOMAIN total' |-> total'[x]]
  BY DEF Save, OtherGameSaves
<1>4. IsRank(total')
  BY <1>2, <1>3 DEF RanksOK, IsRank
<1>5. \A x \in Player : Points(total', x) = Points(total, x) + (IF x = p THEN 1 ELSE 0)
  BY <1>1, <1>2 DEF Points, RanksOK, IsRank
<1> QED BY <1>4, <1>5 DEF Save, RanksOK

LEMMA BooksFirst == ExportInit => Books
<1> SUFFICES ASSUME ExportInit PROVE Books
  OBVIOUS
<1>1. IsRank(total)
  BY FinalScoreAssumption DEF ExportInit, Init, IsRank
<1>2. \A p \in Player : Points(total, p) \in Nat
  BY <1>1, PointsType
<1>3. RanksOK
  BY <1>1, <1>2, EmptyIsRank DEF ExportInit, RanksOK
<1> QED BY <1>2, <1>3, EmptyIsRank DEF ExportInit, Books, InHand, Balanced

LEMMA BooksNext == Books /\ [ExportNext]_<<vars, evars>> => Books'
<1> SUFFICES ASSUME Books, [ExportNext]_<<vars, evars>> PROVE Books'
  OBVIOUS
<1> USE DEF Books
<1>0. /\ \A p \in Player : Points(total, p) \in Nat /\ Points(sum, p) \in Nat
                           /\ Points(rest, p) \in Nat /\ Points(current, p) \in Nat
                           /\ earned[p] \in Nat
      /\ \A w \in Week : \A p \in Player : Points(weeks[w], p) \in Nat
  BY PointsType DEF RanksOK
<1>1. CASE UNCHANGED <<total, evars>>
  BY <1>1 DEF evars, output, export, RanksOK, InHand, Balanced, Within
<1>2. ASSUME NEW p \in Player, Save(p) PROVE Books'
  <2>1. /\ IsRank(total') /\ UNCHANGED <<output, export, under, amiss>>
        /\ earned' \in [Player -> Nat]
        /\ \A x \in Player :
             /\ Points(total', x) = Points(total, x) + (IF x = p THEN 1 ELSE 0)
             /\ earned'[x] = earned[x] + (IF x = p THEN 1 ELSE 0)
    BY <1>2, SavePoints
  <2>2. RanksOK'
    BY <2>1 DEF RanksOK, output, export
  <2>3. InHand'
    BY <1>0, <2>1 DEF InHand, Within, RanksOK, output, export
  <2>4. Balanced'
    BY <1>0, <2>1 DEF Balanced, RanksOK, output, export
  <2> QED BY <2>2, <2>3, <2>4
<1>3. ASSUME NEW w \in Week, NEW r \in BOOLEAN, StartExport(w, r) PROVE Books'
  <2>1. IsRank(rest')
    BY <1>3, SubtractPoints DEF StartExport, RanksOK
  <2> QED BY <1>3, <2>1 DEF StartExport, vars, output, RanksOK, InHand, Balanced, Within
<1>4. CASE Fetch
  BY <1>0, <1>4 DEF Fetch, vars, output, RanksOK, InHand, Balanced, Within
<1>5. CASE Open
  BY <1>5 DEF Open, vars, RanksOK, InHand, Balanced, Within
<1>6. CASE Write
  <2>1. /\ key \in Week /\ IsRank(sum') /\ IsRank(weeks'[key])
        /\ weeks' = [weeks EXCEPT ![key] = current] /\ under' = key
        /\ UNCHANGED <<total, earned>> /\ weeks'[key] = current
        /\ \A p \in Player : Points(sum', p) = Points(rest, p) + Points(current, p)
    BY <1>6, AddPoints DEF Write, RanksOK, vars
  <2>2. IsRank(rest') /\ IsRank(current')
        /\ (place' # "idle" => key' \in Week /\ key' = key /\ current' = current)
        /\ place' \in {"idle", "reset"}
    BY <1>6, <2>1, EmptyIsRank DEF Write, Over, RanksOK
  <2>3. RanksOK'
    BY <2>1, <2>2 DEF RanksOK
  <2>4. InHand'
    BY <1>6, <2>1, <2>2 DEF Write, InHand, Within, RanksOK
  <2>5. Balanced'
    <3> SUFFICES ASSUME ~amiss', NEW p \in Player
                 PROVE  Points(sum', p) + Points(total, p) = earned[p] + Points(current, p)
      BY <2>1, WeekAssumption DEF Balanced
    <3>1. ~amiss /\ InStep /\ place = "write"
      BY <1>6 DEF Write
    <3>2. rest = Subtract(sum, weeks[key])
      BY <1>6 DEF Write, InHand
    <3>3. Points(sum, p) + Points(total, p)
            = earned[p] + (IF under = NoWeek THEN 0 ELSE Points(weeks[under], p))
      BY <3>1 DEF Balanced
    <3>4. Points(total, p) <= earned[p]
      BY DEF InHand
    <3>5. CASE under = key
      <4>1. Points(weeks[key], p) <= Points(sum, p)
        BY <1>0, <2>1, <3>3, <3>4, <3>5, WeekAssumption
      <4>2. Points(rest, p) = Points(sum, p) - Points(weeks[key], p)
        BY <2>1, <3>2, <4>1, SubtractPoints DEF RanksOK
      <4> QED BY <1>0, <2>1, <3>3, <3>5, <4>2, WeekAssumption
    <3>6. CASE under = NoWeek /\ weeks[key] = EmptyRank
      <4>1. Points(weeks[key], p) = 0
        BY <3>6, EmptyIsRank
      <4>2. Points(rest, p) = Points(sum, p)
        BY <1>0, <2>1, <3>2, <4>1, SubtractPoints DEF RanksOK
      <4> QED BY <1>0, <2>1, <3>3, <3>6, <4>2
    <3> QED BY <3>1, <3>5, <3>6 DEF InStep
  <2> QED BY <2>3, <2>4, <2>5
<1>7. CASE Reset
  <2>1. /\ total' = EmptyRank /\ under' = NoWeek /\ place' = "idle"
        /\ rest' = EmptyRank /\ current' = EmptyRank
        /\ UNCHANGED <<file, sum, weeks, earned>>
    BY <1>7 DEF Reset, Over, output
  <2>2. RanksOK'
    BY <2>1, EmptyIsRank DEF RanksOK
  <2>3. InHand'
    BY <1>0, <2>1, EmptyIsRank DEF InHand
  <2>4. Balanced'
    <3> SUFFICES ASSUME ~amiss', file # "torn", NEW p \in Player
                 PROVE  Points(sum, p) + 0 = earned[p] + 0
      BY <2>1, EmptyIsRank DEF Balanced
    <3>1. ~amiss /\ total = current /\ place = "reset"
      BY <1>7 DEF Reset
    <3>2. under = key /\ weeks[under] = total /\ key \in Week
      BY <3>1 DEF InHand, RanksOK
    <3> QED BY <1>0, <3>1, <3>2, WeekAssumption DEF Balanced
  <2> QED BY <2>2, <2>3, <2>4
<1>8. CASE WriteTorn \/ Die
  <2>1. CASE WriteTorn /\ reset
    BY <2>1 DEF WriteTorn, vars, output, RanksOK, InHand, Balanced, Within
  <2>2. CASE WriteTorn /\ ~reset
    BY <2>2, EmptyIsRank DEF WriteTorn, Over, vars, output, RanksOK, InHand, Balanced, Within
  <2>3. CASE Die
    BY <2>3, EmptyIsRank DEF Die, Over, vars, output, RanksOK, InHand, Balanced, Within
  <2> QED BY <1>8, <2>1, <2>2, <2>3
<1> QED
  BY <1>1, <1>2, <1>3, <1>4, <1>5, <1>6, <1>7, <1>8, FinalRankReads DEF ExportNext, vars

\* Every point a game saves is exported once, whenever the export runs and
\* wherever it dies, but for the three ways that amiss tells.
THEOREM PointsAreConserved == ExportSpec => []Conserved
<1>1. Books => Conserved
  BY DEF Books, Balanced, Conserved
<1> QED BY BooksFirst, BooksNext, <1>1, PTL DEF ExportSpec

(***************************************************************************)
(* The list at the end of a game, while the export runs.                   *)
(***************************************************************************)

\* The export's DEL takes the points away and leaves the list as it is.
LEMMA ResetLists == ListOK /\ Reset => ListOK'
<1> SUFFICES ASSUME ListOK, Reset PROVE ListOK'
  OBVIOUS
<1>1. total' = EmptyRank /\ UNCHANGED <<gamers, pc, rank, todo, scored, saves, failed>>
  BY DEF Reset
<1>2. DOMAIN total' = {}
  BY <1>1 DEF EmptyRank
<1>3. TotalOK'
  BY <1>1, <1>2 DEF TotalOK, EmptyRank
<1>4. DOMAIN Ordered' = {}
  <2>1. Cardinality({}) = 0
    BY FS_EmptySet
  <2>2. DOMAIN Ordered' = 1..Cardinality(DOMAIN total')
    BY DEF Ordered
  <2> QED BY <1>2, <2>1, <2>2
<1> QED BY <1>1, <1>3, <1>4 DEF ListOK, Read, Listed

\* handleOutbox lists the game's players as well when the score export reads the
\* ranking, dies or deletes it between any two of its calls.
THEOREM ListSurvivesTheExport == ExportSpec => []ListsTheGame
<1>1. ExportInit => ListOK
  BY ListInit DEF ExportInit
<1>2. ListOK /\ [ExportNext]_<<vars, evars>> => ListOK'
  <2> SUFFICES ASSUME ListOK, [ExportNext]_<<vars, evars>> PROVE ListOK'
    OBVIOUS
  <2>1. ASSUME NEW p \in Player, Save(p) PROVE ListOK'
    BY <2>1, SaveLists DEF Save
  <2>2. CASE Reset
    BY <2>2, ResetLists
  <2>3. CASE HandleFinalRank
    BY <2>3, HandleFinalRankLists
  <2>4. CASE UNCHANGED vars
    BY <2>4, StutterLists
  <2>5. ASSUME NEW w \in Week, NEW r \in BOOLEAN, StartExport(w, r) PROVE UNCHANGED vars
    BY <2>5 DEF StartExport
  <2>6. ASSUME Fetch \/ Open \/ Write \/ WriteTorn \/ Die PROVE UNCHANGED vars
    BY <2>6 DEF Fetch, Open, Write, WriteTorn, Die
  <2> QED BY <2>1, <2>2, <2>3, <2>4, <2>5, <2>6 DEF ExportNext, Ended
<1> QED BY <1>1, <1>2, ListInTheEnd, PTL DEF ExportSpec
=============================================================================
