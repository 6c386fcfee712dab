-------------------------- MODULE FinalScoreProofs --------------------------
(***************************************************************************)
(* What holds of FinalScore for every number of players, all scores, any   *)
(* length of the list and whatever other games save meanwhile.             *)
(***************************************************************************)
EXTENDS FinalScore, FiniteSetTheorems, TLAPS

(***************************************************************************)
(* The order of the sorted set.                                            *)
(***************************************************************************)

\* The sorted set holds points of players.
TotalOK == DOMAIN total \subseteq Player /\ total \in [DOMAIN total -> Nat]

\* The channel lists finitely many players.
LEMMA KnownFinite ==
  ASSUME TotalOK
  PROVE  /\ IsFiniteSet(DOMAIN total)
         /\ Cardinality(DOMAIN total) \in Nat
         /\ DOMAIN total \subseteq Nat
<1>1. IsFiniteSet(Player)
  BY FinalScoreAssumption, FS_Interval DEF Player
<1>2. IsFiniteSet(DOMAIN total)
  BY <1>1, FS_Subset DEF TotalOK
<1> QED BY <1>2, FS_CardinalityType, FinalScoreAssumption DEF TotalOK, Player

\* Of two players one is above the other, and whoever is above the one is above
\* the other too.
LEMMA AboveIsOrder ==
  ASSUME TotalOK
  PROVE  /\ \A p \in DOMAIN total : ~Above(p, p)
         /\ \A p, r \in DOMAIN total : p # r => Above(p, r) \/ Above(r, p)
         /\ \A p, r, s \in DOMAIN total : Above(p, r) /\ Above(r, s) => Above(p, s)
<1>1. \A p \in DOMAIN total : total[p] \in Nat /\ p \in Nat
  BY KnownFinite DEF TotalOK
<1> QED BY <1>1 DEF Above

\* A place is a number below the size of the set, and the higher is the less.
LEMMA RevRankType ==
  ASSUME TotalOK, NEW p \in DOMAIN total
  PROVE  RevRank(p) \in 0..(Cardinality(DOMAIN total) - 1)
<1> DEFINE before == {r \in DOMAIN total : Above(r, p)}
<1>1. before \subseteq DOMAIN total \ {p}
  BY AboveIsOrder
<1>2. /\ IsFiniteSet(DOMAIN total \ {p})
      /\ Cardinality(DOMAIN total \ {p}) = Cardinality(DOMAIN total) - 1
  BY KnownFinite, FS_RemoveElement
<1>3. IsFiniteSet(before) /\ Cardinality(before) <= Cardinality(DOMAIN total) - 1
  BY <1>1, <1>2, FS_Subset
<1>4. Cardinality(before) \in Nat
  BY <1>3, FS_CardinalityType
<1>5. RevRank(p) = Cardinality(before)
  BY DEF RevRank
<1> HIDE DEF before
<1> QED BY <1>3, <1>4, <1>5, KnownFinite

\* Who is above has another place.
LEMMA RevRankDiffers ==
  ASSUME TotalOK, NEW p \in DOMAIN total, NEW r \in DOMAIN total, Above(p, r)
  PROVE  RevRank(p) # RevRank(r)
<1> DEFINE before(x) == {s \in DOMAIN total : Above(s, x)}
<1>1. before(p) \subseteq before(r) /\ p \in before(r) /\ p \notin before(p)
  BY AboveIsOrder
<1>2. IsFiniteSet(before(r))
  BY KnownFinite, FS_Subset
<1>3. before(p) # before(r)
  BY <1>1
<1> HIDE DEF before
<1>4. Cardinality(before(r)) # Cardinality(before(p))
  BY <1>1, <1>2, <1>3, FS_Subset
<1> QED BY <1>4 DEF RevRank, before

\* ZREVRANGE and ZREVRANK agree: every place has its player, and one only.
LEMMA OrderedPlaces ==
  ASSUME TotalOK
  PROVE  /\ DOMAIN Ordered = 1..Cardinality(DOMAIN total)
         /\ \A i \in DOMAIN Ordered :
              Ordered[i] \in DOMAIN total /\ RevRank(Ordered[i]) = i - 1
<1> DEFINE size == Cardinality(DOMAIN total)
           places == 0..(size - 1)
           place == [p \in DOMAIN total |-> RevRank(p)]
<1>1. size \in Nat
  BY KnownFinite
<1>2. place \in [DOMAIN total -> places]
  BY RevRankType
<1>3. \A p, r \in DOMAIN total : RevRank(p) = RevRank(r) => p = r
  BY AboveIsOrder, RevRankDiffers
<1>4. place \in Injection(DOMAIN total, places)
  BY <1>2, <1>3 DEF Injection, IsInjective
<1>5. IsFiniteSet(places) /\ Cardinality(places) = size
  <2> HIDE DEF size
  <2>1. /\ IsFiniteSet(0..(size - 1))
        /\ Cardinality(0..(size - 1)) = IF 0 > size - 1 THEN 0 ELSE size - 1 - 0 + 1
    BY <1>1, FS_Interval
  <2> QED BY <1>1, <2>1
<1>6. place \in Surjection(DOMAIN total, places)
  BY <1>4, <1>5, FS_Injection
<1>7. ASSUME NEW i \in 1..size
      PROVE  \E p \in DOMAIN total : RevRank(p) = i - 1
  <2>1. i - 1 \in places
    BY <1>1
  <2>2. \E p \in DOMAIN total : place[p] = i - 1
    BY <1>6, <2>1 DEF Surjection
  <2> QED BY <2>2
<1>8. \A i \in 1..size : Ordered[i] \in DOMAIN total /\ RevRank(Ordered[i]) = i - 1
  BY <1>7 DEF Ordered
<1> QED BY <1>8 DEF Ordered

(***************************************************************************)
(* The list of the message.                                                *)
(***************************************************************************)

Entries == [player : Player, score : Nat, position : Int]

PlayersOf(list) == {list[i].player : i \in DOMAIN list}

\* A list of players, none of them twice.
IsList(list) ==
  /\ list \in Seq(Entries)
  /\ \A i, j \in DOMAIN list : list[i].player = list[j].player => i = j

\* A list that names nobody twice is as long as it has names.
LEMMA ListSize ==
  ASSUME NEW list, IsList(list)
  PROVE  IsFiniteSet(PlayersOf(list)) /\ Cardinality(PlayersOf(list)) = Len(list)
<1> DEFINE at == [i \in DOMAIN list |-> list[i].player]
<1>1. Len(list) \in Nat /\ DOMAIN list = 1..Len(list)
  BY DEF IsList
<1>2. IsFiniteSet(DOMAIN list) /\ Cardinality(DOMAIN list) = Len(list)
  <2>1. IsFiniteSet(1..Len(list))
        /\ Cardinality(1..Len(list)) = IF 1 > Len(list) THEN 0 ELSE Len(list) - 1 + 1
    BY <1>1, FS_Interval
  <2> QED BY <1>1, <2>1
<1>3. at \in Surjection(DOMAIN list, PlayersOf(list))
  BY DEF Surjection, PlayersOf
<1>4. at \in Injection(DOMAIN list, PlayersOf(list))
  BY DEF Injection, IsInjective, IsList, PlayersOf
<1> HIDE DEF at
<1> QED BY <1>2, <1>3, <1>4, FS_Surjection

\* PlayerChannelScore adds a player at the end.
LEMMA AppendEntry ==
  ASSUME NEW list, IsList(list), NEW e \in Entries, e.player \notin PlayersOf(list)
  PROVE  /\ IsList(Append(list, e))
         /\ PlayersOf(Append(list, e)) = PlayersOf(list) \cup {e.player}
         /\ Append(list, e) # <<>>
         /\ Append(list, e)[Len(Append(list, e))] = e
<1> DEFINE new == Append(list, e)
<1>1. /\ list \in Seq(Entries) /\ Len(list) \in Nat /\ DOMAIN list = 1..Len(list)
  BY DEF IsList
<1>2. /\ new \in Seq(Entries) /\ Len(new) = Len(list) + 1
      /\ DOMAIN new = DOMAIN list \cup {Len(list) + 1}
      /\ \A i \in DOMAIN list : new[i] = list[i]
      /\ new[Len(list) + 1] = e
  BY <1>1
<1> HIDE DEF new
<1>3. PlayersOf(new) = PlayersOf(list) \cup {e.player}
  BY <1>1, <1>2 DEF PlayersOf
<1>4. \A i, j \in DOMAIN new : new[i].player = new[j].player => i = j
  BY <1>1, <1>2 DEF IsList, PlayersOf
<1>5. new # <<>>
  BY <1>1, <1>2
<1>6. /\ IsList(new) /\ PlayersOf(new) = PlayersOf(list) \cup {e.player}
      /\ new # <<>> /\ new[Len(new)] = e
  BY <1>2, <1>3, <1>4, <1>5 DEF IsList
<1> QED BY <1>6 DEF new

\* The last player is taken off.
LEMMA FrontEntries ==
  ASSUME NEW list, IsList(list), list # <<>>
  PROVE  /\ IsList(Front(list))
         /\ PlayersOf(Front(list)) = PlayersOf(list) \ {list[Len(list)].player}
<1> DEFINE front == Front(list)
<1>1. /\ list \in Seq(Entries) /\ Len(list) \in Nat \ {0} /\ DOMAIN list = 1..Len(list)
  BY DEF IsList
<1>2. /\ front \in Seq(Entries) /\ DOMAIN front = 1..(Len(list) - 1)
      /\ \A i \in 1..(Len(list) - 1) : front[i] = list[i]
  BY <1>1 DEF Front
<1> HIDE DEF front
<1>3. DOMAIN list = DOMAIN front \cup {Len(list)} /\ Len(list) \notin DOMAIN front
  BY <1>1, <1>2
<1>4. \A i \in DOMAIN front : front[i] = list[i] /\ i # Len(list)
  BY <1>1, <1>2
<1>5. PlayersOf(front) = PlayersOf(list) \ {list[Len(list)].player}
  <2>1. PlayersOf(list) = PlayersOf(front) \cup {list[Len(list)].player}
    BY <1>3, <1>4 DEF PlayersOf
  <2>2. \A i \in DOMAIN front : front[i].player # list[Len(list)].player
    BY <1>3, <1>4 DEF IsList
  <2>3. list[Len(list)].player \notin PlayersOf(front)
    BY <2>2 DEF PlayersOf
  <2> QED BY <2>1, <2>3
<1>6. \A i, j \in DOMAIN front : front[i].player = front[j].player => i = j
  BY <1>3, <1>4 DEF IsList
<1>7. IsList(front)
  BY <1>2, <1>6 DEF IsList
<1> QED BY <1>5, <1>7 DEF front

\* The place of the last player is filled in.
LEMMA PlaceEntry ==
  ASSUME NEW list, IsList(list), list # <<>>, NEW k \in Int
  PROVE  LET new == [list EXCEPT ![Len(list)].position = k]
         IN  IsList(new) /\ PlayersOf(new) = PlayersOf(list)
<1> DEFINE new == [list EXCEPT ![Len(list)].position = k]
<1>1. /\ list \in Seq(Entries) /\ Len(list) \in Nat \ {0} /\ DOMAIN list = 1..Len(list)
  BY DEF IsList
<1>2. /\ new \in Seq(Entries) /\ DOMAIN new = DOMAIN list
      /\ \A i \in DOMAIN list : new[i].player = list[i].player
  <2> DEFINE last == list[Len(list)]
             placed == [last EXCEPT !.position = k]
  <2>1. last \in Entries
    BY <1>1
  <2>2. placed \in Entries /\ placed.player = last.player
    BY <2>1 DEF Entries
  <2>3. new = [list EXCEPT ![Len(list)] = placed]
    OBVIOUS
  <2> HIDE DEF placed, new
  <2> QED BY <1>1, <2>2, <2>3
<1> HIDE DEF new
<1>3. IsList(new) /\ PlayersOf(new) = PlayersOf(list)
  BY <1>2 DEF IsList, PlayersOf
<1> QED BY <1>3 DEF new

\* Sorting lists the same players.
LEMMA SortEntries ==
  ASSUME NEW list, IsList(list), NEW order \in Bijection(DOMAIN list, DOMAIN list)
  PROVE  LET new == [i \in DOMAIN list |-> list[order[i]]]
         IN  IsList(new) /\ PlayersOf(new) = PlayersOf(list)
<1> DEFINE new == [i \in DOMAIN list |-> list[order[i]]]
<1>1. /\ list \in Seq(Entries) /\ Len(list) \in Nat /\ DOMAIN list = 1..Len(list)
  BY DEF IsList
<1>2. /\ order \in [DOMAIN list -> DOMAIN list]
      /\ \A i, j \in DOMAIN list : order[i] = order[j] => i = j
      /\ \A i \in DOMAIN list : \E j \in DOMAIN list : order[j] = i
  BY DEF Bijection, Injection, Surjection, IsInjective
<1>3. /\ DOMAIN new = DOMAIN list
      /\ \A i \in DOMAIN list : new[i] = list[order[i]] /\ order[i] \in DOMAIN list
  BY <1>2
<1>4. new \in Seq(Entries)
  <2>1. new \in [1..Len(list) -> Entries]
    BY <1>1, <1>2
  <2> QED BY <1>1, <2>1
<1> HIDE DEF new
<1>5. IsList(new)
  <2>1. ASSUME NEW i \in DOMAIN new, NEW j \in DOMAIN new, new[i].player = new[j].player
        PROVE  i = j
    <3>1. list[order[i]].player = list[order[j]].player
      BY <1>3, <2>1
    <3>2. order[i] = order[j]
      BY <1>3, <3>1 DEF IsList
    <3> QED BY <1>2, <1>3, <3>2
  <2> QED BY <1>4, <2>1 DEF IsList
<1>6. PlayersOf(new) = PlayersOf(list)
  BY <1>2, <1>3 DEF PlayersOf
<1> QED BY <1>5, <1>6 DEF new

(***************************************************************************)
(* The list and the game.                                                  *)
(***************************************************************************)

Read == pc \in {"others", "place", "sent"}

\* The players of the game are listed, still to be looked up or left out; of the
\* others only as many are as the best of the channel; and those are, as long as
\* nobody has saved: a player whose place is being read is not one of them.
ListOK ==
  /\ TotalOK /\ saves \in Nat
  /\ gamers \subseteq Player /\ todo \subseteq gamers
  /\ pc \in {"read", "others", "place", "sent", "dropped"}
  /\ IsList(rank) /\ todo \cap Listed = {}
  /\ Cardinality(Listed \ gamers) <= Top
  /\ Read => gamers \subseteq Listed \cup todo \cup failed
  /\ pc = "sent" => todo = {}
  /\ pc = "place" => /\ rank # <<>> /\ scored \in gamers
                     /\ scored = rank[Len(rank)].player
  /\ saves = 0 /\ Read =>
       \A i \in DOMAIN Ordered : i <= Top =>
         Ordered[i] \in Listed /\ (pc = "place" => Ordered[i] # scored)

\* While nobody saves the order is the same.
LEMMA SameOrder == UNCHANGED total => UNCHANGED Ordered
  BY DEF Ordered, RevRank, Above

\* Nothing is listed when the game ends.
LEMMA ListInit == Init => ListOK
<1> SUFFICES ASSUME Init PROVE ListOK
  OBVIOUS
<1>1. TotalOK
  BY FinalScoreAssumption DEF Init, TotalOK
<1>2. gamers \subseteq Player
  BY <1>1 DEF Init, TotalOK
<1>3. IsList(rank) /\ Listed = {}
  BY DEF Init, IsList, Listed
<1>4. Cardinality(Listed \ gamers) <= Top
  <2>1. Listed \ gamers = {}
    BY <1>3
  <2> QED BY <2>1, FS_EmptySet, FinalScoreAssumption
<1> QED BY <1>1, <1>2, <1>3, <1>4 DEF Init, ListOK, Read

\* The best of the channel are read, and nobody else.
LEMMA ReadTopLists == ListOK /\ ReadTop => ListOK'
<1> SUFFICES ASSUME ListOK, ReadTop PROVE ListOK'
  OBVIOUS
<1> DEFINE size == Cardinality(DOMAIN total)
           k == IF Top < size THEN Top ELSE size
<1>1. /\ TotalOK /\ UNCHANGED <<total, gamers, saves, failed>> /\ pc' = "others"
      /\ UNCHANGED Ordered
  BY SameOrder DEF ListOK, ReadTop
<1>2. /\ DOMAIN Ordered = 1..size /\ size \in Nat
      /\ \A i \in 1..size : Ordered[i] \in DOMAIN total /\ RevRank(Ordered[i]) = i - 1
  BY <1>1, KnownFinite, OrderedPlaces
<1>3. Len(Ordered) = size
  <2>1. Ordered \in [1..size -> DOMAIN total]
    BY <1>2 DEF Ordered
  <2> HIDE DEF size
  <2> QED BY <1>2, <2>1
<1>4. k \in Nat /\ k <= Top /\ k <= size
  BY <1>2, FinalScoreAssumption
<1>5. rank' = [i \in 1..k |-> Entry(Ordered[i], total[Ordered[i]], i)]
  BY <1>3 DEF ReadTop, ChannelRanking
<1>6. \A i \in 1..k : /\ Ordered[i] \in DOMAIN total /\ RevRank(Ordered[i]) = i - 1
                      /\ total[Ordered[i]] \in Nat /\ Ordered[i] \in Player
  BY <1>1, <1>2, <1>4 DEF TotalOK
<1>7. DOMAIN rank' = 1..k /\ \A i \in 1..k : rank'[i].player = Ordered[i]
  BY <1>5 DEF Entry
<1>8. IsList(rank')
  <2>1. rank' \in [1..k -> Entries]
    BY <1>5, <1>6 DEF Entry, Entries
  <2>2. rank' \in Seq(Entries)
    <3> HIDE DEF k
    <3> QED BY <1>4, <2>1
  <2>3. \A i, j \in 1..k : Ordered[i] = Ordered[j] => i = j
    <3> HIDE DEF k
    <3> QED BY <1>4, <1>6
  <2> QED BY <1>7, <2>2, <2>3 DEF IsList
<1>9. Len(rank') = k
  BY <1>4, <1>7
<1>10. Listed' = PlayersOf(rank')
  BY DEF Listed, PlayersOf
<1>11. Cardinality(Listed' \ gamers) <= Top
  <2>1. IsFiniteSet(Listed') /\ Cardinality(Listed') = k
    BY <1>8, <1>9, <1>10, ListSize
  <2>2. IsFiniteSet(Listed' \ gamers) /\ Cardinality(Listed' \ gamers) <= k
    BY <2>1, FS_Subset
  <2>3. Cardinality(Listed' \ gamers) \in Nat
    BY <2>2, FS_CardinalityType
  <2> HIDE DEF k
  <2> QED BY <1>4, <2>2, <2>3, FinalScoreAssumption
<1>12. todo' = gamers \ Listed'
  BY DEF ReadTop, Listed
<1>13. ASSUME NEW i \in DOMAIN Ordered, i <= Top PROVE Ordered[i] \in Listed'
  <2>1. i \in 1..k
    BY <1>2, <1>13, FinalScoreAssumption
  <2> QED BY <1>7, <2>1 DEF Listed
<1>14. TotalOK'
  BY <1>1 DEF TotalOK
<1> HIDE DEF k, size
<1> QED BY <1>1, <1>8, <1>11, <1>12, <1>13, <1>14 DEF ListOK, Read

\* A player of the game who was not listed is added.
LEMMA ReadScoreLists == ASSUME NEW p \in Player, ListOK, ReadScore(p) PROVE ListOK'
<1> DEFINE e == Entry(p, total[p], 0)
<1>1. /\ pc = "others" /\ p \in todo /\ p \in DOMAIN total /\ todo' = todo \ {p}
      /\ rank' = Append(rank, e) /\ pc' = "place" /\ scored' = p
      /\ UNCHANGED <<total, gamers, saves, failed>> /\ UNCHANGED Ordered
  BY SameOrder DEF ReadScore
<1>2. e \in Entries /\ e.player = p
  BY <1>1 DEF Entry, Entries, ListOK, TotalOK
<1>3. p \notin PlayersOf(rank) /\ Listed = PlayersOf(rank) /\ Listed' = PlayersOf(rank')
  BY <1>1 DEF ListOK, Listed, PlayersOf
<1> HIDE DEF e
<1>4. /\ IsList(rank') /\ Listed' = Listed \cup {p}
      /\ rank' # <<>> /\ rank'[Len(rank')] = e
  BY <1>1, <1>2, <1>3, AppendEntry DEF ListOK
<1>5. Listed' \ gamers = Listed \ gamers
  BY <1>1, <1>4 DEF ListOK
<1>6. /\ todo' \subseteq gamers /\ todo' \cap Listed' = {} /\ p \in gamers
      /\ gamers \subseteq Listed' \cup todo' \cup failed
  BY <1>1, <1>4 DEF ListOK, Read
<1>7. saves = 0 => \A i \in DOMAIN Ordered : i <= Top =>
                     Ordered[i] \in Listed' /\ Ordered[i] # p
  BY <1>1, <1>3, <1>4 DEF ListOK, Read
<1>8. TotalOK'
  BY <1>1 DEF ListOK, TotalOK
<1> QED BY <1>1, <1>2, <1>4, <1>5, <1>6, <1>7, <1>8 DEF ListOK, Read

\* The player's place changes nothing about who is listed.
LEMMA ReadPlaceLists == ListOK /\ ReadPlace => ListOK'
<1> SUFFICES ASSUME ListOK, ReadPlace PROVE ListOK'
  OBVIOUS
<1>1. /\ pc = "place" /\ scored \in DOMAIN total /\ pc' = "others"
      /\ rank' = [rank EXCEPT ![Len(rank)].position = RevRank(scored)]
      /\ UNCHANGED <<total, gamers, todo, saves, failed>> /\ UNCHANGED Ordered
  BY SameOrder DEF ReadPlace
<1>2. RevRank(scored) \in Int
  BY <1>1, RevRankType DEF ListOK
<1>3. /\ IsList(rank') /\ PlayersOf(rank') = PlayersOf(rank)
  BY <1>1, <1>2, PlaceEntry DEF ListOK
<1>4. Listed' = Listed
  BY <1>3 DEF Listed, PlayersOf
<1>5. TotalOK'
  BY <1>1 DEF ListOK, TotalOK
<1> QED BY <1>1, <1>3, <1>4, <1>5 DEF ListOK, Read

\* A player whose place cannot be read is taken off the list, and is counted
\* among those left out; the player was none of the best.
LEMMA ReadPlaceFailsLists == ListOK /\ ReadPlaceFails => ListOK'
<1> SUFFICES ASSUME ListOK, ReadPlaceFails PROVE ListOK'
  OBVIOUS
<1>1. /\ pc = "place" /\ pc' = "others" /\ rank' = Front(rank)
      /\ failed' = failed \cup {scored}
      /\ UNCHANGED <<total, gamers, todo, saves>> /\ UNCHANGED Ordered
  BY SameOrder DEF ReadPlaceFails
<1>2. IsList(rank') /\ PlayersOf(rank') = PlayersOf(rank) \ {scored}
  BY <1>1, FrontEntries DEF ListOK
<1>3. Listed' = Listed \ {scored} /\ scored \in gamers
  BY <1>1, <1>2 DEF Listed, PlayersOf, ListOK
<1>4. Listed' \ gamers = Listed \ gamers
  BY <1>3
<1>5. TotalOK'
  BY <1>1 DEF ListOK, TotalOK
<1> QED BY <1>1, <1>2, <1>3, <1>4, <1>5 DEF ListOK, Read

\* sort.Sort exchanges entries and changes none.
LEMMA SortAndSendLists == ListOK /\ SortAndSend => ListOK'
<1> SUFFICES ASSUME ListOK, SortAndSend PROVE ListOK'
  OBVIOUS
<1>1. /\ pc = "others" /\ todo = {} /\ pc' = "sent"
      /\ UNCHANGED <<total, gamers, todo, scored, saves, failed>> /\ UNCHANGED Ordered
  BY SameOrder DEF SortAndSend
<1>2. PICK order \in Bijection(DOMAIN rank, DOMAIN rank) :
        rank' = [i \in DOMAIN rank |-> rank[order[i]]]
  BY DEF SortAndSend
<1>3. IsList(rank') /\ PlayersOf(rank') = PlayersOf(rank)
  BY <1>2, SortEntries DEF ListOK
<1>4. Listed' = Listed
  BY <1>3 DEF Listed, PlayersOf
<1>5. TotalOK'
  BY <1>1 DEF ListOK, TotalOK
<1> QED BY <1>1, <1>3, <1>4, <1>5 DEF ListOK, Read

\* No step of the outbox lists a player twice or loses one.
LEMMA HandleFinalRankLists == ListOK /\ HandleFinalRank => ListOK'
<1> SUFFICES ASSUME ListOK, HandleFinalRank PROVE ListOK'
  OBVIOUS
<1>1. CASE ReadTopFails
  BY <1>1, SameOrder DEF ReadTopFails, ListOK, TotalOK, Read, Listed
<1>2. ASSUME NEW p \in Player, ReadFails(p) PROVE ListOK'
  BY <1>2, SameOrder DEF ReadFails, ListOK, TotalOK, Read, Listed
<1> QED BY <1>1, <1>2, ReadTopLists, ReadScoreLists, ReadPlaceLists,
          ReadPlaceFailsLists, SortAndSendLists DEF HandleFinalRank

\* What other games save changes the points, not the list.
LEMMA SaveLists == ASSUME NEW p \in Player, ListOK, OtherGameSaves(p) PROVE ListOK'
<1>1. saves' = saves + 1 /\ UNCHANGED <<gamers, pc, rank, todo, scored, failed>>
  BY DEF OtherGameSaves
<1>2. TotalOK'
  <2>1. total' = [r \in DOMAIN total \cup {p} |->
                    IF r # p THEN total[r]
                    ELSE IF p \in DOMAIN total THEN total[p] + 1 ELSE 1]
    BY DEF OtherGameSaves
  <2>2. DOMAIN total' = DOMAIN total \cup {p}
    BY <2>1
  <2> QED BY <2>1, <2>2 DEF ListOK, TotalOK
<1>3. saves' # 0
  BY <1>1 DEF ListOK
<1> QED BY <1>1, <1>2, <1>3 DEF ListOK, Read, Listed

\* A step that touches none of this keeps it.
LEMMA StutterLists == ListOK /\ UNCHANGED vars => ListOK'
  BY SameOrder DEF vars, ListOK, TotalOK, Read, Listed

\* When the list is sent nobody is left to be looked up.
LEMMA ListInTheEnd == ListOK => ListsTheGame
<1> SUFFICES ASSUME ListOK, pc = "sent"
             PROVE  /\ Cardinality(Listed) = Len(rank)
                    /\ gamers \ failed \subseteq Listed
                    /\ saves = 0 => \A i \in DOMAIN Ordered : i <= Top => Ordered[i] \in Listed
                    /\ Cardinality(Listed \ gamers) <= Top
  BY DEF ListsTheGame
<1>1. Cardinality(Listed) = Len(rank)
  BY ListSize DEF ListOK, Listed, PlayersOf
<1> QED BY <1>1 DEF ListOK, Read

\* "show leader board, TOP 3 + current game players": whatever other games save
\* between the calls, handleOutbox lists every player of the game once, unless a
\* call for that player failed, and of the others the best of the channel only.
THEOREM FinalListIsComplete == Spec => []ListsTheGame
<1>1. ListOK /\ [Next]_vars => ListOK'
  BY HandleFinalRankLists, SaveLists, StutterLists DEF Next, Ended
<1> QED BY <1>1, ListInit, ListInTheEnd, PTL DEF Spec
=============================================================================
