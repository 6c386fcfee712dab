------------------------------ MODULE FinalScore ------------------------------
(***************************************************************************)
(* The total score under a game's last ranking: what handleOutbox does     *)
(* with the final RankMessage.  It reads the best three of the channel     *)
(* from the store and then, one call after the other, the other players of *)
(* the game, while another game of the same chat may save its scores.      *)
(*                                                                         *)
(* A player is a number here: Redis orders equal scores by the player's ID.*)
(***************************************************************************)
EXTENDS Integers, Sequences, FiniteSets, SequencesExt

CONSTANTS
  N,            \* the players are 1..N
  Top,          \* how many of the channel are listed in any case
  Scores,       \* the points players may have when the game ends
  MaxSaves,     \* bound on what other games save meanwhile
  StoreFaults   \* BOOLEAN: a call to the store may fail

Player == 1..N

ASSUME FinalScoreAssumption ==
  /\ N \in Nat \ {0} /\ Top \in Nat \ {0, 1} /\ Scores \subseteq Nat
  /\ MaxSaves \in Nat /\ StoreFaults \in BOOLEAN

VARIABLES
  total,     \* the channel's sorted set: the points of each player it has
  gamers,    \* who is in the rank of the game that ended
  pc,        \* "read", "others", "place", "sort", "sent" or "dropped"
  rank,      \* the list so far: [player, score, position]
  todo,      \* the players of the game still to be looked up
  scored,    \* the player whose score was read and whose place was not, or 0
  saves,     \* bounds the environment
  (* History *)
  failed     \* players left out because a call to the store failed

vars == <<total, gamers, pc, rank, todo, scored, saves, failed>>

\* updateRanking has saved every round of the game: its players have a score,
\* unless the store lost it.
Init ==
  /\ \E known \in SUBSET Player : total \in [known -> Scores]
  /\ gamers \in SUBSET (IF StoreFaults THEN Player ELSE DOMAIN total)
  /\ pc = "read" /\ rank = <<>> /\ todo = {} /\ scored = 0
  /\ saves = 0 /\ failed = {}

-----------------------------------------------------------------------------
(* The store *)

\* The order of the set: by score, equal scores by ID, the greatest first.
Above(p, q) == total[p] > total[q] \/ (total[p] = total[q] /\ p > q)

\* ZREVRANK: how many are listed before the player.
RevRank(p) == Cardinality({q \in DOMAIN total : Above(q, p)})

\* ZREVRANGE: the players in that order.
Ordered ==
  [i \in 1..Cardinality(DOMAIN total) |->
     CHOOSE p \in DOMAIN total : RevRank(p) = i - 1]

Entry(p, score, position) == [player |-> p, score |-> score, position |-> position]

Listed == {rank[i].player : i \in DOMAIN rank}

\* ChannelRanking, for a limit above 1: positions count from 1.
ChannelRanking(limit) ==
  [i \in 1..(IF limit < Len(Ordered) THEN limit ELSE Len(Ordered)) |->
     Entry(Ordered[i], total[Ordered[i]], i)]

\* Another game of the chat saves a player's points.
OtherGameSaves(p) ==
  /\ saves < MaxSaves
  /\ saves' = saves + 1
  /\ total' = [q \in DOMAIN total \cup {p} |->
                 IF q # p THEN total[q] ELSE IF p \in DOMAIN total THEN total[p] + 1 ELSE 1]
  /\ UNCHANGED <<gamers, pc, rank, todo, scored, failed>>

-----------------------------------------------------------------------------
(* handleOutbox *)

\* Faulty: players of the game are looked up whether or not they are listed.
ReadTopForgets ==
  /\ pc = "read"
  /\ rank' = ChannelRanking(Top)
  /\ todo' = gamers
  /\ pc' = "others"
  /\ UNCHANGED <<total, gamers, scored, saves, failed>>

\* The best of the channel, and who of the game is not among them.
ReadTop ==
  /\ pc = "read"
  /\ rank' = ChannelRanking(Top)
  /\ todo' = gamers \ {rank'[i].player : i \in DOMAIN rank'}
  /\ pc' = "others"
  /\ UNCHANGED <<total, gamers, scored, saves, failed>>

\* An error: nothing is sent at all.
ReadTopFails ==
  /\ StoreFaults /\ pc = "read"
  /\ pc' = "dropped"
  /\ UNCHANGED <<total, gamers, rank, todo, scored, saves, failed>>

\* PlayerChannelScore reads the score first.
ReadScore(p) ==
  /\ pc = "others" /\ p \in todo /\ p \in DOMAIN total
  /\ todo' = todo \ {p}
  /\ rank' = Append(rank, Entry(p, total[p], 0))
  /\ pc' = "place"
  /\ scored' = p
  /\ UNCHANGED <<total, gamers, saves, failed>>

\* And then, with a command of its own, the place.
ReadPlace ==
  /\ pc = "place" /\ scored \in DOMAIN total
  /\ rank' = [rank EXCEPT ![Len(rank)].position = RevRank(scored)]
  /\ pc' = "others" /\ scored' = 0
  /\ UNCHANGED <<total, gamers, todo, saves, failed>>

\* An error, which the store also answers with for a player it does not list:
\* the player is left out.
ReadFails(p) ==
  /\ StoreFaults \/ p \notin DOMAIN total
  /\ pc = "others" /\ p \in todo
  /\ todo' = todo \ {p}
  /\ failed' = failed \cup {p}
  /\ UNCHANGED <<total, gamers, pc, rank, scored, saves>>

\* An error of the second command: the score is left out with its player.
ReadPlaceFails ==
  /\ StoreFaults \/ scored \notin DOMAIN total
  /\ pc = "place"
  /\ rank' = Front(rank)
  /\ failed' = failed \cup {scored}
  /\ pc' = "others" /\ scored' = 0
  /\ UNCHANGED <<total, gamers, todo, saves>>

\* sort.Sort(rank), which may order equal scores either way, and the message.
SortAndSend ==
  /\ pc = "others" /\ todo = {}
  /\ pc' = "sent"
  /\ \E order \in Bijection(DOMAIN rank, DOMAIN rank) :
       /\ rank' = [i \in DOMAIN rank |-> rank[order[i]]]
       /\ \A i \in 1..(Len(rank) - 1) : rank'[i].score >= rank'[i + 1].score
  /\ UNCHANGED <<total, gamers, todo, scored, saves, failed>>

Ended == pc \in {"sent", "dropped"} /\ UNCHANGED vars

HandleFinalRank ==
  \/ ReadTop \/ ReadTopFails
  \/ \E p \in Player : ReadScore(p) \/ ReadFails(p)
  \/ ReadPlace \/ ReadPlaceFails \/ SortAndSend

Next == HandleFinalRank \/ (\E p \in Player : OtherGameSaves(p)) \/ Ended

Spec == Init /\ [][Next]_vars

-----------------------------------------------------------------------------
(* Properties *)

\* "show leader board, TOP 3 + current game players" (bot.go:253): whatever
\* other games save between the calls, every player of the game is listed, once,
\* unless a call for that player failed; of the others only the best of the
\* channel are.
ListsTheGame ==
  pc = "sent" =>
    /\ Cardinality(Listed) = Len(rank)
    /\ gamers \ failed \subseteq Listed
    /\ saves = 0 => \A i \in DOMAIN Ordered : i <= Top => Ordered[i] \in Listed
    /\ Cardinality(Listed \ gamers) <= Top

\* Positions count from 1 ("pos++", redis.go:279, and "Position = i + 1",
\* score.go:40) and formatRankText marks the places it skips (commands.go:179):
\* no two players of a list share a position.
OnePositionEach ==
  pc = "sent" /\ saves = 0 =>
    \A i, j \in DOMAIN rank : i # j => rank[i].position # rank[j].position
=============================================================================
