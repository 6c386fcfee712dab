-------------------------------- MODULE Export --------------------------------
(***************************************************************************)
(* The score export, cmd/scoreexport: run by hand or by a timer, it adds   *)
(* up a chat's weeks in a file of its own.  It takes what the file counts  *)
(* for its week out of the file's total, reads the ranking the bot keeps   *)
(* in the store, puts that in its place and, when asked to, deletes it     *)
(* from the store.  All the while the bot's games save to that ranking and *)
(* the end of a game reads it (FinalScore).                                *)
(*                                                                         *)
(* The export is one of a chat whose ranking is not empty; it goes through *)
(* the chats one by one.                                                   *)
(***************************************************************************)
EXTENDS FinalScore, Scoring

CONSTANTS
  Week,    \* the weeks in which the export runs, or which -week names
  NoWeek

ASSUME WeekAssumption == NoWeek \notin Week

VARIABLES
  file,       \* "none", "whole" or, while or since it was not written, "torn"
  sum,        \* the total of the file when it was last whole
  weeks,      \* and its rank of each week, EmptyRank for none
  place,      \* where the export stands, "idle" when none runs
  key, reset, \* its currentWeekKey and its -reset
  rest,       \* the total without the week
  current,    \* the ranking it has read
  (* History *)
  earned,     \* the points each player was given
  under,      \* the week under which the file has what the store has, or NoWeek
  amiss       \* points were lost or counted twice

output == <<file, sum, weeks>>
export == <<place, key, reset, rest, current>>
evars == <<output, export, earned, under, amiss>>

ExportInit ==
  /\ Init
  /\ file = "none" /\ sum = EmptyRank /\ weeks = [w \in Week |-> EmptyRank]
  /\ place = "idle" /\ key = NoWeek /\ reset = FALSE
  /\ rest = EmptyRank /\ current = EmptyRank
  /\ earned = [p \in Player |-> Points(total, p)] /\ under = NoWeek /\ amiss = FALSE

-----------------------------------------------------------------------------
(* The bot *)

\* A game saves a player's points while the export runs, or when it does not.
Save(p) ==
  /\ OtherGameSaves(p)
  /\ earned' = [earned EXCEPT ![p] = @ + 1]
  /\ UNCHANGED <<output, export, under, amiss>>

-----------------------------------------------------------------------------
(* The export *)

\* Faulty: the week stays in the total.
StartExportTwice(w, r) ==
  /\ place = "idle" /\ DOMAIN total # {}
  /\ file # "torn"
  /\ key' = w /\ reset' = r
  /\ rest' = sum
  /\ place' = "fetch"
  /\ UNCHANGED <<vars, output, current, earned, under, amiss>>

\* The ranking has a key in the store and the file can be read: a file that
\* was left torn is skipped.
StartExport(w, r) ==
  /\ place = "idle" /\ DOMAIN total # {}
  /\ file # "torn"
  /\ key' = w /\ reset' = r
  /\ rest' = Subtract(sum, weeks[w])
  /\ place' = "fetch"
  /\ UNCHANGED <<vars, output, current, earned, under, amiss>>

\* ChannelRanking(chanID, 0): the whole ranking.
Fetch ==
  /\ place = "fetch"
  /\ current' = total
  /\ place' = "open"
  /\ UNCHANGED <<vars, output, key, reset, rest, earned, under, amiss>>

\* os.OpenFile with O_TRUNC: what the file had is gone.
Open ==
  /\ place = "open"
  /\ file' = "torn"
  /\ place' = "write"
  /\ UNCHANGED <<vars, sum, weeks, key, reset, rest, current, earned, under, amiss>>

\* The export is over and its variables are gone.
Over ==
  /\ place' = "idle" /\ key' = NoWeek /\ reset' = FALSE
  /\ rest' = EmptyRank /\ current' = EmptyRank

\* Is what the store has counted under no week or under this one alone?
InStep == under = key \/ (under = NoWeek /\ weeks[key] = EmptyRank)

\* The new total and the new rank of the week.
Write ==
  /\ place = "write"
  /\ file' = "whole"
  /\ sum' = Add(rest, current)
  /\ weeks' = [weeks EXCEPT ![key] = current]
  /\ IF reset
       THEN place' = "reset" /\ UNCHANGED <<key, reset, rest, current>>
       ELSE Over
  /\ under' = key
  /\ amiss' = (amiss \/ ~InStep)
  /\ UNCHANGED <<vars, earned>>

\* enc.Encode fails, on a full disk say, and nobody looks: as much as was written
\* stays in the file, and the export goes on.
WriteTorn ==
  /\ place = "write"
  /\ IF reset
       THEN place' = "reset" /\ UNCHANGED <<key, reset, rest, current>>
       ELSE Over
  /\ UNCHANGED <<vars, output, earned, under, amiss>>

\* DEL: the ranking goes, what was saved since it was read included.
Reset ==
  /\ place = "reset"
  /\ total' = EmptyRank
  /\ Over
  /\ under' = NoWeek
  /\ amiss' = (amiss \/ total # current)
  /\ UNCHANGED <<gamers, pc, rank, todo, scored, saves, failed, output,
                 earned>>

\* log.Fatal, log.Panic or a crash: the export ends where it stands.
Die ==
  /\ place # "idle"
  /\ Over
  /\ UNCHANGED <<vars, output, earned, under, amiss>>

ExportNext ==
  \/ (HandleFinalRank \/ Ended) /\ UNCHANGED evars
  \/ \E p \in Player : Save(p)
  \/ \E w \in Week, r \in BOOLEAN : StartExport(w, r)
  \/ Fetch \/ Open \/ Write \/ WriteTorn \/ Reset \/ Die

ExportSpec == ExportInit /\ [][ExportNext]_<<vars, evars>>

-----------------------------------------------------------------------------
(* Properties *)

\* As long as the file is whole, every point is in its total or still to be added
\* to it, once.  Points get lost or counted twice in three ways only: a game saves
\* between the export's reading and its DEL, a week is exported again after its
\* reset, or points exported under one week are exported under another.  Wherever
\* else the export dies, and whatever is saved at other times, the next one makes
\* good.  A file that was left torn is skipped from then on.
Conserved ==
  ~amiss /\ file # "torn" =>
    \A p \in Player :
      Points(sum, p) + Points(total, p)
        = earned[p] + (IF under = NoWeek THEN 0 ELSE Points(weeks[under], p))
=============================================================================
