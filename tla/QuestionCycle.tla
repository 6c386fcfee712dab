---------------------------- MODULE QuestionCycle ----------------------------
(***************************************************************************)
(* The questions a chat is asked by the games it plays one after the other *)
(* or, when things go wrong, side by side: Lobby, with the counter that    *)
(* the store keeps for each chat.  A new game reads the counter once, when *)
(* its first player joins, and counts on by itself; every round of it adds *)
(* one to the store's.  The counter is all that is left when the process   *)
(* ends, as it may between any two steps.                                  *)
(***************************************************************************)
EXTENDS Lobby, Qna

CONSTANTS
  RoundPerGame,
  QuestionCount,  \* questions in the file
  LimitFlag,      \* -questionLimit, below 0 if it was not given
  ChatLimits,     \* limits of its own that a chat may have, a key of the store
                  \* that no program of the repository sets
  StoreFaults,    \* BOOLEAN: IncRoundPlayed may fail
  MaxCrashes      \* bound on the times the process ends

ASSUME CycleAssumption ==
  /\ RoundPerGame \in Nat \ {0} /\ QuestionCount \in Nat \ {0}
  /\ LimitFlag \in Int /\ ChatLimits \subseteq Int /\ StoreFaults \in BOOLEAN
  /\ MaxCrashes \in Nat

VARIABLES
  played,            \* the store's counter of each chat
  totalRoundPlayed,  \* each game's own count
  rounds,            \* the rounds each game has begun
  counted,           \* games that have counted a round and are about to ask
  asked,             \* what each chat was asked, oldest first: [game, turn,
                     \* limit, after], the last being the crashes before it
  crashes,
  (* History *)
  orphaned,          \* chats a started game of which was taken off the table
  uncounted          \* chats with a round the store did not count

\* The limit of a round, read anew for each: the chat's own, if it has one, it is
\* a number and the store gives it, else the default.
QuestionLimits == {DefaultQuestionLimit(QuestionCount, LimitFlag)} \cup ChatLimits

cycle == <<played, totalRoundPlayed, rounds, counted, asked, crashes,
           orphaned, uncounted>>

CycleInit ==
  /\ Init
  /\ played = [ch \in Chat |-> 0]
  /\ totalRoundPlayed = [c \in Games |-> 0]
  /\ rounds = [c \in Games |-> 0]
  /\ counted = {} /\ crashes = 0
  /\ asked = [ch \in Chat |-> <<>>]
  /\ orphaned = {} /\ uncounted = {}

-----------------------------------------------------------------------------
\* NewGame, whichever chat it is for, reads the chat's counter.
NewGame ==
  \/ made' = made /\ UNCHANGED totalRoundPlayed
  \/ /\ made' # made
     /\ totalRoundPlayed' =
          [totalRoundPlayed EXCEPT ![made'] = NextGame(played[chat'[made']])]

\* A game ends after its last round.
PlaysAllRounds ==
  \A c \in Games :
    state[c] = "started" /\ state'[c] = "finished"
      => rounds[c] = RoundPerGame /\ c \notin counted

\* The chats whose started game this step takes off the table.
Orphaned ==
  {ch \in Chat : /\ channels[ch] # NoGame /\ channels'[ch] = NoGame
                 /\ state[channels[ch]] = "started"}

\* What the bot does, and what that does to the games' counts.
LobbyStep ==
  /\ Next
  /\ NewGame /\ PlaysAllRounds
  /\ orphaned' = orphaned \cup Orphaned
  /\ UNCHANGED <<played, rounds, counted, asked, crashes, uncounted>>

\* Faulty: the rounds of a game are counted with its last one.
CountAtEnd(ch, c) ==
  /\ played' = [played EXCEPT ![ch] =
       IF rounds[c] = RoundPerGame - 1 THEN @ + RoundPerGame ELSE @]
  /\ UNCHANGED uncounted

\* IncRoundPlayed: an error is logged and the round goes on.
IncRoundPlayed(ch, c) ==
  \/ played' = [played EXCEPT ![ch] = @ + 1] /\ UNCHANGED uncounted
  \/ StoreFaults /\ uncounted' = uncounted \cup {ch} /\ UNCHANGED played

\* startRound counts the round, here and in the store, ...
StartRound(c) ==
  /\ state[c] = "started" /\ rounds[c] < RoundPerGame /\ c \notin counted
  /\ totalRoundPlayed' = [totalRoundPlayed EXCEPT ![c] = @ + 1]
  /\ IncRoundPlayed(chat[c], c)
  /\ rounds' = [rounds EXCEPT ![c] = @ + 1]
  /\ counted' = counted \cup {c}
  /\ UNCHANGED <<vars, asked, crashes, orphaned>>

\* ... and then reads the limit and asks its question.
Ask(c) ==
  /\ c \in counted
  /\ counted' = counted \ {c}
  /\ \E questionLimit \in QuestionLimits :
       asked' = [asked EXCEPT ![chat[c]] =
         Append(@, [game |-> c, turn |-> totalRoundPlayed[c],
                    limit |-> questionLimit, after |-> crashes])]
  /\ UNCHANGED <<vars, played, totalRoundPlayed, rounds, crashes, orphaned, uncounted>>

\* The process ends, by a signal, a crash or a fatal error as that of two
\* goroutines at one map (bot.go:352), and a new one starts: lobbies, games and
\* what was on the way between them are gone.
Crash ==
  /\ crashes < MaxCrashes
  /\ crashes' = crashes + 1
  /\ channels' = [ch \in Chat |-> NoGame] /\ sending' = NoGame
  /\ state' = [c \in Games |-> IF c <= made THEN "done" ELSE "none"]
  /\ timers' = [c \in Games |-> <<>>]
  /\ notifier' = [c \in Games |-> "off"] /\ cancelNotify' = [c \in Games |-> "nil"]
  /\ inQueue' = [c \in Games |-> 0]
  /\ gameOut' = <<>> /\ timeoutChan' = <<>> /\ finishedChan' = <<>>
  /\ counted' = {}
  /\ UNCHANGED <<chat, quorumPlayer, upgraded, made, texts, played,
                 totalRoundPlayed, rounds, asked, orphaned, uncounted>>

CycleNext == LobbyStep \/ Crash \/ \E c \in Games : StartRound(c) \/ Ask(c)

CycleSpec == CycleInit /\ [][CycleNext]_<<vars, cycle>>

-----------------------------------------------------------------------------
(* Properties *)

CycleOf(a) == Cycle(QuestionCount, a.limit)

SameQuestion(a, b) ==
  Place(QuestionCount, a.limit, a.turn) = Place(QuestionCount, b.limit, b.turn)

\* Between two askings of one question a chat has a cycle of questions, but for
\* one that each new game skips and one that each crash may, from game to game
\* and from process to process, whatever limits the rounds between had.  Sooner,
\* the question comes back only for one of three reasons: the two rounds went
\* round in different cycles, as one failed read of the limit is enough for; or,
\* by another game, the store missed a round of the chat or a timeout that came
\* too late let two games of the chat run side by side.
NoEarlyRepeat ==
  \A ch \in Chat : \A i, j \in DOMAIN asked[ch] :
    LET a == asked[ch][i]  b == asked[ch][j] IN
    /\ i < j /\ SameQuestion(a, b)
    /\ (j - i) + (b.game - a.game) + (b.after - a.after) < CycleOf(b)
    => \/ CycleOf(a) # CycleOf(b)
       \/ a.game # b.game /\ (ch \in orphaned \/ ch \in uncounted)
=============================================================================
