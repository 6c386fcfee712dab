------------------------------ MODULE GameLife ------------------------------
(***************************************************************************)
(* What the bot relies on when it starts a game: nothing is put on its In  *)
(* before it runs, it reads In only while it runs, and it ends once and    *)
(* then says so once.  Game.tla implements it, and the games of Lobby.tla  *)
(* go through nothing else, so that Lobby may stand for any number of      *)
(* games as Game.tla has them.                                             *)
(***************************************************************************)
EXTENDS Integers

VARIABLES
  life,     \* "created", "started", "finished" or, once it has said so, "done"
  waiting,  \* messages in its In
  told      \* has it put its Finished message on Out?

vars == <<life, waiting, told>>

Init == life = "created" /\ waiting = 0 /\ told = FALSE

Begin == life = "created" /\ life' = "started" /\ UNCHANGED <<waiting, told>>

\* The bot does not look whether the game is over before it puts a message on In.
Put == life # "created" /\ waiting' = waiting + 1 /\ UNCHANGED <<life, told>>

Read ==
  /\ life = "started" /\ waiting > 0
  /\ waiting' = waiting - 1
  /\ UNCHANGED <<life, told>>

End == life = "started" /\ life' = "finished" /\ UNCHANGED <<waiting, told>>

Tell ==
  /\ life = "finished"
  /\ life' = "done" /\ told' = TRUE
  /\ UNCHANGED waiting

Next == Begin \/ Put \/ Read \/ End \/ Tell

Spec == Init /\ [][Next]_vars
=============================================================================
