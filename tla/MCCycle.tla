------------------------------- MODULE MCCycle -------------------------------
(***************************************************************************)
(* Chats for QuestionCycle: one group, which stays one; lobby_migrated has *)
(* what an upgrade does, and CycleProofs does without this bound.          *)
(***************************************************************************)
EXTENDS QuestionCycle, TLC

CONSTANTS group, super   \* the chat's ID before and after the upgrade

NotGiven == -1
OwnLimit == {3}   \* the default is 4 of the 5 questions
StaysGroup == upgraded = {}
OneGroup == {group}
ToSuper == group :> super
Symmetry == Permutations(Player)
=============================================================================
