------------------------------- MODULE MCLobby -------------------------------
(***************************************************************************)
(* Chats for Lobby: one group that may become a supergroup.                *)
(***************************************************************************)
EXTENDS Lobby, TLC

CONSTANTS group, super   \* the chat's ID before and after the upgrade

OneGroup == {group}
ToSuper == group :> super
Symmetry == Permutations(Player)
=============================================================================
