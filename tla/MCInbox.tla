-------------------------------- MODULE MCInbox --------------------------------
(***************************************************************************)
(* Chats for Inbox.                                                        *)
(***************************************************************************)
EXTENDS Inbox

CONSTANTS a, b

TwoChats == {a, b}
=============================================================================
