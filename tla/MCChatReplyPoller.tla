--------------------------- MODULE MCChatReplyPoller ---------------------------
(* Small instances of ChatReplyPoller for TLC. *)
EXTENDS ChatReplyPoller, TLC

CONSTANTS here, there, i1, owner, tablet, agent

\* Both daemons poll the room; one holds the intent.
MCHolderOf == i1 :> here
=============================================================================
