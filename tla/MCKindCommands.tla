---------------------------- MODULE MCKindCommands ----------------------------
(* Small instances of KindCommands for TLC. *)
EXTENDS KindCommands

Of(pipe, deaf, escaped) == [pipe |-> pipe, deaf |-> deaf, escaped |-> escaped]

\* Helpers that stay in the group: a log pipe kept open, with and without a deaf
\* ear for TERM, and a deaf one that redirected its output; and one that left for
\* a session of its own and keeps the pipe.
MCHelpers == {Of(TRUE, FALSE, FALSE), Of(TRUE, TRUE, FALSE), Of(FALSE, TRUE, FALSE),
              Of(TRUE, FALSE, TRUE)}
=============================================================================
