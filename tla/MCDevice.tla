-------------------------------- MODULE MCDevice --------------------------------
(* Both parts of Device on a small instance. *)
EXTENDS Device, TLC

Of(pipe, deaf, escaped) == [pipe |-> pipe, deaf |-> deaf, escaped |-> escaped]
\* Helpers that stay in the group: a log pipe kept open, with and without a deaf
\* ear for TERM, and a deaf one that redirected its output; and one that left for
\* a session of its own and keeps the pipe.
MCHelpers == {Of(TRUE, FALSE, FALSE), Of(TRUE, TRUE, FALSE), Of(FALSE, TRUE, FALSE),
              Of(TRUE, FALSE, TRUE)}

CONSTANTS big, small
\* A model of two files, the second of which may be missing, and one of a single file.
MCOrder == <<big, small>>
MCShards == (big :> 2) @@ (small :> 1)
MCShardSize == (big :> 2) @@ (small :> 2)
MCDownloaded == {(big :> b) @@ (small :> {1}) : b \in {{1}, {1, 2}}}
=============================================================================
