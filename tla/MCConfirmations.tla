-------------------------- MODULE MCConfirmations ---------------------------
(* Small instances of Confirmations for TLC. *)
EXTENDS Confirmations

CONSTANTS a, b, x, y

\* A plain request by one agent, one reserved for the owner, and a choice whose
\* answer a kind handler consumes.
MCShapes ==
    {[options |-> {},     human |-> FALSE, kind |-> FALSE, requester |-> a],
     [options |-> {},     human |-> TRUE,  kind |-> FALSE, requester |-> NoOne],
     [options |-> {x, y}, human |-> FALSE, kind |-> TRUE,  requester |-> b]}

MCPrincipals == {Owner, a, b}
=============================================================================
