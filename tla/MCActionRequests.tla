--------------------------- MODULE MCActionRequests ---------------------------
(* Small instances of ActionRequests for TLC. *)
EXTENDS ActionRequests, TLC

CONSTANTS q1, q2, q3, n1, n2

\* Two merges that share a nonce, and a deployment under a nonce of its own.
MCNonceOf == (q1 :> n1) @@ (q2 :> n1) @@ (q3 :> n2)
=============================================================================
