-------------------------------- MODULE MCDecided -------------------------------
(***************************************************************************)
(* Both parts of Decided on a small instance and, beside them, the registry *)
(* they hang on, with a disk that fails.  A behaviour is one of one side,   *)
(* chosen at the start.                                                     *)
(***************************************************************************)
EXTENDS Decided, TLC

CONSTANTS q1, q2, q3, n1, n2
\* Two merges that share a nonce, and a deployment under a nonce of its own.
MCNonceOf == (q1 :> n1) @@ (q2 :> n1) @@ (q3 :> n2)

\* The daemon has no announcer for the last channel.
CONSTANTS groupmind, codewatch, pager
MCChannels == <<groupmind, codewatch, pager>>

CONSTANTS a, b, x, y
\* A plain request by one agent, one reserved for the owner, and a choice whose
\* answer a kind handler consumes.
MCShapes ==
    {[options |-> {},     human |-> FALSE, kind |-> FALSE, requester |-> a],
     [options |-> {},     human |-> TRUE,  kind |-> FALSE, requester |-> NoOne],
     [options |-> {x, y}, human |-> FALSE, kind |-> TRUE,  requester |-> b]}
MCPrincipals == {Owner, a, b}

CONSTANTS Intent, Agent, Waiter, NoAnswer, NoIntent, Shapes, Principals, Faults, MaxFaults, MaxRestarts
VARIABLES side
VARIABLES up, intents, teamLead, resolvers, announcing, kindQueue, disk, torn, faults, restarts, used,
          outcome, handled
registryVars == <<up, intents, teamLead, resolvers, announcing, kindQueue, disk, torn, faults, restarts, used,
                  outcome, handled>>
Registry == INSTANCE Confirmations

MCInit ==
    /\ side \in {"registry", "decided"}
    /\ Registry!Init /\ DecidedInit
    /\ side = "registry" => part = "actions"

MCNext ==
    \/ side = "registry" /\ Registry!Next /\ UNCHANGED <<side, decidedVars>>
    \/ side = "decided" /\ DecidedNext /\ UNCHANGED <<side, registryVars>>

MCVars == <<side, decidedVars, registryVars>>

\* The side that stands still enables nothing its fairness asks for.
MCSpec == MCInit /\ [][MCNext]_MCVars /\ DecidedFairness /\ Registry!Fairness

\* Whoever decided an intent was allowed to, in memory and on the failing disk alike.
AuthorisedDecisions == Registry!AuthorisedDecisions
\* A caller of waitForDecision is parked exactly while its intent is open.
NoStrandedWaiter == Registry!NoStrandedWaiter
\* While the daemon runs no step changes a decision, whatever the disk has lost.
DecisionFinal == Registry!DecisionFinal
\* A parked caller is told the decision, or that it timed out, or dies with the daemon.
WaiterReleased == Registry!WaiterReleased
=============================================================================
