-------------------------------- MODULE Decided --------------------------------
(***************************************************************************)
(* What the daemon does around a decision: the announcing of its card       *)
(* (Announcements) and the merge its answer starts (ActionRequests).  They  *)
(* share no state: a behaviour is one of one part, chosen at the start, and *)
(* the variables of the other stand still in one initial state.             *)
(***************************************************************************)
EXTENDS ActionRequests

CONSTANTS Channels, Configured

VARIABLES part
VARIABLES phase, hook, next, inFlight, records, landed
cardVars == <<phase, hook, next, inFlight, records, landed>>
Cards == INSTANCE Announcements

ASSUME CardsAssumption == Cards!ChannelsAssumption

DecidedInit ==
    /\ part \in {"actions", "cards"}
    /\ Init /\ Cards!Init
    /\ part # "cards" => hook = "composed"

DecidedNext ==
    \/ part = "actions" /\ Next /\ UNCHANGED <<part, cardVars>>
    \/ part = "cards" /\ Cards!Next /\ UNCHANGED <<part, vars>>

decidedVars == <<part, vars, cardVars>>
ActionStep(A) == part = "actions" /\ A /\ UNCHANGED <<part, cardVars>>
CardStep(A) == part = "cards" /\ A /\ UNCHANGED <<part, vars>>

\* The fairness of the two modules.
DecidedFairness ==
    /\ \A q \in Request : WF_decidedVars(ActionStep(ExecutorStep(q)))
    /\ WF_decidedVars(CardStep(Cards!CreateIntent)) /\ WF_decidedVars(CardStep(Cards!TakeChannel))
    /\ WF_decidedVars(CardStep(Cards!HookEnds))
    /\ WF_decidedVars(CardStep(\E status \in Cards!Settled : Cards!AnnouncerEnds(status)))

DecidedSpec == DecidedInit /\ [][DecidedNext]_decidedVars /\ DecidedFairness

SummaryHonest == Cards!SummaryHonest
EveryChannelReported == Cards!EveryChannelReported
=============================================================================
