--------------------------------- MODULE Device ---------------------------------
(***************************************************************************)
(* What happens on one machine: the owner's commands (KindCommands) and     *)
(* what its card claims about its models (ModelClaims).  They share no      *)
(* state: a behaviour is one of one part, chosen at the start, and the      *)
(* variables of the other stand still in one initial state.                 *)
(***************************************************************************)
EXTENDS KindCommands

CONSTANTS Model, NoModel, Order, Shards, ShardSize, Downloaded, Counted, Budget, Reserve, Loads, OwnMemory,
          Catalogue, Configured, Stale, MaxChanges

VARIABLES part
VARIABLES here, coming, other, loaded, scan, scanned, probe, served, sinceAsked, past, changes
claimVars == <<here, coming, other, loaded, scan, scanned, probe, served, sinceAsked, past, changes>>
Claims == INSTANCE ModelClaims

ASSUME ModelAssumption == Claims!ClaimsAssumption

DeviceInit ==
    /\ part \in {"commands", "claims"}
    /\ Init /\ Claims!Init
    /\ part # "claims" => here = CHOOSE h \in Downloaded : TRUE

DeviceNext ==
    \/ part = "commands" /\ Next /\ UNCHANGED <<part, claimVars>>
    \/ part = "claims" /\ Claims!Next /\ UNCHANGED <<part, vars>>

deviceVars == <<part, vars, claimVars>>
CommandStep(A) == part = "commands" /\ A /\ UNCHANGED <<part, claimVars>>
ClaimsStep(A) == part = "claims" /\ A /\ UNCHANGED <<part, vars>>

\* The fairness of the two modules.
DeviceSpec ==
    /\ DeviceInit /\ [][DeviceNext]_deviceVars
    /\ \A i \in Card :
          /\ WF_deviceVars(CommandStep(Spawn(i))) /\ WF_deviceVars(CommandStep(Close(i)))
          /\ WF_deviceVars(CommandStep(Report(i)))
          /\ WF_deviceVars(CommandStep(Timeout(i))) /\ WF_deviceVars(CommandStep(GraceEnds(i)))
    /\ WF_deviceVars(ClaimsStep(Claims!Tick)) /\ WF_deviceVars(ClaimsStep(Claims!ScanStep))
    /\ SF_deviceVars(ClaimsStep(Claims!Answered)) /\ WF_deviceVars(ClaimsStep(Claims!NoToken))
    /\ SF_deviceVars(ClaimsStep(Claims!TokenReturned))

ClaimsBacked == Claims!ClaimsBacked
ServedShown == Claims!ServedShown
=============================================================================
