-------------------------------- MODULE MCProgress --------------------------------
(***************************************************************************)
(* What has to get somewhere: messages through the room poller and model    *)
(* switches through the switcher.  They share no state: a behaviour is one  *)
(* of one part, chosen at the start, and the variables of the other stand   *)
(* still in one initial state.                                              *)
(***************************************************************************)
EXTENDS RoomPoller, TLC

CONSTANTS request, later, NoRequest, big, small, NoModel, MaxMishaps

VARIABLES part
VARIABLES slot, ledger, book, step, req, verdict, chooser, posts, shown, told, filed, aged, overdue, mishaps
switchVars == <<slot, ledger, book, step, req, verdict, chooser, posts, shown, told, filed, aged, overdue,
                mishaps>>
Switcher == INSTANCE ModelSwitcher WITH
    Request <- {request, later}, Name <- {big, small}, Wanted <- (request :> big) @@ (later :> small)

MCInit ==
    /\ part \in {"rooms", "switcher"}
    /\ Init /\ Switcher!Init
    /\ part = "switcher" => room = << >>

MCNext ==
    \/ part = "rooms" /\ Next /\ UNCHANGED <<part, switchVars>>
    \/ part = "switcher" /\ Switcher!Next /\ UNCHANGED <<part, vars>>

MCVars == <<part, vars, switchVars>>
RoomStep(A) == part = "rooms" /\ A /\ UNCHANGED <<part, switchVars>>
SwitcherStep(A) == part = "switcher" /\ A /\ UNCHANGED <<part, vars>>

\* The fairness of the two modules; of two parts only one ever moves, so a single
\* condition is fair to a step of either.
MCSpec ==
    /\ MCInit /\ [][MCNext]_MCVars
    /\ WF_MCVars(RoomStep(PollStep) \/ SwitcherStep(Switcher!PollStep))
    /\ WF_MCVars(RoomStep(ReadNotes) \/ SwitcherStep(Switcher!GetsOverdue(request)))
    /\ WF_MCVars(RoomStep(ClearNotes) \/ SwitcherStep(Switcher!GetsOverdue(later)))
    /\ WF_MCVars(RoomStep(CooldownEnds))
    /\ SF_MCVars(RoomStep(PollRooms /\ batch' # << >>))

ASSUME Switcher!SwitcherAssumption

RequestSettles == Switcher!RequestSettles
=============================================================================
