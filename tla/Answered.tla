-------------------------------- MODULE Answered --------------------------------
(***************************************************************************)
(* How a decision is taken: the registry (Confirmations), and the poller    *)
(* that brings the answers tapped in a room (ChatReplyPoller, whose         *)
(* `decided` is the little of the registry it needs).  A behaviour is one   *)
(* of one part, chosen at the start, and the variables of the other stand   *)
(* still in one initial state.                                              *)
(***************************************************************************)
EXTENDS Confirmations

CONSTANTS Poller, Slot, NoSlot, Card, HolderOf, Sender, Owners, Person, Limit, MaxMessages, MaxReboots

VARIABLES part
VARIABLES room, decided, seen, primed, poll, busy, notices, born, reboots
roomVars == <<room, decided, seen, primed, poll, busy, notices, born, reboots>>
Room == INSTANCE ChatReplyPoller WITH
    Intent <- Card, MaxRestarts <- MaxReboots, restarts <- reboots

ASSUME RoomAssumption == Room!PollerAssumption

AnsweredInit == part \in {"room", "registry"} /\ Init /\ Room!Init

AnsweredNext ==
    \/ part = "room" /\ Room!Next /\ UNCHANGED <<part, vars>>
    \/ part = "registry" /\ Next /\ UNCHANGED <<part, roomVars>>

answeredVars == <<part, vars, roomVars>>
RoomStep(A) == part = "room" /\ A /\ UNCHANGED <<part, vars>>

\* The fairness of ChatReplyPoller.
AnsweredSpec ==
    /\ AnsweredInit /\ [][AnsweredNext]_answeredVars
    /\ \A p \in Poller, s \in Slot :
          /\ WF_answeredVars(RoomStep(Room!Tick(p, s))) /\ WF_answeredVars(RoomStep(Room!PollStep(p, s)))
          /\ SF_answeredVars(RoomStep(Room!RoomAnswers(p, s)))

OwnersSettle == Room!OwnersSettle
OneNotice == Room!OneNotice
TapLands == Room!TapLands
=============================================================================
