---------------------------- MODULE MCRoomAutomation ----------------------------
(***************************************************************************)
(* Two rooms of which the second may be added later, a /lead command in      *)
(* each, and one message a rule matches.                                     *)
(***************************************************************************)
EXTENDS RoomAutomation, TLC

CONSTANTS roomOne, roomTwo, oldLead, otherLead, trigger

MCMessage == {oldLead, otherLead, trigger}
MCRoomOf == oldLead :> roomOne @@ otherLead :> roomTwo @@ trigger :> roomTwo
=============================================================================
