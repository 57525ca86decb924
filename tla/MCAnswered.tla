------------------------------- MODULE MCAnswered -------------------------------
(***************************************************************************)
(* Both parts of Answered on a small instance: a disk that does not fail,   *)
(* and two daemons that poll the room, one of which holds the intent.  The  *)
(* owner taps, and a person who only resembles one.                         *)
(***************************************************************************)
EXTENDS Answered, MCConfirmations, TLC

CONSTANTS holder, card
MCHolderOf == card :> holder
=============================================================================
