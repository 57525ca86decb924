-------------------------------- MODULE MCParts --------------------------------
(***************************************************************************)
(* Every part of Parts on a small instance of its own.                      *)
(***************************************************************************)
EXTENDS Parts, TLC

CONSTANTS roomOne, roomTwo, oldLead, otherLead, trigger
MCRuleRoomOf == (oldLead :> roomOne) @@ (otherLead :> roomTwo) @@ (trigger :> roomTwo)

CONSTANTS hereHost, thereHost, chained, direct, looping, scripted
MCOrigin ==
    (chained :> hereHost) @@ (direct :> thereHost) @@ (looping :> hereHost) @@ (scripted :> thereHost)
MCAdapter ==
    (chained :> ((hereHost :> thereHost) @@ (thereHost :> "tmux")))
    @@ (direct :> ((hereHost :> "none") @@ (thereHost :> "tmux")))
    @@ (looping :> ((hereHost :> hereHost) @@ (thereHost :> "none")))
    @@ (scripted :> ((hereHost :> "none") @@ (thereHost :> "script")))

CONSTANTS intent, other, big, small
MCHostOf == (intent :> hereHost) @@ (other :> thereHost)
MCWanted == (intent :> big) @@ (other :> small)

CONSTANTS s1, s2
MCHardlinkSet == {{s1, s2}}

CONSTANTS task, author
MCAuthorOf == task :> author
=============================================================================
