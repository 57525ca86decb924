------------------------------- MODULE SessionSend -------------------------------
(***************************************************************************)
(* POST /sessions/send: text for an agent's live session (src/session-      *)
(* send.mjs and its route in src/confirmations.mjs).  A daemon types it     *)
(* into a tmux session in two commands, hands it to a detached script, or   *)
(* forwards it to a peer daemon, which does the same; the hops are counted, *)
(* and a forward that takes too long is answered for, not called back.      *)
(***************************************************************************)
EXTENDS Naturals, Sequences

CONSTANTS Request, Daemon,
          Origin,   \* the daemon a request is sent to
          Adapter,  \* [Request -> [Daemon -> "tmux", "script", "none" or a peer]], by its agent
          MaxForwardHops,
          MaxKeys   \* key presses of others in the sessions

SendAssumption ==
    /\ Origin \in [Request -> Daemon] /\ {MaxForwardHops, MaxKeys} \subseteq Nat
    /\ Adapter \in [Request -> [Daemon -> {"tmux", "script", "none"} \cup Daemon]]

VARIABLES hops,      \* per request, the daemons it went through and where each of them is
          line,      \* what stands on the input line of each daemon's session
          submitted, \* requests whose text was submitted to the session
          spawned,   \* requests handed to a script
          cleared,   \* requests whose text somebody else's key took off the line
          keys
sendVars == <<hops, line, submitted, spawned, cleared, keys>>

Hop(d, s) == [at |-> d, is |-> s]
Answered == {"ok", "failed"}
States == Answered \cup {"received", "typed", "waiting"}

TypeOK ==
    /\ \A r \in Request : /\ hops[r] \in Seq([at : Daemon, is : States])
                          /\ Len(hops[r]) <= MaxForwardHops + 1
    /\ line \in [Daemon -> SUBSET Request]
    /\ {submitted, spawned, cleared} \subseteq SUBSET Request /\ keys \in 0..MaxKeys

Init ==
    /\ hops = [r \in Request |-> << >>] /\ line = [d \in Daemon |-> {}]
    /\ submitted = {} /\ spawned = {} /\ cleared = {} /\ keys = 0

Last(r) == Len(hops[r])
Is(r, k, s) == k \in 1..Last(r) /\ hops[r][k].is = s
Becomes(r, k, s) == hops' = [hops EXCEPT ![r][k].is = s]
How(r, k) == Adapter[r][hops[r][k].at]

Send(r) ==
    /\ hops[r] = << >> /\ hops' = [hops EXCEPT ![r] = <<Hop(Origin[r], "received")>>]
    /\ UNCHANGED <<line, submitted, spawned, cleared, keys>>

\* Nothing is configured, or the hop limit is reached: refused.
Refuse(r, k) ==
    /\ Is(r, k, "received")
    /\ How(r, k) = "none" \/ (How(r, k) \in Daemon /\ k > MaxForwardHops)
    /\ Becomes(r, k, "failed")
    /\ UNCHANGED <<line, submitted, spawned, cleared, keys>>

\* A detached script: accepted once it is spawned, whatever becomes of it.
Spawn(r, k) ==
    /\ Is(r, k, "received") /\ How(r, k) = "script"
    /\ \/ Becomes(r, k, "ok") /\ spawned' = spawned \cup {r}
       \/ Becomes(r, k, "failed") /\ UNCHANGED spawned
    /\ UNCHANGED <<line, submitted, cleared, keys>>

\* The first tmux command types the text.
Type(r, k) ==
    /\ Is(r, k, "received") /\ How(r, k) = "tmux"
    /\ \/ /\ Becomes(r, k, "typed")
          /\ line' = [line EXCEPT ![hops[r][k].at] = @ \cup {r}]
       \/ Becomes(r, k, "failed") /\ UNCHANGED line
    /\ UNCHANGED <<submitted, spawned, cleared, keys>>

\* The second submits the line, with whatever else stands on it; if it fails the text stays.
Submit(r, k) ==
    /\ Is(r, k, "typed")
    /\ LET d == hops[r][k].at IN
       \/ /\ submitted' = submitted \cup line[d] /\ line' = [line EXCEPT ![d] = {}]
          /\ Becomes(r, k, "ok")
       \/ Becomes(r, k, "failed") /\ UNCHANGED <<submitted, line>>
    /\ UNCHANGED <<spawned, cleared, keys>>

\* To the peer, who receives it one hop further, or cannot be reached.
Forward(r, k) ==
    /\ Is(r, k, "received") /\ How(r, k) \in Daemon /\ k <= MaxForwardHops
    /\ hops' \in {[hops EXCEPT ![r] = Append([@ EXCEPT ![k].is = "waiting"], Hop(How(r, k), "received"))],
                  [hops EXCEPT ![r][k].is = "failed"]}
    /\ UNCHANGED <<line, submitted, spawned, cleared, keys>>

\* Mutant of Return: any answer of the peer counts as a delivery.
Return_AnyAnswer(r, k) ==
    /\ Is(r, k, "waiting") /\ hops[r][k + 1].is \in Answered
    /\ Becomes(r, k, "ok")
    /\ UNCHANGED <<line, submitted, spawned, cleared, keys>>

\* The peer's answer: 202 with ok is one, and its answer can be lost.
Return(r, k) ==
    /\ Is(r, k, "waiting") /\ hops[r][k + 1].is \in Answered
    /\ \E s \in {hops[r][k + 1].is, "failed"} : Becomes(r, k, s)
    /\ UNCHANGED <<line, submitted, spawned, cleared, keys>>

\* Eight seconds are over: answered as failed, and the peer goes on.
GivesUp(r, k) ==
    /\ Is(r, k, "waiting") /\ Becomes(r, k, "failed")
    /\ UNCHANGED <<line, submitted, spawned, cleared, keys>>

\* A person, or a poller's Escape, at the session: the line is cleared.
Keys(d) ==
    /\ keys < MaxKeys /\ keys' = keys + 1 /\ line[d] # {}
    /\ cleared' = cleared \cup line[d] /\ line' = [line EXCEPT ![d] = {}]
    /\ UNCHANGED <<hops, submitted, spawned>>

Next ==
    \/ \E r \in Request : Send(r)
    \/ \E r \in Request, k \in 1..MaxForwardHops + 1 :
           Refuse(r, k) \/ Spawn(r, k) \/ Type(r, k) \/ Submit(r, k)
    \/ \E r \in Request, k \in 1..MaxForwardHops : Forward(r, k) \/ Return(r, k) \/ GivesUp(r, k)
    \/ \E d \in Daemon : Keys(d)
SendSpec == Init /\ [][Next]_sendVars

-----------------------------------------------------------------------------
(* Properties *)

\* A sender is told that its text was delivered, through any chain of peers, only if it
\* was submitted to the session or handed to a script; a text is on a line, submitted,
\* cleared away or gone to a script, and in one of these places only.
DeliveredMeansSubmitted ==
    /\ \A r \in Request : Is(r, 1, "ok") => r \in submitted \cup spawned \cup cleared
    /\ \A r \in Request, d \in Daemon : r \in line[d] => r \notin submitted \cup spawned \cup cleared
=============================================================================
