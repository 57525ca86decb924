-------------------------- MODULE DecisionRegister --------------------------
(***************************************************************************)
(* What the confirmation registry promises, free of processes, files and   *)
(* crashes: an intent is raised once, answered at most once by somebody in *)
(* authority at that moment, and an answer or an appointment, once given,  *)
(* is never forgotten.  Confirmations.tla is shown to implement it.        *)
(***************************************************************************)
CONSTANTS Intent,    \* ids of confirmation intents
          Answer,    \* every answer an intent may offer
          Handle,    \* identities that may act
          Owner,     \* the human owner, a member of Handle
          NoOne,     \* nobody: an empty post
          NoAnswer   \* an intent without an answer

VARIABLES raised,   \* intents raised so far
          verdict,  \* the answer to each intent and who gave it
          post      \* who holds the team lead's post, and who appointed them

registerVars == <<raised, verdict, post>>

Verdict(answer, who) == [answer |-> answer, by |-> who]
Lead(handle, who) == [handle |-> handle, by |-> who]
Vacant == Lead(NoOne, NoOne)

RegisterInit ==
    /\ raised = {}
    /\ verdict = [i \in Intent |-> Verdict(NoAnswer, NoOne)]
    /\ post = Vacant

InAuthority(who) == who = Owner \/ who = post.handle

Raise(i) ==
    /\ i \notin raised
    /\ raised' = raised \cup {i}
    /\ UNCHANGED <<verdict, post>>

Settle(i, answer, who) ==
    /\ i \in raised /\ verdict[i].answer = NoAnswer
    /\ InAuthority(who)
    /\ verdict' = [verdict EXCEPT ![i] = Verdict(answer, who)]
    /\ UNCHANGED <<raised, post>>

\* Only the owner fills an empty post; whoever sits may hand over or leave,
\* but not name itself.
Appoint(who, next) ==
    /\ InAuthority(who)
    /\ who = Owner \/ next # who
    /\ post' = IF next = NoOne THEN Vacant ELSE Lead(next, who)
    /\ UNCHANGED <<raised, verdict>>

RegisterNext ==
    \/ \E i \in Intent : Raise(i)
    \/ \E i \in Intent, answer \in Answer, who \in Handle : Settle(i, answer, who)
    \/ \E who \in Handle, next \in Handle \cup {NoOne} : Appoint(who, next)

RegisterSpec == RegisterInit /\ [][RegisterNext]_registerVars
=============================================================================
