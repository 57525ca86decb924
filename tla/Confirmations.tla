---------------------------- MODULE Confirmations ----------------------------
(***************************************************************************)
(* The confirmation registry of src/src/confirmations.mjs: intents raised  *)
(* by agents and decided by the human owner or by the team lead, callers   *)
(* waiting for the decision, and the append-only state file the registry   *)
(* is rebuilt from when the daemon restarts.                               *)
(*                                                                         *)
(* The state file is represented by what replaying it would give (the last *)
(* readable row of each intent and of the lead wins) and by whether its    *)
(* last line is an unterminated fragment.  An append ends in one of the    *)
(* ways appendFileSync can end; all but "written" are environment faults,  *)
(* of which a behaviour has at most MaxFaults:                             *)
(*   "written"  the whole line is on disk                                  *)
(*   "failed"   nothing is; appendState swallows the error                 *)
(*   "torn"     part of the line is (a full disk); the error is swallowed  *)
(*   "cut"      part of the line is, and the process was killed            *)
(***************************************************************************)
EXTENDS Naturals

CONSTANTS Intent, Agent, Owner, NoOne, Waiter,
          NoAnswer,     \* "no decision yet"
          NoIntent,     \* a waiter that never called
          Shapes,       \* the kinds of intent raised: see Shape
          Principals,   \* handles with a per-agent token; {} is legacy mode
          Faults,       \* fault outcomes an append may have
          MaxFaults, MaxRestarts

Handle == Agent \cup {Owner}
Confirm == {"approve", "deny"}
Label == UNION {s.options : s \in Shapes}
Answer == Confirm \cup Label

\* What the requester fixes: the options of a choice (none: approve/deny),
\* whether it is reserved for the owner, whether a kind handler consumes the
\* answer, and who asks.
Shape == [options : SUBSET Label, human : BOOLEAN, kind : BOOLEAN,
          requester : Handle \cup {NoOne}]

ASSUME ConfirmationsAssumption ==
    /\ Owner \notin Agent /\ NoOne \notin Handle
    /\ NoAnswer \notin Answer /\ NoIntent \notin Intent
    /\ Shapes \subseteq Shape
    /\ Principals \subseteq Handle
    /\ Faults \subseteq {"failed", "torn", "cut"}
    /\ MaxFaults \in Nat /\ MaxRestarts \in Nat

VARIABLES up,          \* the daemon is running
          intents,     \* the registry Map
          teamLead,    \* the sitting lead, and who appointed it
          resolvers,   \* callers parked in waitForDecision, per intent
          announcing,  \* intents whose createIntent still awaits announce()
          kindQueue,   \* intents whose kind handler is about to start
          disk,        \* what replaying the state file gives
          torn,        \* the state file ends in a fragment with no newline
          faults, restarts,
          used,        \* ids handed out so far (they are random, never reused)
          outcome,     \* what each caller of waitForDecision was told
          handled      \* how often the kind handler of an intent ran

memory == <<intents, teamLead, resolvers, announcing, kindQueue>>
file == <<disk, torn, faults>>
vars == <<up, memory, file, restarts, used, outcome, handled>>

-----------------------------------------------------------------------------
(* Types *)

Decision == Answer \cup {NoAnswer}
Record == [status : {"absent", "pending", "decided"}, shape : Shape,
           decision : Decision, by : Handle \cup {NoOne},
           role : {"none", "owner", "lead"}]

NoShape == [options |-> {}, human |-> FALSE, kind |-> FALSE, requester |-> NoOne]
Blank(status, shape) ==
    [status |-> status, shape |-> shape, decision |-> NoAnswer, by |-> NoOne,
     role |-> "none"]
Absent == Blank("absent", NoShape)
NoIntents == [i \in Intent |-> Absent]

Lead == [handle : Handle \cup {NoOne}, by : Handle \cup {NoOne}]
NoLead == [handle |-> NoOne, by |-> NoOne]

Outcome == [st : {"idle", "waiting", "unknown", "timeout", "lost", "decided"},
            on : Intent \cup {NoIntent}, answer : Decision]
Told(st, i, answer) == [st |-> st, on |-> i, answer |-> answer]

TypeOK ==
    /\ up \in BOOLEAN
    /\ intents \in [Intent -> Record]
    /\ teamLead \in Lead
    /\ resolvers \in [Intent -> SUBSET Waiter]
    /\ announcing \subseteq Intent /\ kindQueue \subseteq Intent
    /\ disk \in [intents : [Intent -> Record], lead : Lead]
    /\ torn \in BOOLEAN
    /\ faults \in Nat /\ restarts \in Nat
    /\ used \subseteq Intent
    /\ outcome \in [Waiter -> Outcome]
    /\ handled \in [Intent -> Nat]

-----------------------------------------------------------------------------
(* The state file *)

Endings == {"written"} \cup (IF faults < MaxFaults THEN Faults ELSE {})

\* appendState, for a row after which replay would give d.  A row appended
\* behind a fragment shares its line: JSON.parse rejects it and replay skips it.
AppendState(end, d) ==
    /\ disk' = IF end = "written" /\ ~torn THEN d ELSE disk
    /\ torn' = (end \in {"torn", "cut"} \/ (end = "failed" /\ torn))
    /\ faults' = IF end = "written" THEN faults ELSE faults + 1

PersistIntent(end, i, r) == AppendState(end, [disk EXCEPT !.intents[i] = r])

\* The process is gone: so is everything that was only in memory, and a caller
\* parked in waitForDecision never hears back.
Die ==
    /\ up' = FALSE
    /\ intents' = NoIntents
    /\ teamLead' = NoLead
    /\ resolvers' = [i \in Intent |-> {}]
    /\ announcing' = {}
    /\ kindQueue' = {}
    /\ outcome' = [w \in Waiter |->
                      IF outcome[w].st = "waiting"
                      THEN Told("lost", outcome[w].on, NoAnswer) ELSE outcome[w]]

Init ==
    /\ up = TRUE
    /\ intents = NoIntents
    /\ teamLead = NoLead
    /\ resolvers = [i \in Intent |-> {}]
    /\ announcing = {}
    /\ kindQueue = {}
    /\ disk = [intents |-> NoIntents, lead |-> NoLead]
    /\ torn = FALSE
    /\ faults = 0 /\ restarts = 0
    /\ used = {}
    /\ outcome = [w \in Waiter |-> Told("idle", NoIntent, NoAnswer)]
    /\ handled = [i \in Intent |-> 0]

Crash == up /\ Die /\ UNCHANGED <<file, restarts, used, handled>>

\* Mutant of LoadPersistedState: Lead rows are written but skipped by the replay.
LoadPersistedState_SkipsLead ==
    /\ ~up /\ restarts < MaxRestarts
    /\ up' = TRUE
    /\ intents' = disk.intents
    /\ restarts' = restarts + 1
    /\ UNCHANGED <<teamLead, resolvers, announcing, kindQueue, file, used, outcome,
                   handled>>

\* loadPersistedState, called before the listener opens.
LoadPersistedState ==
    /\ ~up /\ restarts < MaxRestarts
    /\ up' = TRUE
    /\ intents' = disk.intents
    /\ teamLead' = disk.lead
    /\ restarts' = restarts + 1
    /\ UNCHANGED <<resolvers, announcing, kindQueue, file, used, outcome, handled>>

-----------------------------------------------------------------------------
(* Raising an intent *)

\* createIntent up to its await: registered, written, announce() started.
CreateIntent(i, shape) ==
    /\ up /\ i \notin used
    /\ used' = used \cup {i}
    /\ \E end \in Endings :
          /\ PersistIntent(end, i, Blank("pending", shape))
          /\ \/ end = "cut" /\ Die
             \/ /\ end # "cut"
                /\ intents' = [intents EXCEPT ![i] = Blank("pending", shape)]
                /\ announcing' = announcing \cup {i}
                /\ UNCHANGED <<up, teamLead, resolvers, kindQueue, outcome>>
    /\ UNCHANGED <<restarts, handled>>

\* recordAnnouncement: a channel reported, and the whole intent, as it is by
\* now, is written again.  (The records themselves are in Announcements.tla.)
RecordAnnouncement(i) ==
    /\ up /\ i \in announcing
    /\ \E end \in Endings :
          /\ PersistIntent(end, i, intents[i])
          /\ \/ end = "cut" /\ Die
             \/ end # "cut" /\ UNCHANGED <<up, memory, outcome>>
    /\ UNCHANGED <<restarts, used, handled>>

AnnounceReturns(i) ==
    /\ up /\ i \in announcing
    /\ announcing' = announcing \ {i}
    /\ UNCHANGED <<up, intents, teamLead, resolvers, kindQueue, file, restarts,
                   used, outcome, handled>>

-----------------------------------------------------------------------------
(* Deciding an intent *)

\* The HTTP routes act for the principal a token proves.  Without one, a
\* daemon that has no principals takes the caller for the owner; every other
\* daemon refuses.
HttpActor(principal) ==
    IF principal = NoOne /\ Principals = {} THEN Owner ELSE principal

\* Who decideIntent may be called for: the HTTP route's actor, or the owner,
\* for whom the chat poller and the MCP tools call it.
Actors == {HttpActor(p) : p \in Principals \cup {NoOne}} \cup {Owner}

\* Mutant of CanDecide: No check that a lead does not clear its own request.
CanDecide_SelfApproval(r, who) ==
    CASE who = Owner -> "owner"
      [] who \in Agent /\ ~r.shape.human /\ who = teamLead.handle -> "lead"
      [] OTHER -> "none"

\* canDecide: the role in which who may decide r, "none" when refused.
CanDecide(r, who) ==
    CASE who = Owner -> "owner"
      [] /\ who \in Agent
         /\ ~r.shape.human
         /\ who = teamLead.handle
         /\ who # r.shape.requester -> "lead"
      [] OTHER -> "none"

Legal(r) == IF r.shape.options = {} THEN Confirm ELSE r.shape.options

Decided(r, answer, who) ==
    [r EXCEPT !.status = "decided", !.decision = answer, !.by = who,
              !.role = CanDecide(r, who)]

\* Mutant of Resolve: The waiters are told but stay on the list.
Resolve_Keeps(i, answer) ==
    /\ outcome' = [w \in Waiter |-> IF w \in resolvers[i]
                                    THEN Told("decided", i, answer) ELSE outcome[w]]
    /\ UNCHANGED resolvers

Resolve(i, answer) ==
    /\ outcome' = [w \in Waiter |-> IF w \in resolvers[i]
                                    THEN Told("decided", i, answer) ELSE outcome[w]]
    /\ resolvers' = [resolvers EXCEPT ![i] = {}]

\* Mutant of Decidable: No check that the intent is still pending.
Decidable_Again(r, answer, who) ==
    r.status # "absent" /\ answer \in Legal(r) /\ CanDecide(r, who) # "none"

\* An answer to an unknown or a decided intent, an answer that was not offered
\* and an actor canDecide refuses all change nothing.
Decidable(r, answer, who) ==
    r.status = "pending" /\ answer \in Legal(r) /\ CanDecide(r, who) # "none"

DecideIntent(i, answer, who) ==
    /\ up
    /\ Decidable(intents[i], answer, who)
    /\ LET r == Decided(intents[i], answer, who) IN
       \E end \in Endings :
          /\ PersistIntent(end, i, r)
          /\ \/ end = "cut" /\ Die
             \/ /\ end # "cut"
                /\ intents' = [intents EXCEPT ![i] = r]
                /\ Resolve(i, answer)
                /\ kindQueue' = IF r.shape.kind THEN kindQueue \cup {i} ELSE kindQueue
                /\ UNCHANGED <<up, teamLead, announcing>>
    /\ UNCHANGED <<restarts, used, handled>>

\* The handler decideIntent queued as a microtask starts.
KindHandlerStarts(i) ==
    /\ up /\ i \in kindQueue
    /\ kindQueue' = kindQueue \ {i}
    /\ handled' = [handled EXCEPT ![i] = @ + 1]
    /\ UNCHANGED <<up, intents, teamLead, resolvers, announcing, file, restarts,
                   used, outcome>>

-----------------------------------------------------------------------------
(* The team lead *)

\* Mutant of MaySetLead: Any identified caller may name another lead.
MaySetLead_Anyone(target, who) == who # NoOne /\ (who = Owner \/ target # who)

MaySetLead(target, who) ==
    who # NoOne /\ (who = Owner \/ (who = teamLead.handle /\ target # who))

\* A post that is cleared records nobody.
Appointed(target, who) ==
    IF target = NoOne THEN NoLead ELSE [handle |-> target, by |-> who]

SetLead(target, who) ==
    /\ up
    /\ MaySetLead(target, who)
    /\ \E end \in Endings :
          /\ AppendState(end, [disk EXCEPT !.lead = Appointed(target, who)])
          /\ \/ end = "cut" /\ Die
             \/ /\ end # "cut"
                /\ teamLead' = Appointed(target, who)
                /\ UNCHANGED <<up, intents, resolvers, announcing, kindQueue, outcome>>
    /\ UNCHANGED <<restarts, used, handled>>

-----------------------------------------------------------------------------
(* Waiting for a decision *)

WaitForDecision(w, i) ==
    /\ up /\ outcome[w].st = "idle"
    /\ LET r == intents[i] IN
       outcome' = [outcome EXCEPT ![w] =
          Told(CASE r.status = "absent"  -> "unknown"
                 [] r.status = "decided" -> "decided"
                 [] OTHER                -> "waiting", i, r.decision)]
    /\ resolvers' = IF intents[i].status = "pending"
                    THEN [resolvers EXCEPT ![i] = @ \cup {w}] ELSE resolvers
    /\ UNCHANGED <<up, intents, teamLead, announcing, kindQueue, file, restarts,
                   used, handled>>

\* Mutant of WaiterTimeout: The timer takes the resolver off the list and forgets to resolve.
WaiterTimeout_Silent(w) ==
    /\ up
    /\ \E i \in Intent :
          /\ w \in resolvers[i]
          /\ resolvers' = [resolvers EXCEPT ![i] = @ \ {w}]
    /\ UNCHANGED <<up, intents, teamLead, announcing, kindQueue, file, restarts,
                   used, outcome, handled>>

\* The waiter's timer fires and takes its resolver off the list.
WaiterTimeout(w) ==
    /\ up
    /\ \E i \in Intent :
          /\ w \in resolvers[i]
          /\ resolvers' = [resolvers EXCEPT ![i] = @ \ {w}]
          /\ outcome' = [outcome EXCEPT ![w] = Told("timeout", i, NoAnswer)]
    /\ UNCHANGED <<up, intents, teamLead, announcing, kindQueue, file, restarts,
                   used, handled>>

-----------------------------------------------------------------------------

Next ==
    \/ Crash
    \/ LoadPersistedState
    \/ \E i \in Intent, shape \in Shapes : CreateIntent(i, shape)
    \/ \E i \in Intent : RecordAnnouncement(i)
    \/ \E i \in Intent : AnnounceReturns(i)
    \/ \E i \in Intent, answer \in Answer, who \in Actors :
          DecideIntent(i, answer, who)
    \/ \E i \in Intent : KindHandlerStarts(i)
    \/ \E target \in Handle \cup {NoOne}, p \in Principals : SetLead(target, p)
    \/ \E w \in Waiter, i \in Intent : WaitForDecision(w, i)
    \/ \E w \in Waiter : WaiterTimeout(w)

\* A started handler runs and a set timer fires: the event loop sees to both.
Fairness ==
    /\ \A w \in Waiter : WF_vars(WaiterTimeout(w))
    /\ \A i \in Intent : WF_vars(KindHandlerStarts(i))

Spec == Init /\ [][Next]_vars /\ Fairness

-----------------------------------------------------------------------------
(* Properties *)

\* Whoever decided an intent was allowed to, and gave one of its own answers:
\* an agent never decides what is reserved for the owner nor what it asked for
\* itself, whatever was lost from the state file and replayed since.
Authorised(r) ==
    r.status = "decided" =>
        /\ r.decision \in Legal(r)
        /\ \/ r.by = Owner /\ r.role = "owner"
           \/ /\ r.by \in Agent /\ r.role = "lead"
              /\ ~r.shape.human /\ r.by # r.shape.requester
AuthorisedDecisions ==
    \A i \in Intent : Authorised(intents[i]) /\ Authorised(disk.intents[i])

\* A caller parked in waitForDecision is parked exactly on an intent that is
\* still open: no decision passes a waiter by, no resolver is left behind.
NoStrandedWaiter ==
    \A w \in Waiter, i \in Intent :
        /\ w \in resolvers[i] <=> (outcome[w].st = "waiting" /\ outcome[w].on = i)
        /\ w \in resolvers[i] => up /\ intents[i].status = "pending"

\* While the daemon runs, a decided intent never changes again: not its answer,
\* not who decided it, whatever the disk does.
DecisionFinal ==
    [][\A i \in Intent : up /\ up' /\ intents[i].status = "decided"
                            => intents'[i] = intents[i]]_vars

\* "Skip it and keep the rest": while the daemon runs, replaying its state file
\* would give exactly the registry it has in memory.
FileAgrees == up => disk.intents = intents /\ disk.lead = teamLead

\* The consumer of a kind-tagged intent runs at most once for it, across
\* restarts, and only for an answer that is on record.
HandlerOnce ==
    \A i \in Intent :
        /\ handled[i] + (IF i \in kindQueue THEN 1 ELSE 0) <= 1
        /\ handled[i] = 1 \/ i \in kindQueue
              => disk.intents[i].status = "decided" /\ disk.intents[i].shape.kind

\* With a disk that only ever crashes between appends, the registry is a
\* register of decisions: nothing decided twice, nobody out of authority,
\* nothing forgotten by a restart.
Register ==
    INSTANCE DecisionRegister WITH
        raised  <- {i \in Intent : disk.intents[i].status # "absent"},
        verdict <- [i \in Intent |-> [answer |-> disk.intents[i].decision,
                                      by     |-> disk.intents[i].by]],
        post    <- disk.lead
ImplementsRegister == Register!RegisterSpec

\* Nobody waits for ever: the decision, the timer or the daemon's death ends it.
WaiterReleased ==
    \A w \in Waiter : outcome[w].st = "waiting" ~> outcome[w].st # "waiting"
=============================================================================
