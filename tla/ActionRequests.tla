---------------------------- MODULE ActionRequests ----------------------------
(***************************************************************************)
(* Typed action requests (src/src/confirmations.mjs): an agent asks for a  *)
(* merge, the daemon raises an intent for it, and the decision on that     *)
(* intent starts an executor (gh) or settles the action.  createIntent is  *)
(* awaited between the nonce check and the registration of the action, so  *)
(* decisions, expiries and other requests interleave with a request, and   *)
(* with an executor waiting for gh.  Every transition is mirrored by a     *)
(* push to the central status store.  Actions live in memory only.         *)
(*                                                                         *)
(* Who may decide is the business of Confirmations.tla: here a decision is *)
(* made by one of Deciders.                                                *)
(***************************************************************************)
EXTENDS Naturals

CONSTANTS Request,    \* calls of createActionRequest; each raises its own intent
          Nonce, NonceOf,
          Mergeable,  \* requests of type merge_pr; the others have no executor
          Owner, Deciders, NoOne, NoRequest,
          MaxCrashes

ASSUME ActionsAssumption ==
    /\ NonceOf \in [Request -> Nonce]
    /\ Mergeable \subseteq Request /\ NoRequest \notin Request
    /\ Owner \in Deciders /\ NoOne \notin Deciders
    /\ MaxCrashes \in Nat

VARIABLES asked,     \* progress of createActionRequest
          verdict,   \* the decision on the request's intent, and by whom
          registry,  \* the actions Map: the request registered under a nonce
          action,    \* the action object of a request
          executor,  \* what the executor of a request waits for
          lapsed,    \* requests whose expires_at has passed
          pushed,    \* the status last pushed for a request's intent
          merges,    \* how many merges landed for a request
          starts,    \* how many executors were started for a request
          crashes

memory == <<registry, action, executor>>
history == <<merges, starts, crashes>>
vars == <<asked, verdict, memory, lapsed, pushed, history>>

Undecided == [decision |-> "none", by |-> NoOne]
NoAction == [status |-> "none", actor |-> NoOne]
Terminal == {"merged", "failed", "denied", "expired"}
Status == Terminal \cup {"none", "pending", "running"}

TypeOK ==
    /\ asked \in [Request -> {"new", "announcing", "open", "refused", "lost"}]
    /\ verdict \in [Request -> [decision : {"none", "approve", "deny"},
                                by : Deciders \cup {NoOne}]]
    /\ registry \in [Nonce -> Request \cup {NoRequest}]
    /\ action \in [Request -> [status : Status, actor : Deciders \cup {NoOne}]]
    /\ executor \in [Request -> {"none", "viewing", "merging"}]
    /\ lapsed \subseteq Request
    /\ pushed \in [Request -> {"none", "pending", "processing", "approved", "denied",
                               "completed", "failed", "expired"}]
    /\ merges \in [Request -> Nat] /\ starts \in [Request -> Nat] /\ crashes \in Nat

Init ==
    /\ asked = [q \in Request |-> "new"]
    /\ verdict = [q \in Request |-> Undecided]
    /\ registry = [n \in Nonce |-> NoRequest]
    /\ action = [q \in Request |-> NoAction]
    /\ executor = [q \in Request |-> "none"]
    /\ lapsed = {}
    /\ pushed = [q \in Request |-> "none"]
    /\ merges = [q \in Request |-> 0] /\ starts = [q \in Request |-> 0]
    /\ crashes = 0

-----------------------------------------------------------------------------
(* The status mirror *)

\* ACTION_STATUS_MAP
Mapped(status) ==
    CASE status = "merged" -> "completed"
      [] status = "running" -> "processing"
      [] OTHER -> status

PushStatus(q, status) == pushed' = [pushed EXCEPT ![q] = Mapped(status)]

\* settleAction overwrites whatever status the action had.
SettleAction(q, status, actor) ==
    /\ action' = [action EXCEPT ![q] = [status |-> status, actor |-> actor]]
    /\ PushStatus(q, status)

-----------------------------------------------------------------------------
(* Requesting an action *)

\* createActionRequest up to its await: expires_at and the nonce are checked and
\* the intent is raised; it can be decided from here on.
RequestAction(q) ==
    /\ asked[q] = "new"
    /\ \/ /\ q \notin lapsed /\ registry[NonceOf[q]] = NoRequest
          /\ asked' = [asked EXCEPT ![q] = "announcing"]
          /\ PushStatus(q, "pending")
       \/ /\ q \in lapsed \/ registry[NonceOf[q]] # NoRequest
          /\ asked' = [asked EXCEPT ![q] = "refused"]
          /\ UNCHANGED pushed
    /\ UNCHANGED <<verdict, memory, lapsed, history>>

\* The announce step is over: the action is registered and its timer set.
RegisterAction(q) ==
    /\ asked[q] = "announcing"
    /\ asked' = [asked EXCEPT ![q] = "open"]
    /\ action' = [action EXCEPT ![q] = [status |-> "pending", actor |-> NoOne]]
    /\ registry' = [registry EXCEPT ![NonceOf[q]] = q]
    /\ UNCHANGED <<verdict, executor, lapsed, pushed, history>>

-----------------------------------------------------------------------------
(* Deciding *)

\* runApprovedAction up to its first await.  A type without an executor settles
\* at once.  The actor is the constant 'petrus'.
RunApprovedAction(q) ==
    IF q \in Mergeable
    THEN /\ action' = [action EXCEPT ![q] = [status |-> "running", actor |-> Owner]]
         /\ PushStatus(q, "running")
         /\ executor' = [executor EXCEPT ![q] = "viewing"]
         /\ starts' = [starts EXCEPT ![q] = @ + 1]
    ELSE SettleAction(q, "failed", Owner) /\ UNCHANGED <<executor, starts>>

\* Mutant of Carry: the action is looked up by the nonce instead of the intent.
Carry_ByNonce(q, decision, who) ==
    LET r == registry[NonceOf[q]] IN
    IF r # NoRequest
    THEN CASE decision = "deny" ->
                SettleAction(r, "denied", who) /\ UNCHANGED <<executor, starts>>
           [] decision = "approve" /\ action[r].status \in {"pending", "expired"} ->
                RunApprovedAction(r)
           [] OTHER -> UNCHANGED <<action, pushed, executor, starts>>
    ELSE UNCHANGED <<action, pushed, executor, starts>>

\* The part of decideIntent that follows from the request's intent being settled:
\* the action found by its intentId is denied, or run (revived if it had
\* expired); without one the decision itself is the final status.
Carry(q, decision, who) ==
    IF registry[NonceOf[q]] = q
    THEN CASE decision = "deny" ->
                SettleAction(q, "denied", who) /\ UNCHANGED <<executor, starts>>
           [] decision = "approve" /\ action[q].status \in {"pending", "expired"} ->
                RunApprovedAction(q)
           [] OTHER -> UNCHANGED <<action, pushed, executor, starts>>
    ELSE /\ PushStatus(q, IF decision = "approve" THEN "approved" ELSE "denied")
         /\ UNCHANGED <<action, executor, starts>>

\* An intent survives a crash of the daemon, and stays decidable.
DecideIntent(q, decision, who) ==
    /\ asked[q] \in {"announcing", "open", "lost"}
    /\ verdict[q].decision = "none"
    /\ verdict' = [verdict EXCEPT ![q] = [decision |-> decision, by |-> who]]
    /\ Carry(q, decision, who)
    /\ UNCHANGED <<asked, registry, lapsed, merges, crashes>>

-----------------------------------------------------------------------------
(* Expiry *)

TimePasses(q) ==
    /\ q \notin lapsed
    /\ lapsed' = lapsed \cup {q}
    /\ UNCHANGED <<asked, verdict, memory, pushed, history>>

\* expireAction, from the timer or from any GET of the action.
ExpireAction(n) ==
    LET q == registry[n] IN
    /\ q # NoRequest /\ q \in lapsed
    /\ action[q].status \notin Terminal
    /\ SettleAction(q, "expired", NoOne)
    /\ UNCHANGED <<asked, verdict, registry, executor, lapsed, history>>

-----------------------------------------------------------------------------
(* The executor of merge_pr *)

\* gh pr view returned: the request is not mergeable (or gh failed) ...
ValidationFails(q) ==
    /\ executor[q] = "viewing"
    /\ executor' = [executor EXCEPT ![q] = "none"]
    /\ SettleAction(q, "failed", Owner)
    /\ UNCHANGED <<asked, verdict, registry, lapsed, history>>

\* ... or it is, and gh pr merge is started.
ValidationPasses(q) ==
    /\ executor[q] = "viewing"
    /\ executor' = [executor EXCEPT ![q] = "merging"]
    /\ UNCHANGED <<asked, verdict, registry, action, lapsed, pushed, history>>

\* Mutant of MergeReturns: an error of gh ends the executor without settling.
MergeReturns_Throws(q) ==
    /\ executor[q] = "merging"
    /\ executor' = [executor EXCEPT ![q] = "none"]
    /\ \/ UNCHANGED <<action, pushed, merges>>
       \/ SettleAction(q, "merged", Owner) /\ merges' = [merges EXCEPT ![q] = @ + 1]
    /\ UNCHANGED <<asked, verdict, registry, lapsed, starts, crashes>>

MergeReturns(q) ==
    /\ executor[q] = "merging"
    /\ executor' = [executor EXCEPT ![q] = "none"]
    /\ \/ SettleAction(q, "failed", Owner) /\ UNCHANGED merges
       \/ SettleAction(q, "merged", Owner) /\ merges' = [merges EXCEPT ![q] = @ + 1]
    /\ UNCHANGED <<asked, verdict, registry, lapsed, starts, crashes>>

\* The daemon dies and is started again: intents come back from the state file,
\* actions do not.  A merge under way in gh may or may not land.
Restart ==
    /\ crashes < MaxCrashes
    /\ crashes' = crashes + 1
    /\ asked' = [q \in Request |-> IF asked[q] \in {"announcing", "open"} THEN "lost"
                                   ELSE asked[q]]
    /\ registry' = [n \in Nonce |-> NoRequest]
    /\ action' = [q \in Request |-> NoAction]
    /\ executor' = [q \in Request |-> "none"]
    /\ \E landed \in SUBSET {q \in Request : executor[q] = "merging"} :
          merges' = [q \in Request |-> IF q \in landed THEN merges[q] + 1 ELSE merges[q]]
    /\ UNCHANGED <<verdict, lapsed, pushed, starts>>

-----------------------------------------------------------------------------

ExecutorStep(q) == ValidationFails(q) \/ ValidationPasses(q) \/ MergeReturns(q)

Next ==
    \/ \E q \in Request : RequestAction(q)
    \/ \E q \in Request : RegisterAction(q)
    \/ \E q \in Request, decision \in {"approve", "deny"}, who \in Deciders :
          DecideIntent(q, decision, who)
    \/ \E q \in Request : TimePasses(q)
    \/ \E n \in Nonce : ExpireAction(n)
    \/ \E q \in Request : ValidationFails(q)
    \/ \E q \in Request : ValidationPasses(q)
    \/ \E q \in Request : MergeReturns(q)
    \/ Restart

\* The commands gh was started with end some day.
Spec == Init /\ [][Next]_vars /\ \A q \in Request : WF_vars(ExecutorStep(q))

-----------------------------------------------------------------------------
(* Properties *)

\* A merge lands only for a request whose own intent was approved, and at most
\* once, whatever other requests used its nonce and whenever the daemon died.
MergedOnceIfApproved ==
    \A q \in Request :
        /\ merges[q] <= 1
        /\ merges[q] = 1 => verdict[q].decision = "approve" /\ q \in Mergeable

\* While gh exits, an executor that was started ends with an outcome.
ExecutorSettles ==
    \A q \in Request :
        executor[q] # "none" ~> action[q].status \in {"merged", "failed", "none"}

\* Violated.  "The DB enforces a monotonic rank (pending<processing<approved<
\* denied<terminal), so we never push a state that would move a row backwards."
Rank(status) ==
    CASE status = "none" -> 0
      [] status = "pending" -> 1
      [] status = "processing" -> 2
      [] status = "approved" -> 3
      [] status = "denied" -> 4
      [] OTHER -> 5
NeverBackwards == [][\A q \in Request : Rank(pushed[q]) <= Rank(pushed'[q])]_vars
=============================================================================
