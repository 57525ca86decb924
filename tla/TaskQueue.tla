------------------------------- MODULE TaskQueue -------------------------------
(***************************************************************************)
(* src/src/team-relay/task-queue.mjs: tasks that agents vote on, draft and   *)
(* review, all in one JSON file. The CLI reads the file for every command;   *)
(* mission control read it when it was started and goes by its memory from   *)
(* then on. Both write back all they have, so each may undo what the other   *)
(* did, or bring it back. Of the statuses only those that votes and reviews  *)
(* lead to are told apart; a command is short, and modelled as one step.     *)
(***************************************************************************)
EXTENDS Naturals, FiniteSets

CONSTANTS
    Task, Voter,
    Agent,            \* who implements each task
    VoteThreshold,    \* VOTE_THRESHOLD
    ReviewThreshold,  \* REVIEW_THRESHOLD
    MaxReviewRounds,  \* MAX_REVIEW_ROUNDS
    MaxCalls          \* bound on the calls

QueueAssumption ==
    /\ Agent \in [Task -> Voter] /\ IsFiniteSet(Voter)
    /\ {VoteThreshold, ReviewThreshold, MaxReviewRounds} \subseteq Nat \ {0} /\ MaxCalls \in Nat

VARIABLES
    tasks,      \* the task file
    dashboard,  \* mission control: whether it runs, and the tasks in its memory
    calls

vars == <<tasks, dashboard, calls>>

Status == {"none", "proposed", "recommended", "to_review", "discarded", "drafted", "to_install", "elsewhere"}
Never == MaxCalls + 1
Unknown == [status |-> "none", by |-> "nobody", votes |-> [v \in Voter |-> "none"],
            reviews |-> [v \in Voter |-> "none"], round |-> 0, escalated |-> FALSE,
            at |-> [v \in Voter |-> Never]]  \* the round of each one's last review
Down == [up |-> FALSE, memory |-> [t \in Task |-> Unknown]]

TypeOK ==
    /\ \A t \in Task :
          /\ tasks[t].status \in Status /\ tasks[t].by \in {"nobody", "vote", "review", "call"}
          /\ tasks[t].votes \in [Voter -> {"none", "approve", "reject"}]
          /\ tasks[t].reviews \in [Voter -> {"none", "approve", "changes_requested"}]
          /\ tasks[t].round \in 0..MaxCalls /\ tasks[t].at \in [Voter -> 0..Never]
          /\ tasks[t].escalated \in BOOLEAN
    /\ dashboard.up \in BOOLEAN /\ calls \in 0..MaxCalls

Init ==
    /\ tasks = [t \in Task |-> Unknown]
    /\ dashboard = Down
    /\ calls = 0

Given(said, answer) == {v \in DOMAIN said : said[v] = answer}
Moved(r, status, by) == [r EXCEPT !.status = status, !.by = by]

-----------------------------------------------------------------------------
\* addTask; neither caller asks for a hotfix. What follows needs a task that is there.
Proposed == Moved(Unknown, "proposed", "call")

\* The votes are counted whatever the status is by then, and move it once enough are in.
Voted(r, v, decision) ==
    LET votes == [r.votes EXCEPT ![v] = decision]
        counted == [r EXCEPT !.votes = votes]
        approves == Cardinality(Given(votes, "approve"))
        rejects == Cardinality(Given(votes, "reject"))
    IN IF rejects >= VoteThreshold THEN Moved(counted, "discarded", "vote")
       ELSE IF approves >= VoteThreshold THEN Moved(counted, "recommended", "vote")
       ELSE IF approves + rejects >= VoteThreshold THEN Moved(counted, "to_review", "vote")
       ELSE counted

\* A new draft is a new round, and its reviews start afresh.
Drafted_Kept(r) == [Moved(r, "drafted", "call") EXCEPT !.round = @ + 1]
Drafted(r) == [Moved(r, "drafted", "call") EXCEPT !.round = @ + 1, !.reviews = Unknown.reviews]

\* "can't review own work"
MayReview_Anyone(t, v) == TRUE
MayReview(t, v) == v # Agent[t]

Reviewed(r, v, decision) ==
    LET reviews == [r.reviews EXCEPT ![v] = decision]
        changes == Given(reviews, "changes_requested")
        enough == Cardinality(Given(reviews, "approve")) >= ReviewThreshold /\ changes = {}
        counted == [r EXCEPT !.reviews = reviews, !.at[v] = r.round,
                             !.escalated = @ \/ (r.round >= MaxReviewRounds /\ changes # {})]
    IN IF enough THEN Moved(counted, "to_install", "review") ELSE counted

\* What a call can make of a task. Queue, start, install, done, fail and cancel set its status
\* whatever it was; mission control sets any.
Outcomes(t, r, statuses) ==
    IF r.status = "none" THEN {Proposed}
    ELSE {Voted(r, v, decision) : v \in Voter, decision \in {"approve", "reject"}}
         \cup {Drafted(r)}
         \cup {Reviewed(r, v, decision) : v \in {w \in Voter : MayReview(t, w)},
                                          decision \in {"approve", "changes_requested"}}
         \cup {Moved(r, status, "call") : status \in statuses}

-----------------------------------------------------------------------------
\* A command of the CLI.
Command(t) ==
    /\ calls < MaxCalls /\ calls' = calls + 1
    /\ \E r \in Outcomes(t, tasks[t], {"elsewhere"}) : tasks' = [tasks EXCEPT ![t] = r]
    /\ UNCHANGED dashboard

\* startMissionControl, and a request to it.
Serve ==
    /\ ~dashboard.up
    /\ dashboard' = [up |-> TRUE, memory |-> tasks]
    /\ UNCHANGED <<tasks, calls>>

Request(t) ==
    /\ dashboard.up /\ calls < MaxCalls /\ calls' = calls + 1
    /\ \E r \in Outcomes(t, dashboard.memory[t], Status \ {"none"}) :
          dashboard' = [dashboard EXCEPT !.memory[t] = r]
    /\ tasks' = dashboard'.memory

Stop ==
    /\ dashboard.up
    /\ dashboard' = Down
    /\ UNCHANGED <<tasks, calls>>

Next ==
    \/ \E t \in Task : Command(t) \/ Request(t)
    \/ Serve \/ Stop

Spec == Init /\ [][Next]_vars

-----------------------------------------------------------------------------
\* Whatever CLI and mission control overwrite of each other, no task in the file stands where a
\* vote put it against the votes it carries, and none is to be installed by its reviews without
\* enough agents besides its implementer having reviewed the round it is in.
QuorumsHold ==
    \A t \in Task :
        LET r == tasks[t]
            approves == Cardinality(Given(r.votes, "approve"))
            rejects == Cardinality(Given(r.votes, "reject"))
            reviewers == {v \in Voter \ {Agent[t]} : r.at[v] = r.round}
        IN /\ r.by = "vote" => /\ r.status = "discarded" <=> rejects >= VoteThreshold
                               /\ r.status = "recommended" => approves >= VoteThreshold
                               /\ r.status = "to_review" => approves < VoteThreshold
           /\ r.by = "review" => Cardinality(reviewers) >= ReviewThreshold
=============================================================================
