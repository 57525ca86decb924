---------------------------- MODULE Sessions_proofs ----------------------------
(***************************************************************************)
(* Proofs about the parts that agents and their sessions share: ACP          *)
(* sessions, the task queue, and the two lock files, for any number of       *)
(* callers, sessions, agents, runs and tasks, any limits and thresholds.     *)
(***************************************************************************)
EXTENDS Parts, FiniteSetTheorems, TLAPS

\* The instances bring Cardinality under names of their own.
LEMMA AcpCardinality == \A S : Acp!Cardinality(S) = Cardinality(S)
  BY DEF Acp!Cardinality, Cardinality
LEMMA TasksCardinality == \A S : Tasks!Cardinality(S) = Cardinality(S)
  BY DEF Tasks!Cardinality, Cardinality
LEMMA TasksFinite == \A S : Tasks!IsFiniteSet(S) <=> IsFiniteSet(S)
  BY DEF Tasks!IsFiniteSet, IsFiniteSet
LEMMA BackgroundCardinality == \A S : Background!Cardinality(S) = Cardinality(S)
  BY DEF Background!Cardinality, Cardinality

-----------------------------------------------------------------------------
(* ACP sessions: src/acp-sessions.mjs *)

\* A behaviour of the parts is one of the ACP sessions, which move or stand still.
LEMMA AcpPart == PartsSpec => Acp!Spec
<1>1. PartsInit => Acp!Init
  BY DEF PartsInit
<1>2. [PartsNext]_partsVars => [Acp!Next]_(Acp!vars)
  BY DEF PartsNext, partsVars, sessionVars, acpVars, Acp!vars
<1>3. QED
  BY <1>1, <1>2, PTL DEF PartsSpec, Acp!Spec

\* A set of sessions as the file or somebody's copy holds it.
Row == [status : {"none", "active", "closed", "expired"}, messages : Nat]
Within(sessions) ==
    /\ sessions \in [AcpSession -> Row]
    /\ IsFiniteSet(Acp!Active(sessions)) /\ Cardinality(Acp!Active(sessions)) <= MaxSessions

\* The file is within the limit and so is every copy about to be written over it.
AcpInv ==
    /\ Within(acpFile) /\ late = FALSE
    /\ acpCall \in [AcpCaller -> [phase : {"done", "truncate", "fill", "refill"}, copy : [AcpSession -> Row]]]
    /\ \A c \in AcpCaller : Within(acpCall[c].copy)
    /\ acpAge \in [AcpSession -> Nat]

\* No sessions are within any limit.
LEMMA NoneWithin == Within(Acp!NoFile)
<1> USE SessionAssumptions DEF Acp!AcpAssumption
<1>1. Acp!NoFile \in [AcpSession -> Row]
  BY DEF Acp!NoFile, Acp!Blank, Row
<1>2. Acp!Active(Acp!NoFile) = {}
  BY DEF Acp!NoFile, Acp!Blank, Acp!Active
<1>3. QED
  BY <1>1, <1>2, FS_EmptySet DEF Within

\* Fewer active sessions are within the limit.
LEMMA FewerWithin ==
  ASSUME NEW old_, NEW new_ \in [AcpSession -> Row], Within(old_),
         Acp!Active(new_) \subseteq Acp!Active(old_)
  PROVE  Within(new_)
<1> USE SessionAssumptions DEF Acp!AcpAssumption
<1>1. IsFiniteSet(Acp!Active(new_)) /\ Cardinality(Acp!Active(new_)) <= Cardinality(Acp!Active(old_))
  BY FS_Subset DEF Within
<1>2. Cardinality(Acp!Active(new_)) \in Nat /\ Cardinality(Acp!Active(old_)) \in Nat
  BY <1>1, FS_CardinalityType DEF Within
<1>3. QED
  BY <1>1, <1>2 DEF Within

\* What a caller reads is within the limit, and after the clean-up too.
LEMMA LoadedWithin == AcpInv => Within(Acp!Loaded) /\ Within(Acp!CleanExpired(Acp!Loaded))
<1> SUFFICES ASSUME AcpInv PROVE Within(Acp!Loaded) /\ Within(Acp!CleanExpired(Acp!Loaded))
  OBVIOUS
<1>1. Within(Acp!Loaded)
  BY NoneWithin DEF AcpInv, Acp!Loaded
<1>2. Acp!CleanExpired(Acp!Loaded) \in [AcpSession -> Row]
  BY <1>1 DEF Acp!CleanExpired, Within, Row
<1>3. Acp!Active(Acp!CleanExpired(Acp!Loaded)) \subseteq Acp!Active(Acp!Loaded)
  BY <1>1 DEF Acp!CleanExpired, Acp!Active, Within, Row
<1>4. QED
  BY <1>1, <1>2, <1>3, FewerWithin

\* A copy within the limit may become a caller's.
LEMMA SavesKeeps ==
  ASSUME AcpInv, NEW c \in AcpCaller, NEW s, Within(s), Acp!Saves(c, s),
         UNCHANGED <<acpFile, acpAge, late>>
  PROVE  AcpInv'
<1>1. /\ acpCall' \in [AcpCaller -> [phase : {"done", "truncate", "fill", "refill"}, copy : [AcpSession -> Row]]]
      /\ \A d \in AcpCaller : acpCall'[d].copy = IF d = c THEN s ELSE acpCall[d].copy
  BY DEF AcpInv, Acp!Saves, Within
<1>2. \A d \in AcpCaller : Within(acpCall'[d].copy)
  BY <1>1 DEF AcpInv
<1>3. QED
  BY <1>1, <1>2 DEF AcpInv, Within, Acp!Active

LEMMA AcpStep == AcpInv /\ [Acp!Next]_(Acp!vars) => AcpInv'
<1> SUFFICES ASSUME AcpInv, [Acp!Next]_(Acp!vars) PROVE AcpInv'
  OBVIOUS
<1> USE SessionAssumptions DEF Acp!AcpAssumption
<1>w. Within(Acp!Loaded) /\ Within(Acp!CleanExpired(Acp!Loaded))
  BY LoadedWithin
<1>1. ASSUME NEW c \in AcpCaller, NEW s \in AcpSession, Acp!CreateSession(c, s) PROVE AcpInv'
  <2> DEFINE sessions == Acp!CleanExpired(Acp!Loaded)
             more == [sessions EXCEPT ![s].status = "active"]
  <2>1. more \in [AcpSession -> Row] /\ Acp!Active(more) = Acp!Active(sessions) \cup {s}
    BY <1>w DEF Within, Row, Acp!Active
  <2>2. IsFiniteSet(Acp!Active(more)) /\ Cardinality(Acp!Active(more)) <= Cardinality(Acp!Active(sessions)) + 1
    <3>1. IsFiniteSet(Acp!Active(sessions))
      BY <1>w DEF Within
    <3> HIDE DEF sessions, more
    <3>2. Cardinality(Acp!Active(sessions)) \in Nat
      BY <3>1, FS_CardinalityType
    <3>3. QED
      BY <2>1, <3>1, <3>2, FS_AddElement
  <2>3. Cardinality(Acp!Active(sessions)) < MaxSessions
    BY <1>1, AcpCardinality DEF Acp!CreateSession
  <2>4. Cardinality(Acp!Active(sessions)) \in Nat /\ Cardinality(Acp!Active(more)) \in Nat
    BY <1>w, <2>2, FS_CardinalityType DEF Within
  <2>5. Within(more)
    BY <2>1, <2>2, <2>3, <2>4 DEF Within
  <2>6. Acp!Saves(c, more) /\ UNCHANGED <<acpFile, acpAge, late>>
    BY <1>1 DEF Acp!CreateSession
  <2>7. QED
    BY <2>5, <2>6, SavesKeeps
<1>2. ASSUME NEW c \in AcpCaller, NEW s \in AcpSession, Acp!SendToSession(c, s) PROVE AcpInv'
  <2> DEFINE sessions == Acp!CleanExpired(Acp!Loaded)
             more == [sessions EXCEPT ![s].messages = @ + 1]
  <2>1. more \in [AcpSession -> Row] /\ Acp!Active(more) \subseteq Acp!Active(sessions)
    BY <1>w DEF Within, Row, Acp!Active
  <2>2. Within(more)
    BY <1>w, <2>1, FewerWithin
  <2>3. ~(acpAge[s] > Timeout)
    <3>1. sessions[s].status = "active"
      BY <1>2 DEF Acp!SendToSession
    <3>2. Acp!Loaded[s] \in Row
      BY <1>w DEF Within
    <3>3. QED
      BY <3>1, <3>2 DEF Acp!CleanExpired, Row
  <2>4. Acp!Saves(c, more) /\ UNCHANGED <<acpFile, acpAge>>
    BY <1>2 DEF Acp!SendToSession
  <2>5. late' = late
    BY <1>2, <2>3 DEF Acp!SendToSession, AcpInv
  <2>6. QED
    BY <2>2, <2>4, <2>5, SavesKeeps
<1>3. ASSUME NEW c \in AcpCaller, NEW s \in AcpSession, Acp!CloseSession(c, s) PROVE AcpInv'
  <2> DEFINE closed == [Acp!Loaded EXCEPT ![s].status = "closed"]
  <2>1. closed \in [AcpSession -> Row] /\ Acp!Active(closed) \subseteq Acp!Active(Acp!Loaded)
    BY <1>w DEF Within, Row, Acp!Active
  <2>2. Within(closed)
    BY <1>w, <2>1, FewerWithin
  <2>3. QED
    BY <1>3, <2>2, SavesKeeps DEF Acp!CloseSession
<1>4. ASSUME NEW c \in AcpCaller, Acp!ListSessions(c) PROVE AcpInv'
  BY <1>4, <1>w, SavesKeeps DEF Acp!ListSessions
<1>5. ASSUME NEW c \in AcpCaller, Acp!Truncate(c) PROVE AcpInv'
  <2>1. \A d \in AcpCaller : acpCall'[d].copy = acpCall[d].copy
    BY <1>5 DEF Acp!Truncate, AcpInv
  <2>2. QED
    BY <1>5, <2>1 DEF Acp!Truncate, AcpInv, Within, Acp!Active
<1>6. ASSUME NEW c \in AcpCaller, Acp!Fill(c) PROVE AcpInv'
  <2>1. \A d \in AcpCaller : acpCall'[d].copy = IF d = c THEN Acp!NoFile ELSE acpCall[d].copy
    BY <1>6 DEF Acp!Fill, AcpInv, Acp!Done
  <2>2. \A d \in AcpCaller : Within(acpCall'[d].copy)
    BY <2>1, NoneWithin DEF AcpInv
  <2>3. acpCall' \in [AcpCaller -> [phase : {"done", "truncate", "fill", "refill"}, copy : [AcpSession -> Row]]]
    BY <1>6, NoneWithin DEF Acp!Fill, AcpInv, Acp!Done, Within
  <2>4. Within(acpFile')
    BY <1>6 DEF Acp!Fill, AcpInv
  <2>5. QED
    BY <1>6, <2>2, <2>3, <2>4 DEF Acp!Fill, AcpInv, Within, Acp!Active
<1>7. ASSUME NEW c \in AcpCaller, Acp!Dies(c) PROVE AcpInv'
  <2>1. \A d \in AcpCaller : acpCall'[d].copy = IF d = c THEN Acp!NoFile ELSE acpCall[d].copy
    BY <1>7 DEF Acp!Dies, AcpInv, Acp!Done
  <2>2. \A d \in AcpCaller : Within(acpCall'[d].copy)
    BY <2>1, NoneWithin DEF AcpInv
  <2>3. acpCall' \in [AcpCaller -> [phase : {"done", "truncate", "fill", "refill"}, copy : [AcpSession -> Row]]]
    BY <1>7, NoneWithin DEF Acp!Dies, AcpInv, Acp!Done, Within
  <2>4. QED
    BY <1>7, <2>2, <2>3 DEF Acp!Dies, AcpInv, Within, Acp!Active
<1>8. CASE Acp!Tick
  <2>1. acpAge' \in [AcpSession -> Nat]
    BY <1>8 DEF Acp!Tick, AcpInv
  <2>2. UNCHANGED <<acpFile, acpCall, late>>
    BY <1>8 DEF Acp!Tick
  <2>3. QED
    BY <2>1, <2>2 DEF AcpInv, Within, Acp!Active
<1>9. CASE UNCHANGED Acp!vars
  BY <1>9 DEF Acp!vars, AcpInv, Within, Acp!Active
<1>10. QED
  BY <1>1, <1>2, <1>3, <1>4, <1>5, <1>6, <1>7, <1>8, <1>9 DEF Acp!Next, Acp!Call

\* src/acp-sessions.mjs, "Max concurrent session limits" and "Timeout enforcement":
\* whatever callers overwrite of each other's writes, the file never holds more active
\* sessions than the limit, and no message goes to a session past its time-out.
THEOREM AcpLimits == PartsSpec => []Acp!LimitsHold
<1>1. Acp!Init => AcpInv
  <2> SUFFICES ASSUME Acp!Init PROVE AcpInv
    OBVIOUS
  <2>1. Within(Acp!NoFile)
    BY NoneWithin
  <2>2. QED
    BY <2>1 DEF Acp!Init, AcpInv, Acp!Done, Within
<1>2. AcpInv => Acp!LimitsHold
  BY AcpCardinality DEF AcpInv, Within, Acp!LimitsHold
<1>3. QED
  BY <1>1, <1>2, AcpStep, AcpPart, PTL DEF Acp!Spec

-----------------------------------------------------------------------------
(* The task queue: src/team-relay/task-queue.mjs *)

LEMMA TasksPart == PartsSpec => Tasks!Spec
<1>1. PartsInit => Tasks!Init
  BY DEF PartsInit
<1>2. [PartsNext]_partsVars => [Tasks!Next]_(Tasks!vars)
  BY DEF PartsNext, partsVars, sessionVars, taskVars, Tasks!vars
<1>3. QED
  BY <1>1, <1>2, PTL DEF PartsSpec, Tasks!Spec

TaskRow ==
    [status : Tasks!Status, by : {"nobody", "vote", "review", "call"},
     votes : [Voter -> {"none", "approve", "reject"}],
     reviews : [Voter -> {"none", "approve", "changes_requested"}],
     round : Nat, escalated : BOOLEAN, at : [Voter -> Nat]]

Approves(r) == Cardinality(Tasks!Given(r.votes, "approve"))
Rejects(r) == Cardinality(Tasks!Given(r.votes, "reject"))
Reviewers(t, r) == {v \in Voter \ {AuthorOf[t]} : r.at[v] = r.round}

\* What every copy of a task says of itself. Each review still counted is of the round
\* the task is in and by another than its implementer; a task that a vote moved has had
\* votes enough for one of the three outcomes, which no further vote takes away.
Settled(t, r) ==
    /\ r \in TaskRow
    /\ \A v \in Voter : r.reviews[v] # "none" => v \in Reviewers(t, r)
    /\ r.by = "vote" =>
          /\ Approves(r) + Rejects(r) >= VoteThreshold
          /\ r.status = "discarded" <=> Rejects(r) >= VoteThreshold
          /\ r.status = "recommended" => Approves(r) >= VoteThreshold
          /\ r.status = "to_review" => Approves(r) < VoteThreshold
    /\ r.by = "review" => Cardinality(Reviewers(t, r)) >= ReviewThreshold

TasksInv ==
    /\ tasks \in [Task -> TaskRow]
    /\ dashboard \in [up : BOOLEAN, memory : [Task -> TaskRow]]
    /\ \A t \in Task : Settled(t, tasks[t]) /\ Settled(t, dashboard.memory[t])
    /\ calls \in Nat

\* The votes given are approvals and rejections.
LEMMA VotesGiven ==
  ASSUME NEW r \in TaskRow
  PROVE  LET given == {v \in Voter : r.votes[v] # "none"}
         IN /\ Approves(r) \in Nat /\ Rejects(r) \in Nat /\ IsFiniteSet(given)
            /\ Approves(r) + Rejects(r) = Cardinality(given)
<1> DEFINE yes == Tasks!Given(r.votes, "approve")
           no == Tasks!Given(r.votes, "reject")
           given == {v \in Voter : r.votes[v] # "none"}
<1>1. yes \subseteq Voter /\ no \subseteq Voter /\ given = yes \cup no /\ yes \cap no = {}
  BY DEF Tasks!Given, TaskRow
<1>2. IsFiniteSet(Voter)
  BY SessionAssumptions, TasksFinite DEF Tasks!QueueAssumption
<1>3. IsFiniteSet(yes) /\ IsFiniteSet(no)
  BY <1>1, <1>2, FS_Subset
<1>4. IsFiniteSet(given) /\ Cardinality(given) = Cardinality(yes) + Cardinality(no) - Cardinality({})
  <2> HIDE DEF yes, no, given
  <2>1. QED
    BY <1>1, <1>3, FS_Union
<1>5. Cardinality({}) = 0 /\ Cardinality(yes) \in Nat /\ Cardinality(no) \in Nat
  BY <1>3, FS_EmptySet, FS_CardinalityType
<1>6. QED
  BY <1>4, <1>5 DEF Approves, Rejects

LEMMA ReviewersGrow ==
  ASSUME NEW R, NEW S, R \subseteq S, S \subseteq Voter
  PROVE  Cardinality(R) \in Nat /\ Cardinality(S) \in Nat /\ Cardinality(R) <= Cardinality(S)
<1>1. IsFiniteSet(Voter)
  BY SessionAssumptions, TasksFinite DEF Tasks!QueueAssumption
<1>2. IsFiniteSet(R) /\ IsFiniteSet(S)
  BY <1>1, FS_Subset
<1>3. QED
  BY <1>2, FS_Subset, FS_CardinalityType

\* A vote leaves a task where its votes put it, or puts it there.
LEMMA VotedSettled ==
  ASSUME NEW t \in Task, NEW r, Settled(t, r), NEW v \in Voter, NEW d \in {"approve", "reject"}
  PROVE  Settled(t, Tasks!Voted(r, v, d))
<1> USE SessionAssumptions DEF Tasks!QueueAssumption
<1> DEFINE counted == [r EXCEPT !.votes = [r.votes EXCEPT ![v] = d]]
           given(x) == {w \in Voter : x.votes[w] # "none"}
<1>1. r \in TaskRow /\ counted \in TaskRow
  BY DEF Settled, TaskRow
<1>2. /\ counted.status = r.status /\ counted.by = r.by /\ counted.reviews = r.reviews
      /\ counted.round = r.round /\ counted.at = r.at
  BY <1>1 DEF TaskRow
<1>3. given(r) \subseteq given(counted) /\ given(counted) \subseteq Voter
  BY <1>1 DEF TaskRow
<1>4. /\ Approves(r) \in Nat /\ Rejects(r) \in Nat
      /\ Approves(counted) \in Nat /\ Rejects(counted) \in Nat
      /\ Approves(r) + Rejects(r) <= Approves(counted) + Rejects(counted)
  <2>1. Cardinality(given(r)) <= Cardinality(given(counted))
    BY <1>3, ReviewersGrow
  <2>2. /\ Approves(r) + Rejects(r) = Cardinality(given(r))
        /\ Approves(counted) + Rejects(counted) = Cardinality(given(counted))
    BY <1>1, VotesGiven
  <2>3. /\ Approves(r) \in Nat /\ Rejects(r) \in Nat
        /\ Approves(counted) \in Nat /\ Rejects(counted) \in Nat
    BY <1>1, VotesGiven
  <2>4. QED
    BY <2>1, <2>2, <2>3
<1>5. Tasks!Voted(r, v, d) =
        IF Rejects(counted) >= VoteThreshold THEN Tasks!Moved(counted, "discarded", "vote")
        ELSE IF Approves(counted) >= VoteThreshold THEN Tasks!Moved(counted, "recommended", "vote")
        ELSE IF Approves(counted) + Rejects(counted) >= VoteThreshold
             THEN Tasks!Moved(counted, "to_review", "vote")
        ELSE counted
  <2>1. counted.votes = [r.votes EXCEPT ![v] = d]
    BY <1>1 DEF TaskRow
  <2>2. QED
    BY <2>1, TasksCardinality DEF Tasks!Voted, Approves, Rejects
<1>6. Reviewers(t, counted) = Reviewers(t, r)
  BY <1>2 DEF Reviewers
<1>7. ASSUME NEW status \in Tasks!Status,
             NEW x, x = Tasks!Moved(counted, status, "vote"),
             Approves(counted) + Rejects(counted) >= VoteThreshold,
             status = "discarded" <=> Rejects(counted) >= VoteThreshold,
             status = "recommended" => Approves(counted) >= VoteThreshold,
             status = "to_review" => Approves(counted) < VoteThreshold
      PROVE  Settled(t, x)
  <2>1. /\ x \in TaskRow /\ x.votes = counted.votes /\ x.by = "vote" /\ x.status = status
        /\ x.reviews = r.reviews /\ x.round = r.round /\ x.at = r.at
    BY <1>1, <1>7 DEF Tasks!Moved, TaskRow
  <2>2. Approves(x) = Approves(counted) /\ Rejects(x) = Rejects(counted) /\ Reviewers(t, x) = Reviewers(t, r)
    BY <2>1 DEF Approves, Rejects, Reviewers
  <2>3. QED
    BY <1>7, <2>1, <2>2 DEF Settled
<1>8. CASE Rejects(counted) >= VoteThreshold
  BY <1>4, <1>5, <1>7, <1>8 DEF Tasks!Status
<1>9. CASE ~(Rejects(counted) >= VoteThreshold) /\ Approves(counted) >= VoteThreshold
  BY <1>4, <1>5, <1>7, <1>9 DEF Tasks!Status
<1>10. CASE /\ ~(Rejects(counted) >= VoteThreshold) /\ ~(Approves(counted) >= VoteThreshold)
            /\ Approves(counted) + Rejects(counted) >= VoteThreshold
  BY <1>4, <1>5, <1>7, <1>10 DEF Tasks!Status
<1>11. CASE ~(Approves(counted) + Rejects(counted) >= VoteThreshold)
  <2>1. r.by # "vote" /\ Tasks!Voted(r, v, d) = counted
    BY <1>4, <1>5, <1>11 DEF Settled
  <2>2. Settled(t, counted)
    BY <1>1, <1>2, <1>6, <2>1 DEF Settled
  <2>3. QED
    BY <2>1, <2>2
<1>12. QED
  BY <1>4, <1>8, <1>9, <1>10, <1>11

\* So does a review, whose author is another than the implementer.
LEMMA ReviewedSettled ==
  ASSUME NEW t \in Task, NEW r, Settled(t, r), NEW v \in Voter, Tasks!MayReview(t, v),
         NEW d \in {"approve", "changes_requested"}
  PROVE  Settled(t, Tasks!Reviewed(r, v, d))
<1> USE SessionAssumptions DEF Tasks!QueueAssumption
<1> DEFINE reviews == [r.reviews EXCEPT ![v] = d]
           asking == Tasks!Given(reviews, "changes_requested")
           counted == [r EXCEPT !.reviews = reviews, !.at[v] = r.round,
                             !.escalated = @ \/ (r.round >= MaxReviewRounds /\ asking # {})]
           enough == Cardinality(Tasks!Given(reviews, "approve")) >= ReviewThreshold /\ asking = {}
<1>1. r \in TaskRow
  BY DEF Settled
<1>2. /\ counted \in TaskRow /\ counted.status = r.status /\ counted.by = r.by
      /\ counted.votes = r.votes /\ counted.round = r.round
      /\ counted.reviews = reviews /\ counted.at = [r.at EXCEPT ![v] = r.round]
  <2>1. (r.escalated \/ (r.round >= MaxReviewRounds /\ asking # {})) \in BOOLEAN
    OBVIOUS
  <2>2. r.at \in [Voter -> Nat] /\ r.round \in Nat /\ r.reviews \in [Voter -> {"none", "approve", "changes_requested"}]
    BY <1>1 DEF TaskRow
  <2>3. [r.at EXCEPT ![v] = r.round] \in [Voter -> Nat] /\ reviews \in [Voter -> {"none", "approve", "changes_requested"}]
    BY <2>2
  <2> HIDE DEF asking, reviews
  <2>4. QED
    BY <1>1, <2>1, <2>2, <2>3 DEF TaskRow
<1>3. v \in Reviewers(t, counted) /\ Reviewers(t, r) \subseteq Reviewers(t, counted)
  <2> HIDE DEF counted, reviews
  <2>1. r.at \in [Voter -> Nat] /\ counted.at = [r.at EXCEPT ![v] = r.round] /\ counted.round = r.round
    BY <1>1, <1>2 DEF TaskRow
  <2>2. v # AuthorOf[t]
    BY DEF Tasks!MayReview
  <2>3. QED
    BY <2>1, <2>2 DEF Reviewers
<1>4. Cardinality(Reviewers(t, r)) <= Cardinality(Reviewers(t, counted))
      /\ Cardinality(Reviewers(t, r)) \in Nat /\ Cardinality(Reviewers(t, counted)) \in Nat
  BY <1>3, ReviewersGrow DEF Reviewers
<1>5. \A w \in Voter : counted.reviews[w] # "none" => w \in Reviewers(t, counted)
  <2> HIDE DEF counted
  <2>1. r.reviews \in [Voter -> {"none", "approve", "changes_requested"}]
        /\ counted.reviews = [r.reviews EXCEPT ![v] = d]
    BY <1>1, <1>2 DEF TaskRow
  <2>2. \A w \in Voter : r.reviews[w] # "none" => w \in Reviewers(t, r)
    BY DEF Settled
  <2>3. QED
    BY <1>3, <2>1, <2>2
<1>6. Approves(counted) = Approves(r) /\ Rejects(counted) = Rejects(r)
  BY <1>2 DEF Approves, Rejects
<1>7. Settled(t, counted)
  <2> HIDE DEF counted
  <2>1. QED
    BY <1>2, <1>4, <1>5, <1>6 DEF Settled
<1>8. CASE enough
  <2> DEFINE x == Tasks!Moved(counted, "to_install", "review")
  <2> HIDE DEF counted, reviews
  <2>1. /\ x \in TaskRow /\ x.by = "review" /\ x.status = "to_install"
        /\ x.reviews = counted.reviews /\ x.round = counted.round /\ x.at = counted.at
    BY <1>2 DEF Tasks!Moved, TaskRow, Tasks!Status
  <2>2. Reviewers(t, x) = Reviewers(t, counted)
    BY <2>1 DEF Reviewers
  <2>3. Tasks!Given(reviews, "approve") \subseteq Reviewers(t, counted)
    BY <1>2, <1>5 DEF Tasks!Given, TaskRow
  <2>4. Cardinality(Reviewers(t, counted)) >= ReviewThreshold
    <3>1. /\ Cardinality(Tasks!Given(reviews, "approve")) <= Cardinality(Reviewers(t, counted))
          /\ Cardinality(Tasks!Given(reviews, "approve")) \in Nat
      BY <2>3, ReviewersGrow DEF Reviewers
    <3>2. QED
      BY <1>4, <1>8, <3>1
  <2>5. Settled(t, x)
    BY <1>5, <2>1, <2>2, <2>4 DEF Settled
  <2>6. Tasks!Reviewed(r, v, d) = x
    BY <1>8, TasksCardinality DEF Tasks!Reviewed, counted, reviews
  <2>7. QED
    BY <2>5, <2>6
<1>9. CASE ~enough
  <2>1. Tasks!Reviewed(r, v, d) = counted
    BY <1>9, TasksCardinality DEF Tasks!Reviewed
  <2>2. QED
    BY <1>7, <2>1
<1>10. QED
  BY <1>8, <1>9

\* A new task has neither votes nor reviews.
LEMMA UnknownSettled ==
  ASSUME NEW t \in Task
  PROVE  Settled(t, Tasks!Unknown) /\ Settled(t, Tasks!Proposed)
<1>1. Tasks!Unknown \in TaskRow /\ Tasks!Proposed \in TaskRow
  <2>1. Tasks!Never \in Nat
    BY SessionAssumptions DEF Tasks!Never, Tasks!QueueAssumption
  <2>2. QED
    BY <2>1 DEF Tasks!Unknown, Tasks!Proposed, Tasks!Moved, Tasks!Status, TaskRow
<1>2. /\ Tasks!Unknown.by = "nobody" /\ Tasks!Proposed.by = "call"
      /\ \A v \in Voter : Tasks!Unknown.reviews[v] = "none" /\ Tasks!Proposed.reviews[v] = "none"
  BY DEF Tasks!Unknown, Tasks!Proposed, Tasks!Moved
<1>3. QED
  BY <1>1, <1>2 DEF Settled

\* Whatever a call makes of a task keeps what the task says of itself.
LEMMA OutcomesSettled ==
  ASSUME NEW t \in Task, NEW r, Settled(t, r), NEW statuses \in SUBSET Tasks!Status,
         NEW x \in Tasks!Outcomes(t, r, statuses)
  PROVE  Settled(t, x)
<1>1. CASE r.status = "none"
  BY <1>1, UnknownSettled DEF Tasks!Outcomes
<1>2. ASSUME r.status # "none", NEW v \in Voter, NEW d \in {"approve", "reject"}, x = Tasks!Voted(r, v, d)
      PROVE  Settled(t, x)
  BY <1>2, VotedSettled
<1>3. CASE x = Tasks!Drafted(r)
  <2>1. Tasks!Unknown.reviews = [v \in Voter |-> "none"]
    BY DEF Tasks!Unknown
  <2>2. r \in TaskRow
    BY DEF Settled
  <2>3. x \in TaskRow /\ x.by = "call" /\ \A v \in Voter : x.reviews[v] = "none"
    <3> DEFINE m == Tasks!Moved(r, "drafted", "call")
    <3>1. m \in TaskRow /\ m.by = "call"
      BY <2>2 DEF Tasks!Moved, TaskRow, Tasks!Status
    <3> HIDE DEF m
    <3>2. x = [m EXCEPT !.round = m.round + 1, !.reviews = [v \in Voter |-> "none"]]
      BY <1>3, <2>1, <3>1 DEF Tasks!Drafted, m, TaskRow
    <3>3. QED
      <4> DEFINE none == [v \in Voter |-> "none"]
      <4>1. /\ none \in [Voter -> {"none", "approve", "changes_requested"}]
            /\ \A v \in Voter : none[v] = "none"
        OBVIOUS
      <4>2. m.round + 1 \in Nat
        BY <3>1 DEF TaskRow
      <4> HIDE DEF none
      <4>3. x = [m EXCEPT !.round = m.round + 1, !.reviews = none]
        BY <3>2 DEF none
      <4>4. x \in TaskRow /\ x.by = m.by /\ x.reviews = none
        BY <3>1, <4>1, <4>2, <4>3 DEF TaskRow
      <4>5. QED
        BY <3>1, <4>1, <4>4
  <2>4. QED
    BY <2>3 DEF Settled
<1>4. ASSUME r.status # "none", NEW v \in Voter, Tasks!MayReview(t, v),
             NEW d \in {"approve", "changes_requested"}, x = Tasks!Reviewed(r, v, d)
      PROVE  Settled(t, x)
  BY <1>4, ReviewedSettled
<1>5. ASSUME NEW status \in statuses, x = Tasks!Moved(r, status, "call") PROVE Settled(t, x)
  <2>1. r \in TaskRow
    BY DEF Settled
  <2>2. /\ x \in TaskRow /\ x.by = "call"
        /\ x.reviews = r.reviews /\ x.round = r.round /\ x.at = r.at
    BY <1>5, <2>1 DEF Tasks!Moved, TaskRow
  <2>3. Reviewers(t, x) = Reviewers(t, r)
    BY <2>2 DEF Reviewers
  <2>4. QED
    BY <2>2, <2>3 DEF Settled
<1>6. QED
  <2> CASE r.status # "none"
    <3>1. \/ \E v \in Voter, d \in {"approve", "reject"} : x = Tasks!Voted(r, v, d)
          \/ x = Tasks!Drafted(r)
          \/ \E v \in Voter, d \in {"approve", "changes_requested"} :
                Tasks!MayReview(t, v) /\ x = Tasks!Reviewed(r, v, d)
          \/ \E status \in statuses : x = Tasks!Moved(r, status, "call")
      BY DEF Tasks!Outcomes
    <3>2. QED
      BY <3>1, <1>2, <1>3, <1>4, <1>5
  <2> QED
    BY <1>1

LEMMA TasksStep == TasksInv /\ [Tasks!Next]_(Tasks!vars) => TasksInv'
<1> SUFFICES ASSUME TasksInv, [Tasks!Next]_(Tasks!vars) PROVE TasksInv'
  OBVIOUS
<1>t. ASSUME NEW t \in Task, NEW r, Settled(t, r) PROVE r \in TaskRow
  BY <1>t DEF Settled
<1>1. ASSUME NEW t \in Task, Tasks!Command(t) PROVE TasksInv'
  <2>1. PICK r \in Tasks!Outcomes(t, tasks[t], {"elsewhere"}) : tasks' = [tasks EXCEPT ![t] = r]
    BY <1>1 DEF Tasks!Command
  <2>2. Settled(t, r)
    BY <2>1, OutcomesSettled DEF TasksInv, Tasks!Status
  <2>3. tasks' \in [Task -> TaskRow] /\ \A u \in Task : Settled(u, tasks'[u])
    BY <2>1, <2>2, <1>t DEF TasksInv
  <2>4. dashboard' = dashboard /\ calls' \in Nat
    BY <1>1 DEF Tasks!Command, TasksInv
  <2>5. QED
    BY <2>3, <2>4 DEF TasksInv
<1>2. ASSUME NEW t \in Task, Tasks!Request(t) PROVE TasksInv'
  <2>1. PICK r \in Tasks!Outcomes(t, dashboard.memory[t], Tasks!Status \ {"none"}) :
              dashboard' = [dashboard EXCEPT !.memory[t] = r]
    BY <1>2 DEF Tasks!Request
  <2>2. Settled(t, r)
    BY <2>1, OutcomesSettled DEF TasksInv
  <2>3. /\ dashboard' \in [up : BOOLEAN, memory : [Task -> TaskRow]]
        /\ \A u \in Task : Settled(u, dashboard'.memory[u])
    BY <2>1, <2>2, <1>t DEF TasksInv
  <2>4. tasks' = dashboard'.memory /\ calls' \in Nat
    BY <1>2 DEF Tasks!Request, TasksInv
  <2>5. QED
    BY <2>3, <2>4 DEF TasksInv
<1>3. CASE Tasks!Serve
  BY <1>3 DEF Tasks!Serve, TasksInv
<1>4. CASE Tasks!Stop
  BY <1>4, UnknownSettled, <1>t DEF Tasks!Stop, Tasks!Down, TasksInv
<1>5. CASE UNCHANGED Tasks!vars
  BY <1>5 DEF Tasks!vars, TasksInv
<1>6. QED
  BY <1>1, <1>2, <1>3, <1>4, <1>5 DEF Tasks!Next

\* src/team-relay/task-queue.mjs: whatever the CLI and mission control overwrite of each
\* other, a task stands where its votes put it, and is not to be installed by reviews
\* without enough agents besides its implementer having reviewed the round it is in.
THEOREM TaskQuorums == PartsSpec => []Tasks!QuorumsHold
<1>1. Tasks!Init => TasksInv
  <2> SUFFICES ASSUME Tasks!Init PROVE TasksInv
    OBVIOUS
  <2>1. \A t \in Task : Settled(t, Tasks!Unknown)
    BY UnknownSettled
  <2>2. \A t \in Task : Tasks!Unknown \in TaskRow
    BY <2>1 DEF Settled
  <2>3. QED
    BY <2>1, <2>2 DEF Tasks!Init, Tasks!Down, TasksInv
<1>2. TasksInv => Tasks!QuorumsHold
  <2> SUFFICES ASSUME TasksInv PROVE Tasks!QuorumsHold
    OBVIOUS
  <2>1. ASSUME NEW t \in Task
        PROVE  /\ Tasks!Cardinality(Tasks!Given(tasks[t].votes, "approve")) = Approves(tasks[t])
               /\ Tasks!Cardinality(Tasks!Given(tasks[t].votes, "reject")) = Rejects(tasks[t])
               /\ Tasks!Cardinality({v \in Voter \ {AuthorOf[t]} : tasks[t].at[v] = tasks[t].round})
                    = Cardinality(Reviewers(t, tasks[t]))
    BY TasksCardinality DEF Approves, Rejects, Reviewers
  <2>2. ASSUME NEW t \in Task PROVE Settled(t, tasks[t])
    BY DEF TasksInv
  <2>3. QED
    BY <2>1, <2>2 DEF Tasks!QuorumsHold, Settled
<1>3. QED
  BY <1>1, <1>2, TasksStep, TasksPart, PTL DEF Tasks!Spec

\* The limits and quorums that two processes on one JSON file do not get past.
THEOREM JsonLimits == PartsSpec => []LimitsHold
<1>1. Acp!LimitsHold /\ Tasks!QuorumsHold => LimitsHold
  BY DEF LimitsHold
<1>2. QED
  BY <1>1, AcpLimits, TaskQuorums, PTL

-----------------------------------------------------------------------------
(* The lock of background runs: src/background.mjs *)

LEMMA BackgroundPart == PartsSpec => Background!Spec
<1>1. PartsInit => Background!Init
  BY DEF PartsInit
<1>2. [PartsNext]_partsVars => [Background!Next]_(Background!vars)
  BY DEF PartsNext, partsVars, storeVars, runVars, Background!vars
<1>3. QED
  BY <1>1, <1>2, PTL DEF PartsSpec, Background!Spec

\* The runs past the lock: there is at most one, and while there is one the file exists.
RunRow == [phase : {"none", "gated", "locked", "read", "light", "REM", "promoted", "deep"},
           lightOnly : BOOLEAN, end : Nat, items : SUBSET Nat]
Past(r) == run[r].phase \notin {"none", "gated"}
RunsInv ==
    /\ run \in [Run -> RunRow] /\ queueEnd \in Nat
    /\ \A r \in Run : Past(r) => lock = TRUE /\ \A q \in Run : Past(q) => q = r

LEMMA RunsStep == RunsInv /\ [Background!Next]_(Background!vars) => RunsInv'
<1> SUFFICES ASSUME RunsInv, [Background!Next]_(Background!vars) PROVE RunsInv'
  OBVIOUS
<1> USE DEF RunsInv, Past, RunRow
<1>1. CASE Background!Enqueue
  BY <1>1 DEF Background!Enqueue
<1>2. CASE Background!Reboot
  BY <1>2 DEF Background!Reboot, Background!NotRunning
<1>3. ASSUME NEW r \in Run, Background!Begin(r) PROVE RunsInv'
  <2>1. PICK gate : run' = [run EXCEPT ![r] =
                     [Background!NotRunning EXCEPT !.phase = "gated", !.lightOnly = (gate = "light")]]
    BY <1>3 DEF Background!Begin
  <2> DEFINE begun == [Background!NotRunning EXCEPT !.phase = "gated", !.lightOnly = (gate = "light")]
  <2>2. begun \in RunRow /\ begun.phase = "gated"
    <3>1. (gate = "light") \in BOOLEAN
      OBVIOUS
    <3>2. QED
      BY <3>1 DEF Background!NotRunning
  <2>3. UNCHANGED <<lock, queueEnd>>
    BY <1>3 DEF Background!Begin
  <2> HIDE DEF begun, RunRow
  <2>4. run' = [run EXCEPT ![r] = begun]
    BY <2>1 DEF begun
  <2>5. run' \in [Run -> RunRow]
    BY <2>2, <2>4
  <2>6. \A q \in Run : run'[q].phase = IF q = r THEN "gated" ELSE run[q].phase
    BY <2>2, <2>4
  <2>7. QED
    BY <2>3, <2>5, <2>6
<1>4. ASSUME NEW r \in Run, Background!TakeLock(r) PROVE RunsInv'
  <2>1. CASE ~lock
    BY <1>4, <2>1 DEF Background!TakeLock, Background!Refused, Background!NotRunning
  <2>2. CASE lock /\ Background!Refused(r)
    <3>1. run' = [run EXCEPT ![r] = Background!NotRunning] /\ UNCHANGED <<lock, queueEnd>>
      BY <1>4, <2>2 DEF Background!TakeLock, Background!Refused
    <3>2. Background!NotRunning \in RunRow /\ Background!NotRunning.phase = "none"
      BY DEF Background!NotRunning
    <3> HIDE DEF RunRow
    <3>3. QED
      BY <3>1, <3>2
  <2>3. QED
    BY <1>4, <2>1, <2>2 DEF Background!TakeLock
<1>5. ASSUME NEW r \in Run, Background!ReadQueue(r) PROVE RunsInv'
  <2> DEFINE items_ == IF latest = 0 \/ \E e \in Background!Recent : e > latest THEN Background!Recent ELSE {}
  <2>1. items_ \in SUBSET Nat
    BY DEF Background!Recent
  <2> HIDE DEF items_
  <2>2. run' = [run EXCEPT ![r].phase = "read", ![r].end = queueEnd, ![r].items = items_]
    BY <1>5 DEF Background!ReadQueue, items_
  <2>3. run[r].phase = "locked" /\ lock' = lock /\ queueEnd' = queueEnd
    BY <1>5 DEF Background!ReadQueue
  <2> DEFINE read_ == [run[r] EXCEPT !.phase = "read", !.end = queueEnd, !.items = items_]
  <2>a. read_ \in RunRow /\ read_.phase = "read" /\ run' = [run EXCEPT ![r] = read_]
    BY <2>1, <2>2
  <2> HIDE DEF read_, RunRow
  <2>4. run' \in [Run -> RunRow] /\ \A q \in Run : Past(q)' <=> Past(q)
    BY <2>a, <2>3
  <2>5. QED
    BY <2>3, <2>4
<1>6. ASSUME NEW r \in Run, Background!WriteLight(r) \/ Background!WriteRem(r) \/ Background!WriteDeep(r)
      PROVE  RunsInv'
  BY <1>6 DEF Background!WriteLight, Background!WriteRem, Background!WriteDeep, Background!WriteSidecar
<1>7. ASSUME NEW r \in Run, Background!Promote(r) PROVE RunsInv'
  BY <1>7 DEF Background!Promote
<1>8. ASSUME NEW r \in Run, Background!Unlock(r) PROVE RunsInv'
  BY <1>8 DEF Background!Unlock, Background!NotRunning
<1>9. ASSUME NEW r \in Run, Background!Kill(r) PROVE RunsInv'
  BY <1>9 DEF Background!Kill, Background!NotRunning
<1>10. CASE UNCHANGED Background!vars
  BY <1>10 DEF Background!vars
<1>11. QED
  BY <1>1, <1>2, <1>3, <1>4, <1>5, <1>6, <1>7, <1>8, <1>9, <1>10
     DEF Background!Next, Background!Step

\* src/background.mjs, "Single background job only": never are two runs past the lock.
THEOREM BackgroundOneRun == PartsSpec => []Background!OneRun
<1>1. Background!Init => RunsInv
  <2> SUFFICES ASSUME Background!Init PROVE RunsInv
    OBVIOUS
  <2>1. Background!NotRunning \in RunRow /\ Background!NotRunning.phase = "none"
    BY DEF Background!NotRunning, RunRow
  <2>2. QED
    BY <2>1 DEF Background!Init, RunsInv, Past
<1>2. RunsInv => Background!OneRun
  <2> SUFFICES ASSUME RunsInv PROVE Background!OneRun
    OBVIOUS
  <2> DEFINE past == {r \in Run : Past(r)}
  <2>1. past = {} \/ \E r \in Run : past = {r}
    BY DEF RunsInv
  <2>2. Cardinality(past) <= 1
    <3> HIDE DEF past
    <3>1. CASE past = {}
      BY <3>1, FS_EmptySet
    <3>2. ASSUME NEW r \in Run, past = {r} PROVE Cardinality(past) <= 1
      BY <3>2, FS_Singleton
    <3>3. QED
      BY <2>1, <3>1, <3>2
  <2>3. QED
    BY <2>2, BackgroundCardinality DEF Background!OneRun, Past
<1>3. QED
  BY <1>1, <1>2, RunsStep, BackgroundPart, PTL DEF Background!Spec

-----------------------------------------------------------------------------
(* The responder lock: scripts/session-bootstrap.sh, src/responder-lock.mjs *)

LEMMA VoicePart == PartsSpec => Voice!Spec
<1>1. PartsInit => Voice!Init
  BY DEF PartsInit
<1>2. [PartsNext]_partsVars => [Voice!Next]_(Voice!vars)
  BY DEF PartsNext, partsVars, sessionVars, voiceVars, Voice!vars
<1>3. QED
  BY <1>1, <1>2, PTL DEF PartsSpec, Voice!Spec

Owns(s) == responderLock = [state |-> "written", sid |-> s, by |-> runningAs[s]]

\* Processes are told apart, by the pids of those that run and by the starts of all.
Told ==
    /\ runningAs \in [Agents -> [pid : Pid, start : Nat]] /\ hooks \in Nat
    /\ \A s \in Agents : runningAs[s].start <= hooks
    /\ \A s, t \in Voice!Live : runningAs[s].pid = runningAs[t].pid => s = t

\* Where the hooks are, what they made of their sessions, and that a session which does
\* not run has neither.
Hooked ==
    /\ hook \in [Agents -> {"none", "look", "remove", "create", "lost", "write", "overwrite", "settle"}]
    /\ role \in [Agents -> {"none", "active", "passive"}] /\ spoke \subseteq Agents
    /\ \A s \in Agents \ Voice!Live : role[s] = "none" /\ hook[s] = "none"

\* The lock file names its owner by a process that is no later than the hooks started, and
\* nobody else's.
Named ==
    /\ responderLock \in [state : {"absent", "empty", "written"}, sid : Agents, by : [pid : Pid, start : Nat]]
    /\ responderLock.state = "written" =>
          /\ responderLock.by.start <= hooks
          /\ \A s \in Voice!Live : runningAs[s] = responderLock.by => s = responderLock.sid

\* Who owns the lock is not about to claim it, and was not told to be PASSIVE by its last hook.
Owned ==
    \A s \in Agents : Owns(s) =>
        hook[s] \notin {"remove", "create", "lost", "write"} /\ (hook[s] = "none" => role[s] # "passive")

\* While the lock is nobody's that runs, some hook is about to see that it is, or to claim it.
Awaited ==
    ~orphaned /\ Voice!Live # {} =>
        /\ responderLock.state = "absent" => \E s \in Agents : hook[s] \in {"look", "create"}
        /\ responderLock.state = "empty" =>
              \E s \in Agents : hook[s] \in {"look", "remove"} \/ (hook[s] = "write" /\ responderLock.sid = s)
        /\ responderLock.state = "written" =>
              (\E s \in Voice!Live : Owns(s)) \/ \E s \in Agents : hook[s] \in {"look", "remove", "overwrite"}

\* Only the owner has spoken.
Spoken ==
    /\ spoke # {} => Voice!Quiet
    /\ ~orphaned => \A s \in spoke : s \in Voice!Live /\ Owns(s)

VoiceInv == Told /\ Hooked /\ Named /\ Owned /\ Awaited /\ Spoken

\* A process that does not run is no process.
LEMMA NoProcessType == Voice!NoProcess \in [pid : Pid, start : Nat] /\ Voice!NoProcess.start = 0
  BY SessionAssumptions DEF Voice!NoProcess, Voice!LockAssumption

LEMMA VoiceStep == VoiceInv /\ [Voice!Next]_(Voice!vars) => VoiceInv'
<1> SUFFICES ASSUME VoiceInv, [Voice!Next]_(Voice!vars) PROVE VoiceInv'
  OBVIOUS
<1> USE NoProcessType DEF VoiceInv, Voice!Live, Owns
<1>1. ASSUME NEW s \in Agents, NEW p \in Pid, Voice!Launch(s, p) PROVE VoiceInv'
  <2> USE <1>1 DEF Voice!Launch, Voice!HookStarts
  <2>1. Told'
    BY DEF Told
  <2>2. Hooked'
    BY DEF Told, Hooked
  <2>3. Named'
    BY DEF Told, Hooked, Named
  <2>4. Owned'
    BY DEF Told, Hooked, Named, Owned
  <2>5. Awaited'
    BY DEF Told, Hooked, Named, Owned, Awaited
  <2>6. Spoken'
    BY DEF Told, Hooked, Named, Owned, Awaited, Spoken, Voice!Quiet
  <2>7. QED
    BY <2>1, <2>2, <2>3, <2>4, <2>5, <2>6
<1>2. ASSUME NEW s \in Agents, Voice!Compact(s) PROVE VoiceInv'
  <2> USE <1>2 DEF Voice!Compact, Voice!HookStarts
  <2>1. Told'
    BY DEF Told
  <2>2. Hooked'
    BY DEF Hooked
  <2>3. Named'
    BY DEF Told, Hooked, Named
  <2>4. Owned'
    BY DEF Told, Hooked, Named, Owned
  <2>5. Awaited'
    BY DEF Told, Hooked, Named, Owned, Awaited
  <2>6. Spoken'
    BY DEF Told, Hooked, Named, Owned, Awaited, Spoken, Voice!Quiet
  <2>7. QED
    BY <2>1, <2>2, <2>3, <2>4, <2>5, <2>6
<1>3. ASSUME NEW s \in Agents, Voice!Exit(s) PROVE VoiceInv'
  <2> USE <1>3 DEF Voice!Exit, Voice!Ends, Voice!Goes
  <2>1. Told'
    BY DEF Told
  <2>2. Hooked'
    BY DEF Hooked
  <2>3. Named'
    BY DEF Told, Hooked, Named
  <2>4. Owned'
    BY DEF Told, Hooked, Named, Owned
  <2>5. ~orphaned' => ~orphaned /\ role[s] = "passive" /\ hook[s] = "none"
    OBVIOUS
  <2>6. ASSUME ~orphaned' PROVE ~Owns(s)
    BY <2>5, <2>6 DEF Owned
  <2>7. \A t \in Agents : t # s =>
           runningAs'[t] = runningAs[t] /\ hook'[t] = hook[t] /\ role'[t] = role[t]
    BY DEF Told, Hooked
  <2>8. Awaited'
    BY <2>5, <2>6, <2>7 DEF Told, Hooked, Awaited
  <2>9. Spoken'
    <3>1. spoke' # {} => Voice!Quiet'
      BY DEF Spoken, Voice!Quiet, Hooked
    <3>2. ASSUME ~orphaned', NEW t \in spoke' PROVE t \in Voice!Live' /\ Owns(t)'
      BY <2>5, <2>6, <2>7, <3>2 DEF Spoken, Hooked
    <3>3. QED
      BY <3>1, <3>2 DEF Spoken
  <2>10. QED
    BY <2>1, <2>2, <2>3, <2>4, <2>8, <2>9
<1>4. ASSUME NEW s \in Agents, Voice!HookStopped(s) PROVE VoiceInv'
  <2> USE <1>4 DEF Voice!HookStopped, Voice!Ends, Voice!Goes
  <2>1. Told'
    BY DEF Told
  <2>2. Hooked'
    BY DEF Hooked
  <2>3. Named'
    BY DEF Told, Hooked, Named
  <2>4. Owned'
    BY DEF Told, Hooked, Named, Owned
  <2>5. Awaited'
    BY DEF Told, Hooked, Named, Owned, Awaited
  <2>6. Spoken'
    BY DEF Told, Hooked, Named, Owned, Awaited, Spoken, Voice!Quiet
  <2>7. QED
    BY <2>1, <2>2, <2>3, <2>4, <2>5, <2>6
<1>5. ASSUME NEW s \in Agents, Voice!Look(s) PROVE VoiceInv'
  <2> USE <1>5 DEF Voice!Look, Voice!Ends, Voice!Goes, Voice!OwnerAlive, Voice!Live
  <2>1. Told'
    BY DEF Told
  <2>2. Hooked'
    BY DEF Hooked
  <2>3. Named'
    BY DEF Told, Hooked, Named
  <2>4. Owned'
    BY DEF Told, Hooked, Named, Owned
  <2>5. Awaited'
    BY DEF Told, Hooked, Named, Owned, Awaited
  <2>6. Spoken'
    BY DEF Told, Hooked, Named, Owned, Awaited, Spoken, Voice!Quiet
  <2>7. QED
    BY <2>1, <2>2, <2>3, <2>4, <2>5, <2>6
<1>6. ASSUME NEW s \in Agents, Voice!Remove(s) PROVE VoiceInv'
  <2> USE <1>6 DEF Voice!Remove, Voice!Goes, Voice!Absent
  <2>1. Told'
    BY DEF Told
  <2>2. Hooked'
    BY DEF Hooked
  <2>3. Named'
    BY DEF Told, Hooked, Named
  <2>4. Owned'
    BY DEF Told, Hooked, Named, Owned
  <2>5. Awaited'
    BY DEF Told, Hooked, Named, Owned, Awaited
  <2>6. Spoken'
    BY DEF Told, Hooked, Named, Owned, Awaited, Spoken, Voice!Quiet
  <2>7. QED
    BY <2>1, <2>2, <2>3, <2>4, <2>5, <2>6
<1>7. ASSUME NEW s \in Agents, Voice!Create(s) PROVE VoiceInv'
  <2> USE <1>7 DEF Voice!Create, Voice!Ends, Voice!Goes
  <2>1. Told'
    BY DEF Told
  <2>2. Hooked'
    BY DEF Hooked
  <2>3. Named'
    BY DEF Told, Hooked, Named
  <2>4. Owned'
    BY DEF Told, Hooked, Named, Owned
  <2>5. Awaited'
    BY DEF Told, Hooked, Named, Owned, Awaited
  <2>6. Spoken'
    BY DEF Told, Hooked, Named, Owned, Awaited, Spoken, Voice!Quiet
  <2>7. QED
    BY <2>1, <2>2, <2>3, <2>4, <2>5, <2>6
<1>8. ASSUME NEW s \in Agents, Voice!LostClaimRace(s) PROVE VoiceInv'
  <2> USE <1>8 DEF Voice!LostClaimRace, Voice!Ends, Voice!Goes
  <2>1. Told'
    BY DEF Told
  <2>2. Hooked'
    BY DEF Hooked
  <2>3. Named'
    BY DEF Told, Hooked, Named
  <2>4. Owned'
    BY DEF Told, Hooked, Named, Owned
  <2>5. Awaited'
    BY DEF Told, Hooked, Named, Owned, Awaited
  <2>6. Spoken'
    BY DEF Told, Hooked, Named, Owned, Awaited, Spoken, Voice!Quiet
  <2>7. QED
    BY <2>1, <2>2, <2>3, <2>4, <2>5, <2>6
<1>9. ASSUME NEW s \in Agents, Voice!Write(s) PROVE VoiceInv'
  <2> USE <1>9 DEF Voice!Write, Voice!Claims, Voice!Goes
  <2>1. Told'
    BY DEF Told
  <2>2. Hooked'
    BY DEF Hooked
  <2>3. Named'
    BY DEF Told, Hooked, Named
  <2>4. Owned'
    BY DEF Told, Hooked, Named, Owned
  <2>5. Awaited'
    BY DEF Told, Hooked, Named, Owned, Awaited
  <2>6. Spoken'
    BY DEF Told, Hooked, Named, Owned, Awaited, Spoken, Voice!Quiet
  <2>7. QED
    BY <2>1, <2>2, <2>3, <2>4, <2>5, <2>6
<1>10. ASSUME NEW s \in Agents, Voice!Overwrite(s) PROVE VoiceInv'
  <2> USE <1>10 DEF Voice!Overwrite, Voice!Claims, Voice!Goes
  <2>1. Told'
    BY DEF Told
  <2>2. Hooked'
    BY DEF Hooked
  <2>3. Named'
    BY DEF Told, Hooked, Named
  <2>4. Owned'
    BY DEF Told, Hooked, Named, Owned
  <2>5. Awaited'
    BY DEF Told, Hooked, Named, Owned, Awaited
  <2>6. Spoken'
    BY DEF Told, Hooked, Named, Owned, Awaited, Spoken, Voice!Quiet
  <2>7. QED
    BY <2>1, <2>2, <2>3, <2>4, <2>5, <2>6
<1>11. ASSUME NEW s \in Agents, Voice!Verify(s) PROVE VoiceInv'
  <2> USE <1>11 DEF Voice!Verify, Voice!Ends, Voice!Goes
  <2>1. Told'
    BY DEF Told
  <2>2. Hooked'
    BY DEF Hooked
  <2>3. Named'
    BY DEF Told, Hooked, Named
  <2>4. Owned'
    BY DEF Told, Hooked, Named, Owned
  <2>5. Awaited'
    BY DEF Told, Hooked, Named, Owned, Awaited
  <2>6. Spoken'
    BY DEF Told, Hooked, Named, Owned, Awaited, Spoken, Voice!Quiet
  <2>7. QED
    BY <2>1, <2>2, <2>3, <2>4, <2>5, <2>6
<1>12. ASSUME NEW s \in Agents, Voice!Post(s) PROVE VoiceInv'
  <2> USE <1>12 DEF Voice!Post, Voice!RoomVoice, Voice!OwnerAlive, Voice!Quiet
  <2>1. Told'
    BY DEF Told
  <2>2. Hooked'
    BY DEF Hooked
  <2>3. Named'
    BY DEF Told, Hooked, Named
  <2>4. Owned'
    BY DEF Told, Hooked, Named, Owned
  <2>5. Awaited'
    BY DEF Told, Hooked, Named, Owned, Awaited
  <2>6. Spoken'
    BY DEF Told, Hooked, Named, Owned, Awaited, Spoken, Voice!Quiet
  <2>7. QED
    BY <2>1, <2>2, <2>3, <2>4, <2>5, <2>6
<1>13. CASE UNCHANGED Voice!vars
  BY <1>13 DEF Voice!vars, Told, Hooked, Named, Owned, Awaited, Spoken, Voice!Quiet
<1>14. QED
  BY <1>1, <1>2, <1>3, <1>4, <1>5, <1>6, <1>7, <1>8, <1>9, <1>10, <1>11, <1>12, <1>13
     DEF Voice!Next, Voice!HookStep

LEMMA VoiceStart == Voice!Init => VoiceInv
<1> SUFFICES ASSUME Voice!Init PROVE VoiceInv
  OBVIOUS
<1> USE NoProcessType DEF Voice!Init, Voice!Absent, Voice!Live
<1>1. Told /\ Hooked
  <2>1. /\ runningAs = [s \in Agents |-> Voice!NoProcess] /\ hook = [s \in Agents |-> "none"]
        /\ role = [s \in Agents |-> "none"] /\ spoke = {} /\ hooks = 0
    OBVIOUS
  <2>2. Told
    BY <2>1 DEF Told
  <2>3. Hooked
    BY <2>1 DEF Hooked
  <2>4. QED
    BY <2>2, <2>3
<1>2. Voice!Live = {} /\ spoke = {}
  OBVIOUS
<1>3. Named
  BY SessionAssumptions DEF Voice!LockAssumption, Named
<1>4. Owned /\ Awaited /\ Spoken
  BY <1>2 DEF Owned, Awaited, Spoken, Owns
<1>5. QED
  BY <1>1, <1>3, <1>4 DEF VoiceInv

\* scripts/session-bootstrap.sh and src/src/responder-lock.mjs: once the hooks are through, and
\* unless the responder exited or a hook was stopped since, the lock names a session that runs
\* and was not told to be PASSIVE, and nobody else has spoken.
THEOREM OneSpeaks == PartsSpec => []Voice!OneVoice
<1>1. VoiceInv => Voice!OneVoice
  <2> SUFFICES ASSUME VoiceInv, Voice!Quiet, ~orphaned, Voice!Live # {}
               PROVE  \E s \in Voice!Live : Owns(s) /\ role[s] # "passive" /\ spoke \subseteq {s}
    BY DEF Voice!OneVoice, Owns
  <2>1. PICK s \in Voice!Live : Owns(s)
    <3>1. \A t \in Agents : hook[t] = "none"
      BY DEF Voice!Quiet
    <3>2. QED
      BY <3>1 DEF VoiceInv, Named, Awaited
  <2>2. role[s] # "passive"
    BY <2>1 DEF VoiceInv, Owned, Voice!Quiet, Voice!Live
  <2>3. spoke \subseteq {s}
    BY <2>1 DEF VoiceInv, Spoken, Owns
  <2>4. QED
    BY <2>1, <2>2, <2>3
<1>2. QED
  BY <1>1, VoiceStart, VoiceStep, VoicePart, PTL DEF Voice!Spec

\* Each lock file of the machine keeps to one holder: one background run at a time, and one
\* session the tools let speak.
THEOREM LocksHold == PartsSpec => []OneHolder
<1>1. Background!OneRun /\ Voice!OneVoice => OneHolder
  BY DEF OneHolder
<1>2. QED
  BY <1>1, BackgroundOneRun, OneSpeaks, PTL
=============================================================================
