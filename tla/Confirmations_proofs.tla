------------------------ MODULE Confirmations_proofs -------------------------
(***************************************************************************)
(* Proofs about the confirmation registry, for every set of intents,       *)
(* agents, waiters and shapes, and every bound.                            *)
(***************************************************************************)
EXTENDS Answered, Sequences, TLAPS

-----------------------------------------------------------------------------
(* Lemmas about the helpers *)

\* What appending a row that replays to a well-typed d leaves on disk.
LEMMA AppendType ==
    ASSUME TypeOK, NEW end \in Endings, NEW d,
           d \in [intents : [Intent -> Record], lead : Lead],
           AppendState(end, d)
    PROVE  /\ disk' \in [intents : [Intent -> Record], lead : Lead]
           /\ torn' \in BOOLEAN
           /\ faults' \in Nat
  BY DEF TypeOK, AppendState

\* A fresh record and the record of an unknown id are records.
LEMMA BlankType ==
    ASSUME NEW shape \in Shape
    PROVE  Blank("pending", shape) \in Record /\ Absent \in Record
  BY DEF Blank, Record, Decision, Absent, Shape, NoShape, Handle

\* An empty post and an appointment are values of the lead.
LEMMA AppointedType ==
    /\ NoLead \in Lead
    /\ \A target \in Handle \cup {NoOne}, p \in Principals :
          Appointed(target, p) \in Lead
  BY ConfirmationsAssumption DEF NoLead, Lead, Appointed, Handle

\* decideIntent's assignments turn a record into a record.
LEMMA DecidedType ==
    ASSUME NEW r \in Record, NEW answer \in Answer, NEW who \in Handle \cup {NoOne}
    PROVE  Decided(r, answer, who) \in Record
  BY DEF Decided, Record, CanDecide, Decision

\* A record written over one intent keeps the file well typed.
LEMMA PersistType ==
    ASSUME TypeOK, NEW end \in Endings, NEW i \in Intent, NEW r \in Record,
           PersistIntent(end, i, r)
    PROVE  /\ disk' \in [intents : [Intent -> Record], lead : Lead]
           /\ torn' \in BOOLEAN
           /\ faults' \in Nat
  <1>1. [disk EXCEPT !.intents[i] = r]
            \in [intents : [Intent -> Record], lead : Lead]
    BY DEF TypeOK
  <1>2. QED
    BY <1>1, AppendType DEF PersistIntent

\* What a caller of waitForDecision can be told is an outcome.
LEMMA ToldType ==
    ASSUME NEW st \in {"idle", "waiting", "unknown", "timeout", "lost", "decided"},
           NEW on \in Intent \cup {NoIntent}, NEW answer \in Decision
    PROVE  Told(st, on, answer) \in Outcome
  BY DEF Told, Outcome

\* A dying daemon leaves well-typed (empty) memory behind.
LEMMA DieType ==
    ASSUME TypeOK, Die
    PROVE  /\ up' \in BOOLEAN
           /\ intents' \in [Intent -> Record]
           /\ teamLead' \in Lead
           /\ resolvers' \in [Intent -> SUBSET Waiter]
           /\ announcing' \subseteq Intent /\ kindQueue' \subseteq Intent
           /\ outcome' \in [Waiter -> Outcome]
  <1>1. Absent \in Record
    BY DEF Absent, Blank, Record, Decision, Shape, NoShape, Handle
  <1>2. \A w \in Waiter : Told("lost", outcome[w].on, NoAnswer) \in Outcome
    BY DEF TypeOK, Told, Outcome, Decision
  <1>3. QED
    BY <1>1, <1>2, AppointedType DEF Die, TypeOK, NoIntents

-----------------------------------------------------------------------------
(* Type correctness *)

\* Every variable of the registry keeps its type, whatever the disk does.
THEOREM TypeCorrect == Spec => []TypeOK
<1>1. Init => TypeOK
  <2>1. Absent \in Record
    BY DEF Absent, Blank, Record, Decision, Shape, NoShape, Handle
  <2>2. Told("idle", NoIntent, NoAnswer) \in Outcome
    BY ToldType DEF Decision
  <2> SUFFICES ASSUME Init PROVE TypeOK
    OBVIOUS
  <2>3. disk \in [intents : [Intent -> Record], lead : Lead]
    BY <2>1, AppointedType DEF Init, NoIntents
  <2>4. outcome \in [Waiter -> Outcome]
    BY <2>2 DEF Init
  <2>5. QED
    BY <2>1, <2>3, <2>4, AppointedType DEF Init, TypeOK, NoIntents
<1>2. TypeOK /\ [Next]_vars => TypeOK'
  <2> SUFFICES ASSUME TypeOK, [Next]_vars PROVE TypeOK'
    OBVIOUS
  <2>1. CASE Crash
    BY <2>1, DieType DEF Crash, TypeOK, file
  <2>2. CASE LoadPersistedState
    BY <2>2 DEF LoadPersistedState, TypeOK, file
  <2>3. ASSUME NEW i \in Intent, NEW shape \in Shapes, CreateIntent(i, shape)
        PROVE  TypeOK'
    <3> DEFINE r == Blank("pending", shape)
    <3>1. r \in Record
      BY BlankType, ConfirmationsAssumption
    <3>2. PICK end \in Endings :
             /\ PersistIntent(end, i, r)
             /\ \/ end = "cut" /\ Die
                \/ /\ end # "cut"
                   /\ intents' = [intents EXCEPT ![i] = r]
                   /\ announcing' = announcing \cup {i}
                   /\ UNCHANGED <<up, teamLead, resolvers, kindQueue, outcome>>
      BY <2>3 DEF CreateIntent
    <3> HIDE DEF r
    <3>3. disk' \in [intents : [Intent -> Record], lead : Lead]
          /\ torn' \in BOOLEAN /\ faults' \in Nat
      BY <3>1, <3>2, PersistType
    <3>4. restarts' \in Nat /\ used' \subseteq Intent /\ handled' \in [Intent -> Nat]
      BY <2>3 DEF CreateIntent, TypeOK
    <3>5. CASE end = "cut"
      BY <3>2, <3>3, <3>4, <3>5, DieType DEF TypeOK
    <3>6. CASE end # "cut"
      BY <3>1, <3>2, <3>3, <3>4, <3>6 DEF TypeOK
    <3>7. QED
      BY <3>5, <3>6
  <2>4. ASSUME NEW i \in Intent, RecordAnnouncement(i) PROVE TypeOK'
    <3>1. intents[i] \in Record
      BY DEF TypeOK
    <3>2. PICK end \in Endings :
             /\ PersistIntent(end, i, intents[i])
             /\ \/ end = "cut" /\ Die
                \/ end # "cut" /\ UNCHANGED <<up, memory, outcome>>
      BY <2>4 DEF RecordAnnouncement
    <3>3. disk' \in [intents : [Intent -> Record], lead : Lead]
          /\ torn' \in BOOLEAN /\ faults' \in Nat
      BY <3>1, <3>2, PersistType
    <3>4. restarts' \in Nat /\ used' \subseteq Intent /\ handled' \in [Intent -> Nat]
      BY <2>4 DEF RecordAnnouncement, TypeOK
    <3>5. CASE end = "cut"
      BY <3>2, <3>3, <3>4, <3>5, DieType DEF TypeOK
    <3>6. CASE end # "cut"
      BY <3>2, <3>3, <3>4, <3>6 DEF TypeOK, memory
    <3>7. QED
      BY <3>5, <3>6
  <2>5. ASSUME NEW i \in Intent, AnnounceReturns(i) PROVE TypeOK'
    BY <2>5 DEF AnnounceReturns, TypeOK, file
  <2>6. ASSUME NEW i \in Intent, NEW answer \in Answer, NEW who \in Actors,
               DecideIntent(i, answer, who)
        PROVE  TypeOK'
    <3> DEFINE r == Decided(intents[i], answer, who)
    <3>1. r \in Record
      <4>1. who \in Handle \cup {NoOne}
        BY ConfirmationsAssumption DEF Actors, HttpActor, Handle
      <4>2. QED
        BY <4>1, DecidedType DEF TypeOK
    <3>2. PICK end \in Endings :
             /\ PersistIntent(end, i, r)
             /\ \/ end = "cut" /\ Die
                \/ /\ end # "cut"
                   /\ intents' = [intents EXCEPT ![i] = r]
                   /\ Resolve(i, answer)
                   /\ kindQueue' = IF r.shape.kind THEN kindQueue \cup {i} ELSE kindQueue
                   /\ UNCHANGED <<up, teamLead, announcing>>
      BY <2>6 DEF DecideIntent
    <3> HIDE DEF r
    <3>3. disk' \in [intents : [Intent -> Record], lead : Lead]
          /\ torn' \in BOOLEAN /\ faults' \in Nat
      BY <3>1, <3>2, PersistType
    <3>4. restarts' \in Nat /\ used' \subseteq Intent /\ handled' \in [Intent -> Nat]
      BY <2>6 DEF DecideIntent, TypeOK
    <3>5. CASE end = "cut"
      BY <3>2, <3>3, <3>4, <3>5, DieType DEF TypeOK
    <3>6. CASE end # "cut"
      <4>1. Told("decided", i, answer) \in Outcome
        BY ToldType DEF Decision
      <4>2. outcome' \in [Waiter -> Outcome] /\ resolvers' \in [Intent -> SUBSET Waiter]
        BY <3>2, <3>6, <4>1 DEF Resolve, TypeOK
      <4>3. QED
        BY <3>1, <3>2, <3>3, <3>4, <3>6, <4>2 DEF TypeOK
    <3>7. QED
      BY <3>5, <3>6
  <2>7. ASSUME NEW i \in Intent, KindHandlerStarts(i) PROVE TypeOK'
    BY <2>7 DEF KindHandlerStarts, TypeOK, file
  <2>8. ASSUME NEW target \in Handle \cup {NoOne}, NEW p \in Principals,
               SetLead(target, p)
        PROVE  TypeOK'
    <3>1. PICK end \in Endings :
             /\ AppendState(end, [disk EXCEPT !.lead = Appointed(target, p)])
             /\ \/ end = "cut" /\ Die
                \/ /\ end # "cut"
                   /\ teamLead' = Appointed(target, p)
                   /\ UNCHANGED <<up, intents, resolvers, announcing, kindQueue, outcome>>
      BY <2>8 DEF SetLead
    <3>2. [disk EXCEPT !.lead = Appointed(target, p)]
              \in [intents : [Intent -> Record], lead : Lead]
      BY AppointedType DEF TypeOK
    <3>3. disk' \in [intents : [Intent -> Record], lead : Lead]
          /\ torn' \in BOOLEAN /\ faults' \in Nat
      BY <3>1, <3>2, AppendType
    <3>4. restarts' \in Nat /\ used' \subseteq Intent /\ handled' \in [Intent -> Nat]
      BY <2>8 DEF SetLead, TypeOK
    <3>5. CASE end = "cut"
      BY <3>1, <3>3, <3>4, <3>5, DieType DEF TypeOK
    <3>6. CASE end # "cut"
      BY <3>1, <3>3, <3>4, <3>6, AppointedType DEF TypeOK
    <3>7. QED
      BY <3>5, <3>6
  <2>9. ASSUME NEW w \in Waiter, NEW i \in Intent, WaitForDecision(w, i)
        PROVE  TypeOK'
    <3>1. intents[i].decision \in Decision
      BY DEF TypeOK, Record
    <3>2. outcome' \in [Waiter -> Outcome]
      BY <2>9, <3>1 DEF WaitForDecision, TypeOK, Told, Outcome
    <3>3. QED
      BY <2>9, <3>2 DEF WaitForDecision, TypeOK, file
  <2>10. ASSUME NEW w \in Waiter, WaiterTimeout(w) PROVE TypeOK'
    <3>1. PICK i \in Intent :
             /\ resolvers' = [resolvers EXCEPT ![i] = @ \ {w}]
             /\ outcome' = [outcome EXCEPT ![w] = Told("timeout", i, NoAnswer)]
      BY <2>10 DEF WaiterTimeout
    <3>2. Told("timeout", i, NoAnswer) \in Outcome
      BY ToldType DEF Decision
    <3>3. QED
      BY <2>10, <3>1, <3>2 DEF WaiterTimeout, TypeOK, file
  <2>11. CASE UNCHANGED vars
    BY <2>11 DEF vars, memory, file, TypeOK
  <2>12. QED
    BY <2>1, <2>2, <2>3, <2>4, <2>5, <2>6, <2>7, <2>8, <2>9, <2>10, <2>11 DEF Next
<1>3. QED
  BY <1>1, <1>2, PTL DEF Spec

-----------------------------------------------------------------------------
(* Authority *)

\* canDecide lets nobody through whom Authorised would not accept.
LEMMA DecidedAuthorised ==
    ASSUME NEW r \in Record, NEW answer, NEW who \in Handle \cup {NoOne},
           Decidable(r, answer, who)
    PROVE  Authorised(Decided(r, answer, who))
  <1>1. CASE who = Owner
    BY <1>1 DEF Decidable, Authorised, Decided, CanDecide, Record, Legal
  <1>2. CASE who # Owner
    <2>1. who \in Agent /\ ~r.shape.human /\ who # r.shape.requester
          /\ CanDecide(r, who) = "lead"
      BY <1>2 DEF Decidable, CanDecide
    <2>2. QED
      BY <2>1 DEF Decidable, Authorised, Decided, Record, Legal
  <1>3. QED
    BY <1>1, <1>2

\* Writing an authorised record keeps the file authorised, however it ends.
LEMMA PersistAuthorised ==
    ASSUME TypeOK, AuthorisedDecisions, NEW end \in Endings, NEW i \in Intent,
           NEW r, Authorised(r), PersistIntent(end, i, r)
    PROVE  \A j \in Intent : Authorised(disk'.intents[j])
  <1>1. disk' = disk \/ disk' = [disk EXCEPT !.intents[i] = r]
    BY DEF PersistIntent, AppendState
  <1>2. CASE disk' = disk
    BY <1>2 DEF AuthorisedDecisions
  <1>3. CASE disk' = [disk EXCEPT !.intents[i] = r]
    BY <1>3 DEF AuthorisedDecisions, TypeOK
  <1>4. QED
    BY <1>1, <1>2, <1>3

\* A dying daemon leaves no decision in memory that would need authority.
LEMMA DieAuthorised ==
    ASSUME Die PROVE \A j \in Intent : Authorised(intents'[j])
  BY DEF Die, NoIntents, Authorised, Absent, Blank

\* Every decision, in memory and on disk, was made by the owner, or by the lead
\* on an intent that was neither reserved nor its own, whatever was lost and
\* replayed in between.
THEOREM DecisionsAuthorised == Spec => []AuthorisedDecisions
<1>1. Init => AuthorisedDecisions
  <2> SUFFICES ASSUME Init, NEW i \in Intent
               PROVE  Authorised(intents[i]) /\ Authorised(disk.intents[i])
    BY DEF AuthorisedDecisions
  <2>1. intents[i].status = "absent" /\ disk.intents[i].status = "absent"
    BY DEF Init, NoIntents, Absent, Blank
  <2>2. QED
    BY <2>1 DEF Authorised
<1>2. TypeOK /\ AuthorisedDecisions /\ [Next]_vars => AuthorisedDecisions'
  <2> SUFFICES ASSUME TypeOK, AuthorisedDecisions, [Next]_vars
               PROVE  AuthorisedDecisions'
    OBVIOUS
  <2>1. CASE Crash
    BY <2>1, DieAuthorised DEF Crash, AuthorisedDecisions, file
  <2>2. CASE LoadPersistedState
    BY <2>2 DEF LoadPersistedState, AuthorisedDecisions, file
  <2>3. ASSUME NEW i \in Intent, NEW shape \in Shapes, CreateIntent(i, shape)
        PROVE  AuthorisedDecisions'
    <3> DEFINE r == Blank("pending", shape)
    <3>1. Authorised(r)
      BY DEF Authorised, Blank
    <3>2. PICK end \in Endings :
             /\ PersistIntent(end, i, r)
             /\ Die \/ intents' = [intents EXCEPT ![i] = r]
      BY <2>3 DEF CreateIntent
    <3> HIDE DEF r
    <3>3. \A j \in Intent : Authorised(disk'.intents[j])
      BY <3>1, <3>2, PersistAuthorised
    <3>4. \A j \in Intent : Authorised(intents'[j])
      BY <3>1, <3>2, DieAuthorised DEF AuthorisedDecisions, TypeOK
    <3>5. QED
      BY <3>3, <3>4 DEF AuthorisedDecisions
  <2>4. ASSUME NEW i \in Intent, RecordAnnouncement(i) PROVE AuthorisedDecisions'
    <3>1. PICK end \in Endings : PersistIntent(end, i, intents[i])
                               /\ (Die \/ UNCHANGED memory)
      BY <2>4 DEF RecordAnnouncement
    <3>2. \A j \in Intent : Authorised(disk'.intents[j])
      BY <3>1, PersistAuthorised DEF AuthorisedDecisions
    <3>3. \A j \in Intent : Authorised(intents'[j])
      BY <3>1, DieAuthorised DEF AuthorisedDecisions, memory
    <3>4. QED
      BY <3>2, <3>3 DEF AuthorisedDecisions
  <2>5. ASSUME NEW i \in Intent, NEW answer \in Answer, NEW who \in Actors,
               DecideIntent(i, answer, who)
        PROVE  AuthorisedDecisions'
    <3> DEFINE r == Decided(intents[i], answer, who)
    <3>1. Authorised(r)
      <4>1. who \in Handle \cup {NoOne}
        BY ConfirmationsAssumption DEF Actors, HttpActor, Handle
      <4>2. QED
        BY <2>5, <4>1, DecidedAuthorised DEF DecideIntent, TypeOK
    <3>2. PICK end \in Endings :
             /\ PersistIntent(end, i, r)
             /\ Die \/ intents' = [intents EXCEPT ![i] = r]
      BY <2>5 DEF DecideIntent
    <3> HIDE DEF r
    <3>3. \A j \in Intent : Authorised(disk'.intents[j])
      BY <3>1, <3>2, PersistAuthorised
    <3>4. \A j \in Intent : Authorised(intents'[j])
      BY <3>1, <3>2, DieAuthorised DEF AuthorisedDecisions, TypeOK
    <3>5. QED
      BY <3>3, <3>4 DEF AuthorisedDecisions
  <2>6. ASSUME NEW target \in Handle \cup {NoOne}, NEW p \in Principals,
               SetLead(target, p)
        PROVE  AuthorisedDecisions'
    <3>1. PICK end \in Endings : AppendState(end, [disk EXCEPT !.lead = Appointed(target, p)])
                               /\ (Die \/ UNCHANGED intents)
      BY <2>6 DEF SetLead
    <3>2. disk'.intents = disk.intents
      BY <3>1 DEF AppendState, TypeOK
    <3>3. QED
      BY <3>1, <3>2, DieAuthorised DEF AuthorisedDecisions
  <2>7. CASE UNCHANGED <<intents, disk>>
    BY <2>7 DEF AuthorisedDecisions
  <2>8. QED
    BY <2>1, <2>2, <2>3, <2>4, <2>5, <2>6, <2>7
       DEF Next, vars, memory, file, AnnounceReturns, KindHandlerStarts,
           WaitForDecision, WaiterTimeout
<1>3. QED
  BY <1>1, <1>2, TypeCorrect, PTL DEF Spec

-----------------------------------------------------------------------------
(* Finality *)

\* An intent known to the daemon or to its state file has a spent id.
KnownUsed ==
    \A i \in Intent : intents[i].status # "absent" \/ disk.intents[i].status # "absent"
                        => i \in used

\* Writing one intent leaves every other id of the file spent.
LEMMA PersistKnown ==
    ASSUME TypeOK, KnownUsed, NEW end \in Endings, NEW i \in Intent, NEW r,
           PersistIntent(end, i, r)
    PROVE  \A j \in Intent : j # i /\ disk'.intents[j].status # "absent" => j \in used
  <1>1. disk' = disk \/ disk' = [disk EXCEPT !.intents[i] = r]
    BY DEF PersistIntent, AppendState
  <1>2. QED
    BY <1>1 DEF KnownUsed, TypeOK

\* After a crash no intent is known to the (dead) daemon.
LEMMA DieForgets ==
    ASSUME Die PROVE ~up' /\ \A j \in Intent : intents'[j].status = "absent"
  BY DEF Die, NoIntents, Absent, Blank

\* No step makes an id known that was not handed out: createIntent's ids are
\* fresh, and replay brings back only ids that were written.
LEMMA KnownUsedStep == TypeOK /\ KnownUsed /\ [Next]_vars => KnownUsed'
<1> SUFFICES ASSUME TypeOK, KnownUsed, [Next]_vars PROVE KnownUsed'
  OBVIOUS
<1>1. CASE Crash
  BY <1>1, DieForgets DEF Crash, KnownUsed, file
<1>2. CASE LoadPersistedState
  BY <1>2 DEF LoadPersistedState, KnownUsed, file
<1>3. ASSUME NEW i \in Intent, NEW shape \in Shapes, CreateIntent(i, shape)
      PROVE  KnownUsed'
  <2>1. PICK end \in Endings :
           /\ PersistIntent(end, i, Blank("pending", shape))
           /\ Die \/ intents' = [intents EXCEPT ![i] = Blank("pending", shape)]
    BY <1>3 DEF CreateIntent
  <2>2. used' = used \cup {i}
    BY <1>3 DEF CreateIntent
  <2>3. \A j \in Intent : disk'.intents[j].status # "absent" => j \in used'
    BY <2>1, <2>2, PersistKnown
  <2>4. \A j \in Intent : intents'[j].status # "absent" => j \in used'
    BY <2>1, <2>2, DieForgets DEF KnownUsed, TypeOK
  <2>5. QED
    BY <2>3, <2>4 DEF KnownUsed
<1>4. ASSUME NEW i \in Intent, RecordAnnouncement(i) PROVE KnownUsed'
  <2>1. PICK end \in Endings : PersistIntent(end, i, intents[i])
                             /\ (Die \/ UNCHANGED memory)
    BY <1>4 DEF RecordAnnouncement
  <2>2. used' = used
    BY <1>4 DEF RecordAnnouncement
  <2>3. disk' = disk \/ disk' = [disk EXCEPT !.intents[i] = intents[i]]
    BY <2>1 DEF PersistIntent, AppendState
  <2>4. \A j \in Intent : disk'.intents[j].status # "absent" => j \in used'
    BY <2>2, <2>3 DEF KnownUsed, TypeOK
  <2>5. QED
    BY <2>1, <2>2, <2>4, DieForgets DEF KnownUsed, memory
<1>5. ASSUME NEW i \in Intent, NEW answer \in Answer, NEW who \in Actors,
             DecideIntent(i, answer, who)
      PROVE  KnownUsed'
  <2> DEFINE r == Decided(intents[i], answer, who)
  <2>1. i \in used /\ used' = used
    BY <1>5 DEF DecideIntent, Decidable, KnownUsed
  <2>2. PICK end \in Endings :
           /\ PersistIntent(end, i, r)
           /\ Die \/ intents' = [intents EXCEPT ![i] = r]
    BY <1>5 DEF DecideIntent
  <2> HIDE DEF r
  <2>3. \A j \in Intent : disk'.intents[j].status # "absent" => j \in used'
    BY <2>1, <2>2, PersistKnown
  <2>4. \A j \in Intent : intents'[j].status # "absent" => j \in used'
    BY <2>1, <2>2, DieForgets DEF KnownUsed, TypeOK
  <2>5. QED
    BY <2>3, <2>4 DEF KnownUsed
<1>6. ASSUME NEW target \in Handle \cup {NoOne}, NEW p \in Principals,
             SetLead(target, p)
      PROVE  KnownUsed'
  <2>1. PICK end \in Endings : AppendState(end, [disk EXCEPT !.lead = Appointed(target, p)])
                             /\ (Die \/ UNCHANGED intents)
    BY <1>6 DEF SetLead
  <2>2. disk'.intents = disk.intents /\ used' = used
    BY <1>6, <2>1 DEF AppendState, SetLead, TypeOK
  <2>3. QED
    BY <2>1, <2>2, DieForgets DEF KnownUsed
<1>7. CASE UNCHANGED <<intents, disk, used>>
  BY <1>7 DEF KnownUsed
<1>8. QED
  BY <1>1, <1>2, <1>3, <1>4, <1>5, <1>6, <1>7
     DEF Next, vars, memory, file, AnnounceReturns, KindHandlerStarts,
         WaitForDecision, WaiterTimeout

\* While the daemon runs no later answer, announcement, id or disk fault changes
\* an intent that was decided.
THEOREM DecisionIsFinal == Spec => DecisionFinal
<1>1. Init => KnownUsed
  BY DEF Init, KnownUsed, NoIntents, Absent, Blank
<1>2. TypeOK /\ KnownUsed /\ [Next]_vars
        => [\A i \in Intent : up /\ up' /\ intents[i].status = "decided"
                                => intents'[i] = intents[i]]_vars
  <2> SUFFICES ASSUME TypeOK, KnownUsed, Next, up, up', NEW i \in Intent,
                      intents[i].status = "decided"
               PROVE  intents'[i] = intents[i]
    OBVIOUS
  <2>1. ~Die /\ ~Crash /\ ~LoadPersistedState
    BY DieForgets DEF Crash, LoadPersistedState
  <2>2. ASSUME NEW j \in Intent, NEW shape \in Shapes, CreateIntent(j, shape)
        PROVE  intents'[i] = intents[i]
    <3>1. i # j
      BY <2>2 DEF CreateIntent, KnownUsed
    <3>2. QED
      BY <2>1, <2>2, <3>1 DEF CreateIntent, TypeOK
  <2>3. ASSUME NEW j \in Intent, NEW answer \in Answer, NEW who \in Actors,
               DecideIntent(j, answer, who)
        PROVE  intents'[i] = intents[i]
    <3>1. i # j
      BY <2>3 DEF DecideIntent, Decidable
    <3>2. QED
      BY <2>1, <2>3, <3>1 DEF DecideIntent, TypeOK
  <2>4. ASSUME NEW j \in Intent, RecordAnnouncement(j)
        PROVE  intents'[i] = intents[i]
    BY <2>1, <2>4 DEF RecordAnnouncement, memory
  <2>5. ASSUME NEW target \in Handle \cup {NoOne}, NEW p \in Principals,
               SetLead(target, p)
        PROVE  intents'[i] = intents[i]
    BY <2>1, <2>5 DEF SetLead
  <2>6. QED
    BY <2>1, <2>2, <2>3, <2>4, <2>5
       DEF Next, AnnounceReturns, KindHandlerStarts, WaitForDecision, WaiterTimeout
<1>3. QED
  BY <1>1, <1>2, KnownUsedStep, TypeCorrect, PTL DEF Spec, DecisionFinal

-----------------------------------------------------------------------------
(* Waiters *)

\* A crash parks nobody: the waiters are lost with their resolvers.
LEMMA DieReleases ==
    ASSUME TypeOK, NoStrandedWaiter, Die PROVE NoStrandedWaiter'
  BY DEF Die, NoStrandedWaiter, Told

\* A caller of waitForDecision is parked exactly on an intent that is open.
THEOREM NobodyStranded == Spec => []NoStrandedWaiter
<1>1. Init => NoStrandedWaiter
  <2> SUFFICES ASSUME Init, NEW w \in Waiter, NEW i \in Intent
               PROVE  w \notin resolvers[i] /\ outcome[w].st # "waiting"
    BY DEF NoStrandedWaiter
  <2>1. QED
    BY DEF Init, Told
<1>2. TypeOK /\ KnownUsed /\ NoStrandedWaiter /\ [Next]_vars => NoStrandedWaiter'
  <2> SUFFICES ASSUME TypeOK, KnownUsed, NoStrandedWaiter, [Next]_vars
               PROVE  NoStrandedWaiter'
    OBVIOUS
  <2>1. CASE Die
    BY <2>1, DieReleases
  <2>2. CASE LoadPersistedState
    BY <2>2 DEF LoadPersistedState, NoStrandedWaiter
  <2>3. ASSUME ~Die, NEW j \in Intent, NEW shape \in Shapes, CreateIntent(j, shape)
        PROVE  NoStrandedWaiter'
    <3>1. intents[j].status = "absent"
      BY <2>3 DEF CreateIntent, KnownUsed
    <3>2. intents' = [intents EXCEPT ![j] = Blank("pending", shape)]
          /\ UNCHANGED <<up, resolvers, outcome>>
      BY <2>3 DEF CreateIntent
    <3>3. QED
      BY <3>1, <3>2 DEF NoStrandedWaiter, TypeOK
  <2>4. ASSUME ~Die, NEW j \in Intent, NEW answer \in Answer, NEW who \in Actors,
               DecideIntent(j, answer, who)
        PROVE  NoStrandedWaiter'
    <3>1. /\ intents' = [intents EXCEPT ![j] = Decided(intents[j], answer, who)]
          /\ outcome' = [w \in Waiter |-> IF w \in resolvers[j]
                                          THEN Told("decided", j, answer)
                                          ELSE outcome[w]]
          /\ resolvers' = [resolvers EXCEPT ![j] = {}]
          /\ UNCHANGED up
      BY <2>4 DEF DecideIntent, Resolve
    <3> SUFFICES ASSUME NEW w \in Waiter, NEW i \in Intent
                 PROVE  /\ w \in resolvers'[i]
                              <=> (outcome'[w].st = "waiting" /\ outcome'[w].on = i)
                        /\ w \in resolvers'[i] => up' /\ intents'[i].status = "pending"
      BY DEF NoStrandedWaiter
    <3>2. CASE w \in resolvers[j]
      BY <3>1, <3>2 DEF NoStrandedWaiter, TypeOK, Told
    <3>3. CASE w \notin resolvers[j]
      BY <3>1, <3>3 DEF NoStrandedWaiter, TypeOK
    <3>4. QED
      BY <3>2, <3>3
  <2>5. ASSUME NEW w \in Waiter, NEW j \in Intent, WaitForDecision(w, j)
        PROVE  NoStrandedWaiter'
    <3>1. CASE intents[j].status = "pending"
      BY <2>5, <3>1 DEF WaitForDecision, NoStrandedWaiter, TypeOK, Told
    <3>2. CASE intents[j].status # "pending"
      <4>1. PICK st \in {"unknown", "decided"} :
               outcome' = [outcome EXCEPT ![w] = Told(st, j, intents[j].decision)]
        BY <2>5, <3>2 DEF WaitForDecision, TypeOK, Record
      <4>2. UNCHANGED <<up, intents, resolvers>> /\ outcome[w].st = "idle"
        BY <2>5, <3>2 DEF WaitForDecision
      <4>3. QED
        BY <4>1, <4>2 DEF NoStrandedWaiter, TypeOK, Told
    <3>3. QED
      BY <3>1, <3>2
  <2>6. ASSUME NEW w \in Waiter, WaiterTimeout(w) PROVE NoStrandedWaiter'
    <3>1. PICK j \in Intent :
             /\ w \in resolvers[j]
             /\ resolvers' = [resolvers EXCEPT ![j] = @ \ {w}]
             /\ outcome' = [outcome EXCEPT ![w] = Told("timeout", j, NoAnswer)]
      BY <2>6 DEF WaiterTimeout
    <3>2. UNCHANGED <<up, intents>>
      BY <2>6 DEF WaiterTimeout
    <3>3. QED
      BY <3>1, <3>2 DEF NoStrandedWaiter, TypeOK, Told
  <2>7. CASE UNCHANGED <<up, intents, resolvers, outcome>>
    BY <2>7 DEF NoStrandedWaiter
  <2>8. ASSUME ~Die, NEW j \in Intent, RecordAnnouncement(j) PROVE NoStrandedWaiter'
    BY <2>7, <2>8 DEF RecordAnnouncement, memory
  <2>9. ASSUME ~Die, NEW target \in Handle \cup {NoOne}, NEW p \in Principals,
               SetLead(target, p)
        PROVE  NoStrandedWaiter'
    BY <2>7, <2>9 DEF SetLead
  <2>10. QED
    BY <2>1, <2>2, <2>3, <2>4, <2>5, <2>6, <2>7, <2>8, <2>9
       DEF Next, vars, memory, Crash, AnnounceReturns, KindHandlerStarts
<1>3. Init => KnownUsed
  BY DEF Init, KnownUsed, NoIntents, Absent, Blank
<1>4. QED
  BY <1>1, <1>2, <1>3, KnownUsedStep, TypeCorrect, PTL DEF Spec

-----------------------------------------------------------------------------
(* Durability: with a disk that does not fail, the file is the registry *)

\* What replay gives is what memory holds, and an intent without a decision
\* carries none.
CleanFile ==
    /\ ~torn
    /\ FileAgrees
    /\ \A i \in Intent : disk.intents[i].status # "decided" =>
           disk.intents[i].decision = NoAnswer /\ disk.intents[i].by = NoOne

\* Without faults every append lands.
LEMMA CleanAppend ==
    ASSUME Faults = {}, CleanFile, NEW end \in Endings, NEW d, AppendState(end, d)
    PROVE  end = "written" /\ disk' = d /\ ~torn'
  BY DEF CleanFile, AppendState, Endings

\* An empty file is an empty registry.
LEMMA CleanInit == Init => CleanFile
  BY DEF Init, CleanFile, FileAgrees, NoIntents, Absent, Blank

\* Without faults createIntent writes exactly the intent it registers.
LEMMA CleanCreate ==
    ASSUME Faults = {}, TypeOK, CleanFile, NEW i \in Intent, NEW shape \in Shapes,
           CreateIntent(i, shape)
    PROVE  /\ CleanFile'
           /\ disk' = [disk EXCEPT !.intents[i] = Blank("pending", shape)]
  <1>1. PICK end \in Endings :
           /\ PersistIntent(end, i, Blank("pending", shape))
           /\ \/ end = "cut" /\ Die
              \/ /\ end # "cut"
                 /\ intents' = [intents EXCEPT ![i] = Blank("pending", shape)]
                 /\ UNCHANGED <<up, teamLead>>
    BY DEF CreateIntent
  <1>2. disk' = [disk EXCEPT !.intents[i] = Blank("pending", shape)]
        /\ ~torn' /\ end = "written"
    BY <1>1, CleanAppend DEF PersistIntent
  <1>3. QED
    BY <1>1, <1>2 DEF CleanFile, FileAgrees, TypeOK, Blank, CreateIntent

\* Without faults writing an intent again changes nothing on disk.
LEMMA CleanRecordAnnouncement ==
    ASSUME Faults = {}, TypeOK, CleanFile, NEW i \in Intent, RecordAnnouncement(i)
    PROVE  CleanFile' /\ disk' = disk
  <1>1. PICK end \in Endings :
           /\ PersistIntent(end, i, intents[i])
           /\ \/ end = "cut" /\ Die
              \/ end # "cut" /\ UNCHANGED <<up, memory, outcome>>
    BY DEF RecordAnnouncement
  <1>2. disk' = [disk EXCEPT !.intents[i] = intents[i]] /\ ~torn' /\ end = "written"
    BY <1>1, CleanAppend DEF PersistIntent
  <1>3. disk.intents[i] = intents[i]
    BY DEF RecordAnnouncement, CleanFile, FileAgrees
  <1>4. disk' = disk
    BY <1>2, <1>3 DEF TypeOK
  <1>5. UNCHANGED <<up, intents, teamLead>>
    BY <1>1, <1>2 DEF memory
  <1>6. QED
    BY <1>2, <1>4, <1>5 DEF CleanFile, FileAgrees

\* Without faults decideIntent writes exactly the decision it takes.
LEMMA CleanDecide ==
    ASSUME Faults = {}, TypeOK, CleanFile, NEW i \in Intent, NEW answer \in Answer,
           NEW who \in Actors, DecideIntent(i, answer, who)
    PROVE  /\ CleanFile'
           /\ disk' = [disk EXCEPT !.intents[i] = Decided(disk.intents[i], answer, who)]
  <1> DEFINE r == Decided(intents[i], answer, who)
  <1>1. PICK end \in Endings :
           /\ PersistIntent(end, i, r)
           /\ \/ end = "cut" /\ Die
              \/ /\ end # "cut"
                 /\ intents' = [intents EXCEPT ![i] = r]
                 /\ UNCHANGED <<up, teamLead>>
    BY DEF DecideIntent
  <1>2. disk' = [disk EXCEPT !.intents[i] = r] /\ ~torn' /\ end = "written"
    BY <1>1, CleanAppend DEF PersistIntent
  <1>3. r.status = "decided"
    BY DEF Decided, TypeOK, Record
  <1>4. intents[i] = disk.intents[i]
    BY DEF CleanFile, FileAgrees, DecideIntent
  <1> HIDE DEF r
  <1>5. CleanFile'
    BY <1>1, <1>2, <1>3 DEF CleanFile, FileAgrees, TypeOK, DecideIntent
  <1>6. QED
    BY <1>2, <1>4, <1>5 DEF r

\* Without faults setLead writes exactly the appointment it makes.
LEMMA CleanSetLead ==
    ASSUME Faults = {}, TypeOK, CleanFile, NEW target \in Handle \cup {NoOne},
           NEW p \in Principals, SetLead(target, p)
    PROVE  CleanFile' /\ disk' = [disk EXCEPT !.lead = Appointed(target, p)]
  <1>1. PICK end \in Endings :
           /\ AppendState(end, [disk EXCEPT !.lead = Appointed(target, p)])
           /\ \/ end = "cut" /\ Die
              \/ /\ end # "cut"
                 /\ teamLead' = Appointed(target, p)
                 /\ UNCHANGED <<up, intents>>
    BY DEF SetLead
  <1>2. disk' = [disk EXCEPT !.lead = Appointed(target, p)] /\ ~torn' /\ end = "written"
    BY <1>1, CleanAppend
  <1>3. QED
    BY <1>1, <1>2 DEF CleanFile, FileAgrees, TypeOK, SetLead

\* Every other step leaves the file alone.
OtherStep ==
    \/ Crash
    \/ LoadPersistedState
    \/ UNCHANGED <<up, intents, teamLead, disk, torn>>

\* Crash, replay and the steps that write nothing keep file and registry equal.
LEMMA CleanOther ==
    ASSUME TypeOK, CleanFile, OtherStep
    PROVE  CleanFile' /\ disk' = disk
  BY DEF OtherStep, Crash, Die, LoadPersistedState, file, CleanFile, FileAgrees

\* Every step writes an intent, a decision or an appointment, or leaves the
\* file alone.
LEMMA StepCases ==
    ASSUME [Next]_vars
    PROVE  \/ \E i \in Intent, shape \in Shapes : CreateIntent(i, shape)
           \/ \E i \in Intent : RecordAnnouncement(i)
           \/ \E i \in Intent, answer \in Answer, who \in Actors :
                 DecideIntent(i, answer, who)
           \/ \E target \in Handle \cup {NoOne}, p \in Principals : SetLead(target, p)
           \/ OtherStep
  BY DEF Next, OtherStep, vars, memory, file, AnnounceReturns, KindHandlerStarts,
         WaitForDecision, WaiterTimeout

\* Without faults every step keeps file and registry equal.
LEMMA CleanStep ==
    ASSUME Faults = {}, TypeOK, CleanFile, [Next]_vars PROVE CleanFile'
  BY StepCases, CleanCreate, CleanRecordAnnouncement, CleanDecide, CleanSetLead,
     CleanOther

\* Replaying the state file would give exactly the registry in memory: with a
\* disk that does not fail a restart forgets no intent, decision or appointment.
THEOREM FileIsRegistry ==
    ASSUME Faults = {} PROVE Spec => []FileAgrees
<1>1. TypeOK /\ CleanFile /\ [Next]_vars => CleanFile'
  BY CleanStep
<1>2. CleanFile => FileAgrees
  BY DEF CleanFile
<1>3. QED
  BY <1>1, <1>2, CleanInit, TypeCorrect, PTL DEF Spec

-----------------------------------------------------------------------------
(* Kind handlers *)

\* With a disk that does not fail, the consumer of a kind-tagged intent runs at
\* most once for it, across restarts, and only for an answer that is on record.
THEOREM HandlersOnce ==
    ASSUME Faults = {} PROVE Spec => []HandlerOnce
<1>1. Init => HandlerOnce
  <2> SUFFICES ASSUME Init PROVE HandlerOnce
    OBVIOUS
  <2>1. handled = [i \in Intent |-> 0] /\ kindQueue = {}
    BY DEF Init
  <2> SUFFICES ASSUME NEW i \in Intent
               PROVE  /\ handled[i] + (IF i \in kindQueue THEN 1 ELSE 0) <= 1
                      /\ ~(handled[i] = 1 \/ i \in kindQueue)
    BY DEF HandlerOnce
  <2>2. handled[i] = 0 /\ i \notin kindQueue
    BY <2>1
  <2>3. QED
    BY <2>2
<1>2. TypeOK /\ CleanFile /\ KnownUsed /\ HandlerOnce /\ [Next]_vars => HandlerOnce'
  <2> SUFFICES ASSUME TypeOK, CleanFile, KnownUsed, HandlerOnce, [Next]_vars
               PROVE  HandlerOnce'
    OBVIOUS
  <2>1. ASSUME NEW i \in Intent, NEW shape \in Shapes, CreateIntent(i, shape)
        PROVE  HandlerOnce'
    <3>1. disk' = [disk EXCEPT !.intents[i] = Blank("pending", shape)]
      BY <2>1, CleanCreate
    <3>2. handled' = handled /\ kindQueue' \subseteq kindQueue
      BY <2>1 DEF CreateIntent, Die
    <3>3. disk.intents[i].status = "absent"
      BY <2>1 DEF CreateIntent, KnownUsed
    <3>4. \A j \in Intent : j # i => disk'.intents[j] = disk.intents[j]
      BY <3>1 DEF TypeOK
    <3>5. QED
      BY <3>2, <3>3, <3>4 DEF HandlerOnce, TypeOK
  <2>2. ASSUME NEW i \in Intent, RecordAnnouncement(i) PROVE HandlerOnce'
    <3>1. disk' = disk
      BY <2>2, CleanRecordAnnouncement
    <3>2. handled' = handled /\ kindQueue' \subseteq kindQueue
      BY <2>2 DEF RecordAnnouncement, Die, memory
    <3>3. QED
      BY <3>1, <3>2 DEF HandlerOnce, TypeOK
  <2>3. ASSUME NEW i \in Intent, NEW answer \in Answer, NEW who \in Actors,
               DecideIntent(i, answer, who)
        PROVE  HandlerOnce'
    <3> DEFINE r == Decided(disk.intents[i], answer, who)
    <3>1. disk' = [disk EXCEPT !.intents[i] = r]
      BY <2>3, CleanDecide
    <3>2. disk.intents[i] = intents[i] /\ disk.intents[i].status = "pending"
      BY <2>3 DEF DecideIntent, Decidable, CleanFile, FileAgrees
    <3>3. r.status = "decided" /\ r.shape = disk.intents[i].shape
      BY DEF Decided, TypeOK, Record
    <3>4. handled' = handled
          /\ \/ kindQueue' \subseteq kindQueue
             \/ (kindQueue' = kindQueue \cup {i} /\ disk.intents[i].shape.kind)
      <4>1. handled' = handled
        BY <2>3 DEF DecideIntent
      <4>2. \/ kindQueue' = {}
            \/ kindQueue' = (IF r.shape.kind THEN kindQueue \cup {i} ELSE kindQueue)
        BY <2>3, <3>2 DEF DecideIntent, Die
      <4>3. QED
        BY <3>3, <4>1, <4>2
    <3> HIDE DEF r
    <3>5. disk'.intents[i] = r
          /\ \A j \in Intent : j # i => disk'.intents[j] = disk.intents[j]
      BY <3>1 DEF TypeOK
    <3>6. handled[i] = 0 /\ i \notin kindQueue
      BY <3>2 DEF HandlerOnce, TypeOK
    <3>7. QED
      BY <3>3, <3>4, <3>5, <3>6 DEF HandlerOnce, TypeOK
  <2>4. ASSUME NEW i \in Intent, KindHandlerStarts(i) PROVE HandlerOnce'
    BY <2>4 DEF KindHandlerStarts, HandlerOnce, TypeOK, file
  <2>5. ASSUME NEW target \in Handle \cup {NoOne}, NEW p \in Principals,
               SetLead(target, p)
        PROVE  HandlerOnce'
    <3>1. disk'.intents = disk.intents
      BY <2>5, CleanSetLead DEF TypeOK
    <3>2. handled' = handled /\ kindQueue' \subseteq kindQueue
      BY <2>5 DEF SetLead, Die
    <3>3. QED
      BY <3>1, <3>2 DEF HandlerOnce, TypeOK
  <2>6. CASE UNCHANGED <<disk, handled>> /\ kindQueue' \subseteq kindQueue
    BY <2>6 DEF HandlerOnce, TypeOK
  <2>7. QED
    BY <2>1, <2>2, <2>3, <2>4, <2>5, <2>6
       DEF Next, vars, memory, file, Crash, Die, LoadPersistedState,
           AnnounceReturns, WaitForDecision, WaiterTimeout
<1>3. Init => KnownUsed
  BY DEF Init, KnownUsed, NoIntents, Absent, Blank
<1>4. TypeOK /\ CleanFile /\ [Next]_vars => CleanFile'
  BY CleanStep
<1>5. QED
  BY <1>1, <1>2, <1>3, <1>4, CleanInit, KnownUsedStep, TypeCorrect, PTL DEF Spec

-----------------------------------------------------------------------------
(* Refinement *)

\* With a disk that does not fail the registry implements DecisionRegister:
\* through crashes and restarts no intent is decided twice, nobody decides out
\* of authority, and no decision or appointment is lost.
THEOREM RegistryIsRegister ==
    ASSUME Faults = {} PROVE Spec => ImplementsRegister
<1> USE DEF Register!RegisterInit, Register!registerVars, Register!Verdict
<1>1. Init => Register!RegisterInit
  BY DEF Init, NoIntents, Absent, Blank, NoLead, Register!Vacant, Register!Lead
<1>2. TypeOK /\ CleanFile /\ KnownUsed /\ [Next]_vars
        => [Register!RegisterNext]_(Register!registerVars)
  <2> SUFFICES ASSUME TypeOK, CleanFile, KnownUsed, [Next]_vars
               PROVE  [Register!RegisterNext]_(Register!registerVars)
    OBVIOUS
  <2>1. ASSUME NEW i \in Intent, NEW shape \in Shapes, CreateIntent(i, shape)
        PROVE  Register!Raise(i)
    <3>1. disk' = [disk EXCEPT !.intents[i] = Blank("pending", shape)]
      BY <2>1, CleanCreate
    <3>2. disk.intents[i].status = "absent"
      BY <2>1 DEF CreateIntent, KnownUsed
    <3>3. disk.intents[i].decision = NoAnswer /\ disk.intents[i].by = NoOne
      BY <3>2 DEF CleanFile
    <3>4. QED
      BY <3>1, <3>2, <3>3 DEF Register!Raise, TypeOK, Blank
  <2>2. ASSUME NEW i \in Intent, NEW answer \in Answer, NEW who \in Actors,
               DecideIntent(i, answer, who)
        PROVE  who \in Handle /\ Register!Settle(i, answer, who)
    <3> DEFINE r == Decided(disk.intents[i], answer, who)
    <3>1. disk' = [disk EXCEPT !.intents[i] = r]
      BY <2>2, CleanDecide
    <3>2. disk.intents[i].status = "pending" /\ disk.intents[i].decision = NoAnswer
      BY <2>2 DEF DecideIntent, Decidable, CleanFile, FileAgrees
    <3>3. who \in Handle /\ Register!InAuthority(who)
      BY <2>2 DEF DecideIntent, Decidable, CanDecide, Register!InAuthority, CleanFile,
                  FileAgrees, Handle
    <3>4. r.status = "decided" /\ r.decision = answer /\ r.by = who
      BY DEF Decided, TypeOK, Record
    <3> HIDE DEF r
    <3>5. QED
      BY <3>1, <3>2, <3>3, <3>4 DEF Register!Settle, TypeOK
  <2>3. ASSUME NEW target \in Handle \cup {NoOne}, NEW p \in Principals,
               SetLead(target, p)
        PROVE  p \in Handle /\ Register!Appoint(p, target)
    <3>1. disk' = [disk EXCEPT !.lead = Appointed(target, p)]
      BY <2>3, CleanSetLead
    <3>2. QED
      BY <2>3, <3>1, ConfirmationsAssumption
         DEF SetLead, MaySetLead, Appointed, NoLead, Register!Appoint,
             Register!InAuthority, Register!Vacant, Register!Lead, CleanFile,
             FileAgrees, TypeOK
  <2>4. CASE disk' = disk
    BY <2>4
  <2>5. QED
    BY <2>1, <2>2, <2>3, <2>4, StepCases, CleanRecordAnnouncement, CleanOther
       DEF Register!RegisterNext
<1>3. Init => KnownUsed
  BY DEF Init, KnownUsed, NoIntents, Absent, Blank
<1>4. TypeOK /\ CleanFile /\ [Next]_vars => CleanFile'
  BY CleanStep
<1>5. QED
  BY <1>1, <1>2, <1>3, <1>4, CleanInit, KnownUsedStep, TypeCorrect, PTL
     DEF Spec, ImplementsRegister, Register!RegisterSpec

-----------------------------------------------------------------------------
(* The taps in the room: startChatReplyPoller *)

LEMMA RoomPart == AnsweredSpec => Room!Init /\ [][Room!Next]_(Room!vars)
<1>1. AnsweredInit => Room!Init
  BY DEF AnsweredInit
<1>2. [AnsweredNext]_answeredVars => [Room!Next]_(Room!vars)
  BY DEF AnsweredNext, answeredVars, roomVars, Room!vars
<1>3. QED
  BY <1>1, <1>2, PTL DEF AnsweredSpec

PollState == [st : {"idle", "fetching", "ready", "walking", "answering"}, batch : Seq(Nat)]

RoomTyped ==
    /\ room \in Seq(Room!Tap)
    /\ decided \in [Card -> [answer : Room!Answer \cup {"none"}, tap : Nat]]
    /\ seen \in [Poller -> SUBSET Nat] /\ primed \subseteq Poller
    /\ poll \in [Poller -> [Slot -> PollState]]
    /\ busy \in [Poller -> Slot \cup {NoSlot}]
    /\ notices \in Seq([by : Poller, on : Nat])
    /\ born \in [Poller -> Nat]

\* Whatever a poller holds, saw or answered is a message of the room.
Batch(p, s) == {poll[p][s].batch[k] : k \in 1..Len(poll[p][s].batch)}
InRoom ==
    /\ \A p \in Poller : born[p] <= Len(room)
    /\ \A p \in Poller, s \in Slot : Batch(p, s) \subseteq 1..Len(room)
    /\ \A n \in 1..Len(notices) : notices[n].on \in 1..Len(room)

TapsTrue ==
    \A i \in Card : decided[i].tap # 0 =>
        /\ decided[i].tap \in 1..Len(room)
        /\ room[decided[i].tap].from \in Owners /\ room[decided[i].tap].on = i
        /\ room[decided[i].tap].answer = decided[i].answer

RoomInv == RoomTyped /\ InRoom /\ TapsTrue

\* Set: one poll of one poller changes.
LEMMA SetOne ==
  ASSUME RoomTyped, NEW p \in Poller, NEW s \in Slot,
         NEW st \in {"idle", "fetching", "ready", "walking", "answering"}, NEW batch \in Seq(Nat),
         Room!Set(p, s, st, batch)
  PROVE  /\ poll' \in [Poller -> [Slot -> PollState]]
         /\ poll'[p][s].st = st /\ poll'[p][s].batch = batch
         /\ \A q \in Poller, t \in Slot : q # p \/ t # s => poll'[q][t] = poll[q][t]
<1> DEFINE new == [st |-> st, batch |-> batch]
<1>1. poll' = [poll EXCEPT ![p][s] = new]
  BY DEF Room!Set
<1>2. new \in PollState /\ new.st = st /\ new.batch = batch
  BY DEF PollState
<1> HIDE DEF new
<1>3. poll \in [Poller -> [Slot -> PollState]]
  BY DEF RoomTyped
<1>4. /\ poll' \in [Poller -> [Slot -> PollState]] /\ poll'[p][s] = new
      /\ \A q \in Poller, t \in Slot : q # p \/ t # s => poll'[q][t] = poll[q][t]
  BY <1>1, <1>2, <1>3
<1>5. QED
  BY <1>2, <1>4

\* What a fetch returns: the newest messages, all of the room.
LEMMA WindowRoom ==
  ASSUME RoomTyped
  PROVE  /\ Room!Window \in Seq(Nat)
         /\ \A k \in 1..Len(Room!Window) : Room!Window[k] \in 1..Len(room)
         /\ \A n \in 1..Len(room) :
               n + Limit <= Len(room) \/ \E k \in 1..Len(Room!Window) : Room!Window[k] = n
         /\ \A k \in 1..Len(Room!Window) : ~(Room!Window[k] + Limit <= Len(room))
<1> DEFINE size == IF Len(room) > Limit THEN Limit ELSE Len(room)
<1>1. Limit \in Nat \ {0} /\ Len(room) \in Nat
  BY RoomAssumption DEF Room!PollerAssumption, RoomTyped
<1>2. size \in Nat /\ size <= Len(room) /\ size <= Limit /\ (size = Limit \/ size = Len(room))
  BY <1>1
<1>3. Room!Window = [k \in 1..size |-> Len(room) + 1 - k]
  BY DEF Room!Window
<1> HIDE DEF size
<1>4. \A k \in 1..size : Len(room) + 1 - k \in 1..Len(room)
  BY <1>1, <1>2
<1>5. Room!Window \in Seq(Nat) /\ Len(Room!Window) = size
  BY <1>2, <1>3, <1>4
<1>6. \A k \in 1..size : Room!Window[k] = Len(room) + 1 - k
  BY <1>3
<1>7. ASSUME NEW n \in 1..Len(room), ~(n + Limit <= Len(room))
      PROVE  \E k \in 1..size : Room!Window[k] = n
  <2>1. Len(room) + 1 - n \in 1..size
    BY <1>1, <1>2, <1>7
  <2>2. Room!Window[Len(room) + 1 - n] = n
    BY <1>1, <1>6, <2>1
  <2>3. QED
    BY <2>1, <2>2
<1>8. \A k \in 1..size : ~(Room!Window[k] + Limit <= Len(room))
  BY <1>1, <1>2, <1>6
<1>9. QED
  BY <1>4, <1>5, <1>6, <1>7, <1>8

\* One message of a batch: it leaves the batch and is seen; a notice is posted by the holder, and
\* a decision is that of the tap.
LEMMA WalkOne ==
  ASSUME RoomTyped, InRoom, NEW p \in Poller, NEW s \in Slot, Room!Walk(p, s)
  PROVE  \E n \in Batch(p, s) :
            /\ n \in 1..Len(room)
            /\ seen' = [seen EXCEPT ![p] = @ \cup {n}]
            /\ poll' \in [Poller -> [Slot -> PollState]]
            /\ \A q \in Poller, t \in Slot : q # p \/ t # s => poll'[q][t] = poll[q][t]
            /\ Batch(p, s) \subseteq Batch(p, s)' \cup {n} /\ Batch(p, s)' \subseteq Batch(p, s)
            /\ \/ notices' = notices /\ busy' = busy /\ poll'[p][s].st = "walking"
               \/ /\ notices' = Append(notices, [by |-> p, on |-> n]) /\ HolderOf[room[n].on] = p
                  /\ n \notin seen[p] /\ p \in primed
                  /\ busy' = [busy EXCEPT ![p] = NoSlot] /\ poll'[p][s].st = "answering"
            /\ \/ decided' = decided
               \/ /\ room[n].from \in Owners
                  /\ decided' = [decided EXCEPT ![room[n].on] = [answer |-> room[n].answer, tap |-> n]]
            /\ UNCHANGED <<room, primed, born>>
<1> DEFINE batch == poll[p][s].batch
           n == Head(batch)
<1>1. batch \in Seq(Nat) /\ batch # << >>
  <2>1. poll[p][s] \in PollState
    BY DEF RoomTyped
  <2>2. QED
    BY <2>1 DEF PollState, Room!Walk
<1>2. /\ Tail(batch) \in Seq(Nat) /\ Len(batch) \in Nat /\ Len(batch) >= 1 /\ Len(Tail(batch)) = Len(batch) - 1
      /\ n = batch[1] /\ \A k \in 1..Len(Tail(batch)) : Tail(batch)[k] = batch[k + 1]
  BY <1>1
<1>3. Batch(p, s) = {batch[k] : k \in 1..Len(batch)}
  BY DEF Batch
<1> DEFINE rest == {Tail(batch)[k] : k \in 1..Len(Tail(batch))}
<1>4. n \in Batch(p, s) /\ rest \subseteq Batch(p, s) /\ Batch(p, s) \subseteq rest \cup {n}
  <2>1. \A k \in 1..Len(Tail(batch)) : k + 1 \in 1..Len(batch)
    BY <1>2
  <2>2. \A k \in 1..Len(batch) : k = 1 \/ k - 1 \in 1..Len(Tail(batch))
    BY <1>2
  <2>3. \A k \in 1..Len(batch) : k # 1 => Tail(batch)[k - 1] = batch[k]
    <3>1. ASSUME NEW k \in 1..Len(batch), k # 1 PROVE Tail(batch)[k - 1] = batch[k]
      <4>1. k - 1 \in 1..Len(Tail(batch)) /\ (k - 1) + 1 = k
        BY <1>2, <3>1
      <4>2. QED
        BY <1>2, <4>1
    <3>2. QED
      BY <3>1
  <2>4. 1 \in 1..Len(batch)
    BY <1>2
  <2>5. rest \subseteq Batch(p, s)
    BY <1>2, <1>3, <2>1
  <2>6. Batch(p, s) \subseteq rest \cup {n}
    BY <1>2, <1>3, <2>2, <2>3
  <2>7. QED
    BY <1>2, <1>3, <2>4, <2>5, <2>6
<1>5. n \in 1..Len(room)
  BY <1>4 DEF InRoom
<1>6. PICK st \in {"walking", "answering"} :
         /\ Room!Set(p, s, st, Tail(batch))
         /\ \/ notices' = notices /\ busy' = busy /\ st = "walking"
            \/ /\ notices' = Append(notices, [by |-> p, on |-> n]) /\ HolderOf[room[n].on] = p
               /\ n \notin seen[p] /\ p \in primed
               /\ busy' = [busy EXCEPT ![p] = NoSlot] /\ st = "answering"
  BY DEF Room!Walk, Room!Answerable
<1>7. \/ decided' = decided
      \/ /\ room[n].from \in Owners
         /\ decided' = [decided EXCEPT ![room[n].on] = [answer |-> room[n].answer, tap |-> n]]
  BY DEF Room!Walk, Room!Settle, Room!IsOwner
<1>8. seen' = [seen EXCEPT ![p] = @ \cup {n}] /\ UNCHANGED <<room, primed, born>>
  BY DEF Room!Walk
<1>9. /\ poll' \in [Poller -> [Slot -> PollState]] /\ poll'[p][s].st = st /\ poll'[p][s].batch = Tail(batch)
      /\ \A q \in Poller, t \in Slot : q # p \/ t # s => poll'[q][t] = poll[q][t]
  <2> DEFINE left == Tail(batch)
  <2>1. left \in Seq(Nat) /\ Room!Set(p, s, st, left)
    BY <1>2, <1>6
  <2>2. st \in {"idle", "fetching", "ready", "walking", "answering"}
    OBVIOUS
  <2> HIDE DEF batch, left
  <2>3. /\ poll' \in [Poller -> [Slot -> PollState]] /\ poll'[p][s].st = st /\ poll'[p][s].batch = left
        /\ \A q \in Poller, t \in Slot : q # p \/ t # s => poll'[q][t] = poll[q][t]
    BY <2>1, <2>2, SetOne
  <2>4. QED
    BY <2>3 DEF left
<1>10. Batch(p, s)' = rest
  BY <1>9 DEF Batch
<1> HIDE DEF batch, n, rest
<1>11. QED
  BY <1>4, <1>5, <1>6, <1>7, <1>8, <1>9, <1>10

\* A poll goes on without walking: what it holds is of the room still.
LEMMA PollOne ==
  ASSUME RoomInv, NEW p \in Poller, NEW s \in Slot,
         NEW st \in {"idle", "fetching", "ready", "walking", "answering"}, NEW batch \in Seq(Nat),
         \A k \in 1..Len(batch) : batch[k] \in 1..Len(room), Room!Set(p, s, st, batch),
         primed' \subseteq Poller, busy' \in [Poller -> Slot \cup {NoSlot}],
         UNCHANGED <<room, decided, seen, notices, born>>
  PROVE  RoomInv'
<1>1. /\ poll' \in [Poller -> [Slot -> PollState]]
      /\ poll'[p][s].st = st /\ poll'[p][s].batch = batch
      /\ \A q \in Poller, t \in Slot : q # p \/ t # s => poll'[q][t] = poll[q][t]
  BY SetOne DEF RoomInv
<1>2. RoomTyped'
  BY <1>1 DEF RoomInv, RoomTyped
<1>3. \A q \in Poller, t \in Slot : Batch(q, t)' \subseteq 1..Len(room)
  <2>1. Batch(p, s)' \subseteq 1..Len(room)
    BY <1>1 DEF Batch
  <2>2. \A q \in Poller, t \in Slot : q # p \/ t # s => Batch(q, t)' = Batch(q, t)
    BY <1>1 DEF Batch
  <2>3. QED
    BY <2>1, <2>2 DEF RoomInv, InRoom
<1>4. InRoom' /\ TapsTrue'
  BY <1>3 DEF RoomInv, InRoom, TapsTrue
<1>5. QED
  BY <1>2, <1>4 DEF RoomInv

\* The actions of a poll that do not walk.
LEMMA PollSteps ==
  ASSUME RoomInv, NEW p \in Poller, NEW s \in Slot,
         \/ Room!Tick(p, s) \/ Room!RoomAnswers(p, s) \/ Room!FetchFails(p, s) \/ Room!Resume(p, s)
         \/ Room!ReplyReturns(p, s) \/ Room!Finish(p, s)
  PROVE  RoomInv'
<1>1. << >> \in Seq(Nat) /\ \A k \in 1..Len(<< >>) : << >>[k] \in 1..Len(room)
  OBVIOUS
<1>2. poll[p][s].batch \in Seq(Nat) /\ \A k \in 1..Len(poll[p][s].batch) : poll[p][s].batch[k] \in 1..Len(room)
  <2>1. poll[p][s] \in PollState
    BY DEF RoomInv, RoomTyped
  <2>2. QED
    BY <2>1 DEF PollState, RoomInv, InRoom, Batch
<1>3. Room!Window \in Seq(Nat) /\ \A k \in 1..Len(Room!Window) : Room!Window[k] \in 1..Len(room)
  BY WindowRoom DEF RoomInv
<1>4. UNCHANGED <<room, decided, seen, notices, born>>
  BY DEF Room!Tick, Room!RoomAnswers, Room!FetchFails, Room!Resume, Room!ReplyReturns, Room!Finish
<1>5. primed' \subseteq Poller
  BY DEF Room!Tick, Room!RoomAnswers, Room!FetchFails, Room!Resume, Room!ReplyReturns, Room!Finish, RoomInv, RoomTyped
<1>6. busy' \in [Poller -> Slot \cup {NoSlot}]
  BY DEF Room!Tick, Room!RoomAnswers, Room!FetchFails, Room!Resume, Room!ReplyReturns, Room!Finish, RoomInv, RoomTyped
<1>7. \/ \E st \in {"idle", "fetching"} : Room!Set(p, s, st, << >>)
      \/ Room!Set(p, s, "ready", Room!Window)
      \/ \E st \in {"ready", "walking"} : Room!Set(p, s, st, poll[p][s].batch)
  BY DEF Room!Tick, Room!RoomAnswers, Room!FetchFails, Room!Resume, Room!ReplyReturns, Room!Finish
<1>8. CASE \E st \in {"idle", "fetching"} : Room!Set(p, s, st, << >>)
  BY <1>1, <1>4, <1>5, <1>6, <1>8, PollOne
<1>9. CASE Room!Set(p, s, "ready", Room!Window)
  BY <1>3, <1>4, <1>5, <1>6, <1>9, PollOne
<1>10. CASE \E st \in {"ready", "walking"} : Room!Set(p, s, st, poll[p][s].batch)
  <2> DEFINE batch == poll[p][s].batch
  <2>1. batch \in Seq(Nat) /\ (\A k \in 1..Len(batch) : batch[k] \in 1..Len(room))
        /\ \E st \in {"ready", "walking"} : Room!Set(p, s, st, batch)
    BY <1>2, <1>10
  <2> HIDE DEF batch
  <2>2. QED
    BY <1>4, <1>5, <1>6, <2>1, PollOne
<1>11. QED
  BY <1>7, <1>8, <1>9, <1>10

LEMMA PostStep == ASSUME RoomInv, NEW tap \in Room!Tap, Room!Post(tap) PROVE RoomInv'
<1>1. room' = Append(room, tap) /\ UNCHANGED <<decided, seen, primed, poll, busy, notices, born>>
  BY DEF Room!Post
<1>2. room \in Seq(Room!Tap)
  BY DEF RoomInv, RoomTyped
<1>3. room' \in Seq(Room!Tap) /\ Len(room') = Len(room) + 1 /\ Len(room) \in Nat
      /\ \A n \in 1..Len(room) : room'[n] = room[n]
  BY <1>1, <1>2
<1>4. \A n : n \in 1..Len(room) => n \in 1..Len(room')
  BY <1>3
<1>5. RoomTyped'
  BY <1>1, <1>3 DEF RoomInv, RoomTyped
<1>6. \A q \in Poller : born[q] <= Len(room')
  BY <1>3 DEF RoomInv, RoomTyped, InRoom
<1>7. \A q \in Poller, t \in Slot : Batch(q, t)' = Batch(q, t)
  BY <1>1 DEF Batch
<1>8. InRoom'
  BY <1>1, <1>4, <1>6, <1>7 DEF RoomInv, InRoom
<1>9. TapsTrue'
  BY <1>1, <1>3, <1>4 DEF RoomInv, TapsTrue
<1>10. QED
  BY <1>5, <1>8, <1>9 DEF RoomInv

LEMMA WalkStep == ASSUME RoomInv, NEW p \in Poller, NEW s \in Slot, Room!Walk(p, s) PROVE RoomInv'
<1>1. PICK n \in Batch(p, s) :
         /\ n \in 1..Len(room)
         /\ seen' = [seen EXCEPT ![p] = @ \cup {n}]
         /\ poll' \in [Poller -> [Slot -> PollState]]
         /\ \A q \in Poller, t \in Slot : q # p \/ t # s => poll'[q][t] = poll[q][t]
         /\ Batch(p, s)' \subseteq Batch(p, s)
         /\ \/ notices' = notices /\ busy' = busy
            \/ notices' = Append(notices, [by |-> p, on |-> n]) /\ busy' = [busy EXCEPT ![p] = NoSlot]
         /\ \/ decided' = decided
            \/ /\ room[n].from \in Owners
               /\ decided' = [decided EXCEPT ![room[n].on] = [answer |-> room[n].answer, tap |-> n]]
         /\ UNCHANGED <<room, primed, born>>
  BY WalkOne DEF RoomInv
<1>2. n \in Nat /\ n # 0
  BY <1>1
<1>3. room[n].on \in Card /\ room[n].answer \in Room!Answer
  <2>1. room[n] \in Room!Tap
    BY <1>1 DEF RoomInv, RoomTyped
  <2>2. QED
    BY <2>1 DEF Room!Tap
<1>4. notices' \in Seq([by : Poller, on : Nat]) /\ \A k \in 1..Len(notices') : notices'[k].on \in 1..Len(room)
  <2>1. notices \in Seq([by : Poller, on : Nat]) /\ \A k \in 1..Len(notices) : notices[k].on \in 1..Len(room)
    BY DEF RoomInv, RoomTyped, InRoom
  <2> DEFINE notice == [by |-> p, on |-> n]
  <2>2. notice \in [by : Poller, on : Nat] /\ notice.on = n
    BY <1>2
  <2>3. notices' = notices \/ notices' = Append(notices, notice)
    BY <1>1
  <2> HIDE DEF notice
  <2>4. CASE notices' = notices
    BY <2>1, <2>4
  <2>5. CASE notices' = Append(notices, notice)
    <3>1. /\ notices' \in Seq([by : Poller, on : Nat]) /\ Len(notices') = Len(notices) + 1 /\ Len(notices) \in Nat
          /\ notices'[Len(notices) + 1] = notice /\ \A k \in 1..Len(notices) : notices'[k] = notices[k]
      BY <2>1, <2>2, <2>5
    <3>2. \A k \in 1..Len(notices') : k \in 1..Len(notices) \/ k = Len(notices) + 1
      BY <3>1
    <3>3. QED
      BY <1>1, <2>1, <2>2, <3>1, <3>2
  <2>6. QED
    BY <2>3, <2>4, <2>5
<1>5. /\ decided' \in [Card -> [answer : Room!Answer \cup {"none"}, tap : Nat]]
      /\ TapsTrue'
  <2>1. CASE decided' = decided
    BY <1>1, <2>1 DEF RoomInv, RoomTyped, TapsTrue
  <2>2. CASE /\ room[n].from \in Owners
             /\ decided' = [decided EXCEPT ![room[n].on] = [answer |-> room[n].answer, tap |-> n]]
    <3> DEFINE verdict == [answer |-> room[n].answer, tap |-> n]
               card == room[n].on
    <3>1. verdict \in [answer : Room!Answer \cup {"none"}, tap : Nat]
          /\ verdict.tap = n /\ verdict.answer = room[n].answer
      BY <1>2, <1>3
    <3>2. decided' = [decided EXCEPT ![card] = verdict] /\ card \in Card
      BY <1>3, <2>2
    <3> HIDE DEF verdict
    <3>3. decided' \in [Card -> [answer : Room!Answer \cup {"none"}, tap : Nat]] /\ decided'[card] = verdict
          /\ \A i \in Card : i # card => decided'[i] = decided[i]
      BY <3>1, <3>2 DEF RoomInv, RoomTyped
    <3>4. TapsTrue'
      BY <1>1, <2>2, <3>1, <3>3 DEF RoomInv, TapsTrue
    <3>5. QED
      BY <3>3, <3>4
  <2>3. QED
    BY <1>1, <2>1, <2>2
<1>6. seen' \in [Poller -> SUBSET Nat] /\ busy' \in [Poller -> Slot \cup {NoSlot}]
  BY <1>1, <1>2 DEF RoomInv, RoomTyped
<1>7. RoomTyped'
  BY <1>1, <1>4, <1>5, <1>6 DEF RoomInv, RoomTyped
<1>8. \A q \in Poller, t \in Slot : Batch(q, t)' \subseteq 1..Len(room)
  <2>1. \A q \in Poller, t \in Slot : q # p \/ t # s => Batch(q, t)' = Batch(q, t)
    BY <1>1 DEF Batch
  <2>2. QED
    BY <1>1, <2>1 DEF RoomInv, InRoom
<1>9. InRoom'
  BY <1>1, <1>4, <1>8 DEF RoomInv, InRoom
<1>10. QED
  BY <1>5, <1>7, <1>9 DEF RoomInv

LEMMA RestartStep == ASSUME RoomInv, NEW p \in Poller, Room!Restart(p) PROVE RoomInv'
<1>1. /\ seen' = [seen EXCEPT ![p] = {}] /\ primed' = primed \ {p}
      /\ poll' = [poll EXCEPT ![p] = [s \in Slot |-> Room!Idle]] /\ busy' = [busy EXCEPT ![p] = NoSlot]
      /\ born' = [born EXCEPT ![p] = Len(room)] /\ UNCHANGED <<room, decided, notices>>
  BY DEF Room!Restart
<1>2. Room!Idle \in PollState /\ Room!Idle.batch = << >> /\ Len(room) \in Nat
  BY DEF Room!Idle, PollState, RoomInv, RoomTyped
<1>3. \A s \in Slot : poll'[p][s] = Room!Idle
  BY <1>1 DEF RoomInv, RoomTyped
<1>4. \A q \in Poller : q # p => poll'[q] = poll[q]
  BY <1>1 DEF RoomInv, RoomTyped
<1>5. poll' \in [Poller -> [Slot -> PollState]]
  BY <1>1, <1>2 DEF RoomInv, RoomTyped
<1>6. born' \in [Poller -> Nat] /\ \A q \in Poller : born'[q] <= Len(room)
  BY <1>1, <1>2 DEF RoomInv, RoomTyped, InRoom
<1>7. RoomTyped'
  BY <1>1, <1>5, <1>6 DEF RoomInv, RoomTyped
<1>8. \A q \in Poller, t \in Slot : Batch(q, t)' \subseteq 1..Len(room)
  <2>1. \A t \in Slot : Batch(p, t)' = {}
    BY <1>2, <1>3 DEF Batch
  <2>2. \A q \in Poller, t \in Slot : q # p => Batch(q, t)' = Batch(q, t)
    BY <1>4 DEF Batch
  <2>3. QED
    BY <2>1, <2>2 DEF RoomInv, InRoom
<1>9. InRoom' /\ TapsTrue'
  BY <1>1, <1>6, <1>8 DEF RoomInv, InRoom, TapsTrue
<1>10. QED
  BY <1>7, <1>9 DEF RoomInv

LEMMA RoomStart == Room!Init => RoomInv
<1> SUFFICES ASSUME Room!Init PROVE RoomInv
  OBVIOUS
<1>1. /\ room = << >> /\ decided = [i \in Card |-> Room!NoDecision] /\ seen = [p \in Poller |-> {}] /\ primed = {}
      /\ poll = [p \in Poller |-> [s \in Slot |-> Room!Idle]] /\ busy = [p \in Poller |-> NoSlot]
      /\ notices = << >> /\ born = [p \in Poller |-> 0]
  BY DEF Room!Init
<1>2. Room!Idle \in PollState /\ Room!Idle.batch = << >>
  BY DEF Room!Idle, PollState
<1>3. \A i \in Card : decided[i] \in [answer : Room!Answer \cup {"none"}, tap : Nat] /\ decided[i].tap = 0
  BY <1>1 DEF Room!NoDecision
<1>4. decided \in [Card -> [answer : Room!Answer \cup {"none"}, tap : Nat]]
  BY <1>1, <1>3
<1>5. poll \in [Poller -> [Slot -> PollState]] /\ \A p \in Poller, s \in Slot : poll[p][s] = Room!Idle
  BY <1>1, <1>2
<1>6. RoomTyped
  BY <1>1, <1>4, <1>5 DEF RoomTyped
<1>7. InRoom
  BY <1>1, <1>2, <1>5 DEF InRoom, Batch
<1>8. QED
  BY <1>3, <1>6, <1>7 DEF RoomInv, TapsTrue

LEMMA RoomSteps == ASSUME RoomInv, [Room!Next]_(Room!vars) PROVE RoomInv'
<1>1. ASSUME NEW i \in Card, NEW answer \in Room!Answer, Room!DecideElsewhere(i, answer) PROVE RoomInv'
  <2> DEFINE verdict == [answer |-> answer, tap |-> 0]
  <2>1. decided' = [decided EXCEPT ![i] = verdict] /\ UNCHANGED <<room, seen, primed, poll, busy, notices, born>>
    BY <1>1 DEF Room!DecideElsewhere, Room!Settle
  <2>2. verdict \in [answer : Room!Answer \cup {"none"}, tap : Nat] /\ verdict.tap = 0
    OBVIOUS
  <2> HIDE DEF verdict
  <2>3. decided' \in [Card -> [answer : Room!Answer \cup {"none"}, tap : Nat]] /\ decided'[i] = verdict
        /\ \A j \in Card : j # i => decided'[j] = decided[j]
    BY <2>1, <2>2 DEF RoomInv, RoomTyped
  <2>4. TapsTrue'
    BY <2>1, <2>2, <2>3 DEF RoomInv, TapsTrue
  <2>5. QED
    BY <2>1, <2>3, <2>4 DEF RoomInv, RoomTyped, InRoom, Batch
<1>2. CASE UNCHANGED Room!vars
  BY <1>2 DEF Room!vars, RoomInv, RoomTyped, InRoom, TapsTrue, Batch
<1>3. QED
  BY <1>1, <1>2, PostStep, PollSteps, WalkStep, RestartStep DEF Room!Next

\* An intent settled from the room was settled by a tap of an owner on that very intent, with
\* that tap's answer, however many polls of however many daemons are under way together.
THEOREM OwnersOnly == AnsweredSpec => []OwnersSettle
<1>1. RoomInv /\ [Room!Next]_(Room!vars) => RoomInv'
  BY RoomSteps
<1>2. RoomInv => OwnersSettle
  BY DEF RoomInv, TapsTrue, OwnersSettle, Room!OwnersSettle, Room!Tapped
<1>3. QED
  BY <1>1, <1>2, RoomPart, RoomStart, PTL

\* The one poll of a daemon: once a first pass is over, what it fetches of the time before the
\* daemon was started has been seen; during that pass, it is seen or in the batch.
Historical(p, n) == n <= born[p]
OutOfReach(n) == n + Limit <= Len(room)
FirstPass(p, s) ==
    /\ p \in primed => \A n \in 1..Len(room) : Historical(p, n) => n \in seen[p] \/ OutOfReach(n)
    /\ p \in primed => \A n \in Batch(p, s) : Historical(p, n) => n \in seen[p]
    /\ p \notin primed => poll[p][s].st # "answering"
    /\ p \notin primed /\ poll[p][s].st \in {"ready", "walking"} =>
          \A n \in 1..Len(room) : Historical(p, n) => n \in seen[p] \/ n \in Batch(p, s) \/ OutOfReach(n)
    /\ busy[p] = s => poll[p][s].st = "walking"

\* A notice is the holder's, who has seen its message in this life or was started after it.
NoticesKnown ==
    \A k \in 1..Len(notices) :
        /\ notices[k].by = HolderOf[room[notices[k].on].on]
        /\ notices[k].on \in seen[notices[k].by] \/ Historical(notices[k].by, notices[k].on)

NoticesOnce == \A j, k \in 1..Len(notices) : notices[j].on = notices[k].on => j = k

Passes(s) == \A p \in Poller : FirstPass(p, s)
NoticeInv(s) == RoomInv /\ Passes(s) /\ NoticesKnown /\ NoticesOnce

LEMMA NoticeFields ==
  ASSUME RoomTyped, NEW k \in 1..Len(notices) PROVE notices[k].by \in Poller /\ notices[k].on \in Nat
<1> DEFINE Notice == [by : Poller, on : Nat]
<1>1. notices \in Seq(Notice)
  BY DEF RoomTyped
<1> HIDE DEF Notice
<1>2. notices[k] \in Notice
  BY <1>1
<1>3. QED
  BY <1>2 DEF Notice

\* What a poll of p changes leaves the polls of the other daemons alone.
LEMMA PassKept ==
  ASSUME NEW s, NEW p \in Poller, FirstPass(p, s), poll'[p][s] = poll[p][s], seen'[p] = seen[p],
         p \in primed' <=> p \in primed, busy'[p] = busy[p], UNCHANGED <<room, born>>
  PROVE  FirstPass(p, s)'
BY DEF FirstPass, Historical, OutOfReach, Batch

\* The actions of a poll that do not walk.
LEMMA PassSteps ==
  ASSUME NEW s, Slot = {s}, RoomInv, Passes(s), NEW p \in Poller,
         \/ Room!Tick(p, s) \/ Room!RoomAnswers(p, s) \/ Room!FetchFails(p, s) \/ Room!Resume(p, s)
         \/ Room!ReplyReturns(p, s) \/ Room!Finish(p, s)
  PROVE  Passes(s)'
<1>1. UNCHANGED <<room, seen, born>> /\ s \in Slot
  BY DEF Room!Tick, Room!RoomAnswers, Room!FetchFails, Room!Resume, Room!ReplyReturns, Room!Finish
<1>2. FirstPass(p, s) /\ p \in DOMAIN busy /\ NoSlot # s
  BY <1>1, RoomAssumption DEF Passes, RoomInv, RoomTyped, Room!PollerAssumption
<1>3. poll[p][s].batch \in Seq(Nat) /\ << >> \in Seq(Nat)
  <2>1. poll[p][s] \in PollState
    BY <1>1 DEF RoomInv, RoomTyped
  <2>2. QED
    BY <2>1 DEF PollState
<1> DEFINE batch == poll[p][s].batch
<1>4. Batch(p, s) = {batch[k] : k \in 1..Len(batch)}
  BY DEF Batch
<1>5. ASSUME NEW st \in {"idle", "fetching", "ready", "walking", "answering"}, NEW left \in Seq(Nat),
             Room!Set(p, s, st, left)
      PROVE  /\ poll'[p][s].st = st /\ poll'[p][s].batch = left
             /\ Batch(p, s)' = {left[k] : k \in 1..Len(left)}
             /\ \A q \in Poller : q # p => poll'[q][s] = poll[q][s]
  <2>1. /\ poll'[p][s].st = st /\ poll'[p][s].batch = left
        /\ \A q \in Poller, t \in Slot : q # p \/ t # s => poll'[q][t] = poll[q][t]
    BY <1>1, <1>5, SetOne DEF RoomInv
  <2>2. QED
    BY <1>1, <2>1 DEF Batch
<1>6. Room!Tick(p, s) \/ Room!FetchFails(p, s) =>
         /\ \E st \in {"idle", "fetching"} : Room!Set(p, s, st, << >>)
         /\ UNCHANGED <<primed, busy>> /\ poll[p][s].st \in {"idle", "fetching"}
  BY DEF Room!Tick, Room!FetchFails
<1> HIDE DEF batch
<1>7. CASE Room!Tick(p, s) \/ Room!FetchFails(p, s)
  <2>1. PICK st \in {"idle", "fetching"} : Room!Set(p, s, st, << >>)
    BY <1>6, <1>7
  <2>2. /\ poll'[p][s].st = st /\ Batch(p, s)' = {}
        /\ \A q \in Poller : q # p => poll'[q][s] = poll[q][s]
    <3>1. {<< >>[k] : k \in 1..Len(<< >>)} = {}
      OBVIOUS
    <3>2. QED
      BY <1>3, <1>5, <2>1, <3>1
  <2>3. FirstPass(p, s)'
    BY <1>1, <1>2, <1>6, <1>7, <2>2 DEF FirstPass, Historical, OutOfReach
  <2>4. QED
    BY <1>1, <1>6, <1>7, <2>2, <2>3, PassKept DEF Passes
<1>8. CASE Room!RoomAnswers(p, s)
  <2>1. Room!Set(p, s, "ready", Room!Window) /\ UNCHANGED <<primed, busy>> /\ poll[p][s].st = "fetching"
    BY <1>8 DEF Room!RoomAnswers
  <2>2. /\ Room!Window \in Seq(Nat)
        /\ \A k \in 1..Len(Room!Window) : Room!Window[k] \in 1..Len(room)
        /\ \A n \in 1..Len(room) : OutOfReach(n) \/ \E k \in 1..Len(Room!Window) : Room!Window[k] = n
        /\ \A k \in 1..Len(Room!Window) : ~OutOfReach(Room!Window[k])
    BY WindowRoom DEF RoomInv, OutOfReach
  <2>3. /\ poll'[p][s].st = "ready" /\ Batch(p, s)' = {Room!Window[k] : k \in 1..Len(Room!Window)}
        /\ \A q \in Poller : q # p => poll'[q][s] = poll[q][s]
    BY <1>5, <2>1, <2>2
  <2>4. /\ \A n \in 1..Len(room) : OutOfReach(n) \/ n \in Batch(p, s)'
        /\ \A n \in Batch(p, s)' : n \in 1..Len(room) /\ ~OutOfReach(n)
    BY <2>2, <2>3
  <2>5. FirstPass(p, s)'
    <3>1. \A n : Historical(p, n)' <=> Historical(p, n)
      BY <1>1 DEF Historical
    <3>2. \A n : OutOfReach(n)' <=> OutOfReach(n)
      BY <1>1 DEF OutOfReach
    <3>3. busy[p] # s
      BY <1>2, <2>1 DEF FirstPass
    <3>4. QED
      BY <1>1, <1>2, <2>1, <2>3, <2>4, <3>1, <3>2, <3>3 DEF FirstPass
  <2>6. QED
    BY <1>1, <2>1, <2>3, <2>5, PassKept DEF Passes
<1>9. CASE Room!Resume(p, s) \/ Room!ReplyReturns(p, s)
  <2>1. PICK st \in {"ready", "walking"} :
           /\ Room!Set(p, s, st, batch) /\ primed' = primed
           /\ st = "ready" => busy' = busy /\ poll[p][s].st = "answering"
           /\ st = "walking" => busy' = [busy EXCEPT ![p] = s] /\ poll[p][s].st = "ready"
    BY <1>9 DEF Room!Resume, Room!ReplyReturns, batch
  <2>2. /\ poll'[p][s].st = st /\ Batch(p, s)' = Batch(p, s)
        /\ \A q \in Poller : q # p => poll'[q][s] = poll[q][s]
    <3>1. batch \in Seq(Nat)
      BY <1>3 DEF batch
    <3>2. QED
      BY <1>4, <1>5, <2>1, <3>1
  <2>3. FirstPass(p, s)'
    <3>1. \A n : Historical(p, n)' <=> Historical(p, n)
      BY <1>1 DEF Historical
    <3>2. \A n : OutOfReach(n)' <=> OutOfReach(n)
      BY <1>1 DEF OutOfReach
    <3>3. CASE st = "ready"
      BY <1>1, <1>2, <2>1, <2>2, <3>1, <3>2, <3>3 DEF FirstPass
    <3>4. CASE st = "walking"
      BY <1>1, <1>2, <2>1, <2>2, <3>1, <3>2, <3>4 DEF FirstPass
    <3>5. QED
      BY <3>3, <3>4
  <2>4. \A q \in Poller : q # p => busy'[q] = busy[q]
    BY <2>1 DEF RoomInv, RoomTyped
  <2>5. QED
    BY <1>1, <2>1, <2>2, <2>3, <2>4, PassKept DEF Passes
<1>10. CASE Room!Finish(p, s)
  <2>1. /\ busy[p] = s /\ batch = << >> /\ primed' = primed \cup {p} /\ Room!Set(p, s, "idle", << >>)
        /\ busy' = [busy EXCEPT ![p] = NoSlot]
    BY <1>10 DEF Room!Finish, batch
  <2>2. /\ poll'[p][s].st = "idle" /\ Batch(p, s)' = {} /\ Batch(p, s) = {}
        /\ \A q \in Poller : q # p => poll'[q][s] = poll[q][s]
    <3>1. {<< >>[k] : k \in 1..Len(<< >>)} = {}
      OBVIOUS
    <3>2. Batch(p, s) = {<< >>[k] : k \in 1..Len(<< >>)}
      BY <1>4, <2>1
    <3>3. QED
      BY <1>3, <1>5, <2>1, <3>1, <3>2
  <2>3. busy'[p] # s /\ \A q \in Poller : q # p => busy'[q] = busy[q]
    BY <1>2, <2>1 DEF RoomInv, RoomTyped
  <2>4. \A n \in 1..Len(room) : Historical(p, n) => n \in seen[p] \/ OutOfReach(n)
    BY <1>2, <2>1, <2>2 DEF FirstPass
  <2>5. FirstPass(p, s)'
    <3>1. \A n : Historical(p, n)' <=> Historical(p, n)
      BY <1>1 DEF Historical
    <3>2. \A n : OutOfReach(n)' <=> OutOfReach(n)
      BY <1>1 DEF OutOfReach
    <3>3. QED
      BY <1>1, <2>1, <2>2, <2>3, <2>4, <3>1, <3>2 DEF FirstPass
  <2>6. QED
    BY <1>1, <2>1, <2>2, <2>3, <2>5, PassKept DEF Passes
<1>11. QED
  BY <1>7, <1>8, <1>9, <1>10

\* A message is walked once it is new: then no notice on it is there.
LEMMA NoticeWalk ==
  ASSUME NEW s, Slot = {s}, NoticeInv(s), NEW p \in Poller, Room!Walk(p, s) PROVE NoticeInv(s)'
<1>1. RoomInv' /\ s \in Slot
  BY WalkStep DEF NoticeInv
<1>2. PICK n \in Batch(p, s) :
         /\ n \in 1..Len(room)
         /\ seen' = [seen EXCEPT ![p] = @ \cup {n}]
         /\ \A q \in Poller, t \in Slot : q # p \/ t # s => poll'[q][t] = poll[q][t]
         /\ Batch(p, s) \subseteq Batch(p, s)' \cup {n} /\ Batch(p, s)' \subseteq Batch(p, s)
         /\ \/ notices' = notices /\ busy' = busy /\ poll'[p][s].st = "walking"
            \/ /\ notices' = Append(notices, [by |-> p, on |-> n]) /\ HolderOf[room[n].on] = p
               /\ n \notin seen[p] /\ p \in primed
               /\ busy' = [busy EXCEPT ![p] = NoSlot] /\ poll'[p][s].st = "answering"
         /\ UNCHANGED <<room, primed, born>>
  BY <1>1, WalkOne DEF NoticeInv, RoomInv
<1>3. seen'[p] = seen[p] \cup {n} /\ \A q \in Poller : seen[q] \subseteq seen'[q] /\ (q # p => seen'[q] = seen[q])
  BY <1>2 DEF NoticeInv, RoomInv, RoomTyped
<1>4. \A q, m : (Historical(q, m)' <=> Historical(q, m)) /\ (OutOfReach(m)' <=> OutOfReach(m))
  BY <1>2 DEF Historical, OutOfReach
<1>5. NoSlot # s /\ busy[p] = s
  BY <1>1, RoomAssumption DEF Room!PollerAssumption, Room!Walk
<1>6. Passes(s)'
  <2>1. FirstPass(p, s)
    BY DEF NoticeInv, Passes
  <2>2. poll[p][s].st = "walking"
    BY <1>5, <2>1 DEF FirstPass
  <2>3. busy'[p] = s => poll'[p][s].st = "walking"
    BY <1>2, <1>5 DEF NoticeInv, RoomInv, RoomTyped
  <2>4. \A q \in Poller : q # p => busy'[q] = busy[q]
    BY <1>2 DEF NoticeInv, RoomInv, RoomTyped
  <2>5. FirstPass(p, s)'
    BY <1>2, <1>3, <1>4, <2>1, <2>2, <2>3 DEF FirstPass
  <2>6. QED
    BY <1>1, <1>2, <1>3, <2>4, <2>5, PassKept DEF NoticeInv, Passes
<1>7. CASE notices' = notices
  <2>1. \A k \in 1..Len(notices) : notices[k].by \in Poller
    BY NoticeFields DEF NoticeInv, RoomInv
  <2>2. NoticesKnown'
    BY <1>2, <1>3, <1>4, <1>7, <2>1 DEF NoticeInv, NoticesKnown
  <2>3. QED
    BY <1>1, <1>6, <1>7, <2>2 DEF NoticeInv, NoticesOnce
<1>8. CASE /\ notices' = Append(notices, [by |-> p, on |-> n]) /\ HolderOf[room[n].on] = p
           /\ n \notin seen[p] /\ p \in primed
  <2> DEFINE notice == [by |-> p, on |-> n]
  <2>1. notices \in Seq([by : Poller, on : Nat]) /\ notice.by = p /\ notice.on = n
        /\ notice \in [by : Poller, on : Nat]
    BY <1>2 DEF NoticeInv, RoomInv, RoomTyped
  <2>2. notices' = Append(notices, notice)
    BY <1>8
  <2> HIDE DEF notice
  <2>3. /\ Len(notices') = Len(notices) + 1 /\ Len(notices) \in Nat /\ notices'[Len(notices) + 1] = notice
        /\ \A k \in 1..Len(notices) : notices'[k] = notices[k]
    BY <2>1, <2>2
  <2>4. \A k \in 1..Len(notices') : k \in 1..Len(notices) \/ k = Len(notices) + 1
    BY <2>3
  <2>5. \A k \in 1..Len(notices) : notices[k].by \in Poller
    BY NoticeFields DEF NoticeInv, RoomInv
  <2>6. ~Historical(p, n)
    BY <1>8 DEF NoticeInv, Passes, FirstPass
  <2>7. \A k \in 1..Len(notices) : notices[k].on # n
    BY <1>8, <2>6 DEF NoticeInv, NoticesKnown
  <2>8. NoticesKnown'
    BY <1>2, <1>3, <1>4, <1>8, <2>1, <2>3, <2>4, <2>5 DEF NoticeInv, NoticesKnown
  <2>9. NoticesOnce'
    BY <2>1, <2>3, <2>4, <2>7 DEF NoticeInv, NoticesOnce
  <2>10. QED
    BY <1>1, <1>6, <2>8, <2>9 DEF NoticeInv
<1>9. QED
  BY <1>2, <1>7, <1>8

\* Killed and started again: all the notices are on messages of before.
LEMMA NoticeRestart ==
  ASSUME NEW s, Slot = {s}, NoticeInv(s), NEW p \in Poller, Room!Restart(p) PROVE NoticeInv(s)'
<1>1. RoomInv' /\ s \in Slot
  BY RestartStep DEF NoticeInv
<1>2. /\ seen' = [seen EXCEPT ![p] = {}] /\ primed' = primed \ {p}
      /\ poll' = [poll EXCEPT ![p] = [t \in Slot |-> Room!Idle]] /\ busy' = [busy EXCEPT ![p] = NoSlot]
      /\ born' = [born EXCEPT ![p] = Len(room)] /\ UNCHANGED <<room, notices>>
  BY DEF Room!Restart
<1>3. /\ poll'[p][s] = Room!Idle /\ busy'[p] = NoSlot /\ NoSlot # s /\ born'[p] = Len(room)
      /\ \A q \in Poller : q # p =>
            poll'[q] = poll[q] /\ busy'[q] = busy[q] /\ seen'[q] = seen[q] /\ born'[q] = born[q]
  BY <1>1, <1>2, RoomAssumption DEF NoticeInv, RoomInv, RoomTyped, Room!PollerAssumption
<1>4. FirstPass(p, s)'
  BY <1>2, <1>3 DEF FirstPass, Room!Idle
<1>5. ASSUME NEW q \in Poller, q # p PROVE FirstPass(q, s)'
  BY <1>2, <1>3, <1>5 DEF NoticeInv, Passes, FirstPass, Historical, OutOfReach, Batch
<1>6. NoticesKnown'
  <2>1. \A k \in 1..Len(notices) : notices[k].by \in Poller /\ notices[k].on \in 1..Len(room)
    BY NoticeFields DEF NoticeInv, RoomInv, InRoom
  <2>2. \A k \in 1..Len(notices) : notices[k].by = p => Historical(p, notices[k].on)'
    BY <1>2, <1>3, <2>1 DEF Historical
  <2>3. \A k \in 1..Len(notices) : notices[k].by # p =>
           /\ seen'[notices[k].by] = seen[notices[k].by]
           /\ Historical(notices[k].by, notices[k].on)' <=> Historical(notices[k].by, notices[k].on)
    BY <1>2, <1>3, <2>1 DEF Historical
  <2>4. QED
    BY <1>2, <2>1, <2>2, <2>3 DEF NoticeInv, NoticesKnown
<1>7. QED
  BY <1>1, <1>2, <1>4, <1>5, <1>6 DEF NoticeInv, Passes, NoticesOnce

\* The room grows: what was out of reach stays so, and what is new is not of the past.
LEMMA NoticePost ==
  ASSUME NEW s, Slot = {s}, NoticeInv(s), NEW tap \in Room!Tap, Room!Post(tap) PROVE NoticeInv(s)'
<1>1. RoomInv'
  BY PostStep DEF NoticeInv
<1>2. room' = Append(room, tap) /\ UNCHANGED <<decided, seen, primed, poll, busy, notices, born>>
  BY DEF Room!Post
<1>3. room' \in Seq(Room!Tap) /\ Len(room') = Len(room) + 1 /\ Len(room) \in Nat
      /\ \A n \in 1..Len(room) : room'[n] = room[n]
  BY <1>2 DEF NoticeInv, RoomInv, RoomTyped
<1>4. Limit \in Nat
  BY RoomAssumption DEF Room!PollerAssumption
<1>5. \A n \in 1..Len(room') : n \in 1..Len(room) \/ n = Len(room) + 1
  BY <1>3
<1>6. \A n \in 1..Len(room) : OutOfReach(n) => OutOfReach(n)'
  BY <1>3, <1>4 DEF OutOfReach
<1>7. \A q \in Poller : ~Historical(q, Len(room) + 1)
  BY <1>3 DEF NoticeInv, RoomInv, RoomTyped, InRoom, Historical
<1>8. \A q, n : Historical(q, n)' <=> Historical(q, n)
  BY <1>2 DEF Historical
<1>9. \A q : Batch(q, s)' = Batch(q, s)
  BY <1>2 DEF Batch
<1>10. ASSUME NEW q \in Poller PROVE FirstPass(q, s)'
  <2>1. FirstPass(q, s)
    BY DEF NoticeInv, Passes
  <2>2. \A n \in 1..Len(room') : Historical(q, n)' => n \in 1..Len(room) /\ Historical(q, n)
    BY <1>5, <1>7, <1>8
  <2>3. QED
    BY <1>2, <1>6, <1>8, <1>9, <2>1, <2>2 DEF FirstPass
<1>11. NoticesKnown' /\ NoticesOnce'
  <2>1. \A k \in 1..Len(notices) : notices[k].on \in 1..Len(room)
    BY DEF NoticeInv, RoomInv, InRoom
  <2>2. QED
    BY <1>2, <1>3, <1>8, <2>1 DEF NoticeInv, NoticesKnown, NoticesOnce
<1>12. QED
  BY <1>1, <1>10, <1>11 DEF NoticeInv, Passes

\* A tap is refused in the room at most once, by the one daemon that could have acted on it,
\* however many poll the room and however often they restart, while no daemon's polls overlap.
THEOREM NoticedOnce == ASSUME NEW s, Slot = {s} PROVE AnsweredSpec => []OneNotice
<1>1. Room!Init => NoticeInv(s)
  <2> SUFFICES ASSUME Room!Init PROVE NoticeInv(s)
    OBVIOUS
  <2>1. RoomInv
    BY RoomStart
  <2>2. /\ primed = {} /\ notices = << >> /\ s \in Slot /\ NoSlot # s
        /\ \A p \in Poller : poll[p][s] = Room!Idle /\ busy[p] = NoSlot
    BY RoomAssumption DEF Room!Init, Room!PollerAssumption
  <2>3. Passes(s)
    BY <2>2 DEF Passes, FirstPass, Room!Idle
  <2>4. NoticesKnown /\ NoticesOnce
    BY <2>2 DEF NoticesKnown, NoticesOnce
  <2>5. QED
    BY <2>1, <2>3, <2>4 DEF NoticeInv
<1>2. NoticeInv(s) /\ [Room!Next]_(Room!vars) => NoticeInv(s)'
  <2> SUFFICES ASSUME NoticeInv(s), [Room!Next]_(Room!vars) PROVE NoticeInv(s)'
    OBVIOUS
  <2>1. RoomInv'
    BY RoomSteps DEF NoticeInv
  <2>2. ASSUME NEW p \in Poller,
               \/ Room!Tick(p, s) \/ Room!RoomAnswers(p, s) \/ Room!FetchFails(p, s) \/ Room!Resume(p, s)
               \/ Room!ReplyReturns(p, s) \/ Room!Finish(p, s)
        PROVE  NoticeInv(s)'
    <3>1. Passes(s)'
      BY <2>2, PassSteps DEF NoticeInv
    <3>2. UNCHANGED <<room, seen, notices, born>>
      BY <2>2 DEF Room!Tick, Room!RoomAnswers, Room!FetchFails, Room!Resume, Room!ReplyReturns, Room!Finish
    <3>3. QED
      BY <2>1, <3>1, <3>2 DEF NoticeInv, NoticesKnown, NoticesOnce, Historical
  <2>3. ASSUME UNCHANGED <<room, seen, primed, poll, busy, notices, born>> PROVE NoticeInv(s)'
    <3>1. Passes(s)'
      BY <2>3 DEF NoticeInv, Passes, FirstPass, Historical, OutOfReach, Batch
    <3>2. QED
      BY <2>1, <2>3, <3>1 DEF NoticeInv, NoticesKnown, NoticesOnce, Historical
  <2>4. CASE \/ \E i \in Card, answer \in Room!Answer : Room!DecideElsewhere(i, answer)
             \/ UNCHANGED Room!vars
    BY <2>3, <2>4 DEF Room!DecideElsewhere, Room!vars
  <2>5. CASE \E tap \in Room!Tap : Room!Post(tap)
    BY <2>5, NoticePost
  <2>6. CASE \E p \in Poller : Room!Walk(p, s) \/ Room!Restart(p)
    BY <2>6, NoticeWalk, NoticeRestart
  <2>7. QED
    BY <2>2, <2>4, <2>5, <2>6 DEF Room!Next
<1>3. NoticeInv(s) => OneNotice
  <2> SUFFICES ASSUME NoticeInv(s) PROVE OneNotice
    OBVIOUS
  <2>1. DOMAIN notices = 1..Len(notices)
    BY DEF NoticeInv, RoomInv, RoomTyped
  <2>2. QED
    BY <2>1 DEF NoticeInv, NoticesKnown, NoticesOnce, OneNotice, Room!OneNotice
<1>4. QED
  BY <1>1, <1>2, <1>3, RoomPart, PTL
=============================================================================
