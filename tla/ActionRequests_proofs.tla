------------------------ MODULE ActionRequests_proofs -------------------------
(***************************************************************************)
(* Proofs about typed action requests, for every set of requests, nonces   *)
(* and deciders, and every number of crashes.                              *)
(***************************************************************************)
EXTENDS Decided, Sequences, TLAPS

Pushed == {"none", "pending", "processing", "approved", "denied", "completed",
           "failed", "expired"}

-----------------------------------------------------------------------------
(* Type correctness *)

\* What is mirrored to the status store is one of its statuses.
LEMMA PushType ==
    ASSUME TypeOK, NEW q \in Request,
           NEW status \in Status \cup {"approved"}, PushStatus(q, status)
    PROVE  pushed' \in [Request -> Pushed]
  <1>1. Mapped(status) \in Pushed
    BY DEF Mapped, Pushed, Status, Terminal
  <1>2. QED
    BY <1>1 DEF PushStatus, TypeOK, Pushed

\* A settled action is an action, and so is what its status store shows.
LEMMA SettleType ==
    ASSUME TypeOK, NEW q \in Request, NEW status \in Status,
           NEW actor \in Deciders \cup {NoOne}, SettleAction(q, status, actor)
    PROVE  /\ action' \in [Request -> [status : Status, actor : Deciders \cup {NoOne}]]
           /\ pushed' \in [Request -> Pushed]
  <1>1. PushStatus(q, status)
    BY DEF SettleAction
  <1>2. [status |-> status, actor |-> actor]
            \in [status : Status, actor : Deciders \cup {NoOne}]
    OBVIOUS
  <1>3. QED
    BY <1>1, <1>2, PushType DEF SettleAction, TypeOK

\* Carrying a decision out keeps the action, its executor and the mirror typed.
LEMMA CarryType ==
    ASSUME TypeOK, NEW q \in Request, NEW decision \in {"approve", "deny"},
           NEW who \in Deciders, Carry(q, decision, who)
    PROVE  /\ action' \in [Request -> [status : Status, actor : Deciders \cup {NoOne}]]
           /\ pushed' \in [Request -> Pushed]
           /\ executor' \in [Request -> {"none", "viewing", "merging"}]
           /\ starts' \in [Request -> Nat]
  <1>1. CASE SettleAction(q, "denied", who) /\ UNCHANGED <<executor, starts>>
    <2>1. "denied" \in Status
      BY DEF Status, Terminal
    <2>2. QED
      BY <1>1, <2>1, SettleType DEF TypeOK
  <1>2. CASE RunApprovedAction(q)
    <2>1. {"failed", "running"} \subseteq Status /\ Owner \in Deciders \cup {NoOne}
      BY ActionsAssumption DEF Status, Terminal
    <2>2. CASE q \in Mergeable
      <3>1. SettleAction(q, "running", Owner)
        BY <1>2, <2>2 DEF RunApprovedAction, SettleAction
      <3>2. executor' = [executor EXCEPT ![q] = "viewing"]
            /\ starts' = [starts EXCEPT ![q] = @ + 1]
        BY <1>2, <2>2 DEF RunApprovedAction
      <3>3. QED
        BY <2>1, <3>1, <3>2, SettleType DEF TypeOK
    <2>3. CASE q \notin Mergeable
      <3>1. SettleAction(q, "failed", Owner) /\ UNCHANGED <<executor, starts>>
        BY <1>2, <2>3 DEF RunApprovedAction
      <3>2. QED
        BY <2>1, <3>1, SettleType DEF TypeOK
    <2>4. QED
      BY <2>2, <2>3
  <1>3. CASE UNCHANGED <<action, executor, starts>>
    <2>1. CASE UNCHANGED pushed
      BY <1>3, <2>1 DEF TypeOK, Pushed
    <2>2. CASE PushStatus(q, "approved") \/ PushStatus(q, "denied")
      BY <1>3, <2>2, PushType DEF TypeOK, Status, Terminal
    <2>3. CASE SettleAction(q, "denied", who)
      BY <1>1, <1>3, <2>3
    <2>4. QED
      BY <1>2, <1>3, <2>1, <2>2, <2>3 DEF Carry
  <1>4. QED
    BY <1>1, <1>2, <1>3 DEF Carry

\* Every variable of the action registry keeps its type.
THEOREM TypeCorrect == Spec => []TypeOK
<1>1. Init => TypeOK
  BY ActionsAssumption DEF Init, TypeOK, Undecided, NoAction, Status, Terminal
<1>2. TypeOK /\ [Next]_vars => TypeOK'
  <2> SUFFICES ASSUME TypeOK, [Next]_vars PROVE TypeOK'
    OBVIOUS
  <2> USE DEF memory, history
  <2>1. ASSUME NEW q \in Request, RequestAction(q) PROVE TypeOK'
    <3>1. pushed' \in [Request -> Pushed]
      BY <2>1, PushType DEF RequestAction, TypeOK, Pushed, Status
    <3>2. QED
      BY <2>1, <3>1 DEF RequestAction, TypeOK, Pushed
  <2>2. ASSUME NEW q \in Request, RegisterAction(q) PROVE TypeOK'
    BY <2>2, ActionsAssumption DEF RegisterAction, TypeOK, Status
  <2>3. ASSUME NEW q \in Request, NEW decision \in {"approve", "deny"},
               NEW who \in Deciders, DecideIntent(q, decision, who)
        PROVE  TypeOK'
    <3>1. Carry(q, decision, who)
      BY <2>3 DEF DecideIntent
    <3>2. QED
      BY <2>3, <3>1, CarryType DEF DecideIntent, TypeOK, Pushed
  <2>4. ASSUME NEW q \in Request, TimePasses(q) PROVE TypeOK'
    BY <2>4 DEF TimePasses, TypeOK
  <2>5. ASSUME NEW n \in Nonce, ExpireAction(n) PROVE TypeOK'
    <3>1. registry[n] \in Request
      BY <2>5 DEF ExpireAction, TypeOK
    <3>2. SettleAction(registry[n], "expired", NoOne)
      BY <2>5 DEF ExpireAction
    <3>3. QED
      BY <2>5, <3>1, <3>2, SettleType DEF ExpireAction, TypeOK, Pushed, Status, Terminal
  <2>6. ASSUME NEW q \in Request, ValidationFails(q) PROVE TypeOK'
    <3>1. SettleAction(q, "failed", Owner)
      BY <2>6 DEF ValidationFails
    <3>2. QED
      BY <2>6, <3>1, SettleType, ActionsAssumption
         DEF ValidationFails, TypeOK, Pushed, Status, Terminal
  <2>7. ASSUME NEW q \in Request, ValidationPasses(q) PROVE TypeOK'
    BY <2>7 DEF ValidationPasses, TypeOK
  <2>8. ASSUME NEW q \in Request, MergeReturns(q) PROVE TypeOK'
    <3>1. PICK status \in {"failed", "merged"} : SettleAction(q, status, Owner)
      BY <2>8 DEF MergeReturns
    <3>2. status \in Status /\ Owner \in Deciders \cup {NoOne}
      BY ActionsAssumption DEF Status, Terminal
    <3>3. /\ action' \in [Request -> [status : Status, actor : Deciders \cup {NoOne}]]
          /\ pushed' \in [Request -> Pushed]
      BY <3>1, <3>2, SettleType
    <3>4. merges' \in [Request -> Nat] /\ executor' \in [Request -> {"none", "viewing", "merging"}]
      BY <2>8 DEF MergeReturns, TypeOK
    <3>5. QED
      BY <2>8, <3>3, <3>4 DEF MergeReturns, TypeOK, Pushed
  <2>9. CASE Restart
    <3>1. merges' \in [Request -> Nat]
      <4>1. PICK ended \in SUBSET Request :
               merges' = [q \in Request |-> IF q \in ended THEN merges[q] + 1 ELSE merges[q]]
        BY <2>9 DEF Restart
      <4>2. QED
        BY <4>1 DEF TypeOK
    <3>2. action' \in [Request -> [status : Status, actor : Deciders \cup {NoOne}]]
      BY <2>9 DEF Restart, NoAction, Status
    <3>3. QED
      BY <2>9, <3>1, <3>2 DEF Restart, TypeOK
  <2>10. CASE UNCHANGED vars
    BY <2>10 DEF vars, TypeOK
  <2>11. QED
    BY <2>1, <2>2, <2>3, <2>4, <2>5, <2>6, <2>7, <2>8, <2>9, <2>10 DEF Next
<1>3. QED
  BY <1>1, <1>2, PTL DEF Spec

-----------------------------------------------------------------------------
(* Merges *)

\* An executor accounts for one start, and so does a merge that landed; the one
\* start a request can have needs its own approval.  A merge that is under way
\* when the daemon dies is counted with the executor that waited for it.
StartedOnce ==
    \A q \in Request :
        /\ merges[q] <= starts[q] /\ starts[q] <= 1
        /\ executor[q] # "none" => merges[q] < starts[q]
        /\ starts[q] = 1 => verdict[q].decision = "approve" /\ q \in Mergeable

\* The request whose intent is decided is the only one whose executor starts,
\* and it had none before.
LEMMA CarryStarts ==
    ASSUME TypeOK, NEW q \in Request, NEW decision \in {"approve", "deny"},
           NEW who \in Deciders, Carry(q, decision, who)
    PROVE  \/ UNCHANGED <<executor, starts>>
           \/ /\ decision = "approve" /\ q \in Mergeable
              /\ executor' = [executor EXCEPT ![q] = "viewing"]
              /\ starts' = [starts EXCEPT ![q] = @ + 1]
  <1>1. CASE registry[NonceOf[q]] = q
    <2>1. CASE decision = "deny"
      BY <1>1, <2>1 DEF Carry
    <2>2. CASE decision = "approve" /\ action[q].status \in {"pending", "expired"}
      BY <1>1, <2>2 DEF Carry, RunApprovedAction
    <2>3. CASE decision # "deny" /\ action[q].status \notin {"pending", "expired"}
      BY <1>1, <2>3 DEF Carry
    <2>4. QED
      BY <2>1, <2>2, <2>3
  <1>2. CASE registry[NonceOf[q]] # q
    BY <1>2 DEF Carry
  <1>3. QED
    BY <1>1, <1>2

\* No step starts an executor twice, or without the approval of its own intent.
LEMMA StartedOnceStep == TypeOK /\ StartedOnce /\ [Next]_vars => StartedOnce'
<1> SUFFICES ASSUME TypeOK, StartedOnce, [Next]_vars PROVE StartedOnce'
  OBVIOUS
<1> USE DEF memory, history
<1>1. CASE UNCHANGED <<verdict, executor, merges, starts>>
  BY <1>1 DEF StartedOnce
<1>2. ASSUME NEW q \in Request, NEW decision \in {"approve", "deny"},
             NEW who \in Deciders, DecideIntent(q, decision, who)
      PROVE  StartedOnce'
  <2>1. /\ verdict[q].decision = "none" /\ UNCHANGED merges
        /\ verdict' = [verdict EXCEPT ![q] = [decision |-> decision, by |-> who]]
        /\ Carry(q, decision, who)
    BY <1>2 DEF DecideIntent
  <2>2. starts[q] = 0 /\ merges[q] = 0 /\ executor[q] = "none"
    <3>1. starts[q] # 1
      BY <2>1 DEF StartedOnce
    <3>2. starts[q] \in Nat /\ merges[q] \in Nat
      BY DEF TypeOK
    <3>3. /\ merges[q] <= starts[q] /\ starts[q] <= 1
          /\ executor[q] # "none" => merges[q] < starts[q]
      BY DEF StartedOnce
    <3>4. QED
      BY <3>1, <3>2, <3>3
  <2>3. CASE UNCHANGED <<executor, starts>>
    BY <2>1, <2>2, <2>3 DEF StartedOnce, TypeOK
  <2>4. CASE /\ decision = "approve" /\ q \in Mergeable
             /\ executor' = [executor EXCEPT ![q] = "viewing"]
             /\ starts' = [starts EXCEPT ![q] = @ + 1]
    BY <2>1, <2>2, <2>4 DEF StartedOnce, TypeOK
  <2>5. QED
    BY <2>1, <2>3, <2>4, CarryStarts
<1>3. ASSUME NEW q \in Request, ValidationFails(q) PROVE StartedOnce'
  BY <1>3 DEF ValidationFails, StartedOnce, TypeOK
<1>4. ASSUME NEW q \in Request, ValidationPasses(q) PROVE StartedOnce'
  BY <1>4 DEF ValidationPasses, StartedOnce, TypeOK
<1>5. ASSUME NEW q \in Request, MergeReturns(q) PROVE StartedOnce'
  BY <1>5 DEF MergeReturns, StartedOnce, TypeOK
<1>6. CASE Restart
  <2>1. PICK ended \in SUBSET {q \in Request : executor[q] = "merging"} :
           merges' = [q \in Request |-> IF q \in ended THEN merges[q] + 1 ELSE merges[q]]
    BY <1>6 DEF Restart
  <2>2. executor' = [q \in Request |-> "none"] /\ UNCHANGED <<verdict, starts>>
    BY <1>6 DEF Restart
  <2> SUFFICES ASSUME NEW q \in Request PROVE merges'[q] <= starts[q]
    BY <2>2 DEF StartedOnce, TypeOK
  <2>3. CASE q \in ended
    BY <2>1, <2>3 DEF StartedOnce, TypeOK
  <2>4. CASE q \notin ended
    BY <2>1, <2>4 DEF StartedOnce, TypeOK
  <2>5. QED
    BY <2>3, <2>4
<1>7. QED
  BY <1>1, <1>2, <1>3, <1>4, <1>5, <1>6
     DEF Next, vars, RequestAction, RegisterAction, TimePasses, ExpireAction

\* A merge lands only for a request whose own intent was approved, and at most
\* once, whatever other requests used its nonce and whenever the daemon died.
THEOREM MergedOnce == Spec => []MergedOnceIfApproved
<1>1. Init => StartedOnce
  <2> SUFFICES ASSUME Init, NEW q \in Request
               PROVE  /\ merges[q] <= starts[q] /\ starts[q] <= 1
                      /\ executor[q] = "none" /\ starts[q] # 1
    BY DEF StartedOnce
  <2>1. starts[q] = 0 /\ merges[q] = 0 /\ executor[q] = "none"
    BY DEF Init
  <2>2. QED
    BY <2>1
<1>2. TypeOK /\ StartedOnce => MergedOnceIfApproved
  <2> SUFFICES ASSUME TypeOK, StartedOnce, NEW q \in Request
               PROVE  merges[q] <= 1 /\ (merges[q] = 1 => starts[q] = 1)
    BY DEF MergedOnceIfApproved, StartedOnce
  <2>1. starts[q] \in Nat /\ merges[q] \in Nat
    BY DEF TypeOK
  <2>2. merges[q] <= starts[q] /\ starts[q] <= 1
    BY DEF StartedOnce
  <2>3. QED
    BY <2>1, <2>2
<1>3. QED
  BY <1>1, <1>2, StartedOnceStep, TypeCorrect, PTL DEF Spec

-----------------------------------------------------------------------------
(* The announcement of the card: composeAnnouncers *)

LEMMA CardsPart == DecidedSpec => Cards!Init /\ [][Cards!Next]_(Cards!vars)
<1>1. DecidedInit => Cards!Init
  BY DEF DecidedInit
<1>2. [DecidedNext]_decidedVars => [Cards!Next]_(Cards!vars)
  BY DEF DecidedNext, decidedVars, cardVars, Cards!vars
<1>3. QED
  BY <1>1, <1>2, PTL DEF DecidedSpec

Outcome == Cards!Settled \cup {"attempting"}

CardTyped ==
    /\ phase \in {"new", "announcing", "settled", "interrupted"}
    /\ next \in 1..(Len(Channels) + 1)
    /\ inFlight \in BOOLEAN /\ (inFlight => hook = "composed" /\ next <= Len(Channels))
    /\ DOMAIN records \subseteq Cards!Asked /\ landed \subseteq Cards!Asked
    /\ \A c \in DOMAIN records : records[c] \in Outcome

\* How far the fan-out is: the channels before the next one have a record, and the next one
\* has while its announcer is awaited.
FanOut ==
    hook = "composed" =>
        /\ \A n \in 1..Len(Channels) : Channels[n] \in DOMAIN records =>
              n < next \/ (n = next /\ inFlight) \/ phase = "settled"
        /\ inFlight => Channels[next] \in DOMAIN records /\ records[Channels[next]] = "attempting"

\* The records are true, and a card lands only on a channel that was attempted.
RecordsTrue ==
    /\ \A c \in DOMAIN records : records[c] = "posted" => c \in landed
    /\ \A c \in DOMAIN records : records[c] = "skipped" => c \notin landed
    /\ hook = "composed" => landed \subseteq DOMAIN records

\* After the announcement every channel asked for has an outcome.
AllSettled == phase = "settled" => DOMAIN records = Cards!Asked /\ \A c \in Cards!Asked : records[c] \in Cards!Settled

CardInv == CardTyped /\ FanOut /\ RecordsTrue /\ AllSettled

LEMMA ChannelsListed ==
  /\ Len(Channels) \in Nat
  /\ \A n \in 1..Len(Channels) : Channels[n] \in Cards!Asked
  /\ \A c \in Cards!Asked : \E n \in 1..Len(Channels) : Channels[n] = c
  /\ \A m, n \in 1..Len(Channels) : Channels[m] = Channels[n] => m = n
<1>1. Channels \in Seq(Cards!Range(Channels))
  BY CardsAssumption DEF Cards!ChannelsAssumption
<1>2. DOMAIN Channels = 1..Len(Channels) /\ Len(Channels) \in Nat
  BY <1>1
<1>3. Cards!Asked = {Channels[n] : n \in 1..Len(Channels)}
  BY <1>2 DEF Cards!Asked, Cards!Range
<1>4. \A m, n \in 1..Len(Channels) : Channels[m] = Channels[n] => m = n
  BY CardsAssumption DEF Cards!ChannelsAssumption
<1>5. QED
  BY <1>2, <1>3, <1>4

\* What recording one channel leaves of the others.
LEMMA RecordOne ==
  ASSUME CardTyped, NEW c \in Cards!Asked, NEW status \in Outcome, Cards!Record(c, status)
  PROVE  /\ DOMAIN records' = DOMAIN records \cup {c} /\ DOMAIN records' \subseteq Cards!Asked
         /\ records'[c] = status
         /\ \A d \in DOMAIN records : d # c => records'[d] = records[d]
         /\ \A d \in DOMAIN records' : records'[d] \in Outcome
<1>1. records' = [channel \in DOMAIN records \cup {c} |-> IF channel = c THEN status ELSE records[channel]]
  BY DEF Cards!Record
<1>2. DOMAIN records \subseteq Cards!Asked /\ \A d \in DOMAIN records : records[d] \in Outcome
  BY DEF CardTyped
<1>3. QED
  BY <1>1, <1>2

LEMMA CardInvStep == ASSUME CardInv, [Cards!Next]_(Cards!vars) PROVE CardInv'
<1> USE ChannelsListed
<1>1. CASE Cards!CreateIntent
  BY <1>1 DEF Cards!CreateIntent, CardInv, CardTyped, FanOut, RecordsTrue, AllSettled
<1>2. CASE Cards!TakeChannel
  <2>1. /\ phase = "announcing" /\ hook = "composed" /\ ~inFlight /\ next \in 1..Len(Channels)
        /\ UNCHANGED <<phase, hook, landed>>
    BY <1>2 DEF Cards!TakeChannel, CardInv, CardTyped
  <2>2. Channels[next] \in Cards!Asked /\ Cards!Current = Channels[next]
    BY <2>1 DEF Cards!Current
  <2>3. Channels[next] \notin DOMAIN records /\ Channels[next] \notin landed
    BY <2>1, <2>2 DEF CardInv, FanOut, RecordsTrue
  <2>4. PICK status \in {"skipped", "attempting"} :
           /\ Cards!Record(Channels[next], status)
           /\ status = "skipped" => next' = next + 1 /\ inFlight' = inFlight
           /\ status = "attempting" => next' = next /\ inFlight' = TRUE
    BY <1>2, <2>2 DEF Cards!TakeChannel
  <2>5. status \in Outcome
    BY DEF Outcome, Cards!Settled
  <2>6. /\ DOMAIN records' = DOMAIN records \cup {Channels[next]} /\ DOMAIN records' \subseteq Cards!Asked
        /\ records'[Channels[next]] = status
        /\ \A d \in DOMAIN records : d # Channels[next] => records'[d] = records[d]
        /\ \A d \in DOMAIN records' : records'[d] \in Outcome
    BY <2>2, <2>4, <2>5, RecordOne DEF CardInv
  <2>7. CardTyped'
    <3>1. next' \in 1..(Len(Channels) + 1) /\ (inFlight' => next' <= Len(Channels))
      BY <2>1, <2>4
    <3>2. inFlight' \in BOOLEAN
      <4>1. inFlight \in BOOLEAN
        BY DEF CardInv, CardTyped
      <4>2. inFlight' = inFlight \/ inFlight' = TRUE
        BY <2>4
      <4>3. QED
        BY <4>1, <4>2
    <3>3. QED
      BY <2>1, <2>6, <3>1, <3>2 DEF CardInv, CardTyped
  <2>8. FanOut'
    BY <2>1, <2>4, <2>6 DEF CardInv, FanOut
  <2>9. RecordsTrue'
    BY <2>1, <2>3, <2>6 DEF CardInv, RecordsTrue
  <2>10. QED
    BY <2>1, <2>7, <2>8, <2>9 DEF CardInv, AllSettled
<1>3. ASSUME NEW c \in Cards!Asked, Cards!TransportAccepts(c) PROVE CardInv'
  <2>1. phase = "announcing" /\ landed' = landed \cup {c} /\ UNCHANGED <<phase, hook, next, inFlight, records>>
    BY <1>3 DEF Cards!TransportAccepts
  <2>2. \/ inFlight /\ c = Channels[next]
        \/ hook = "bare" /\ c \notin DOMAIN records
    BY <1>3 DEF Cards!TransportAccepts, Cards!Current
  <2>3. c \in DOMAIN records => records[c] = "attempting"
    BY <2>2 DEF CardInv, CardTyped, FanOut
  <2>4. hook = "composed" => c \in DOMAIN records
    BY <2>2 DEF CardInv, CardTyped, FanOut
  <2>5. QED
    BY <2>1, <2>3, <2>4 DEF CardInv, CardTyped, FanOut, RecordsTrue, AllSettled
<1>4. ASSUME NEW status \in Cards!Settled, Cards!AnnouncerEnds(status) PROVE CardInv'
  <2>1. /\ phase = "announcing" /\ inFlight /\ Cards!Record(Channels[next], status) /\ inFlight' = FALSE
        /\ next' = next + 1 /\ UNCHANGED <<phase, hook, landed>>
    BY <1>4 DEF Cards!AnnouncerEnds, Cards!Current
  <2>2. next \in 1..Len(Channels) /\ hook = "composed"
    BY <2>1 DEF CardInv, CardTyped
  <2>3. /\ status = "posted" => Channels[next] \in landed
        /\ status = "skipped" => Channels[next] \notin landed
    BY <1>4 DEF Cards!AnnouncerEnds, Cards!Evidence, Cards!Told, Cards!Current
  <2>4. status \in Outcome
    BY DEF Outcome
  <2>5. /\ DOMAIN records' = DOMAIN records \cup {Channels[next]} /\ DOMAIN records' \subseteq Cards!Asked
        /\ records'[Channels[next]] = status
        /\ \A d \in DOMAIN records : d # Channels[next] => records'[d] = records[d]
        /\ \A d \in DOMAIN records' : records'[d] \in Outcome
    BY <2>1, <2>2, <2>4, RecordOne DEF CardInv
  <2>6. CardTyped'
    <3>1. next' \in 1..(Len(Channels) + 1)
      BY <2>1, <2>2
    <3>2. inFlight' \in BOOLEAN /\ ~inFlight'
      BY <2>1
    <3>3. QED
      BY <2>1, <2>5, <3>1, <3>2 DEF CardInv, CardTyped
  <2>7. FanOut'
    BY <2>1, <2>2, <2>5 DEF CardInv, FanOut
  <2>8. RecordsTrue'
    BY <2>1, <2>3, <2>5 DEF CardInv, RecordsTrue
  <2>9. QED
    BY <2>1, <2>6, <2>7, <2>8 DEF CardInv, AllSettled
<1>5. ASSUME NEW c \in Cards!Asked, NEW status \in Cards!Settled, Cards!BareRecords(c, status) PROVE CardInv'
  <2>1. /\ phase = "announcing" /\ hook = "bare" /\ c \notin DOMAIN records /\ Cards!Record(c, status)
        /\ UNCHANGED <<phase, hook, next, inFlight, landed>>
    BY <1>5 DEF Cards!BareRecords
  <2>2. (status = "posted" => c \in landed) /\ (status = "skipped" => c \notin landed)
    BY <1>5 DEF Cards!BareRecords, Cards!Evidence, Cards!Told
  <2>3. status \in Outcome
    BY DEF Outcome
  <2>4. /\ DOMAIN records' = DOMAIN records \cup {c} /\ DOMAIN records' \subseteq Cards!Asked
        /\ records'[c] = status
        /\ \A d \in DOMAIN records : d # c => records'[d] = records[d]
        /\ \A d \in DOMAIN records' : records'[d] \in Outcome
    BY <2>1, <2>3, RecordOne DEF CardInv
  <2>5. CardTyped' /\ FanOut' /\ AllSettled'
    BY <2>1, <2>4 DEF CardInv, CardTyped, FanOut, AllSettled
  <2>6. RecordsTrue'
    BY <2>1, <2>2, <2>4 DEF CardInv, RecordsTrue
  <2>7. QED
    BY <2>5, <2>6 DEF CardInv
<1>6. CASE Cards!HookEnds
  <2>1. /\ phase' = "settled" /\ (hook = "composed" => next > Len(Channels))
        /\ records' = Cards!Reconciled /\ UNCHANGED <<hook, next, inFlight, landed>>
    BY <1>6 DEF Cards!HookEnds
  <2>2. DOMAIN records' = Cards!Asked
    BY <2>1 DEF Cards!Reconciled
  <2>3. \A c \in Cards!Asked :
           /\ records'[c] \in Cards!Settled
           /\ records'[c] \in {"posted", "skipped"} => c \in DOMAIN records /\ records[c] = records'[c]
    <3>1. \A c \in DOMAIN records : records[c] \in Cards!Settled \cup {"attempting"}
      BY DEF CardInv, CardTyped, Outcome
    <3>2. \A c \in Cards!Asked : records'[c] = IF Cards!Open(c) THEN "unreported" ELSE records[c]
      BY <2>1 DEF Cards!Reconciled
    <3>3. QED
      BY <3>1, <3>2 DEF Cards!Open, Cards!Settled
  <2>4. ~inFlight
    BY <2>1 DEF CardInv, CardTyped
  <2>5. CardTyped' /\ FanOut' /\ AllSettled'
    BY <2>1, <2>2, <2>3, <2>4 DEF CardInv, CardTyped, FanOut, AllSettled, Outcome
  <2>6. RecordsTrue'
    BY <2>1, <2>2, <2>3 DEF CardInv, CardTyped, RecordsTrue
  <2>7. QED
    BY <2>5, <2>6 DEF CardInv
<1>7. CASE Cards!Crash
  BY <1>7 DEF Cards!Crash, CardInv, CardTyped, FanOut, RecordsTrue, AllSettled
<1>8. CASE UNCHANGED Cards!vars
  BY <1>8 DEF Cards!vars, CardInv, CardTyped, FanOut, RecordsTrue, AllSettled
<1>9. QED
  BY <1>1, <1>2, <1>3, <1>4, <1>5, <1>6, <1>7, <1>8 DEF Cards!Next

\* The one word for all channels.
LEMMA WordHonest == ASSUME CardInv PROVE SummaryHonest
<1> DEFINE word == Cards!AnnounceStateOf(records)
<1> SUFFICES ASSUME phase = "settled"
             PROVE  /\ word # "attempting" /\ (word = "posted" => landed = Cards!Asked)
                    /\ (word = "skipped" => landed = {}) /\ (word = "none" => Cards!Asked = {})
  BY DEF SummaryHonest, Cards!SummaryHonest
<1>1. DOMAIN records = Cards!Asked /\ \A c \in Cards!Asked : records[c] \in Cards!Settled
  BY DEF CardInv, AllSettled
<1>2. Cards!Range(records) = {records[c] : c \in Cards!Asked}
  BY <1>1 DEF Cards!Range
<1>3. "attempting" \notin Cards!Range(records)
  BY <1>1, <1>2 DEF Cards!Settled
<1>4. word # "attempting" /\ (word = "none" => records = << >>)
      /\ (word = "posted" => Cards!Range(records) = {"posted"})
      /\ (word = "skipped" => Cards!Range(records) = {"skipped"})
  BY <1>3 DEF Cards!AnnounceStateOf
<1>5. records = << >> => Cards!Asked = {}
  BY <1>1
<1>6. Cards!Range(records) = {"posted"} => landed = Cards!Asked
  BY <1>1, <1>2 DEF CardInv, CardTyped, RecordsTrue
<1>7. Cards!Range(records) = {"skipped"} => landed = {}
  BY <1>1, <1>2 DEF CardInv, CardTyped, RecordsTrue
<1> HIDE DEF word
<1>8. QED
  BY <1>4, <1>5, <1>6, <1>7

\* Once createIntent is done, 'posted' means that every channel asked for has the card and
\* 'skipped' that none has, whatever the announcers answered, threw or recorded themselves.
THEOREM CardsHonest == DecidedSpec => []SummaryHonest
<1>1. Cards!Init => CardInv
  <2> SUFFICES ASSUME Cards!Init PROVE CardInv
    OBVIOUS
  <2>1. /\ phase = "new" /\ next = 1 /\ inFlight = FALSE /\ landed = {} /\ DOMAIN records = {}
    BY DEF Cards!Init
  <2>2. next \in 1..(Len(Channels) + 1)
    BY <2>1, ChannelsListed
  <2>3. CardTyped
    BY <2>1, <2>2 DEF CardTyped
  <2>4. FanOut /\ RecordsTrue /\ AllSettled
    BY <2>1 DEF FanOut, RecordsTrue, AllSettled
  <2>5. QED
    BY <2>3, <2>4 DEF CardInv
<1>2. CardInv /\ [Cards!Next]_(Cards!vars) => CardInv'
  BY CardInvStep
<1>3. CardInv => SummaryHonest
  BY WordHonest
<1>4. QED
  BY <1>1, <1>2, <1>3, CardsPart, PTL
=============================================================================
