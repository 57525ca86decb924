------------------------- MODULE KindCommands_proofs -------------------------
(***************************************************************************)
(* Proofs about the two parts of Device.tla: of KindCommands.tla, type     *)
(* correctness and the safety properties of the handler, its claim and its *)
(* verdict, for any number of cards, any helpers and any number of         *)
(* restarts; of ModelClaims.tla, that no claim outlives its evidence.      *)
(***************************************************************************)
EXTENDS Device, Sequences, TLAPS

-----------------------------------------------------------------------------
(* Type correctness *)

\* A process that was not there is of no kind: it never was a helper.
LEMMA GoneType == Gone \in [alive : BOOLEAN, kind : Helper]
  BY DEF Gone, Helper

\* The verdict of a run is one of the room's results.
LEMMA VerdictType == \A i : Verdict(i) \in {"ok", "failed", "killed"}
  BY DEF Verdict

\* What a tap is refused for is one of the room's results, "none" for a run.
LEMMA RefusalType ==
    \A t : Refusal(t) \in {"none", "not-an-option", "not-owner", "busy"}
  BY DEF Refusal

\* A signal leaves processes and an exit behind.
LEMMA SignalType ==
    ASSUME TypeOK, NEW i \in Card, NEW sure \in BOOLEAN, Signal(i, sure)
    PROVE  /\ leader' \in [Card -> [st : {"unborn", "alive", "dead"}, deaf : BOOLEAN]]
           /\ helper' \in [Card -> [alive : BOOLEAN, kind : Helper]]
           /\ exit' \in [Card -> {"none", "zero", "nonzero", "signal"}]
<1> DEFINE lives == helper[i].alive
                    /\ (helper[i].kind.escaped \/ (helper[i].kind.deaf /\ ~sure))
<1>1. lives \in BOOLEAN
  OBVIOUS
<1>2. helper' = [helper EXCEPT ![i].alive = lives]
  BY DEF Signal
<1>3. helper' \in [Card -> [alive : BOOLEAN, kind : Helper]]
  <2> HIDE DEF lives
  <2>1. QED
    BY <1>1, <1>2 DEF TypeOK
<1>4. CASE UNCHANGED <<leader, exit>>
  BY <1>3, <1>4 DEF TypeOK
<1>5. CASE leader' = [leader EXCEPT ![i].st = "dead"] /\ exit' = [exit EXCEPT ![i] = "signal"]
  BY <1>3, <1>5 DEF TypeOK
<1>6. QED
  BY <1>4, <1>5 DEF Signal

\* Every variable of the handler and of its processes keeps its type.
THEOREM TypeCorrect == Spec => []TypeOK
<1>1. Init => TypeOK
  BY KindAssumption, GoneType DEF Init, TypeOK
<1>2. TypeOK /\ [Next]_vars => TypeOK'
  <2> SUFFICES ASSUME TypeOK, [Next]_vars PROVE TypeOK'
    OBVIOUS
  <2> USE KindAssumption
  <2>1. ASSUME NEW i \in Card, NEW role \in {"owner", "lead"}, NEW offered \in BOOLEAN,
               Tap(i, [role |-> role, offered |-> offered])
        PROVE  TypeOK'
    BY <2>1, RefusalType DEF Tap, TypeOK, processes
  <2>2. ASSUME NEW i \in Card, Spawn(i) PROVE TypeOK'
    <3>1. CASE End(i, "no-start") /\ UNCHANGED processes
      BY <2>2, <3>1 DEF Spawn, End, TypeOK, processes
    <3>2. CASE handler'[i] = "running"
      <4>1. PICK deaf \in BOOLEAN,
                 h \in {Gone} \cup {[alive |-> TRUE, kind |-> k] : k \in Helpers} :
              /\ handler' = [handler EXCEPT ![i] = "running"]
              /\ timer' = [timer EXCEPT ![i] = "armed"]
              /\ leader' = [leader EXCEPT ![i] = [st |-> "alive", deaf |-> deaf]]
              /\ helper' = [helper EXCEPT ![i] = h]
              /\ UNCHANGED <<running, exit, result, tap, restarts>>
        BY <2>2, <3>2 DEF Spawn, End, TypeOK
      <4>2. h \in [alive : BOOLEAN, kind : Helper]
        <5>1. ASSUME NEW k \in Helpers
              PROVE  [alive |-> TRUE, kind |-> k] \in [alive : BOOLEAN, kind : Helper]
          OBVIOUS
        <5>2. QED
          BY <5>1, GoneType
      <4>3. leader' \in [Card -> [st : {"unborn", "alive", "dead"}, deaf : BOOLEAN]]
        BY <4>1 DEF TypeOK
      <4>4. helper' \in [Card -> [alive : BOOLEAN, kind : Helper]]
        BY <4>1, <4>2 DEF TypeOK
      <4>5. QED
        BY <4>1, <4>3, <4>4 DEF TypeOK
    <3>3. QED
      BY <2>2, <3>1, <3>2 DEF Spawn, TypeOK
  <2>3. ASSUME NEW i \in Card, Close(i) PROVE TypeOK'
    BY <2>3, VerdictType DEF Close, End, TypeOK, processes
  <2>4. ASSUME NEW i \in Card, Report(i) PROVE TypeOK'
    BY <2>4 DEF Report, TypeOK, processes
  <2>5. ASSUME NEW i \in Card, LeaderExits(i) PROVE TypeOK'
    <3>1. leader' \in [Card -> [st : {"unborn", "alive", "dead"}, deaf : BOOLEAN]]
      BY <2>5 DEF LeaderExits, TypeOK
    <3>2. exit' \in [Card -> {"none", "zero", "nonzero", "signal"}]
      BY <2>5 DEF LeaderExits, TypeOK
    <3>3. QED
      BY <2>5, <3>1, <3>2 DEF LeaderExits, TypeOK
  <2>6. ASSUME NEW i \in Card, HelperExits(i) PROVE TypeOK'
    BY <2>6 DEF HelperExits, TypeOK
  <2>7. ASSUME NEW i \in Card, Timeout(i) PROVE TypeOK'
    BY <2>7, SignalType DEF Timeout, TypeOK
  <2>8. ASSUME NEW i \in Card, GraceEnds(i) PROVE TypeOK'
    BY <2>8, SignalType DEF GraceEnds, TypeOK
  <2>9. CASE Restart
    BY <2>9 DEF Restart, TypeOK, processes
  <2>10. CASE UNCHANGED vars
    BY <2>10 DEF vars, processes, TypeOK
  <2>11. QED
    BY <2>1, <2>2, <2>3, <2>4, <2>5, <2>6, <2>7, <2>8, <2>9, <2>10 DEF Next
<1>3. QED
  BY <1>1, <1>2, PTL DEF Spec

-----------------------------------------------------------------------------
(* The inductive invariant *)

Underway(i) == handler[i] \in {"announcing", "running"}

\* A run was tapped for by the owner, claims the kind and has no result yet.
RunInv(i) ==
    /\ tap[i].role = "none" => handler[i] = "idle"
    /\ Underway(i) =>
          tap[i].role = "owner" /\ tap[i].offered /\ running = i /\ result[i] = "none"

\* A command lives only for a run that is waited for, or was by a dead daemon.
ProcessInv(i) ==
    /\ leader[i].st # "unborn" => tap[i].role = "owner" /\ tap[i].offered
    /\ handler[i] \in {"idle", "announcing"} => leader[i].st = "unborn"
    /\ leader[i].st = "alive" => handler[i] \in {"running", "lost"}
    /\ handler[i] = "running" => leader[i].st # "unborn"
    /\ leader[i].st = "dead" <=> exit[i] # "none"

\* Only a timer that has fired signals, and what is reported as an exit was one.
TimerInv(i) ==
    /\ handler[i] = "running" => timer[i] # "off"
    /\ handler[i] = "running" /\ timer[i] = "armed" => exit[i] # "signal"
    /\ result[i] \in {"ok", "failed"} =>
          leader[i].st = "dead" /\ exit[i] \in {"zero", "nonzero"}

IInv == \A i \in Card : RunInv(i) /\ ProcessInv(i) /\ TimerInv(i)

\* A signal touches the exit of a living command only, and leaves one that is dead.
LEMMA SignalExit ==
    ASSUME TypeOK, IInv, NEW i \in Card, NEW sure \in BOOLEAN, Signal(i, sure)
    PROVE  /\ \A j \in Card \ {i} : leader'[j] = leader[j] /\ exit'[j] = exit[j]
           /\ \/ leader'[i] = leader[i] /\ exit'[i] = exit[i]
              \/ leader[i].st = "alive" /\ leader'[i].st = "dead" /\ exit'[i] = "signal"
  BY DEF Signal, TypeOK

\* A step that leaves everything of a card alone keeps what holds of it.
LEMMA OtherCard ==
    ASSUME NEW j \in Card, RunInv(j), ProcessInv(j), TimerInv(j),
           tap'[j] = tap[j], handler'[j] = handler[j], leader'[j] = leader[j],
           exit'[j] = exit[j], timer'[j] = timer[j], result'[j] = result[j],
           running' = running \/ ~Underway(j)
    PROVE  RunInv(j)' /\ ProcessInv(j)' /\ TimerInv(j)'
  BY DEF RunInv, ProcessInv, TimerInv, Underway

\* Every step keeps the invariant.
LEMMA IInvStep == TypeOK /\ IInv /\ [Next]_vars => IInv'
<1> SUFFICES ASSUME TypeOK, IInv, [Next]_vars, NEW j \in Card
             PROVE  RunInv(j)' /\ ProcessInv(j)' /\ TimerInv(j)'
  BY DEF IInv
<1> USE KindAssumption
<1>0. RunInv(j) /\ ProcessInv(j) /\ TimerInv(j)
  BY DEF IInv
<1>1. ASSUME NEW i \in Card, NEW role \in {"owner", "lead"}, NEW offered \in BOOLEAN,
             Tap(i, [role |-> role, offered |-> offered])
      PROVE  RunInv(j)' /\ ProcessInv(j)' /\ TimerInv(j)'
  <2> DEFINE t == [role |-> role, offered |-> offered]
  <2>1. CASE i # j
    <3>1. running' = running \/ ~Underway(j)
      BY <1>0, <1>1 DEF Tap, RunInv, Refusal
    <3>2. QED
      BY <1>0, <1>1, <2>1, <3>1, OtherCard DEF Tap, TypeOK, processes
  <2>2. CASE i = j
    <3>1. handler[j] = "idle" /\ leader[j].st = "unborn" /\ exit[j] = "none"
      BY <1>0, <1>1, <2>2 DEF Tap, RunInv, ProcessInv
    <3>2. tap'[j] = t /\ result'[j] = Refusal(t)
      BY <1>1, <2>2 DEF Tap, TypeOK
    <3>3. leader'[j] = leader[j] /\ exit'[j] = exit[j] /\ timer'[j] = timer[j]
      BY <1>1, <2>2 DEF Tap, processes
    <3>4. \/ handler'[j] = "done"
          \/ /\ handler'[j] = "announcing" /\ running' = j
             /\ t.role = "owner" /\ t.offered /\ result'[j] = "none"
      BY <1>1, <2>2, <3>2 DEF Tap, TypeOK, Refusal
    <3>5. result'[j] \notin {"ok", "failed"}
      BY <3>2, RefusalType
    <3>6. QED
      BY <3>1, <3>2, <3>3, <3>4, <3>5 DEF RunInv, ProcessInv, TimerInv, Underway
  <2>3. QED
    BY <2>1, <2>2
<1>2. ASSUME NEW i \in Card, Spawn(i) PROVE RunInv(j)' /\ ProcessInv(j)' /\ TimerInv(j)'
  <2>1. running = i
    BY <1>2 DEF Spawn, IInv, RunInv, Underway
  <2>2. CASE i # j
    <3>1. ~Underway(j)
      BY <1>0, <2>1, <2>2 DEF RunInv
    <3>2. QED
      BY <1>0, <1>2, <2>2, <3>1, OtherCard DEF Spawn, End, TypeOK, processes
  <2>3. CASE i = j
    <3>1. CASE End(i, "no-start") /\ UNCHANGED processes
      <4>1. handler'[j] = "reporting" /\ result'[j] = "no-start" /\ tap' = tap
        BY <1>2, <2>3, <3>1 DEF Spawn, End, TypeOK
      <4>2. QED
        BY <1>0, <1>2, <2>3, <3>1, <4>1
           DEF Spawn, RunInv, ProcessInv, TimerInv, Underway, processes
    <3>2. CASE handler' = [handler EXCEPT ![i] = "running"]
               /\ timer' = [timer EXCEPT ![i] = "armed"]
               /\ (\E deaf \in BOOLEAN :
                     leader' = [leader EXCEPT ![i] = [st |-> "alive", deaf |-> deaf]])
               /\ UNCHANGED <<running, exit, result>>
      <4>1. handler'[j] = "running" /\ timer'[j] = "armed" /\ leader'[j].st = "alive"
            /\ tap' = tap /\ exit' = exit /\ result' = result /\ running' = running
        BY <1>2, <2>3, <3>2 DEF Spawn, TypeOK
      <4>2. handler[j] = "announcing" /\ leader[j].st = "unborn" /\ exit[j] = "none"
        BY <1>0, <1>2, <2>3 DEF Spawn, ProcessInv
      <4>3. QED
        BY <1>0, <4>1, <4>2 DEF RunInv, ProcessInv, TimerInv, Underway
    <3>3. QED
      BY <1>2, <3>1, <3>2 DEF Spawn
  <2>4. QED
    BY <2>2, <2>3
<1>3. ASSUME NEW i \in Card, Close(i) PROVE RunInv(j)' /\ ProcessInv(j)' /\ TimerInv(j)'
  <2>1. running = i
    BY <1>3 DEF Close, IInv, RunInv, Underway
  <2>2. CASE i # j
    <3>1. ~Underway(j)
      BY <1>0, <2>1, <2>2 DEF RunInv
    <3>2. QED
      BY <1>0, <1>3, <2>2, <3>1, OtherCard DEF Close, End, TypeOK, processes
  <2>3. CASE i = j
    <3>1. handler'[j] = "reporting" /\ result'[j] = Verdict(j) /\ tap' = tap
          /\ leader' = leader /\ exit' = exit
      BY <1>3, <2>3 DEF Close, End, TypeOK, processes
    <3>2. handler[j] = "running" /\ leader[j].st = "dead"
      BY <1>3, <2>3 DEF Close
    <3>3. Verdict(j) \in {"ok", "failed"} => exit[j] \in {"zero", "nonzero"}
      BY <1>0, <3>2 DEF Verdict, TypeOK, TimerInv, ProcessInv
    <3>4. QED
      BY <1>0, <3>1, <3>2, <3>3 DEF RunInv, ProcessInv, TimerInv, Underway
  <2>4. QED
    BY <2>2, <2>3
<1>4. ASSUME NEW i \in Card, Report(i) PROVE RunInv(j)' /\ ProcessInv(j)' /\ TimerInv(j)'
  BY <1>0, <1>4 DEF Report, TypeOK, processes, RunInv, ProcessInv, TimerInv, Underway
<1>5. ASSUME NEW i \in Card, LeaderExits(i)
      PROVE  RunInv(j)' /\ ProcessInv(j)' /\ TimerInv(j)'
  <2>1. CASE i # j
    BY <1>0, <1>5, <2>1, OtherCard DEF LeaderExits, TypeOK
  <2>2. CASE i = j
    BY <1>0, <1>5, <2>2
       DEF LeaderExits, TypeOK, RunInv, ProcessInv, TimerInv, Underway
  <2>3. QED
    BY <2>1, <2>2
<1>6. ASSUME NEW i \in Card, HelperExits(i)
      PROVE  RunInv(j)' /\ ProcessInv(j)' /\ TimerInv(j)'
  BY <1>0, <1>6, OtherCard DEF HelperExits
<1>7. ASSUME NEW i \in Card, Timeout(i) PROVE RunInv(j)' /\ ProcessInv(j)' /\ TimerInv(j)'
  <2>1. Signal(i, FALSE) /\ timer' = [timer EXCEPT ![i] = "grace"]
        /\ UNCHANGED <<tap, handler, running, result>>
    BY <1>7 DEF Timeout
  <2>2. CASE i # j
    <3>1. leader'[j] = leader[j] /\ exit'[j] = exit[j]
      BY <2>1, <2>2, SignalExit
    <3>2. timer'[j] = timer[j]
      BY <2>1, <2>2 DEF TypeOK
    <3>3. QED
      BY <1>0, <2>1, <3>1, <3>2, OtherCard
  <2>3. CASE i = j
    <3>1. timer'[j] \in {"grace", "spent"}
      BY <2>1, <2>3 DEF TypeOK
    <3>2. \/ leader'[j] = leader[j] /\ exit'[j] = exit[j]
          \/ leader[j].st = "alive" /\ leader'[j].st = "dead" /\ exit'[j] = "signal"
      BY <2>1, <2>3, SignalExit
    <3>3. QED
      BY <1>0, <2>1, <3>1, <3>2 DEF RunInv, ProcessInv, TimerInv, Underway
  <2>4. QED
    BY <2>2, <2>3
<1>8. ASSUME NEW i \in Card, GraceEnds(i) PROVE RunInv(j)' /\ ProcessInv(j)' /\ TimerInv(j)'
  <2>1. Signal(i, TRUE) /\ timer' = [timer EXCEPT ![i] = "spent"]
        /\ UNCHANGED <<tap, handler, running, result>>
    BY <1>8 DEF GraceEnds
  <2>2. CASE i # j
    <3>1. leader'[j] = leader[j] /\ exit'[j] = exit[j]
      BY <2>1, <2>2, SignalExit
    <3>2. timer'[j] = timer[j]
      BY <2>1, <2>2 DEF TypeOK
    <3>3. QED
      BY <1>0, <2>1, <3>1, <3>2, OtherCard
  <2>3. CASE i = j
    <3>1. timer'[j] \in {"grace", "spent"}
      BY <2>1, <2>3 DEF TypeOK
    <3>2. \/ leader'[j] = leader[j] /\ exit'[j] = exit[j]
          \/ leader[j].st = "alive" /\ leader'[j].st = "dead" /\ exit'[j] = "signal"
      BY <2>1, <2>3, SignalExit
    <3>3. QED
      BY <1>0, <2>1, <3>1, <3>2 DEF RunInv, ProcessInv, TimerInv, Underway
  <2>4. QED
    BY <2>2, <2>3
<1>9. CASE Restart
  BY <1>0, <1>9 DEF Restart, TypeOK, processes, RunInv, ProcessInv, TimerInv, Underway
<1>10. CASE UNCHANGED vars
  BY <1>0, <1>10, OtherCard DEF vars, processes
<1>11. QED
  BY <1>1, <1>2, <1>3, <1>4, <1>5, <1>6, <1>7, <1>8, <1>9, <1>10 DEF Next

\* The invariant holds in every reachable state.
THEOREM RunsInvariant == Spec => []IInv
<1>1. Init => IInv
  <2> SUFFICES ASSUME Init, NEW i \in Card PROVE RunInv(i) /\ ProcessInv(i) /\ TimerInv(i)
    BY DEF IInv
  <2>1. handler[i] = "idle" /\ leader[i].st = "unborn" /\ exit[i] = "none" /\ result[i] = "none"
    BY DEF Init
  <2>2. QED
    BY <2>1 DEF RunInv, ProcessInv, TimerInv, Underway
<1>2. QED
  BY <1>1, TypeCorrect, IInvStep, PTL DEF Spec

-----------------------------------------------------------------------------
(* What a reader relies on *)

\* A process is started only for an answer that was offered and that the owner
\* gave, never for the lead's.
THEOREM OwnersRun == Spec => []OnlyOwnerRuns
<1>1. IInv => OnlyOwnerRuns
  BY DEF IInv, ProcessInv, OnlyOwnerRuns
<1>2. QED
  BY <1>1, RunsInvariant, PTL

\* Runs of the kind exclude each other, but for those a dead daemon forgot.
THEOREM ClaimExcludes == Spec => []ClaimHolds
<1>1. IInv => ClaimHolds
  BY DEF IInv, RunInv, ProcessInv, Underway, ClaimHolds
<1>2. QED
  BY <1>1, RunsInvariant, PTL

\* A result that reads like an exit was one: what a signal ended is reported killed.
THEOREM VerdictTrue == Spec => []KilledSaysKilled
<1>1. IInv => KilledSaysKilled
  BY DEF IInv, TimerInv, KilledSaysKilled
<1>2. QED
  BY <1>1, RunsInvariant, PTL

-----------------------------------------------------------------------------
(* The claims of the card: packages/user-intent-kit/src *)

LEMMA ClaimsPart == DeviceSpec => Claims!Init /\ [][Claims!Next]_(Claims!claimVars)
<1>1. DeviceInit => Claims!Init
  BY DEF DeviceInit
<1>2. [DeviceNext]_deviceVars => [Claims!Next]_(Claims!claimVars)
  BY DEF DeviceNext, deviceVars, claimVars, Claims!claimVars, Claims!machine
<1>3. QED
  BY <1>1, <1>2, PTL DEF DeviceSpec

Age == 0..Claims!Top
ScanRecord ==
    [pc : {"idle", "files", "markers"}, memory : Claims!Memory, done : Nat, names : SUBSET Nat, dangling : BOOLEAN,
     found : [Model -> {"absent", "incomplete", "complete"}], late : BOOLEAN]

CardTyped ==
    /\ here \in [Model -> SUBSET Nat] /\ coming \in [Model -> SUBSET Nat]
    /\ other \in Nat /\ loaded \in Model \cup {NoModel}
    /\ past \in [whole : [Model -> Age], room : [Model -> Age]]
    /\ scan \in ScanRecord /\ (scan.pc # "idle" => scan.done < Len(Order))
    /\ scanned \in [verdict : [Model -> Claims!State], age : Age]
    /\ probe \in [pc : {"idle", "listing", "proving"}, candidate : Model \cup {NoModel}]
    /\ probe.pc = "proving" => probe.candidate \in Model

\* What is so now was so lately.
PastKnown ==
    \A m \in Model : (Claims!Whole(m) => past.whole[m] = 0) /\ (Claims!Room(m) => past.room[m] = 0)

\* A scan under way for less than two periods goes by what was so when it began.
Period == IF scan.late THEN 1 ELSE 0
ScanBacked ==
    scan.pc # "idle" =>
        /\ \A m \in Model :
              /\ scan.memory.now # Claims!Unknown /\ Claims!Weight(m) + Reserve <= scan.memory.now =>
                    past.room[m] <= Period
              /\ scan.found[m] = "complete" => past.whole[m] <= Period
        /\ scan.pc = "markers" /\ ~scan.dangling /\ scan.names = Claims!Files(Claims!Repo) =>
              past.whole[Claims!Repo] <= Period

\* The stored verdicts are one period behind at most, and age with the past.
VerdictsBacked ==
    scanned.age <= Stale =>
        \A m \in Model :
           /\ scanned.verdict[m] \in Claims!Fit => past.whole[m] <= scanned.age + 1
           /\ scanned.verdict[m] = "fits-now" => past.room[m] <= scanned.age + 1

TokenBacked ==
    probe.pc = "proving" =>
        past.whole[probe.candidate] <= Stale + 1 /\ past.room[probe.candidate] <= Stale + 1

CardInv == CardTyped /\ PastKnown /\ ScanBacked /\ VerdictsBacked /\ TokenBacked

LEMMA ClaimConstants ==
    /\ Stale \in Nat /\ Budget \in Nat /\ Reserve \in Nat /\ Claims!Top = Stale + 2 /\ Claims!Unknown = Budget + 1
    /\ \A m \in Model : Claims!Weight(m) \in Nat
<1>1. Stale \in Nat /\ Budget \in Nat /\ Reserve \in Nat
  BY ModelAssumption DEF Claims!ClaimsAssumption
<1>2. ASSUME NEW m \in Model PROVE Claims!Weight(m) \in Nat
  <2>1. Shards[m] \in Nat /\ ShardSize[m] \in Nat
    BY ModelAssumption DEF Claims!ClaimsAssumption
  <2>2. \A a, b \in Nat : a * b \in Nat
    OBVIOUS
  <2>3. QED
    BY <2>1, <2>2 DEF Claims!Weight
<1>3. QED
  BY <1>1, <1>2 DEF Claims!Top, Claims!Unknown

LEMMA RepoListed == ASSUME CardTyped, scan.pc # "idle" PROVE Claims!Repo \in Model
<1>1. Order \in Seq(Model)
  BY ModelAssumption DEF Claims!ClaimsAssumption
<1>2. scan.done \in Nat /\ scan.done < Len(Order)
  BY DEF CardTyped, ScanRecord
<1>3. scan.done + 1 \in 1..Len(Order)
  BY <1>1, <1>2
<1>4. QED
  BY <1>1, <1>3 DEF Claims!Repo

\* Becomes: the machine changes, and nothing but the past takes note.
LEMMA MachineMoves ==
  ASSUME CardInv, NEW disk \in [Model -> SUBSET Nat], NEW arriving \in [Model -> SUBSET Nat],
         NEW use \in Nat, NEW who \in Model \cup {NoModel},
         Claims!Becomes(disk, arriving, use, who), UNCHANGED probe
  PROVE  CardInv'
<1> USE ClaimConstants DEF Age
<1>1. /\ here' = disk /\ coming' = arriving /\ other' = use /\ loaded' = who
      /\ UNCHANGED <<scan, scanned, probe>>
  BY DEF Claims!Becomes
<1>2. /\ past' \in [whole : [Model -> Age], room : [Model -> Age]]
      /\ \A m \in Model :
            /\ past'.whole[m] = IF disk[m] = Claims!Files(m) THEN 0 ELSE past.whole[m]
            /\ past'.room[m] = IF Claims!Weight(m) + Reserve <= Claims!FreeWith(use, who) THEN 0 ELSE past.room[m]
  <2> DEFINE whole == [m \in Model |-> IF disk[m] = Claims!Files(m) THEN 0 ELSE past.whole[m]]
             room == [m \in Model |-> IF Claims!Weight(m) + Reserve <= Claims!FreeWith(use, who)
                                      THEN 0 ELSE past.room[m]]
  <2>1. past \in [whole : [Model -> Age], room : [Model -> Age]] /\ 0 \in Age
    BY DEF CardInv, CardTyped
  <2>2. whole \in [Model -> Age] /\ room \in [Model -> Age]
    BY <2>1
  <2>3. past' = [past EXCEPT !.whole = whole, !.room = room]
    BY DEF Claims!Becomes
  <2>4. /\ \A m \in Model : whole[m] = IF disk[m] = Claims!Files(m) THEN 0 ELSE past.whole[m]
        /\ \A m \in Model : room[m] = IF Claims!Weight(m) + Reserve <= Claims!FreeWith(use, who)
                                      THEN 0 ELSE past.room[m]
    OBVIOUS
  <2> HIDE DEF whole, room
  <2>5. past'.whole = whole /\ past'.room = room /\ past' \in [whole : [Model -> Age], room : [Model -> Age]]
    BY <2>1, <2>2, <2>3
  <2>6. QED
    BY <2>4, <2>5
<1>3. \A m \in Model : past'.whole[m] <= past.whole[m] /\ past'.room[m] <= past.room[m]
  <2>1. \A m \in Model : past.whole[m] \in Nat /\ past.room[m] \in Nat
    BY DEF CardInv, CardTyped
  <2>2. QED
    BY <1>2, <2>1
<1>4. CardTyped'
  BY <1>1, <1>2 DEF CardInv, CardTyped
<1>5. PastKnown'
  <2>1. \A m \in Model : Claims!Whole(m)' => disk[m] = Claims!Files(m)
    BY <1>1 DEF Claims!Whole, Claims!Files
  <2>2. \A m \in Model : Claims!Room(m)' => Claims!Weight(m) + Reserve <= Claims!FreeWith(use, who)
    BY <1>1 DEF Claims!Room, Claims!Free, Claims!FreeWith, Claims!Held, Claims!Minus,
       Claims!Weight
  <2>3. QED
    BY <1>2, <2>1, <2>2 DEF PastKnown
<1>6. \A m \in Model : past.whole[m] \in Nat /\ past.room[m] \in Nat /\ past'.whole[m] \in Nat /\ past'.room[m] \in Nat
  BY <1>2 DEF CardInv, CardTyped
<1>7. ScanBacked'
  <2>1. scan.pc # "idle" => Claims!Repo \in Model
    BY RepoListed DEF CardInv
  <2>2. Claims!Repo' = Claims!Repo /\ Period' = Period /\ Period \in {0, 1}
    BY <1>1 DEF Claims!Repo, Period
  <2>3. QED
    BY <1>1, <1>3, <1>6, <2>1, <2>2 DEF CardInv, ScanBacked, Claims!Unknown, Claims!Weight,
       Claims!Files
<1>8. VerdictsBacked'
  <2>1. scanned.age \in Nat
    BY DEF CardInv, CardTyped
  <2>2. QED
    BY <1>1, <1>3, <1>6, <2>1 DEF CardInv, VerdictsBacked, Claims!Fit
<1>9. TokenBacked'
  BY <1>1, <1>3, <1>6 DEF CardInv, CardTyped, TokenBacked
<1>10. QED
  BY <1>4, <1>5, <1>7, <1>8, <1>9 DEF CardInv

\* A period passes: the past ages as fast as the readings.
LEMMA PastAges ==
  ASSUME CardInv, UNCHANGED Claims!machine, NEW m \in Model,
         past' = [whole |-> [k \in Model |-> IF Claims!Whole(k) THEN 0 ELSE Claims!Older(past.whole[k])],
                  room |-> [k \in Model |-> IF Claims!Room(k) THEN 0 ELSE Claims!Older(past.room[k])]]
  PROVE  /\ past' \in [whole : [Model -> Age], room : [Model -> Age]]
         /\ past'.whole[m] <= past.whole[m] + 1 /\ past'.room[m] <= past.room[m] + 1
         /\ Claims!Whole(m)' => past'.whole[m] = 0
         /\ Claims!Room(m)' => past'.room[m] = 0
<1> USE ClaimConstants DEF Age
<1>1. \A k \in Model : past.whole[k] \in Age /\ past.room[k] \in Age
  BY DEF CardInv, CardTyped
<1>2. \A x \in Age : Claims!Older(x) \in Age /\ Claims!Older(x) <= x + 1
  BY DEF Claims!Older
<1> DEFINE whole == [k \in Model |-> IF Claims!Whole(k) THEN 0 ELSE Claims!Older(past.whole[k])]
           room == [k \in Model |-> IF Claims!Room(k) THEN 0 ELSE Claims!Older(past.room[k])]
<1>3. whole \in [Model -> Age] /\ room \in [Model -> Age]
  BY <1>1, <1>2
<1>4. whole[m] <= past.whole[m] + 1 /\ room[m] <= past.room[m] + 1
  BY <1>1, <1>2
<1>5. (Claims!Whole(m) => whole[m] = 0) /\ (Claims!Room(m) => room[m] = 0)
  OBVIOUS
<1>6. past' = [whole |-> whole, room |-> room]
  OBVIOUS
<1> HIDE DEF whole, room
<1>7. past'.whole = whole /\ past'.room = room /\ past' \in [whole : [Model -> Age], room : [Model -> Age]]
  BY <1>3, <1>6
<1>8. Claims!Whole(m)' <=> Claims!Whole(m)
  BY DEF Claims!machine, Claims!Whole, Claims!Files
<1>9. Claims!Room(m)' <=> Claims!Room(m)
  BY DEF Claims!machine, Claims!Room, Claims!Free, Claims!FreeWith, Claims!Held,
     Claims!Minus, Claims!Weight
<1>10. QED
  BY <1>4, <1>5, <1>7, <1>8, <1>9

LEMMA CardStart == Claims!Init => CardInv
<1> SUFFICES ASSUME Claims!Init PROVE CardInv
  OBVIOUS
<1> USE ClaimConstants, ModelAssumption DEF Age, Claims!ClaimsAssumption
<1> DEFINE whole == [m \in Model |-> IF Claims!Whole(m) THEN 0 ELSE Claims!Top]
           room == [m \in Model |-> IF Claims!Weight(m) + Reserve <= Claims!Free THEN 0 ELSE Claims!Top]
<1>1. past = [whole |-> whole, room |-> room]
  BY DEF Claims!Init
<1>2. whole \in [Model -> Age] /\ room \in [Model -> Age]
  OBVIOUS
<1>3. \A m \in Model : (Claims!Whole(m) => whole[m] = 0) /\ (Claims!Room(m) => room[m] = 0)
  BY DEF Claims!Room
<1> HIDE DEF whole, room
<1>4. /\ here \in [Model -> SUBSET Nat] /\ coming \in [Model -> SUBSET Nat]
      /\ other \in Nat /\ loaded \in Model \cup {NoModel}
  BY DEF Claims!Init
<1>5. scan \in ScanRecord /\ scan.pc = "idle"
  <2>1. [budget |-> Claims!Unknown, now |-> Claims!Unknown] \in Claims!Memory
    BY DEF Claims!Memory
  <2>2. [m \in Model |-> "absent"] \in [Model -> {"absent", "incomplete", "complete"}]
    OBVIOUS
  <2>3. scan = Claims!NoScan
    BY DEF Claims!Init
  <2>4. QED
    BY <2>1, <2>2, <2>3 DEF Claims!NoScan, ScanRecord
<1>6. scanned \in [verdict : [Model -> Claims!State], age : Age] /\ scanned.age = Stale + 2
  BY DEF Claims!Init, Claims!State
<1>7. probe \in [pc : {"idle", "listing", "proving"}, candidate : Model \cup {NoModel}] /\ probe.pc = "idle"
  BY DEF Claims!Init, Claims!NoProbe
<1>8. CardTyped
  BY <1>1, <1>2, <1>4, <1>5, <1>6, <1>7 DEF CardTyped
<1>9. QED
  BY <1>1, <1>3, <1>5, <1>6, <1>7, <1>8 DEF CardInv, PastKnown, ScanBacked, VerdictsBacked,
     TokenBacked

\* What an instrument of the machine's own memory states was free when it was read.
LEMMA MeasuredRoom ==
  ASSUME CardInv, OwnMemory = TRUE, NEW memory \in Claims!Measured, NEW m \in Model,
         memory.now # Claims!Unknown, Claims!Weight(m) + Reserve <= memory.now
  PROVE  Claims!Room(m)
<1> USE ClaimConstants
<1>1. Claims!Free \in Nat
  <2>1. other \in Nat /\ Claims!Held(loaded) \in Nat
    BY DEF CardInv, CardTyped, Claims!Held
  <2>2. QED
    BY <2>1 DEF Claims!Free, Claims!FreeWith, Claims!Minus
<1>2. PICK b \in Claims!MeasuredBudget : memory \in [budget : {b}, now : Claims!AvailableNow(b)]
  BY DEF Claims!Measured
<1>3. memory.now \in Claims!AvailableNow(b)
  BY <1>2
<1>4. b # Claims!Unknown /\ b = Budget
  BY <1>3 DEF Claims!AvailableNow, Claims!MeasuredBudget
<1>5. memory.now = IF Claims!Free # Claims!Unknown /\ Claims!Free > b THEN b ELSE Claims!Free
  BY <1>3, <1>4 DEF Claims!AvailableNow, Claims!Claimable
<1>6. QED
  BY <1>1, <1>4, <1>5 DEF Claims!Room

\* One period: the past ages with the readings, and a scan that starts takes memory's word.
LEMMA TickStep == ASSUME CardInv, OwnMemory = TRUE, Claims!Tick PROVE CardInv'
<1> USE ClaimConstants DEF Age
<1>1. /\ probe.pc = "idle" /\ ~scan.late /\ probe' = [Claims!NoProbe EXCEPT !.pc = "listing"]
      /\ scanned' = [scanned EXCEPT !.age = Claims!Older(@)] /\ UNCHANGED <<here, coming, other, loaded>>
  BY DEF Claims!Tick, Claims!machine
<1>2. \A m \in Model :
         /\ past' \in [whole : [Model -> Age], room : [Model -> Age]]
         /\ past'.whole[m] <= past.whole[m] + 1 /\ past'.room[m] <= past.room[m] + 1
         /\ Claims!Whole(m)' => past'.whole[m] = 0
         /\ Claims!Room(m)' => past'.room[m] = 0
  BY PastAges DEF Claims!Tick
<1>3. past' \in [whole : [Model -> Age], room : [Model -> Age]]
  <2>1. PICK m \in Model : TRUE
    BY ModelAssumption DEF Claims!ClaimsAssumption
  <2>2. QED
    BY <1>2, <2>1
<1>4. PICK memory \in Claims!Measured :
         scan' = IF scan.pc # "idle" THEN [scan EXCEPT !.late = TRUE]
                 ELSE [Claims!NoScan EXCEPT !.pc = "files", !.memory = memory]
  BY DEF Claims!Tick
<1>5. scanned \in [verdict : [Model -> Claims!State], age : Age] /\ scan \in ScanRecord
  BY DEF CardInv, CardTyped
<1>6. /\ scanned' \in [verdict : [Model -> Claims!State], age : Age] /\ scanned'.verdict = scanned.verdict
      /\ scanned'.age = IF scanned.age = Claims!Top THEN Claims!Top ELSE scanned.age + 1
  BY <1>1, <1>5 DEF Claims!Older
<1>7. probe' \in [pc : {"idle", "listing", "proving"}, candidate : Model \cup {NoModel}] /\ probe'.pc = "listing"
  BY <1>1 DEF Claims!NoProbe
<1>8. PastKnown'
  BY <1>2 DEF PastKnown
<1>9. \A m \in Model : past.whole[m] \in Nat /\ past.room[m] \in Nat /\ past'.whole[m] \in Nat /\ past'.room[m] \in Nat
  BY <1>3 DEF CardInv, CardTyped
<1>10. VerdictsBacked'
  <2>1. scanned'.age <= Stale => scanned'.age = scanned.age + 1 /\ scanned.age <= Stale /\ scanned.age \in Nat
    BY <1>5, <1>6
  <2>2. QED
    BY <1>2, <1>6, <1>9, <2>1 DEF CardInv, VerdictsBacked, Claims!Fit
<1>11. TokenBacked'
  BY <1>7 DEF TokenBacked
<1>12. scan' \in ScanRecord /\ (scan'.pc # "idle" => scan'.done < Len(Order)) /\ ScanBacked'
  <2>1. CASE scan.pc # "idle"
    <3>1. /\ scan' \in ScanRecord /\ scan'.late = TRUE /\ scan'.pc = scan.pc /\ scan'.done = scan.done
          /\ scan'.memory = scan.memory /\ scan'.found = scan.found /\ scan'.names = scan.names
          /\ scan'.dangling = scan.dangling
      BY <1>4, <1>5, <2>1 DEF ScanRecord
    <3>2. Period = 0 /\ Period' = 1
      BY <1>1, <3>1 DEF Period
    <3>3. Claims!Repo' = Claims!Repo /\ Claims!Repo \in Model
      BY <2>1, <3>1, RepoListed DEF CardInv, Claims!Repo
    <3>4. \A m \in Model : past.room[m] <= 0 => past'.room[m] <= 1
      BY <1>2, <1>9
    <3>5. \A m \in Model : past.whole[m] <= 0 => past'.whole[m] <= 1
      BY <1>2, <1>9
    <3>6. \A m \in Model :
             /\ scan'.memory.now # Claims!Unknown' /\ Claims!Weight(m)' + Reserve <= scan'.memory.now =>
                   past'.room[m] <= 1
             /\ scan'.found[m] = "complete" => past'.whole[m] <= 1
      BY <2>1, <3>1, <3>2, <3>4, <3>5 DEF CardInv, ScanBacked, Claims!Unknown, Claims!Weight
    <3>7. scan'.pc = "markers" /\ ~scan'.dangling /\ scan'.names = Claims!Files(Claims!Repo)' =>
             past'.whole[Claims!Repo'] <= 1
      <4>1. Claims!Files(Claims!Repo)' = Claims!Files(Claims!Repo)
        BY <3>3 DEF Claims!Files
      <4>2. QED
        BY <2>1, <3>1, <3>2, <3>3, <3>5, <4>1 DEF CardInv, ScanBacked
    <3>8. ScanBacked'
      BY <3>2, <3>6, <3>7 DEF ScanBacked
    <3>9. QED
      BY <2>1, <3>1, <3>8 DEF CardInv, CardTyped
  <2>2. CASE scan.pc = "idle"
    <3>1. memory \in Claims!Memory
      <4>1. PICK b \in Claims!MeasuredBudget : memory \in [budget : {b}, now : Claims!AvailableNow(b)]
        BY DEF Claims!Measured
      <4>2. Claims!Free \in 0..Budget
        <5>1. other \in Nat /\ Claims!Held(loaded) \in Nat
          BY DEF CardInv, CardTyped, Claims!Held
        <5>2. QED
          BY <5>1 DEF Claims!Free, Claims!FreeWith, Claims!Minus
      <4>3. Claims!Claimable \subseteq (0..Budget) \cup {Claims!Unknown}
        BY <4>2 DEF Claims!Claimable
      <4>4. b \in {Budget, Claims!Unknown} /\ Claims!AvailableNow(b) \subseteq (0..Budget) \cup {Claims!Unknown}
        BY <4>3 DEF Claims!MeasuredBudget, Claims!AvailableNow
      <4>5. QED
        BY <4>1, <4>4 DEF Claims!Memory
    <3>2. [m \in Model |-> "absent"] \in [Model -> {"absent", "incomplete", "complete"}]
      OBVIOUS
    <3> DEFINE begun == [Claims!NoScan EXCEPT !.pc = "files", !.memory = memory]
    <3>3. /\ begun \in ScanRecord /\ begun.pc = "files" /\ begun.memory = memory /\ begun.late = FALSE /\ begun.done = 0
          /\ begun.found = [m \in Model |-> "absent"]
      BY <3>1, <3>2 DEF Claims!NoScan, ScanRecord
    <3>4. scan' = begun
      BY <1>4, <2>2
    <3> HIDE DEF begun
    <3>5. 0 < Len(Order)
      <4>1. Order \in Seq(Model) /\ Order # << >>
        BY ModelAssumption DEF Claims!ClaimsAssumption
      <4>2. QED
        BY <4>1
    <3>6. \A m \in Model : memory.now # Claims!Unknown /\ Claims!Weight(m) + Reserve <= memory.now =>
                past'.room[m] = 0
      <4>1. \A m \in Model : Claims!Room(m)' <=> Claims!Room(m)
        BY <1>1 DEF Claims!Room, Claims!Free, Claims!FreeWith, Claims!Held, Claims!Minus,
           Claims!Weight
      <4>2. QED
        BY <1>2, <4>1, MeasuredRoom
    <3>7. ScanBacked'
      <4>1. Period' = 0 /\ \A m \in Model : begun.found[m] # "complete"
        BY <3>3, <3>4 DEF Period
      <4>2. QED
        BY <3>3, <3>4, <3>6, <4>1 DEF ScanBacked, Claims!Unknown, Claims!Weight
    <3>8. QED
      BY <3>3, <3>4, <3>5, <3>7
  <2>3. QED
    BY <2>1, <2>2
<1>13. CardTyped'
  BY <1>1, <1>3, <1>6, <1>7, <1>12 DEF CardInv, CardTyped
<1>14. QED
  BY <1>8, <1>10, <1>11, <1>12, <1>13 DEF CardInv

LEMMA SleepStep == ASSUME CardInv, Claims!Sleeps PROVE CardInv'
<1> USE ClaimConstants DEF Age
<1> DEFINE whole == [m \in Model |-> IF Claims!Whole(m) THEN 0 ELSE Claims!Top]
           room == [m \in Model |-> IF Claims!Room(m) THEN 0 ELSE Claims!Top]
<1>1. /\ probe.pc = "idle" /\ scan.pc = "idle" /\ UNCHANGED <<here, coming, other, loaded, scan, probe>>
      /\ scanned' = [scanned EXCEPT !.age = Claims!Top] /\ past' = [whole |-> whole, room |-> room]
  BY DEF Claims!Sleeps
<1>2. whole \in [Model -> Age] /\ room \in [Model -> Age]
  OBVIOUS
<1>3. \A m \in Model : (Claims!Whole(m) => whole[m] = 0) /\ (Claims!Room(m) => room[m] = 0)
  OBVIOUS
<1> HIDE DEF whole, room
<1>4. past' \in [whole : [Model -> Age], room : [Model -> Age]] /\ past'.whole = whole /\ past'.room = room
  BY <1>1, <1>2
<1>5. scanned' \in [verdict : [Model -> Claims!State], age : Age] /\ scanned'.age = Stale + 2
  BY <1>1 DEF CardInv, CardTyped
<1>6. \A m \in Model : (Claims!Whole(m)' <=> Claims!Whole(m)) /\ (Claims!Room(m)' <=> Claims!Room(m))
  BY <1>1 DEF Claims!Whole, Claims!Files, Claims!Room, Claims!Free, Claims!FreeWith,
     Claims!Held, Claims!Minus,
              Claims!Weight
<1>7. PastKnown'
  BY <1>3, <1>4, <1>6 DEF PastKnown
<1>8. CardTyped'
  BY <1>1, <1>4, <1>5 DEF CardInv, CardTyped
<1>9. QED
  BY <1>1, <1>5, <1>7, <1>8 DEF CardInv, ScanBacked, VerdictsBacked, TokenBacked

LEMMA FilesStep == ASSUME CardInv, Counted = Model, Claims!ScanFiles PROVE CardInv'
<1> USE ClaimConstants DEF Age
<1>1. PICK linked \in SUBSET coming[Claims!Repo] :
         scan' = [scan EXCEPT !.pc = "markers", !.names = here[Claims!Repo] \cup linked, !.dangling = linked # {}]
  BY DEF Claims!ScanFiles
<1>2. scan.pc = "files" /\ UNCHANGED <<here, coming, other, loaded, past, probe, scanned>>
  BY DEF Claims!ScanFiles, Claims!machine
<1>3. Claims!Repo \in Model
  BY <1>2, RepoListed DEF CardInv
<1>4. here[Claims!Repo] \cup linked \in SUBSET Nat /\ (linked # {}) \in BOOLEAN
  BY <1>1, <1>3 DEF CardInv, CardTyped
<1> DEFINE names == here[Claims!Repo] \cup linked
           dangling == linked # {}
<1>5. ~dangling => names = here[Claims!Repo]
  OBVIOUS
<1> HIDE DEF names, dangling
<1>6. /\ scan' \in ScanRecord /\ scan'.pc = "markers" /\ scan'.names = names /\ scan'.dangling = dangling
      /\ scan'.memory = scan.memory /\ scan'.found = scan.found /\ scan'.late = scan.late /\ scan'.done = scan.done
  <2>1. scan \in ScanRecord /\ names \in SUBSET Nat /\ dangling \in BOOLEAN
    BY <1>4 DEF CardInv, CardTyped, names, dangling
  <2>2. scan' = [scan EXCEPT !.pc = "markers", !.names = names, !.dangling = dangling]
    BY <1>1 DEF names, dangling
  <2>3. QED
    BY <2>1, <2>2 DEF ScanRecord
<1>7. Claims!Repo' = Claims!Repo /\ Period' = Period /\ Period \in {0, 1}
  BY <1>6 DEF Claims!Repo, Period
<1>8. ~dangling /\ names = Claims!Files(Claims!Repo) => past.whole[Claims!Repo] = 0
  BY <1>3, <1>5 DEF CardInv, PastKnown, Claims!Whole
<1>9. ScanBacked'
  BY <1>2, <1>3, <1>6, <1>7, <1>8 DEF CardInv, ScanBacked, Claims!Unknown, Claims!Weight,
     Claims!Files
<1>10. CardTyped'
  BY <1>2, <1>6 DEF CardInv, CardTyped
<1>11. PastKnown' /\ VerdictsBacked' /\ TokenBacked'
  BY <1>2 DEF CardInv, PastKnown, VerdictsBacked, TokenBacked, Claims!Whole, Claims!Files,
     Claims!Room, Claims!Free,
              Claims!FreeWith, Claims!Held, Claims!Minus, Claims!Weight, Claims!Fit
<1>12. QED
  BY <1>9, <1>10, <1>11 DEF CardInv

\* The second look: only a repository without a file missing or under way is complete.
LEMMA MarkersStep == ASSUME CardInv, Counted = Model, Claims!ScanMarkers PROVE CardInv'
<1> USE ClaimConstants DEF Age
<1> DEFINE found == [scan.found EXCEPT ![Claims!Repo] = Claims!Found]
<1>1. scan.pc = "markers" /\ UNCHANGED <<here, coming, other, loaded, past, probe>>
  BY DEF Claims!ScanMarkers, Claims!machine
<1>2. Claims!Repo \in Model
  BY <1>1, RepoListed DEF CardInv
<1>3. scan \in ScanRecord /\ scan.done < Len(Order)
  BY <1>1 DEF CardInv, CardTyped
<1>4. Claims!Found \in {"absent", "incomplete", "complete"}
  BY DEF Claims!Found
<1>5. Claims!Found = "complete" => past.whole[Claims!Repo] <= Period
  <2>1. Claims!Found = "complete" => ~scan.dangling /\ scan.names = Claims!Files(Claims!Repo)
    BY <1>2 DEF Claims!Found, Claims!NoneMissing
  <2>2. QED
    BY <1>1, <2>1 DEF CardInv, ScanBacked
<1>6. found \in [Model -> {"absent", "incomplete", "complete"}]
  BY <1>3, <1>4 DEF ScanRecord
<1>7. \A m \in Model : found[m] = "complete" => past.whole[m] <= Period
  <2>1. \A m \in Model : scan.found[m] = "complete" => past.whole[m] <= Period
    BY <1>1 DEF CardInv, ScanBacked
  <2>2. \A m \in Model : m # Claims!Repo => found[m] = scan.found[m]
    BY <1>3 DEF ScanRecord
  <2>3. found[Claims!Repo] = Claims!Found
    BY <1>2, <1>3 DEF ScanRecord
  <2>4. QED
    BY <1>5, <2>1, <2>2, <2>3
<1>8. \A m \in Model : scan.memory.now # Claims!Unknown /\ Claims!Weight(m) + Reserve <= scan.memory.now =>
         past.room[m] <= Period
  BY <1>1 DEF CardInv, ScanBacked
<1>9. PastKnown' /\ TokenBacked'
  BY <1>1 DEF CardInv, PastKnown, TokenBacked, Claims!Whole, Claims!Files, Claims!Room,
     Claims!Free,
              Claims!FreeWith, Claims!Held, Claims!Minus, Claims!Weight
<1>10. CASE scan.done + 1 < Len(Order)
  <2>1. scan' = [scan EXCEPT !.pc = "files", !.done = @ + 1, !.found = found, !.names = {}, !.dangling = FALSE]
    BY <1>10 DEF Claims!ScanMarkers
  <2>2. scanned' = scanned
    BY <1>10 DEF Claims!ScanMarkers
  <2> HIDE DEF found
  <2>3. /\ scan' \in ScanRecord /\ scan'.pc = "files" /\ scan'.done = scan.done + 1 /\ scan'.found = found
        /\ scan'.memory = scan.memory /\ scan'.late = scan.late
    <3> DEFINE doneNow == scan.done + 1
    <3>1. scan' = [scan EXCEPT !.pc = "files", !.done = doneNow, !.found = found, !.names = {}, !.dangling = FALSE]
      BY <2>1
    <3>2. doneNow \in Nat
      BY <1>3 DEF ScanRecord
    <3> HIDE DEF doneNow
    <3>3. /\ scan' \in ScanRecord /\ scan'.pc = "files" /\ scan'.done = doneNow /\ scan'.found = found
          /\ scan'.memory = scan.memory /\ scan'.late = scan.late
      <4>1. {} \in SUBSET Nat /\ scan.memory \in Claims!Memory /\ scan.late \in BOOLEAN
        BY <1>3 DEF ScanRecord
      <4>2. scan' = [pc |-> "files", memory |-> scan.memory, done |-> doneNow, names |-> {}, dangling |-> FALSE,
                     found |-> found, late |-> scan.late]
        BY <1>3, <3>1 DEF ScanRecord
      <4>3. QED
        BY <1>6, <3>2, <4>1, <4>2 DEF ScanRecord
    <3>4. QED
      BY <3>3 DEF doneNow
  <2>4. Period' = Period
    BY <2>3 DEF Period
  <2>5. ScanBacked'
    BY <1>1, <1>7, <1>8, <2>3, <2>4 DEF ScanBacked, Claims!Unknown, Claims!Weight
  <2>6. CardTyped'
    BY <1>1, <1>10, <2>2, <2>3 DEF CardInv, CardTyped
  <2>7. VerdictsBacked'
    BY <1>1, <2>2 DEF CardInv, VerdictsBacked, Claims!Fit
  <2>8. QED
    BY <1>9, <2>5, <2>6, <2>7 DEF CardInv
<1>11. CASE ~(scan.done + 1 < Len(Order))
  <2> DEFINE verdict == [m \in Model |-> Claims!Rank(m, found[m], scan.memory)]
  <2>1. scan' = Claims!NoScan /\ scanned' = [verdict |-> verdict, age |-> 0]
    BY <1>11 DEF Claims!ScanMarkers
  <2> HIDE DEF found
  <2>2. \A m \in Model : Claims!ClassifyFit(m, scan.memory) \in Claims!Fit
    BY DEF Claims!ClassifyFit, Claims!Fit
  <2>3. \A m \in Model : found[m] \in {"absent", "incomplete", "complete"}
    BY <1>6
  <2>4. \A m \in Model : verdict[m] \in Claims!State
    BY <2>2, <2>3 DEF Claims!Rank, Claims!State
  <2>5. verdict \in [Model -> Claims!State]
    BY <2>4
  <2>6. \A m \in Model : verdict[m] \in Claims!Fit => past.whole[m] <= Period
    BY <1>7, <2>3 DEF Claims!Rank, Claims!Fit
  <2>7. \A m \in Model : verdict[m] = "fits-now" =>
           scan.memory.now # Claims!Unknown /\ Claims!Weight(m) + Reserve <= scan.memory.now
    <3>1. \A m \in Model : Claims!ClassifyFit(m, scan.memory) = "fits-now" =>
             scan.memory.now # Claims!Unknown /\ Claims!Weight(m) + Reserve <= scan.memory.now
      BY DEF Claims!ClassifyFit
    <3>2. QED
      BY <2>3, <3>1 DEF Claims!Rank
  <2> HIDE DEF verdict
  <2>8. scanned' \in [verdict : [Model -> Claims!State], age : Age] /\ scanned'.age = 0 /\ scanned'.verdict = verdict
    BY <2>1, <2>5
  <2>9. Period \in {0, 1}
    BY DEF Period
  <2>10. VerdictsBacked'
    <3>1. \A m \in Model : past.whole[m] \in Nat /\ past.room[m] \in Nat
      BY DEF CardInv, CardTyped
    <3>2. \A m \in Model : scanned'.verdict[m] \in Claims!Fit => past'.whole[m] <= scanned'.age + 1
      BY <1>1, <2>6, <2>8, <2>9, <3>1
    <3>3. \A m \in Model : scanned'.verdict[m] = "fits-now" => past'.room[m] <= scanned'.age + 1
      BY <1>1, <1>8, <2>7, <2>8, <2>9, <3>1
    <3>4. QED
      BY <3>2, <3>3 DEF VerdictsBacked, Claims!Fit
  <2>11. scan' \in ScanRecord /\ scan'.pc = "idle"
    <3>1. [budget |-> Claims!Unknown, now |-> Claims!Unknown] \in Claims!Memory
      BY DEF Claims!Memory
    <3>2. [m \in Model |-> "absent"] \in [Model -> {"absent", "incomplete", "complete"}]
      OBVIOUS
    <3>3. QED
      BY <2>1, <3>1, <3>2 DEF Claims!NoScan, ScanRecord
  <2>12. ScanBacked'
    BY <2>11 DEF ScanBacked
  <2>13. CardTyped'
    BY <1>1, <2>8, <2>11 DEF CardInv, CardTyped
  <2>14. QED
    BY <1>9, <2>10, <2>12, <2>13 DEF CardInv
<1>12. QED
  BY <1>10, <1>11

\* The steps of ServedModelProbe.refresh touch the probe alone, and ask only for what the
\* last scan found to fit.
LEMMA ProbeStep ==
  ASSUME CardInv, UNCHANGED <<here, coming, other, loaded, past, scan, scanned>>,
         \/ probe' = Claims!NoProbe
         \/ \E m \in Model : Claims!CouldLoad(m) /\ probe' = [pc |-> "proving", candidate |-> m]
  PROVE  CardInv'
<1> USE ClaimConstants DEF Age
<1>1. /\ probe' \in [pc : {"idle", "listing", "proving"}, candidate : Model \cup {NoModel}]
      /\ probe'.pc = "proving" => probe'.candidate \in Model /\ Claims!CouldLoad(probe'.candidate)
  <2>1. CASE probe' = Claims!NoProbe
    BY <2>1 DEF Claims!NoProbe
  <2>2. CASE \E m \in Model : Claims!CouldLoad(m) /\ probe' = [pc |-> "proving", candidate |-> m]
    <3>1. PICK m \in Model : Claims!CouldLoad(m) /\ probe' = [pc |-> "proving", candidate |-> m]
      BY <2>2
    <3>2. probe'.candidate = m
      BY <3>1
    <3>3. QED
      BY <3>1, <3>2
  <2>3. QED
    BY <2>1, <2>2
<1>2. \A m \in Model : Claims!CouldLoad(m) =>
         past.whole[m] <= Stale + 1 /\ past.room[m] <= Stale + 1
  <2>1. \A m \in Model : past.whole[m] \in Nat /\ past.room[m] \in Nat
    BY DEF CardInv, CardTyped
  <2>2. scanned.age \in Nat
    BY DEF CardInv, CardTyped
  <2>3. \A m \in Model : Claims!CouldLoad(m) => scanned.age <= Stale /\ scanned.verdict[m] = "fits-now"
    BY <2>2 DEF Claims!CouldLoad, Claims!Available
  <2>4. \A m \in Model : Claims!CouldLoad(m) =>
           past.whole[m] <= scanned.age + 1 /\ past.room[m] <= scanned.age + 1
    BY <2>3 DEF CardInv, VerdictsBacked, Claims!Fit
  <2>5. QED
    BY <2>1, <2>2, <2>3, <2>4
<1>3. TokenBacked'
  BY <1>1, <1>2 DEF TokenBacked
<1>4. CardTyped'
  BY <1>1 DEF CardInv, CardTyped
<1>5. PastKnown' /\ VerdictsBacked'
  BY DEF CardInv, PastKnown, VerdictsBacked, Claims!Whole, Claims!Files, Claims!Room,
     Claims!Free,
         Claims!FreeWith, Claims!Held, Claims!Minus, Claims!Weight, Claims!Fit
<1>6. ScanBacked'
  BY DEF CardInv, ScanBacked, Period, Claims!Unknown, Claims!Weight, Claims!Files, Claims!Repo
<1>7. QED
  BY <1>3, <1>4, <1>5, <1>6 DEF CardInv

LEMMA CardStep ==
  ASSUME CardInv, Counted = Model, OwnMemory = TRUE, [Claims!Next]_(Claims!claimVars) PROVE CardInv'
<1> USE ClaimConstants
<1>1. /\ here \in [Model -> SUBSET Nat] /\ coming \in [Model -> SUBSET Nat]
      /\ other \in Nat /\ loaded \in Model \cup {NoModel}
  BY DEF CardInv, CardTyped
<1>2. ASSUME NEW m \in Model, NEW n \in Claims!Files(m), Claims!Download(m, n) PROVE CardInv'
  <2>1. n \in Nat
    BY ModelAssumption DEF Claims!Files, Claims!ClaimsAssumption
  <2> DEFINE arriving == [coming EXCEPT ![m] = @ \cup {n}]
  <2>2. arriving \in [Model -> SUBSET Nat]
    BY <1>1, <2>1
  <2>3. Claims!Becomes(here, arriving, other, loaded) /\ probe' = probe
    BY <1>2 DEF Claims!Download, Claims!Becomes
  <2> HIDE DEF arriving
  <2>4. QED
    BY <1>1, <2>2, <2>3, MachineMoves
<1>3. ASSUME NEW m \in Model, NEW n \in Claims!Files(m), Claims!Arrives(m, n) PROVE CardInv'
  <2>1. n \in Nat
    BY ModelAssumption DEF Claims!Files, Claims!ClaimsAssumption
  <2> DEFINE disk == [here EXCEPT ![m] = @ \cup {n}]
             arriving == [coming EXCEPT ![m] = @ \ {n}]
  <2>2. disk \in [Model -> SUBSET Nat] /\ arriving \in [Model -> SUBSET Nat]
    BY <1>1, <2>1
  <2>3. Claims!Becomes(disk, arriving, other, loaded) /\ probe' = probe
    BY <1>3 DEF Claims!Arrives, Claims!Becomes
  <2> HIDE DEF disk, arriving
  <2>4. QED
    BY <1>1, <2>2, <2>3, MachineMoves
<1>4. ASSUME NEW m \in Model, Claims!Delete(m) PROVE CardInv'
  <2> DEFINE disk == [here EXCEPT ![m] = {}]
             arriving == [coming EXCEPT ![m] = {}]
  <2>1. disk \in [Model -> SUBSET Nat] /\ arriving \in [Model -> SUBSET Nat]
    BY <1>1
  <2>2. Claims!Becomes(disk, arriving, other, loaded) /\ probe' = probe
    BY <1>4 DEF Claims!Delete, Claims!Becomes
  <2> HIDE DEF disk, arriving
  <2>3. QED
    BY <1>1, <2>1, <2>2, MachineMoves
<1>5. ASSUME NEW amount \in Loads, Claims!OthersTake(amount) PROVE CardInv'
  <2>1. amount \in Nat
    BY ModelAssumption DEF Claims!ClaimsAssumption
  <2>2. Claims!Becomes(here, coming, amount, loaded) /\ probe' = probe
    BY <1>5 DEF Claims!OthersTake, Claims!Becomes
  <2>3. QED
    BY <1>1, <2>1, <2>2, MachineMoves
<1>6. ASSUME NEW m \in Model, Claims!ServerLoads(m) \/ Claims!OnDemand(m) PROVE CardInv'
  <2>1. Claims!Becomes(here, coming, other, m) /\ probe' = probe
    BY <1>6 DEF Claims!ServerLoads, Claims!OnDemand, Claims!Becomes
  <2>2. QED
    BY <1>1, <2>1, MachineMoves
<1>7. CASE Claims!ServerStops
  <2>1. Claims!Becomes(here, coming, other, NoModel) /\ probe' = probe
    BY <1>7 DEF Claims!ServerStops, Claims!Becomes
  <2>2. QED
    BY <1>1, <2>1, MachineMoves
<1>8. CASE Claims!Tick \/ Claims!Sleeps \/ Claims!ScanFiles \/ Claims!ScanMarkers
  BY <1>8, TickStep, SleepStep, FilesStep, MarkersStep
<1>9. CASE Claims!ListingFails \/ Claims!ListingRead \/ Claims!TokenReturned \/ Claims!NoToken
  <2>1. UNCHANGED <<here, coming, other, loaded, past, scan, scanned>> /\ probe' = Claims!NoProbe
    BY <1>9 DEF Claims!ListingFails, Claims!ListingRead, Claims!TokenReturned,
       Claims!NoToken, Claims!Store,
                Claims!machine
  <2>2. QED
    BY <2>1, ProbeStep
<1>10. ASSUME NEW m \in Model, Claims!AskForToken(m) PROVE CardInv'
  <2>1. /\ UNCHANGED <<here, coming, other, loaded, past, scan, scanned>>
        /\ Claims!CouldLoad(m) /\ probe' = [pc |-> "proving", candidate |-> m]
    BY <1>10 DEF Claims!AskForToken, Claims!Asked, Claims!machine
  <2>2. QED
    BY <2>1, ProbeStep
<1>11. CASE UNCHANGED Claims!claimVars
  BY <1>11 DEF Claims!claimVars, Claims!machine, CardInv, CardTyped, PastKnown, ScanBacked,
     VerdictsBacked, TokenBacked,
               Period, Claims!Whole, Claims!Files, Claims!Room, Claims!Free, Claims!FreeWith, Claims!Held, Claims!Minus,
               Claims!Weight, Claims!Fit, Claims!Repo
<1>12. QED
  BY <1>2, <1>3, <1>4, <1>5, <1>6, <1>7, <1>8, <1>9, <1>10, <1>11 DEF Claims!Next

\* The invariant says what the card may: a verdict that still counts is Stale periods old at
\* most, and was one period behind when it was stored.
LEMMA CardClaims == ASSUME CardInv PROVE ClaimsBacked
<1> USE ClaimConstants DEF Age
<1>1. \A m \in Model : past.whole[m] \in Nat /\ past.room[m] \in Nat
  BY DEF CardInv, CardTyped
<1>2. scanned.age \in Nat
  BY DEF CardInv, CardTyped
<1>3. \A m \in Model : Claims!Available(m) \in Claims!Fit => past.whole[m] <= Stale + 1
  <2>1. \A m \in Model : Claims!Available(m) \in Claims!Fit =>
           scanned.age <= Stale /\ scanned.verdict[m] \in Claims!Fit
    BY <1>2 DEF Claims!Available, Claims!Fit
  <2>2. QED
    BY <1>1, <1>2, <2>1 DEF CardInv, VerdictsBacked
<1>4. \A m \in Model : Claims!Available(m) = "fits-now" => past.room[m] <= Stale + 1
  <2>1. \A m \in Model : Claims!Available(m) = "fits-now" =>
           scanned.age <= Stale /\ scanned.verdict[m] = "fits-now"
    BY <1>2 DEF Claims!Available
  <2>2. QED
    BY <1>1, <1>2, <2>1 DEF CardInv, VerdictsBacked
<1>5. \A m \in Claims!Published.available : m \in Model /\ Claims!Available(m) \in Claims!Fit
  BY DEF Claims!Published, Claims!Strongest, Claims!Fit
<1>6. probe.pc = "proving" =>
         past.whole[probe.candidate] <= Stale + 1 /\ past.room[probe.candidate] <= Stale + 1
  BY DEF CardInv, TokenBacked
<1>7. QED
  BY <1>3, <1>4, <1>5, <1>6 DEF ClaimsBacked, Claims!ClaimsBacked, Claims!Fit

\* No claim outlives its evidence: where shard names state their total and the memory measured
\* is the one models load into, a card names a model as available, and the probe asks it for a
\* token, only if it was whole and had room at most Stale + 1 periods ago.
THEOREM CardBacked ==
  ASSUME Counted = Model, OwnMemory = TRUE PROVE DeviceSpec => []ClaimsBacked
<1>1. CardInv /\ [Claims!Next]_(Claims!claimVars) => CardInv'
  BY CardStep
<1>2. CardInv => ClaimsBacked
  BY CardClaims
<1>3. QED
  BY <1>1, <1>2, ClaimsPart, CardStart, PTL
=============================================================================
