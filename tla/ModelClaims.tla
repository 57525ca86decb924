------------------------------ MODULE ModelClaims ------------------------------
(***************************************************************************)
(* What a machine's card says about models (packages/user-intent-kit): a    *)
(* disk scan says which models are complete and fit the memory, a probe of  *)
(* the local server says which one is served, and the next heartbeat        *)
(* publishes both from their caches.  Scan and probe run on timers of their *)
(* own, in several awaits, while models are downloaded and deleted, memory  *)
(* is taken and the server loads and unloads.  The probe proves a model by  *)
(* asking it for a token, which makes a server that loads on demand load    *)
(* it; the scan's cached verdict is its veto.                               *)
(*                                                                          *)
(* A Tick is one period of the timers.  The requests of a probe have        *)
(* timeouts well below it; a scan is taken to be done within two.           *)
(***************************************************************************)
EXTENDS Naturals, FiniteSets, Sequences

CONSTANTS Model, NoModel, Order, \* the repositories, as the directory lists them
          Shards, ShardSize, \* of each model: how many weight files, and their size
          Downloaded, \* what may be on disk to begin with
          Counted,    \* models whose shard names, or index, state the total
          Budget, Reserve, \* the memory a model may take, and the part kept free
          Loads,      \* what other programs may hold
          OwnMemory,  \* the memory measured as available is the one models load into
          Catalogue,  \* the server lists what is on disk, not what is loaded
          Configured, \* the operator's name for what is served, or NoModel
          Stale,      \* ticks after which a reading no longer counts
          MaxChanges

ClaimsAssumption ==
    /\ NoModel \notin Model /\ Counted \subseteq Model /\ Configured \in Model \cup {NoModel}
    /\ Shards \in [Model -> Nat \ {0}] /\ ShardSize \in [Model -> Nat \ {0}]
    /\ \A h \in Downloaded : h \in [Model -> SUBSET Nat] /\ \A m \in Model : h[m] \subseteq 1..Shards[m]
    /\ {Budget, Reserve, Stale, MaxChanges} \subseteq Nat /\ Loads \subseteq Nat
    /\ Order \in Seq(Model) \ {<< >>}
    /\ Reserve < Budget /\ Stale > 0 /\ {OwnMemory, Catalogue} \subseteq BOOLEAN

VARIABLES here,      \* complete weight files of each model
          coming,    \* files under download
          other,     \* memory other programs hold
          loaded,    \* the model the server holds
          scan,      \* what ModelAvailabilityProbe.refresh is doing
          scanned,   \* its last result
          probe,     \* what ServedModelProbe.refresh is doing
          served,    \* its last reading
          sinceAsked, \* ticks since the last request for a token
          past,      \* history: ticks since a model was whole, and had room
          changes

machine == <<here, coming, other, loaded, changes>>
claimVars == <<machine, scan, scanned, probe, served, sinceAsked, past>>

Top == Stale + 2  \* ages are not told apart beyond this
Older(age) == IF age = Top THEN Top ELSE age + 1

Files(m) == 1..Shards[m]
Weight(m) == Shards[m] * ShardSize[m]
Whole(m) == here[m] = Files(m)
Held(holder) == IF holder = NoModel THEN 0 ELSE Weight(holder)
Minus(a, b) == IF a > b THEN a - b ELSE 0
FreeWith(use, holder) == Minus(Budget, use + Held(holder))
Free == FreeWith(other, loaded)

Fit == {"fits-now", "fits-if-freed", "headroom-unknown", "budget-unknown", "too-large"}
State == Fit \cup {"incomplete", "absent"}
Unknown == Budget + 1
Memory == [budget : {Budget, Unknown}, now : (0..Budget) \cup {Unknown}]

NoScan == [pc |-> "idle", memory |-> [budget |-> Unknown, now |-> Unknown],
           done |-> 0, names |-> {}, dangling |-> FALSE,
           found |-> [m \in Model |-> "absent"], late |-> FALSE]
NoProbe == [pc |-> "idle", candidate |-> NoModel]
NoServer == [verdict |-> "no-server", model |-> NoModel, listed |-> {}]

TypeOK ==
    /\ here \in [Model -> SUBSET Nat] /\ coming \in [Model -> SUBSET Nat]
    /\ \A m \in Model : here[m] \cup coming[m] \subseteq Files(m) /\ here[m] \cap coming[m] = {}
    /\ other \in Loads /\ loaded \in Model \cup {NoModel} /\ changes \in 0..MaxChanges
    /\ scan.pc \in {"idle", "files", "markers"} /\ scan.memory \in Memory
    /\ scan.found \in [Model -> {"absent", "incomplete", "complete"}] /\ scan.late \in BOOLEAN
    /\ scanned \in [verdict : [Model -> State], age : 0..Top]
    /\ probe \in [pc : {"idle", "listing", "proving"}, candidate : Model \cup {NoModel}]
    /\ served.reading.verdict \in {"no-server", "idle", "listed", "generated"}
    /\ served.age \in 0..Top /\ sinceAsked \in 0..Top
    /\ past \in [whole : [Model -> 0..Top], room : [Model -> 0..Top]]

Init ==
    /\ here \in Downloaded
    /\ coming = [m \in Model |-> {}]
    /\ other = 0 /\ loaded = NoModel /\ changes = 0
    /\ scan = NoScan /\ scanned = [verdict |-> [m \in Model |-> "absent"], age |-> Top]
    /\ probe = NoProbe /\ served = [reading |-> NoServer, age |-> Top]
    /\ sinceAsked = Top
    /\ past = [whole |-> [m \in Model |-> IF Whole(m) THEN 0 ELSE Top],
               room |-> [m \in Model |-> IF Weight(m) + Reserve <= Free THEN 0 ELSE Top]]

-----------------------------------------------------------------------------
(* The fit verdict and what is published *)

\* classifyFit: an unknown on either axis is never a fit.
ClassifyFit(m, memory) ==
    CASE memory.budget = Unknown -> "budget-unknown"
      [] memory.budget # Unknown /\ Weight(m) > memory.budget - Reserve -> "too-large"
      [] OTHER -> IF memory.now = Unknown THEN "headroom-unknown"
                  ELSE IF Weight(m) + Reserve <= memory.now THEN "fits-now"
                  ELSE "fits-if-freed"

\* missingShards and the index: a total that is stated is checked, else only that
\* there is no gap below the highest number seen.
NoneMissing(m, names) ==
    names = IF m \in Counted THEN Files(m)
            ELSE {n \in Files(m) : \E k \in names : n <= k}

\* rank, in the daemon's use: it passes no served and no listed ids, so nothing
\* outranks the disk.
Rank(m, found, memory) == IF found = "complete" THEN ClassifyFit(m, memory) ELSE found

\* Mutant of Available: a scan's result does not age.
Available_Ageless(m) == scanned.verdict[m]

\* lastResult of each cache: a reading that has aged is no reading.
Available(m) == IF scanned.age > Stale THEN "absent" ELSE scanned.verdict[m]
Reading == IF served.age > Stale THEN NoServer ELSE served.reading

CouldLoad(m) == Available(m) = "fits-now"

\* heartbeatFields: of the models in the strongest state the biggest is named,
\* and only a fit is named as available.
Strongest ==
    LET of(s) == {m \in Model : Available(m) = s}
        fits == IF of("fits-now") # {} THEN of("fits-now") ELSE of("fits-if-freed")
    IN  {m \in fits : \A n \in fits : Weight(n) <= Weight(m)}

\* The next heartbeat: `model` means served and nothing else; a server that
\* answered outranks the operator's setting.
Published ==
    [model |-> IF Reading.verdict = "generated" THEN Reading.model
               ELSE IF Reading.verdict = "no-server" THEN Configured ELSE NoModel,
     listed |-> IF Cardinality(Reading.listed) = 1 THEN Reading.listed ELSE {},
     available |-> Strongest]

-----------------------------------------------------------------------------
(* The machine *)

Room(m) == Weight(m) + Reserve <= Free

\* Something changes behind the card's back; what is true now is noted in the past.
Becomes(disk, arriving, use, holder) ==
    /\ changes < MaxChanges /\ changes' = changes + 1
    /\ here' = disk /\ coming' = arriving /\ other' = use /\ loaded' = holder
    /\ past' = [past EXCEPT
          !.whole = [m \in Model |-> IF disk[m] = Files(m) THEN 0 ELSE @[m]],
          !.room = [m \in Model |-> IF Weight(m) + Reserve <= FreeWith(use, holder)
                                    THEN 0 ELSE @[m]]]
    /\ UNCHANGED <<scan, scanned, probe, served, sinceAsked>>

Download(m, n) ==
    /\ n \in Files(m) \ (here[m] \cup coming[m])
    /\ Becomes(here, [coming EXCEPT ![m] = @ \cup {n}], other, loaded)

Arrives(m, n) ==
    /\ n \in coming[m]
    /\ Becomes([here EXCEPT ![m] = @ \cup {n}], [coming EXCEPT ![m] = @ \ {n}], other, loaded)

Delete(m) ==
    /\ here[m] # {}
    /\ Becomes([here EXCEPT ![m] = {}], [coming EXCEPT ![m] = {}], other, loaded)

OthersTake(amount) == amount # other /\ Becomes(here, coming, amount, loaded)

ServerLoads(m) == loaded = NoModel /\ Whole(m) /\ Becomes(here, coming, other, m)

ServerStops == loaded # NoModel /\ Becomes(here, coming, other, NoModel)

\* measureMemoryBudget: the strongest instrument that answers states what a model may take
\* at most; none may, and installed memory is never taken for it.
MeasuredBudget == {Budget, Unknown}

\* parseVmStatBreakdown: only what nobody has to quit for counts as available; counters that
\* are missing, or do not add up to the machine, are no reading.  Where models load into a
\* memory of their own, the reading is of another one.
Claimable == {Unknown, IF OwnMemory THEN Free ELSE Budget}

\* measureAvailableNow: capped at the budget; without a budget it decides nothing.
AvailableNow(budget) ==
    IF budget = Unknown THEN {Unknown}
    ELSE {IF now # Unknown /\ now > budget THEN budget ELSE now : now \in Claimable}

\* measureMemory: both axes, neither folded into the other.
Measured == UNION {[budget : {b}, now : AvailableNow(b)] : b \in MeasuredBudget}

\* One period: the caches age, and each timer starts its refresh, unless the one
\* before is still in flight.  A probe is done within a period.
Tick ==
    /\ probe.pc = "idle" /\ ~scan.late
    /\ probe' = [NoProbe EXCEPT !.pc = "listing"]
    /\ \E memory \in Measured :
          scan' = IF scan.pc # "idle" THEN [scan EXCEPT !.late = TRUE]
                  ELSE [NoScan EXCEPT !.pc = "files", !.memory = memory]
    /\ scanned' = [scanned EXCEPT !.age = Older(@)]
    /\ served' = [served EXCEPT !.age = Older(@)]
    /\ sinceAsked' = Older(sinceAsked)
    /\ past' = [whole |-> [m \in Model |-> IF Whole(m) THEN 0 ELSE Older(past.whole[m])],
                room |-> [m \in Model |-> IF Room(m) THEN 0 ELSE Older(past.room[m])]]
    /\ UNCHANGED machine

\* The machine sleeps: time passes, no timer fires.  Not in the middle of a refresh.
Sleeps ==
    /\ probe.pc = "idle" /\ scan.pc = "idle" /\ changes < MaxChanges
    /\ changes' = changes + 1
    /\ scanned' = [scanned EXCEPT !.age = Top] /\ served' = [served EXCEPT !.age = Top]
    /\ sinceAsked' = Top
    /\ past' = [whole |-> [m \in Model |-> IF Whole(m) THEN 0 ELSE Top],
                room |-> [m \in Model |-> IF Room(m) THEN 0 ELSE Top]]
    /\ UNCHANGED <<here, coming, other, loaded, scan, probe>>

-----------------------------------------------------------------------------
(* ModelAvailabilityProbe.refresh: memory first, then one repository after the *)
(* other: its files, then the markers of files under download                  *)

Repo == Order[scan.done + 1]

\* A file under download may be linked already, and then its link dangles.
ScanFiles ==
    /\ scan.pc = "files"
    /\ \E linked \in SUBSET coming[Repo] :
          scan' = [scan EXCEPT !.pc = "markers", !.names = here[Repo] \cup linked,
                               !.dangling = linked # {}]
    /\ UNCHANGED <<machine, scanned, probe, served, sinceAsked, past>>

Found ==
    IF scan.names = {} THEN "absent"
    ELSE IF scan.dangling \/ coming[Repo] # {} \/ ~NoneMissing(Repo, scan.names)
    THEN "incomplete" ELSE "complete"

\* After the last repository the models are ranked and the result is stored.
ScanMarkers ==
    /\ scan.pc = "markers"
    /\ LET found == [scan.found EXCEPT ![Repo] = Found] IN
       IF scan.done + 1 < Len(Order)
       THEN /\ scan' = [scan EXCEPT !.pc = "files", !.done = @ + 1, !.found = found,
                                    !.names = {}, !.dangling = FALSE]
            /\ UNCHANGED scanned
       ELSE /\ scan' = NoScan
            /\ scanned' = [verdict |-> [m \in Model |-> Rank(m, found[m], scan.memory)],
                           age |-> 0]
    /\ UNCHANGED <<machine, probe, served, sinceAsked, past>>

-----------------------------------------------------------------------------
(* ServedModelProbe.refresh *)

Store(reading) ==
    /\ served' = [reading |-> reading, age |-> 0]
    /\ probe' = NoProbe

\* Nothing listens, or the GET times out.
ListingFails ==
    /\ probe.pc = "listing"
    /\ Store(NoServer)
    /\ UNCHANGED <<machine, scan, scanned, sinceAsked, past>>

Listing == IF Catalogue THEN {m \in Model : here[m] # {}} ELSE {loaded} \ {NoModel}

\* The GET is answered.  The floor between two requests equals the period, and
\* the timers drift: one period after the last request it may pass or not.  Only a
\* single listed model that the guard lets through is asked for a token; every other
\* exit leaves the verdict at LISTED.
Candidate == IF Cardinality(Listing) = 1 THEN Listing ELSE {}
Asked == {m \in Candidate : CouldLoad(m)}
ListingRead ==
    /\ probe.pc = "listing"
    /\ Store([verdict |-> IF Listing = {} THEN "idle" ELSE "listed", model |-> NoModel,
              listed |-> Listing])
    /\ Asked = {} \/ sinceAsked <= 1
    /\ UNCHANGED <<machine, scan, scanned, sinceAsked, past>>

AskForToken(m) ==
    /\ probe.pc = "listing" /\ m \in Asked /\ sinceAsked >= 1
    /\ probe' = [pc |-> "proving", candidate |-> m]
    /\ sinceAsked' = 0
    /\ UNCHANGED <<machine, scan, scanned, served, past>>

\* A server asked for a model it does not hold loads it, if it can.
OnDemand(m) ==
    /\ probe.pc = "proving" /\ probe.candidate = m /\ loaded # m
    /\ Catalogue /\ Whole(m) /\ Weight(m) <= Budget
    /\ Becomes(here, coming, other, m)

\* Mutant of TokenReturned: what came back is not recognised as a token.
TokenReturned_Unread ==
    /\ probe.pc = "proving" /\ loaded = probe.candidate
    /\ Store([verdict |-> "listed", model |-> NoModel, listed |-> {probe.candidate}])
    /\ UNCHANGED <<machine, scan, scanned, sinceAsked, past>>

TokenReturned ==
    /\ probe.pc = "proving" /\ loaded = probe.candidate
    /\ Store([verdict |-> "generated", model |-> loaded, listed |-> {probe.candidate}])
    /\ UNCHANGED <<machine, scan, scanned, sinceAsked, past>>

\* An error, a timeout, or an answer with nothing in it.
NoToken ==
    /\ probe.pc = "proving"
    /\ Store([verdict |-> "listed", model |-> NoModel, listed |-> {probe.candidate}])
    /\ UNCHANGED <<machine, scan, scanned, sinceAsked, past>>
-----------------------------------------------------------------------------
ScanStep == ScanFiles \/ ScanMarkers
Answered == ListingRead \/ \E m \in Model : AskForToken(m)

Next ==
    \/ \E m \in Model : \E n \in Files(m) : Download(m, n)
    \/ \E m \in Model : \E n \in Files(m) : Arrives(m, n)
    \/ \E m \in Model : Delete(m)
    \/ \E amount \in Loads : OthersTake(amount)
    \/ \E m \in Model : ServerLoads(m)
    \/ ServerStops
    \/ Tick
    \/ Sleeps
    \/ ScanFiles
    \/ ScanMarkers
    \/ ListingFails
    \/ ListingRead
    \/ \E m \in Model : AskForToken(m)
    \/ \E m \in Model : OnDemand(m)
    \/ TokenReturned
    \/ NoToken

\* The timers fire, a scan goes on, and a server that is asked again and again
\* answers now and then.
Fairness ==
    /\ WF_claimVars(Tick)
    /\ WF_claimVars(ScanStep) /\ SF_claimVars(Answered)
    /\ WF_claimVars(NoToken) /\ SF_claimVars(TokenReturned)

Spec == Init /\ [][Next]_claimVars /\ Fairness

-----------------------------------------------------------------------------
(* Properties *)

\* No claim outlives its evidence: a model is published as available, and is asked for a
\* token (which may load it), only if it was whole and had room lately, through scans that
\* hang, timers that slip and a machine that sleeps.
ClaimsBacked ==
    LET fitLately(m) == past.whole[m] <= Stale + 1 /\ past.room[m] <= Stale + 1 IN
    /\ \A m \in Published.available :
          IF Available(m) = "fits-now" THEN fitLately(m) ELSE past.whole[m] <= Stale + 1
    /\ probe.pc = "proving" => fitLately(probe.candidate)

\* A model that the server holds and lists alone, with room for another one of its
\* size beside it (its own memory counts against it) on a machine whose instruments
\* work, is shown as served again and again.
Shown(m) ==
    /\ loaded = m /\ Whole(m) /\ Room(m) /\ Listing = {m}
    /\ scan.pc # "idle" => scan.memory.now # Unknown
ServedShown == \A m \in Model : <>[]Shown(m) => []<>(Published.model = m)
=============================================================================
