------------------------------ MODULE ServerCards ------------------------------
(***************************************************************************)
(* packages/user-intent-kit: TensorFoldMonitor. Every interval one read of  *)
(* the registry file, of the process table (tensorfold-discovery.js) and of  *)
(* every server either names (tensorfold-status.js) makes the snapshot that  *)
(* the device heartbeat publishes: one card per server, with a token rate    *)
(* taken from the counter of the read before.                                *)
(*                                                                         *)
(* Servers start, load, listen, generate and stop while a read is under way. *)
(* Every GET is bounded by a time-out, so a read ends within its interval.   *)
(* Everything is on this machine: an entry elsewhere is one that the process  *)
(* table never shows.                                                         *)
(***************************************************************************)
EXTENDS Integers, FiniteSets

CONSTANTS
    Port, Pid,
    Recheck,      \* DETECT_RECHECK_MS, in intervals
    MaxTokens,    \* bound on the tokens a process generates
    MaxStarts,    \* bound on the processes ever started
    MaxChanges    \* bound on the edits of the registry and on what goes wrong in a read

CardsAssumption ==
    /\ Recheck \in Nat \ {0} /\ MaxTokens \in Nat /\ MaxStarts \in Nat /\ MaxChanges \in Nat

VARIABLES
    process,   \* the process table: what runs, its --port, and the loopback ports it listens on
    registry,  \* models.json: what each port's entry says of its engine
    discover,  \* INTENT_TENSORFOLD_DISCOVER, for the life of the process
    due,       \* the timer fired and its read has not run yet
    reading,   \* the read in flight
    samples,   \* #samples: the last counter read at each port
    detected,  \* #detected: what each port without a stated engine turned out to be
    snapshot,  \* what the heartbeat publishes
    made,      \* every token ever generated at each port
    upFor,     \* the intervals a port has been served by an open engine that answered every GET
    starts, changes

vars == <<process, registry, discover, due, reading, samples, detected, snapshot, made, upFor, starts, changes>>
environment == <<process, registry, discover, made, starts>>

NoPort == "no port"
NoSample == [count |-> 0, made |-> 0, taken |-> FALSE]
NotAsked == [asked |-> FALSE, tensorfold |-> FALSE, age |-> 0]
NoCard == [shown |-> FALSE, reachable |-> FALSE, rated |-> FALSE, rate |-> 0, truth |-> 0]
Gone == [kind |-> "gone", arg |-> NoPort, listens |-> {}, counter |-> 0]
Idle == [phase |-> "idle", error |-> FALSE, entries |-> [p \in Port |-> "none"], engines |-> {}, todo |-> {},
         cards |-> [p \in Port |-> NoCard]]

\* An open engine, one that wants a key, and a server that is no TensorFold.
Kinds == {"open", "keyed", "stranger"}
Engines == {"none", "tensorfold", "absent", "other"}

TypeOK ==
    /\ \A i \in Pid : /\ process[i].kind \in Kinds \cup {"gone"} /\ process[i].arg \in Port \cup {NoPort}
                      /\ process[i].listens \subseteq Port /\ process[i].counter \in 0..MaxTokens
    /\ registry \in [Port -> Engines] /\ discover \in BOOLEAN /\ due \in BOOLEAN
    /\ reading.phase \in {"idle", "scan", "probe"} /\ reading.todo \subseteq Port
    /\ \A p \in Port : /\ samples[p].count \in 0..MaxTokens /\ detected[p].age \in 0..Recheck
                       /\ upFor[p] \in 0..Recheck
    /\ snapshot.error \in BOOLEAN
    /\ starts \in 0..MaxStarts /\ changes \in 0..MaxChanges

Init ==
    /\ process = [i \in Pid |-> Gone]
    /\ registry \in [Port -> Engines]
    /\ discover \in BOOLEAN /\ due = TRUE /\ reading = Idle
    /\ samples = [p \in Port |-> NoSample]
    /\ detected = [p \in Port |-> NotAsked]
    /\ snapshot = [error |-> TRUE, cards |-> Idle.cards]
    /\ made = [p \in Port |-> 0] /\ upFor = [p \in Port |-> 0]
    /\ starts = 0 /\ changes = 0

Servers(p) == {i \in Pid : p \in process[i].listens}

\* parseServeArgv, parseServeLine: an engine is a process whose executable and first arguments say
\* so; of the rest of its command line only --port matters here.
IsEngine(i) == process[i].kind \in {"open", "keyed"}

\* parseLsofListen, parseProcNetTcp: the loopback ports it listens on.
Sockets(i) == process[i].listens

\* processesFromPs, processesFromProc: the processes of this user.
Running == {i \in Pid : process[i] # Gone}

\* chooseSocket: a --port must be one of the process's own loopback sockets; without one it must
\* listen on exactly one port.
ChooseSocket(i) ==
    IF process[i].arg # NoPort THEN {process[i].arg} \cap Sockets(i)
    ELSE IF Cardinality(Sockets(i)) = 1 THEN Sockets(i) ELSE {}

Discovered == UNION {ChooseSocket(i) : i \in {j \in Running : IsEngine(j)}}

-----------------------------------------------------------------------------
\* The rest of the machine.
Launch(i, kind, arg) ==
    /\ process[i] = Gone /\ starts < MaxStarts
    /\ process' = [process EXCEPT ![i] = [Gone EXCEPT !.kind = kind, !.arg = arg]]
    /\ starts' = starts + 1
    /\ UNCHANGED <<registry, discover, due, reading, samples, detected, snapshot, made, upFor, changes>>

Listen(i, ports) ==
    /\ process[i].kind # "gone" /\ process[i].listens = {} /\ ports # {}
    /\ process[i].arg # NoPort => process[i].arg \in ports
    /\ \A p \in ports : Servers(p) = {}
    /\ process' = [process EXCEPT ![i].listens = ports]
    /\ upFor' = [p \in Port |-> IF p \in ports THEN 0 ELSE upFor[p]]
    /\ UNCHANGED <<registry, discover, due, reading, samples, detected, snapshot, made, starts, changes>>

Stop(i) ==
    /\ process[i].kind # "gone"
    /\ upFor' = [p \in Port |-> IF p \in process[i].listens THEN 0 ELSE upFor[p]]
    /\ process' = [process EXCEPT ![i] = Gone]
    /\ UNCHANGED <<registry, discover, due, reading, samples, detected, snapshot, made, starts, changes>>

Generate(i) ==
    /\ process[i].listens # {} /\ process[i].counter < MaxTokens
    /\ process' = [process EXCEPT ![i].counter = @ + 1]
    /\ made' = [p \in Port |-> IF p \in process[i].listens THEN made[p] + 1 ELSE made[p]]
    /\ UNCHANGED <<registry, discover, due, reading, samples, detected, snapshot, upFor, starts, changes>>

EditRegistry(p, engine) ==
    /\ changes < MaxChanges /\ registry[p] # engine
    /\ registry' = [registry EXCEPT ![p] = engine]
    /\ upFor' = [upFor EXCEPT ![p] = 0]
    /\ changes' = changes + 1
    /\ UNCHANGED <<process, discover, due, reading, samples, detected, snapshot, made, starts>>

\* The interval passes.
Tick ==
    /\ reading.phase = "idle" /\ ~due
    /\ due' = TRUE
    /\ detected' = [p \in Port |-> IF detected[p].asked /\ detected[p].age < Recheck
                                   THEN [detected[p] EXCEPT !.age = @ + 1] ELSE detected[p]]
    /\ upFor' = [p \in Port |->
          IF (\E i \in Servers(p) : process[i].kind = "open") /\ upFor[p] < Recheck THEN upFor[p] + 1 ELSE upFor[p]]
    /\ UNCHANGED <<process, registry, discover, reading, samples, snapshot, made, starts, changes>>

-----------------------------------------------------------------------------
\* read: the registry first; one that cannot be read is an error and no entries.
ReadRegistry(ok) ==
    /\ due /\ reading.phase = "idle" /\ (ok \/ changes < MaxChanges)
    /\ reading' = [Idle EXCEPT !.phase = "scan", !.error = ~ok, !.entries = IF ok THEN registry ELSE @]
    /\ changes' = IF ok THEN changes ELSE changes + 1
    /\ UNCHANGED <<environment, due, samples, detected, snapshot, upFor>>

\* Then, unless that is off, the process table; a scan that fails finds nothing.
Scan(ok) ==
    /\ reading.phase = "scan" /\ (ok \/ changes < MaxChanges)
    /\ LET found == IF ok /\ discover THEN Discovered ELSE {}
       IN reading' = [reading EXCEPT !.phase = "probe", !.engines = found,
                                     !.todo = found \cup {p \in Port : reading.entries[p] # "none"}]
    /\ changes' = IF ok THEN changes ELSE changes + 1
    /\ UNCHANGED <<environment, due, samples, detected, snapshot, upFor>>

\* What the GETs can come back with: a well server's answers, or, `fault`, fewer of them.
Answers(p, token, fault) ==
    LET kinds == {process[i].kind : i \in Servers(p)}
        silent == [health |-> "none", metrics |-> "none"]
        busy == [health |-> "plain", metrics |-> "none"]
    IN IF kinds = {} THEN {silent}
       ELSE IF fault THEN {silent, busy}
       ELSE IF kinds = {"open"} THEN {[health |-> "shape", metrics |-> "series"]}
       ELSE IF kinds = {"keyed"} THEN {[health |-> "plain", metrics |-> IF token THEN "series" ELSE "denied"]}
       ELSE {[health |-> "plain", metrics |-> "other"]}

Reachable(a) == a.health # "none" \/ a.metrics # "none"
LooksTensorFold(a) == a.metrics = "series" \/ a.health = "shape"

\* buildStatus: the rate, when this counter and an earlier one can be compared.
Rated_Blind(previous, count) == previous.taken
Rated(previous, count) == previous.taken /\ count >= previous.count

Card(p, a) ==
    LET i == CHOOSE j \in Servers(p) : TRUE
        rated == a.metrics = "series" /\ Rated(samples[p], process[i].counter)
    IN [shown |-> TRUE, reachable |-> Reachable(a), rated |-> rated,
        rate |-> IF rated THEN process[i].counter - samples[p].count ELSE 0,
        truth |-> IF rated THEN made[p] - samples[p].made ELSE 0]

\* The new counter is the next baseline; one that could not be read leaves the old.
Sampled(p, a) ==
    IF a.metrics = "series"
    THEN [count |-> process[CHOOSE i \in Servers(p) : TRUE].counter, made |-> made[p], taken |-> TRUE]
    ELSE samples[p]

\* A server with no stated engine that was asked lately and is no TensorFold is not asked.
Known(p) == reading.entries[p] = "tensorfold" \/ (p \in reading.engines /\ reading.entries[p] # "other")
AskedLately(p) == detected[p].asked /\ ~detected[p].tensorfold /\ detected[p].age < Recheck

\* collectTensorFoldStatus for a server known to be TensorFold; the key is the registry entry's.
ProbeKnown(p, a) ==
    /\ detected' = IF reading.entries[p] = "absent"
                   THEN [detected EXCEPT ![p] = [asked |-> TRUE, tensorfold |-> TRUE, age |-> 0]] ELSE detected
    /\ samples' = [samples EXCEPT ![p] = Sampled(p, a)]
    /\ reading' = [reading EXCEPT !.todo = @ \ {p}, !.cards[p] = Card(p, a)]

\* And for one that has to be told by its answers; once known it stays on the list when it is silent.
Detection_Renewed(p, a) ==
    IF AskedLately(p) THEN [detected[p] EXCEPT !.age = 0]
    ELSE IF Reachable(a) THEN [asked |-> TRUE, tensorfold |-> LooksTensorFold(a), age |-> 0] ELSE detected[p]
Detection(p, a) ==
    IF ~AskedLately(p) /\ Reachable(a) THEN [asked |-> TRUE, tensorfold |-> LooksTensorFold(a), age |-> 0]
    ELSE detected[p]

Detect(p, a) ==
    LET shown == ~AskedLately(p) /\ IF Reachable(a) THEN LooksTensorFold(a) ELSE detected[p].tensorfold
    IN /\ detected' = [detected EXCEPT ![p] = Detection(p, a)]
       /\ samples' = IF shown THEN [samples EXCEPT ![p] = Sampled(p, a)] ELSE samples
       /\ reading' = [reading EXCEPT !.todo = @ \ {p}, !.cards[p] = IF shown THEN Card(p, a) ELSE NoCard]

Probe(p, fault) ==
    /\ reading.phase = "probe" /\ p \in reading.todo /\ (fault => changes < MaxChanges)
    /\ \E token \in IF reading.entries[p] = "tensorfold" THEN BOOLEAN ELSE {FALSE} :
          \E a \in Answers(p, token, fault) :
             \/ Known(p) /\ ProbeKnown(p, a)
             \/ reading.entries[p] = "absent" /\ ~Known(p) /\ Detect(p, a)
             \/ /\ reading.entries[p] = "other"
                /\ reading' = [reading EXCEPT !.todo = @ \ {p}]
                /\ UNCHANGED <<samples, detected>>
    /\ upFor' = IF fault THEN [upFor EXCEPT ![p] = 0] ELSE upFor
    /\ changes' = IF fault THEN changes + 1 ELSE changes
    /\ UNCHANGED <<environment, due, snapshot>>

\* The snapshot is replaced whole; the counters of ports not on it are dropped.
Publish ==
    /\ reading.phase = "probe" /\ reading.todo = {}
    /\ snapshot' = [error |-> reading.error, cards |-> reading.cards]
    /\ samples' = [p \in Port |-> IF reading.cards[p].shown THEN samples[p] ELSE NoSample]
    /\ reading' = Idle /\ due' = FALSE
    /\ UNCHANGED <<environment, detected, upFor, changes>>

Next ==
    \/ \E i \in Pid :
          \/ \E kind \in Kinds, arg \in Port \cup {NoPort} : Launch(i, kind, arg)
          \/ \E ports \in SUBSET Port : Listen(i, ports)
          \/ Stop(i) \/ Generate(i)
    \/ \E p \in Port : \E engine \in Engines : EditRegistry(p, engine)
    \/ \E ok \in BOOLEAN : ReadRegistry(ok) \/ Scan(ok)
    \/ \E p \in Port, fault \in BOOLEAN : Probe(p, fault)
    \/ Publish \/ Tick

Spec == Init /\ [][Next]_vars

-----------------------------------------------------------------------------
\* No card claims tokens that were not generated at its port since the reading it compares with:
\* through restarts of the server, a port taken over by another, and readings that failed.
RateNeverOverstates ==
    \A p \in Port : LET card == snapshot.cards[p] IN card.rated => card.rate >= 0 /\ card.rate <= card.truth

\* An open engine that has answered for the recheck time is on the snapshot, whatever held its port
\* before, unless the registry names another engine there or could not be read.
ServerShown ==
    \A p \in Port :
        (~due /\ upFor[p] >= Recheck /\ registry[p] \in {"absent", "tensorfold"}) =>
            snapshot.error \/ snapshot.cards[p].shown
=============================================================================
