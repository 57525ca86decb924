----------------------------- MODULE BackgroundRuns -----------------------------
(***************************************************************************)
(* src/src/background.mjs: `background run`. A run reads the last events of  *)
(* the queue and goes through three phases, light, REM and deep, writing one *)
(* sidecar file each; deep also appends what it found to the ledger          *)
(* deep-memory.jsonl. A lock file keeps to one run at a time, the newest      *)
(* sidecar says up to where the runs before this one came, and the user's    *)
(* live state decides whether a run may go deep.                             *)
(*                                                                         *)
(* Runs are processes of their own. One may be killed at any step, which     *)
(* leaves its lock file; the machine may reboot, which clears it (/tmp).      *)
(* An event is its place in the queue, and its timestamp is that number.     *)
(***************************************************************************)
EXTENDS Naturals, FiniteSets

CONSTANTS
    Run,           \* the runs that may be in progress at once
    Window,        \* recent_window_sec, in events
    MaxEvents,     \* background.max_events
    Durable,       \* the events in which deep finds a fact
    MaxQueue,      \* bound on the queue's events
    MaxStops       \* bound on the kills and reboots

BackgroundAssumption ==
    Window \in Nat /\ MaxEvents \in Nat \ {0} /\ MaxQueue \in Nat /\ MaxStops \in Nat /\ Durable \subseteq Nat

VARIABLES
    events,    \* the events in the queue
    lock,      \* lock_file exists
    latest,    \* the window_end of the newest sidecar, 0 when there is none to read
    staged,    \* the events some light sidecar lists
    ledger,    \* the facts in deep-memory.jsonl, and whether a light-only run put them there
    run,       \* the runs in progress
    stops

vars == <<events, lock, latest, staged, ledger, run, stops>>

NotRunning == [phase |-> "none", lightOnly |-> FALSE, end |-> 0, items |-> {}]

TypeOK ==
    /\ events \in 0..MaxQueue /\ latest \in 0..MaxQueue /\ stops \in 0..MaxStops /\ lock \in BOOLEAN
    /\ staged \subseteq 1..events
    /\ ledger \subseteq [event : 1..events, lightOnly : BOOLEAN]
    /\ \A r \in Run : /\ run[r].phase \in {"none", "gated", "locked", "read", "light", "REM", "promoted", "deep"}
                      /\ run[r].items \subseteq 1..events

Init ==
    /\ events = 0 /\ lock = FALSE /\ latest = 0
    /\ staged = {} /\ ledger = {}
    /\ run = [r \in Run |-> NotRunning]
    /\ stops = 0

Enqueue ==
    /\ events < MaxQueue
    /\ events' = events + 1
    /\ UNCHANGED <<lock, latest, staged, ledger, run, stops>>

\* What the user-intent server tells of the user, and what a run is allowed by it.
Derived == [urgency : {"normal", "emergency-only"}, state : {"working", "meeting_people", "sleeping"},
            reachability : {"desktop", "away"}]
Gate(d) ==
    IF d.urgency = "emergency-only" THEN "skip"
    ELSE IF d.state = "working" /\ d.reachability = "desktop" THEN "light"
    ELSE IF d.state = "meeting_people" THEN "light" ELSE "full"

\* The CLI: --force and a server that does not answer both mean a full run.
Begin(r) ==
    /\ run[r] = NotRunning
    /\ \E gate \in {Gate(d) : d \in Derived} \cup {"full"} :
          /\ gate # "skip"
          /\ run' = [run EXCEPT ![r] = [NotRunning EXCEPT !.phase = "gated", !.lightOnly = (gate = "light")]]
    /\ UNCHANGED <<events, lock, latest, staged, ledger, stops>>

\* withLock: the file is created exclusively; a run that finds it there is refused.
Refused_Unlinks(r) ==
    /\ run' = [run EXCEPT ![r] = NotRunning]
    /\ lock' = FALSE
Refused(r) ==
    /\ run' = [run EXCEPT ![r] = NotRunning]
    /\ UNCHANGED lock

TakeLock(r) ==
    /\ run[r].phase = "gated"
    /\ \/ ~lock /\ lock' = TRUE /\ run' = [run EXCEPT ![r].phase = "locked"]
       \/ lock /\ Refused(r)
    /\ UNCHANGED <<events, latest, staged, ledger, stops>>

\* The oldest MaxEvents of the window, none of them when nothing in it is new.
Recent ==
    LET low == IF events > Window THEN events - Window ELSE 0
    IN {e \in 1..events : e >= low /\ e < (IF low = 0 THEN 1 ELSE low) + MaxEvents}

ReadQueue(r) ==
    /\ run[r].phase = "locked"
    /\ run' = [run EXCEPT ![r].phase = "read", ![r].end = events,
                          ![r].items = IF latest = 0 \/ \E e \in Recent : e > latest THEN Recent ELSE {}]
    /\ UNCHANGED <<events, lock, latest, staged, ledger, stops>>

\* writeSidecar: each makes this run's window the latest.
WriteSidecar(r, phase) ==
    /\ run' = [run EXCEPT ![r].phase = phase]
    /\ latest' = run[r].end
    /\ UNCHANGED <<events, lock, stops>>

WriteLight(r) ==
    /\ run[r].phase = "read"
    /\ staged' = staged \cup run[r].items
    /\ WriteSidecar(r, "light")
    /\ UNCHANGED ledger

WriteRem(r) ==
    /\ run[r].phase = "light"
    /\ WriteSidecar(r, "REM")
    /\ UNCHANGED <<staged, ledger>>

\* buildRemOutput picks the events that call for work, buildDeepOutput those of them that state a fact.
Facts(items) == items \cap Durable

\* The deep phase runs whatever the gate said; only its sidecar's status tells.
Promote(r) ==
    /\ run[r].phase = "REM"
    /\ ledger' = ledger \cup [event : Facts(run[r].items), lightOnly : {run[r].lightOnly}]
    /\ run' = [run EXCEPT ![r].phase = "promoted"]
    /\ UNCHANGED <<events, lock, latest, staged, stops>>

WriteDeep(r) ==
    /\ run[r].phase = "promoted"
    /\ WriteSidecar(r, "deep")
    /\ UNCHANGED <<staged, ledger>>

Unlock(r) ==
    /\ run[r].phase = "deep"
    /\ lock' = FALSE
    /\ run' = [run EXCEPT ![r] = NotRunning]
    /\ UNCHANGED <<events, latest, staged, ledger, stops>>

\* A kill inside a write leaves a sidecar that does not parse as the newest.
Kill(r) ==
    /\ run[r] # NotRunning /\ stops < MaxStops
    /\ run' = [run EXCEPT ![r] = NotRunning]
    /\ latest' \in IF run[r].phase \in {"read", "light", "promoted"} THEN {latest, 0} ELSE {latest}
    /\ stops' = stops + 1
    /\ UNCHANGED <<events, lock, staged, ledger>>

Reboot ==
    /\ stops < MaxStops
    /\ run' = [r \in Run |-> NotRunning]
    /\ lock' = FALSE
    /\ stops' = stops + 1
    /\ UNCHANGED <<events, latest, staged, ledger>>

Step(r) ==
    \/ Begin(r) \/ TakeLock(r) \/ ReadQueue(r) \/ WriteLight(r) \/ WriteRem(r)
    \/ Promote(r) \/ WriteDeep(r) \/ Unlock(r)

Next == Enqueue \/ Reboot \/ \E r \in Run : Step(r) \/ Kill(r)

Spec == Init /\ [][Next]_vars

-----------------------------------------------------------------------------
\* "Single background job only": never are two runs past the lock, whoever was killed or refused.
OneRun == Cardinality({r \in Run : run[r].phase \notin {"none", "gated"}}) <= 1
=============================================================================
