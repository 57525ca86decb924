------------------------------ MODULE PendingWatch ------------------------------
(***************************************************************************)
(* iak-pending (bin/iak-pending.mjs): a timer asks every daemon of the      *)
(* fleet for its pending intents, answers with an exit code, and with       *)
(* --room says once per escalation that an item still waits.  What was said *)
(* is in a ledger file, written before the post.  Hosts answer or not,      *)
(* items appear, age and are decided while a run goes on, the ledger can be *)
(* lost, a post can fail, or succeed and be reported as failed, and a run   *)
(* can die at any step.                                                     *)
(***************************************************************************)
EXTENDS Naturals, FiniteSets

CONSTANTS Item, Host, HostOf, \* the daemon an intent lives on
          Blocked,            \* hosts whose gate is refused: never asked
          MaxLevel,           \* escalations told apart: age at the threshold, doubled, ...
          MaxMishaps

PendingAssumption ==
    /\ HostOf \in [Item -> Host] /\ Blocked \subseteq Host
    /\ MaxLevel \in Nat \ {0} /\ MaxMishaps \in Nat

VARIABLES waiting,  \* the intents that are pending
          age,      \* the escalation level of each item's age
          stage,    \* what the run does next
          asked,    \* hosts it has asked so far
          listed,   \* the items they named, with their levels
          silent,   \* hosts that could not be asked
          code,     \* the exit code of the last run
          loaded,   \* the ledger as the run read it, or Lost
          ledger,   \* the file: the level last recorded for each item, or Lost
          news,     \* the items the run announces
          said,     \* history: how often each item was announced at each level
          excused,  \* history: escalations given up or repeated by a mishap
          missed,   \* history: pending all through the run, and not listed
          mishaps
runVars == <<stage, asked, listed, silent, code, loaded, news, missed>>
pendingVars == <<waiting, age, runVars, ledger, said, excused, mishaps>>

Level == 0..MaxLevel
Lost == [i \in Item |-> MaxLevel + 1]
Blank == [i \in Item |-> 0]
Codes == {"none", "pending", "some-unreachable", "none-reachable", "no-run"}

TypeOK ==
    /\ waiting \subseteq Item /\ age \in [Item -> Level]
    /\ stage \in {"idle", "asking", "ledger", "post", "rollback"}
    /\ asked \subseteq Host /\ silent \subseteq asked
    /\ listed \in [Item -> Level \cup {MaxLevel + 1}]
    /\ code \in Codes /\ news \subseteq Item
    /\ {loaded, ledger} \subseteq [Item -> Level] \cup {Lost}
    /\ said \in [Item \X (1..MaxLevel) -> 0..3]
    /\ excused \subseteq Item \X (1..MaxLevel) /\ missed \subseteq Item
    /\ mishaps \in 0..MaxMishaps

NotListed == [i \in Item |-> MaxLevel + 1]
Listed == {i \in Item : listed[i] <= MaxLevel}

Init ==
    /\ waiting = {} /\ age = [i \in Item |-> 0]
    /\ stage = "idle" /\ asked = {} /\ listed = NotListed /\ silent = {} /\ code = "no-run"
    /\ loaded = Blank /\ ledger = Blank /\ news = {} /\ missed = {}
    /\ said = [p \in Item \X (1..MaxLevel) |-> 0] /\ excused = {} /\ mishaps = 0

Mishap == mishaps < MaxMishaps /\ mishaps' = mishaps + 1

-----------------------------------------------------------------------------
(* The fleet *)

Raised(i) ==
    /\ i \notin waiting /\ age[i] = 0 /\ waiting' = waiting \cup {i}
    /\ UNCHANGED <<age, runVars, ledger, said, excused, mishaps>>

\* Decided, and not raised again: ids are used once.
Decided(i) ==
    /\ i \in waiting /\ waiting' = waiting \ {i}
    /\ age' = [age EXCEPT ![i] = MaxLevel]
    /\ missed' = missed \ {i}
    /\ UNCHANGED <<stage, asked, listed, silent, code, loaded, news, ledger, said, excused, mishaps>>

Ages(i) ==
    /\ i \in waiting /\ age[i] < MaxLevel /\ age' = [age EXCEPT ![i] = @ + 1]
    /\ UNCHANGED <<waiting, runVars, ledger, said, excused, mishaps>>

\* The ledger is deleted or damaged.
LedgerLost ==
    /\ stage = "idle" /\ ledger # Lost /\ Mishap
    /\ ledger' = Lost
    /\ excused' = excused \cup {<<i, l>> : i \in Item, l \in 1..MaxLevel}
    /\ UNCHANGED <<waiting, age, runVars, said>>

-----------------------------------------------------------------------------
(* One run *)

Start ==
    /\ stage = "idle" /\ stage' = "asking"
    /\ asked' = {} /\ silent' = {} /\ listed' = NotListed /\ missed' = waiting
    /\ UNCHANGED <<waiting, age, code, loaded, news, ledger, said, excused, mishaps>>

\* probeHost: an answer is a list of rows it understands, with what is pending there
\* now; anything else, and a refused gate, makes the host one that could not be asked.
Ask(h) ==
    /\ stage = "asking" /\ h \notin asked /\ asked' = asked \cup {h}
    /\ LET here == {i \in waiting : HostOf[i] = h} IN
       \/ /\ h \notin Blocked
          /\ listed' = [i \in Item |-> IF i \in here THEN age[i] ELSE listed[i]]
          /\ missed' = missed \ here
          /\ UNCHANGED silent
       \/ /\ silent' = silent \cup {h}
          /\ UNCHANGED <<listed, missed>>
    /\ UNCHANGED <<waiting, age, stage, code, loaded, news, ledger, said, excused, mishaps>>

\* Mutant of ExitCode: only the items past the threshold count as waiting.
ExitCode_Stale ==
    IF silent = Host THEN "none-reachable"
    ELSE IF silent # {} THEN "some-unreachable"
    ELSE IF \E i \in Listed : listed[i] > 0 THEN "pending" ELSE "none"

ExitCode ==
    IF silent = Host THEN "none-reachable"
    ELSE IF silent # {} THEN "some-unreachable"
    ELSE IF Listed # {} THEN "pending" ELSE "none"

\* All have answered: the exit code is set, and with --room the ledger is read.
Answered ==
    /\ stage = "asking" /\ asked = Host
    /\ code' = ExitCode /\ loaded' = ledger /\ stage' = "ledger"
    /\ UNCHANGED <<waiting, age, asked, listed, silent, news, missed, ledger, said, excused, mishaps>>

Stale == {i \in Listed : listed[i] > 0}
Before(i) == IF loaded = Lost THEN 0 ELSE loaded[i]
\* selectAnnouncements: the items past the threshold at their level; of the others only
\* those on hosts that could not be asked are kept.
NextLedger ==
    [i \in Item |->
        IF i \in Stale THEN listed[i]
        ELSE IF HostOf[i] \in silent THEN Before(i) ELSE 0]
News == IF loaded = Lost THEN {} ELSE {i \in Stale : listed[i] > Before(i)}

\* Mutant of SaveLedger: entries of hosts that did not answer are pruned too.
SaveLedger_Prunes ==
    /\ stage = "ledger"
    /\ ledger' = [i \in Item |-> IF i \in Stale THEN listed[i] ELSE 0] /\ news' = News
    /\ stage' = IF News = {} THEN "idle" ELSE "post"
    /\ UNCHANGED <<waiting, age, asked, listed, silent, code, loaded, missed, said, excused, mishaps>>

\* The ledger is written first; without one to begin with nothing is posted.
SaveLedger ==
    /\ stage = "ledger"
    /\ ledger' = NextLedger /\ news' = News
    /\ stage' = IF News = {} THEN "idle" ELSE "post"
    /\ UNCHANGED <<waiting, age, asked, listed, silent, code, loaded, missed, said, excused, mishaps>>

\* It cannot be written: nothing is posted.
LedgerUnwritable ==
    /\ stage = "ledger" /\ Mishap /\ stage' = "idle"
    /\ UNCHANGED <<waiting, age, asked, listed, silent, code, loaded, news, missed, ledger, said, excused>>

Announced == [p \in Item \X (1..MaxLevel) |->
                 said[p] + IF p[1] \in news /\ p[2] = listed[p[1]] THEN 1 ELSE 0]
NewsLevels == {<<i, listed[i]>> : i \in news}

Post ==
    /\ stage = "post" /\ said' = Announced /\ stage' = "idle"
    /\ UNCHANGED <<waiting, age, asked, listed, silent, code, loaded, news, missed, ledger, excused, mishaps>>

\* The post fails, or its answer is lost and the room has it.
PostFails ==
    /\ stage = "post" /\ Mishap /\ stage' = "rollback"
    /\ \/ UNCHANGED <<said, excused>>
       \/ said' = Announced /\ excused' = excused \cup NewsLevels
    /\ UNCHANGED <<waiting, age, asked, listed, silent, code, loaded, news, missed, ledger>>

\* rollbackAnnouncements: the announced items are put back, the next run tries again.
Rollback ==
    /\ stage = "rollback" /\ stage' = "idle"
    /\ ledger' = [i \in Item |-> IF i \in news THEN Before(i) ELSE ledger[i]]
    /\ UNCHANGED <<waiting, age, asked, listed, silent, code, loaded, news, missed, said, excused, mishaps>>

\* A run dies (or the rollback cannot be saved): an escalation it had recorded and not
\* posted is missed.
RunDies ==
    /\ stage # "idle" /\ Mishap /\ stage' = "idle"
    /\ excused' = excused \cup IF stage \in {"post", "rollback"} THEN NewsLevels ELSE {}
    /\ UNCHANGED <<waiting, age, asked, listed, silent, code, loaded, news, missed, ledger, said>>

-----------------------------------------------------------------------------
Next ==
    \/ \E i \in Item : Raised(i) \/ Decided(i) \/ Ages(i)
    \/ \E h \in Host : Ask(h)
    \/ Start \/ Answered \/ SaveLedger \/ LedgerUnwritable \/ Post \/ PostFails \/ Rollback
    \/ RunDies \/ LedgerLost
PendingSpec == Init /\ [][Next]_pendingVars

-----------------------------------------------------------------------------
(* Properties *)

\* Empty is not error: after code 0 ("all clear") no item is open that was pending when
\* the run began, and after 10 every such item was listed.
AllClearIsClear ==
    stage \in {"ledger", "post", "rollback"} =>
        /\ code \in {"none", "pending"} => missed = {}
        /\ code = "none" => Listed = {}

\* An escalation is announced at most once, also while hosts flap, and one the ledger
\* records was announced at that level; only a lost ledger, a lost answer or a run that
\* died excuses either.
EscalationsOnce ==
    \A i \in Item : \A l \in 1..MaxLevel : <<i, l>> \notin excused =>
        /\ said[<<i, l>>] <= 1
        /\ stage \in {"idle", "asking"} /\ ledger # Lost /\ ledger[i] = l => said[<<i, l>>] = 1
=============================================================================
