----------------------------- MODULE ResponderLock -----------------------------
(***************************************************************************)
(* scripts/session-bootstrap.sh: the hook every agent session runs when it   *)
(* starts, resumes or compacts makes it ACTIVE, the machine's one voice in   *)
(* the room, or PASSIVE; src/src/responder-lock.mjs: the check before the    *)
(* MCP tools post. Both go by a lock file that names its owner.              *)
(*                                                                         *)
(* Hooks of several sessions run at once.  At any step of its hook a session  *)
(* may exit, or the hook alone be stopped (it has ten seconds).  Pids are     *)
(* used again; a process is told by its pid and its start.  The settle is a   *)
(* sleep: it ends whatever the other hooks are doing by then.                 *)
(***************************************************************************)
EXTENDS Naturals, FiniteSets

CONSTANTS
    Session, Pid,
    MaxStarts    \* bound on the hooks ever started

LockAssumption == Session # {} /\ Pid # {} /\ MaxStarts \in Nat

VARIABLES
    process,    \* what each session runs as
    hook,       \* where its hook is
    role,       \* what its last hook told it to be: none if the hook was stopped
    lock,       \* the lock file: absent, created but not yet written, or naming its owner
    orphaned,   \* a session that was not PASSIVE has exited, or a hook was stopped, since one last started
    spoke,      \* whose posts were let through since, while no hook ran
    starts

vars == <<process, hook, role, lock, orphaned, spoke, starts>>

NoProcess == [pid |-> CHOOSE p \in Pid : TRUE, start |-> 0]
Absent(s) == [state |-> "absent", sid |-> s, by |-> NoProcess]

Live == {s \in Session : process[s] # NoProcess}
Quiet == \A s \in Session : hook[s] = "none"

Goes(s, stage) == hook' = [hook EXCEPT ![s] = stage]
Ends(s, as) == Goes(s, "none") /\ role' = [role EXCEPT ![s] = as]

TypeOK ==
    /\ \A s \in Session : process[s].pid \in Pid /\ process[s].start \in 0..MaxStarts
    /\ hook \in [Session -> {"none", "look", "remove", "create", "lost", "write", "overwrite", "settle"}]
    /\ role \in [Session -> {"none", "active", "passive"}]
    /\ lock.state \in {"absent", "empty", "written"} /\ lock.sid \in Session
    /\ orphaned \in BOOLEAN /\ spoke \subseteq Session /\ starts \in 0..MaxStarts

Init ==
    /\ process = [s \in Session |-> NoProcess]
    /\ hook = [s \in Session |-> "none"] /\ role = [s \in Session |-> "none"]
    /\ lock = Absent(CHOOSE s \in Session : TRUE)
    /\ orphaned = FALSE /\ spoke = {} /\ starts = 0

HookStarts(s) ==
    /\ starts < MaxStarts
    /\ starts' = starts + 1
    /\ hook' = [hook EXCEPT ![s] = "look"]
    /\ orphaned' = FALSE /\ spoke' = {}
    /\ UNCHANGED <<lock>>

\* A session starts, or one that exited is resumed, under any pid that is free.
Launch(s, p) ==
    /\ s \notin Live /\ \A t \in Live : process[t].pid # p
    /\ process' = [process EXCEPT ![s] = [pid |-> p, start |-> starts + 1]]
    /\ role' = [role EXCEPT ![s] = "none"]
    /\ HookStarts(s)

Compact(s) ==
    /\ s \in Live /\ hook[s] = "none"
    /\ HookStarts(s)
    /\ UNCHANGED <<process, role>>

Exit(s) ==
    /\ s \in Live
    /\ process' = [process EXCEPT ![s] = NoProcess]
    /\ Ends(s, "none")
    /\ orphaned' = (orphaned \/ role[s] # "passive" \/ hook[s] # "none")
    /\ UNCHANGED <<lock, spoke, starts>>

\* The hook is stopped where it is; its session runs on.
HookStopped(s) ==
    /\ hook[s] # "none"
    /\ Ends(s, "none") /\ orphaned' = TRUE
    /\ UNCHANGED <<process, lock, spoke, starts>>

-----------------------------------------------------------------------------
\* owner_alive: a process with the lock's pid runs, and it started when the lock says.
OwnerAlive_PidOnly(l) == l.state = "written" /\ \E s \in Live : process[s].pid = l.by.pid
OwnerAlive(l) == l.state = "written" /\ \E s \in Live : process[s] = l.by

Claims(s) == lock' = [state |-> "written", sid |-> s, by |-> process[s]]

Look(s) ==
    /\ hook[s] = "look"
    /\ \/ lock.state = "absent" /\ Goes(s, "create") /\ UNCHANGED role
       \/ lock.state = "written" /\ lock.sid = s /\ Goes(s, "overwrite") /\ UNCHANGED role
       \/ lock.sid # s /\ OwnerAlive(lock) /\ Ends(s, "passive")
       \/ /\ lock.state = "empty" \/ (lock.state = "written" /\ lock.sid # s /\ ~OwnerAlive(lock))
          /\ Goes(s, "remove") /\ UNCHANGED role
    /\ UNCHANGED <<process, lock, orphaned, spoke, starts>>

\* The owner is gone: rm -f, whatever is there by now.
Remove(s) ==
    /\ hook[s] = "remove"
    /\ lock' = Absent(s)
    /\ Goes(s, "create")
    /\ UNCHANGED <<process, role, orphaned, spoke, starts>>

\* claim_atomic: of several claims one creates the file.
Create(s) ==
    /\ hook[s] = "create"
    /\ \/ /\ lock.state = "absent"
          /\ lock' = [state |-> "empty", sid |-> s, by |-> process[s]]
          /\ Goes(s, "write") /\ UNCHANGED role
       \/ lock.state # "absent" /\ Goes(s, "lost") /\ UNCHANGED <<lock, role>>
    /\ UNCHANGED <<process, orphaned, spoke, starts>>

\* lost_claim_race: the others stand down, unless the file they lost to is gone again.
LostClaimRace(s) ==
    /\ hook[s] = "lost"
    /\ IF lock.state = "absent" THEN Goes(s, "settle") /\ UNCHANGED role ELSE Ends(s, "passive")
    /\ UNCHANGED <<process, lock, orphaned, spoke, starts>>

\* Its content follows; a file that was removed meanwhile takes it with it.
Write(s) ==
    /\ hook[s] = "write"
    /\ IF lock.state = "empty" /\ lock.sid = s THEN Claims(s) ELSE UNCHANGED lock
    /\ Goes(s, "settle")
    /\ UNCHANGED <<process, role, orphaned, spoke, starts>>

\* claim_overwrite: the session's own lock, renamed into place.
Overwrite(s) ==
    /\ hook[s] = "overwrite"
    /\ Claims(s) /\ Goes(s, "settle")
    /\ UNCHANGED <<process, role, orphaned, spoke, starts>>

\* The post-claim verify: a lock that names another session demotes this one.
Verify(s) ==
    /\ hook[s] = "settle"
    /\ Ends(s, IF lock.state = "written" /\ (lock.by.pid # process[s].pid \/ lock.sid # s)
               THEN "passive" ELSE "active")
    /\ UNCHANGED <<process, lock, orphaned, spoke, starts>>

-----------------------------------------------------------------------------
\* assertRoomVoice: refused only while the owner is alive and is not this process or an ancestor.
RoomVoice(s) == ~OwnerAlive(lock) \/ lock.by.pid = process[s].pid

\* room_post and alert_recipient, by a session whatever its hook told it.  While a hook runs the
\* lock may be changing hands: such posts are not recorded.
Post(s) ==
    /\ s \in Live /\ Quiet /\ RoomVoice(s)
    /\ spoke' = spoke \cup {s}
    /\ UNCHANGED <<process, hook, role, lock, orphaned, starts>>

HookStep(s) ==
    \/ Look(s) \/ Remove(s) \/ Create(s) \/ LostClaimRace(s) \/ Write(s) \/ Overwrite(s) \/ Verify(s)

Next ==
    \E s \in Session : HookStep(s) \/ HookStopped(s) \/ Compact(s) \/ Exit(s) \/ Post(s) \/ \E p \in Pid : Launch(s, p)

Spec == Init /\ [][Next]_vars

-----------------------------------------------------------------------------
\* Once the hooks are through, and unless the responder exited or a hook was stopped since, the
\* lock names a session that runs and was not told to be PASSIVE, and no other has spoken:
\* several may believe they are the responder, the tools let one speak.
OneVoice ==
    (Quiet /\ ~orphaned /\ Live # {}) =>
        \E s \in Live : /\ lock = [state |-> "written", sid |-> s, by |-> process[s]]
                        /\ role[s] # "passive" /\ spoke \subseteq {s}

\* "every winner re-verifies after a short settle, so concurrent starts elect exactly one
\* responder" (comment scripts/session-bootstrap.sh:24-27): once the hooks are through, at most
\* one session is ACTIVE.
OneElected ==
    (Quiet /\ ~orphaned) => \A s, t \in Live : role[s] = "active" /\ role[t] = "active" => s = t
=============================================================================
