---------------------------- MODULE KindCommands ----------------------------
(***************************************************************************)
(* The commands a decided choice runs (src/src/kind-commands.mjs): the     *)
(* handler of one kind checks the tap, claims the kind, announces the run, *)
(* spawns the command as a process group of its own and waits for it to    *)
(* close, with a timer that sends TERM and, after a grace, KILL.           *)
(*                                                                         *)
(* A run ends with the 'close' event: when the command has exited AND      *)
(* nobody holds its output pipe any more.  A command may leave a helper    *)
(* process behind; Helpers are the kinds of helper to consider:            *)
(*   pipe     it inherited the output pipe                                 *)
(*   deaf     it ignores TERM                                              *)
(*   escaped  it made a session of its own and left the process group      *)
(***************************************************************************)
EXTENDS Naturals

CONSTANTS Card, NoCard, Helpers, MaxRestarts

Helper == [pipe : BOOLEAN, deaf : BOOLEAN, escaped : BOOLEAN]

ASSUME KindAssumption ==
    NoCard \notin Card /\ Helpers \subseteq Helper /\ MaxRestarts \in Nat

VARIABLES tap,      \* who decided a card, and whether the answer was offered
          handler,  \* how far the handler of a card is
          running,  \* the card whose run claims the kind
          leader,   \* the spawned process of a card
          helper,   \* the process the command left behind
          exit,     \* how the spawned process ended
          timer,    \* the timeout of a run
          result,   \* what the room is told
          restarts

processes == <<leader, helper, exit>>
vars == <<tap, handler, running, processes, timer, result, restarts>>

Gone == [alive |-> FALSE, kind |-> [pipe |-> FALSE, deaf |-> FALSE, escaped |-> FALSE]]

TypeOK ==
    /\ tap \in [Card -> [role : {"none", "owner", "lead"}, offered : BOOLEAN]]
    /\ handler \in [Card -> {"idle", "announcing", "running", "reporting", "done", "lost"}]
    /\ running \in Card \cup {NoCard}
    /\ leader \in [Card -> [st : {"unborn", "alive", "dead"}, deaf : BOOLEAN]]
    /\ helper \in [Card -> [alive : BOOLEAN, kind : Helper]]
    /\ exit \in [Card -> {"none", "zero", "nonzero", "signal"}]
    /\ timer \in [Card -> {"off", "armed", "grace", "spent"}]
    /\ result \in [Card -> {"none", "not-an-option", "not-owner", "busy", "no-start",
                            "ok", "failed", "killed"}]
    /\ restarts \in Nat

Init ==
    /\ tap = [i \in Card |-> [role |-> "none", offered |-> FALSE]]
    /\ handler = [i \in Card |-> "idle"]
    /\ running = NoCard
    /\ leader = [i \in Card |-> [st |-> "unborn", deaf |-> FALSE]]
    /\ helper = [i \in Card |-> Gone]
    /\ exit = [i \in Card |-> "none"]
    /\ timer = [i \in Card |-> "off"]
    /\ result = [i \in Card |-> "none"]
    /\ restarts = 0

-----------------------------------------------------------------------------
(* The handler *)

\* The checks before the command, in their order.
Refusal(t) ==
    CASE ~t.offered        -> "not-an-option"
      [] t.role # "owner"  -> "not-owner"
      [] running # NoCard  -> "busy"
      [] OTHER             -> "none"

\* Mutant of Tap: the kind is claimed only when the command starts.
Tap_ClaimsLate(i, t) ==
    /\ tap[i].role = "none"
    /\ tap' = [tap EXCEPT ![i] = t]
    /\ result' = [result EXCEPT ![i] = Refusal(t)]
    /\ handler' = [handler EXCEPT ![i] = IF Refusal(t) = "none" THEN "announcing" ELSE "done"]
    /\ UNCHANGED <<running, processes, timer, restarts>>

\* decideIntent calls the handler, which refuses or claims the kind and posts
\* "started"; the post yields.
Tap(i, t) ==
    /\ tap[i].role = "none"
    /\ tap' = [tap EXCEPT ![i] = t]
    /\ result' = [result EXCEPT ![i] = Refusal(t)]
    /\ IF Refusal(t) = "none"
       THEN running' = i /\ handler' = [handler EXCEPT ![i] = "announcing"]
       ELSE handler' = [handler EXCEPT ![i] = "done"] /\ UNCHANGED running
    /\ UNCHANGED <<processes, timer, restarts>>

\* The run is over: the kind is free again and the result is posted.
End(i, res) ==
    /\ handler' = [handler EXCEPT ![i] = "reporting"]
    /\ running' = NoCard
    /\ result' = [result EXCEPT ![i] = res]
    /\ timer' = [timer EXCEPT ![i] = "off"]

\* The post returned (whether it worked or not) and the command is spawned.
Spawn(i) ==
    /\ handler[i] = "announcing"
    /\ \/ End(i, "no-start") /\ UNCHANGED processes
       \/ /\ handler' = [handler EXCEPT ![i] = "running"]
          /\ timer' = [timer EXCEPT ![i] = "armed"]
          /\ \E deaf \in BOOLEAN : leader' = [leader EXCEPT ![i] = [st |-> "alive", deaf |-> deaf]]
          /\ \E h \in {Gone} \cup {[alive |-> TRUE, kind |-> k] : k \in Helpers} :
                helper' = [helper EXCEPT ![i] = h]
          /\ UNCHANGED <<running, exit, result>>
    /\ UNCHANGED <<tap, restarts>>

\* Mutant of Verdict: only the exit is looked at, not the timeout.
Verdict_ExitOnly(i) == IF exit[i] = "zero" THEN "ok" ELSE "failed"

\* formatKindReply: a run the timer hit is reported as killed, however it ended.
Verdict(i) ==
    CASE timer[i] \in {"grace", "spent"} -> "killed"
      [] exit[i] = "zero"                -> "ok"
      [] OTHER                           -> "failed"

\* 'close': the process is gone and so is everybody who held its pipe.
Close(i) ==
    /\ handler[i] = "running" /\ leader[i].st = "dead"
    /\ ~(helper[i].alive /\ helper[i].kind.pipe)
    /\ End(i, Verdict(i))
    /\ UNCHANGED <<tap, processes, restarts>>

Report(i) ==
    /\ handler[i] = "reporting"
    /\ handler' = [handler EXCEPT ![i] = "done"]
    /\ UNCHANGED <<tap, running, processes, timer, result, restarts>>

-----------------------------------------------------------------------------
(* The command, and the signals it gets *)

LeaderExits(i) ==
    /\ leader[i].st = "alive"
    /\ leader' = [leader EXCEPT ![i].st = "dead"]
    /\ \E how \in {"zero", "nonzero"} : exit' = [exit EXCEPT ![i] = how]
    /\ UNCHANGED <<tap, handler, running, helper, timer, result, restarts>>

HelperExits(i) ==
    /\ helper[i].alive
    /\ helper' = [helper EXCEPT ![i].alive = FALSE]
    /\ UNCHANGED <<tap, handler, running, leader, exit, timer, result, restarts>>

\* Mutant of Signal: only the spawned process is signalled, not its group.
Signal_LeaderOnly(i, sure) ==
    /\ UNCHANGED helper
    /\ IF leader[i].st = "alive" /\ (sure \/ ~leader[i].deaf)
       THEN leader' = [leader EXCEPT ![i].st = "dead"] /\ exit' = [exit EXCEPT ![i] = "signal"]
       ELSE UNCHANGED <<leader, exit>>

\* killGroup: TERM spares who ignores it, KILL (sure) nobody of the group.
Signal(i, sure) ==
    /\ helper' = [helper EXCEPT ![i].alive =
                     @ /\ (helper[i].kind.escaped \/ (helper[i].kind.deaf /\ ~sure))]
    /\ IF leader[i].st = "alive" /\ (sure \/ ~leader[i].deaf)
       THEN leader' = [leader EXCEPT ![i].st = "dead"] /\ exit' = [exit EXCEPT ![i] = "signal"]
       ELSE UNCHANGED <<leader, exit>>

Timeout(i) ==
    /\ timer[i] = "armed"
    /\ timer' = [timer EXCEPT ![i] = "grace"]
    /\ Signal(i, FALSE)
    /\ UNCHANGED <<tap, handler, running, result, restarts>>

GraceEnds(i) ==
    /\ timer[i] = "grace"
    /\ timer' = [timer EXCEPT ![i] = "spent"]
    /\ Signal(i, TRUE)
    /\ UNCHANGED <<tap, handler, running, result, restarts>>

\* The daemon dies and comes back: its runs are forgotten, their detached
\* processes go on.
Restart ==
    /\ restarts < MaxRestarts
    /\ restarts' = restarts + 1
    /\ handler' = [i \in Card |-> IF handler[i] \in {"announcing", "running", "reporting"}
                                  THEN "lost" ELSE handler[i]]
    /\ running' = NoCard
    /\ timer' = [i \in Card |-> "off"]
    /\ UNCHANGED <<tap, processes, result>>

-----------------------------------------------------------------------------

Next ==
    \/ \E i \in Card, role \in {"owner", "lead"}, offered \in BOOLEAN :
          Tap(i, [role |-> role, offered |-> offered])
    \/ \E i \in Card : Spawn(i)
    \/ \E i \in Card : Close(i)
    \/ \E i \in Card : Report(i)
    \/ \E i \in Card : LeaderExits(i)
    \/ \E i \in Card : HelperExits(i)
    \/ \E i \in Card : Timeout(i)
    \/ \E i \in Card : GraceEnds(i)
    \/ Restart

\* The daemon's own steps and timers; a command need not ever end.
Spec ==
    /\ Init /\ [][Next]_vars
    /\ \A i \in Card : /\ WF_vars(Spawn(i)) /\ WF_vars(Close(i)) /\ WF_vars(Report(i))
                       /\ WF_vars(Timeout(i)) /\ WF_vars(GraceEnds(i))

-----------------------------------------------------------------------------
(* Properties *)

\* No process was ever started for a lead's tap or for an answer not offered.
OnlyOwnerRuns ==
    \A i \in Card : leader[i].st # "unborn" => tap[i].role = "owner" /\ tap[i].offered

\* Two commands of the kind never run together, unless the daemon died and forgot
\* the first: while one is announced or its process lives, it claims the kind.
ClaimHolds ==
    \A i \in Card :
        handler[i] = "announcing" \/ (leader[i].st = "alive" /\ handler[i] # "lost")
            => running = i

\* A command the timer had to kill is never reported as one that ended by itself.
KilledSaysKilled ==
    \A i \in Card : result[i] \in {"ok", "failed"} => exit[i] \in {"zero", "nonzero"}

\* The kind does not stay claimed: the command ends or the timer ends it, unless a
\* helper that left the group, where no signal reaches it, holds on to the pipe.
ClaimReleased ==
    \A i \in Card :
        running = i ~> running # i
                       \/ (helper[i].alive /\ helper[i].kind.escaped /\ helper[i].kind.pipe)

\* Violated.  "A timeout kills the whole process group (TERM, then KILL after a
\* grace)": nobody of the group outlives a run reported as killed.
GroupKilled ==
    \A i \in Card : result[i] = "killed" => ~(helper[i].alive /\ ~helper[i].kind.escaped)
=============================================================================
