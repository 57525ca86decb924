# Formal model of IDE Agent Kit

IDE Agent Kit (`src/README.md`) is the delivery and coordination layer between
AI agents that run inside IDEs: it polls chat rooms for them, wakes them, carries
their confirmation requests to a human, runs what the human approved, and looks
after the models their machines serve. This directory holds TLA+ modules of it,
TLC configurations that check them on small instances, and TLAPS proofs.

File and line references are to this repository, seen from the directory above
(`src/src/confirmations.mjs:498` is `src/confirmations.mjs` of the repository).

## 1. The system: inventory

About 30 000 lines of JavaScript. One Node process per daemon, so every
operation runs atomically up to its next `await`, callback or timer; what is
concurrent is (a) continuations of async functions of one process, (b) several
processes on one file or one chat room, (c) child processes, and (d) a kill
between any two writes. None of the state is transactional: it lives in Maps and
is appended to, or rewritten as, plain files.

| Component | State it keeps | Operations | What is hard | What makes it correct |
|---|---|---|---|---|
| **Confirmation registry** `src/src/confirmations.mjs` | `intents`, `teamLead`, waiters' resolvers, kind handlers; the append-only JSONL state file | `createIntent`, `recordAnnouncement`, `decideIntent`, `setLead`, `waitForDecision`, `loadPersistedState` | three surfaces decide at once; a kill or full disk inside an append; replay; waiters' timers | nothing decided twice or out of authority; a restart forgets nothing |
| **Typed action requests** same file | `actions` (memory only), expiry timers, `gh` executors, status mirror | `createActionRequest`, `expireAction`, `runApprovedAction`, `settleAction`, `pushStatus` | nonce check before an await, expiry against decision against executor, restart during a merge | merged at most once and only if approved |
| **Announcements** same file | per-channel records on the intent | `composeAnnouncers`, `recordAnnouncement`, reconciliation, `announceStateOf` | a channel that fails, hangs or answers nothing; crash in the middle | the record overclaims in neither direction |
| **Chat-reply poller** same file | `seen`, `primed` (memory only) | `poll`, `reply` | overlapping polls, several daemons in one room, restarts, the first pass | only an owner's new tap settles, once; refusals answered once |
| **HTTP server, MCP daemon** same file, `src/bin/iak-mcp-daemon.mjs`, `src/src/mcp-server.mjs` | none of their own | routes and MCP tools; registers kind handlers, replays, then listens | order of start-up; who a request acts for | identity comes from the token, never the body |
| **Kind commands** `src/src/kind-commands.mjs` | `running` claim, timers, process groups | handler, `runKindCommand`, `formatKindReply` | claim against await, TERM/KILL against exit, helpers that hold the pipe, restart | one run per kind, killed says killed, the claim is released |
| **Room poller** `src/src/team-relay/room-poller.mjs`, `src/src/common/` | seen ids, watermark, their files, queue and notification file, nudge cooldown | seed, poll, nudge, `checkRoomMessages` | kill between writes, capped shared file, batches newest first, failing fetches | nothing lost, replayed only what was interrupted |
| **Unified, comment and Discord pollers** `src/src/unified-poller.mjs`, `comment-poller.mjs`, `discord-poller.mjs` | seen ids, memory and file | seed, poll, one-shot poll | seen saved before events, in place; one-shots beside a watcher | every item is accounted for, once |
| **Room automation, rate limiter** `src/src/room-automation.mjs`, `rate-limiter.mjs` | seen file, seeded rooms, rule cooldown, last send | seed, take, dispatch, reply | two files saved one after the other, one of them capped; privileged commands | at most once; history never runs |
| **Session send** `src/src/session-send.mjs` | none | deliver to script, tmux, or peer daemon | time-out after delivery, two-step tmux, hop limit | told delivered only if it was |
| **Responder lock** `src/scripts/session-bootstrap.sh`, `src/src/responder-lock.mjs` | lock file naming pid, session, start time | claim, steal, settle and verify; check before speaking | concurrent starts, hooks that are stopped, dead owners, recycled pids | the lock comes to name one session, which alone may speak |
| **ACP sessions** `src/src/acp-sessions.mjs` | session file | create, send, close, expire | two processes save the file whole; torn files | limits and time-outs hold |
| **Task queue, mission control** `src/src/team-relay/task-queue.mjs`, `mission-control.mjs` | `tasks` map and file | add, vote, draft, review, install... | every call accepted in every status; two processes save the file whole | quorums are honest |
| **Pending watcher** `src/bin/iak-pending.mjs` | ledger of what was announced | ask every host, exit code, announce, roll back | unreachable or flapping hosts, lost ledger, failing posts | empty is not error; each escalation once |
| **Room archive** `src/src/room-archive.mjs` | archive and state file with gaps | sync: newest pages, then healing | budget spent in the middle, kill between append and cursor | no gap is taken for complete |
| **Background runs** `src/src/background.mjs` | lock, queue, sidecars, ledger | gate, light, REM, deep | two starters, kills | one run at a time; light stays light |
| **Model selection** `src/src/model-selection.mjs`, `src/bin/model-picker.mjs` | selection file | probe, offer, ask, probe again, write | boxes change while the owner thinks; two writers | what is written was answered and serves |
| **Model tidy** `src/src/model-tidy.mjs` | five paths per model, journal | apply: copy, verify, swap; recover | a kill between any two renames, damage, an absent disk | the last good copy is never lost, paths lead to files |
| **Model claims** `src/packages/user-intent-kit/src/` `model-availability.js`, `served-model.js`, `model-capacity.js` | caches of the last scan and probe | scan, probe, prove, publish | scan over several awaits, on-demand servers | a claim has fresh evidence |
| **Model switcher** `model-switcher.js` there | state file of claims | `poll` | lost answers, failed saves, deaths | a switch is dispatched once, every request ends |
| **TensorFold status** `tensorfold-status.js`, `tensorfold-discovery.js` there | detection memory, last readings | discover, detect, read, rate | ports that change hands, restarts, failed readings | a rate overstates nothing; a server is shown |
| **Keepalive, tmux runner, webhook server, CLI, receipts, telemetry, secret scan, bridges, `packages/core`** | queue file, receipts | parse, append, spawn | mostly pure I/O | - |

How they interact: the daemon hosts the registry, the HTTP server, the chat-reply
poller and the kind handlers on one event loop. All of them settle intents
through `decideIntent`, which appends to the state file, releases waiters, starts
the executor of a typed action or queues the handler of a kind (a kind command, a
model choice). The state file is replayed before the daemon listens. The pollers
and the rule engine are processes of their own; they feed the queue and
notification files the agent reads, wake it, and call the daemon (`/lead`, session
send). `iak-pending` asks the daemons of all hosts for what still waits. The
device card is a heartbeat that publishes the claims, server cards and switch
requests of one machine.

## 2. The modules

| Module | Models | Code |
|---|---|---|
| `DecisionRegister` | abstract: what the registry promises, without processes, files or crashes | - |
| `Confirmations` | confirmation registry, state file, crash and replay, authority of HTTP callers | `confirmations.mjs` 30-137, 401-548, 598-806, 1150-1260 |
| `ActionRequests` | typed action requests | `confirmations.mjs` 138-198, 550-597, 810-1116 |
| `Announcements` | fan-out, bare hooks, records, `announceStateOf` | `confirmations.mjs` 241-260, 694-783, 2048-2103 |
| `ChatReplyPoller` | polls of several daemons over one room | `confirmations.mjs` 2136-2293 |
| `KindCommands` | handler, claim, process group, timeout | `kind-commands.mjs` 73-204 |
| `RoomPoller` | one room of the room poller, its files, the reading agent | `room-poller.mjs` 112-458, `seen-ids.mjs`, `room-history.mjs` |
| `SourcePollers` | the unified poller and the listing pollers over one seen file | `unified-poller.mjs`, `comment-poller.mjs`, `discord-poller.mjs` |
| `RoomAutomation` | rule engine with its limiter | `room-automation.mjs`, `rate-limiter.mjs` |
| `SessionSend` | requests through a chain of daemons to a session | `session-send.mjs`, `confirmations.mjs` 1488-1545 |
| `ResponderLock` | session hooks and tools around one lock | `session-bootstrap.sh`, `responder-lock.mjs` |
| `AcpSessions` | server and CLI on the session file | `acp-sessions.mjs` |
| `TaskQueue` | CLI and mission control on the task file | `task-queue.mjs`, `mission-control.mjs` |
| `PendingWatch` | runs of `iak-pending` over a fleet | `bin/iak-pending.mjs` |
| `RoomArchive` | syncs of one archive | `room-archive.mjs` |
| `BackgroundRuns` | two starters of a background run | `background.mjs` |
| `ModelSelection` | pickers, the tool and the daemon | `model-selection.mjs`, `model-picker.mjs` |
| `ModelTidy` | apply and recover | `model-tidy.mjs` |
| `ModelClaims` | scan, probe and what is published | `model-availability.js`, `served-model.js`, `model-capacity.js` |
| `ModelSwitcher` | the switch bridge | `model-switcher.js`, `client.js` |
| `ServerCards` | discovery and rates | `tensorfold-status.js`, `tensorfold-discovery.js` |
| `Answered` | sum of `Confirmations` and `ChatReplyPoller` | - |
| `Decided` | sum of `ActionRequests` and `Announcements` | - |
| `Device` | sum of `KindCommands` and `ModelClaims` | - |
| `Parts` | sum of the other fourteen | - |
| `Confirmations_proofs`, `ActionRequests_proofs`, `KindCommands_proofs` | proofs about the two parts of `Answered`, `Decided` and `Device` | - |
| `RoomPoller_proofs` | proofs about `RoomPoller` | - |
| `Messages_proofs` | proofs about the parts `RoomAutomation`, `SessionSend` and `SourcePollers` of `Parts` | - |
| `Sessions_proofs` | the same for `AcpSessions`, `TaskQueue`, `BackgroundRuns` and `ResponderLock` | - |
| `Machine_proofs` | the same for `ModelSwitcher`, `PendingWatch`, `ModelSelection` and `ModelTidy` | - |
| `Stores_proofs` | the same for `ServerCards` and `RoomArchive` | - |
| `MC*` | small instances for TLC | - |

Definitions keep the names of the functions they translate; `PROJECT.json` maps
each to its lines. A definition named `X_Something` directly before `X` is `X`
with a plausible bug; no specification uses it. It documents which bug the
properties of the runs catch.

The modules share no variables: each takes from the others only what it needs,
as an environment action. `ChatReplyPoller` and `ActionRequests` abstract who may
decide to a set and a first-decision-wins guard, which is what `Confirmations`
proves of `decideIntent` (`DecisionIsFinal`, `DecisionsAuthorised`). Each module
states its type invariant `TypeOK` and the assumptions on its constants; in the
modules no run extends they are an operator, asserted by the run's module.

**Sums.** `Answered`, `Decided`, `Device`, `Parts`, and `MCProgress` for its run,
put several modules side by side, so that one run checks all of them. A
behaviour is one of one part, picked by the variable `part` at the start; the variables
of the others stand still in one initial state. The states of a sum are
therefore those of its parts, and its result is theirs; a sum composes nothing. A
property of a part is asked of the states in which it moves. `MCDecided` puts
`Confirmations` with its failing disk beside `Decided` in the same way (`side`), and asks
its properties of that instance. The sums keep all
constants of their parts as parameters and the `MC*` modules only give them
values, so the theorems are about the sum in general. Each proof about a part
begins with a lemma that every behaviour of the sum, seen through the variables of the part,
is one of the part's own specification (`RulesPart`, `RoomPart`...).

### Confirmations

State: `intents`, `teamLead`, `resolvers` and `kindQueue` are the Maps of the
module; `announcing` are the `createIntent` calls awaiting their hook; `disk` is
what replaying the state file would give and `torn` says that the file ends in a
fragment without newline; `used`, `outcome` and `handled` are history.

Every operation is one action up to its next await. An append
(`AppendState`, 83-92) ends in one of four ways: written, failed with nothing on
disk, torn (part of the line, the error swallowed), or cut (part of the line and
the process killed). `LoadPersistedState` skips lines that do not parse, and a row
appended behind a fragment shares the fragment's line, so it is lost too.
Prompts, timestamps and the text of records are left out; a `Shape` keeps of an
intent what decides its life: its options, whether it is reserved for the owner,
whether a kind consumes it, and who asked. The lead (`Lead`) keeps who appointed it,
as the row in the file does: that lets `DecisionRegister` judge an appointment.

`MaxFaults` and `MaxRestarts` bound the environment, in the guards of `Endings`
and `LoadPersistedState`. Ids are random in the code and never reused: `used`.

### ActionRequests

`asked` follows a `createActionRequest` call over its await, `verdict` is the
decision on the request's intent, `registry` the `actions` Map by nonce, `action`
the action objects, `executor` what a `gh` call is awaited for, `pushed` the
status mirror, `lapsed` the requests whose `expires_at` has passed. Payload
validation is left out: requests are valid ones. Only `merge_pr` has an executor;
the other types fail at once, as in the code. `MaxCrashes` bounds restarts.

### Announcements

`next` and `inFlight` are the position of the fan-out; `records` is
`intent.announcements`; `landed` is the truth about the transports, which the
properties compare the records with. A bare hook (not built by
`composeAnnouncers`) records what it likes, or throws.

### ChatReplyPoller

A poll is a small process: fetching, ready, walking (it has the event loop, so
nothing else of the daemon runs), answering (awaiting the POST of a notice).
`Slot` are the polls of one daemon that may be under way together: `setInterval`
does not wait for the last one. A message is the tap it carries; other messages
are skipped by the code without effect and are left out. The fetch window is
`Limit` (30 in the code).

### KindCommands

`leader` is the spawned process, `helper` a process it may leave behind, with or
without the output pipe, deaf to TERM, or escaped into a session of its own. A
run ends with `close`, when the process is gone *and* nobody holds the pipe.
`restarts` is bounded by `MaxRestarts`; the processes are detached and outlive
the daemon.

### RoomPoller

A message's number is its id and its `created_at`. Each write to a file is an
action of its own, in the code's order, so that `Crash` can fall between any two.
`others` counts ids that other rooms bring into the shared seen file.
`MaxMessages`, `MaxOthers` and `MaxCrashes` bound the environment. The cooldown
starts before a nudge is sent, and `NudgeTmux` may be `refused`: by a session that is
not there, or a send-keys that fails. The direct-message poller repeats the same steps on files of its own and is not
modelled separately; message enrichment and reply threads are text.

### SourcePollers

`style` is the unified poller, which keeps its seen ids in memory and replaces the
file by a rename (`SaveSeen`), or a listing poller, which reads the file for every poll and
overwrites it in place: `Truncate` leaves any part of what is to be written, down to
nothing, and `FinishWrite` the rest. A `watch` process and a `once` process share the
file, and either may die in between. `hand` is what a poll took and has not passed on;
`seeded`, `gone`, `queued` are what became of an item; `forgotten` those whose id the cap or
another process's save pushed out of the file, `torn` those that were missing where a
half-written file was read or left behind. An id cut in the middle counts as absent.

### RoomAutomation

`seenFile` and `seededFile` are saved one after the other in `trySeed`; `booting`
says that an error still ends the process. A poll looks up the mute state once,
marks a message seen and saves, and only then dispatches it. A read gives the newest
`FetchLimit` messages of a room (20 in the code), a seed the newest `SeedLimit` (50); a save keeps
the newest `SeenCap` ids of all rooms (2000), and `forgotten` is what it cut off. `adopted` are the
rooms that a start took for seeded because a seen file had no marker beside it. The
limiter's interval runs from the last post that was acknowledged.

### SessionSend

`hops` is, per request, the chain of daemons it went through. `Type` and `Submit`
are the two tmux commands: a text stands on the input `line`, with others' maybe,
until it is submitted or somebody's key clears it.

### ResponderLock

A hook is a process: it claims (`O_EXCL`: the file exists before its content does), or
steals from an owner that is gone, waits, and verifies. The settle is a sleep and may end at any
time. Sessions exit, and hooks are stopped, at any step. Pids come from a small set, so that
one is used again. `role` is what a session's last hook told it; `orphaned` says that a
session which was not `PASSIVE` exited, or a hook was stopped, since a hook last started: then the
lock may name nobody until one starts again. A read of the lock file is one step. A post let
through while a hook runs, when the lock may be changing hands, is not recorded in `spoke`.

### AcpSessions, TaskQueue

Two processes read one JSON file, change their copy and write it whole. In
`AcpSessions` a write can be cut by a death, which leaves a file that does not
parse and reads as empty; `acpAge` passes the time-out. In `TaskQueue` a CLI command
is one step and mission control goes by the memory it took at its start; `by` and
`at` are history: which call gave a task its status, and in which round each agent
reviewed last.

### PendingWatch

A run asks the hosts one by one while items appear, age and are decided, sets its
exit code, and with `--room` writes the ledger before it posts and rolls back if
the post failed. `Lost` is the ledger that cannot be read. `excused` are the
escalations that a mishap gave up or repeated.

### RoomArchive

A message's number is its place and its time. A sync walks backwards from the
newest page, then heals gaps; each page is appended before the state file is saved. `Budget`
and `PageSize` are the page limit and the 100 messages of a page.

### BackgroundRuns

Two starters and the events of a queue; a fact in the ledger remembers whether its
run was light only. `latest` is what the next run takes as its window's start.

### ModelSelection

`box` is what an entry's server is like at this moment. An asker is a picker
process or the daemon acting for the tool; `lately` are the entries that served
since the asker's answer, which the property compares the file with.

### ModelTidy

The five paths of a source are the original, its staging name, the pending link, the
copy and the quarantine. `journal` is one record per source. `Die` can fall between
any two changes of the disk; the target can be unmounted; a copy can be damaged
(not while a step of recovery that has verified it acts on it); others add files through the path.

### ModelClaims

A `Tick` is a period of the timers, and the readings' ages are counted in ticks.
`scan` and `probe` are what the two are doing; `past` is history: how many ticks ago
each model was whole, and had room.

### ModelSwitcher

`slot` is the one request the server keeps for the device, `ledger` the state file
and `book` its copy in memory, `step` where `poll` stands. Every PATCH and POST can
fail before or after its effect, every save before or after its rename.

### ServerCards

`process` are the engines with their port and token counter, `detected` what is
remembered of a port, `samples` the last readings, `snapshot` what is published;
`upFor` counts how long an engine has answered.

## 3. The runs

`tlc -config X.cfg M` in this directory, M being the module before the `_`.

| Run | Instance | What it shows |
|---|---|---|
| `confirmations_torn` | 1 cut append | *violation* of `FileAgrees`, see 4 |
| `answered` | registry: 2 intents, 2 agents and the owner, 3 shapes, no disk fault, 2 restarts. Poller: 2 daemons, 1 intent, 2 messages by the owner or a person who resembles one, 1 restart, polls that do not overlap | the state file replays to the registry (`FileAgrees`), a kind handler runs at most once and for a recorded answer (`HandlerOnce`), the registry implements `DecisionRegister` (`ImplementsRegister`); only an owner's tap settles (`OwnersSettle`), a refusal is answered once, by the holder (`OneNotice`), every new tap of the owner lands (`TapLands`) |
| `poller_overlap` | 1 daemon, two polls under way together | *violation* of `HistoryIgnored` |
| `actions_rank` | 3 requests, 1 crash | *violation* of `NeverBackwards` |
| `kind_group` | 2 cards, no restart | *violation* of `GroupKilled` |
| `decided` | registry: 1 intent, 1 failed, torn or cut append, 2 restarts. Actions: 2 merges sharing a nonce, 1 type without executor, owner and lead, 1 crash. Cards: 3 channels, one unconfigured; fan-out and bare hook; a crash | authority holds in memory and on disk (`AuthorisedDecisions`), a running daemon never changes a decision (`DecisionFinal`), waiters are parked exactly on open intents (`NoStrandedWaiter`) and are released (`WaiterReleased`); `MergedOnceIfApproved`, `ExecutorSettles`; `SummaryHonest`, `EveryChannelReported` |
| `device` | commands: 2 cards, 4 kinds of helper, 1 restart. Claims: 2 models, one of two shards with one missing or not, a catalogue server, 2 changes | `ClaimHolds`, `KilledSaysKilled`, `ClaimReleased`; `ClaimsBacked`, `ServedShown` |
| `progress` | rooms: 3 messages, window 2, fetches that fail, 1 crash. Switcher: 2 requests, 2 models, 1 mishap | `MessageDelivered`, `OwnerNudges`; `RequestSettles` |
| `parts` | fourteen parts, below | eighteen invariants, below |
| `automation_adopts` | 2 rooms, 1 mishap | *violation* of `HistoryNeverRuns` |
| `automation_crowded` | 2 rooms, reads of 1 message, seeds of 2, seen file of 2, 1 mishap | *violation* of `LeadsOnce` |
| `lock_election` | 3 sessions, 3 pids, 3 starts | *violation* of `OneElected` |

The parts of `parts`:

| Part | Instance | Invariants |
|---|---|---|
| rooms | 3 messages, window 2, seen file of 3 ids, 1 id of another room, 1 crash | `SeenMeansHandled`, `ReplayOnlyInterrupted` |
| rules | 2 rooms (one may be added later), a `/lead` in each, 1 trigger, reads of 1 message, seeds of 2, seen file of 2, 2 mishaps | `DispatchedOnce`, `HistoryGuarded` |
| sources | both styles, 2 items, one of them the agent's own, seen file of 1, watcher and one-shot, 1 death | `AccountedOnce` |
| sends | 2 daemons, 4 requests: forwarded, direct, looping, scripted; 1 key press | `DeliveredMeansSubmitted` |
| pending | 2 items on 2 hosts, 2 levels, 1 mishap | `AllClearIsClear`, `EscalationsOnce` |
| selection | 2 entries, a picker and the tool, 1 change of a box or the registry | `AppliedChecked` |
| tidy | 2 sources sharing inodes, 2 files, one of them a link, 1 added file, 2 faults | `NothingLost`, `PathsServed`, `RecoverHeals` |
| switcher | 2 requests, 2 models, 2 mishaps | `NeverReplayed` |
| archive | 6 messages, pages of 2, budgets 1 to 3, 1 abort | `NoSilentHole` |
| cards | 1 port, 1 pid, 2 starts, registry changes | `RateNeverOverstates`, `ServerShown` |
| background | hourly and manual run, queue of 3 events, 1 kill | `OneHolder` (one run past the lock) |
| voice | 3 sessions, 2 pids, 4 starts | `OneHolder` (one session may speak) |
| acp | server and CLI, 2 sessions, limit 1, 1 message each, 1 death | `LimitsHold` |
| tasks | 1 task, its author and 2 others, 5 calls | `LimitsHold` (quorums) |

Larger instances than these were run once each without a violation: `decided` with two disk
faults, `AcpSessions`
with 3 sessions and limit 2 (35 million states), `ServerCards` with two ports (28
million), `SourcePollers` with 3 items and no death (8 million), `ResponderLock` with 3
pids (1.9 million), `RoomAutomation` with reads and seeds of 2 and a seen file of 3 (0.1
million), `ModelSelection` with 2 changes (0.9 million).

Why the bounds are enough. Two intents make an answer on one disturb the other;
two restarts make the second replay work on a file the first one appended to; one
fault makes a fragment or a lost row, and two were tried once, for both on one file. Two requests on one nonce are
what the nonce check is about. Two cards are the contention for a claim. In the
pollers the window is smaller than the traffic and the seen file smaller than the
items, so eviction and items that leave the window both happen. `ReplayOnlyInterrupted` needs
`SeenCap + 1 >= 2 * FetchLimit`, far below the code's 20000 and 25, which
`RoomPollerAssumption` states: with 4 ids, windows of 3 and no other room TLC finds a message that was
handled in peace, pushed out of the file by the newer part of its batch, fetched
again after a crash and queued twice. Two rooms make one the unseeded one. Two hosts make one flap while the
other answers. Six messages and pages of two leave room for a gap inside a gap.
Three sessions let two steal from a third, and two pids make one be used again. One limit of one is what a stale copy
would break first; a vote or review threshold of two of three agents is the
code's. Two mishaps are what it takes for one to fall into the repair of another (a
second fault during recovery, a lost answer after a failed save).
`CHECK_DEADLOCK FALSE` is set in all runs: once every bounded action of the
environment is used up the system rests.

Fairness, and why the code has it:

- `Confirmations`: set timers fire (`WaiterTimeout`) and queued microtasks run
  (`KindHandlerStarts`). Nothing is assumed of whoever decides.
- `ActionRequests`: `gh` exits. The code sets no time limit, so `ExecutorSettles`
  holds under this assumption only.
- `Announcements`: the daemon's own continuations run, and a transport answers or
  fails in the end.
- `ChatReplyPoller`: the interval ticks, the event loop resumes what is ready, and
  a room asked for ever answers now and then (strong fairness: requests may fail
  again and again in between).
- `KindCommands`: the handler's steps and the timers. A command need not end.
- `ModelClaims`: the timers tick and a scan goes on; a server asked for ever
  answers, and returns a token or says that it does not, now and then.
- `RoomPoller`: the supervisor restarts the process and its interval ticks; a
  fetch tried again and again returns something in the end (strong fairness);
  a woken agent reads its file.
- `ModelSwitcher`: the timer polls, and the clock reaches the deadline. Nothing is
  assumed of the chooser.

In a sum only one part ever moves, so a fairness condition on a step of either of
two parts is the one of the part that moves.

## 4. Where the code and its text disagree

Runs that find a violation, each of a sentence in the repository:

- `confirmations_torn`: `appendState` never starts a new line after a fragment.
  The first row written after a kill in mid-append shares the fragment's line, and
  the next replay drops both. The comment at 109-110 and
  `src/test/persist-intents.test.mjs` speak of the fragment alone.
- `actions_rank`: approving an expired action revives it and pushes `processing`
  over `expired`; 166 says that no pushed state moves a row backwards.
- `poller_overlap`: two polls under way together; the first to be answered primes
  the poller, and the other executes its older window. 2190 says that the
  messages of the first pass are ignored.
- `kind_group`: the command dies at TERM, `close` comes, and `finish` cancels the
  KILL which a deaf member of its group still needed. `kind-commands.mjs:32` promises TERM,
  then KILL after a grace.
- `automation_adopts`: `trySeed` saves the seen ids (`room-automation.mjs:528`) and
  then the marker (529). If the marker is not written, the next start finds a seen
  file without markers, which it takes for one older than the markers: it adopts all
  configured rooms (511-515), and the history of those nobody seeded runs.
  494-497 says that seeding is per room, to prevent just that.
- `automation_crowded`: `saveSeenIds` keeps the newest 2000 ids of all rooms together
  (`room-automation.mjs:71`). A quiet room's `/lead` leaves the file while it is still among the 20 messages
  a poll reads of that room; after a restart it is new, and dispatched again. 557-561 says that
  at-most-once is the right bias for a privileged action. The same cap lets seeded history run.
- `lock_election`: of two sessions that start together, one sees the other's lock file after it was
  created and before it is written, takes its owner for gone, and removes it (`session-bootstrap.sh:190`) after the
  other has settled and verified. Both are ACTIVE; 24-27 says exactly one is.

Met while modelling, and not contradicted by a run here. Each is a case a property
excludes or the model leaves out:

- Confirmations: a decision taken before its action is registered never reaches the
  action; an action whose executor runs reads `expired` meanwhile; a tap that
  `decideIntent` refuses is only logged; a kind's claim is forgotten by a restart
  while its detached command goes on; a helper that left the group can hold a kind
  claimed for ever.
- Room poller: a quiet room's last message can be queued again after its id was
  crowded out; a failed first fetch makes the backlog look new; a nudge dropped in
  the cooldown is not made up for; `nudgeGate` starts the cooldown (`room-poller.mjs:246`) before the nudge is
  sent (448) and nobody looks at the answer, so one that tmux refuses is lost and the next message's dropped
  with it, although 234-236 says that the cooldown collapses messages into one wake; a line written between the read and the clear of
  the notification file is lost.
- Other pollers: the comment and Discord pollers write their seen file in place (`comment-poller.mjs:42`,
  `discord-poller.mjs:45`), and a poll that reads it half written, or after a kill inside the write, queues again
  what it queued before, although `seen-ids.mjs:5-8` speaks of all pollers; a restarted listing poller swallows what came while it was down; a
  one-shot `poll` of one consumes items the watcher then never queues; a first
  one-shot of the unified poller queues the whole history; an exception while
  saving ends the process, as no handler takes the rejection.
- Session send: two tmux sends at once can merge on one line, an Escape heartbeat can clear
  it, a script's spawn error after the 202 shows up in a receipt only, and a
  502 does not mean that nothing was delivered.
- Responder lock: the verify takes an absent or half-written lock for a failure of the mechanics and stays
  active. A session whose hook was stopped before it wrote leaves an empty lock, and one that exits a
  stale one, until another hook runs; meanwhile the tools let everybody speak. They also do
  while the lock is empty or absent in the middle of a claim.
- ACP sessions: both processes are told yes and the last writer wins; a stale save
  reopens a closed session; a torn file forgets all of them; expired sessions
  get their `closed_at` again and again.
- Task queue: the other's changes are undone or brought back; votes are counted in
  every status; a later change request does not withdraw a task from `to_install`,
  and a review of an old draft in mission control's memory can release a new one.
- Background runs: the deep phase runs whatever the gate said and writes the ledger (`background.mjs:359`), only
  the recorded status is `skipped`, although `src/README.md:387` says that REM and deep are skipped; events beyond `max_events` are never consolidated; a killed run
  leaves the lock, and its events are not new to the next one.
- Pending watcher: an age that becomes unknown lowers the level on record, and the
  item is announced again.
- Room automation: a post that was delivered and reported as failed does not start
  the limiter's interval; the limiter knows one process; the call of the daemon has no time limit.
- Room archive: two syncs of one room at once break `NoSilentHole`; so can a torn
  append, and equal timestamps at a page boundary.
- Model claims: one missed fetch stores "no server"; a hung scan blocks all later
  ones; the veto goes by a reading that may be 45 minutes old; shard names without a
  total hide a missing last shard; with a floor equal to the interval the served
  model flickers.
- Model selection: the tool's registry path may be another than the daemon's; two
  applies of one daemon share a temporary file (`ModelSelection` models it: what either leaves there was checked).
- Model tidy: copies are never flushed to the disk before the original goes; a
  dangling link whose target is unmounted makes recovery drop the journal, and a
  stray link then blocks `apply`; a stray `.tmp-` journal blocks `apply` and not
  `recover`; nothing keeps `apply` and `recover` from running together.
- TensorFold status: the rate is clock to clock, while the counter may have been read a time-out
  earlier; a 503 of a known server makes it "not TensorFold" for ten minutes.

## 5. The proofs

`tlapm M.tla` for the eight `*_proofs` modules. A theorem holds for every value of the
constants that the assumptions of its module allow; a run asks the same of one
instance. Where a theorem has a hypothesis besides, it is named below with the reason.

The argument always has the same form: an inductive invariant, found by
strengthening the property until TLC and then tlapm accept every step; one lemma for
`Init`, one for a step with a case per action; and a temporal theorem that
combines them.

| Module | Theorem | States |
|---|---|---|
| `Confirmations_proofs` | `TypeCorrect` | `Spec => []TypeOK` |
| | `DecisionsAuthorised` | `AuthorisedDecisions`, with any faults and restarts |
| | `DecisionIsFinal` | `DecisionFinal`, an action property |
| | `NobodyStranded` | `NoStrandedWaiter` |
| | `FileIsRegistry` | `FileAgrees`, if `Faults = {}` |
| | `HandlersOnce` | `HandlerOnce`, if `Faults = {}` |
| | `RegistryIsRegister` | `ImplementsRegister` (the refinement), if `Faults = {}` |
| | `OwnersOnly` | `OwnersSettle`, with any overlapping polls |
| | `NoticedOnce` | `OneNotice`, if a daemon has one poll at a time (`Slot = {s}`) |
| `ActionRequests_proofs` | `TypeCorrect` | `Spec => []TypeOK` |
| | `MergedOnce` | `MergedOnceIfApproved` |
| | `CardsHonest` | `SummaryHonest` |
| `KindCommands_proofs` | `TypeCorrect` | `Spec => []TypeOK` |
| | `OwnersRun` | `OnlyOwnerRuns` |
| | `ClaimExcludes` | `ClaimHolds` |
| | `VerdictTrue` | `KilledSaysKilled` |
| | `CardBacked` | `ClaimsBacked`, if `Counted = Model` and `OwnMemory = TRUE` |
| `RoomPoller_proofs` | `TypeCorrect` | `Spec => []TypeOK` |
| | `RememberedHandled` | `SeenMeansHandled` |
| | `ReplayedInterrupted` | `ReplayOnlyInterrupted` |
| `Messages_proofs` | `RulesDispatchOnce` | `DispatchedOnce` |
| | `RulesGuardHistory` | `HistoryGuarded` |
| | `SendsDeliver` | `DeliveredMeansSubmitted` |
| | `ItemsAccounted` | `AccountedOnce`, beside any one-shot polls |
| `Sessions_proofs` | `AcpLimits`, `TaskQuorums`, `JsonLimits` | `LimitsHold`: of the sessions, of the tasks, of both |
| | `BackgroundOneRun`, `OneSpeaks`, `LocksHold` | `OneHolder`: of the background lock, of the responder lock, of both |
| `Machine_proofs` | `SwitchedOnce` | `NeverReplayed` |
| | `ClearIsClear` | `AllClearIsClear` |
| | `AnnouncedOnce` | `EscalationsOnce` |
| | `ChosenChecked` | `AppliedChecked` |
| | `FilesKept` | `NothingLost`, with any kills, and damage that spares one copy of a file |
| | `PathsLead` | `PathsServed` |
| | `RecoveryHeals` | `RecoverHeals` |
| `Stores_proofs` | `RatesHonest` | `RateNeverOverstates` |
| | `ServersShown` | `ServerShown` |
| | `HolesNamed` | `NoSilentHole`, with one sync at a time (`ArchiveCaller = {c}`) |

### What they assume

The assumptions are the named ones of the modules: distinct model values, natural
bounds, well-formed shapes. Those that say more:

- `RoomPollerAssumption`: `SeenCap + 1 >= 2 * FetchLimit` (section 3). Two fetch windows
  that share a message must fit in the file together: the one that brought a
  message, and the last one that can still bring it again.
- `TaskQueue`: the voters are finitely many, since quorums are cardinalities.
- `ModelSelection`: entries are finitely many and told apart from what else a file holds.
- `RoomAutomation`: a seed reads no less than a poll does, and the limits are not zero.
- `ModelClaims`: a probe lists at least one model (`Order` is not empty).

The hypotheses of single theorems are conditions TLC shows to be needed:

- `Faults = {}`: `confirmations_torn` is the counterexample.
- `Slot = {s}`: with two polls of one daemon that overlap, a window of one message and
  a restart, TLC finds a tap refused twice.
- `Counted = Model`: a model whose shard names state no total is available though its last shard is
  missing. `OwnMemory = TRUE`: on a host whose models load into another's memory, the room measured is not
  the room there is.
- `ArchiveCaller = {c}`: two syncs of one archive at once lose a gap, see section 4.

### The inductive invariants

**Registry.** `AuthorisedDecisions` is inductive with `TypeOK`, because it covers
the file as well as memory: replay may bring back any row that was ever written.
`DecisionFinal` and `NoStrandedWaiter` need `KnownUsed`: every intent in memory or
on disk has an id that was handed out, so `createIntent` never replaces one.
`FileAgrees` speaks only of a running daemon and is not inductive: after a crash
the file must still be one that can be appended to. `CleanFile` adds that no
fragment ends it and that an intent which is not decided has neither answer nor
decider; the latter is also what maps a raised intent to an empty verdict in
`DecisionRegister`. `HandlerOnce` follows because a handler is queued only by the step
that makes a decision, and a decided intent is decided in the file too.

**Chat-reply poller.** `RoomInv`: what a poll holds is in the room, and what settled an intent
is an owner's tap on it (`TapsTrue`). `NoticeInv` adds, for the one poll of each
daemon, `FirstPass`: once the first pass is over, every message older than the
daemon's start has been seen or is out of reach of a fetch; while it walks, it is
seen or in the batch. So a daemon started again refuses nothing that the one before it refused
(`NoticesKnown`, `NoticesOnce`).

**Action requests.** `StartedOnce`: a merge accounts for one start of an executor, a start for the
request's own approval, and nothing starts twice. **Announcements.** `CardInv`: a record
`posted` stands on a channel where the card landed, a channel not asked yet has
neither (`FanOut`, `RecordsTrue`), and when the call is through every channel asked has settled
(`AllSettled`); the one-word state is then true of the records.

**Kind commands.** `IInv` has three parts per card. `RunInv`: a run that is
announced or waited for has the owner's tap, the claim, and no result yet; so a
tap that finds the kind free finds no run under way. `ProcessInv`: a command lives
only for a run that is waited for, or that a dead daemon forgot, so that
releasing the claim at `close` releases it for nobody alive. `TimerInv`: before the
timer has fired nothing was ended by a signal, which makes the verdict true.

**Model claims.** `CardInv` follows the age of the evidence through the pipeline: a
scan under way goes by what held when it began, at most a period ago (`ScanBacked`);
the stored verdicts by what held one period before their own age (`VerdictsBacked`); a
probe asks a token of a model that had room within the stale time (`TokenBacked`).

**Room poller.** `HandledInv`: `SeenHandled` covers what is remembered in memory and on disk,
`MarkCovers` the watermark: it hides nothing a fetch can still return that was not handled, nor will
the one this batch leaves. It is the second half that makes a kill between the two
writes harmless. `ReplayOnlyInterrupted` needs the order in the capped file: `SeenInOrder` (what
was seen is in posting order up to a window, without repetitions) and `QueuedRemembered` (what was
queued in peace is remembered for as long as a fetch can return it). Lemmas about the last `k`
elements of a sequence (`LastOfIds`, `LastOfOrder`, `SaveKeepsLive`) say what the cap keeps.

**Room automation.** `Taken`: what was dispatched, or is about to be, is in the seen file and in memory
unless it was forgotten. `Watching`: dispatch is on only when all rooms are seeded. `HistorySeen`: the history
of a room that carries a marker is, so far as a poll can still read it, in the seen file, unless the
room was adopted or the id forgotten.
**Session send.** `Delivery`, per request and hop: a text is typed at the last hop and
nowhere before, stands on one line at most, and a hop says ok only of a text that has gone.
**Pollers of the other sources.** `SourceInv`: what the file marks as seen was passed on, and what a memory marks was
too or is in hand (`SeenPassedOn`); what the watcher gave out or is about to is in the file, or will be when the writes
under way are done, and in the ids it goes by, unless forgotten or torn off (`GivenRemembered`, whose second half is what
a one-shot's save in between would break, were it not counted as forgetting), and what it holds is new (`GivenOnce`). `OrderedItems` shows that the order in which ids are
added loses none.

**ACP sessions.** The limit holds in the file and in the copy either caller is about to save; so a
stale save cannot exceed it. **Task queue.** `Settled` in every copy of the tasks: reviews counted are of the
present round and by others than the author; a task that a vote moved has the votes for it.
**Background runs.** Who is past the lock is alone, and the lock exists.
**Responder lock.** `VoiceInv`: the lock names its owner by its present process (`Named`); who owns it is not
about to claim it, and its last hook did not make it PASSIVE (`Owned`); while it is nobody's some hook is about to see
that it is, or to claim it (`Awaited`); only the owner has spoken (`Spoken`). Nothing is said of who believes to be ACTIVE.

**Model switcher.** `SwitchInv`: a request that was posted is recorded as such in the ledger, in
its copy in memory and by the server (`DispatchRecorded`), and one reported as interrupted was
not posted (`InterruptedRecorded`); `Underway` says how far the claim is at each step of `poll`.
**Pending watcher.** `ClearSound`: what was pending at the start and is not listed is on a host not asked yet, or
silent. `LedgerSound`: the ledger is never ahead of what was said, except for the news in hand, where
`loaded` is what a rollback restores.
**Model selection.** `ApplySound` and `ContentSound`: an entry under way was answered, and from the second
probe on served since; so was what any file holds, the temporary ones included. That is why the shared temporary
file does no harm to the property.
**Model tidy.** `AllSound`, per source: only directories hold files and the pending link is a link (`Shaped`); the
path shows no damaged file, and a record lists all originals (`Undamaged`); without a record the path is a directory
with all files or a link to one (`Served`); an intact copy of every file is somewhere (`Kept`, which alone is not
inductive: what may be deleted next depends on the rest). `StepSound` says what the process has checked and may
act on at each step, `Queued` that what is still to be moved has no record and is in one unit, so a unit's failure
touches no other; `Healed` that recovery has left nothing behind that it could have brought back.

**Server cards.** `RatesInv`: a port has one listener; the sample a rate starts from was
taken of the counter's own life, or exceeds it (`Baseline`). `ShownInv`: a port that has answered for a while is an open engine's (`ServedSince`), a
verdict against it is at least as old as that (`VerdictsOlder`), so it has lapsed by the
recheck time, and the reading in flight will show what it must (`ReadShows`). **Room archive.** `ArchiveInv`: every hole between two archived messages is around a named gap
(`Named`), and the sync in hand knows why what it has not reached yet is none: `NewestWalk`, `HealingWalk` and `OlderWalk` for
its three walks, with its own gap reaching down to the newest message known before (`OwnGap`).

### Only model-checked

- All liveness (`WaiterReleased`, `ExecutorSettles`, `EveryChannelReported`, `TapLands`,
  `ClaimReleased`, `ServedShown`, `MessageDelivered`, `OwnerNudges`, `RequestSettles`): TLAPS has no rules
  for `ENABLED`, on which fairness rests.
- The type invariants of the other modules, which TLC checked when they were written; the proofs carry the
  part of them they need in their own invariants.

## 6. Not modelled, and the plan

Left out of the modelled components: message texts, HTML and MCP plumbing,
logging and receipts, payload validation, enrichment, the DM variant of the room
poller (the same steps on files of its own), the Linear poller (its cursor is in
memory only), the archive's legacy cursors
and a server that ignores `before=`, failures of `ps` and sessions without an id in
the responder lock, remote hosts and aliases of the server cards. `src/src/ide/` and
`src/src/team-relay/` hold copies of the pollers, session and limiter files;
`src/src/room-poller.mjs` is an older one that nothing starts.

Not modelled at all: session keepalive and tmux runner, the webhook server's GitHub
and OpenClaw intake, host telemetry and publisher, the secret scan, `packages/core`,
the OpenClaw, Moltbook and OpenRoom bridges, CLI, configuration, receipts and
memory. They parse, append, spawn or call a service, and keep no state of their own
that two steps could disturb.

Next: every safety invariant and action property the runs check is proved; what is left to
prove is the type invariants of the modules that have none proved yet.
