--------------------------------- MODULE Parts ---------------------------------
(***************************************************************************)
(* The parts of the system that share no state with each other: a behaviour *)
(* is one of one part, chosen at the start, and the variables of the others *)
(* stand still in one initial state.                                        *)
(***************************************************************************)
EXTENDS RoomPoller

CONSTANTS RuleRoom, RuleMessage, RuleRoomOf, Lead, Trigger, Owners, RuleFetch, RuleSeed, RuleCap, AutomationMishaps
CONSTANTS MaxItems, SourceOwn, SourceCap, SourceCrashes
CONSTANTS Daemon, SendRequest, Origin, Adapter, MaxForwardHops, MaxKeys
CONSTANTS PendingItem, Host, HostOf, Blocked, MaxLevel, PendingMishaps
CONSTANTS BoxEntry, NoEntry, Asker, Picker, RequireChoice, MaxEvents
CONSTANTS Source, HardlinkSet, File, Sticky, Added, MaxAdded, TidyFaults
CONSTANTS SwitchRequest, NoRequest, ModelName, Wanted, NoModel, SwitchMishaps
CONSTANTS ArchiveCaller, PageSize, Budget, ArchiveMessages, MaxAborts
CONSTANTS Port, ServerPid, RecheckTicks, MaxTokens, MaxStarts, MaxChanges
CONSTANTS Run, Durable, Window, QueueCap, MaxQueue, MaxStops
CONSTANTS Agents, Pid, MaxHooks
CONSTANTS AcpCaller, AcpSession, MaxSessions, MessageLimit, Timeout, MaxDeaths
CONSTANTS Task, Voter, AuthorOf, VoteThreshold, ReviewThreshold, MaxReviewRounds, MaxCalls

VARIABLES part

VARIABLES posted, rooms, ruleSeenFile, seededFile, ruleStage, booting, ready, ruleSeen, seeded, todo,
          ruleBatch, cur, hot, muted, recent, done, old, adopted, ruleForgotten, ruleMishaps
ruleVars == <<posted, rooms, ruleSeenFile, seededFile, ruleStage, booting, ready, ruleSeen, seeded, todo,
              ruleBatch, cur, hot, muted, recent, done, old, adopted, ruleForgotten, ruleMishaps>>
Rules == INSTANCE RoomAutomation WITH
    Room <- RuleRoom, Message <- RuleMessage, RoomOf <- RuleRoomOf, FetchLimit <- RuleFetch,
    SeedLimit <- RuleSeed, SeenCap <- RuleCap, MaxMishaps <- AutomationMishaps,
    seenFile <- ruleSeenFile, stage <- ruleStage, seen <- ruleSeen, batch <- ruleBatch, forgotten <- ruleForgotten,
    mishaps <- ruleMishaps

VARIABLES style, items, sourceFile, at, discarding, sourceMemory, hand, sourceQueued, discarded, gone, forgotten,
          torn, sourceCrashes
sourceVars == <<style, items, sourceFile, at, discarding, sourceMemory, hand, sourceQueued, discarded, gone,
                forgotten, torn, sourceCrashes>>
Sources == INSTANCE SourcePollers WITH
    Own <- SourceOwn, SeenCap <- SourceCap, MaxCrashes <- SourceCrashes,
    seenFile <- sourceFile, seeding <- discarding, memory <- sourceMemory, queued <- sourceQueued, seeded <- discarded,
    crashes <- sourceCrashes

VARIABLES hops, line, submitted, spawned, cleared, keys
sendVars == <<hops, line, submitted, spawned, cleared, keys>>
Sends == INSTANCE SessionSend WITH Request <- SendRequest

VARIABLES waiting, age, stage, asked, listed, silent, code, loaded, ledger, news, said, excused, missed, mishaps
pendingVars == <<waiting, age, stage, asked, listed, silent, code, loaded, ledger, news, said, excused, missed,
                 mishaps>>
Pending == INSTANCE PendingWatch WITH
    Item <- PendingItem, MaxMishaps <- PendingMishaps

VARIABLES box, rows, asker, offer, choice, apply, applied, choiceFile, tmp, lately, events
selectionVars == <<box, rows, asker, offer, choice, apply, applied, choiceFile, tmp, lately, events>>
Selection == INSTANCE ModelSelection WITH
    Entry <- BoxEntry, intent <- choice, outcome <- applied, file <- choiceFile

VARIABLES fs, journal, stray, mounted, pc, applying, todos, groups, group, moved, added, tidyFaults
tidyVars == <<fs, journal, stray, mounted, pc, applying, todos, groups, group, moved, added, tidyFaults>>
Tidy == INSTANCE ModelTidy WITH
    todo <- todos, cur <- moved, faults <- tidyFaults, MaxFaults <- TidyFaults

VARIABLES slot, switchLedger, book, step, req, verdict, chooser, posts, reached, told, filed, aged, overdue,
          switchMishaps
switchVars == <<slot, switchLedger, book, step, req, verdict, chooser, posts, reached, told, filed, aged, overdue,
                switchMishaps>>
Switcher == INSTANCE ModelSwitcher WITH
    Request <- SwitchRequest, Name <- ModelName, MaxMishaps <- SwitchMishaps, ledger <- switchLedger, shown <- reached, mishaps <- switchMishaps

VARIABLES top, archive, saved, call, aborts
archiveVars == <<top, archive, saved, call, aborts>>
Archive == INSTANCE RoomArchive WITH Caller <- ArchiveCaller, MaxMessages <- ArchiveMessages

VARIABLES process, registry, discover, due, reading, samples, detected, snapshot, made, upFor, starts, changes
cardVars == <<process, registry, discover, due, reading, samples, detected, snapshot, made, upFor, starts, changes>>
Cards == INSTANCE ServerCards WITH Pid <- ServerPid, Recheck <- RecheckTicks

VARIABLES queueEnd, lock, latest, staged, memoryLedger, run, stops
runVars == <<queueEnd, lock, latest, staged, memoryLedger, run, stops>>
Background == INSTANCE BackgroundRuns WITH
    MaxEvents <- QueueCap, events <- queueEnd, ledger <- memoryLedger

VARIABLES runningAs, hook, role, responderLock, orphaned, spoke, hooks
voiceVars == <<runningAs, hook, role, responderLock, orphaned, spoke, hooks>>
Voice == INSTANCE ResponderLock WITH
    Session <- Agents, MaxStarts <- MaxHooks, process <- runningAs, lock <- responderLock, starts <- hooks

VARIABLES acpFile, cut, acpCall, acpAge, created, late, deaths
acpVars == <<acpFile, cut, acpCall, acpAge, created, late, deaths>>
Acp == INSTANCE AcpSessions WITH
    Caller <- AcpCaller, Session <- AcpSession, file <- acpFile, call <- acpCall, age <- acpAge

VARIABLES tasks, dashboard, calls
taskVars == <<tasks, dashboard, calls>>
Tasks == INSTANCE TaskQueue WITH Agent <- AuthorOf

PartsInit ==
    /\ part \in {"rooms", "rules", "sources", "sends", "pending", "selection", "tidy", "switcher",
                 "archive", "cards", "background", "voice", "acp", "tasks"}
    /\ Init /\ Rules!Init /\ Sources!Init /\ Sends!Init
    /\ Pending!Init /\ Selection!Init /\ Tidy!Init /\ Switcher!Init
    /\ Archive!Init /\ Cards!Init /\ Background!Init /\ Voice!Init /\ Acp!Init /\ Tasks!Init
    /\ part # "rooms" => room = << >>
    /\ part # "sources" => style = "unified"
    /\ part # "archive" => top = 0
    /\ part # "cards" => discover /\ registry = [p \in Port |-> "none"]

messageVars == <<ruleVars, sourceVars, sendVars>>
machineVars == <<pendingVars, selectionVars, tidyVars, switchVars>>
storeVars == <<archiveVars, cardVars, runVars>>
sessionVars == <<voiceVars, acpVars, taskVars>>

PartsNext ==
    \/ /\ part = "rooms" /\ Next
       /\ UNCHANGED <<part, messageVars, machineVars, storeVars, sessionVars>>
    \/ /\ part = "rules" /\ Rules!Next
       /\ UNCHANGED <<part, vars, sourceVars, sendVars, machineVars, storeVars, sessionVars>>
    \/ /\ part = "sources" /\ Sources!Next
       /\ UNCHANGED <<part, vars, ruleVars, sendVars, machineVars, storeVars, sessionVars>>
    \/ /\ part = "sends" /\ Sends!Next
       /\ UNCHANGED <<part, vars, ruleVars, sourceVars, machineVars, storeVars, sessionVars>>
    \/ /\ part = "pending" /\ Pending!Next
       /\ UNCHANGED <<part, vars, messageVars, selectionVars, tidyVars, switchVars, storeVars, sessionVars>>
    \/ /\ part = "selection" /\ Selection!Next
       /\ UNCHANGED <<part, vars, messageVars, pendingVars, tidyVars, switchVars, storeVars, sessionVars>>
    \/ /\ part = "tidy" /\ Tidy!Next
       /\ UNCHANGED <<part, vars, messageVars, pendingVars, selectionVars, switchVars, storeVars, sessionVars>>
    \/ /\ part = "switcher" /\ Switcher!Next
       /\ UNCHANGED <<part, vars, messageVars, pendingVars, selectionVars, tidyVars, storeVars, sessionVars>>
    \/ /\ part = "archive" /\ Archive!Next
       /\ UNCHANGED <<part, vars, messageVars, machineVars, cardVars, runVars, sessionVars>>
    \/ /\ part = "cards" /\ Cards!Next
       /\ UNCHANGED <<part, vars, messageVars, machineVars, archiveVars, runVars, sessionVars>>
    \/ /\ part = "background" /\ Background!Next
       /\ UNCHANGED <<part, vars, messageVars, machineVars, archiveVars, cardVars, sessionVars>>
    \/ /\ part = "voice" /\ Voice!Next
       /\ UNCHANGED <<part, vars, messageVars, machineVars, storeVars, acpVars, taskVars>>
    \/ /\ part = "acp" /\ Acp!Next
       /\ UNCHANGED <<part, vars, messageVars, machineVars, storeVars, voiceVars, taskVars>>
    \/ /\ part = "tasks" /\ Tasks!Next
       /\ UNCHANGED <<part, vars, messageVars, machineVars, storeVars, voiceVars, acpVars>>

partsVars == <<part, vars, messageVars, machineVars, storeVars, sessionVars>>
PartsSpec == PartsInit /\ [][PartsNext]_partsVars

ASSUME MessageAssumptions ==
    Rules!AutomationAssumption /\ Sources!SourceAssumption /\ Sends!SendAssumption
ASSUME MachineAssumptions ==
    /\ Pending!PendingAssumption /\ Selection!SelectionAssumption
    /\ Tidy!ModelTidyAssumption /\ Switcher!SwitcherAssumption
ASSUME StoreAssumptions ==
    Archive!ArchiveAssumption /\ Cards!CardsAssumption /\ Background!BackgroundAssumption
ASSUME SessionAssumptions ==
    Voice!LockAssumption /\ Acp!AcpAssumption /\ Tasks!QueueAssumption

\* Each says of its part what the part's module says; of a part that stands still it
\* says so of an initial state.
DispatchedOnce == Rules!DispatchedOnce
HistoryGuarded == Rules!HistoryGuarded
AccountedOnce == Sources!AccountedOnce
DeliveredMeansSubmitted == Sends!DeliveredMeansSubmitted
AllClearIsClear == Pending!AllClearIsClear
EscalationsOnce == Pending!EscalationsOnce
AppliedChecked == Selection!AppliedChecked
NothingLost == Tidy!NothingLost
PathsServed == Tidy!PathsServed
RecoverHeals == Tidy!RecoverHeals
NeverReplayed == Switcher!NeverReplayed
NoSilentHole == Archive!NoSilentHole
RateNeverOverstates == Cards!RateNeverOverstates
ServerShown == Cards!ServerShown
\* Each lock file of the machine keeps to one holder.
OneHolder == Background!OneRun /\ Voice!OneVoice
\* Two processes on one JSON file do not get past the limits and quorums kept in it.
LimitsHold == Acp!LimitsHold /\ Tasks!QuorumsHold
=============================================================================
