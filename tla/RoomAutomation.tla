----------------------------- MODULE RoomAutomation -----------------------------
(***************************************************************************)
(* The rule engine beside the room poller (src/room-automation.mjs): it     *)
(* reads the rooms, takes each new message once, hands /lead to the         *)
(* confirmations daemon and runs the rules that match, and answers in the   *)
(* room through the rate limiter (src/rate-limiter.mjs).  What may not run  *)
(* is history: rooms are seeded first, per room, with a seen file and a     *)
(* file of seeded rooms that are saved one after the other.  A read gives   *)
(* the newest messages of a room only; the seen file, which all rooms share,*)
(* keeps the newest ids only, in the order they were seen.  The process     *)
(* can die between any two steps, a read, a save or a post can fail, and    *)
(* the operator adds rooms between runs.                                    *)
(***************************************************************************)
EXTENDS Naturals, Sequences, Functions

CONSTANTS Room, Message, RoomOf,
          Lead,       \* /lead commands of the owner
          Trigger,    \* messages some rule matches; the rest needs no action
          Owners,     \* messages the owner wrote: never muted
          FetchLimit, \* messages a poll reads of a room (20), and a seed (50)
          SeedLimit,
          SeenCap,    \* ids the seen file keeps (2000)
          MaxMishaps

AutomationAssumption ==
    /\ {FetchLimit, SeedLimit, SeenCap} \subseteq Nat \ {0} /\ FetchLimit <= SeedLimit
    /\ RoomOf \in [Message -> Room] /\ MaxMishaps \in Nat
    /\ Lead \cup Trigger \cup Owners \subseteq Message /\ Lead \cap Trigger = {}

VARIABLES posted,     \* the messages in each room, oldest first
          rooms,      \* the configured rooms
          seenFile, seededFile,
          stage,      \* what the engine does next
          booting,    \* it is before its first poll: an error ends it
          ready,      \* seeding is complete: dispatch is on
          seen, seeded, \* ids in the order they were seen, and rooms
          todo,       \* rooms this poll has still to read
          batch, cur, \* messages read and not taken, and the room or message in hand
          hot,        \* the rule fired less than its cooldown ago
          muted,      \* emergency-only mode, looked up once a poll
          recent,     \* the limiter's interval since the last acknowledged post runs
          done,       \* history: how often each message was dispatched
          old,        \* history: messages older than the watch on their room
          adopted,    \* history: rooms taken as seeded from an unmarked seen file
          forgotten,  \* history: ids a save of the seen file left out
          mishaps
engine == <<stage, booting, ready, seen, seeded, todo, batch, cur, hot, muted, recent>>
automationVars == <<posted, rooms, seenFile, seededFile, engine, done, old, adopted, forgotten, mishaps>>

None == "none"
Ids(s) == Range(s)
Stages == {"down", "idle", "seed", "mark", "poll", "act", "reply"}

TypeOK ==
    /\ posted \in [Room -> Seq(Message)] /\ rooms \subseteq Room
    /\ seenFile \in Seq(Message) /\ seen \in Seq(Message)
    /\ {batch, old, forgotten} \subseteq SUBSET Message
    /\ {seededFile, seeded, todo, adopted} \subseteq SUBSET Room
    /\ stage \in Stages /\ cur \in {None} \cup Room \cup Message
    /\ {booting, ready, hot, muted, recent} \subseteq BOOLEAN
    /\ done \in [Message -> Nat] /\ mishaps \in 0..MaxMishaps

Init ==
    /\ posted = [r \in Room |-> << >>] /\ rooms = {} /\ seenFile = << >> /\ seededFile = {}
    /\ stage = "down" /\ booting = FALSE /\ ready = FALSE
    /\ seen = << >> /\ seeded = {} /\ todo = {} /\ batch = {} /\ cur = None
    /\ hot = FALSE /\ muted = FALSE /\ recent = FALSE
    /\ done = [m \in Message |-> 0] /\ old = {} /\ adopted = {} /\ forgotten = {}
    /\ mishaps = 0

Mishap == mishaps < MaxMishaps /\ mishaps' = mishaps + 1
There(m) == m \in Ids(posted[RoomOf[m]])
Newest(r, k) == {posted[r][i] : i \in {j \in 1..Len(posted[r]) : j + k > Len(posted[r])}}

\* saveSeenIds: the file is replaced by the newest ids.
Saved(ids) ==
    /\ seenFile' = SubSeq(ids, 1 + IF Len(ids) > SeenCap THEN Len(ids) - SeenCap ELSE 0, Len(ids))
    /\ forgotten' = forgotten \cup (Ids(ids) \ Ids(seenFile'))

\* The engine stops and its memory is gone: a crash, or an error before the first poll.
Stopped ==
    /\ stage' = "down" /\ booting' = FALSE /\ ready' = FALSE
    /\ seen' = << >> /\ seeded' = {} /\ todo' = {} /\ batch' = {} /\ cur' = None
    /\ hot' = FALSE /\ muted' = FALSE /\ recent' = FALSE

\* An error in a poll is logged and the loop goes on.
PollFailed ==
    /\ stage' = "idle" /\ todo' = {} /\ batch' = {} /\ cur' = None
    /\ UNCHANGED <<booting, ready, hot, muted, recent>>

-----------------------------------------------------------------------------
(* Start and seeding *)

Adopts == seenFile # << >> /\ seededFile = {}

\* The operator may have added rooms.  A seen file without a marker is taken as one from
\* before there were markers: all configured rooms count as seeded (a failed save of
\* that is ignored).
Start ==
    /\ stage = "down"
    /\ \E rs \in SUBSET Room \ {{}} :
        /\ rooms \subseteq rs /\ rooms' = rs
        /\ old' = old \cup {m \in Message : RoomOf[m] \in rs \ rooms /\ There(m)}
        /\ seen' = seenFile /\ stage' = "seed" /\ booting' = TRUE
        /\ seeded' = IF Adopts THEN rs ELSE seededFile
        /\ adopted' = IF Adopts THEN rs ELSE adopted
        /\ IF Adopts THEN seededFile' \in {rs, {}} ELSE UNCHANGED seededFile
    /\ UNCHANGED <<posted, seenFile, ready, todo, batch, cur, hot, muted, recent, done, forgotten, mishaps>>

\* The newest messages of a room, in any order, become seen.
SeeNewest(r) ==
    LET unseen == Newest(r, SeedLimit) \ Ids(seen) IN
    \E n \in 0..SeedLimit : \E ids \in [1..n -> unseen] :
        Ids(ids) = unseen /\ IsInjective(ids) /\ seen' = seen \o ids

\* trySeed, one room: what is in it is seen, and saved.
SeedRoom(r) ==
    /\ stage = "seed" /\ r \in rooms \ seeded
    /\ SeeNewest(r) /\ Saved(seen')
    /\ stage' = "mark" /\ cur' = r
    /\ UNCHANGED <<posted, rooms, seededFile, booting, ready, seeded, todo, batch, hot, muted, recent,
                   done, old, adopted, mishaps>>

\* Mutant of SeedUnread: a failed read seeds the room with nothing.
SeedUnread_Empty(r) ==
    /\ stage = "seed" /\ r \in rooms \ seeded /\ Mishap
    /\ stage' = "mark" /\ cur' = r
    /\ UNCHANGED <<posted, rooms, seenFile, seededFile, booting, ready, seen, seeded, todo, batch, hot, muted,
                   recent, done, old, adopted, forgotten>>

\* The room cannot be read: seeding is given up until the next poll.
SeedUnread(r) ==
    /\ stage = "seed" /\ r \in rooms \ seeded /\ Mishap
    /\ stage' = "idle"
    /\ UNCHANGED <<posted, rooms, seenFile, seededFile, booting, ready, seen, seeded, todo, batch, cur, hot,
                   muted, recent, done, old, adopted, forgotten>>

\* The seen file cannot be saved: that ends the start, or the poll.
SeedUnsaved(r) ==
    /\ stage = "seed" /\ r \in rooms \ seeded /\ Mishap
    /\ IF booting THEN Stopped
       ELSE PollFailed /\ SeeNewest(r) /\ UNCHANGED seeded
    /\ UNCHANGED <<posted, rooms, seenFile, seededFile, done, old, adopted, forgotten>>

MarkSeeded ==
    /\ stage = "mark"
    /\ seeded' = seeded \cup {cur} /\ seededFile' = seeded'
    /\ stage' = "seed" /\ cur' = None
    /\ UNCHANGED <<posted, rooms, seenFile, booting, ready, seen, todo, batch, hot, muted, recent, done,
                   old, adopted, forgotten, mishaps>>

\* The marker cannot be saved; in memory the room is marked.
MarkUnsaved ==
    /\ stage = "mark" /\ Mishap
    /\ IF booting THEN Stopped
       ELSE PollFailed /\ seeded' = seeded \cup {cur} /\ UNCHANGED seen
    /\ UNCHANGED <<posted, rooms, seenFile, seededFile, done, old, adopted, forgotten>>

\* Every room is seeded: dispatch is on.
SeedDone ==
    /\ stage = "seed" /\ rooms \subseteq seeded
    /\ ready' = TRUE /\ stage' = IF booting THEN "idle" ELSE "poll"
    /\ todo' = IF booting THEN {} ELSE rooms
    /\ UNCHANGED <<posted, rooms, seenFile, seededFile, booting, seen, seeded, batch, cur, hot, muted,
                   recent, done, old, adopted, forgotten, mishaps>>

-----------------------------------------------------------------------------
(* The poll: one at a time, the next starts when this one has ended *)

PollStart ==
    /\ stage = "idle" /\ booting' = FALSE /\ muted' \in BOOLEAN
    /\ hot' \in {FALSE, hot}
    /\ IF ready THEN stage' = "poll" /\ todo' = rooms ELSE stage' = "seed" /\ UNCHANGED todo
    /\ UNCHANGED <<posted, rooms, seenFile, seededFile, ready, seen, seeded, batch, cur, recent, done, old,
                   adopted, forgotten, mishaps>>

\* One room is read, or cannot be and is skipped this time.
ReadRoom(r) ==
    /\ stage = "poll" /\ batch = {} /\ r \in todo /\ todo' = todo \ {r}
    /\ batch' \in {Newest(r, FetchLimit) \ Ids(seen), {}}
    /\ UNCHANGED <<posted, rooms, seenFile, seededFile, stage, booting, ready, seen, seeded, cur, hot, muted,
                   recent, done, old, adopted, forgotten, mishaps>>

\* Mutant of Take: the seen file is left for the save at the end of the poll.
Take_SavedLater(m) ==
    /\ stage = "poll" /\ m \in batch /\ batch' = batch \ {m}
    /\ seen' = Append(seen, m)
    /\ IF m \in Lead \cup Trigger THEN stage' = "act" /\ cur' = m ELSE UNCHANGED <<stage, cur>>
    /\ UNCHANGED <<posted, rooms, seenFile, seededFile, booting, ready, seeded, todo, hot, muted, recent,
                   done, old, adopted, forgotten, mishaps>>

\* A message is seen, and saved as seen, before it is acted on.
Take(m) ==
    /\ stage = "poll" /\ m \in batch /\ batch' = batch \ {m}
    /\ seen' = Append(seen, m) /\ Saved(seen')
    /\ IF m \in Lead \cup Trigger THEN stage' = "act" /\ cur' = m ELSE UNCHANGED <<stage, cur>>
    /\ UNCHANGED <<posted, rooms, seededFile, booting, ready, seeded, todo, hot, muted, recent, done, old,
                   adopted, mishaps>>

\* The save fails: the poll ends, and the message is never acted on by this run.
TakeUnsaved(m) ==
    /\ stage = "poll" /\ m \in batch /\ Mishap
    /\ PollFailed /\ seen' = Append(seen, m) /\ UNCHANGED seeded
    /\ UNCHANGED <<posted, rooms, seenFile, seededFile, done, old, adopted, forgotten>>

\* handleLeadCommand: whatever the daemon answers, there is a reply to post.
RunLead ==
    /\ stage = "act" /\ cur \in Lead
    /\ done' = [done EXCEPT ![cur] = @ + 1] /\ stage' = "reply"
    /\ UNCHANGED <<posted, rooms, seenFile, seededFile, booting, ready, seen, seeded, todo, batch, cur, hot,
                   muted, recent, old, adopted, forgotten, mishaps>>

\* A rule: not in its cooldown; while muted, agents' messages post nothing.
RunRule ==
    /\ stage = "act" /\ cur \in Trigger
    /\ IF hot \/ (muted /\ cur \notin Owners)
       THEN /\ stage' = "poll" /\ cur' = None /\ UNCHANGED done
       ELSE /\ done' = [done EXCEPT ![cur] = @ + 1] /\ stage' = "reply" /\ UNCHANGED cur
    /\ hot' = TRUE
    /\ UNCHANGED <<posted, rooms, seenFile, seededFile, booting, ready, seen, seeded, todo, batch, muted,
                   recent, old, adopted, forgotten, mishaps>>

\* postMessage: within the interval nothing is sent; only an acknowledged post is marked.
Reply ==
    /\ stage = "reply" /\ stage' = "poll" /\ cur' = None
    /\ recent' \in {recent, TRUE}
    /\ UNCHANGED <<posted, rooms, seenFile, seededFile, booting, ready, seen, seeded, todo, batch, hot, muted,
                   done, old, adopted, forgotten, mishaps>>

\* The ids are saved once more, if they can be.
PollEnd ==
    /\ stage = "poll" /\ batch = {} /\ todo = {} /\ stage' = "idle"
    /\ \/ Saved(seen) /\ UNCHANGED mishaps
       \/ Mishap /\ UNCHANGED <<seenFile, forgotten>>
    /\ UNCHANGED <<posted, rooms, seededFile, booting, ready, seen, seeded, todo, batch, cur, hot, muted,
                   recent,
                   done, old, adopted>>

-----------------------------------------------------------------------------
(* The world *)

\* While the engine is down, and nothing is configured, everything is history.
PostMessage(m) ==
    /\ ~There(m) /\ posted' = [posted EXCEPT ![RoomOf[m]] = Append(@, m)]
    /\ UNCHANGED <<rooms, seenFile, seededFile, engine, done, old, adopted, forgotten, mishaps>>

IntervalEnds ==
    /\ recent /\ recent' = FALSE
    /\ UNCHANGED <<posted, rooms, seenFile, seededFile, stage, booting, ready, seen, seeded, todo, batch, cur,
                   hot, muted, done, old, adopted, forgotten, mishaps>>

Crash ==
    /\ stage # "down" /\ Mishap /\ Stopped
    /\ UNCHANGED <<posted, rooms, seenFile, seededFile, done, old, adopted, forgotten>>

Next ==
    \/ Start \/ MarkSeeded \/ MarkUnsaved \/ SeedDone
    \/ \E r \in Room : SeedRoom(r) \/ SeedUnread(r) \/ SeedUnsaved(r) \/ ReadRoom(r)
    \/ PollStart \/ RunLead \/ RunRule \/ Reply \/ PollEnd
    \/ \E m \in Message : Take(m) \/ TakeUnsaved(m) \/ PostMessage(m)
    \/ IntervalEnds \/ Crash
AutomationSpec == Init /\ [][Next]_automationVars

-----------------------------------------------------------------------------
(* Properties *)

\* A message is dispatched at most once, through crashes, failed saves and restarts, as
\* long as the rooms together have not pushed its id out of the seen file: an appointment
\* the owner made once is never made twice.
DispatchedOnce == \A m \in Message \ forgotten : done[m] <= 1

\* History is dispatched only in a room the engine took as seeded from a seen file that
\* has no marker beside it, or after its id was pushed out of the seen file.
HistoryGuarded == \A m \in old \ forgotten : done[m] > 0 => RoomOf[m] \in adopted

\* Seeding is per room: what was in a room before it was watched is never dispatched
\* (comment src/room-automation.mjs:495).
HistoryNeverRuns == \A m \in old : done[m] = 0

\* "At-most-once is the right bias for a privileged action" (comment
\* src/room-automation.mjs:557-561): no /lead is dispatched twice.
LeadsOnce == \A m \in Lead : done[m] <= 1
=============================================================================
