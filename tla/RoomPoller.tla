------------------------------ MODULE RoomPoller ------------------------------
(***************************************************************************)
(* The room poller of src/src/team-relay/room-poller.mjs, for one room: it *)
(* fetches the newest messages, queues and notifies what it has not seen,  *)
(* remembers ids and a watermark in two files, and nudges the agent, which *)
(* then reads and clears the notification file (checkRoomMessages).        *)
(*                                                                         *)
(* The room is external; other rooms of the same poller appear only as    *)
(* ids that crowd the shared seen file.  A message's number stands for its *)
(* id and for its created_at, in ticks of which Tolerance are the          *)
(* staleness tolerance.                                                    *)
(* Every write to a file is a step of its own: the process may be killed   *)
(* between any two of them.                                                *)
(***************************************************************************)
EXTENDS Naturals, Sequences, Functions

CONSTANTS FetchLimit, SeedLimit, SeenCap, Tolerance, MaxMessages, MaxOthers, MaxCrashes

ASSUME RoomPollerAssumption ==
    /\ {FetchLimit, SeedLimit, SeenCap} \subseteq Nat \ {0}
    /\ {Tolerance, MaxMessages, MaxOthers, MaxCrashes} \subseteq Nat
    /\ SeenCap + 1 >= 2 * FetchLimit  \* 20000 and, by default, 25 in the code

VARIABLES room,      \* what kind of message each one is
          backlog,   \* how many there were when it was first started, or seeded
          phase,     \* what the poller does next
          seen,      \* ids seen, in order of insertion
          others,    \* how many of them other rooms brought
          mark,      \* the room's watermark: newest message processed
          batch,     \* fetched and not yet walked through, the newest first
          newest,    \* newest message processed in this poll
          wake,      \* this poll has a new message of the owner, or a mention
          cooling,   \* the nudge cooldown runs
          seenFile, markFile,
          queued,    \* how often each message was appended to the event queue
          notes,     \* the notification file
          agent,     \* "asleep", "woken", or "reading"
          refused,   \* the nudge that started the running cooldown reached nobody
          copy,      \* what the reading agent got from the file
          read,      \* every message the agent has read
          interrupted, \* messages whose handling a crash cut short
          crashes

poller == <<seen, others, mark, batch, newest, wake, cooling>>
files == <<seenFile, markFile>>
reader == <<agent, refused, copy, read>>
history == <<interrupted, crashes>>
vars == <<room, backlog, phase, poller, files, queued, notes, reader, history>>

Kind == {"owner", "chatter", "self"}
Message == 1..MaxMessages
Other == 0  \* an id of another room
Ids(s) == Range(s)
Bigger(m, n) == IF m > n THEN m ELSE n
LastOf(s, k) == IF Len(s) <= k THEN s ELSE SubSeq(s, Len(s) - k + 1, Len(s))

TypeOK ==
    /\ room \in Seq(Kind) /\ Len(room) <= MaxMessages
    /\ backlog \in 0..MaxMessages
    /\ phase \in {"down", "seeding", "idle", "walking", "enriching", "queueing",
                  "notifying", "remembering", "saving", "marking", "nudging"}
    /\ seen \in Seq(Message \cup {Other}) /\ batch \in Seq(Message)
    /\ others \in 0..MaxOthers
    /\ mark \in 0..MaxMessages /\ newest \in 0..MaxMessages
    /\ wake \in BOOLEAN /\ cooling \in BOOLEAN
    /\ seenFile \in Seq(Message \cup {Other}) /\ Len(seenFile) <= SeenCap
    /\ markFile \in 0..MaxMessages
    /\ queued \in [Message -> Nat]
    /\ notes \subseteq Message /\ copy \subseteq Message /\ read \subseteq Message
    /\ agent \in {"asleep", "woken", "reading"} /\ refused \in BOOLEAN
    /\ interrupted \subseteq Message /\ crashes \in Nat

Init ==
    /\ \E n \in 0..MaxMessages - 1 : room \in [1..n -> Kind] /\ backlog = n
    /\ phase = "down"
    /\ seen = << >> /\ others = 0 /\ mark = 0 /\ batch = << >> /\ newest = 0
    /\ wake = FALSE /\ cooling = FALSE
    /\ seenFile = << >> /\ markFile = 0
    /\ queued = [n \in Message |-> 0]
    /\ notes = {} /\ copy = {} /\ read = {}
    /\ agent = "asleep" /\ refused = FALSE
    /\ interrupted = {} /\ crashes = 0

-----------------------------------------------------------------------------
(* The room *)

Post(kind) ==
    /\ Len(room) < MaxMessages
    /\ room' = Append(room, kind)
    /\ UNCHANGED <<backlog, phase, poller, files, queued, notes, reader, history>>

\* A fetch returns the newest messages first, or, when curl fails, nothing.
Page(limit) ==
    [k \in 1..(IF Len(room) > limit THEN limit ELSE Len(room)) |-> Len(room) + 1 - k]
Fetched(limit) == {Page(limit), << >>}

-----------------------------------------------------------------------------
(* Starting *)

\* loadSeenIds and RoomHistory.load; with nothing seen the room is seeded first.
Start ==
    /\ phase = "down"
    /\ seen' = seenFile /\ mark' = markFile
    /\ phase' = IF seenFile = << >> THEN "seeding" ELSE "idle"
    /\ UNCHANGED <<room, backlog, others, batch, newest, wake, cooling, files, queued,
                   notes, reader, history>>

\* seedRoom: everything there is is marked seen and raises the watermark.
SeedRoom ==
    /\ phase = "seeding"
    /\ \E msgs \in Fetched(SeedLimit) :
          /\ seen' = seen \o msgs
          /\ mark' = IF msgs = << >> THEN mark ELSE Bigger(mark, msgs[1])
          /\ backlog' = IF msgs = << >> THEN backlog ELSE msgs[1]
    /\ phase' = "saving"
    /\ UNCHANGED <<room, others, batch, newest, wake, cooling, files, queued, notes,
                   reader, history>>

-----------------------------------------------------------------------------
(* A poll *)

\* Mutant of PollRooms: the whole batch is marked seen as it is fetched.
PollRooms_MarksBatch ==
    /\ phase = "idle"
    /\ \E msgs \in Fetched(FetchLimit) : batch' = msgs /\ seen' = seen \o msgs
    /\ newest' = 0 /\ wake' = FALSE
    /\ phase' = "walking"
    /\ UNCHANGED <<room, backlog, others, mark, cooling, files, queued, notes, reader,
                   history>>

PollRooms ==
    /\ phase = "idle"
    /\ batch' \in Fetched(FetchLimit)
    /\ newest' = 0 /\ wake' = FALSE
    /\ phase' = "walking"
    /\ UNCHANGED <<room, backlog, seen, others, mark, cooling, files, queued, notes, reader,
                   history>>

\* isStale, against the watermark as it stood before the batch.
Stale(n) == n + Tolerance < mark

\* Mutant of Classify: the last message of a batch says whether it matters.
Classify_LastDecides ==
    /\ phase = "walking" /\ batch # << >>
    /\ LET n == Head(batch)
           new == n \notin Ids(seen) /\ ~Stale(n)
       IN  /\ seen' = IF n \in Ids(seen) THEN seen ELSE Append(seen, n)
           /\ newest' = IF new THEN Bigger(newest, n) ELSE newest
           /\ IF new /\ room[n] # "self"
              THEN /\ phase' = "queueing" /\ UNCHANGED batch
                   /\ wake' = (room[n] = "owner")
              ELSE /\ batch' = Tail(batch) /\ UNCHANGED <<phase, wake>>
    /\ UNCHANGED <<room, backlog, others, mark, cooling, files, queued, notes, reader, history>>

\* classifyFetched for the next message of the batch.
Classify ==
    /\ phase = "walking" /\ batch # << >>
    /\ LET n == Head(batch)
           new == n \notin Ids(seen) /\ ~Stale(n)
       IN  /\ seen' = IF n \in Ids(seen) THEN seen ELSE Append(seen, n)
           /\ newest' = IF new THEN Bigger(newest, n) ELSE newest
           /\ IF new /\ room[n] # "self"
              THEN /\ phase' = "queueing" /\ UNCHANGED batch
                   /\ wake' = (wake \/ room[n] = "owner")
              ELSE /\ batch' = Tail(batch) /\ UNCHANGED <<phase, wake>>
    /\ UNCHANGED <<room, backlog, others, mark, cooling, files, queued, notes, reader, history>>

\* enrichEvent returned: the event is appended to the queue ...
AppendEvent ==
    /\ phase = "queueing"
    /\ queued' = [queued EXCEPT ![Head(batch)] = @ + 1]
    /\ phase' = "notifying"
    /\ UNCHANGED <<room, backlog, poller, files, notes, reader, history>>

\* ... the line to the notification file ...
AppendNotification ==
    /\ phase = "notifying"
    /\ notes' = notes \cup {Head(batch)}
    /\ phase' = "remembering"
    /\ UNCHANGED <<room, backlog, poller, files, queued, reader, history>>

\* saveSeenIds replaces the file by the last SeenCap ids.
SaveSeenIds == seenFile' = LastOf(seen, SeenCap) /\ UNCHANGED markFile

\* Mutant of Remember: the ids are saved once per batch.
Remember_PerBatch ==
    /\ phase = "remembering"
    /\ batch' = Tail(batch)
    /\ phase' = "walking"
    /\ UNCHANGED <<room, backlog, seen, others, mark, newest, wake, cooling, files, queued,
                   notes, reader, history>>

\* ... and only then is the id remembered.
Remember ==
    /\ phase = "remembering"
    /\ SaveSeenIds
    /\ batch' = Tail(batch)
    /\ phase' = "walking"
    /\ UNCHANGED <<room, backlog, seen, others, mark, newest, wake, cooling, queued, notes,
                   reader, history>>

\* A message of another room was handled and remembered in the same file.
OtherRoomsMessage ==
    /\ phase = "walking" /\ batch = << >> /\ others < MaxOthers
    /\ others' = others + 1
    /\ seen' = Append(seen, Other)
    /\ seenFile' = LastOf(seen', SeenCap)
    /\ UNCHANGED <<room, backlog, phase, mark, batch, newest, wake, cooling, markFile,
                   queued, notes, reader, history>>

\* Mutant of EndOfRoom: the watermark is the newest message there is by now.
EndOfRoom_ToNow ==
    /\ phase = "walking" /\ batch = << >>
    /\ mark' = Len(room)
    /\ phase' = "saving"
    /\ UNCHANGED <<room, backlog, seen, others, batch, newest, wake, cooling, files,
                   queued, notes, reader, history>>

\* The batch is done: the watermark advances once.
EndOfRoom ==
    /\ phase = "walking" /\ batch = << >>
    /\ mark' = Bigger(mark, newest)
    /\ phase' = "saving"
    /\ UNCHANGED <<room, backlog, seen, others, batch, newest, wake, cooling, files, queued,
                   notes, reader, history>>

SaveSeen ==
    /\ phase = "saving"
    /\ SaveSeenIds
    /\ phase' = "marking"
    /\ UNCHANGED <<room, backlog, poller, queued, notes, reader, history>>

SaveHistory ==
    /\ phase = "marking"
    /\ markFile' = mark
    /\ phase' = "nudging"
    /\ UNCHANGED <<room, backlog, poller, seenFile, queued, notes, reader, history>>

\* nudgeTmux (or the nudge command): the keys wake the agent; a session that is not there,
\* or a send-keys that fails, is answered by false, and nothing is done about it.
NudgeTmux ==
    \/ agent' = (IF agent = "asleep" THEN "woken" ELSE agent) /\ refused' = FALSE
    \/ agent' = agent /\ refused' = TRUE

\* nudgeGate: only for a message that matters, and not within the cooldown, which starts
\* before the nudge is sent.
Nudge ==
    /\ phase = "nudging"
    /\ phase' = "idle"
    /\ \/ ~(wake /\ ~cooling) /\ UNCHANGED <<cooling, agent, refused>>
       \/ (wake /\ ~cooling) /\ cooling' = TRUE /\ NudgeTmux
    /\ UNCHANGED <<room, backlog, seen, others, mark, batch, newest, wake, files, queued,
                   notes, copy, read, history>>

CooldownEnds ==
    /\ cooling
    /\ cooling' = FALSE /\ refused' = FALSE
    /\ UNCHANGED <<room, backlog, phase, seen, others, mark, batch, newest, wake, files, queued,
                   notes, agent, copy, read, history>>

Crash ==
    /\ phase # "down" /\ crashes < MaxCrashes
    /\ crashes' = crashes + 1
    /\ phase' = "down"
    /\ interrupted' = IF phase \in {"notifying", "remembering"}
                      THEN interrupted \cup {Head(batch)} ELSE interrupted
    /\ seen' = << >> /\ mark' = 0 /\ batch' = << >> /\ newest' = 0
    /\ wake' = FALSE /\ cooling' = FALSE /\ refused' = FALSE
    /\ UNCHANGED <<room, backlog, others, files, queued, notes, agent, copy, read>>

-----------------------------------------------------------------------------
(* The agent: checkRoomMessages *)

ReadNotes ==
    /\ agent = "woken"
    /\ copy' = notes
    /\ agent' = "reading"
    /\ UNCHANGED <<room, backlog, phase, poller, files, queued, notes, refused, read, history>>

ClearNotes ==
    /\ agent = "reading"
    /\ notes' = {}
    /\ read' = read \cup copy /\ copy' = {}
    /\ agent' = "asleep"
    /\ UNCHANGED <<room, backlog, phase, poller, files, queued, refused, history>>

-----------------------------------------------------------------------------

PollStep ==
    \/ Start \/ SeedRoom \/ PollRooms \/ Classify \/ AppendEvent \/ AppendNotification
    \/ Remember \/ EndOfRoom \/ SaveSeen \/ SaveHistory \/ Nudge

Next ==
    \/ \E kind \in Kind : Post(kind)
    \/ Start
    \/ SeedRoom
    \/ PollRooms
    \/ Classify
    \/ AppendEvent
    \/ AppendNotification
    \/ Remember
    \/ OtherRoomsMessage
    \/ EndOfRoom
    \/ SaveSeen
    \/ SaveHistory
    \/ Nudge
    \/ CooldownEnds
    \/ Crash
    \/ ReadNotes
    \/ ClearNotes

\* The supervisor restarts the poller, its interval ticks, a fetch that is tried
\* again and again works now and then, and a woken agent reads.
Spec ==
    /\ Init /\ [][Next]_vars
    /\ WF_vars(PollStep) /\ SF_vars(PollRooms /\ batch' # << >>)
    /\ WF_vars(CooldownEnds) /\ WF_vars(ReadNotes) /\ WF_vars(ClearNotes)

-----------------------------------------------------------------------------
(* Properties *)

\* "Handled = queued + notified; only then is it safe to remember it": an id on
\* disk belongs to the backlog, to the agent itself, or to a message that was
\* queued, wherever the poller was killed.
SeenMeansHandled ==
    \A n \in Ids(seenFile) : n <= backlog \/ room[n] = "self" \/ queued[n] > 0

\* "The marker is written after EACH handled message": a message is queued again
\* only if the crash fell between its own append and its own marker, although
\* the seen file forgets old ids; other rooms may crowd out newer ones.
ReplayOnlyInterrupted ==
    others = 0 => \A n \in Message : queued[n] > 1 => n \in interrupted

\* A message that stays in the fetch window is queued in the end: the watermark
\* never hides one that was not handled.
InWindow(n) == n <= Len(room) /\ n > Len(room) - FetchLimit
MessageDelivered ==
    \A n \in Message :
        InWindow(n) ~> (~InWindow(n) \/ queued[n] > 0 \/ n <= backlog \/ room[n] = "self")

\* "Messages from the owner ALWAYS nudge": one that is written while no cooldown
\* runs wakes the agent, whatever else its batch holds, unless the poller dies or
\* tmux refuses the nudge of this very batch.
OwnerNudges ==
    \A n \in Message :
        (phase = "remembering" /\ Head(batch) = n /\ room[n] = "owner" /\ ~cooling)
            ~> (agent # "asleep" \/ n \in read \/ phase = "down" \/ refused)
=============================================================================
