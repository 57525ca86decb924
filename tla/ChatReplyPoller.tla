---------------------------- MODULE ChatReplyPoller ----------------------------
(***************************************************************************)
(* startChatReplyPoller (src/src/confirmations.mjs): several daemons poll  *)
(* one chat room for "/approve <id>" and "/deny <id>" messages, each acts  *)
(* on the intents it holds, and answers a person whose tap it refuses.     *)
(*                                                                         *)
(* A poll is an async function: it fetches the newest Limit messages, the  *)
(* newest first, walks through them without yielding except where it posts *)
(* an answer, and marks the poller primed at the end.  setInterval starts  *)
(* the next poll whether or not the last one has returned; Slot are the    *)
(* polls of one daemon that can be under way together.                     *)
(*                                                                         *)
(* The room is external: a growing sequence of messages.  An intent is     *)
(* held (and persisted, see Confirmations.tla) by one daemon.              *)
(***************************************************************************)
EXTENDS Naturals, Sequences

CONSTANTS Poller, Slot, NoSlot,
          Intent, HolderOf,
          Sender,       \* who writes in the room, apart from the pollers
          Owners,       \* handles listed as owners
          Person,       \* senders that resemble an owner, or a verified human
          Limit,        \* messages a fetch returns
          MaxMessages, MaxRestarts

PollerAssumption ==
    /\ HolderOf \in [Intent -> Poller]
    /\ Owners \subseteq Person /\ Person \subseteq Sender
    /\ NoSlot \notin Slot
    /\ Limit \in Nat \ {0} /\ MaxMessages \in Nat /\ MaxRestarts \in Nat

VARIABLES room,      \* the taps posted so far, in order
          decided,   \* decision of each intent
          seen,      \* messages a poller has seen, in this life
          primed,    \* pollers that finished a first pass
          poll,      \* what each poll of a poller is doing
          busy,      \* the poll that holds the daemon's event loop
          notices,   \* "was NOT recorded" answers posted
          born,      \* length of the room when the daemon was started
          restarts

vars == <<room, decided, seen, primed, poll, busy, notices, born, restarts>>

Answer == {"approve", "deny"}
Tap == [from : Sender, on : Intent, answer : Answer]
Index == 1..MaxMessages
NoDecision == [answer |-> "none", tap |-> 0]

\* fetching: the request is out; ready: waiting for the event loop, with these
\* messages left; walking: in the loop; answering: awaiting the POST of a notice.
Idle == [st |-> "idle", batch |-> << >>]

TypeOK ==
    /\ room \in Seq(Tap) /\ Len(room) <= MaxMessages
    /\ decided \in [Intent -> [answer : Answer \cup {"none"}, tap : Index \cup {0}]]
    /\ seen \in [Poller -> SUBSET Index]
    /\ primed \subseteq Poller
    /\ \A p \in Poller, s \in Slot :
          /\ poll[p][s].st \in {"idle", "fetching", "ready", "walking", "answering"}
          /\ poll[p][s].batch \in Seq(Index) /\ Len(poll[p][s].batch) <= Limit
    /\ busy \in [Poller -> Slot \cup {NoSlot}]
    /\ \A n \in DOMAIN notices :
          notices[n] \in [by : Poller, on : Index]
    /\ born \in [Poller -> Nat]
    /\ restarts \in Nat

Init ==
    /\ room = << >>
    /\ decided = [i \in Intent |-> NoDecision]
    /\ seen = [p \in Poller |-> {}]
    /\ primed = {}
    /\ poll = [p \in Poller |-> [s \in Slot |-> Idle]]
    /\ busy = [p \in Poller |-> NoSlot]
    /\ notices = << >>
    /\ born = [p \in Poller |-> 0]
    /\ restarts = 0

-----------------------------------------------------------------------------
(* The room, and the decisions that do not come from it *)

Post(tap) ==
    /\ Len(room) < MaxMessages
    /\ room' = Append(room, tap)
    /\ UNCHANGED <<decided, seen, primed, poll, busy, notices, born, restarts>>

Settle(i, answer, n) == decided' = [decided EXCEPT ![i] = [answer |-> answer, tap |-> n]]

\* Over HTTP or by an MCP tool, when the holder's event loop is free.
DecideElsewhere(i, answer) ==
    /\ decided[i] = NoDecision /\ busy[HolderOf[i]] = NoSlot
    /\ Settle(i, answer, 0)
    /\ UNCHANGED <<room, seen, primed, poll, busy, notices, born, restarts>>

-----------------------------------------------------------------------------
(* A poll *)

Set(p, s, st, batch) == poll' = [poll EXCEPT ![p][s] = [st |-> st, batch |-> batch]]

Tick(p, s) ==
    /\ poll[p][s].st = "idle"
    /\ Set(p, s, "fetching", << >>)
    /\ UNCHANGED <<room, decided, seen, primed, busy, notices, born, restarts>>

\* The messages the room has now, the newest first.
Window ==
    LET size == IF Len(room) > Limit THEN Limit ELSE Len(room)
    IN  [k \in 1..size |-> Len(room) + 1 - k]

\* Mutant of RoomAnswers: a batch is marked seen when it arrives, not as it is walked.
RoomAnswers_MarksSeen(p, s) ==
    /\ poll[p][s].st = "fetching"
    /\ Set(p, s, "ready", Window)
    /\ seen' = [seen EXCEPT ![p] = @ \cup {Window[k] : k \in DOMAIN Window}]
    /\ UNCHANGED <<room, decided, primed, busy, notices, born, restarts>>

RoomAnswers(p, s) ==
    /\ poll[p][s].st = "fetching"
    /\ Set(p, s, "ready", Window)
    /\ UNCHANGED <<room, decided, seen, primed, busy, notices, born, restarts>>

\* Not ok, or an exception: this poll is over.
FetchFails(p, s) ==
    /\ poll[p][s].st = "fetching"
    /\ Set(p, s, "idle", << >>)
    /\ UNCHANGED <<room, decided, seen, primed, busy, notices, born, restarts>>

\* The continuation of an await gets the event loop.
Resume(p, s) ==
    /\ poll[p][s].st = "ready" /\ busy[p] = NoSlot
    /\ Set(p, s, "walking", poll[p][s].batch)
    /\ busy' = [busy EXCEPT ![p] = s]
    /\ UNCHANGED <<room, decided, seen, primed, notices, born, restarts>>

\* Mutant of IsOwner: whoever resembles an owner is taken for one.
IsOwner_Resembles(from) == from \in Person

\* Authorization: exact membership in the owners set.
IsOwner(from) == from \in Owners

\* Mutant of Answerable: every poller answers a person, also for ids it never held.
Answerable_Anyone(p, tap) == tap.from \in Person

\* A refused tap is answered by the poller that holds its intent, to a person.
Answerable(p, tap) == HolderOf[tap.on] = p /\ tap.from \in Person

\* Mutant of Decidable: a later tap overrides.
Decidable_Again(p, tap) == HolderOf[tap.on] = p

\* getIntent finds the intent and decideIntent accepts.
Decidable(p, tap) == HolderOf[tap.on] = p /\ decided[tap.on] = NoDecision

\* One message: skipped when seen or historical, refused, or decided on.
Walk(p, s) ==
    LET batch == poll[p][s].batch
        n == Head(batch)
        tap == room[n]
        skip == n \in seen[p] \/ p \notin primed
        refuse == ~skip /\ ~IsOwner(tap.from)
    IN
    /\ busy[p] = s /\ batch # << >>
    /\ seen' = [seen EXCEPT ![p] = @ \cup {n}]
    /\ IF refuse /\ Answerable(p, tap)
       THEN /\ Set(p, s, "answering", Tail(batch))
            /\ busy' = [busy EXCEPT ![p] = NoSlot]
            /\ notices' = Append(notices, [by |-> p, on |-> n])
       ELSE Set(p, s, "walking", Tail(batch)) /\ UNCHANGED <<busy, notices>>
    /\ IF ~skip /\ ~refuse /\ Decidable(p, tap) THEN Settle(tap.on, tap.answer, n)
       ELSE UNCHANGED decided
    /\ UNCHANGED <<room, primed, born, restarts>>

\* reply() returns, whether its POST worked or not.
ReplyReturns(p, s) ==
    /\ poll[p][s].st = "answering"
    /\ Set(p, s, "ready", poll[p][s].batch)
    /\ UNCHANGED <<room, decided, seen, primed, busy, notices, born, restarts>>

Finish(p, s) ==
    /\ busy[p] = s /\ poll[p][s].batch = << >>
    /\ primed' = primed \cup {p}
    /\ Set(p, s, "idle", << >>)
    /\ busy' = [busy EXCEPT ![p] = NoSlot]
    /\ UNCHANGED <<room, decided, seen, notices, born, restarts>>

\* The daemon is killed and started again: its intents are persisted, what it
\* has seen of the room is not.
Restart(p) ==
    /\ restarts < MaxRestarts
    /\ restarts' = restarts + 1
    /\ seen' = [seen EXCEPT ![p] = {}]
    /\ primed' = primed \ {p}
    /\ poll' = [poll EXCEPT ![p] = [s \in Slot |-> Idle]]
    /\ busy' = [busy EXCEPT ![p] = NoSlot]
    /\ born' = [born EXCEPT ![p] = Len(room)]
    /\ UNCHANGED <<room, decided, notices>>

-----------------------------------------------------------------------------

\* What a poll does once it has been answered.
PollStep(p, s) ==
    Resume(p, s) \/ Walk(p, s) \/ ReplyReturns(p, s) \/ Finish(p, s)

Next ==
    \/ \E tap \in Tap : Post(tap)
    \/ \E i \in Intent, answer \in Answer : DecideElsewhere(i, answer)
    \/ \E p \in Poller, s \in Slot : Tick(p, s)
    \/ \E p \in Poller, s \in Slot : RoomAnswers(p, s)
    \/ \E p \in Poller, s \in Slot : FetchFails(p, s)
    \/ \E p \in Poller, s \in Slot : Resume(p, s)
    \/ \E p \in Poller, s \in Slot : Walk(p, s)
    \/ \E p \in Poller, s \in Slot : ReplyReturns(p, s)
    \/ \E p \in Poller, s \in Slot : Finish(p, s)
    \/ \E p \in Poller : Restart(p)

\* The interval timer ticks, the event loop resumes what is ready, and a room
\* that is asked again and again answers now and then.
Spec ==
    /\ Init /\ [][Next]_vars
    /\ \A p \in Poller, s \in Slot :
          WF_vars(Tick(p, s)) /\ WF_vars(PollStep(p, s)) /\ SF_vars(RoomAnswers(p, s))

-----------------------------------------------------------------------------
(* Properties *)

Tapped(i) == decided[i].tap # 0

\* An intent settled from the room was settled by a tap of an owner on that very
\* intent, with that tap's answer.
OwnersSettle ==
    \A i \in Intent : Tapped(i) =>
        LET tap == room[decided[i].tap] IN
        tap.from \in Owners /\ tap.on = i /\ tap.answer = decided[i].answer

\* A tap is refused in the room at most once, by the one daemon that could have
\* acted on it, however many poll the room, however often they restart.
OneNotice ==
    /\ \A m, n \in DOMAIN notices : notices[m].on = notices[n].on => m = n
    /\ \A n \in DOMAIN notices : notices[n].by = HolderOf[room[notices[n].on].on]

\* "ignore historical messages on first pass": a tap that was in the room before
\* the daemon was started settles nothing.
HistoryIgnored ==
    [][\A i \in Intent : decided'[i] # decided[i] /\ decided'[i].tap # 0
           => decided'[i].tap > born[HolderOf[i]]]_vars

\* An owner's tap posted while its holder is primed settles the intent, unless
\* it leaves the window unseen or the holder dies.
Reachable(n) ==
    LET i == room[n].on
        p == HolderOf[i]
    IN  p \in primed /\ n > born[p] /\ n > Len(room) - Limit
TapLands ==
    \A n \in Index :
        (/\ n = Len(room) /\ room[n].from \in Owners
         /\ Reachable(n) /\ n \notin seen[HolderOf[room[n].on]])
            ~> n <= Len(room) /\ (decided[room[n].on] # NoDecision \/ ~Reachable(n))
=============================================================================
