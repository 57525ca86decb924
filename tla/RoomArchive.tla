------------------------------ MODULE RoomArchive ------------------------------
(***************************************************************************)
(* src/src/room-archive.mjs: the local copy of a room's whole history. A    *)
(* sync walks the room backwards a page at a time, within a page budget:     *)
(* first the newest end, until a page overlaps what the archive held before  *)
(* this sync; then the gaps earlier syncs left, newest first; then, when     *)
(* asked, from the archive's oldest message towards the room's first. What   *)
(* is on disk is the set of archived messages and a small state file with    *)
(* the gaps still open: the messages below `before` and above `until`.       *)
(*                                                                         *)
(* A message is its place in the room, so its created_at is its number; the  *)
(* API is external and modelled as sync uses it: a page holds the newest     *)
(* PageSize messages strictly below `before`. A page append and a state save *)
(* are each one step, and a sync may end between any two of them: the        *)
(* process is killed, or the fetch throws (offline, time-out, refused).      *)
(***************************************************************************)
EXTENDS Integers, FiniteSets, FiniteSetsExt

CONSTANTS
    Caller,        \* those who run sync: the CLI and the MCP tools
    PageSize,      \* the messages of a full page, 100 in the code
    Budget,        \* the page budgets (maxPages) a sync is given
    MaxMessages,   \* bound on the room's messages
    MaxAborts      \* bound on the syncs that end half-way

ArchiveAssumption ==
    /\ PageSize \in Nat \ {0} /\ MaxMessages \in Nat \ {0} /\ MaxAborts \in Nat
    /\ Budget \subseteq Nat \ {0}

VARIABLES
    top,      \* the room's newest message, 0 when it is empty
    archive,  \* the messages of <room>.jsonl
    saved,    \* <room>.state.json: the gaps, and whose turn a budget of one is
    call,     \* the sync each caller is in
    aborts

vars == <<top, archive, saved, call, aborts>>

\* The value of `before` when the newest page is asked for, and the absent gap.
Newest == MaxMessages + 1
NoGap == 0

\* A sync at rest. n tells apart two gaps of the array with the same ends.
Resting ==
    [phase |-> "idle", step |-> "fetch", known |-> {}, held |-> {}, gaps |-> {}, healTurn |-> FALSE,
     pages |-> 0, budget |-> 0, newestBudget |-> 0, before |-> Newest, own |-> NoGap, healing |-> NoGap,
     page |-> {}, backfill |-> FALSE, reachedStart |-> FALSE]

Gaps == [n : Nat \ {0}, before : 1..Newest, until : 0..MaxMessages]

TypeOK ==
    /\ top \in 0..MaxMessages /\ aborts \in 0..MaxAborts
    /\ archive \subseteq 1..top
    /\ saved.gaps \subseteq Gaps /\ saved.healTurn \in BOOLEAN
    /\ \A c \in Caller :
          /\ call[c].phase \in {"idle", "newest", "heal", "backfill"}
          /\ call[c].step \in {"fetch", "append", "stored"}
          /\ call[c].gaps \subseteq Gaps
          /\ call[c].known \cup call[c].held \cup call[c].page \subseteq 1..top

Init ==
    /\ top \in 0..MaxMessages
    /\ archive = {}
    /\ saved = [gaps |-> {}, healTurn |-> FALSE]
    /\ call = [c \in Caller |-> Resting]
    /\ aborts = 0

\* What the API answers for before=b.
PageBelow(b) ==
    LET newest == IF b = Newest THEN top ELSE b - 1
    IN {m \in 1..newest : m > newest - PageSize}

Gap(s, n) == CHOOSE g \in s.gaps : g.n = n
Without(s, n) == {g \in s.gaps : g.n # n}
Short(page) == Cardinality(page) < PageSize

\* saveState: what a sync writes is its own copy of the state, whole.
SaveState(s) == saved' = [gaps |-> s.gaps, healTurn |-> s.healTurn]

\* With gaps pending one page of the budget is kept for healing; a budget of one alternates.
NewestBudget(state, b) ==
    IF state.gaps = {} THEN b
    ELSE IF b >= 2 THEN b - 1 ELSE IF state.healTurn THEN 0 ELSE 1

\* sync: the constructor has just loaded the archive.
Start(c, b, back) ==
    /\ call[c].phase = "idle"
    /\ call' = [call EXCEPT ![c] =
          [Resting EXCEPT !.phase = "newest", !.known = archive, !.held = archive, !.gaps = saved.gaps,
                          !.healTurn = IF saved.gaps # {} /\ b = 1 THEN ~saved.healTurn ELSE saved.healTurn,
                          !.budget = b, !.newestBudget = NewestBudget(saved, b), !.backfill = back]]
    /\ UNCHANGED <<top, archive, saved, aborts>>

\* A full page of unknown messages over a non-empty archive: there is a hole below it.
OpensGap(s, page) == page \cap s.known = {} /\ s.known # {} /\ ~Short(page)

\* The gap opened under the first fresh page; its lower end is fixed then.
WithGap(s, page) ==
    LET fresh == CHOOSE k \in 1..(Cardinality(s.gaps) + 1) : \A g \in s.gaps : g.n # k
    IN [s EXCEPT !.gaps = @ \cup {[n |-> fresh, before |-> Min(page), until |-> Max(s.known)]}, !.own = fresh]

\* Walk 1: a page of the newest end; the gap is on disk before the page is.
FetchNewest(c) ==
    LET s == call[c]
        page == PageBelow(s.before)
        t == [s EXCEPT !.pages = @ + 1, !.page = page, !.step = "append"]
        dropped == [s EXCEPT !.gaps = Without(s, s.own), !.own = NoGap, !.pages = @ + 1,
                             !.reachedStart = TRUE, !.phase = "heal"]
    IN /\ s.phase = "newest" /\ s.step = "fetch" /\ s.pages < s.newestBudget
       /\ \/ /\ page = {}
             /\ call' = [call EXCEPT ![c] = dropped]
             /\ IF s.own # NoGap THEN SaveState(dropped) ELSE UNCHANGED saved
          \/ /\ page # {} /\ OpensGap(s, page) /\ s.own = NoGap
             /\ call' = [call EXCEPT ![c] = WithGap(t, page)]
             /\ SaveState(WithGap(t, page))
          \/ /\ page # {} /\ ~(OpensGap(s, page) /\ s.own = NoGap)
             /\ call' = [call EXCEPT ![c] = t]
             /\ UNCHANGED saved
       /\ UNCHANGED <<top, archive, aborts>>

\* The rest of walk 1's turn: the gap is closed, or moved below the stored page.
StoredNewest(c) ==
    LET s == call[c]
        ends == Short(s.page) \/ s.page \cap s.known # {}
        moved == IF OpensGap(s, s.page)
                 THEN {IF g.n = s.own THEN [g EXCEPT !.before = Min(s.page)] ELSE g : g \in s.gaps}
                 ELSE s.gaps
        t == IF ends THEN [s EXCEPT !.gaps = Without(s, s.own), !.own = NoGap, !.phase = "heal", !.step = "fetch",
                                    !.reachedStart = Short(s.page), !.page = {}]
             ELSE [s EXCEPT !.gaps = moved, !.before = Min(s.page), !.step = "fetch", !.page = {}]
    IN /\ s.phase = "newest" /\ s.step = "stored"
       /\ call' = [call EXCEPT ![c] = t]
       /\ IF t.gaps # s.gaps THEN SaveState(t) ELSE UNCHANGED saved
       /\ UNCHANGED <<top, archive, aborts>>

\* Walk 2: the gap in hand, or the newest one this sync did not open itself.
Healed(s) ==
    IF s.healing # NoGap THEN s.healing
    ELSE (CHOOSE g \in Without(s, s.own) : \A h \in Without(s, s.own) : h.before <= g.before).n

FetchHeal(c) ==
    LET s == call[c]
        n == Healed(s)
        page == PageBelow(Gap(s, n).before)
        closed == [s EXCEPT !.gaps = Without(s, n), !.healing = NoGap, !.pages = @ + 1, !.reachedStart = TRUE]
    IN /\ s.phase = "heal" /\ s.step = "fetch" /\ s.pages < s.budget /\ Without(s, s.own) # {}
       /\ \/ /\ page = {}
             /\ call' = [call EXCEPT ![c] = closed]
             /\ SaveState(closed)
          \/ /\ page # {}
             /\ call' = [call EXCEPT ![c] = [s EXCEPT !.pages = @ + 1, !.page = page, !.step = "append",
                                                      !.healing = n]]
             /\ UNCHANGED saved
       /\ UNCHANGED <<top, archive, aborts>>

\* Healing stops by time: the page reached the block below the hole.
Closed_ById(s, g, page) == page \cap s.known # {} \/ Short(page)
Closed(s, g, page) == Min(page) <= g.until \/ Short(page)

StoredHeal(c) ==
    LET s == call[c]
        gap == Gap(s, s.healing)
        lower == [gap EXCEPT !.before = Min(s.page)]
        done == Closed(s, gap, s.page)
        t == [s EXCEPT !.gaps = IF done THEN Without(s, gap.n) ELSE Without(s, gap.n) \cup {lower},
                       !.healing = IF done THEN NoGap ELSE @, !.step = "fetch", !.page = {},
                       !.reachedStart = @ \/ (Min(s.page) > gap.until /\ Short(s.page))]
    IN /\ s.phase = "heal" /\ s.step = "stored"
       /\ call' = [call EXCEPT ![c] = t]
       /\ SaveState(t)
       /\ UNCHANGED <<top, archive, aborts>>

\* Walk 3: below the oldest message in memory; no state is kept for it.
FetchOlder(c) ==
    LET s == call[c]
        page == PageBelow(Min(s.held))
    IN /\ s.phase = "backfill" /\ s.step = "fetch" /\ s.backfill /\ ~s.reachedStart
       /\ s.held # {} /\ s.pages < s.budget
       /\ call' = [call EXCEPT ![c] =
             IF page = {} THEN [s EXCEPT !.pages = @ + 1, !.reachedStart = TRUE]
             ELSE [s EXCEPT !.pages = @ + 1, !.page = page, !.step = "append"]]
       /\ UNCHANGED <<top, archive, saved, aborts>>

StoredOlder(c) ==
    LET s == call[c]
    IN /\ s.phase = "backfill" /\ s.step = "stored"
       /\ call' = [call EXCEPT ![c] = [s EXCEPT !.step = "fetch", !.page = {}, !.reachedStart = Short(s.page)]]
       /\ UNCHANGED <<top, archive, saved, aborts>>

\* add: one append of the page's messages that are not archived yet.
Append(c) ==
    /\ call[c].step = "append"
    /\ archive' = archive \cup call[c].page
    /\ call' = [call EXCEPT ![c].held = @ \cup call[c].page, ![c].step = "stored"]
    /\ UNCHANGED <<top, saved, aborts>>

\* A walk is over, or the budget is; the last thing a sync does is to save its state.
NextWalk(c) ==
    LET s == call[c]
    IN /\ s.step = "fetch"
       /\ \/ /\ s.phase = "newest" /\ s.pages >= s.newestBudget
             /\ call' = [call EXCEPT ![c].phase = "heal"]
             /\ UNCHANGED saved
          \/ /\ s.phase = "heal" /\ (s.pages >= s.budget \/ Without(s, s.own) = {})
             /\ call' = [call EXCEPT ![c] = [s EXCEPT !.phase = "backfill", !.healing = NoGap]]
             /\ UNCHANGED saved
          \/ /\ s.phase = "backfill"
             /\ ~s.backfill \/ s.reachedStart \/ s.held = {} \/ s.pages >= s.budget
             /\ call' = [call EXCEPT ![c] = Resting]
             /\ SaveState(s)
       /\ UNCHANGED <<top, archive, aborts>>

\* The process is killed, or the fetch throws: what is on disk stays.
Abort(c) ==
    /\ call[c].phase # "idle" /\ aborts < MaxAborts
    /\ aborts' = aborts + 1
    /\ call' = [call EXCEPT ![c] = Resting]
    /\ UNCHANGED <<top, archive, saved>>

\* The room goes on.
Post ==
    /\ top < MaxMessages
    /\ top' = top + 1
    /\ UNCHANGED <<archive, saved, call, aborts>>

Work(c) ==
    \/ FetchNewest(c) \/ StoredNewest(c) \/ FetchHeal(c) \/ StoredHeal(c)
    \/ FetchOlder(c) \/ StoredOlder(c) \/ Append(c) \/ NextWalk(c)

Next ==
    \/ \E c \in Caller :
          Work(c) \/ Abort(c) \/ \E b \in Budget, back \in BOOLEAN : Start(c, b, back)
    \/ Post

Spec == Init /\ [][Next]_vars

-----------------------------------------------------------------------------
\* No hole of the archive is silent: whenever a message is missing between two archived ones, the
\* state file names a gap around it, whatever a spent budget, a kill or a failed fetch left behind.
NoSilentHole ==
    \A m \in 1..top \ archive :
        (\E low, high \in archive : low < m /\ m < high) => \E g \in saved.gaps : g.until < m /\ m < g.before
=============================================================================
