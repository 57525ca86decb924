------------------------------ MODULE AcpSessions ------------------------------
(***************************************************************************)
(* src/src/acp-sessions.mjs: ACP sessions, all in one JSON file. The webhook *)
(* server's POST /acp and the CLI's `acp` command are processes of their own *)
(* that read the file whole, change their copy and write it back whole. A    *)
(* write empties the file before it fills it: who reads in between, or after *)
(* a process died there, finds a file that does not parse and starts afresh; *)
(* so does who reads what two writes of different length left behind. The    *)
(* events that POST /acp queues about a session are not part of this.        *)
(***************************************************************************)
EXTENDS Naturals, FiniteSets

CONSTANTS
    Caller, Session,
    MaxSessions,   \* acp.max_concurrent_sessions
    MessageLimit,  \* acp.max_messages_per_session
    Timeout,       \* acp.session_timeout_sec, in ticks
    MaxDeaths      \* bound on the processes that die

AcpAssumption == {MaxSessions, MessageLimit, Timeout, MaxDeaths} \subseteq Nat

VARIABLES
    file,    \* the sessions in the file
    cut,     \* the file is empty or half written
    call,    \* the write each caller has before it: nothing, or its copy
    age,     \* the ticks since a session was created, by its created_at
    created, \* the sessions ever created
    late,    \* a session past its time-out took a message
    deaths

vars == <<file, cut, call, age, created, late, deaths>>

Blank == [status |-> "none", messages |-> 0]
NoFile == [s \in Session |-> Blank]
Done == [phase |-> "done", copy |-> NoFile]

TypeOK ==
    /\ file \in [Session -> [status : {"none", "active", "closed", "expired"}, messages : 0..MessageLimit]]
    /\ cut \in BOOLEAN /\ late \in BOOLEAN /\ created \subseteq Session
    /\ age \in [Session -> 0..(Timeout + 1)] /\ deaths \in 0..MaxDeaths
    /\ \A c \in Caller : call[c].phase \in {"done", "truncate", "fill", "refill"}

Init ==
    /\ file = NoFile /\ cut = FALSE
    /\ call = [c \in Caller |-> Done]
    /\ age = [s \in Session |-> 0] /\ created = {}
    /\ late = FALSE /\ deaths = 0

\* loadSessions: a file that does not parse is no sessions.
Loaded == IF cut THEN NoFile ELSE file

\* cleanExpired, by the age; what was closed stays closed.
CleanExpired_Kept(sessions) == sessions
CleanExpired(sessions) ==
    [s \in Session |-> IF sessions[s].status \in {"active", "expired"} /\ age[s] > Timeout
                       THEN [sessions[s] EXCEPT !.status = "expired"] ELSE sessions[s]]

Active(sessions) == {s \in Session : sessions[s].status = "active"}

Saves(c, sessions) == call' = [call EXCEPT ![c] = [phase |-> "truncate", copy |-> sessions]]

\* createSession, once the allow-lists are passed; a refusal changes nothing.
CreateSession(c, s) ==
    LET sessions == CleanExpired(Loaded)
    IN /\ call[c] = Done /\ s \notin created
       /\ Cardinality(Active(sessions)) < MaxSessions
       /\ Saves(c, [sessions EXCEPT ![s].status = "active"])
       /\ created' = created \cup {s}
       /\ UNCHANGED <<file, cut, age, late, deaths>>

SendToSession(c, s) ==
    LET sessions == CleanExpired(Loaded)
    IN /\ call[c] = Done
       /\ sessions[s].status = "active" /\ sessions[s].messages < MessageLimit
       /\ Saves(c, [sessions EXCEPT ![s].messages = @ + 1])
       /\ late' = (late \/ age[s] > Timeout)
       /\ UNCHANGED <<file, cut, age, created, deaths>>

\* closeSession takes the file as it is, and closes what has expired, too.
CloseSession(c, s) ==
    /\ call[c] = Done /\ Loaded[s].status # "none"
    /\ Saves(c, [Loaded EXCEPT ![s].status = "closed"])
    /\ UNCHANGED <<file, cut, age, created, late, deaths>>

ListSessions(c) ==
    /\ call[c] = Done
    /\ Saves(c, CleanExpired(Loaded))
    /\ UNCHANGED <<file, cut, age, created, late, deaths>>

\* saveSessions: one writeFileSync, which others see empty the file first. Of two that both emptied
\* it, the second to write may leave the end of the first one's text.
Truncate(c) ==
    /\ call[c].phase = "truncate"
    /\ cut' = TRUE
    /\ call' = [call EXCEPT ![c].phase = "fill"]
    /\ UNCHANGED <<file, age, created, late, deaths>>

Fill(c) ==
    /\ call[c].phase \in {"fill", "refill"}
    /\ file' = call[c].copy
    /\ cut' \in IF call[c].phase = "fill" THEN {FALSE} ELSE BOOLEAN
    /\ call' = [d \in Caller |-> IF d = c THEN Done
                                ELSE IF call[d].phase = "fill" THEN [call[d] EXCEPT !.phase = "refill"] ELSE call[d]]
    /\ UNCHANGED <<age, created, late, deaths>>

Dies(c) ==
    /\ call[c] # Done /\ deaths < MaxDeaths
    /\ call' = [call EXCEPT ![c] = Done]
    /\ deaths' = deaths + 1
    /\ UNCHANGED <<file, cut, age, created, late>>

Tick ==
    /\ \E s \in created : age[s] <= Timeout
    /\ age' = [s \in Session |-> IF s \in created /\ age[s] <= Timeout THEN age[s] + 1 ELSE age[s]]
    /\ UNCHANGED <<file, cut, call, created, late, deaths>>

Call(c) ==
    \/ \E s \in Session : CreateSession(c, s) \/ SendToSession(c, s) \/ CloseSession(c, s)
    \/ ListSessions(c)

Next ==
    \/ \E c \in Caller : Call(c) \/ Truncate(c) \/ Fill(c) \/ Dies(c)
    \/ Tick

Spec == Init /\ [][Next]_vars

-----------------------------------------------------------------------------
\* "Timeout enforcement" and "Max concurrent session limits" whatever two processes overwrite of
\* each other: the file never holds more active sessions than the limit, and a session past its
\* time-out takes no message even when a stale copy has made it active again.
LimitsHold == Cardinality(Active(file)) <= MaxSessions /\ ~late
=============================================================================
