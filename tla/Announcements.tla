---------------------------- MODULE Announcements ----------------------------
(***************************************************************************)
(* Announcing one confirmation intent (src/src/confirmations.mjs): while   *)
(* createIntent awaits the announce hook, the fan-out of composeAnnouncers *)
(* posts a card to one channel after the other and records what became of  *)
(* it; afterwards createIntent marks whatever is still open 'unreported'.  *)
(* Every record is written to the state file as it is made, so a daemon    *)
(* that dies leaves exactly the records it had.                            *)
(*                                                                         *)
(* landed is the truth the records are about: the channels whose transport *)
(* accepted the card.                                                      *)
(***************************************************************************)
EXTENDS Naturals, Sequences, FiniteSets, Functions

CONSTANTS Channels,    \* the channels asked for, in order
          Configured   \* the channels the daemon has an announcer for

ChannelsAssumption ==
    /\ Channels \in Seq(Range(Channels))
    /\ \A m, n \in 1..Len(Channels) : Channels[m] = Channels[n] => m = n

VARIABLES phase,     \* "new", "announcing", "settled" or "interrupted"
          hook,      \* the announce hook: "composed", or a "bare" function
          next,      \* index of the next channel of the fan-out
          inFlight,  \* the fan-out awaits an announcer
          records,   \* intent.announcements: status of every recorded channel
          landed     \* channels whose transport accepted the card

vars == <<phase, hook, next, inFlight, records, landed>>

Asked == Range(Channels)
Settled == {"skipped", "posted", "unreported", "failed"}
Current == Channels[next]

TypeOK ==
    /\ phase \in {"new", "announcing", "settled", "interrupted"}
    /\ hook \in {"composed", "bare"}
    /\ next \in 1..Len(Channels) + 1
    /\ inFlight \in BOOLEAN /\ (inFlight => next <= Len(Channels))
    /\ \E asked \in SUBSET Asked : records \in [asked -> Settled \cup {"attempting"}]
    /\ landed \subseteq Asked

Init ==
    /\ phase = "new"
    /\ hook \in {"composed", "bare"}
    /\ next = 1
    /\ inFlight = FALSE
    /\ records = << >>
    /\ landed = {}

-----------------------------------------------------------------------------
(* announceStateOf: one word for all channels *)

\* Mutant of AnnounceStateOf: a post anywhere reads as a post everywhere.
AnnounceStateOf_AnyPost(a) ==
    LET has(s) == s \in Range(a) IN
    CASE a = << >>              -> "none"
      [] has("posted")          -> "posted"
      [] has("failed")          -> "failed"
      [] has("attempting")      -> "attempting"
      [] Range(a) = {"skipped"} -> "skipped"
      [] OTHER                  -> "unreported"

AnnounceStateOf(a) ==
    LET has(s) == s \in Range(a)
        only(s) == Range(a) = {s} IN
    CASE a = << >>                                    -> "none"
      [] only("posted")                               -> "posted"
      [] has("posted") /\ ~only("posted")             -> "partial"
      [] has("failed") /\ ~has("posted")              -> "failed"
      [] has("attempting") /\ ~has("posted") /\ ~has("failed") -> "attempting"
      [] only("skipped")                              -> "skipped"
      [] OTHER                                        -> "unreported"

-----------------------------------------------------------------------------
(* The announce step *)

Record(c, status) ==
    records' = [asked \in DOMAIN records \cup {c} |-> IF asked = c THEN status ELSE records[asked]]

CreateIntent ==
    /\ phase = "new"
    /\ phase' = "announcing"
    /\ UNCHANGED <<hook, next, inFlight, records, landed>>

\* composeAnnouncers takes the next channel: skipped when nothing is configured
\* for it, attempted otherwise.
TakeChannel ==
    /\ phase = "announcing" /\ hook = "composed"
    /\ ~inFlight /\ next <= Len(Channels)
    /\ \/ /\ Current \notin Configured
          /\ Record(Current, "skipped")
          /\ next' = next + 1
          /\ UNCHANGED inFlight
       \/ /\ Current \in Configured
          /\ Record(Current, "attempting")
          /\ inFlight' = TRUE
          /\ UNCHANGED next
    /\ UNCHANGED <<phase, hook, landed>>

\* The transport accepts a card some announcer sent.
TransportAccepts(c) ==
    /\ phase = "announcing" /\ c \notin landed
    /\ \/ inFlight /\ c = Current
       \/ hook = "bare" /\ c \notin DOMAIN records
    /\ landed' = landed \cup {c}
    /\ UNCHANGED <<phase, hook, next, inFlight, records>>

\* What the announcer of a channel can tell: that it lacks a key or an address and
\* sent nothing; that the channel answered 2xx; or an error, which may be an answer
\* lost after the channel accepted.
Told(c) == {"failed", IF c \in landed THEN "posted" ELSE "skipped"}

\* What the fan-out may record of its end; of an announcer that tells nothing it
\* can use, that it is unreported.
Evidence(c, status) == status \in Told(c) \cup {"unreported"}

AnnouncerEnds(status) ==
    /\ phase = "announcing" /\ inFlight
    /\ Evidence(Current, status)
    /\ Record(Current, status)
    /\ inFlight' = FALSE
    /\ next' = next + 1
    /\ UNCHANGED <<phase, hook, landed>>

\* A hook that is no fan-out may report a channel itself.
BareRecords(c, status) ==
    /\ phase = "announcing" /\ hook = "bare"
    /\ c \notin DOMAIN records
    /\ status \in Settled /\ Evidence(c, status)
    /\ Record(c, status)
    /\ UNCHANGED <<phase, hook, next, inFlight, landed>>

Open(c) == c \notin DOMAIN records \/ records[c] = "attempting"

\* Mutant of Reconciled: only channels that have a record are looked at.
Reconciled_Recorded ==
    [c \in DOMAIN records |-> IF Open(c) THEN "unreported" ELSE records[c]]

Reconciled == [c \in Asked |-> IF Open(c) THEN "unreported" ELSE records[c]]

\* The hook returned or threw: createIntent marks what is still open.  A fan-out
\* catches its announcers' errors and ends after the last channel.
HookEnds ==
    /\ phase = "announcing"
    /\ hook = "composed" => next > Len(Channels)
    /\ phase' = "settled"
    /\ records' = Reconciled
    /\ UNCHANGED <<hook, next, inFlight, landed>>

\* The daemon dies; a restart replays the records made so far and nobody
\* continues the announcement.
Crash ==
    /\ phase = "announcing"
    /\ phase' = "interrupted"
    /\ UNCHANGED <<hook, next, inFlight, records, landed>>

-----------------------------------------------------------------------------

Next ==
    \/ CreateIntent
    \/ TakeChannel
    \/ \E c \in Asked : TransportAccepts(c)
    \/ \E status \in Settled : AnnouncerEnds(status)
    \/ \E c \in Asked, status \in Settled : BareRecords(c, status)
    \/ HookEnds
    \/ Crash

\* What the daemon does on its own it does; a transport may hang for ever (the
\* announcers set no timeout).
Spec == Init /\ [][Next]_vars
             /\ WF_vars(CreateIntent) /\ WF_vars(TakeChannel) /\ WF_vars(HookEnds)

\* Every transport answers.
AnsweredSpec == Spec /\ WF_vars(\E status \in Settled : AnnouncerEnds(status))

-----------------------------------------------------------------------------
(* Properties *)

\* Once createIntent is done, the one-word state is not an in-between one, 'posted'
\* means that every channel asked for has the card, and 'skipped' that none has.
SummaryHonest ==
    phase = "settled" =>
        LET state == AnnounceStateOf(records) IN
        /\ state # "attempting"
        /\ state = "posted" => landed = Asked
        /\ state = "skipped" => landed = {}
        /\ state = "none" => Asked = {}

\* If every transport answers, every channel gets an outcome, unless the daemon
\* dies first.
EveryChannelReported ==
    phase = "announcing" ~> (phase = "interrupted" \/ DOMAIN records = Asked)
=============================================================================
