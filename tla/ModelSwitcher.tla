----------------------------- MODULE ModelSwitcher -----------------------------
(***************************************************************************)
(* The switch bridge of a device card (packages/user-intent-kit/src/        *)
(* model-switcher.js): every 15 s it reads the one switch request the       *)
(* intent server keeps for the device and passes it to the local chooser.   *)
(* HTTP cannot promise exactly-once, so the claim is on disk before the     *)
(* POST, the POST is never repeated, and an uncertain one is settled by     *)
(* looking at what the chooser runs.  Server and chooser are external; the  *)
(* daemon can die at any step, a save can fail before or after its rename,  *)
(* and a response can be lost before or after the request took effect.      *)
(***************************************************************************)
EXTENDS Naturals, FiniteSets

CONSTANTS Request, NoRequest, Name, NoModel,
          Wanted,     \* the model a request asks for
          MaxMishaps

SwitcherAssumption ==
    /\ NoRequest \notin Request /\ NoModel \notin Name
    /\ Wanted \in [Request -> Name] /\ MaxMishaps \in Nat

VARIABLES slot,     \* the server's request for this device
          ledger,   \* the state file
          book,     \* its copy in memory, once it has been read
          step,     \* what poll() does next
          req,      \* the request it works on
          verdict,  \* the terminal status it is about to save and report
          chooser,  \* what the chooser runs, and whether it is ready
          posts,    \* history: switches dispatched to the chooser
          shown,    \* history: filed requests whose model has been ready since
          told,     \* history: requests reported as interrupted before dispatch
          filed, aged, overdue, \* requests filed; for 10 minutes; claimed for 15
          mishaps
server == <<slot, filed, aged>>
daemon == <<ledger, book, step, req, verdict, told, overdue>>
switchVars == <<server, daemon, chooser, posts, shown, mishaps>>

Status == {"pending", "running", "done", "failed", "expired"}
Ended == {"done", "failed", "expired"}
Entry == {"none", "claimed", "dispatched"} \cup Ended
Unread == [r \in Request |-> "unread"]

TypeOK ==
    /\ slot \in [id : Request \cup {NoRequest}, status : Status]
    /\ ledger \in [Request -> Entry] /\ book \in [Request -> Entry] \cup {Unread}
    /\ step \in {"idle", "catalog", "claim", "announce", "mark", "post", "reconcile",
                 "save", "report"}
    /\ req \in Request /\ verdict \in Ended
    /\ chooser \in [running : Name \cup {NoModel}, state : {"ready", "loading", "down"}]
    /\ posts \in [Request -> 0..2] /\ mishaps \in 0..MaxMishaps
    /\ {filed, aged, overdue, shown, told} \subseteq SUBSET Request

Init ==
    /\ slot = [id |-> NoRequest, status |-> "failed"]
    /\ ledger = [r \in Request |-> "none"] /\ book = Unread
    /\ step = "idle" /\ req = (CHOOSE r \in Request : TRUE) /\ verdict = "failed"
    /\ chooser = [running |-> NoModel, state |-> "down"]
    /\ posts = [r \in Request |-> 0] /\ shown = {} /\ told = {}
    /\ filed = {} /\ aged = {} /\ overdue = {} /\ mishaps = 0

Serves(c, r) == c.state = "ready" /\ c.running = Wanted[r]
Mishap == mishaps < MaxMishaps /\ mishaps' = mishaps + 1
Open(r) == slot.id = r /\ slot.status \notin Ended

-----------------------------------------------------------------------------
(* Server, chooser and clock *)

\* A new request takes the place of the one before, settled or not.
FileRequest(r) ==
    /\ r \notin filed
    /\ slot' = [id |-> r, status |-> "pending"] /\ filed' = filed \cup {r}
    /\ shown' = IF Serves(chooser, r) THEN shown \cup {r} ELSE shown
    /\ UNCHANGED <<daemon, chooser, posts, aged, mishaps>>

ServerExpires ==
    /\ slot.status = "pending" /\ slot.id \in aged
    /\ slot' = [slot EXCEPT !.status = "expired"]
    /\ UNCHANGED <<daemon, chooser, posts, shown, filed, aged, mishaps>>

Ages(r) ==
    /\ r \in filed \ aged /\ aged' = aged \cup {r}
    /\ UNCHANGED <<daemon, chooser, posts, shown, slot, filed, mishaps>>

GetsOverdue(r) ==
    /\ r \notin overdue /\ ledger[r] # "none"
    /\ overdue' = overdue \cup {r}
    /\ UNCHANGED <<server, ledger, book, step, req, verdict, told, chooser, posts, shown, mishaps>>

ChooserBecomes(c) ==
    /\ chooser' = c
    /\ shown' = shown \cup {r \in filed : Serves(c, r)}

ChooserReady ==
    /\ chooser.state = "loading" /\ ChooserBecomes([chooser EXCEPT !.state = "ready"])
    /\ UNCHANGED <<server, daemon, posts, mishaps>>

ChooserFails ==
    /\ chooser.state # "down" /\ Mishap
    /\ ChooserBecomes([running |-> NoModel, state |-> "down"])
    /\ UNCHANGED <<server, daemon, posts>>

\* Somebody at the machine picks a model.
OthersChoose(n) ==
    /\ Mishap /\ ChooserBecomes([running |-> n, state |-> "loading"])
    /\ UNCHANGED <<server, daemon, posts>>

-----------------------------------------------------------------------------
(* poll(): one at a time (#busy) *)

Goes(to) == step' = to
Poll == UNCHANGED <<chooser, shown, filed, aged, overdue>>
Finish(status) == step' = "save" /\ verdict' = status

\* getModelSwitch, and what its answer and the record call for.
Fetch ==
    LET read == IF book = Unread THEN ledger ELSE book
        record == read[slot.id]
    IN
    /\ step = "idle" /\ slot.id # NoRequest
    /\ book' = read /\ req' = slot.id
    /\ \/ /\ slot.status \in {"done", "failed"} \/ (slot.status = "expired" /\ record = "expired")
          /\ UNCHANGED <<step, verdict, told>>
       \/ /\ slot.status \notin {"done", "failed"} /\ record \in Ended
          /\ ~(slot.status = "expired" /\ record = "expired")
          /\ Goes("report") /\ verdict' = record /\ UNCHANGED told
       \/ /\ record = "none" /\ slot.status = "pending" /\ slot.id \notin aged
          /\ Goes("catalog") /\ UNCHANGED <<verdict, told>>
       \/ /\ record = "none"
          /\ slot.status = "expired" \/ (slot.status = "pending" /\ slot.id \in aged)
          /\ Finish("expired") /\ UNCHANGED told
       \/ /\ record \in {"claimed", "dispatched"} /\ slot.status = "pending"
          /\ Finish("failed") /\ told' = told \cup {slot.id}
       \/ /\ record \in {"claimed", "dispatched"} /\ slot.status = "running"
          /\ Goes("reconcile") /\ UNCHANGED <<verdict, told>>
       \/ /\ record \in {"claimed", "dispatched"} /\ slot.status = "expired"
          /\ UNCHANGED <<step, verdict, told>>
    /\ Poll /\ UNCHANGED <<slot, ledger, posts, mishaps>>

\* The chooser's own catalogue decides, not the list the server was sent.
ReadCatalog ==
    /\ step = "catalog"
    /\ \/ Finish("failed")
       \/ /\ Serves(chooser, req) /\ Finish("done")
       \/ /\ ~Serves(chooser, req) /\ Goes("claim") /\ UNCHANGED verdict
    /\ Poll /\ UNCHANGED <<slot, ledger, book, req, told, posts, mishaps>>

\* #save: memory follows the file.
Save(entry, next) ==
    /\ ledger' = [ledger EXCEPT ![req] = entry]
    /\ book' = [book EXCEPT ![req] = entry]
    /\ Goes(next)
    /\ Poll /\ UNCHANGED <<slot, req, verdict, told, posts, mishaps>>

Claim == step = "claim" /\ Save("claimed", "announce")
\* Mutant of Mark: the POST goes out before the claim is marked as dispatched.
Mark_Unsaved == step = "mark" /\ Goes("post")
    /\ Poll /\ UNCHANGED <<slot, ledger, book, req, verdict, told, posts, mishaps>>
Mark == step = "mark" /\ Save("dispatched", "post")
SaveVerdict == step = "save" /\ Save(verdict, "report")

\* It fails before or after the rename; memory keeps the old record either way.
SaveFails ==
    /\ step \in {"claim", "mark", "save"} /\ Mishap
    /\ \E entry \in {ledger[req], CASE step = "claim" -> "claimed"
                                    [] step = "mark" -> "dispatched"
                                    [] OTHER -> verdict} :
          ledger' = [ledger EXCEPT ![req] = entry]
    /\ Goes("idle")
    /\ Poll /\ UNCHANGED <<slot, book, req, verdict, told, posts>>

\* reportModelSwitch: the server takes it while the request is its current one and open.
Patched(status) == IF Open(req) THEN [slot EXCEPT !.status = status] ELSE slot

Announce ==
    /\ step = "announce" /\ Open(req)
    /\ slot' = Patched("running") /\ Goes("mark")
    /\ Poll /\ UNCHANGED <<ledger, book, req, verdict, told, posts, mishaps>>

Report ==
    /\ step = "report"
    /\ slot' = Patched(verdict) /\ Goes("idle")
    /\ Poll /\ UNCHANGED <<ledger, book, req, verdict, told, posts, mishaps>>

\* The PATCH is refused, or lost on the way there or back.
Patching == IF step = "announce" THEN "running" ELSE verdict
PatchFails ==
    /\ step \in {"announce", "report"}
    /\ \/ ~Open(req) /\ UNCHANGED <<slot, mishaps>>
       \/ Mishap /\ slot' \in {slot, Patched(Patching)}
    /\ Goes("idle")
    /\ Poll /\ UNCHANGED <<ledger, book, req, verdict, told, posts>>

\* POST /api/model is taken; its answer is read, or lost, and then not asked for again.
Dispatch ==
    /\ step = "post"
    /\ posts' = [posts EXCEPT ![req] = @ + 1]
    /\ ChooserBecomes([running |-> Wanted[req], state |-> "loading"])
    /\ Goes("idle")
    /\ UNCHANGED <<slot, ledger, book, req, verdict, told, filed, aged, overdue, mishaps>>

\* The chooser answers that it will not.
DispatchRefused ==
    /\ step = "post" /\ Finish("failed")
    /\ Poll /\ UNCHANGED <<slot, ledger, book, req, told, posts, mishaps>>

\* The POST never arrives: uncertain, and treated as the one that did.
DispatchLost ==
    /\ step = "post" /\ Mishap /\ Goes("idle")
    /\ Poll /\ UNCHANGED <<slot, ledger, book, req, verdict, told, posts>>

\* Mutant of Reconcile: it waits for the model without a deadline.
Reconcile_NoDeadline ==
    /\ step = "reconcile"
    /\ IF Serves(chooser, req) THEN Finish("done") ELSE Goes("idle") /\ UNCHANGED verdict
    /\ Poll /\ UNCHANGED <<slot, ledger, book, req, told, posts, mishaps>>

\* A chooser that cannot be read is waited for until the deadline too.
Reconcile ==
    /\ step = "reconcile"
    /\ IF Serves(chooser, req) THEN Finish("done")
       ELSE IF req \in overdue THEN Finish("failed")
       ELSE Goes("idle") /\ UNCHANGED verdict
    /\ Poll /\ UNCHANGED <<slot, ledger, book, req, told, posts, mishaps>>

\* The GET of a registry fails: no new switch; an old one only if it is overdue.
RegistryFails ==
    /\ step \in {"catalog", "reconcile"} /\ Mishap
    /\ IF step = "reconcile" /\ req \in overdue THEN Finish("failed")
       ELSE Goes("idle") /\ UNCHANGED verdict
    /\ Poll /\ UNCHANGED <<slot, ledger, book, req, told, posts>>

DaemonDies ==
    /\ book # Unread /\ Mishap
    /\ Goes("idle") /\ book' = Unread
    /\ Poll /\ UNCHANGED <<slot, ledger, req, verdict, told, posts>>

-----------------------------------------------------------------------------
PollStep ==
    \/ Fetch \/ ReadCatalog \/ Claim \/ Announce \/ Mark \/ Dispatch \/ DispatchRefused
    \/ Reconcile \/ SaveVerdict \/ Report \/ PatchFails

Next ==
    \/ \E r \in Request : FileRequest(r) \/ Ages(r) \/ GetsOverdue(r)
    \/ ServerExpires
    \/ ChooserReady \/ ChooserFails \/ \E n \in Name : OthersChoose(n)
    \/ PollStep
    \/ SaveFails \/ DispatchLost \/ RegistryFails \/ DaemonDies

\* The timer polls, and the clock goes on.
Fairness ==
    /\ WF_switchVars(PollStep)
    /\ \A r \in Request : WF_switchVars(GetsOverdue(r))
SwitcherSpec == Init /\ [][Next]_switchVars /\ Fairness

-----------------------------------------------------------------------------
(* Properties *)

\* Whatever is lost, fails or dies: a request is dispatched at most once and only
\* under a claim that is already on disk; one reported as interrupted before its
\* dispatch was not dispatched; one reported done had its model ready.
NeverReplayed ==
    \A r \in Request :
        /\ posts[r] <= 1
        /\ posts[r] = 1 => ledger[r] \notin {"none", "claimed"}
        /\ r \in told => posts[r] = 0
        /\ ledger[r] = "done" => r \in shown

\* A request the server holds open is settled, unless another takes its place.
RequestSettles == \A r \in Request : Open(r) ~> ~Open(r)
=============================================================================
