---------------------------- MODULE ModelSelection ----------------------------
(***************************************************************************)
(* Choosing the model a fleet uses (src/src/model-selection.mjs): probe the *)
(* registry, offer what is usable, ask the owner, probe the answer again,   *)
(* write the selection file.  The picker (bin/model-picker.mjs) waits for   *)
(* its own answer and applies it in its own process.  The MCP tool          *)
(* request_model_choice only asks: its intent carries the kind "model", and *)
(* the daemon applies it on the tap, whether the tool still waits or not.   *)
(* Boxes come and go between every two steps.                               *)
(***************************************************************************)
EXTENDS Naturals, FiniteSets

CONSTANTS Entry, NoEntry,
          Asker, Picker,   \* those who ask; the pickers among them
          RequireChoice,   \* pickers run with --require-choice
          MaxEvents

SelectionAssumption ==
    /\ IsFiniteSet(Entry) /\ {NoEntry, "none", "open", "partial"} \cap Entry = {}
    /\ Picker \subseteq Asker /\ RequireChoice \subseteq Picker /\ MaxEvents \in Nat

VARIABLES box,       \* what each entry's server is like
          rows,      \* the entries of the registry file: good, malformed, or not there
          asker,     \* what each asker is doing
          offer,     \* the options it put to the owner
          intent,    \* its intent: not raised, open, or the answer
          apply,     \* where its applyChoice stands
          outcome,   \* what was reported of it
          file,      \* the selection file, and whose choice it is
          tmp,       \* the temporary file of each process
          lately,    \* history: entries that served since an asker's answer
          events
boxes == <<box, rows>>
asking == <<asker, offer, intent>>
applying == <<apply, outcome, file, tmp>>
selectionVars == <<boxes, asking, applying, lately, events>>

Box == {"serving", "busy", "locked", "nameless", "down", "unreachable"}
Partial == "partial"
Process == {"daemon"} \cup Picker
Runs(a) == IF a \in Picker THEN a ELSE "daemon"
\* What a file holds, and whose choice that is.
Content == [text : Entry \cup {NoEntry, Partial}, by : Asker \cup {NoEntry}]
Nothing == [text |-> NoEntry, by |-> NoEntry]

TypeOK ==
    /\ box \in [Entry -> Box] /\ rows \in [Entry -> {"good", "malformed", "none"}]
    /\ asker \in [Asker -> {"new", "asking", "done"}]
    /\ offer \in [Asker -> SUBSET Entry]
    /\ intent \in [Asker -> {"none", "open"} \cup Entry]
    /\ apply \in [Asker -> [at : {"none", "recheck", "open", "fill", "rename"},
                            entry : Entry \cup {NoEntry}]]
    /\ outcome \in [Asker -> {"none", "no-answer", "changed", "applied", "write-failed"}]
    /\ file \in Content
    /\ tmp \in [Process -> Content] /\ lately \in [Asker -> SUBSET Entry]
    /\ events \in 0..MaxEvents

Init ==
    /\ box \in [Entry -> {"serving"}] /\ rows = [e \in Entry |-> "good"]
    /\ asker = [a \in Asker |-> "new"] /\ offer = [a \in Asker |-> {}]
    /\ intent = [a \in Asker |-> "none"]
    /\ apply = [a \in Asker |-> [at |-> "none", entry |-> NoEntry]]
    /\ outcome = [a \in Asker |-> "none"]
    /\ file = Nothing
    /\ tmp = [p \in Process |-> Nothing] /\ lately = [a \in Asker |-> {}] /\ events = 0

-----------------------------------------------------------------------------
(* Probing *)

\* loadRegistry: one malformed row, or a file with no row, and the whole file is refused.
LoadRegistry ==
    IF \E e \in Entry : rows[e] = "malformed" THEN {} ELSE {e \in Entry : rows[e] = "good"}

\* resolveEntryToken: a configured key that cannot be read is no key; the GET goes without.
KeyBlocked(e) == box[e] = "locked"

\* probeHttp: the first GET of the model list decides; past its deadline it is no answer.
HttpRead(e) ==
    CASE box[e] = "unreachable" -> {"UNREACHABLE"}
      [] box[e] = "down" -> {"DOWN", "UNREACHABLE"}
      [] OTHER -> {"OK", "UNREACHABLE"}

\* probeCapacity, over ssh: too little memory or an exclusive job, or no reading at all.
CapacityRead(e) == {"unknown", IF box[e] = "busy" THEN "busy" ELSE "free"}

\* probeOne: the axes are read together, each with its own deadline.  HTTP decides between
\* down and up, and a capacity read that failed is no reason against.
ProbeOne(e) ==
    {IF http # "OK" THEN http ELSE IF capacity = "busy" THEN "BUSY" ELSE "UP" :
        http \in HttpRead(e), capacity \in CapacityRead(e)}

\* offerability: up, with a usable credential, and a model it names.
Offerable(e) == "UP" \in ProbeOne(e) /\ ~KeyBlocked(e) /\ box[e] # "nameless"
Serving == {e \in Entry : box[e] \in {"serving", "busy"}}

\* Boxes change, and the registry file is edited.
BoxBecomes(e, state) ==
    /\ events < MaxEvents /\ events' = events + 1
    /\ box[e] # state /\ box' = [box EXCEPT ![e] = state]
    /\ lately' = [a \in Asker |->
          IF state \in {"serving", "busy"} /\ apply[a].at # "none" THEN lately[a] \cup {e} ELSE lately[a]]
    /\ UNCHANGED <<rows, asking, applying>>

RowBecomes(e, row) ==
    /\ events < MaxEvents /\ events' = events + 1
    /\ rows[e] # row /\ rows' = [rows EXCEPT ![e] = row]
    /\ UNCHANGED <<box, asking, applying, lately>>

-----------------------------------------------------------------------------
(* Asking *)

StartApply(a, e) ==
    /\ apply' = [apply EXCEPT ![a] = [at |-> "recheck", entry |-> e]]
    /\ lately' = [lately EXCEPT ![a] = Serving]

Quits(a) ==
    /\ asker' = [asker EXCEPT ![a] = "done"]
    /\ outcome' = [outcome EXCEPT ![a] = "no-answer"]

\* Probe and offer.  No registry, nothing usable, or nothing to ask about ends it; a picker
\* with one usable entry applies it unasked, unless it is selected already.
Probe(a) ==
    /\ asker[a] = "new"
    /\ \E up \in SUBSET {e \in LoadRegistry : Offerable(e)} :
          /\ offer' = [offer EXCEPT ![a] = up]
          /\ \/ /\ \/ up = {}
                   \/ /\ a \in Picker /\ Cardinality(up) = 1
                      /\ a \in RequireChoice \/ up = {file.text}
                /\ Quits(a) /\ UNCHANGED <<intent, apply, lately>>
             \/ /\ a \in Picker \ RequireChoice /\ Cardinality(up) = 1 /\ up # {file.text}
                /\ asker' = [asker EXCEPT ![a] = "done"]
                /\ \E e \in up : StartApply(a, e)
                /\ UNCHANGED <<intent, outcome>>
             \/ /\ up # {} /\ (a \in Picker => Cardinality(up) > 1)
                /\ asker' = [asker EXCEPT ![a] = "asking"]
                /\ intent' = [intent EXCEPT ![a] = "open"]
                /\ UNCHANGED <<apply, lately, outcome>>
    /\ UNCHANGED <<boxes, file, tmp, events>>

\* The daemon is not there, or refuses; or its answer to POST /intent is lost, and the
\* intent is there although the asker says it is not.
RaiseFails(a) ==
    /\ asker[a] = "asking" /\ intent[a] = "open"
    /\ intent' \in {intent, [intent EXCEPT ![a] = "none"]}
    /\ Quits(a) /\ UNCHANGED <<boxes, offer, apply, file, tmp, lately, events>>

\* decideIntent: one of the options, once; the kind handler starts with it.
Decide(a, e) ==
    /\ intent[a] = "open" /\ e \in offer[a]
    /\ intent' = [intent EXCEPT ![a] = e]
    /\ IF a \in Picker THEN UNCHANGED <<apply, lately>> ELSE StartApply(a, e)
    /\ UNCHANGED <<boxes, asker, offer, outcome, file, tmp, events>>

\* The picker reads the decision on its next poll.
AnswerRead(a) ==
    /\ a \in Picker /\ asker[a] = "asking" /\ intent[a] \in offer[a]
    /\ asker' = [asker EXCEPT ![a] = "done"]
    /\ StartApply(a, intent[a])
    /\ UNCHANGED <<boxes, offer, intent, outcome, file, tmp, events>>

\* The deadline passes, even as the answer arrives.  A tap after it changes nothing for
\* a picker; the daemon applies it for a tool that has given up.
Deadline(a) ==
    /\ asker[a] = "asking"
    /\ IF a \in Picker THEN Quits(a)
       ELSE asker' = [asker EXCEPT ![a] = "done"] /\ UNCHANGED outcome
    /\ UNCHANGED <<boxes, offer, intent, apply, file, tmp, lately, events>>

-----------------------------------------------------------------------------
(* applyChoice *)

At(a, stage) == apply[a].at = stage
To(a, stage) == apply' = [apply EXCEPT ![a].at = stage]
Ends(a, how) == To(a, "none") /\ outcome' = [outcome EXCEPT ![a] = how]
Half(a) == [text |-> Partial, by |-> a]
Chosen(a) == [text |-> apply[a].entry, by |-> a]
Applying == UNCHANGED <<boxes, asking, lately, events>>

\* Mutant of Recheck: the reading of the offer is taken for the present one.
Recheck_Trusts(a) ==
    /\ At(a, "recheck") /\ To(a, "open")
    /\ Applying /\ UNCHANGED <<outcome, file, tmp>>

\* The chosen entry is probed again, alone, and any probe can time out.  The daemon reads
\* the registry anew, the picker keeps the one it had.
Recheck(a) ==
    /\ At(a, "recheck")
    /\ \/ /\ Offerable(apply[a].entry) /\ (a \in Picker \/ apply[a].entry \in LoadRegistry)
          /\ To(a, "open") /\ UNCHANGED outcome
       \/ Ends(a, "changed")
    /\ Applying /\ UNCHANGED <<file, tmp>>

\* writeFile truncates the temporary file of the process and then fills it.  Two
\* applies of the daemon share one.
OpenTmp(a) ==
    /\ At(a, "open") /\ To(a, "fill")
    /\ tmp' = [tmp EXCEPT ![Runs(a)] = Half(a)]
    /\ Applying /\ UNCHANGED <<outcome, file>>

\* Over another's text the result is of both; a file that was renamed meanwhile is
\* written where it is now.
FillTmp(a) ==
    /\ At(a, "fill") /\ To(a, "rename")
    /\ IF tmp[Runs(a)] = Nothing
       THEN file' = Chosen(a) /\ UNCHANGED tmp
       ELSE /\ tmp' = [tmp EXCEPT ![Runs(a)] = IF @.text = Partial THEN Chosen(a) ELSE Half(a)]
            /\ UNCHANGED file
    /\ Applying /\ UNCHANGED outcome

\* rename(2); if another apply has taken the file away it fails.
RenameTmp(a) ==
    /\ At(a, "rename")
    /\ IF tmp[Runs(a)] = Nothing THEN Ends(a, "write-failed") /\ UNCHANGED <<file, tmp>>
       ELSE /\ file' = tmp[Runs(a)]
            /\ tmp' = [tmp EXCEPT ![Runs(a)] = Nothing]
            /\ Ends(a, "applied")
    /\ Applying

WriteFails(a) ==
    /\ apply[a].at \in {"open", "fill"} /\ Ends(a, "write-failed")
    /\ Applying /\ UNCHANGED <<file, tmp>>

\* A process dies in the middle; its temporary file stays.
ProcessDies(p) ==
    /\ events < MaxEvents /\ events' = events + 1
    /\ \E a \in Asker : Runs(a) = p /\ apply[a].at # "none"
    /\ apply' = [a \in Asker |-> IF Runs(a) = p THEN [apply[a] EXCEPT !.at = "none"] ELSE apply[a]]
    /\ UNCHANGED <<boxes, asking, outcome, file, tmp, lately>>

-----------------------------------------------------------------------------
Next ==
    \/ \E e \in Entry, state \in Box : BoxBecomes(e, state)
    \/ \E e \in Entry, row \in {"good", "malformed", "none"} : RowBecomes(e, row)
    \/ \E a \in Asker :
          \/ Probe(a) \/ RaiseFails(a) \/ AnswerRead(a) \/ Deadline(a)
          \/ \E e \in Entry : Decide(a, e)
          \/ Recheck(a) \/ OpenTmp(a) \/ FillTmp(a) \/ RenameTmp(a) \/ WriteFails(a)
    \/ \E p \in Process : ProcessDies(p)
SelectionSpec == Init /\ [][Next]_selectionVars

-----------------------------------------------------------------------------
(* Properties *)

\* The file names a box only because it was offered, answered (or the only one), and
\* seen serving after the answer; a picker that said nobody answered wrote nothing.
AppliedChecked ==
    \A a \in Asker : file.by = a /\ file.text \in Entry =>
        /\ file.text \in offer[a] \cap lately[a]
        /\ file.text = intent[a] \/ offer[a] = {file.text}
        /\ a \in Picker => outcome[a] # "no-answer"
=============================================================================
