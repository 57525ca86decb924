----------------------------- MODULE Machine_proofs -----------------------------
(***************************************************************************)
(* Proofs about the parts that manage a machine's models and its owner's    *)
(* decisions, for any requests, models, entries, items, hosts and files, and *)
(* any number of mishaps.                                                   *)
(***************************************************************************)
EXTENDS Parts, FiniteSetTheorems, TLAPS

-----------------------------------------------------------------------------
(* The switch bridge: packages/user-intent-kit/src/model-switcher.js *)

\* A behaviour of the parts is one of the switcher, which moves or stands still.
LEMMA SwitcherPart == PartsSpec => Switcher!Init /\ [][Switcher!Next]_(Switcher!switchVars)
<1>1. PartsInit => Switcher!Init
  BY DEF PartsInit
<1>2. [PartsNext]_partsVars => [Switcher!Next]_(Switcher!switchVars)
  BY DEF PartsNext, partsVars, machineVars, switchVars, Switcher!switchVars, Switcher!server, Switcher!daemon
<1>3. QED
  BY <1>1, <1>2, PTL DEF PartsSpec

SwitchTyped ==
    /\ slot \in [id : SwitchRequest \cup {NoRequest}, status : Switcher!Status]
    /\ switchLedger \in [SwitchRequest -> Switcher!Entry]
    /\ book = Switcher!Unread \/ book \in [SwitchRequest -> Switcher!Entry]
    /\ step \in {"idle", "catalog", "claim", "announce", "mark", "post", "reconcile", "save", "report"}
    /\ verdict \in Switcher!Ended /\ posts \in [SwitchRequest -> Nat]
    /\ filed \subseteq SwitchRequest /\ reached \subseteq SwitchRequest /\ told \subseteq SwitchRequest
    /\ slot.id # NoRequest => slot.id \in filed
    /\ step # "idle" => req \in filed /\ book \in [SwitchRequest -> Switcher!Entry]

\* A request that was dispatched is one that the ledger, and its copy once it is read,
\* has as dispatched or ended, and that the server holds as pending no more.
Sent == {"dispatched"} \cup Switcher!Ended
Pends(r) == slot.id = r /\ slot.status = "pending"
DispatchRecorded ==
    \A r \in SwitchRequest : posts[r] = 0 \/
        /\ posts[r] = 1 /\ r \in filed /\ ~Pends(r)
        /\ switchLedger[r] \in Sent /\ (book = Switcher!Unread \/ book[r] \in Sent)

\* A request that was reported as interrupted has a record, and was not dispatched.
InterruptedRecorded ==
    \A r \in told : /\ posts[r] = 0 /\ r \in filed
                    /\ switchLedger[r] # "none" /\ (book = Switcher!Unread \/ book[r] # "none")

\* The file is not behind its copy; what it has as done was reached, as was every filed
\* request that the chooser serves.
LedgerTrue ==
    /\ book = Switcher!Unread \/ \A r \in SwitchRequest : book[r] # "none" => switchLedger[r] # "none"
    /\ \A r \in SwitchRequest : switchLedger[r] = "done" => r \in reached
    /\ \A r \in filed : Switcher!Serves(chooser, r) => r \in reached

\* Before the dispatch: the claim was announced and marked, in the file first.
Underway ==
    /\ step \in {"catalog", "claim"} => book[req] = "none"
    /\ step \in {"announce", "mark"} => book[req] = "claimed" /\ switchLedger[req] = "claimed"
    /\ step = "post" => book[req] = "dispatched" /\ switchLedger[req] = "dispatched"
    /\ step \in {"catalog", "claim", "announce", "mark", "post"} => posts[req] = 0 /\ req \notin told
    /\ step \in {"mark", "post"} => ~Pends(req)
    /\ step = "save" /\ verdict = "done" => req \in reached

SwitchInv == SwitchTyped /\ DispatchRecorded /\ InterruptedRecorded /\ LedgerTrue /\ Underway

LEMMA SwitchStep == SwitchInv /\ [Switcher!Next]_(Switcher!switchVars) => SwitchInv'
<1> SUFFICES ASSUME SwitchInv, [Switcher!Next]_(Switcher!switchVars) PROVE SwitchInv'
  OBVIOUS
<1> USE MachineAssumptions DEF SwitchInv, Switcher!SwitcherAssumption, Switcher!Status, Switcher!Ended,
        Switcher!Entry, Switcher!Unread, Sent, Pends
<1>1. ASSUME NEW r \in SwitchRequest, Switcher!FileRequest(r) PROVE SwitchInv'
  <2> USE <1>1 DEF Switcher!FileRequest, Switcher!Goes, Switcher!Poll, Switcher!Finish, Switcher!Mishap,
          Switcher!daemon, Switcher!server, Switcher!Save, Switcher!Open, Switcher!Patched, Switcher!Patching,
          Switcher!ChooserBecomes, Switcher!Serves
  <2>1. SwitchTyped'
    BY DEF SwitchTyped, DispatchRecorded, InterruptedRecorded, LedgerTrue, Underway
  <2>2. DispatchRecorded'
    BY DEF SwitchTyped, DispatchRecorded, InterruptedRecorded, LedgerTrue, Underway
  <2>3. InterruptedRecorded'
    BY DEF SwitchTyped, DispatchRecorded, InterruptedRecorded, LedgerTrue, Underway
  <2>4. LedgerTrue'
    BY DEF SwitchTyped, DispatchRecorded, InterruptedRecorded, LedgerTrue, Underway
  <2>5. Underway'
    BY DEF SwitchTyped, DispatchRecorded, InterruptedRecorded, LedgerTrue, Underway
  <2>6. QED
    BY <2>1, <2>2, <2>3, <2>4, <2>5
<1>2. ASSUME NEW r \in SwitchRequest, Switcher!Ages(r) PROVE SwitchInv'
  <2> USE <1>2 DEF Switcher!Ages, Switcher!Goes, Switcher!Poll, Switcher!Finish, Switcher!Mishap,
          Switcher!daemon, Switcher!server, Switcher!Save, Switcher!Open, Switcher!Patched, Switcher!Patching,
          Switcher!ChooserBecomes, Switcher!Serves
  <2>1. SwitchTyped'
    BY DEF SwitchTyped, DispatchRecorded, InterruptedRecorded, LedgerTrue, Underway
  <2>2. DispatchRecorded'
    BY DEF SwitchTyped, DispatchRecorded, InterruptedRecorded, LedgerTrue, Underway
  <2>3. InterruptedRecorded'
    BY DEF SwitchTyped, DispatchRecorded, InterruptedRecorded, LedgerTrue, Underway
  <2>4. LedgerTrue'
    BY DEF SwitchTyped, DispatchRecorded, InterruptedRecorded, LedgerTrue, Underway
  <2>5. Underway'
    BY DEF SwitchTyped, DispatchRecorded, InterruptedRecorded, LedgerTrue, Underway
  <2>6. QED
    BY <2>1, <2>2, <2>3, <2>4, <2>5
<1>3. ASSUME NEW r \in SwitchRequest, Switcher!GetsOverdue(r) PROVE SwitchInv'
  <2> USE <1>3 DEF Switcher!GetsOverdue, Switcher!Goes, Switcher!Poll, Switcher!Finish, Switcher!Mishap,
          Switcher!daemon, Switcher!server, Switcher!Save, Switcher!Open, Switcher!Patched, Switcher!Patching,
          Switcher!ChooserBecomes, Switcher!Serves
  <2>1. SwitchTyped'
    BY DEF SwitchTyped, DispatchRecorded, InterruptedRecorded, LedgerTrue, Underway
  <2>2. DispatchRecorded'
    BY DEF SwitchTyped, DispatchRecorded, InterruptedRecorded, LedgerTrue, Underway
  <2>3. InterruptedRecorded'
    BY DEF SwitchTyped, DispatchRecorded, InterruptedRecorded, LedgerTrue, Underway
  <2>4. LedgerTrue'
    BY DEF SwitchTyped, DispatchRecorded, InterruptedRecorded, LedgerTrue, Underway
  <2>5. Underway'
    BY DEF SwitchTyped, DispatchRecorded, InterruptedRecorded, LedgerTrue, Underway
  <2>6. QED
    BY <2>1, <2>2, <2>3, <2>4, <2>5
<1>4. CASE Switcher!ServerExpires
  <2> USE <1>4 DEF Switcher!ServerExpires, Switcher!Goes, Switcher!Poll, Switcher!Finish, Switcher!Mishap,
          Switcher!daemon, Switcher!server, Switcher!Save, Switcher!Open, Switcher!Patched, Switcher!Patching,
          Switcher!ChooserBecomes, Switcher!Serves
  <2>1. SwitchTyped'
    BY DEF SwitchTyped, DispatchRecorded, InterruptedRecorded, LedgerTrue, Underway
  <2>2. DispatchRecorded'
    BY DEF SwitchTyped, DispatchRecorded, InterruptedRecorded, LedgerTrue, Underway
  <2>3. InterruptedRecorded'
    BY DEF SwitchTyped, DispatchRecorded, InterruptedRecorded, LedgerTrue, Underway
  <2>4. LedgerTrue'
    BY DEF SwitchTyped, DispatchRecorded, InterruptedRecorded, LedgerTrue, Underway
  <2>5. Underway'
    BY DEF SwitchTyped, DispatchRecorded, InterruptedRecorded, LedgerTrue, Underway
  <2>6. QED
    BY <2>1, <2>2, <2>3, <2>4, <2>5
<1>5. CASE Switcher!ChooserReady
  <2> USE <1>5 DEF Switcher!ChooserReady, Switcher!Goes, Switcher!Poll, Switcher!Finish, Switcher!Mishap,
          Switcher!daemon, Switcher!server, Switcher!Save, Switcher!Open, Switcher!Patched, Switcher!Patching,
          Switcher!ChooserBecomes, Switcher!Serves
  <2>1. SwitchTyped'
    BY DEF SwitchTyped, DispatchRecorded, InterruptedRecorded, LedgerTrue, Underway
  <2>2. DispatchRecorded'
    BY DEF SwitchTyped, DispatchRecorded, InterruptedRecorded, LedgerTrue, Underway
  <2>3. InterruptedRecorded'
    BY DEF SwitchTyped, DispatchRecorded, InterruptedRecorded, LedgerTrue, Underway
  <2>4. LedgerTrue'
    BY DEF SwitchTyped, DispatchRecorded, InterruptedRecorded, LedgerTrue, Underway
  <2>5. Underway'
    BY DEF SwitchTyped, DispatchRecorded, InterruptedRecorded, LedgerTrue, Underway
  <2>6. QED
    BY <2>1, <2>2, <2>3, <2>4, <2>5
<1>6. CASE Switcher!ChooserFails
  <2> USE <1>6 DEF Switcher!ChooserFails, Switcher!Goes, Switcher!Poll, Switcher!Finish, Switcher!Mishap,
          Switcher!daemon, Switcher!server, Switcher!Save, Switcher!Open, Switcher!Patched, Switcher!Patching,
          Switcher!ChooserBecomes, Switcher!Serves
  <2>1. SwitchTyped'
    BY DEF SwitchTyped, DispatchRecorded, InterruptedRecorded, LedgerTrue, Underway
  <2>2. DispatchRecorded'
    BY DEF SwitchTyped, DispatchRecorded, InterruptedRecorded, LedgerTrue, Underway
  <2>3. InterruptedRecorded'
    BY DEF SwitchTyped, DispatchRecorded, InterruptedRecorded, LedgerTrue, Underway
  <2>4. LedgerTrue'
    BY DEF SwitchTyped, DispatchRecorded, InterruptedRecorded, LedgerTrue, Underway
  <2>5. Underway'
    BY DEF SwitchTyped, DispatchRecorded, InterruptedRecorded, LedgerTrue, Underway
  <2>6. QED
    BY <2>1, <2>2, <2>3, <2>4, <2>5
<1>7. ASSUME NEW n \in ModelName, Switcher!OthersChoose(n) PROVE SwitchInv'
  <2> USE <1>7 DEF Switcher!OthersChoose, Switcher!Goes, Switcher!Poll, Switcher!Finish, Switcher!Mishap,
          Switcher!daemon, Switcher!server, Switcher!Save, Switcher!Open, Switcher!Patched, Switcher!Patching,
          Switcher!ChooserBecomes, Switcher!Serves
  <2>1. SwitchTyped'
    BY DEF SwitchTyped, DispatchRecorded, InterruptedRecorded, LedgerTrue, Underway
  <2>2. DispatchRecorded'
    BY DEF SwitchTyped, DispatchRecorded, InterruptedRecorded, LedgerTrue, Underway
  <2>3. InterruptedRecorded'
    BY DEF SwitchTyped, DispatchRecorded, InterruptedRecorded, LedgerTrue, Underway
  <2>4. LedgerTrue'
    BY DEF SwitchTyped, DispatchRecorded, InterruptedRecorded, LedgerTrue, Underway
  <2>5. Underway'
    BY DEF SwitchTyped, DispatchRecorded, InterruptedRecorded, LedgerTrue, Underway
  <2>6. QED
    BY <2>1, <2>2, <2>3, <2>4, <2>5
<1>8. CASE Switcher!Fetch
  <2> USE <1>8 DEF Switcher!Fetch, Switcher!Goes, Switcher!Poll, Switcher!Finish, Switcher!Mishap,
          Switcher!daemon, Switcher!server, Switcher!Save, Switcher!Open, Switcher!Patched, Switcher!Patching,
          Switcher!ChooserBecomes, Switcher!Serves
  <2>1. SwitchTyped'
    BY DEF SwitchTyped, DispatchRecorded, InterruptedRecorded, LedgerTrue, Underway
  <2>2. DispatchRecorded'
    BY DEF SwitchTyped, DispatchRecorded, InterruptedRecorded, LedgerTrue, Underway
  <2>3. InterruptedRecorded'
    BY DEF SwitchTyped, DispatchRecorded, InterruptedRecorded, LedgerTrue, Underway
  <2>4. LedgerTrue'
    BY DEF SwitchTyped, DispatchRecorded, InterruptedRecorded, LedgerTrue, Underway
  <2>5. Underway'
    BY DEF SwitchTyped, DispatchRecorded, InterruptedRecorded, LedgerTrue, Underway
  <2>6. QED
    BY <2>1, <2>2, <2>3, <2>4, <2>5
<1>9. CASE Switcher!ReadCatalog
  <2> USE <1>9 DEF Switcher!ReadCatalog, Switcher!Goes, Switcher!Poll, Switcher!Finish, Switcher!Mishap,
          Switcher!daemon, Switcher!server, Switcher!Save, Switcher!Open, Switcher!Patched, Switcher!Patching,
          Switcher!ChooserBecomes, Switcher!Serves
  <2>1. SwitchTyped'
    BY DEF SwitchTyped, DispatchRecorded, InterruptedRecorded, LedgerTrue, Underway
  <2>2. DispatchRecorded'
    BY DEF SwitchTyped, DispatchRecorded, InterruptedRecorded, LedgerTrue, Underway
  <2>3. InterruptedRecorded'
    BY DEF SwitchTyped, DispatchRecorded, InterruptedRecorded, LedgerTrue, Underway
  <2>4. LedgerTrue'
    BY DEF SwitchTyped, DispatchRecorded, InterruptedRecorded, LedgerTrue, Underway
  <2>5. Underway'
    BY DEF SwitchTyped, DispatchRecorded, InterruptedRecorded, LedgerTrue, Underway
  <2>6. QED
    BY <2>1, <2>2, <2>3, <2>4, <2>5
<1>10. CASE Switcher!Claim
  <2> USE <1>10 DEF Switcher!Claim, Switcher!Goes, Switcher!Poll, Switcher!Finish, Switcher!Mishap,
          Switcher!daemon, Switcher!server, Switcher!Save, Switcher!Open, Switcher!Patched, Switcher!Patching,
          Switcher!ChooserBecomes, Switcher!Serves
  <2>1. SwitchTyped'
    BY DEF SwitchTyped, DispatchRecorded, InterruptedRecorded, LedgerTrue, Underway
  <2>2. DispatchRecorded'
    BY DEF SwitchTyped, DispatchRecorded, InterruptedRecorded, LedgerTrue, Underway
  <2>3. InterruptedRecorded'
    BY DEF SwitchTyped, DispatchRecorded, InterruptedRecorded, LedgerTrue, Underway
  <2>4. LedgerTrue'
    BY DEF SwitchTyped, DispatchRecorded, InterruptedRecorded, LedgerTrue, Underway
  <2>5. Underway'
    BY DEF SwitchTyped, DispatchRecorded, InterruptedRecorded, LedgerTrue, Underway
  <2>6. QED
    BY <2>1, <2>2, <2>3, <2>4, <2>5
<1>11. CASE Switcher!Announce
  <2> USE <1>11 DEF Switcher!Announce, Switcher!Goes, Switcher!Poll, Switcher!Finish, Switcher!Mishap,
          Switcher!daemon, Switcher!server, Switcher!Save, Switcher!Open, Switcher!Patched, Switcher!Patching,
          Switcher!ChooserBecomes, Switcher!Serves
  <2>1. SwitchTyped'
    BY DEF SwitchTyped, DispatchRecorded, InterruptedRecorded, LedgerTrue, Underway
  <2>2. DispatchRecorded'
    BY DEF SwitchTyped, DispatchRecorded, InterruptedRecorded, LedgerTrue, Underway
  <2>3. InterruptedRecorded'
    BY DEF SwitchTyped, DispatchRecorded, InterruptedRecorded, LedgerTrue, Underway
  <2>4. LedgerTrue'
    BY DEF SwitchTyped, DispatchRecorded, InterruptedRecorded, LedgerTrue, Underway
  <2>5. Underway'
    BY DEF SwitchTyped, DispatchRecorded, InterruptedRecorded, LedgerTrue, Underway
  <2>6. QED
    BY <2>1, <2>2, <2>3, <2>4, <2>5
<1>12. CASE Switcher!Mark
  <2> USE <1>12 DEF Switcher!Mark, Switcher!Goes, Switcher!Poll, Switcher!Finish, Switcher!Mishap,
          Switcher!daemon, Switcher!server, Switcher!Save, Switcher!Open, Switcher!Patched, Switcher!Patching,
          Switcher!ChooserBecomes, Switcher!Serves
  <2>1. SwitchTyped'
    BY DEF SwitchTyped, DispatchRecorded, InterruptedRecorded, LedgerTrue, Underway
  <2>2. DispatchRecorded'
    BY DEF SwitchTyped, DispatchRecorded, InterruptedRecorded, LedgerTrue, Underway
  <2>3. InterruptedRecorded'
    BY DEF SwitchTyped, DispatchRecorded, InterruptedRecorded, LedgerTrue, Underway
  <2>4. LedgerTrue'
    BY DEF SwitchTyped, DispatchRecorded, InterruptedRecorded, LedgerTrue, Underway
  <2>5. Underway'
    BY DEF SwitchTyped, DispatchRecorded, InterruptedRecorded, LedgerTrue, Underway
  <2>6. QED
    BY <2>1, <2>2, <2>3, <2>4, <2>5
<1>13. CASE Switcher!Dispatch
  <2> USE <1>13 DEF Switcher!Dispatch, Switcher!Goes, Switcher!Poll, Switcher!Finish, Switcher!Mishap,
          Switcher!daemon, Switcher!server, Switcher!Save, Switcher!Open, Switcher!Patched, Switcher!Patching,
          Switcher!ChooserBecomes, Switcher!Serves
  <2>1. SwitchTyped'
    BY DEF SwitchTyped, DispatchRecorded, InterruptedRecorded, LedgerTrue, Underway
  <2>2. DispatchRecorded'
    BY DEF SwitchTyped, DispatchRecorded, InterruptedRecorded, LedgerTrue, Underway
  <2>3. InterruptedRecorded'
    BY DEF SwitchTyped, DispatchRecorded, InterruptedRecorded, LedgerTrue, Underway
  <2>4. LedgerTrue'
    BY DEF SwitchTyped, DispatchRecorded, InterruptedRecorded, LedgerTrue, Underway
  <2>5. Underway'
    BY DEF SwitchTyped, DispatchRecorded, InterruptedRecorded, LedgerTrue, Underway
  <2>6. QED
    BY <2>1, <2>2, <2>3, <2>4, <2>5
<1>14. CASE Switcher!DispatchRefused
  <2> USE <1>14 DEF Switcher!DispatchRefused, Switcher!Goes, Switcher!Poll, Switcher!Finish, Switcher!Mishap,
          Switcher!daemon, Switcher!server, Switcher!Save, Switcher!Open, Switcher!Patched, Switcher!Patching,
          Switcher!ChooserBecomes, Switcher!Serves
  <2>1. SwitchTyped'
    BY DEF SwitchTyped, DispatchRecorded, InterruptedRecorded, LedgerTrue, Underway
  <2>2. DispatchRecorded'
    BY DEF SwitchTyped, DispatchRecorded, InterruptedRecorded, LedgerTrue, Underway
  <2>3. InterruptedRecorded'
    BY DEF SwitchTyped, DispatchRecorded, InterruptedRecorded, LedgerTrue, Underway
  <2>4. LedgerTrue'
    BY DEF SwitchTyped, DispatchRecorded, InterruptedRecorded, LedgerTrue, Underway
  <2>5. Underway'
    BY DEF SwitchTyped, DispatchRecorded, InterruptedRecorded, LedgerTrue, Underway
  <2>6. QED
    BY <2>1, <2>2, <2>3, <2>4, <2>5
<1>15. CASE Switcher!Reconcile
  <2> USE <1>15 DEF Switcher!Reconcile, Switcher!Goes, Switcher!Poll, Switcher!Finish, Switcher!Mishap,
          Switcher!daemon, Switcher!server, Switcher!Save, Switcher!Open, Switcher!Patched, Switcher!Patching,
          Switcher!ChooserBecomes, Switcher!Serves
  <2>1. SwitchTyped'
    BY DEF SwitchTyped, DispatchRecorded, InterruptedRecorded, LedgerTrue, Underway
  <2>2. DispatchRecorded'
    BY DEF SwitchTyped, DispatchRecorded, InterruptedRecorded, LedgerTrue, Underway
  <2>3. InterruptedRecorded'
    BY DEF SwitchTyped, DispatchRecorded, InterruptedRecorded, LedgerTrue, Underway
  <2>4. LedgerTrue'
    BY DEF SwitchTyped, DispatchRecorded, InterruptedRecorded, LedgerTrue, Underway
  <2>5. Underway'
    BY DEF SwitchTyped, DispatchRecorded, InterruptedRecorded, LedgerTrue, Underway
  <2>6. QED
    BY <2>1, <2>2, <2>3, <2>4, <2>5
<1>16. CASE Switcher!SaveVerdict
  <2> USE <1>16 DEF Switcher!SaveVerdict, Switcher!Goes, Switcher!Poll, Switcher!Finish, Switcher!Mishap,
          Switcher!daemon, Switcher!server, Switcher!Save, Switcher!Open, Switcher!Patched, Switcher!Patching,
          Switcher!ChooserBecomes, Switcher!Serves
  <2>1. SwitchTyped'
    BY DEF SwitchTyped, DispatchRecorded, InterruptedRecorded, LedgerTrue, Underway
  <2>2. DispatchRecorded'
    BY DEF SwitchTyped, DispatchRecorded, InterruptedRecorded, LedgerTrue, Underway
  <2>3. InterruptedRecorded'
    BY DEF SwitchTyped, DispatchRecorded, InterruptedRecorded, LedgerTrue, Underway
  <2>4. LedgerTrue'
    BY DEF SwitchTyped, DispatchRecorded, InterruptedRecorded, LedgerTrue, Underway
  <2>5. Underway'
    BY DEF SwitchTyped, DispatchRecorded, InterruptedRecorded, LedgerTrue, Underway
  <2>6. QED
    BY <2>1, <2>2, <2>3, <2>4, <2>5
<1>17. CASE Switcher!Report
  <2> USE <1>17 DEF Switcher!Report, Switcher!Goes, Switcher!Poll, Switcher!Finish, Switcher!Mishap,
          Switcher!daemon, Switcher!server, Switcher!Save, Switcher!Open, Switcher!Patched, Switcher!Patching,
          Switcher!ChooserBecomes, Switcher!Serves
  <2>1. SwitchTyped'
    BY DEF SwitchTyped, DispatchRecorded, InterruptedRecorded, LedgerTrue, Underway
  <2>2. DispatchRecorded'
    BY DEF SwitchTyped, DispatchRecorded, InterruptedRecorded, LedgerTrue, Underway
  <2>3. InterruptedRecorded'
    BY DEF SwitchTyped, DispatchRecorded, InterruptedRecorded, LedgerTrue, Underway
  <2>4. LedgerTrue'
    BY DEF SwitchTyped, DispatchRecorded, InterruptedRecorded, LedgerTrue, Underway
  <2>5. Underway'
    BY DEF SwitchTyped, DispatchRecorded, InterruptedRecorded, LedgerTrue, Underway
  <2>6. QED
    BY <2>1, <2>2, <2>3, <2>4, <2>5
<1>18. CASE Switcher!PatchFails
  <2> USE <1>18 DEF Switcher!PatchFails, Switcher!Goes, Switcher!Poll, Switcher!Finish, Switcher!Mishap,
          Switcher!daemon, Switcher!server, Switcher!Save, Switcher!Open, Switcher!Patched, Switcher!Patching,
          Switcher!ChooserBecomes, Switcher!Serves
  <2>1. SwitchTyped'
    BY DEF SwitchTyped, DispatchRecorded, InterruptedRecorded, LedgerTrue, Underway
  <2>2. DispatchRecorded'
    BY DEF SwitchTyped, DispatchRecorded, InterruptedRecorded, LedgerTrue, Underway
  <2>3. InterruptedRecorded'
    BY DEF SwitchTyped, DispatchRecorded, InterruptedRecorded, LedgerTrue, Underway
  <2>4. LedgerTrue'
    BY DEF SwitchTyped, DispatchRecorded, InterruptedRecorded, LedgerTrue, Underway
  <2>5. Underway'
    BY DEF SwitchTyped, DispatchRecorded, InterruptedRecorded, LedgerTrue, Underway
  <2>6. QED
    BY <2>1, <2>2, <2>3, <2>4, <2>5
<1>19. CASE Switcher!SaveFails
  <2> USE <1>19 DEF Switcher!SaveFails, Switcher!Goes, Switcher!Poll, Switcher!Finish, Switcher!Mishap,
          Switcher!daemon, Switcher!server, Switcher!Save, Switcher!Open, Switcher!Patched, Switcher!Patching,
          Switcher!ChooserBecomes, Switcher!Serves
  <2>1. SwitchTyped'
    BY DEF SwitchTyped, DispatchRecorded, InterruptedRecorded, LedgerTrue, Underway
  <2>2. DispatchRecorded'
    BY DEF SwitchTyped, DispatchRecorded, InterruptedRecorded, LedgerTrue, Underway
  <2>3. InterruptedRecorded'
    BY DEF SwitchTyped, DispatchRecorded, InterruptedRecorded, LedgerTrue, Underway
  <2>4. LedgerTrue'
    BY DEF SwitchTyped, DispatchRecorded, InterruptedRecorded, LedgerTrue, Underway
  <2>5. Underway'
    BY DEF SwitchTyped, DispatchRecorded, InterruptedRecorded, LedgerTrue, Underway
  <2>6. QED
    BY <2>1, <2>2, <2>3, <2>4, <2>5
<1>20. CASE Switcher!DispatchLost
  <2> USE <1>20 DEF Switcher!DispatchLost, Switcher!Goes, Switcher!Poll, Switcher!Finish, Switcher!Mishap,
          Switcher!daemon, Switcher!server, Switcher!Save, Switcher!Open, Switcher!Patched, Switcher!Patching,
          Switcher!ChooserBecomes, Switcher!Serves
  <2>1. SwitchTyped'
    BY DEF SwitchTyped, DispatchRecorded, InterruptedRecorded, LedgerTrue, Underway
  <2>2. DispatchRecorded'
    BY DEF SwitchTyped, DispatchRecorded, InterruptedRecorded, LedgerTrue, Underway
  <2>3. InterruptedRecorded'
    BY DEF SwitchTyped, DispatchRecorded, InterruptedRecorded, LedgerTrue, Underway
  <2>4. LedgerTrue'
    BY DEF SwitchTyped, DispatchRecorded, InterruptedRecorded, LedgerTrue, Underway
  <2>5. Underway'
    BY DEF SwitchTyped, DispatchRecorded, InterruptedRecorded, LedgerTrue, Underway
  <2>6. QED
    BY <2>1, <2>2, <2>3, <2>4, <2>5
<1>21. CASE Switcher!RegistryFails
  <2> USE <1>21 DEF Switcher!RegistryFails, Switcher!Goes, Switcher!Poll, Switcher!Finish, Switcher!Mishap,
          Switcher!daemon, Switcher!server, Switcher!Save, Switcher!Open, Switcher!Patched, Switcher!Patching,
          Switcher!ChooserBecomes, Switcher!Serves
  <2>1. SwitchTyped'
    BY DEF SwitchTyped, DispatchRecorded, InterruptedRecorded, LedgerTrue, Underway
  <2>2. DispatchRecorded'
    BY DEF SwitchTyped, DispatchRecorded, InterruptedRecorded, LedgerTrue, Underway
  <2>3. InterruptedRecorded'
    BY DEF SwitchTyped, DispatchRecorded, InterruptedRecorded, LedgerTrue, Underway
  <2>4. LedgerTrue'
    BY DEF SwitchTyped, DispatchRecorded, InterruptedRecorded, LedgerTrue, Underway
  <2>5. Underway'
    BY DEF SwitchTyped, DispatchRecorded, InterruptedRecorded, LedgerTrue, Underway
  <2>6. QED
    BY <2>1, <2>2, <2>3, <2>4, <2>5
<1>22. CASE Switcher!DaemonDies
  <2> USE <1>22 DEF Switcher!DaemonDies, Switcher!Goes, Switcher!Poll, Switcher!Finish, Switcher!Mishap,
          Switcher!daemon, Switcher!server, Switcher!Save, Switcher!Open, Switcher!Patched, Switcher!Patching,
          Switcher!ChooserBecomes, Switcher!Serves
  <2>1. SwitchTyped'
    BY DEF SwitchTyped, DispatchRecorded, InterruptedRecorded, LedgerTrue, Underway
  <2>2. DispatchRecorded'
    BY DEF SwitchTyped, DispatchRecorded, InterruptedRecorded, LedgerTrue, Underway
  <2>3. InterruptedRecorded'
    BY DEF SwitchTyped, DispatchRecorded, InterruptedRecorded, LedgerTrue, Underway
  <2>4. LedgerTrue'
    BY DEF SwitchTyped, DispatchRecorded, InterruptedRecorded, LedgerTrue, Underway
  <2>5. Underway'
    BY DEF SwitchTyped, DispatchRecorded, InterruptedRecorded, LedgerTrue, Underway
  <2>6. QED
    BY <2>1, <2>2, <2>3, <2>4, <2>5
<1>23. CASE UNCHANGED Switcher!switchVars
  BY <1>23 DEF Switcher!switchVars, Switcher!daemon, Switcher!server, SwitchTyped, DispatchRecorded,
     InterruptedRecorded, LedgerTrue, Underway, Switcher!Serves
<1>24. QED
  BY <1>1, <1>2, <1>3, <1>4, <1>5, <1>6, <1>7, <1>8, <1>9, <1>10, <1>11, <1>12, <1>13, <1>14, <1>15, <1>16, <1>17, <1>18, <1>19, <1>20, <1>21, <1>22, <1>23 DEF Switcher!Next, Switcher!PollStep

\* packages/user-intent-kit/src/model-switcher.js: whatever is lost, fails or dies, a
\* request is dispatched at most once and only under a claim that is on disk, one
\* reported as interrupted was not dispatched, and one reported done was reached.
THEOREM SwitchedOnce == PartsSpec => []NeverReplayed
<1>1. Switcher!Init => SwitchInv
  <2> SUFFICES ASSUME Switcher!Init PROVE SwitchInv
    OBVIOUS
  <2> USE MachineAssumptions DEF Switcher!SwitcherAssumption, Switcher!Init
  <2>1. SwitchTyped
    BY DEF SwitchTyped, Switcher!Status, Switcher!Entry, Switcher!Ended
  <2>2. DispatchRecorded /\ InterruptedRecorded /\ LedgerTrue /\ Underway
    BY DEF DispatchRecorded, InterruptedRecorded, LedgerTrue, Underway
  <2>3. QED
    BY <2>1, <2>2 DEF SwitchInv
<1>2. SwitchInv => NeverReplayed
  BY DEF SwitchInv, SwitchTyped, DispatchRecorded, InterruptedRecorded, LedgerTrue, Sent, Switcher!Ended,
     NeverReplayed, Switcher!NeverReplayed
<1>3. QED
  BY <1>1, <1>2, SwitchStep, SwitcherPart, PTL

-----------------------------------------------------------------------------
(* The pending watcher: bin/iak-pending.mjs *)

LEMMA PendingPart == PartsSpec => Pending!PendingSpec
<1>1. PartsInit => Pending!Init
  BY DEF PartsInit
<1>2. [PartsNext]_partsVars => [Pending!Next]_(Pending!pendingVars)
  BY DEF PartsNext, partsVars, machineVars, pendingVars, Pending!pendingVars, Pending!runVars
<1>3. QED
  BY <1>1, <1>2, PTL DEF PartsSpec, Pending!PendingSpec

IsListed(i) == listed[i] <= MaxLevel

PendingTyped ==
    /\ waiting \subseteq PendingItem /\ age \in [PendingItem -> 0..MaxLevel]
    /\ stage \in {"idle", "asking", "ledger", "post", "rollback"}
    /\ listed \in [PendingItem -> 0..(MaxLevel + 1)]
    /\ news \subseteq PendingItem /\ missed \subseteq PendingItem

\* What was pending when the run began and is not listed yet is on a host that has not
\* been asked, or could not be; the exit code is of the hosts asked and the items listed.
ClearSound ==
    /\ missed \subseteq waiting
    /\ \A i \in missed : HostOf[i] \in asked => HostOf[i] \in silent
    /\ stage \in {"ledger", "post", "rollback"} =>
          /\ asked = Host
          /\ code \in {"none", "pending"} => missed = {}
          /\ code = "none" => \A i \in PendingItem : ~IsListed(i)

\* An escalation that was announced stays behind the item's age, and the ledger has it,
\* as has the ledger the run has read, unless the item is gone for good; what the ledger
\* records, but for what is about to be posted, was announced; what is about to be posted
\* was not.
EscalationSound(i, l) ==
    LET once == said[<<i, l>>] = 1
        running == stage \in {"asking", "ledger"}
        posting == stage \in {"post", "rollback"}
    IN /\ said[<<i, l>>] \in {0, 1}
       /\ once => age[i] >= l
       /\ once /\ running /\ IsListed(i) => listed[i] >= l
       /\ once /\ running /\ ~IsListed(i) /\ HostOf[i] \in asked \ silent => i \notin waiting
       /\ once => ledger[i] >= l \/ (i \notin waiting /\ (running => ~IsListed(i)))
       /\ ledger[i] = l /\ ~(posting /\ i \in news) => once
       /\ posting /\ i \in news =>
             /\ loaded[i] = l => once
             /\ once => loaded[i] >= l /\ listed[i] # l

\* Unless the ledger was lost, which excuses all.
LedgerSound ==
    /\ {ledger, loaded} \subseteq [PendingItem -> 0..MaxLevel]
    /\ said \in [PendingItem \X (1..MaxLevel) -> Nat]
    /\ stage = "ledger" => loaded = ledger
    /\ \A i \in PendingItem :
          /\ ledger[i] <= age[i]
          /\ IsListed(i) => listed[i] <= age[i]
          /\ stage \in {"asking", "ledger"} /\ IsListed(i) => listed[i] >= ledger[i]
          /\ stage \in {"post", "rollback"} /\ i \in news =>
                IsListed(i) /\ listed[i] > loaded[i] /\ ledger[i] = listed[i]
    /\ \A i \in PendingItem, l \in 1..MaxLevel : <<i, l>> \notin excused => EscalationSound(i, l)
AllExcused == PendingItem \X (1..MaxLevel) \subseteq excused

PendingInv == PendingTyped /\ ClearSound /\ (AllExcused \/ LedgerSound)

LEMMA PendingStep == PendingInv /\ [Pending!Next]_(Pending!pendingVars) => PendingInv'
<1> SUFFICES ASSUME PendingInv, [Pending!Next]_(Pending!pendingVars) PROVE PendingInv'
  OBVIOUS
<1> USE MachineAssumptions DEF PendingInv, Pending!PendingAssumption, Pending!runVars, Pending!Mishap, Pending!Level, IsListed
<1>1. ASSUME NEW i \in PendingItem, Pending!Raised(i) PROVE PendingInv'
  <2> USE <1>1 DEF Pending!Raised, Pending!NotListed, Pending!Listed, Pending!ExitCode, Pending!Stale, Pending!Before,
          Pending!NextLedger, Pending!News, Pending!Announced, Pending!NewsLevels, Pending!Lost
  <2>1. PendingTyped'
    BY DEF PendingTyped
  <2>2. ClearSound'
    BY DEF PendingTyped, ClearSound
  <2>3. AllExcused => AllExcused'
    BY DEF AllExcused
  <2>4. ASSUME LedgerSound PROVE LedgerSound'
    <3>1. /\ {ledger', loaded'} \subseteq [PendingItem -> 0..MaxLevel] /\ said' \in [PendingItem \X (1..MaxLevel) -> Nat]
          /\ stage' = "ledger" => loaded' = ledger'
      BY <2>4 DEF PendingTyped, LedgerSound
    <3>2. ASSUME NEW j \in PendingItem
          PROVE  /\ ledger'[j] <= age'[j]
                 /\ IsListed(j)' => listed'[j] <= age'[j]
                 /\ stage' \in {"asking", "ledger"} /\ IsListed(j)' => listed'[j] >= ledger'[j]
                 /\ stage' \in {"post", "rollback"} /\ j \in news' =>
                       IsListed(j)' /\ listed'[j] > loaded'[j] /\ ledger'[j] = listed'[j]
      BY <2>4 DEF PendingTyped, LedgerSound
    <3>3. ASSUME NEW j \in PendingItem, NEW l \in 1..MaxLevel, <<j, l>> \notin excused'
          PROVE  EscalationSound(j, l)'
      <4>1. EscalationSound(j, l) /\ <<j, l>> \notin excused
        BY <2>4, <3>3 DEF LedgerSound
      <4>2. QED
        BY <2>4, <3>3, <4>1 DEF PendingTyped, LedgerSound, EscalationSound
    <3>4. QED
      BY <3>1, <3>2, <3>3 DEF LedgerSound
  <2>5. QED
    BY <2>1, <2>2, <2>3, <2>4
<1>2. ASSUME NEW i \in PendingItem, Pending!Decided(i) PROVE PendingInv'
  <2> USE <1>2 DEF Pending!Decided, Pending!NotListed, Pending!Listed, Pending!ExitCode, Pending!Stale, Pending!Before,
          Pending!NextLedger, Pending!News, Pending!Announced, Pending!NewsLevels, Pending!Lost
  <2>1. PendingTyped'
    BY DEF PendingTyped
  <2>2. ClearSound'
    BY DEF PendingTyped, ClearSound
  <2>3. AllExcused => AllExcused'
    BY DEF AllExcused
  <2>4. ASSUME LedgerSound PROVE LedgerSound'
    <3>1. /\ {ledger', loaded'} \subseteq [PendingItem -> 0..MaxLevel] /\ said' \in [PendingItem \X (1..MaxLevel) -> Nat]
          /\ stage' = "ledger" => loaded' = ledger'
      BY <2>4 DEF PendingTyped, LedgerSound
    <3>2. ASSUME NEW j \in PendingItem
          PROVE  /\ ledger'[j] <= age'[j]
                 /\ IsListed(j)' => listed'[j] <= age'[j]
                 /\ stage' \in {"asking", "ledger"} /\ IsListed(j)' => listed'[j] >= ledger'[j]
                 /\ stage' \in {"post", "rollback"} /\ j \in news' =>
                       IsListed(j)' /\ listed'[j] > loaded'[j] /\ ledger'[j] = listed'[j]
      <4>1. age'[j] \in 0..MaxLevel /\ age[j] \in 0..MaxLevel /\ age'[j] >= age[j]
        BY DEF PendingTyped
      <4>2. ledger[j] \in 0..MaxLevel /\ listed[j] \in 0..(MaxLevel + 1)
        BY <2>4 DEF PendingTyped, LedgerSound
      <4>3. UNCHANGED <<stage, listed, news, loaded, ledger>>
        OBVIOUS
      <4>4. QED
        BY <2>4, <4>1, <4>2, <4>3 DEF LedgerSound
    <3>3. ASSUME NEW j \in PendingItem, NEW l \in 1..MaxLevel, <<j, l>> \notin excused'
          PROVE  EscalationSound(j, l)'
      <4>1. EscalationSound(j, l) /\ <<j, l>> \notin excused
        BY <2>4, <3>3 DEF LedgerSound
      <4>2. QED
        BY <2>4, <3>3, <4>1 DEF PendingTyped, LedgerSound, EscalationSound
    <3>4. QED
      BY <3>1, <3>2, <3>3 DEF LedgerSound
  <2>5. QED
    BY <2>1, <2>2, <2>3, <2>4
<1>3. ASSUME NEW i \in PendingItem, Pending!Ages(i) PROVE PendingInv'
  <2> USE <1>3 DEF Pending!Ages, Pending!NotListed, Pending!Listed, Pending!ExitCode, Pending!Stale, Pending!Before,
          Pending!NextLedger, Pending!News, Pending!Announced, Pending!NewsLevels, Pending!Lost
  <2>1. PendingTyped'
    BY DEF PendingTyped
  <2>2. ClearSound'
    BY DEF PendingTyped, ClearSound
  <2>3. AllExcused => AllExcused'
    BY DEF AllExcused
  <2>4. ASSUME LedgerSound PROVE LedgerSound'
    <3>1. /\ {ledger', loaded'} \subseteq [PendingItem -> 0..MaxLevel] /\ said' \in [PendingItem \X (1..MaxLevel) -> Nat]
          /\ stage' = "ledger" => loaded' = ledger'
      BY <2>4 DEF PendingTyped, LedgerSound
    <3>2. ASSUME NEW j \in PendingItem
          PROVE  /\ ledger'[j] <= age'[j]
                 /\ IsListed(j)' => listed'[j] <= age'[j]
                 /\ stage' \in {"asking", "ledger"} /\ IsListed(j)' => listed'[j] >= ledger'[j]
                 /\ stage' \in {"post", "rollback"} /\ j \in news' =>
                       IsListed(j)' /\ listed'[j] > loaded'[j] /\ ledger'[j] = listed'[j]
      <4>1. age'[j] \in 0..MaxLevel /\ age[j] \in 0..MaxLevel /\ age'[j] >= age[j]
        BY DEF PendingTyped
      <4>2. ledger[j] \in 0..MaxLevel /\ listed[j] \in 0..(MaxLevel + 1)
        BY <2>4 DEF PendingTyped, LedgerSound
      <4>3. UNCHANGED <<stage, listed, news, loaded, ledger>>
        OBVIOUS
      <4>4. QED
        BY <2>4, <4>1, <4>2, <4>3 DEF LedgerSound
    <3>3. ASSUME NEW j \in PendingItem, NEW l \in 1..MaxLevel, <<j, l>> \notin excused'
          PROVE  EscalationSound(j, l)'
      <4>1. EscalationSound(j, l) /\ <<j, l>> \notin excused
        BY <2>4, <3>3 DEF LedgerSound
      <4>2. QED
        BY <2>4, <3>3, <4>1 DEF PendingTyped, LedgerSound, EscalationSound
    <3>4. QED
      BY <3>1, <3>2, <3>3 DEF LedgerSound
  <2>5. QED
    BY <2>1, <2>2, <2>3, <2>4
<1>4. ASSUME NEW h \in Host, Pending!Ask(h) PROVE PendingInv'
  <2> USE <1>4 DEF Pending!Ask, Pending!NotListed, Pending!Listed, Pending!ExitCode, Pending!Stale, Pending!Before,
          Pending!NextLedger, Pending!News, Pending!Announced, Pending!NewsLevels, Pending!Lost
  <2>1. PendingTyped'
    BY DEF PendingTyped
  <2>2. ClearSound'
    BY DEF PendingTyped, ClearSound
  <2>3. AllExcused => AllExcused'
    BY DEF AllExcused
  <2>4. ASSUME LedgerSound PROVE LedgerSound'
    <3>1. /\ {ledger', loaded'} \subseteq [PendingItem -> 0..MaxLevel] /\ said' \in [PendingItem \X (1..MaxLevel) -> Nat]
          /\ stage' = "ledger" => loaded' = ledger'
      BY <2>4 DEF PendingTyped, LedgerSound
    <3>2. ASSUME NEW j \in PendingItem
          PROVE  /\ ledger'[j] <= age'[j]
                 /\ IsListed(j)' => listed'[j] <= age'[j]
                 /\ stage' \in {"asking", "ledger"} /\ IsListed(j)' => listed'[j] >= ledger'[j]
                 /\ stage' \in {"post", "rollback"} /\ j \in news' =>
                       IsListed(j)' /\ listed'[j] > loaded'[j] /\ ledger'[j] = listed'[j]
      BY <2>4 DEF PendingTyped, LedgerSound
    <3>3. ASSUME NEW j \in PendingItem, NEW l \in 1..MaxLevel, <<j, l>> \notin excused'
          PROVE  EscalationSound(j, l)'
      <4>1. EscalationSound(j, l) /\ <<j, l>> \notin excused
        BY <2>4, <3>3 DEF LedgerSound
      <4>2. QED
        BY <2>4, <3>3, <4>1 DEF PendingTyped, LedgerSound, EscalationSound
    <3>4. QED
      BY <3>1, <3>2, <3>3 DEF LedgerSound
  <2>5. QED
    BY <2>1, <2>2, <2>3, <2>4
<1>5. CASE Pending!Start
  <2> USE <1>5 DEF Pending!Start, Pending!NotListed, Pending!Listed, Pending!ExitCode, Pending!Stale, Pending!Before,
          Pending!NextLedger, Pending!News, Pending!Announced, Pending!NewsLevels, Pending!Lost
  <2>1. PendingTyped'
    BY DEF PendingTyped
  <2>2. ClearSound'
    BY DEF PendingTyped, ClearSound
  <2>3. AllExcused => AllExcused'
    BY DEF AllExcused
  <2>4. ASSUME LedgerSound PROVE LedgerSound'
    <3>1. /\ {ledger', loaded'} \subseteq [PendingItem -> 0..MaxLevel] /\ said' \in [PendingItem \X (1..MaxLevel) -> Nat]
          /\ stage' = "ledger" => loaded' = ledger'
      BY <2>4 DEF PendingTyped, LedgerSound
    <3>2. ASSUME NEW j \in PendingItem
          PROVE  /\ ledger'[j] <= age'[j]
                 /\ IsListed(j)' => listed'[j] <= age'[j]
                 /\ stage' \in {"asking", "ledger"} /\ IsListed(j)' => listed'[j] >= ledger'[j]
                 /\ stage' \in {"post", "rollback"} /\ j \in news' =>
                       IsListed(j)' /\ listed'[j] > loaded'[j] /\ ledger'[j] = listed'[j]
      BY <2>4 DEF PendingTyped, LedgerSound
    <3>3. ASSUME NEW j \in PendingItem, NEW l \in 1..MaxLevel, <<j, l>> \notin excused'
          PROVE  EscalationSound(j, l)'
      <4>1. EscalationSound(j, l) /\ <<j, l>> \notin excused
        BY <2>4, <3>3 DEF LedgerSound
      <4>2. QED
        BY <2>4, <3>3, <4>1 DEF PendingTyped, LedgerSound, EscalationSound
    <3>4. QED
      BY <3>1, <3>2, <3>3 DEF LedgerSound
  <2>5. QED
    BY <2>1, <2>2, <2>3, <2>4
<1>6. CASE Pending!Answered
  <2> USE <1>6 DEF Pending!Answered, Pending!NotListed, Pending!Listed, Pending!ExitCode, Pending!Stale, Pending!Before,
          Pending!NextLedger, Pending!News, Pending!Announced, Pending!NewsLevels, Pending!Lost
  <2>1. PendingTyped'
    BY DEF PendingTyped
  <2>2. ClearSound'
    BY DEF PendingTyped, ClearSound
  <2>3. AllExcused => AllExcused'
    BY DEF AllExcused
  <2>4. ASSUME LedgerSound PROVE LedgerSound'
    <3>1. /\ {ledger', loaded'} \subseteq [PendingItem -> 0..MaxLevel] /\ said' \in [PendingItem \X (1..MaxLevel) -> Nat]
          /\ stage' = "ledger" => loaded' = ledger'
      BY <2>4 DEF PendingTyped, LedgerSound
    <3>2. ASSUME NEW j \in PendingItem
          PROVE  /\ ledger'[j] <= age'[j]
                 /\ IsListed(j)' => listed'[j] <= age'[j]
                 /\ stage' \in {"asking", "ledger"} /\ IsListed(j)' => listed'[j] >= ledger'[j]
                 /\ stage' \in {"post", "rollback"} /\ j \in news' =>
                       IsListed(j)' /\ listed'[j] > loaded'[j] /\ ledger'[j] = listed'[j]
      BY <2>4 DEF PendingTyped, LedgerSound
    <3>3. ASSUME NEW j \in PendingItem, NEW l \in 1..MaxLevel, <<j, l>> \notin excused'
          PROVE  EscalationSound(j, l)'
      <4>1. EscalationSound(j, l) /\ <<j, l>> \notin excused
        BY <2>4, <3>3 DEF LedgerSound
      <4>2. QED
        BY <2>4, <3>3, <4>1 DEF PendingTyped, LedgerSound, EscalationSound
    <3>4. QED
      BY <3>1, <3>2, <3>3 DEF LedgerSound
  <2>5. QED
    BY <2>1, <2>2, <2>3, <2>4
<1>7. CASE Pending!SaveLedger
  <2> USE <1>7 DEF Pending!SaveLedger, Pending!NotListed, Pending!Listed, Pending!ExitCode, Pending!Stale, Pending!Before,
          Pending!NextLedger, Pending!News, Pending!Announced, Pending!NewsLevels, Pending!Lost
  <2>1. PendingTyped'
    BY DEF PendingTyped
  <2>2. ClearSound'
    BY DEF PendingTyped, ClearSound
  <2>3. AllExcused => AllExcused'
    BY DEF AllExcused
  <2>4. ASSUME LedgerSound PROVE LedgerSound'
    <3>1. /\ {ledger', loaded'} \subseteq [PendingItem -> 0..MaxLevel] /\ said' \in [PendingItem \X (1..MaxLevel) -> Nat]
          /\ stage' = "ledger" => loaded' = ledger'
      BY <2>4 DEF PendingTyped, LedgerSound
    <3>2. ASSUME NEW j \in PendingItem
          PROVE  /\ ledger'[j] <= age'[j]
                 /\ IsListed(j)' => listed'[j] <= age'[j]
                 /\ stage' \in {"asking", "ledger"} /\ IsListed(j)' => listed'[j] >= ledger'[j]
                 /\ stage' \in {"post", "rollback"} /\ j \in news' =>
                       IsListed(j)' /\ listed'[j] > loaded'[j] /\ ledger'[j] = listed'[j]
      BY <2>4 DEF PendingTyped, LedgerSound
    <3>3. ASSUME NEW j \in PendingItem, NEW l \in 1..MaxLevel, <<j, l>> \notin excused'
          PROVE  EscalationSound(j, l)'
      <4>1. EscalationSound(j, l) /\ <<j, l>> \notin excused
        BY <2>4, <3>3 DEF LedgerSound
      <4>2. QED
        <5>1. /\ loaded = ledger /\ ledger[j] \in 0..MaxLevel /\ listed[j] \in 0..(MaxLevel + 1)
              /\ loaded # Pending!Lost /\ IsListed(j) => listed[j] >= ledger[j]
          BY <2>4 DEF LedgerSound, PendingTyped
        <5>2. j \in news' <=> IsListed(j) /\ listed[j] > 0 /\ listed[j] > ledger[j]
          BY <5>1
        <5>3. ledger'[j] = IF IsListed(j) /\ listed[j] > 0 THEN listed[j]
                           ELSE IF HostOf[j] \in silent THEN ledger[j] ELSE 0
          BY <5>1
        <5>4. UNCHANGED <<said, age, listed, loaded, waiting, asked, silent>> /\ stage = "ledger"
              /\ stage' \in {"idle", "post"} /\ (stage' = "idle" => news' = {})
          OBVIOUS
        <5>5. asked = Host /\ HostOf[j] \in Host
          BY DEF ClearSound
        <5>6. QED
          BY <4>1, <5>1, <5>2, <5>3, <5>4, <5>5 DEF EscalationSound
    <3>4. QED
      BY <3>1, <3>2, <3>3 DEF LedgerSound
  <2>5. QED
    BY <2>1, <2>2, <2>3, <2>4
<1>8. CASE Pending!LedgerUnwritable
  <2> USE <1>8 DEF Pending!LedgerUnwritable, Pending!NotListed, Pending!Listed, Pending!ExitCode, Pending!Stale, Pending!Before,
          Pending!NextLedger, Pending!News, Pending!Announced, Pending!NewsLevels, Pending!Lost
  <2>1. PendingTyped'
    BY DEF PendingTyped
  <2>2. ClearSound'
    BY DEF PendingTyped, ClearSound
  <2>3. AllExcused => AllExcused'
    BY DEF AllExcused
  <2>4. ASSUME LedgerSound PROVE LedgerSound'
    <3>1. /\ {ledger', loaded'} \subseteq [PendingItem -> 0..MaxLevel] /\ said' \in [PendingItem \X (1..MaxLevel) -> Nat]
          /\ stage' = "ledger" => loaded' = ledger'
      BY <2>4 DEF PendingTyped, LedgerSound
    <3>2. ASSUME NEW j \in PendingItem
          PROVE  /\ ledger'[j] <= age'[j]
                 /\ IsListed(j)' => listed'[j] <= age'[j]
                 /\ stage' \in {"asking", "ledger"} /\ IsListed(j)' => listed'[j] >= ledger'[j]
                 /\ stage' \in {"post", "rollback"} /\ j \in news' =>
                       IsListed(j)' /\ listed'[j] > loaded'[j] /\ ledger'[j] = listed'[j]
      BY <2>4 DEF PendingTyped, LedgerSound
    <3>3. ASSUME NEW j \in PendingItem, NEW l \in 1..MaxLevel, <<j, l>> \notin excused'
          PROVE  EscalationSound(j, l)'
      <4>1. EscalationSound(j, l) /\ <<j, l>> \notin excused
        BY <2>4, <3>3 DEF LedgerSound
      <4>2. QED
        BY <2>4, <3>3, <4>1 DEF PendingTyped, LedgerSound, EscalationSound
    <3>4. QED
      BY <3>1, <3>2, <3>3 DEF LedgerSound
  <2>5. QED
    BY <2>1, <2>2, <2>3, <2>4
<1>9. CASE Pending!Post
  <2> USE <1>9 DEF Pending!Post, Pending!NotListed, Pending!Listed, Pending!ExitCode, Pending!Stale, Pending!Before,
          Pending!NextLedger, Pending!News, Pending!Announced, Pending!NewsLevels, Pending!Lost
  <2>1. PendingTyped'
    BY DEF PendingTyped
  <2>2. ClearSound'
    BY DEF PendingTyped, ClearSound
  <2>3. AllExcused => AllExcused'
    BY DEF AllExcused
  <2>4. ASSUME LedgerSound PROVE LedgerSound'
    <3>1. /\ {ledger', loaded'} \subseteq [PendingItem -> 0..MaxLevel] /\ said' \in [PendingItem \X (1..MaxLevel) -> Nat]
          /\ stage' = "ledger" => loaded' = ledger'
      BY <2>4 DEF PendingTyped, LedgerSound
    <3>2. ASSUME NEW j \in PendingItem
          PROVE  /\ ledger'[j] <= age'[j]
                 /\ IsListed(j)' => listed'[j] <= age'[j]
                 /\ stage' \in {"asking", "ledger"} /\ IsListed(j)' => listed'[j] >= ledger'[j]
                 /\ stage' \in {"post", "rollback"} /\ j \in news' =>
                       IsListed(j)' /\ listed'[j] > loaded'[j] /\ ledger'[j] = listed'[j]
      BY <2>4 DEF PendingTyped, LedgerSound
    <3>3. ASSUME NEW j \in PendingItem, NEW l \in 1..MaxLevel, <<j, l>> \notin excused'
          PROVE  EscalationSound(j, l)'
      <4>1. EscalationSound(j, l) /\ <<j, l>> \notin excused
        BY <2>4, <3>3 DEF LedgerSound
      <4>2. said'[<<j, l>>] = said[<<j, l>>] + (IF j \in news /\ l = listed[j] THEN 1 ELSE 0)
        OBVIOUS
      <4>3. stage = "post" /\ stage' = "idle" /\ UNCHANGED <<waiting, age, asked, listed, silent, loaded, news, ledger>>
        OBVIOUS
      <4>4. j \in news => listed[j] <= age[j] /\ ledger[j] = listed[j]
        BY <2>4, <4>3 DEF LedgerSound
      <4>5. said[<<j, l>>] \in {0, 1} /\ (j \in news /\ l = listed[j] => said[<<j, l>>] = 0)
        BY <4>1, <4>3 DEF EscalationSound
      <4>6. CASE j \in news /\ l = listed[j]
        <5>1. said'[<<j, l>>] = 1 /\ ledger'[j] = l /\ age'[j] >= l
          BY <4>2, <4>3, <4>4, <4>5, <4>6 DEF PendingTyped
        <5> HIDE <1>9 DEF Pending!Post
        <5>2. QED
          BY <4>3, <5>1 DEF EscalationSound
      <4>7. CASE ~(j \in news /\ l = listed[j])
        <5>1. said'[<<j, l>>] = said[<<j, l>>]
          BY <4>2, <4>5, <4>7
        <5>2. j \in news => ledger[j] # l
          BY <4>4, <4>7
        <5> HIDE <1>9 DEF Pending!Post
        <5>3. QED
          BY <4>1, <4>3, <5>1, <5>2 DEF EscalationSound
      <4>8. QED
        BY <4>6, <4>7
    <3>4. QED
      BY <3>1, <3>2, <3>3 DEF LedgerSound
  <2>5. QED
    BY <2>1, <2>2, <2>3, <2>4
<1>10. CASE Pending!PostFails
  <2> USE <1>10 DEF Pending!PostFails, Pending!NotListed, Pending!Listed, Pending!ExitCode, Pending!Stale, Pending!Before,
          Pending!NextLedger, Pending!News, Pending!Announced, Pending!NewsLevels, Pending!Lost
  <2>1. PendingTyped'
    BY DEF PendingTyped
  <2>2. ClearSound'
    BY DEF PendingTyped, ClearSound
  <2>3. AllExcused => AllExcused'
    BY DEF AllExcused
  <2>4. ASSUME LedgerSound PROVE LedgerSound'
    <3>1. /\ {ledger', loaded'} \subseteq [PendingItem -> 0..MaxLevel] /\ said' \in [PendingItem \X (1..MaxLevel) -> Nat]
          /\ stage' = "ledger" => loaded' = ledger'
      BY <2>4 DEF PendingTyped, LedgerSound
    <3>2. ASSUME NEW j \in PendingItem
          PROVE  /\ ledger'[j] <= age'[j]
                 /\ IsListed(j)' => listed'[j] <= age'[j]
                 /\ stage' \in {"asking", "ledger"} /\ IsListed(j)' => listed'[j] >= ledger'[j]
                 /\ stage' \in {"post", "rollback"} /\ j \in news' =>
                       IsListed(j)' /\ listed'[j] > loaded'[j] /\ ledger'[j] = listed'[j]
      BY <2>4 DEF PendingTyped, LedgerSound
    <3>3. ASSUME NEW j \in PendingItem, NEW l \in 1..MaxLevel, <<j, l>> \notin excused'
          PROVE  EscalationSound(j, l)'
      <4>1. EscalationSound(j, l) /\ <<j, l>> \notin excused
        BY <2>4, <3>3 DEF LedgerSound
      <4>2. said'[<<j, l>>] = said[<<j, l>>]
        <5>1. CASE UNCHANGED <<said, excused>>
          BY <5>1
        <5>2. CASE said' = Pending!Announced /\ excused' = excused \cup Pending!NewsLevels
          <6>1. ~(j \in news /\ l = listed[j])
            BY <3>3, <5>2
          <6>2. said'[<<j, l>>] = said[<<j, l>>] + (IF j \in news /\ l = listed[j] THEN 1 ELSE 0)
            BY <5>2
          <6>3. said[<<j, l>>] \in Nat
            BY <2>4 DEF LedgerSound
          <6>4. QED
            BY <6>1, <6>2, <6>3
        <5>3. QED
          BY <5>1, <5>2
      <4>3. stage = "post" /\ stage' = "rollback" /\ UNCHANGED <<waiting, age, asked, listed, silent, loaded, news, ledger>>
        OBVIOUS
      <4> HIDE <1>10 DEF Pending!PostFails
      <4>4. QED
        BY <4>1, <4>2, <4>3 DEF EscalationSound
    <3>4. QED
      BY <3>1, <3>2, <3>3 DEF LedgerSound
  <2>5. QED
    BY <2>1, <2>2, <2>3, <2>4
<1>11. CASE Pending!Rollback
  <2> USE <1>11 DEF Pending!Rollback, Pending!NotListed, Pending!Listed, Pending!ExitCode, Pending!Stale, Pending!Before,
          Pending!NextLedger, Pending!News, Pending!Announced, Pending!NewsLevels, Pending!Lost
  <2>1. PendingTyped'
    BY DEF PendingTyped
  <2>2. ClearSound'
    BY DEF PendingTyped, ClearSound
  <2>3. AllExcused => AllExcused'
    BY DEF AllExcused
  <2>4. ASSUME LedgerSound PROVE LedgerSound'
    <3>1. /\ {ledger', loaded'} \subseteq [PendingItem -> 0..MaxLevel] /\ said' \in [PendingItem \X (1..MaxLevel) -> Nat]
          /\ stage' = "ledger" => loaded' = ledger'
      BY <2>4 DEF PendingTyped, LedgerSound
    <3>2. ASSUME NEW j \in PendingItem
          PROVE  /\ ledger'[j] <= age'[j]
                 /\ IsListed(j)' => listed'[j] <= age'[j]
                 /\ stage' \in {"asking", "ledger"} /\ IsListed(j)' => listed'[j] >= ledger'[j]
                 /\ stage' \in {"post", "rollback"} /\ j \in news' =>
                       IsListed(j)' /\ listed'[j] > loaded'[j] /\ ledger'[j] = listed'[j]
      BY <2>4 DEF PendingTyped, LedgerSound
    <3>3. ASSUME NEW j \in PendingItem, NEW l \in 1..MaxLevel, <<j, l>> \notin excused'
          PROVE  EscalationSound(j, l)'
      <4>1. EscalationSound(j, l) /\ <<j, l>> \notin excused
        BY <2>4, <3>3 DEF LedgerSound
      <4>2. QED
        BY <2>4, <3>3, <4>1 DEF PendingTyped, LedgerSound, EscalationSound
    <3>4. QED
      BY <3>1, <3>2, <3>3 DEF LedgerSound
  <2>5. QED
    BY <2>1, <2>2, <2>3, <2>4
<1>12. CASE Pending!RunDies
  <2> USE <1>12 DEF Pending!RunDies, Pending!NotListed, Pending!Listed, Pending!ExitCode, Pending!Stale, Pending!Before,
          Pending!NextLedger, Pending!News, Pending!Announced, Pending!NewsLevels, Pending!Lost
  <2>1. PendingTyped'
    BY DEF PendingTyped
  <2>2. ClearSound'
    BY DEF PendingTyped, ClearSound
  <2>3. AllExcused => AllExcused'
    BY DEF AllExcused
  <2>4. ASSUME LedgerSound PROVE LedgerSound'
    <3>1. /\ {ledger', loaded'} \subseteq [PendingItem -> 0..MaxLevel] /\ said' \in [PendingItem \X (1..MaxLevel) -> Nat]
          /\ stage' = "ledger" => loaded' = ledger'
      BY <2>4 DEF PendingTyped, LedgerSound
    <3>2. ASSUME NEW j \in PendingItem
          PROVE  /\ ledger'[j] <= age'[j]
                 /\ IsListed(j)' => listed'[j] <= age'[j]
                 /\ stage' \in {"asking", "ledger"} /\ IsListed(j)' => listed'[j] >= ledger'[j]
                 /\ stage' \in {"post", "rollback"} /\ j \in news' =>
                       IsListed(j)' /\ listed'[j] > loaded'[j] /\ ledger'[j] = listed'[j]
      BY <2>4 DEF PendingTyped, LedgerSound
    <3>3. ASSUME NEW j \in PendingItem, NEW l \in 1..MaxLevel, <<j, l>> \notin excused'
          PROVE  EscalationSound(j, l)'
      <4>1. EscalationSound(j, l) /\ <<j, l>> \notin excused
        BY <2>4, <3>3 DEF LedgerSound
      <4>2. QED
        BY <2>4, <3>3, <4>1 DEF PendingTyped, LedgerSound, EscalationSound
    <3>4. QED
      BY <3>1, <3>2, <3>3 DEF LedgerSound
  <2>5. QED
    BY <2>1, <2>2, <2>3, <2>4
<1>13. CASE Pending!LedgerLost
  <2> USE <1>13 DEF Pending!LedgerLost, Pending!NotListed, Pending!Listed, Pending!ExitCode, Pending!Stale, Pending!Before,
          Pending!NextLedger, Pending!News, Pending!Announced, Pending!NewsLevels, Pending!Lost
  <2>1. PendingTyped'
    BY DEF PendingTyped
  <2>2. ClearSound'
    BY DEF PendingTyped, ClearSound
  <2>3. AllExcused => AllExcused'
    BY DEF AllExcused
  <2>4. AllExcused'
    BY DEF AllExcused
  <2>5. QED
    BY <2>1, <2>2, <2>3, <2>4
<1>14. CASE UNCHANGED Pending!pendingVars
  BY <1>14 DEF Pending!pendingVars, PendingTyped, ClearSound, AllExcused, LedgerSound, EscalationSound
<1>15. QED
  BY <1>1, <1>2, <1>3, <1>4, <1>5, <1>6, <1>7, <1>8, <1>9, <1>10, <1>11, <1>12, <1>13, <1>14 DEF Pending!Next

LEMMA PendingStart == Pending!Init => PendingInv
<1> SUFFICES ASSUME Pending!Init PROVE PendingInv
  OBVIOUS
<1> USE MachineAssumptions DEF Pending!PendingAssumption, Pending!Init, Pending!NotListed, Pending!Blank, IsListed
<1>1. PendingTyped /\ ClearSound
  BY DEF PendingTyped, ClearSound
<1>2. LedgerSound
  BY DEF LedgerSound, EscalationSound
<1>3. QED
  BY <1>1, <1>2 DEF PendingInv

\* bin/iak-pending.mjs, "empty is not error": after "all clear" no item is open that was
\* pending when the run began, and after "pending" every such item was listed.
THEOREM ClearIsClear == PartsSpec => []AllClearIsClear
<1>1. PendingInv => AllClearIsClear
  BY DEF PendingInv, ClearSound, IsListed, AllClearIsClear, Pending!AllClearIsClear, Pending!Listed
<1>2. QED
  BY <1>1, PendingStart, PendingStep, PendingPart, PTL DEF Pending!PendingSpec

\* bin/iak-pending.mjs, "once per escalation": an escalation is announced at most once,
\* and one that the ledger records was announced, unless a mishap excuses it.
THEOREM AnnouncedOnce == PartsSpec => []EscalationsOnce
<1>1. PendingInv => EscalationsOnce
  <2> SUFFICES ASSUME PendingInv, NEW i \in PendingItem, NEW l \in 1..MaxLevel, <<i, l>> \notin excused
               PROVE  /\ said[<<i, l>>] <= 1
                      /\ stage \in {"idle", "asking"} /\ ledger # Pending!Lost /\ ledger[i] = l => said[<<i, l>>] = 1
    BY DEF EscalationsOnce, Pending!EscalationsOnce
  <2>1. EscalationSound(i, l)
    BY DEF PendingInv, AllExcused, LedgerSound
  <2>2. QED
    BY <2>1 DEF EscalationSound
<1>2. QED
  BY <1>1, PendingStart, PendingStep, PendingPart, PTL DEF Pending!PendingSpec

-----------------------------------------------------------------------------
(* Choosing a model: src/model-selection.mjs *)

LEMMA SelectionPart == PartsSpec => Selection!SelectionSpec
<1>1. PartsInit => Selection!Init
  BY DEF PartsInit
<1>2. [PartsNext]_partsVars => [Selection!Next]_(Selection!selectionVars)
  BY DEF PartsNext, partsVars, machineVars, selectionVars, Selection!selectionVars, Selection!boxes,
     Selection!asking, Selection!applying
<1>3. QED
  BY <1>1, <1>2, PTL DEF PartsSpec, Selection!SelectionSpec

\* What the owner said of an entry, or need not be asked: the asker's answer, or all that
\* it could offer. A picker that has one waits no more.
Answered(a, e) ==
    /\ e \in offer[a] /\ e \in BoxEntry
    /\ e = choice[a] \/ offer[a] = {e}
    /\ IF a \in Picker THEN asker[a] = "done" /\ applied[a] # "no-answer" ELSE e = choice[a]

\* Each asker was raised once, and what it applies was answered; past the recheck it was
\* seen serving since.
AskerSound(a) ==
    /\ asker[a] = "new" => choice[a] = "none" /\ apply[a].at = "none"
    /\ asker[a] # "done" => applied[a] # "no-answer"
    /\ apply[a].at # "none" => Answered(a, apply[a].entry) /\ Selection!Serving \subseteq lately[a]
    /\ apply[a].at \in {"open", "fill", "rename"} => apply[a].entry \in lately[a]
ApplySound == \A a \in Asker : AskerSound(a)

\* And so was what any file holds, the daemon's shared temporary file included.
ContentSound(c) ==
    c.text \in BoxEntry => /\ c.by \in Asker /\ asker[c.by] # "new"
                           /\ Answered(c.by, c.text) /\ c.text \in lately[c.by]

SelectionInv ==
    /\ Selection!TypeOK /\ ApplySound
    /\ ContentSound(choiceFile) /\ \A p \in Selection!Process : ContentSound(tmp[p])

\* What a probe can find usable is being served.
LEMMA OfferableServes ==
  ASSUME Selection!TypeOK, NEW e \in BoxEntry, Selection!Offerable(e)
  PROVE  e \in Selection!Serving
<1>1. box[e] \in Selection!Box /\ box[e] \notin {"locked", "nameless"}
  BY DEF Selection!TypeOK, Selection!Offerable, Selection!KeyBlocked
<1>2. \E http \in Selection!HttpRead(e) : http = "OK"
  <2>1. PICK http \in Selection!HttpRead(e), capacity \in Selection!CapacityRead(e) :
           "UP" = IF http # "OK" THEN http ELSE IF capacity = "busy" THEN "BUSY" ELSE "UP"
    BY DEF Selection!Offerable, Selection!ProbeOne
  <2>2. http \in {"OK", "DOWN", "UNREACHABLE"}
    BY DEF Selection!HttpRead
  <2>3. QED
    BY <2>1, <2>2
<1>3. box[e] \notin {"unreachable", "down"}
  BY <1>2 DEF Selection!HttpRead
<1>4. QED
  BY <1>1, <1>3 DEF Selection!Box, Selection!Serving

\* The only one there is.
LEMMA OnlyOne ==
  ASSUME NEW S \in SUBSET BoxEntry, Selection!Cardinality(S) = 1, NEW e \in S
  PROVE  S = {e}
<1>1. \A X : (Selection!IsFiniteSet(X) <=> IsFiniteSet(X)) /\ Selection!Cardinality(X) = Cardinality(X)
  BY DEF Selection!IsFiniteSet, IsFiniteSet, Selection!Cardinality, Cardinality
<1>2. IsFiniteSet(BoxEntry)
  BY <1>1, MachineAssumptions DEF Selection!SelectionAssumption
<1>3. IsFiniteSet(S) /\ Cardinality(S) = 1
  BY <1>1, <1>2, FS_Subset
<1>4. QED
  BY <1>3, FS_Singleton

\* What is written is content.
LEMMA Contents ==
  ASSUME Selection!TypeOK, NEW a \in Asker
  PROVE  /\ Selection!Nothing \in Selection!Content /\ Selection!Nothing.text = NoEntry
         /\ Selection!Half(a) \in Selection!Content /\ Selection!Half(a).text = "partial"
         /\ Selection!Chosen(a) \in Selection!Content
         /\ Selection!Chosen(a).text = apply[a].entry /\ Selection!Chosen(a).by = a
<1>1. apply[a].entry \in BoxEntry \cup {NoEntry}
  BY DEF Selection!TypeOK
<1>2. QED
  BY <1>1 DEF Selection!Nothing, Selection!Half, Selection!Chosen, Selection!Content, Selection!Partial

Stages == {"none", "recheck", "open", "fill", "rename"}
Applies == [Asker -> [at : Stages, entry : BoxEntry \cup {NoEntry}]]

\* A step of an apply.
LEMMA Moved ==
  ASSUME Selection!TypeOK, NEW a \in Asker, NEW next \in Stages, Selection!To(a, next)
  PROVE  /\ apply' \in Applies
         /\ apply'[a].at = next /\ apply'[a].entry = apply[a].entry
         /\ \A b \in Asker : b # a => apply'[b] = apply[b]
<1> DEFINE new == [apply[a] EXCEPT !.at = next]
<1>1. new \in [at : Stages, entry : BoxEntry \cup {NoEntry}] /\ new.at = next /\ new.entry = apply[a].entry
  BY DEF Selection!TypeOK, Stages
<1>2. apply' = [apply EXCEPT ![a] = new] /\ apply \in Applies
  BY DEF Selection!To, Selection!TypeOK, Applies, Stages
<1> HIDE DEF new
<1>3. QED
  BY <1>1, <1>2 DEF Applies

\* The start of one.
LEMMA Started ==
  ASSUME Selection!TypeOK, NEW a \in Asker, NEW e \in BoxEntry, Selection!StartApply(a, e)
  PROVE  /\ apply' \in Applies
         /\ apply'[a].at = "recheck" /\ apply'[a].entry = e
         /\ \A b \in Asker : b # a => apply'[b] = apply[b] /\ lately'[b] = lately[b]
         /\ lately' \in [Asker -> SUBSET BoxEntry] /\ lately'[a] = Selection!Serving
<1> DEFINE new == [at |-> "recheck", entry |-> e]
<1>1. new \in [at : Stages, entry : BoxEntry \cup {NoEntry}] /\ new.at = "recheck" /\ new.entry = e
  BY DEF Stages
<1>2. apply' = [apply EXCEPT ![a] = new] /\ apply \in Applies
  BY DEF Selection!StartApply, Selection!TypeOK, Applies, Stages
<1> HIDE DEF new
<1>3. apply' \in Applies /\ apply'[a] = new /\ \A b \in Asker : b # a => apply'[b] = apply[b]
  BY <1>1, <1>2 DEF Applies
<1>4. Selection!Serving \in SUBSET BoxEntry
  BY DEF Selection!Serving
<1>5. QED
  BY <1>1, <1>3, <1>4 DEF Selection!StartApply, Selection!TypeOK

LEMMA SelectionStep == SelectionInv /\ [Selection!Next]_(Selection!selectionVars) => SelectionInv'
<1> SUFFICES ASSUME SelectionInv, [Selection!Next]_(Selection!selectionVars) PROVE SelectionInv'
  OBVIOUS
<1> USE MachineAssumptions DEF SelectionInv, Selection!SelectionAssumption, Selection!Process, Selection!Runs,
        Selection!boxes, Selection!asking, Selection!applying
<1>1. ASSUME NEW e \in BoxEntry, NEW state \in Selection!Box, Selection!BoxBecomes(e, state) PROVE SelectionInv'
  <2> USE <1>1 DEF Selection!BoxBecomes, Selection!StartApply, Selection!Quits, Selection!At, Selection!To, Selection!Ends,
          Selection!Applying, Selection!Half, Selection!Chosen, Selection!Nothing
  <2>1. Selection!TypeOK'
    BY DEF Selection!TypeOK, Selection!Content, Selection!Serving, Selection!Box
  <2>2. ASSUME NEW b \in Asker, NEW x, Answered(b, x), asker[b] # "new" PROVE Answered(b, x)' /\ asker'[b] # "new"
    BY <2>2 DEF Selection!TypeOK, Answered, ApplySound, AskerSound
  <2>3. ApplySound'
    BY <2>2, OfferableServes, OnlyOne DEF Selection!TypeOK, ApplySound, AskerSound, Answered, Selection!Serving
  <2>4. ASSUME NEW c, ContentSound(c) PROVE c.text \in BoxEntry => /\ c.by \in Asker /\ asker'[c.by] # "new"
                          /\ Answered(c.by, c.text)' /\ c.text \in lately'[c.by]
    BY <2>2, <2>4 DEF Selection!TypeOK, ContentSound, Answered, Selection!Serving
  <2>5. ContentSound(choiceFile)' /\ \A q \in Selection!Process : ContentSound(tmp[q])'
    BY <2>4 DEF Selection!TypeOK, ContentSound, Selection!Partial
  <2>6. QED
    BY <2>1, <2>3, <2>5
<1>2. ASSUME NEW e \in BoxEntry, NEW row \in {"good", "malformed", "none"}, Selection!RowBecomes(e, row) PROVE SelectionInv'
  <2> USE <1>2 DEF Selection!RowBecomes, Selection!StartApply, Selection!Quits, Selection!At, Selection!To, Selection!Ends,
          Selection!Applying, Selection!Half, Selection!Chosen, Selection!Nothing
  <2>1. Selection!TypeOK'
    BY DEF Selection!TypeOK, Selection!Content, Selection!Serving, Selection!Box
  <2>2. ASSUME NEW b \in Asker, NEW x, Answered(b, x), asker[b] # "new" PROVE Answered(b, x)' /\ asker'[b] # "new"
    BY <2>2 DEF Selection!TypeOK, Answered, ApplySound, AskerSound
  <2>3. ApplySound'
    BY <2>2, OfferableServes, OnlyOne DEF Selection!TypeOK, ApplySound, AskerSound, Answered, Selection!Serving
  <2>4. ASSUME NEW c, ContentSound(c) PROVE c.text \in BoxEntry => /\ c.by \in Asker /\ asker'[c.by] # "new"
                          /\ Answered(c.by, c.text)' /\ c.text \in lately'[c.by]
    BY <2>2, <2>4 DEF Selection!TypeOK, ContentSound, Answered, Selection!Serving
  <2>5. ContentSound(choiceFile)' /\ \A q \in Selection!Process : ContentSound(tmp[q])'
    BY <2>4 DEF Selection!TypeOK, ContentSound, Selection!Partial
  <2>6. QED
    BY <2>1, <2>3, <2>5
<1>3. ASSUME NEW a \in Asker, Selection!Probe(a) PROVE SelectionInv'
  <2>1. PICK up \in SUBSET {e \in Selection!LoadRegistry : Selection!Offerable(e)} :
          /\ offer' = [offer EXCEPT ![a] = up]
          /\ \/ Selection!Quits(a) /\ UNCHANGED <<choice, apply, lately>>
             \/ /\ a \in Picker /\ Selection!Cardinality(up) = 1
                /\ asker' = [asker EXCEPT ![a] = "done"]
                /\ \E e \in up : Selection!StartApply(a, e)
                /\ UNCHANGED <<choice, applied>>
             \/ /\ asker' = [asker EXCEPT ![a] = "asking"]
                /\ choice' = [choice EXCEPT ![a] = "open"]
                /\ UNCHANGED <<apply, lately, applied>>
    BY <1>3 DEF Selection!Probe
  <2>2. /\ asker[a] = "new" /\ choice[a] = "none" /\ apply[a].at = "none"
        /\ up \in SUBSET BoxEntry /\ offer' = [offer EXCEPT ![a] = up]
        /\ UNCHANGED <<box, rows, choiceFile, tmp, events>> /\ Selection!Serving' = Selection!Serving
    BY <1>3, <2>1 DEF Selection!Probe, Selection!LoadRegistry, ApplySound, AskerSound, Selection!Serving
  <2>3. offer' \in [Asker -> SUBSET BoxEntry] /\ offer'[a] = up /\ \A b \in Asker : b # a => offer'[b] = offer[b]
    BY <2>2 DEF Selection!TypeOK
  <2> DEFINE Others == \A b \in Asker : b # a =>
                 /\ asker'[b] = asker[b] /\ choice'[b] = choice[b] /\ apply'[b] = apply[b]
                 /\ lately'[b] = lately[b] /\ applied'[b] = applied[b]
  <2> DEFINE Prober == /\ asker'[a] # "new"
                       /\ asker'[a] # "done" => applied'[a] # "no-answer"
                       /\ apply'[a].at # "none" =>
                            /\ \E e \in BoxEntry : e = apply'[a].entry /\ Answered(a, e)'
                            /\ Selection!Serving \subseteq lately'[a]
                       /\ apply'[a].at \notin {"open", "fill", "rename"}
  <2>4. Selection!TypeOK' /\ Others /\ Prober
    <3>1. CASE Selection!Quits(a) /\ UNCHANGED <<choice, apply, lately>>
      <4>1. Selection!TypeOK'
        BY <2>2, <2>3, <3>1 DEF Selection!TypeOK, Selection!Quits
      <4>2. Others /\ Prober
        BY <2>2, <3>1 DEF Selection!TypeOK, Selection!Quits, ApplySound, AskerSound
      <4>3. QED
        BY <4>1, <4>2
    <3>2. CASE /\ a \in Picker /\ Selection!Cardinality(up) = 1
               /\ asker' = [asker EXCEPT ![a] = "done"]
               /\ \E e \in up : Selection!StartApply(a, e)
               /\ UNCHANGED <<choice, applied>>
      <4>1. PICK e \in up : Selection!StartApply(a, e)
        BY <3>2
      <4>2. e \in BoxEntry /\ up = {e}
        BY <2>2, <3>2, OnlyOne
      <4>3. /\ apply' \in Applies /\ apply'[a].at = "recheck" /\ apply'[a].entry = e
            /\ \A b \in Asker : b # a => apply'[b] = apply[b] /\ lately'[b] = lately[b]
            /\ lately' \in [Asker -> SUBSET BoxEntry] /\ lately'[a] = Selection!Serving
        BY <4>1, <4>2, Started
      <4>4. Selection!TypeOK'
        BY <2>2, <2>3, <3>2, <4>3 DEF Selection!TypeOK, Applies, Stages
      <4>5. Others
        BY <3>2, <4>3 DEF Selection!TypeOK
      <4>6. Prober
        <5>1. asker'[a] = "done" /\ applied'[a] = applied[a]
          BY <3>2 DEF Selection!TypeOK
        <5>2. applied[a] # "no-answer"
          BY <2>2 DEF ApplySound, AskerSound
        <5>3. e \in offer'[a] /\ offer'[a] = {e}
          BY <2>3, <4>2
        <5>4. Answered(a, e)'
          BY <3>2, <4>2, <5>1, <5>2, <5>3 DEF Answered
        <5>5. QED
          BY <4>2, <4>3, <5>1, <5>2, <5>4
      <4>7. QED
        BY <4>4, <4>5, <4>6
    <3>3. CASE /\ asker' = [asker EXCEPT ![a] = "asking"]
               /\ choice' = [choice EXCEPT ![a] = "open"]
               /\ UNCHANGED <<apply, lately, applied>>
      <4>1. Selection!TypeOK'
        BY <2>2, <2>3, <3>3 DEF Selection!TypeOK
      <4>2. Others /\ Prober
        BY <2>2, <3>3 DEF Selection!TypeOK, ApplySound, AskerSound
      <4>3. QED
        BY <4>1, <4>2
    <3>4. QED
      BY <2>1, <3>1, <3>2, <3>3
  <2>5. ApplySound'
    <3>1. ASSUME NEW b \in Asker, b # a
          PROVE  AskerSound(b)'
      BY <2>2, <2>3, <2>4, <3>1 DEF ApplySound, AskerSound, Answered
    <3>2. AskerSound(a)'
      BY <2>2, <2>4 DEF AskerSound, Answered
    <3>3. QED
      BY <3>1, <3>2 DEF ApplySound
  <2>6. ASSUME NEW c, ContentSound(c)
        PROVE  c.text \in BoxEntry => /\ c.by \in Asker /\ asker'[c.by] # "new"
                                      /\ Answered(c.by, c.text)' /\ c.text \in lately'[c.by]
    BY <2>2, <2>3, <2>4, <2>6 DEF ContentSound, Answered
  <2>7. ContentSound(choiceFile)' /\ \A q \in Selection!Process : ContentSound(tmp[q])'
    BY <2>2, <2>6 DEF ContentSound
  <2>8. QED
    BY <2>4, <2>5, <2>7
<1>4. ASSUME NEW a \in Asker, Selection!RaiseFails(a) PROVE SelectionInv'
  <2> USE <1>4 DEF Selection!RaiseFails, Selection!StartApply, Selection!Quits, Selection!At, Selection!To, Selection!Ends,
          Selection!Applying, Selection!Half, Selection!Chosen, Selection!Nothing
  <2>1. Selection!TypeOK'
    BY DEF Selection!TypeOK, Selection!Content, Selection!Serving, Selection!Box
  <2>2. ASSUME NEW b \in Asker, NEW x, Answered(b, x), asker[b] # "new" PROVE Answered(b, x)' /\ asker'[b] # "new"
    BY <2>2 DEF Selection!TypeOK, Answered, ApplySound, AskerSound
  <2>3. ApplySound'
    BY <2>2, OfferableServes, OnlyOne DEF Selection!TypeOK, ApplySound, AskerSound, Answered, Selection!Serving
  <2>4. ASSUME NEW c, ContentSound(c) PROVE c.text \in BoxEntry => /\ c.by \in Asker /\ asker'[c.by] # "new"
                          /\ Answered(c.by, c.text)' /\ c.text \in lately'[c.by]
    BY <2>2, <2>4 DEF Selection!TypeOK, ContentSound, Answered, Selection!Serving
  <2>5. ContentSound(choiceFile)' /\ \A q \in Selection!Process : ContentSound(tmp[q])'
    BY <2>4 DEF Selection!TypeOK, ContentSound, Selection!Partial
  <2>6. QED
    BY <2>1, <2>3, <2>5
<1>5. ASSUME NEW a \in Asker, Selection!AnswerRead(a) PROVE SelectionInv'
  <2> USE <1>5 DEF Selection!AnswerRead, Selection!StartApply, Selection!Quits, Selection!At, Selection!To, Selection!Ends,
          Selection!Applying, Selection!Half, Selection!Chosen, Selection!Nothing
  <2>0. PICK e \in BoxEntry : e = choice[a] /\ Selection!StartApply(a, e)
    BY DEF Selection!TypeOK
  <2>s. /\ apply' \in Applies /\ apply'[a].at = "recheck" /\ apply'[a].entry = e
        /\ \A b \in Asker : b # a => apply'[b] = apply[b] /\ lately'[b] = lately[b]
        /\ lately' \in [Asker -> SUBSET BoxEntry] /\ lately'[a] = Selection!Serving
    BY <2>0, Started
  <2>1. Selection!TypeOK'
    BY <2>s DEF Selection!TypeOK, Applies, Stages
  <2>2. ASSUME NEW b \in Asker, NEW x, Answered(b, x), asker[b] # "new" PROVE Answered(b, x)' /\ asker'[b] # "new"
    BY <2>2 DEF Selection!TypeOK, Answered, ApplySound, AskerSound
  <2>3. ApplySound'
    <3>1. Selection!Serving' = Selection!Serving
      BY DEF Selection!Serving
    <3>2. ASSUME NEW b \in Asker, b # a
          PROVE  /\ asker'[b] = asker[b] /\ choice'[b] = choice[b] /\ apply'[b] = apply[b] /\ lately'[b] = lately[b]
                 /\ offer'[b] = offer[b] /\ applied'[b] = applied[b]
      BY <2>s, <3>2 DEF Selection!TypeOK
    <3>3. Answered(a, e)' /\ asker'[a] = "done"
      BY <2>0 DEF Selection!TypeOK, Answered, ApplySound, AskerSound
    <3>4. QED
      BY <2>s, <3>1, <3>2, <3>3 DEF ApplySound, AskerSound, Answered
  <2>4. ASSUME NEW c, ContentSound(c) PROVE c.text \in BoxEntry => /\ c.by \in Asker /\ asker'[c.by] # "new"
                          /\ Answered(c.by, c.text)' /\ c.text \in lately'[c.by]
    BY <2>2, <2>4 DEF Selection!TypeOK, ContentSound, Answered, Selection!Serving
  <2>5. ContentSound(choiceFile)' /\ \A q \in Selection!Process : ContentSound(tmp[q])'
    BY <2>4 DEF Selection!TypeOK, ContentSound, Selection!Partial
  <2>6. QED
    BY <2>1, <2>3, <2>5
<1>6. ASSUME NEW a \in Asker, Selection!Deadline(a) PROVE SelectionInv'
  <2> USE <1>6 DEF Selection!Deadline, Selection!StartApply, Selection!Quits, Selection!At, Selection!To, Selection!Ends,
          Selection!Applying, Selection!Half, Selection!Chosen, Selection!Nothing
  <2>1. Selection!TypeOK'
    BY DEF Selection!TypeOK, Selection!Content, Selection!Serving, Selection!Box
  <2>2. ASSUME NEW b \in Asker, NEW x, Answered(b, x), asker[b] # "new" PROVE Answered(b, x)' /\ asker'[b] # "new"
    BY <2>2 DEF Selection!TypeOK, Answered, ApplySound, AskerSound
  <2>3. ApplySound'
    BY <2>2, OfferableServes, OnlyOne DEF Selection!TypeOK, ApplySound, AskerSound, Answered, Selection!Serving
  <2>4. ASSUME NEW c, ContentSound(c) PROVE c.text \in BoxEntry => /\ c.by \in Asker /\ asker'[c.by] # "new"
                          /\ Answered(c.by, c.text)' /\ c.text \in lately'[c.by]
    BY <2>2, <2>4 DEF Selection!TypeOK, ContentSound, Answered, Selection!Serving
  <2>5. ContentSound(choiceFile)' /\ \A q \in Selection!Process : ContentSound(tmp[q])'
    BY <2>4 DEF Selection!TypeOK, ContentSound, Selection!Partial
  <2>6. QED
    BY <2>1, <2>3, <2>5
<1>7. ASSUME NEW a \in Asker, NEW e \in BoxEntry, Selection!Decide(a, e) PROVE SelectionInv'
  <2> USE <1>7 DEF Selection!Decide, Selection!StartApply, Selection!Quits, Selection!At, Selection!To, Selection!Ends,
          Selection!Applying, Selection!Half, Selection!Chosen, Selection!Nothing
  <2>0. /\ apply' \in Applies /\ lately' \in [Asker -> SUBSET BoxEntry]
    BY Started DEF Selection!TypeOK, Applies, Stages
  <2>1. Selection!TypeOK'
    BY <2>0 DEF Selection!TypeOK, Applies, Stages
  <2>2. ASSUME NEW b \in Asker, NEW x, Answered(b, x), asker[b] # "new" PROVE Answered(b, x)' /\ asker'[b] # "new"
    BY <2>2 DEF Selection!TypeOK, Answered, ApplySound, AskerSound
  <2>3. ApplySound'
    BY <2>2, OfferableServes, OnlyOne DEF Selection!TypeOK, ApplySound, AskerSound, Answered, Selection!Serving
  <2>4. ASSUME NEW c, ContentSound(c) PROVE c.text \in BoxEntry => /\ c.by \in Asker /\ asker'[c.by] # "new"
                          /\ Answered(c.by, c.text)' /\ c.text \in lately'[c.by]
    BY <2>2, <2>4 DEF Selection!TypeOK, ContentSound, Answered, Selection!Serving
  <2>5. ContentSound(choiceFile)' /\ \A q \in Selection!Process : ContentSound(tmp[q])'
    BY <2>4 DEF Selection!TypeOK, ContentSound, Selection!Partial
  <2>6. QED
    BY <2>1, <2>3, <2>5
<1>8. ASSUME NEW a \in Asker, Selection!Recheck(a) PROVE SelectionInv'
  <2> USE <1>8 DEF Selection!Recheck, Selection!StartApply, Selection!Quits, Selection!At, Selection!To, Selection!Ends,
          Selection!Applying, Selection!Half, Selection!Chosen, Selection!Nothing
  <2>0. /\ apply' \in Applies /\ apply'[a].at \in {"open", "none"} /\ apply'[a].entry = apply[a].entry
        /\ \A b \in Asker : b # a => apply'[b] = apply[b]
    <3>1. PICK next \in {"open", "none"} : Selection!To(a, next)
      OBVIOUS
    <3>2. next \in Stages
      BY DEF Stages
    <3>3. QED
      BY <3>1, <3>2, Moved
  <2>1. Selection!TypeOK'
    BY <2>0, Contents DEF Selection!TypeOK, Applies, Stages
  <2>2. ASSUME NEW b \in Asker, NEW x, Answered(b, x), asker[b] # "new" PROVE Answered(b, x)' /\ asker'[b] # "new"
    BY <2>2 DEF Selection!TypeOK, Answered, ApplySound, AskerSound
  <2>3. ApplySound'
    <3>1. Selection!Serving' = Selection!Serving
      BY DEF Selection!Serving
    <3>2. ASSUME NEW b \in Asker, b # a PROVE AskerSound(b)'
      <4>1. /\ asker'[b] = asker[b] /\ choice'[b] = choice[b] /\ apply'[b] = apply[b] /\ lately'[b] = lately[b]
            /\ offer'[b] = offer[b] /\ applied'[b] = applied[b]
        BY <2>0, <3>2 DEF Selection!TypeOK
      <4>2. AskerSound(b)
        BY DEF ApplySound
      <4>3. QED
        BY <3>1, <4>1, <4>2 DEF AskerSound, Answered
    <3>3. AskerSound(a)'
      <4>1. /\ asker' = asker /\ choice' = choice /\ lately' = lately /\ offer' = offer
            /\ applied'[a] = applied[a] \/ applied'[a] \in {"changed", "write-failed", "applied"}
        BY DEF Selection!TypeOK
      <4>2. AskerSound(a) /\ (apply'[a].at # "none" => apply[a].at # "none")
        BY DEF ApplySound
      <4>3. ASSUME NEW e, Answered(a, e) PROVE Answered(a, e)'
        BY <4>1, <4>3 DEF Answered
      <4>4. ASSUME apply'[a].at = "open" PROVE apply[a].entry \in lately[a]
        <5>1. apply[a].entry \in BoxEntry /\ apply[a].at # "none"
          BY DEF ApplySound, AskerSound, Answered
        <5>2. Selection!Offerable(apply[a].entry)
          BY <2>0, <4>4 DEF Selection!TypeOK
        <5>3. QED
          BY <4>2, <5>1, <5>2, OfferableServes DEF AskerSound
      <4>5. QED
        BY <2>0, <3>1, <4>1, <4>2, <4>3, <4>4 DEF AskerSound, Answered
    <3>4. QED
      BY <3>2, <3>3 DEF ApplySound
  <2>4. ASSUME NEW c, ContentSound(c) PROVE c.text \in BoxEntry => /\ c.by \in Asker /\ asker'[c.by] # "new"
                          /\ Answered(c.by, c.text)' /\ c.text \in lately'[c.by]
    BY <2>2, <2>4 DEF Selection!TypeOK, ContentSound, Answered, Selection!Serving
  <2>5. ContentSound(choiceFile)' /\ \A q \in Selection!Process : ContentSound(tmp[q])'
    BY <2>4 DEF Selection!TypeOK, ContentSound, Selection!Partial
  <2>6. QED
    BY <2>1, <2>3, <2>5
<1>9. ASSUME NEW a \in Asker, Selection!OpenTmp(a) PROVE SelectionInv'
  <2> USE <1>9 DEF Selection!OpenTmp, Selection!StartApply, Selection!Quits, Selection!At, Selection!To, Selection!Ends,
          Selection!Applying, Selection!Half, Selection!Chosen, Selection!Nothing
  <2>1. Selection!TypeOK'
    BY DEF Selection!TypeOK, Selection!Content, Selection!Serving, Selection!Box
  <2>2. ASSUME NEW b \in Asker, NEW x, Answered(b, x), asker[b] # "new" PROVE Answered(b, x)' /\ asker'[b] # "new"
    BY <2>2 DEF Selection!TypeOK, Answered, ApplySound, AskerSound
  <2>3. ApplySound'
    BY <2>2, OfferableServes, OnlyOne DEF Selection!TypeOK, ApplySound, AskerSound, Answered, Selection!Serving
  <2>4. ASSUME NEW c, ContentSound(c) PROVE c.text \in BoxEntry => /\ c.by \in Asker /\ asker'[c.by] # "new"
                          /\ Answered(c.by, c.text)' /\ c.text \in lately'[c.by]
    BY <2>2, <2>4 DEF Selection!TypeOK, ContentSound, Answered, Selection!Serving
  <2>5. ContentSound(choiceFile)' /\ \A q \in Selection!Process : ContentSound(tmp[q])'
    BY <2>4 DEF Selection!TypeOK, ContentSound, Selection!Partial
  <2>6. QED
    BY <2>1, <2>3, <2>5
<1>10. ASSUME NEW a \in Asker, Selection!FillTmp(a) PROVE SelectionInv'
  <2> USE <1>10 DEF Selection!FillTmp, Selection!StartApply, Selection!Quits, Selection!At, Selection!To, Selection!Ends,
          Selection!Applying, Selection!Half, Selection!Chosen, Selection!Nothing
  <2>1. Selection!TypeOK'
    BY DEF Selection!TypeOK, Selection!Content, Selection!Serving, Selection!Box
  <2>2. ASSUME NEW b \in Asker, NEW x, Answered(b, x), asker[b] # "new" PROVE Answered(b, x)' /\ asker'[b] # "new"
    BY <2>2 DEF Selection!TypeOK, Answered, ApplySound, AskerSound
  <2>3. ApplySound'
    BY <2>2, OfferableServes, OnlyOne DEF Selection!TypeOK, ApplySound, AskerSound, Answered, Selection!Serving
  <2>4. ASSUME NEW c, ContentSound(c) PROVE c.text \in BoxEntry => /\ c.by \in Asker /\ asker'[c.by] # "new"
                          /\ Answered(c.by, c.text)' /\ c.text \in lately'[c.by]
    BY <2>2, <2>4 DEF Selection!TypeOK, ContentSound, Answered, Selection!Serving
  <2>5. ContentSound(choiceFile)' /\ \A q \in Selection!Process : ContentSound(tmp[q])'
    <3>1. asker[a] # "new" /\ Answered(a, apply[a].entry) /\ apply[a].entry \in lately[a]
      BY DEF ApplySound, AskerSound
    <3>2. ASSUME NEW c, ContentSound(c) \/ c = Selection!Chosen(a) \/ c = Selection!Half(a)
          PROVE  c.text \in BoxEntry => /\ c.by \in Asker /\ asker'[c.by] # "new"
                          /\ Answered(c.by, c.text)' /\ c.text \in lately'[c.by]
      <4>1. CASE ContentSound(c)
        BY <2>4, <4>1
      <4>2. CASE c = Selection!Chosen(a)
        <5>1. c.text = apply[a].entry /\ c.by = a
          BY <4>2
        <5>2. Answered(a, apply[a].entry)' /\ asker'[a] # "new" /\ lately'[a] = lately[a]
          BY <2>2, <3>1
        <5>3. QED
          BY <3>1, <5>1, <5>2 DEF Answered
      <4>3. CASE c = Selection!Half(a)
        BY <4>3 DEF Selection!Partial
      <4>4. QED
        BY <3>2, <4>1, <4>2, <4>3
    <3>3. \/ ContentSound(choiceFile) /\ choiceFile' = choiceFile
          \/ choiceFile' = Selection!Chosen(a)
      OBVIOUS
    <3>4. ASSUME NEW q \in Selection!Process
          PROVE  \/ ContentSound(tmp[q]) /\ tmp'[q] = tmp[q]
                 \/ tmp'[q] = Selection!Chosen(a) \/ tmp'[q] = Selection!Half(a)
      BY DEF Selection!TypeOK
    <3>5. ContentSound(choiceFile)'
      BY <3>2, <3>3 DEF ContentSound
    <3>6. \A q \in Selection!Process : ContentSound(tmp[q])'
      BY <3>2, <3>4 DEF ContentSound
    <3>7. QED
      BY <3>5, <3>6
  <2>6. QED
    BY <2>1, <2>3, <2>5
<1>11. ASSUME NEW a \in Asker, Selection!RenameTmp(a) PROVE SelectionInv'
  <2> USE <1>11 DEF Selection!RenameTmp, Selection!StartApply, Selection!Quits, Selection!At, Selection!To, Selection!Ends,
          Selection!Applying, Selection!Half, Selection!Chosen, Selection!Nothing
  <2>0. /\ apply' \in Applies /\ apply'[a].at \in {"none"} /\ apply'[a].entry = apply[a].entry
        /\ \A b \in Asker : b # a => apply'[b] = apply[b]
    <3>1. PICK next \in {"none"} : Selection!To(a, next)
      OBVIOUS
    <3>2. next \in Stages
      BY DEF Stages
    <3>3. QED
      BY <3>1, <3>2, Moved
  <2>1. Selection!TypeOK'
    <3>1. Selection!Runs(a) \in Selection!Process /\ Selection!Nothing \in Selection!Content
      BY Contents
    <3>2. choiceFile' \in Selection!Content /\ tmp' \in [Selection!Process -> Selection!Content]
      <4>1. CASE tmp[Selection!Runs(a)] = Selection!Nothing
        BY <4>1 DEF Selection!TypeOK
      <4>2. CASE tmp[Selection!Runs(a)] # Selection!Nothing
        BY <3>1, <4>2 DEF Selection!TypeOK
      <4>3. QED
        BY <4>1, <4>2
    <3>3. applied' \in [Asker -> {"none", "no-answer", "changed", "applied", "write-failed"}]
      BY DEF Selection!TypeOK
    <3>4. QED
      BY <2>0, <3>2, <3>3 DEF Selection!TypeOK, Applies, Stages
  <2>2. ASSUME NEW b \in Asker, NEW x, Answered(b, x), asker[b] # "new" PROVE Answered(b, x)' /\ asker'[b] # "new"
    BY <2>2 DEF Selection!TypeOK, Answered, ApplySound, AskerSound
  <2>3. ApplySound'
    <3>1. Selection!Serving' = Selection!Serving
      BY DEF Selection!Serving
    <3>2. ASSUME NEW b \in Asker, b # a PROVE AskerSound(b)'
      <4>1. /\ asker'[b] = asker[b] /\ choice'[b] = choice[b] /\ apply'[b] = apply[b] /\ lately'[b] = lately[b]
            /\ offer'[b] = offer[b] /\ applied'[b] = applied[b]
        BY <2>0, <3>2 DEF Selection!TypeOK
      <4>2. AskerSound(b)
        BY DEF ApplySound
      <4>3. QED
        BY <3>1, <4>1, <4>2 DEF AskerSound, Answered
    <3>3. AskerSound(a)'
      <4>1. /\ asker' = asker /\ choice' = choice /\ lately' = lately /\ offer' = offer
            /\ applied'[a] = applied[a] \/ applied'[a] \in {"changed", "write-failed", "applied"}
        BY DEF Selection!TypeOK
      <4>2. AskerSound(a) /\ (apply'[a].at # "none" => apply[a].at # "none")
        BY DEF ApplySound
      <4>3. ASSUME NEW e, Answered(a, e) PROVE Answered(a, e)'
        BY <4>1, <4>3 DEF Answered
      <4>4. ASSUME apply'[a].at = "open" PROVE apply[a].entry \in lately[a]
        BY <2>0, <4>4
      <4>5. QED
        BY <2>0, <3>1, <4>1, <4>2, <4>3, <4>4 DEF AskerSound, Answered
    <3>4. QED
      BY <3>2, <3>3 DEF ApplySound
  <2>4. ASSUME NEW c, ContentSound(c) PROVE c.text \in BoxEntry => /\ c.by \in Asker /\ asker'[c.by] # "new"
                          /\ Answered(c.by, c.text)' /\ c.text \in lately'[c.by]
    BY <2>2, <2>4 DEF Selection!TypeOK, ContentSound, Answered, Selection!Serving
  <2>5. ContentSound(choiceFile)' /\ \A q \in Selection!Process : ContentSound(tmp[q])'
    BY <2>4 DEF Selection!TypeOK, ContentSound, Selection!Partial
  <2>6. QED
    BY <2>1, <2>3, <2>5
<1>12. ASSUME NEW a \in Asker, Selection!WriteFails(a) PROVE SelectionInv'
  <2> USE <1>12 DEF Selection!WriteFails, Selection!StartApply, Selection!Quits, Selection!At, Selection!To, Selection!Ends,
          Selection!Applying, Selection!Half, Selection!Chosen, Selection!Nothing
  <2>1. Selection!TypeOK'
    BY DEF Selection!TypeOK, Selection!Content, Selection!Serving, Selection!Box
  <2>2. ASSUME NEW b \in Asker, NEW x, Answered(b, x), asker[b] # "new" PROVE Answered(b, x)' /\ asker'[b] # "new"
    BY <2>2 DEF Selection!TypeOK, Answered, ApplySound, AskerSound
  <2>3. ApplySound'
    BY <2>2, OfferableServes, OnlyOne DEF Selection!TypeOK, ApplySound, AskerSound, Answered, Selection!Serving
  <2>4. ASSUME NEW c, ContentSound(c) PROVE c.text \in BoxEntry => /\ c.by \in Asker /\ asker'[c.by] # "new"
                          /\ Answered(c.by, c.text)' /\ c.text \in lately'[c.by]
    BY <2>2, <2>4 DEF Selection!TypeOK, ContentSound, Answered, Selection!Serving
  <2>5. ContentSound(choiceFile)' /\ \A q \in Selection!Process : ContentSound(tmp[q])'
    BY <2>4 DEF Selection!TypeOK, ContentSound, Selection!Partial
  <2>6. QED
    BY <2>1, <2>3, <2>5
<1>13. ASSUME NEW p \in Selection!Process, Selection!ProcessDies(p) PROVE SelectionInv'
  <2> USE <1>13 DEF Selection!ProcessDies, Selection!StartApply, Selection!Quits, Selection!At, Selection!To, Selection!Ends,
          Selection!Applying, Selection!Half, Selection!Chosen, Selection!Nothing
  <2>1. Selection!TypeOK'
    BY DEF Selection!TypeOK, Selection!Content, Selection!Serving, Selection!Box
  <2>2. ASSUME NEW b \in Asker, NEW x, Answered(b, x), asker[b] # "new" PROVE Answered(b, x)' /\ asker'[b] # "new"
    BY <2>2 DEF Selection!TypeOK, Answered, ApplySound, AskerSound
  <2>3. ApplySound'
    BY <2>2, OfferableServes, OnlyOne DEF Selection!TypeOK, ApplySound, AskerSound, Answered, Selection!Serving
  <2>4. ASSUME NEW c, ContentSound(c) PROVE c.text \in BoxEntry => /\ c.by \in Asker /\ asker'[c.by] # "new"
                          /\ Answered(c.by, c.text)' /\ c.text \in lately'[c.by]
    BY <2>2, <2>4 DEF Selection!TypeOK, ContentSound, Answered, Selection!Serving
  <2>5. ContentSound(choiceFile)' /\ \A q \in Selection!Process : ContentSound(tmp[q])'
    BY <2>4 DEF Selection!TypeOK, ContentSound, Selection!Partial
  <2>6. QED
    BY <2>1, <2>3, <2>5
<1>14. CASE UNCHANGED Selection!selectionVars
  BY <1>14 DEF Selection!selectionVars, Selection!TypeOK, ApplySound, AskerSound, ContentSound, Answered, Selection!Serving
<1>15. QED
  BY <1>1, <1>2, <1>3, <1>4, <1>5, <1>6, <1>7, <1>8, <1>9, <1>10, <1>11, <1>12, <1>13, <1>14 DEF Selection!Next

LEMMA SelectionStart == Selection!Init => SelectionInv
<1> SUFFICES ASSUME Selection!Init PROVE SelectionInv
  OBVIOUS
<1>1. Selection!TypeOK
  <2>1. Selection!Nothing \in Selection!Content
    BY DEF Selection!Nothing, Selection!Content
  <2>2. QED
    BY <2>1, MachineAssumptions DEF Selection!Init, Selection!TypeOK, Selection!SelectionAssumption, Selection!Box
<1>2. ApplySound
  BY DEF Selection!Init, ApplySound, AskerSound
<1>3. ContentSound(choiceFile) /\ \A p \in Selection!Process : ContentSound(tmp[p])
  BY MachineAssumptions DEF Selection!Init, Selection!SelectionAssumption, ContentSound, Selection!Nothing
<1>4. QED
  BY <1>1, <1>2, <1>3 DEF SelectionInv

LEMMA ChoiceChecked == SelectionInv => AppliedChecked
<1> SUFFICES ASSUME SelectionInv, NEW a \in Asker, choiceFile.by = a, choiceFile.text \in BoxEntry
             PROVE  /\ choiceFile.text \in offer[a] \cap lately[a]
                    /\ choiceFile.text = choice[a] \/ offer[a] = {choiceFile.text}
                    /\ a \in Picker => applied[a] # "no-answer"
  BY DEF AppliedChecked, Selection!AppliedChecked
<1>1. QED
  BY DEF SelectionInv, ContentSound, Answered

\* The selection file names only a box that was offered, answered (or the only one) and
\* seen serving since the answer, however the applies of the daemon share their temporary
\* file; a picker that reported no answer wrote nothing.
THEOREM ChosenChecked == PartsSpec => []AppliedChecked
<1>1. Selection!SelectionSpec => []SelectionInv
  BY SelectionStart, SelectionStep, PTL DEF Selection!SelectionSpec
<1>2. QED
  BY <1>1, ChoiceChecked, SelectionPart, PTL

-----------------------------------------------------------------------------
(* Model tidy: src/model-tidy.mjs *)

\* A behaviour of the parts is one of model tidy, which moves or stands still.
LEMMA TidyPart == PartsSpec => Tidy!Init /\ [][Tidy!Next]_(Tidy!vars)
<1>1. PartsInit => Tidy!Init
  BY DEF PartsInit
<1>2. [PartsNext]_partsVars => [Tidy!Next]_(Tidy!vars)
  BY DEF PartsNext, partsVars, machineVars, tidyVars, Tidy!vars
<1>3. QED
  BY <1>1, <1>2, PTL DEF PartsSpec

KindAt(s, loc) == fs[<<s, loc>>].kind
ItemsAt(s, loc) == fs[<<s, loc>>].items
Originals == File \X {"intact"}
Intacts == (File \cup Added) \X {"intact"}

\* What can be at the five paths of a source: copies and originals are directories, the
\* pending link is a link, and only a directory holds files.
Shaped(s) ==
    /\ \A loc \in Tidy!Location : fs[<<s, loc>>] \in Tidy!Node
    /\ \A loc \in Tidy!Location : KindAt(s, loc) # "dir" => ItemsAt(s, loc) = {}
    /\ \A loc \in {"staged", "target", "quarantine"} : KindAt(s, loc) # "link"
    /\ KindAt(s, "link") # "dir"

\* The path itself never shows a damaged file: an original is put back only if it has
\* what its record lists, and then none of it is damaged.
Undamaged(s) ==
    /\ ItemsAt(s, "source") \subseteq Intacts
    /\ Originals \subseteq ItemsAt(s, "staged") => ItemsAt(s, "staged") \subseteq Intacts
    /\ journal[s] \in Tidy!Record
    /\ journal[s].live => Originals \subseteq journal[s].manifest /\ journal[s].manifest \subseteq Intacts

\* Without a record a path is a directory with all files, or a link to one.
Served(s) ==
    ~journal[s].live =>
        /\ KindAt(s, "source") # "none" /\ KindAt(s, "staged") # "dir"
        /\ Originals \subseteq ItemsAt(s, IF KindAt(s, "source") = "dir" THEN "source" ELSE "target")

Kept(s) ==
    /\ added[s] \subseteq Added
    /\ \A f \in File \cup added[s] : \E loc \in Tidy!Location : <<f, "intact">> \in ItemsAt(s, loc)

SourceSound(s) == Shaped(s) /\ Undamaged(s) /\ Served(s) /\ Kept(s)

Finishing == {"finalize", "clear", "quarantine", "restore", "forget"}
Swapping == {"link", "stage", "place"} \cup Finishing

\* What the process has checked or done and acts on next.
StepSound ==
    /\ pc \in {"idle", "recover", "apply", "copy", "verify", "swap"} \cup Swapping
    /\ pc \in Swapping => moved \in Source /\ journal[moved].live
    /\ pc \in {"link", "stage"} => KindAt(moved, "source") = "dir" /\ KindAt(moved, "staged") = "none"
    /\ pc \in {"stage", "place"} => KindAt(moved, "link") = "link"
    /\ pc \in {"clear", "quarantine"} => KindAt(moved, "source") = "link"
    /\ pc = "clear" => Originals \cup ItemsAt(moved, "staged") \subseteq ItemsAt(moved, "target")
    /\ pc = "restore" => /\ KindAt(moved, "source") # "link" /\ KindAt(moved, "staged") = "dir"
                         /\ ItemsAt(moved, "staged") = journal[moved].manifest
    /\ pc = "forget" =>
          /\ KindAt(moved, "source") # "none" /\ KindAt(moved, "staged") = "none"
          /\ Originals \subseteq ItemsAt(moved, IF KindAt(moved, "source") = "dir" THEN "source" ELSE "target")

\* What is still to be recovered is journaled; what is still to be moved is a directory
\* that is not; and each is in one unit.
ToMove == (UNION groups) \cup (group \ (IF pc \in Swapping THEN {moved} ELSE {}))
Queued ==
    /\ todos \subseteq {s \in Source : journal[s].live}
    /\ pc \in {"idle", "recover", "apply"} => group = {}
    /\ pc = "recover" \/ todos = {} \/ (pc \in Finishing /\ moved \in todos /\ group = {})
    /\ pc \in Swapping => moved \in todos \/ moved \in group
    /\ group \subseteq Source /\ groups \subseteq SUBSET Source
    /\ \A s \in ToMove : ~journal[s].live /\ KindAt(s, "source") = "dir"
    /\ \A g, h \in groups : g = h \/ g \cap h = {}
    /\ \A g \in groups : group \cap g = {}

\* Recovery has brought back what it is through with and can be brought back.
Healed ==
    pc = "recover" \/ (pc \in Finishing /\ moved \in todos) =>
        \A s \in Source \ todos : KindAt(s, "source") = "none" =>
            ~(KindAt(s, "staged") = "dir" /\ ItemsAt(s, "staged") = journal[s].manifest)

Disk == [Source \X Tidy!Location -> Tidy!Node]
AllSound ==
    /\ fs \in Disk /\ journal \in [Source -> Tidy!Record] /\ added \in [Source -> SUBSET Added]
    /\ \A s \in Source : SourceSound(s)
TidyInv == AllSound /\ StepSound /\ Queued /\ Healed

\* One path is written.
LEMMA Writes ==
    ASSUME fs \in Disk, NEW s \in Source, NEW a \in Tidy!Location, NEW node \in Tidy!Node,
           fs' = [fs EXCEPT ![<<s, a>>] = node]
    PROVE  /\ fs' \in Disk /\ fs'[<<s, a>>] = node
           /\ \A t \in Source, b \in Tidy!Location : (t = s /\ b = a) \/ fs'[<<t, b>>] = fs[<<t, b>>]
  BY DEF Disk

\* A path is renamed to another, over what is there.
LEMMA Renames ==
    ASSUME fs \in Disk, NEW s \in Source, NEW from \in Tidy!Location, NEW to \in Tidy!Location, from # to,
           fs' = Tidy!Renamed(s, from, to)
    PROVE  /\ fs' \in Disk /\ fs'[<<s, to>>] = fs[<<s, from>>] /\ fs'[<<s, from>>] = Tidy!Nothing
           /\ \A t \in Source, b \in Tidy!Location :
                 (t = s /\ b \in {from, to}) \/ fs'[<<t, b>>] = fs[<<t, b>>]
<1>1. Tidy!Nothing \in Tidy!Node
  BY DEF Tidy!Nothing, Tidy!Node
<1> HIDE DEF Tidy!Location
<1>2. <<s, to>> # <<s, from>> /\ fs[<<s, from>>] \in Tidy!Node
  BY DEF Disk
<1>3. QED
  BY <1>1, <1>2 DEF Disk, Tidy!Renamed

\* A path keeps its shape if it is emptied, or becomes a directory or a link where it may.
LEMMA ShapeKept ==
    ASSUME NEW s \in Source, Shaped(s), fs' \in Disk,
           \A a \in Tidy!Location :
              \/ fs'[<<s, a>>] = fs[<<s, a>>]
              \/ fs'[<<s, a>>] = Tidy!Nothing
              \/ fs'[<<s, a>>].kind = "dir" /\ a # "link"
              \/ fs'[<<s, a>>] = Tidy!Link /\ a \in {"source", "link"}
    PROVE  Shaped(s)'
<1> SUFFICES ASSUME NEW a \in Tidy!Location
             PROVE  /\ fs'[<<s, a>>] \in Tidy!Node
                    /\ fs'[<<s, a>>].kind # "dir" => fs'[<<s, a>>].items = {}
                    /\ a \in {"staged", "target", "quarantine"} => fs'[<<s, a>>].kind # "link"
                    /\ a = "link" => fs'[<<s, a>>].kind # "dir"
  BY DEF Shaped, KindAt, ItemsAt, Tidy!Location
<1>1. fs'[<<s, a>>] \in Tidy!Node
  BY DEF Disk
<1>2. CASE fs'[<<s, a>>] = fs[<<s, a>>]
  BY <1>1, <1>2 DEF Shaped, KindAt, ItemsAt
<1>3. CASE fs'[<<s, a>>] = Tidy!Nothing
  BY <1>1, <1>3 DEF Tidy!Nothing
<1>4. CASE fs'[<<s, a>>] = Tidy!Link /\ a \in {"source", "link"}
  BY <1>1, <1>4 DEF Tidy!Link
<1>5. CASE fs'[<<s, a>>].kind = "dir" /\ a # "link"
  BY <1>1, <1>5
<1>6. QED
  BY <1>2, <1>3, <1>4, <1>5

\* A step that touches one source leaves the others sound.
LEMMA SoundElsewhere ==
    ASSUME AllSound, NEW s \in Source, SourceSound(s)',
           fs' \in Disk, journal' \in [Source -> Tidy!Record], added' \in [Source -> SUBSET Added],
           \A t \in Source \ {s} : /\ \A a \in Tidy!Location : fs'[<<t, a>>] = fs[<<t, a>>]
                                   /\ journal'[t] = journal[t] /\ added'[t] = added[t]
    PROVE  AllSound'
<1> SUFFICES ASSUME NEW t \in Source \ {s} PROVE SourceSound(t)'
  BY DEF AllSound
<1>1. SourceSound(t)
  BY DEF AllSound
<1>2. \A a \in Tidy!Location : fs'[<<t, a>>] = fs[<<t, a>>]
  OBVIOUS
<1>3. journal'[t] = journal[t] /\ added'[t] = added[t]
  OBVIOUS
<1>4. {"source", "staged", "link", "target", "quarantine"} = Tidy!Location
  BY DEF Tidy!Location
<1>5. Shaped(t)' /\ Undamaged(t)' /\ Served(t)'
  BY <1>1, <1>2, <1>3, <1>4 DEF SourceSound, Shaped, Undamaged, Served, KindAt, ItemsAt
<1>6. Kept(t)'
  BY <1>1, <1>2, <1>3 DEF SourceSound, Kept, ItemsAt
<1>7. QED
  BY <1>5, <1>6 DEF SourceSound

\* The process goes on from one of its steps to the next without touching the disk.
LEMMA SoundStill ==
    ASSUME AllSound, UNCHANGED <<fs, journal, added>> PROVE AllSound'
  BY DEF AllSound, SourceSound, Shaped, Undamaged, Served, Kept, KindAt, ItemsAt
\* What is still to be moved are sources.
LEMMA MovesKnown == Queued => ToMove \subseteq Source
<1> SUFFICES ASSUME Queued, NEW s \in ToMove PROVE s \in Source
  OBVIOUS
<1>1. CASE s \in group
  BY <1>1 DEF Queued
<1>2. CASE \E g \in groups : s \in g
  BY <1>2 DEF Queued
<1>3. s \in UNION groups \/ s \in group
  BY DEF ToMove
<1>4. s \in UNION groups => \E g \in groups : s \in g
  OBVIOUS
<1>5. QED
  BY <1>1, <1>2, <1>3, <1>4

\* The process goes on with the source it works on.
LEMMA Proceeds ==
    ASSUME TidyInv, pc \in Swapping, pc' \in Swapping, pc \in Finishing => pc' \in Finishing,
           UNCHANGED <<todos, groups, group, moved, journal>>,
           \A t \in Source \ {moved} : \A a \in Tidy!Location : fs'[<<t, a>>] = fs[<<t, a>>]
    PROVE  Queued' /\ Healed'
<1>1. moved \in Source /\ journal[moved].live
  BY DEF TidyInv, StepSound
<1>2. pc \notin Finishing => todos = {}
  BY DEF TidyInv, Queued, Swapping, Finishing
<1>3. \A t \in Source \ {moved} : \A a \in {"source", "staged"} :
          KindAt(t, a)' = KindAt(t, a) /\ ItemsAt(t, a)' = ItemsAt(t, a)
  BY DEF KindAt, ItemsAt, Tidy!Location
<1>4. ToMove' = ToMove /\ moved \notin ToMove /\ ToMove \subseteq Source
  <2>1. ToMove' = ToMove
    BY DEF ToMove
  <2>2. QED
    BY <2>1, <1>1, MovesKnown DEF TidyInv, Queued
<1>5. \A t \in ToMove' : (~journal[t].live /\ KindAt(t, "source") = "dir")'
  <2> SUFFICES ASSUME NEW t \in ToMove PROVE (~journal[t].live /\ KindAt(t, "source") = "dir")'
    BY <1>4
  <2>1. ~journal[t].live /\ KindAt(t, "source") = "dir" /\ t \in Source \ {moved}
    BY <1>4 DEF TidyInv, Queued
  <2>2. QED
    BY <2>1, <1>3
<1>6. pc' \notin {"idle", "recover", "apply"} /\ pc \notin {"idle", "recover", "apply"}
  BY DEF Swapping, Finishing
<1>7. Queued'
  BY <1>1, <1>2, <1>5, <1>6 DEF TidyInv, Queued
<1>8. Healed'
  BY <1>1, <1>2, <1>3, <1>6 DEF TidyInv, Healed
<1>9. QED
  BY <1>7, <1>8

\* The process is through with the source it worked on.
LEMMA Returns ==
    ASSUME TidyInv, pc \in Finishing, NEW ok \in BOOLEAN, Tidy!Return(ok),
           UNCHANGED <<groups, moved>>,
           \A t \in Source \ {moved} :
              /\ \A a \in Tidy!Location : fs'[<<t, a>>] = fs[<<t, a>>]
              /\ journal'[t] = journal[t],
           (KindAt(moved, "source") = "none" =>
                ~(KindAt(moved, "staged") = "dir" /\ ItemsAt(moved, "staged") = journal[moved].manifest))'
    PROVE  StepSound' /\ Queued' /\ Healed'
<1>1. moved \in Source /\ journal[moved].live /\ pc \in Swapping
  BY DEF TidyInv, StepSound, Swapping
<1>2. \A t \in Source \ {moved} : \A a \in {"source", "staged"} :
          KindAt(t, a)' = KindAt(t, a) /\ ItemsAt(t, a)' = ItemsAt(t, a)
  BY DEF KindAt, ItemsAt, Tidy!Location
<1>3. moved \notin ToMove /\ ToMove \subseteq Source
  BY <1>1, MovesKnown DEF TidyInv, Queued
<1>4. /\ pc' \in {"recover", "swap", "apply"} /\ pc' \notin Swapping
      /\ pc' = "recover" => moved \in todos
  BY DEF Tidy!Return, Swapping, Finishing
<1>5. ToMove' \subseteq ToMove
  BY <1>1, <1>4 DEF ToMove, Tidy!Return, TidyInv, Queued, Finishing
<1>6. \A t \in ToMove' : (~journal[t].live /\ KindAt(t, "source") = "dir")'
  <2> SUFFICES ASSUME NEW t \in ToMove' PROVE (~journal[t].live /\ KindAt(t, "source") = "dir")'
    OBVIOUS
  <2>1. ~journal[t].live /\ KindAt(t, "source") = "dir" /\ t \in Source \ {moved}
    BY <1>3, <1>5 DEF TidyInv, Queued
  <2>2. QED
    BY <2>1, <1>2
<1>7. StepSound'
  BY <1>4 DEF StepSound, Swapping, Finishing
<1>8. /\ todos' \subseteq todos \ {moved} /\ group' \subseteq group
      /\ pc' \in {"recover", "apply"} => group' = {}
      /\ pc' = "recover" \/ todos' = {}
  BY DEF Tidy!Return, TidyInv, Queued, Finishing
<1>9. \A t \in todos' : t \in Source /\ journal'[t].live
  BY <1>8 DEF TidyInv, Queued
<1>10. Queued'
  BY <1>4, <1>6, <1>8, <1>9 DEF TidyInv, Queued
<1>11. Healed'
  <2> SUFFICES ASSUME pc' = "recover", NEW t \in Source \ todos', KindAt(t, "source")' = "none"
               PROVE  ~(KindAt(t, "staged") = "dir" /\ ItemsAt(t, "staged") = journal[t].manifest)'
    BY <1>4 DEF Healed, Swapping
  <2>1. CASE t = moved
    BY <2>1
  <2>2. CASE t # moved
    <3>1. t \in Source \ todos /\ moved \in todos
      BY <2>2, <1>4 DEF Tidy!Return
    <3>2. KindAt(t, "source") = "none" => ~(KindAt(t, "staged") = "dir" /\ ItemsAt(t, "staged") = journal[t].manifest)
      BY <3>1 DEF TidyInv, Healed
    <3>3. QED
      BY <3>2, <2>2, <1>2
  <2>3. QED
    BY <2>1, <2>2
<1>12. QED
  BY <1>7, <1>10, <1>11
\* No link was placed: the original comes back, or is there.
LEMMA RecoverOriginalStep ==
    ASSUME TidyInv, NEW s \in Source, Tidy!RecoverOriginal(s) PROVE TidyInv'
<1> USE DEF Tidy!Kind, Tidy!Items, KindAt, ItemsAt
<1>1. /\ pc = "recover" /\ s \in todos /\ moved' = s /\ pc' = "forget" /\ Tidy!Trusted(s)
      /\ UNCHANGED <<journal, added, todos, groups, group>>
  BY DEF Tidy!RecoverOriginal, Tidy!world
<1>2. fs \in Disk /\ SourceSound(s) /\ journal[s].live /\ group = {}
  BY <1>1 DEF TidyInv, AllSound, Queued
<1>3. /\ Shaped(s)' /\ KindAt(s, "source")' = "dir" /\ KindAt(s, "staged")' # "dir"
      /\ Originals \subseteq ItemsAt(s, "source")' /\ ItemsAt(s, "source")' \subseteq Intacts
      /\ \A f \in File \cup Added : Tidy!Intact(s, f) => Tidy!Intact(s, f)'
      /\ fs' \in Disk /\ \A t \in Source \ {s}, a \in Tidy!Location : fs'[<<t, a>>] = fs[<<t, a>>]
  <2>1. CASE /\ KindAt(s, "source") = "none" /\ Tidy!Exists(s, "staged") /\ ~Tidy!Exists(s, "link")
             /\ fs' = Tidy!Renamed(s, "staged", "source")
    <3>1. /\ fs' \in Disk /\ fs'[<<s, "source">>] = fs[<<s, "staged">>] /\ fs'[<<s, "staged">>] = Tidy!Nothing
          /\ \A t \in Source, a \in Tidy!Location :
                (t = s /\ a \in {"staged", "source"}) \/ fs'[<<t, a>>] = fs[<<t, a>>]
      BY <1>2, <2>1, Renames DEF Tidy!Location
    <3>2. KindAt(s, "staged") = "dir" /\ journal[s].manifest \subseteq ItemsAt(s, "staged")
      BY <1>1, <1>2, <2>1 DEF SourceSound, Shaped, Tidy!Trusted, Tidy!Exists, Tidy!VerifyManifest
    <3>3. Originals \subseteq ItemsAt(s, "staged") /\ ItemsAt(s, "staged") \subseteq Intacts
      BY <1>2, <3>2 DEF SourceSound, Undamaged
    <3>4. Shaped(s)'
      BY <1>2, <3>1, <3>2, ShapeKept DEF SourceSound, Tidy!Location
    <3>5. \A f \in File \cup Added : Tidy!Intact(s, f) => Tidy!Intact(s, f)'
      BY <1>2, <2>1, <3>1 DEF SourceSound, Shaped, Tidy!Location, Tidy!Nothing, Tidy!Intact
    <3>6. QED
      BY <3>1, <3>2, <3>3, <3>4, <3>5 DEF Tidy!Nothing
  <2>2. CASE /\ KindAt(s, "source") = "dir" /\ Tidy!Exists(s, "link") /\ ~Tidy!Exists(s, "staged")
             /\ fs' = [fs EXCEPT ![<<s, "link">>] = Tidy!Nothing]
    <3>1. /\ fs' \in Disk /\ fs'[<<s, "link">>] = Tidy!Nothing
          /\ \A t \in Source, a \in Tidy!Location : (t = s /\ a = "link") \/ fs'[<<t, a>>] = fs[<<t, a>>]
      <4>1. Tidy!Nothing \in Tidy!Node /\ "link" \in Tidy!Location
        BY DEF Tidy!Nothing, Tidy!Node, Tidy!Location
      <4>2. QED
        BY <1>2, <2>2, <4>1, Writes
    <3>2. KindAt(s, "staged") # "dir" /\ journal[s].manifest \subseteq ItemsAt(s, "source")
      BY <1>1, <2>2 DEF Tidy!Trusted, Tidy!Exists, Tidy!VerifyManifest
    <3>3. Originals \subseteq ItemsAt(s, "source") /\ ItemsAt(s, "source") \subseteq Intacts
      BY <1>2, <3>2 DEF SourceSound, Undamaged
    <3>4. Shaped(s)'
      BY <1>2, <3>1, ShapeKept DEF SourceSound, Tidy!Location
    <3>5. \A f \in File \cup Added : Tidy!Intact(s, f) => Tidy!Intact(s, f)'
      BY <1>2, <2>2, <3>1 DEF SourceSound, Shaped, Tidy!Location, Tidy!Nothing, Tidy!Intact
    <3>6. QED
      BY <2>2, <3>1, <3>2, <3>3, <3>4, <3>5 DEF Tidy!Location
  <2>3. CASE /\ KindAt(s, "source") = "dir" /\ ~Tidy!Exists(s, "link") /\ ~Tidy!Exists(s, "staged")
             /\ UNCHANGED fs
    <3>2. KindAt(s, "staged") # "dir" /\ journal[s].manifest \subseteq ItemsAt(s, "source")
      BY <1>1, <2>3 DEF Tidy!Trusted, Tidy!Exists, Tidy!VerifyManifest
    <3>3. Originals \subseteq ItemsAt(s, "source") /\ ItemsAt(s, "source") \subseteq Intacts
      BY <1>2, <3>2 DEF SourceSound, Undamaged
    <3>4. Shaped(s)'
      BY <1>2, <2>3 DEF SourceSound, Shaped
    <3>5. QED
      BY <1>2, <2>3, <3>2, <3>3, <3>4 DEF Tidy!Intact
  <2>4. QED
    BY <2>1, <2>2, <2>3 DEF Tidy!RecoverOriginal
<1>4. SourceSound(s)'
  <2>1. KindAt(s, "staged")' = "none" /\ ItemsAt(s, "staged")' = {}
    BY <1>3 DEF Shaped, Tidy!Location, Tidy!Node
  <2>2. Undamaged(s)'
    BY <1>1, <1>2, <1>3, <2>1 DEF SourceSound, Undamaged
  <2>3. Served(s)'
    BY <1>1, <1>2 DEF Served
  <2>4. Kept(s)'
    BY <1>1, <1>2, <1>3 DEF SourceSound, Kept, Tidy!Intact
  <2>5. QED
    BY <1>3, <2>2, <2>3, <2>4 DEF SourceSound
<1>5. AllSound'
  BY <1>1, <1>3, <1>4, SoundElsewhere DEF TidyInv, AllSound
<1>6. StepSound'
  <2>1. KindAt(s, "staged")' = "none"
    BY <1>3 DEF Shaped, Tidy!Location, Tidy!Node
  <2>2. QED
    BY <1>1, <1>2, <1>3, <2>1 DEF StepSound, Swapping, Finishing
<1>7. ToMove' = ToMove /\ ToMove \subseteq Source /\ s \notin ToMove
  <2>1. ToMove' = ToMove
    BY <1>1, <1>2 DEF ToMove
  <2>2. QED
    BY <2>1, <1>2, MovesKnown DEF TidyInv, Queued
<1>8. Queued'
  <2>1. \A t \in ToMove' : (~journal[t].live /\ KindAt(t, "source") = "dir")'
    BY <1>1, <1>3, <1>7 DEF TidyInv, Queued, Tidy!Location
  <2>2. QED
    BY <1>1, <1>2, <2>1 DEF TidyInv, Queued, Swapping, Finishing
<1>9. Healed'
  BY <1>1, <1>3 DEF TidyInv, Healed, Swapping, Finishing, Tidy!Location
<1>10. QED
  BY <1>5, <1>6, <1>8, <1>9 DEF TidyInv
\* A step leaves the source it works on sound if it loses no file.
LEMMA MovedSound ==
    ASSUME TidyInv, NEW s \in Source, journal[s].live, UNCHANGED <<journal, added>>,
           fs' \in Disk, Shaped(s)', ItemsAt(s, "source")' \subseteq Intacts,
           (Originals \subseteq ItemsAt(s, "staged") => ItemsAt(s, "staged") \subseteq Intacts)',
           \A f \in File \cup Added : Tidy!Intact(s, f) => Tidy!Intact(s, f)',
           \A t \in Source \ {s}, a \in Tidy!Location : fs'[<<t, a>>] = fs[<<t, a>>]
    PROVE  AllSound'
<1>1. SourceSound(s)
  BY DEF TidyInv, AllSound
<1>2. Undamaged(s)' /\ Served(s)'
  BY <1>1 DEF SourceSound, Undamaged, Served
<1>3. Kept(s)'
  BY <1>1 DEF SourceSound, Kept, Tidy!Intact, ItemsAt, Tidy!Items
<1>4. SourceSound(s)'
  BY <1>2, <1>3 DEF SourceSound
<1>5. QED
  BY <1>4, SoundElsewhere DEF TidyInv, AllSound

LEMMA FinalizeGoodStep == ASSUME TidyInv, Tidy!FinalizeGood PROVE TidyInv'
<1> DEFINE s == moved
<1> USE DEF Tidy!Kind, Tidy!Items, KindAt, ItemsAt
<1>1. /\ pc = "finalize" /\ pc' \in {"quarantine", "clear"} /\ s \in Source /\ journal[s].live
      /\ UNCHANGED <<journal, todos, groups, group, moved, added>>
  BY DEF Tidy!FinalizeGood, TidyInv, StepSound, Swapping, Finishing, Tidy!world
<1>2. fs \in Disk /\ SourceSound(s)
  BY <1>1 DEF TidyInv, AllSound
<1>3. /\ KindAt(s, "target") = "dir" /\ ItemsAt(s, "target") = journal[s].manifest
      /\ KindAt(s, "source") = "link" \/ (KindAt(s, "source") = "none" /\ KindAt(s, "link") = "link")
      /\ Originals \subseteq ItemsAt(s, "target")
  BY <1>1, <1>2 DEF Tidy!FinalizeGood, Tidy!TargetOk, Tidy!LinkOk, Tidy!ManifestExactMatch, Tidy!TargetThere,
      SourceSound, Undamaged
<1>4. pc' = "clear" => ItemsAt(s, "staged") \subseteq ItemsAt(s, "target")
  BY <1>2, <1>3 DEF Tidy!FinalizeGood, Tidy!Exists, Tidy!StagedMatches, Tidy!ManifestExactMatch, SourceSound,
     Shaped, Tidy!Location
<1>5. /\ fs' \in Disk /\ KindAt(s, "source")' = "link" /\ ItemsAt(s, "source")' = {} /\ Shaped(s)'
      /\ \A a \in {"staged", "target", "quarantine"} : fs'[<<s, a>>] = fs[<<s, a>>]
      /\ \A t \in Source \ {s}, a \in Tidy!Location : fs'[<<t, a>>] = fs[<<t, a>>]
      /\ \A f \in File \cup Added : Tidy!Intact(s, f) => Tidy!Intact(s, f)'
  <2>1. CASE KindAt(s, "source") = "none" /\ fs' = Tidy!Renamed(s, "link", "source")
    <3>1. /\ fs' \in Disk /\ fs'[<<s, "source">>] = fs[<<s, "link">>] /\ fs'[<<s, "link">>] = Tidy!Nothing
          /\ \A t \in Source, a \in Tidy!Location :
                (t = s /\ a \in {"link", "source"}) \/ fs'[<<t, a>>] = fs[<<t, a>>]
      BY <1>1, <1>2, <2>1, Renames DEF Tidy!Location
    <3>2. fs[<<s, "link">>] = Tidy!Link /\ ItemsAt(s, "source") = {}
      BY <1>2, <1>3, <2>1 DEF SourceSound, Shaped, Tidy!Location, Tidy!Node, Tidy!Link
    <3>3. Shaped(s)'
      BY <1>1, <1>2, <3>1, <3>2, ShapeKept DEF SourceSound, Tidy!Location
    <3>4. \A f \in File \cup Added : Tidy!Intact(s, f) => Tidy!Intact(s, f)'
      BY <1>1, <3>1, <3>2 DEF Tidy!Intact, Tidy!Location, Tidy!Link
    <3>5. QED
      BY <1>1, <3>1, <3>2, <3>3, <3>4 DEF Tidy!Location, Tidy!Link
  <2>2. CASE KindAt(s, "source") = "link" /\ UNCHANGED fs
    <3>1. Shaped(s)'
      BY <1>1, <1>2, <2>2, ShapeKept DEF SourceSound
    <3>2. KindAt(s, "source")' = "link" /\ ItemsAt(s, "source")' = {}
      BY <1>1, <1>2, <2>2 DEF SourceSound, Shaped, Tidy!Location
    <3>3. QED
      <4>1. fs' \in Disk /\ \A t \in Source, a \in Tidy!Location : fs'[<<t, a>>] = fs[<<t, a>>]
        BY <1>2, <2>2
      <4>2. \A f \in File \cup Added : Tidy!Intact(s, f) => Tidy!Intact(s, f)'
        BY <1>1, <2>2 DEF Tidy!Intact
      <4>3. {"staged", "target", "quarantine"} \subseteq Tidy!Location
        BY DEF Tidy!Location
      <4>4. QED
        BY <1>1, <3>1, <3>2, <4>1, <4>2, <4>3
  <2>3. QED
    BY <1>3, <2>1, <2>2 DEF Tidy!FinalizeGood
<1>6. AllSound'
  BY <1>1, <1>2, <1>5, MovedSound DEF SourceSound, Undamaged
<1>7. StepSound'
  BY <1>1, <1>3, <1>4, <1>5 DEF StepSound, Swapping, Finishing
<1>8. Queued' /\ Healed'
  BY <1>1, <1>5, Proceeds DEF Swapping, Finishing
<1>9. QED
  BY <1>6, <1>7, <1>8 DEF TidyInv

LEMMA ClearStep == ASSUME TidyInv, Tidy!Clear PROVE TidyInv'
<1> DEFINE s == moved
<1> USE DEF Tidy!Kind, Tidy!Items, KindAt, ItemsAt
<1>1. /\ pc = "clear" /\ pc' = "forget" /\ s \in Source /\ journal[s].live
      /\ KindAt(s, "source") = "link" /\ Originals \cup ItemsAt(s, "staged") \subseteq ItemsAt(s, "target")
      /\ UNCHANGED <<journal, todos, groups, group, moved, added>>
  BY DEF Tidy!Clear, TidyInv, StepSound, Swapping, Finishing, Tidy!world
<1>2. fs \in Disk /\ SourceSound(s)
  BY <1>1 DEF TidyInv, AllSound
<1>3. /\ fs' \in Disk /\ fs'[<<s, "staged">>] = Tidy!Nothing
      /\ \A t \in Source, a \in Tidy!Location : (t = s /\ a = "staged") \/ fs'[<<t, a>>] = fs[<<t, a>>]
  <2>1. Tidy!Nothing \in Tidy!Node /\ "staged" \in Tidy!Location
    BY DEF Tidy!Nothing, Tidy!Node, Tidy!Location
  <2>2. QED
    BY <1>1, <1>2, <2>1, Writes DEF Tidy!Clear
<1>4. Shaped(s)'
  BY <1>1, <1>2, <1>3, ShapeKept DEF SourceSound
<1>5. \A f \in File \cup Added : Tidy!Intact(s, f) => Tidy!Intact(s, f)'
  <2>1. \A i : i \in ItemsAt(s, "staged") => i \in ItemsAt(s, "target")
    BY <1>1
  <2>2. QED
    BY <1>1, <1>3, <2>1 DEF Tidy!Intact, Tidy!Location
<1>6. /\ fs'[<<s, "source">>] = fs[<<s, "source">>] /\ fs'[<<s, "target">>] = fs[<<s, "target">>]
      /\ ItemsAt(s, "staged")' = {} /\ KindAt(s, "staged")' = "none"
      /\ \A t \in Source \ {s}, a \in Tidy!Location : fs'[<<t, a>>] = fs[<<t, a>>]
  <2>1. {"source", "target"} \subseteq Tidy!Location
    BY DEF Tidy!Location
  <2>2. QED
    BY <1>1, <1>3, <2>1 DEF Tidy!Nothing
<1>10. AllSound'
  BY <1>1, <1>2, <1>3, <1>4, <1>5, <1>6, MovedSound DEF SourceSound, Undamaged
<1>7. StepSound'
  BY <1>1, <1>6 DEF StepSound, Swapping, Finishing
<1>8. Queued' /\ Healed'
  BY <1>1, <1>6, Proceeds DEF Swapping, Finishing
<1>9. QED
  BY <1>10, <1>7, <1>8 DEF TidyInv

LEMMA QuarantineStep == ASSUME TidyInv, Tidy!Quarantine PROVE TidyInv'
<1> DEFINE s == moved
<1> USE DEF Tidy!Kind, Tidy!Items, KindAt, ItemsAt
<1>1. /\ pc = "quarantine" /\ s \in Source /\ journal[s].live /\ KindAt(s, "source") = "link"
      /\ UNCHANGED <<journal, groups, moved, added>>
  BY DEF Tidy!Quarantine, TidyInv, StepSound, Swapping, Finishing, Tidy!world
<1>2. fs \in Disk /\ SourceSound(s)
  BY <1>1 DEF TidyInv, AllSound
<1>3. CASE KindAt(s, "quarantine") = "none" /\ fs' = Tidy!Renamed(s, "staged", "quarantine") /\ Tidy!Return(TRUE)
  <2>1. /\ fs' \in Disk /\ fs'[<<s, "quarantine">>] = fs[<<s, "staged">>] /\ fs'[<<s, "staged">>] = Tidy!Nothing
        /\ \A t \in Source, a \in Tidy!Location :
              (t = s /\ a \in {"staged", "quarantine"}) \/ fs'[<<t, a>>] = fs[<<t, a>>]
    BY <1>1, <1>2, <1>3, Renames DEF Tidy!Location
  <2>2. ItemsAt(s, "quarantine") = {}
    BY <1>2, <1>3 DEF SourceSound, Shaped, Tidy!Location
  <2>3. fs[<<s, "staged">>].kind = "dir" \/ fs[<<s, "staged">>] = Tidy!Nothing
    BY <1>2 DEF SourceSound, Shaped, Tidy!Location, Tidy!Node, Tidy!Nothing
  <2>4. Shaped(s)'
    BY <1>1, <1>2, <2>1, <2>3, ShapeKept DEF SourceSound, Tidy!Location
  <2>5. \A f \in File \cup Added : Tidy!Intact(s, f) => Tidy!Intact(s, f)'
    BY <1>1, <2>1, <2>2 DEF Tidy!Intact, Tidy!Location
  <2>6. /\ fs'[<<s, "source">>] = fs[<<s, "source">>] /\ ItemsAt(s, "staged")' = {}
        /\ \A t \in Source \ {s}, a \in Tidy!Location : fs'[<<t, a>>] = fs[<<t, a>>]
    <3>1. "source" \in Tidy!Location
      BY DEF Tidy!Location
    <3>2. QED
      BY <1>1, <2>1, <3>1 DEF Tidy!Nothing
  <2>7. AllSound'
    BY <1>1, <1>2, <2>1, <2>4, <2>5, <2>6, MovedSound DEF SourceSound, Undamaged
  <2>8. QED
    BY <1>1, <1>3, <2>6, <2>7, Returns DEF TidyInv, Finishing
<1>4. CASE UNCHANGED fs /\ Tidy!Return(FALSE)
  <2>1. AllSound'
    BY <1>1, <1>4, SoundStill DEF TidyInv
  <2>2. QED
    BY <1>1, <1>4, <2>1, Returns DEF TidyInv, Finishing
<1>5. QED
  BY <1>3, <1>4 DEF Tidy!Quarantine
LEMMA FinalizeRestoreStep == ASSUME TidyInv, Tidy!FinalizeRestore PROVE TidyInv'
<1> DEFINE s == moved
<1> USE DEF Tidy!Kind, Tidy!Items, KindAt, ItemsAt
<1>1. /\ pc = "finalize" /\ pc' = "restore" /\ s \in Source /\ journal[s].live
      /\ KindAt(s, "staged") = "dir" /\ ItemsAt(s, "staged") = journal[s].manifest
      /\ UNCHANGED <<journal, todos, groups, group, moved, added>>
  BY DEF Tidy!FinalizeRestore, Tidy!StagedMatches, Tidy!ManifestExactMatch, TidyInv, StepSound, Swapping, Finishing,
     Tidy!world
<1>2. fs \in Disk /\ SourceSound(s)
  BY <1>1 DEF TidyInv, AllSound
<1> DEFINE src == IF fs[<<s, "source">>] = Tidy!Link THEN Tidy!Nothing ELSE fs[<<s, "source">>]
           lnk == IF KindAt(s, "source") = "none" THEN Tidy!Nothing ELSE fs[<<s, "link">>]
<1>3. src \in Tidy!Node /\ lnk \in Tidy!Node
  BY <1>2 DEF SourceSound, Shaped, Tidy!Location, Tidy!Nothing, Tidy!Node
<1>4. /\ fs' \in Disk /\ fs'[<<s, "source">>] = src /\ fs'[<<s, "link">>] = lnk
      /\ \A t \in Source, a \in Tidy!Location : (t = s /\ a \in {"link", "source"}) \/ fs'[<<t, a>>] = fs[<<t, a>>]
  <2>1. fs' = [fs EXCEPT ![<<s, "source">>] = src, ![<<s, "link">>] = lnk]
    BY <1>1, <1>2 DEF Tidy!FinalizeRestore, Disk, Tidy!Location
  <2>2. <<s, "source">> # <<s, "link">> /\ {"source", "link"} \subseteq Tidy!Location
    BY DEF Tidy!Location
  <2> HIDE DEF src, lnk
  <2>3. QED
    BY <1>1, <1>2, <1>3, <2>1, <2>2 DEF Disk
<1>5. KindAt(s, "source")' # "link" /\ ItemsAt(s, "source")' = ItemsAt(s, "source")
  <2>1. fs[<<s, "source">>] \in Tidy!Node /\ (KindAt(s, "source") # "dir" => ItemsAt(s, "source") = {})
    BY <1>2 DEF SourceSound, Shaped, Tidy!Location
  <2>2. KindAt(s, "source") = "link" => fs[<<s, "source">>] = Tidy!Link
    BY <2>1 DEF Tidy!Node, Tidy!Link
  <2>3. Tidy!Link.kind = "link" /\ Tidy!Nothing.kind = "none" /\ Tidy!Link.items = {} /\ Tidy!Nothing.items = {}
    BY DEF Tidy!Link, Tidy!Nothing
  <2>4. fs'[<<s, "source">>].kind # "link" /\ fs'[<<s, "source">>].items = fs[<<s, "source">>].items
    BY <1>4, <2>2, <2>3
  <2>5. QED
    BY <1>1, <2>4
<1>6. ItemsAt(s, "link")' = ItemsAt(s, "link")
  <2>1. ItemsAt(s, "link") = {}
    BY <1>2 DEF SourceSound, Shaped, Tidy!Location
  <2>2. fs'[<<s, "link">>].items = {}
    BY <1>4, <2>1 DEF Tidy!Nothing
  <2>3. QED
    BY <1>1, <2>1, <2>2
<1>7. Shaped(s)'
  BY <1>1, <1>2, <1>4, ShapeKept DEF SourceSound
<1>8. /\ \A a \in {"staged", "target", "quarantine"} : fs'[<<s, a>>] = fs[<<s, a>>]
      /\ \A t \in Source \ {s}, a \in Tidy!Location : fs'[<<t, a>>] = fs[<<t, a>>]
  <2>1. {"staged", "target", "quarantine"} \subseteq Tidy!Location
    BY DEF Tidy!Location
  <2>2. QED
    BY <1>1, <1>4, <2>1
<1>9. \A f \in File \cup Added : Tidy!Intact(s, f) => Tidy!Intact(s, f)'
  BY <1>1, <1>5, <1>6, <1>8 DEF Tidy!Intact, Tidy!Location
<1>10. AllSound'
  BY <1>1, <1>2, <1>4, <1>5, <1>7, <1>8, <1>9, MovedSound DEF SourceSound, Undamaged
<1>11. StepSound'
  BY <1>1, <1>5, <1>8 DEF StepSound, Swapping, Finishing
<1>12. Queued' /\ Healed'
  BY <1>1, <1>8, Proceeds DEF Swapping, Finishing
<1>13. QED
  BY <1>10, <1>11, <1>12 DEF TidyInv

LEMMA RestoreStep == ASSUME TidyInv, Tidy!Restore PROVE TidyInv'
<1> DEFINE s == moved
<1> USE DEF Tidy!Kind, Tidy!Items, KindAt, ItemsAt
<1>1. /\ pc = "restore" /\ s \in Source /\ journal[s].live /\ KindAt(s, "source") # "link"
      /\ KindAt(s, "staged") = "dir" /\ ItemsAt(s, "staged") = journal[s].manifest
      /\ UNCHANGED <<journal, groups, moved, added>> /\ Tidy!Return(FALSE)
  BY DEF Tidy!Restore, TidyInv, StepSound, Swapping, Finishing, Tidy!world
<1>2. fs \in Disk /\ SourceSound(s)
  BY <1>1 DEF TidyInv, AllSound
<1>3. CASE KindAt(s, "source") = "none" /\ fs' = Tidy!Renamed(s, "staged", "source")
  <2>1. /\ fs' \in Disk /\ fs'[<<s, "source">>] = fs[<<s, "staged">>] /\ fs'[<<s, "staged">>] = Tidy!Nothing
        /\ \A t \in Source, a \in Tidy!Location :
              (t = s /\ a \in {"staged", "source"}) \/ fs'[<<t, a>>] = fs[<<t, a>>]
    BY <1>1, <1>2, <1>3, Renames DEF Tidy!Location
  <2>2. ItemsAt(s, "source") = {} /\ journal[s].manifest \subseteq Intacts
    BY <1>1, <1>2, <1>3 DEF SourceSound, Shaped, Undamaged, Tidy!Location
  <2>3. Shaped(s)'
    BY <1>1, <1>2, <2>1, ShapeKept DEF SourceSound, Tidy!Location
  <2>4. \A f \in File \cup Added : Tidy!Intact(s, f) => Tidy!Intact(s, f)'
    BY <1>1, <2>1, <2>2 DEF Tidy!Intact, Tidy!Location
  <2>5. /\ KindAt(s, "source")' = "dir" /\ ItemsAt(s, "source")' \subseteq Intacts /\ ItemsAt(s, "staged")' = {}
        /\ \A t \in Source \ {s}, a \in Tidy!Location : fs'[<<t, a>>] = fs[<<t, a>>]
    BY <1>1, <2>1, <2>2 DEF Tidy!Nothing
  <2>6. AllSound'
    BY <1>1, <1>2, <2>1, <2>3, <2>4, <2>5, MovedSound
  <2>7. QED
    BY <1>1, <2>5, <2>6, Returns DEF TidyInv, Finishing
<1>4. CASE KindAt(s, "source") # "none" /\ UNCHANGED fs
  <2>1. AllSound'
    BY <1>1, <1>4, SoundStill DEF TidyInv
  <2>2. QED
    BY <1>1, <1>4, <2>1, Returns DEF TidyInv, Finishing
<1>5. QED
  BY <1>3, <1>4 DEF Tidy!Restore

LEMMA FinalizeNothingStep == ASSUME TidyInv, Tidy!FinalizeNothing PROVE TidyInv'
<1>1. /\ pc \in Finishing /\ UNCHANGED <<fs, journal, groups, moved, added>> /\ Tidy!Return(FALSE)
      /\ ~(KindAt(moved, "staged") = "dir" /\ ItemsAt(moved, "staged") = journal[moved].manifest)
  BY DEF Tidy!FinalizeNothing, Tidy!StagedMatches, Tidy!ManifestExactMatch, Finishing, Tidy!world, KindAt,
     ItemsAt, Tidy!Kind, Tidy!Items
<1>2. AllSound'
  BY <1>1, SoundStill DEF TidyInv
<1>3. KindAt(moved, "staged")' = KindAt(moved, "staged") /\ ItemsAt(moved, "staged")' = ItemsAt(moved, "staged")
  BY <1>1 DEF KindAt, ItemsAt
<1>4. QED
  BY <1>1, <1>2, <1>3, Returns DEF TidyInv

LEMMA ForgetStep == ASSUME TidyInv, Tidy!Forget PROVE TidyInv'
<1> DEFINE s == moved
<1>1. /\ pc = "forget" /\ s \in Source /\ journal[s].live
      /\ KindAt(s, "source") # "none" /\ KindAt(s, "staged") = "none"
      /\ Originals \subseteq ItemsAt(s, IF KindAt(s, "source") = "dir" THEN "source" ELSE "target")
      /\ UNCHANGED <<fs, groups, moved, added>> /\ Tidy!Return(TRUE)
      /\ journal' = [journal EXCEPT ![s] = Tidy!NoRecord]
  BY DEF Tidy!Forget, TidyInv, StepSound, Swapping, Finishing, Tidy!world
<1>2. journal \in [Source -> Tidy!Record] /\ SourceSound(s)
  BY <1>1 DEF TidyInv, AllSound
<1>3. /\ Tidy!NoRecord \in Tidy!Record /\ journal' \in [Source -> Tidy!Record]
      /\ journal'[s] = Tidy!NoRecord /\ \A t \in Source \ {s} : journal'[t] = journal[t]
  BY <1>1, <1>2 DEF Tidy!NoRecord, Tidy!Record
<1>5. Shaped(s)' /\ Kept(s)'
  BY <1>1, <1>2 DEF SourceSound, Shaped, Kept, KindAt, ItemsAt
<1>6. Undamaged(s)'
  BY <1>1, <1>2, <1>3 DEF SourceSound, Undamaged, ItemsAt, Tidy!NoRecord
<1>7. Served(s)'
  BY <1>1 DEF Served, KindAt, ItemsAt
<1>8. AllSound'
  <2>1. SourceSound(s)'
    BY <1>5, <1>6, <1>7 DEF SourceSound
  <2>2. QED
    BY <1>1, <1>3, <2>1, SoundElsewhere DEF TidyInv, AllSound
<1>9. KindAt(s, "source")' # "none"
  BY <1>1 DEF KindAt
<1>10. StepSound' /\ Queued' /\ Healed'
  BY <1>1, <1>3, <1>9, Returns DEF TidyInv, Finishing
<1>11. QED
  BY <1>8, <1>10 DEF TidyInv
\* The process gives up what it was moving, and goes on with the next unit.
LEMMA GivesUp ==
    ASSUME TidyInv, todos = {}, pc' = "apply", group' = {}, UNCHANGED <<journal, groups, todos>>,
           \A s \in ToMove : KindAt(s, "source")' = KindAt(s, "source")
    PROVE  StepSound' /\ Queued' /\ Healed'
<1>1. pc' \notin Swapping /\ pc' \notin Finishing
  BY DEF Swapping, Finishing
<1>2. ToMove' \subseteq ToMove
  BY <1>1 DEF ToMove
<1>3. \A s \in ToMove' : (~journal[s].live /\ KindAt(s, "source") = "dir")'
  BY <1>2 DEF TidyInv, Queued
<1>4. Queued'
  BY <1>1, <1>3 DEF TidyInv, Queued
<1>5. StepSound' /\ Healed'
  BY <1>1 DEF StepSound, Healed
<1>6. QED
  BY <1>4, <1>5

LEMMA MakeLinkStep == ASSUME TidyInv, Tidy!MakeLink PROVE TidyInv'
<1> DEFINE s == moved
<1> USE DEF KindAt, ItemsAt
<1>1. /\ pc = "link" /\ pc' = "stage" /\ s \in Source /\ journal[s].live
      /\ KindAt(s, "source") = "dir" /\ KindAt(s, "staged") = "none"
      /\ UNCHANGED <<journal, todos, groups, group, moved, added>>
  BY DEF Tidy!MakeLink, TidyInv, StepSound, Swapping, Finishing, Tidy!world
<1>2. fs \in Disk /\ SourceSound(s)
  BY <1>1 DEF TidyInv, AllSound
<1>3. /\ fs' \in Disk /\ fs'[<<s, "link">>] = Tidy!Link
      /\ \A t \in Source, a \in Tidy!Location : (t = s /\ a = "link") \/ fs'[<<t, a>>] = fs[<<t, a>>]
  <2>1. Tidy!Link \in Tidy!Node /\ "link" \in Tidy!Location
    BY DEF Tidy!Link, Tidy!Node, Tidy!Location
  <2>2. QED
    BY <1>1, <1>2, <2>1, Writes DEF Tidy!MakeLink
<1>4. ItemsAt(s, "link") = {}
  BY <1>2 DEF SourceSound, Shaped, Tidy!Location
<1>5. /\ \A a \in {"source", "staged", "target", "quarantine"} : fs'[<<s, a>>] = fs[<<s, a>>]
      /\ \A t \in Source \ {s}, a \in Tidy!Location : fs'[<<t, a>>] = fs[<<t, a>>]
  <2>1. {"source", "staged", "target", "quarantine"} \subseteq Tidy!Location
    BY DEF Tidy!Location
  <2>2. QED
    BY <1>1, <1>3, <2>1
<1>6. Shaped(s)'
  BY <1>1, <1>2, <1>3, ShapeKept DEF SourceSound
<1>7. \A f \in File \cup Added : Tidy!Intact(s, f) => Tidy!Intact(s, f)'
  BY <1>1, <1>4, <1>5 DEF Tidy!Intact, Tidy!Location, Tidy!Items
<1>8. AllSound'
  BY <1>1, <1>2, <1>3, <1>5, <1>6, <1>7, MovedSound DEF SourceSound, Undamaged
<1>9. StepSound'
  BY <1>1, <1>3, <1>5 DEF StepSound, Swapping, Finishing, Tidy!Link
<1>10. Queued' /\ Healed'
  BY <1>1, <1>5, Proceeds DEF Swapping, Finishing
<1>11. QED
  BY <1>8, <1>9, <1>10 DEF TidyInv

LEMMA StageStep == ASSUME TidyInv, Tidy!Stage PROVE TidyInv'
<1> DEFINE s == moved
<1> USE DEF KindAt, ItemsAt
<1>1. /\ pc = "stage" /\ pc' = "place" /\ s \in Source /\ journal[s].live
      /\ KindAt(s, "source") = "dir" /\ KindAt(s, "staged") = "none" /\ KindAt(s, "link") = "link"
      /\ UNCHANGED <<journal, todos, groups, group, moved, added>>
  BY DEF Tidy!Stage, TidyInv, StepSound, Swapping, Finishing, Tidy!world
<1>2. fs \in Disk /\ SourceSound(s)
  BY <1>1 DEF TidyInv, AllSound
<1>3. /\ fs' \in Disk /\ fs'[<<s, "staged">>] = fs[<<s, "source">>] /\ fs'[<<s, "source">>] = Tidy!Nothing
      /\ \A t \in Source, a \in Tidy!Location :
            (t = s /\ a \in {"source", "staged"}) \/ fs'[<<t, a>>] = fs[<<t, a>>]
  BY <1>1, <1>2, Renames DEF Tidy!Stage, Tidy!Location
<1>4. ItemsAt(s, "staged") = {} /\ ItemsAt(s, "source") \subseteq Intacts
  BY <1>1, <1>2 DEF SourceSound, Shaped, Undamaged, Tidy!Location
<1>5. /\ \A a \in {"link", "target", "quarantine"} : fs'[<<s, a>>] = fs[<<s, a>>]
      /\ \A t \in Source \ {s}, a \in Tidy!Location : fs'[<<t, a>>] = fs[<<t, a>>]
  <2>1. {"link", "target", "quarantine"} \subseteq Tidy!Location
    BY DEF Tidy!Location
  <2>2. QED
    BY <1>1, <1>3, <2>1
<1>6. Shaped(s)'
  BY <1>1, <1>2, <1>3, ShapeKept DEF SourceSound, Tidy!Location
<1>7. \A f \in File \cup Added : Tidy!Intact(s, f) => Tidy!Intact(s, f)'
  BY <1>1, <1>3, <1>4, <1>5 DEF Tidy!Intact, Tidy!Location, Tidy!Items
<1>8. ItemsAt(s, "source")' = {} /\ ItemsAt(s, "staged")' \subseteq Intacts
  BY <1>1, <1>3, <1>4 DEF Tidy!Nothing
<1>9. AllSound'
  BY <1>1, <1>2, <1>3, <1>5, <1>6, <1>7, <1>8, MovedSound
<1>10. StepSound'
  BY <1>1, <1>5 DEF StepSound, Swapping, Finishing
<1>11. Queued' /\ Healed'
  BY <1>1, <1>5, Proceeds DEF Swapping, Finishing
<1>12. QED
  BY <1>9, <1>10, <1>11 DEF TidyInv

LEMMA PlaceStep == ASSUME TidyInv, Tidy!Place PROVE TidyInv'
<1> DEFINE s == moved
<1> USE DEF KindAt, ItemsAt
<1>1. /\ pc = "place" /\ s \in Source /\ journal[s].live /\ KindAt(s, "link") = "link" /\ todos = {}
      /\ UNCHANGED <<journal, todos, groups, moved, added>>
  BY DEF Tidy!Place, TidyInv, StepSound, Queued, Swapping, Finishing, Tidy!world
<1>2. fs \in Disk /\ SourceSound(s)
  BY <1>1 DEF TidyInv, AllSound
<1>3. CASE /\ KindAt(s, "source") = "none" /\ fs' = Tidy!Renamed(s, "link", "source")
           /\ pc' = "finalize" /\ UNCHANGED group
  <2>1. /\ fs' \in Disk /\ fs'[<<s, "source">>] = fs[<<s, "link">>] /\ fs'[<<s, "link">>] = Tidy!Nothing
        /\ \A t \in Source, a \in Tidy!Location :
              (t = s /\ a \in {"link", "source"}) \/ fs'[<<t, a>>] = fs[<<t, a>>]
    BY <1>1, <1>2, <1>3, Renames DEF Tidy!Location
  <2>2. fs[<<s, "link">>] = Tidy!Link /\ ItemsAt(s, "source") = {}
    BY <1>1, <1>2, <1>3 DEF SourceSound, Shaped, Tidy!Location, Tidy!Node, Tidy!Link
  <2>3. /\ \A a \in {"staged", "target", "quarantine"} : fs'[<<s, a>>] = fs[<<s, a>>]
        /\ \A t \in Source \ {s}, a \in Tidy!Location : fs'[<<t, a>>] = fs[<<t, a>>]
    <3>1. {"staged", "target", "quarantine"} \subseteq Tidy!Location
      BY DEF Tidy!Location
    <3>2. QED
      BY <1>1, <2>1, <3>1
  <2>4. Shaped(s)'
    BY <1>1, <1>2, <2>1, <2>2, ShapeKept DEF SourceSound, Tidy!Location
  <2>5. \A f \in File \cup Added : Tidy!Intact(s, f) => Tidy!Intact(s, f)'
    BY <1>1, <2>1, <2>2, <2>3 DEF Tidy!Intact, Tidy!Location, Tidy!Items, Tidy!Link
  <2>6. ItemsAt(s, "source")' = {}
    BY <1>1, <2>1, <2>2 DEF Tidy!Link
  <2>7. AllSound'
    BY <1>1, <1>2, <2>1, <2>3, <2>4, <2>5, <2>6, MovedSound DEF SourceSound, Undamaged
  <2>8. StepSound'
    BY <1>1, <1>3 DEF StepSound, Swapping, Finishing
  <2>9. Queued' /\ Healed'
    BY <1>1, <1>3, <2>3, Proceeds DEF Swapping, Finishing
  <2>10. QED
    BY <2>7, <2>8, <2>9 DEF TidyInv
<1>4. CASE UNCHANGED fs /\ pc' = "apply" /\ group' = {}
  <2>1. AllSound'
    BY <1>1, <1>4, SoundStill DEF TidyInv
  <2>2. StepSound' /\ Queued' /\ Healed'
    BY <1>1, <1>4, GivesUp
  <2>3. QED
    BY <2>1, <2>2 DEF TidyInv
<1>5. QED
  BY <1>3, <1>4 DEF Tidy!Place, Tidy!Kind

\* The copies of a unit that no file of it is lost to, as the originals are undamaged.
LEMMA CopiesSound ==
    ASSUME TidyInv, pc = "copy", NEW copies \in Tidy!CopiedParts, fs' = Tidy!WithCopied(copies),
           UNCHANGED <<journal, added>>
    PROVE  AllSound' /\ \A s \in Source : fs'[<<s, "source">>] = fs[<<s, "source">>]
<1> DEFINE Part(s) == {c[2] : c \in {d \in copies : d[1] = s}}
           copied(s) == Tidy!CopiedOver(s, Part(s))
<1>1. group \subseteq Source /\ fs \in Disk
  BY DEF TidyInv, Queued, AllSound
<1>2. \A s \in group : ~journal[s].live /\ KindAt(s, "source") = "dir"
  BY DEF TidyInv, Queued, ToMove, Swapping, Finishing
<1>3. \A s \in group : Part(s) \subseteq ItemsAt(s, "source")
  BY DEF Tidy!CopiedParts, Tidy!Items, ItemsAt
<1>4. \A s \in Source : SourceSound(s)
  BY DEF TidyInv, AllSound
<1>5. \A s \in group : copied(s).kind = "dir" /\ copied(s) \in Tidy!Node
  <2> SUFFICES ASSUME NEW s \in group PROVE copied(s).kind = "dir" /\ copied(s) \in Tidy!Node
    OBVIOUS
  <2>1. ItemsAt(s, "source") \subseteq Tidy!Item /\ ItemsAt(s, "target") \subseteq Tidy!Item
    BY <1>1, <1>4 DEF SourceSound, Shaped, ItemsAt, Tidy!Location, Tidy!Node
  <2>2. Part(s) \cup {i \in Tidy!Items(s, "target") : i[1] \notin Tidy!FilesOf(Part(s))} \subseteq Tidy!Item
    BY <1>3, <2>1 DEF ItemsAt, Tidy!Items
  <2> HIDE DEF Part
  <2>3. QED
    BY <2>2 DEF Tidy!CopiedOver, Tidy!Dir, Tidy!Node
<1>6. /\ fs' \in Disk /\ \A s \in group : fs'[<<s, "target">>] = copied(s)
      /\ \A s \in Source, a \in Tidy!Location : (s \in group /\ a = "target") \/ fs'[<<s, a>>] = fs[<<s, a>>]
  <2>1. fs' = [p \in Source \X Tidy!Location |->
                  IF p[2] = "target" /\ p[1] \in group THEN copied(p[1]) ELSE fs[p]]
    BY DEF Tidy!WithCopied
  <2>2. "target" \in Tidy!Location
    BY DEF Tidy!Location
  <2> HIDE DEF copied
  <2>3. QED
    BY <1>1, <1>5, <2>1, <2>2 DEF Disk
<1>7. ASSUME NEW s \in group PROVE SourceSound(s)'
  <2>1. SourceSound(s) /\ s \in Source
    BY <1>1, <1>4
  <2>2. Shaped(s)'
    BY <1>5, <1>6, <2>1, ShapeKept DEF SourceSound
  <2>3. fs'[<<s, "source">>] = fs[<<s, "source">>] /\ fs'[<<s, "staged">>] = fs[<<s, "staged">>]
    <3>1. {"source", "staged"} \subseteq Tidy!Location
      BY DEF Tidy!Location
    <3>2. QED
      BY <1>6, <2>1, <3>1
  <2>4. Undamaged(s)' /\ Served(s)'
    BY <1>2, <2>1, <2>3 DEF SourceSound, Undamaged, Served, KindAt, ItemsAt
  <2>5. ASSUME NEW f \in File \cup added[s] PROVE \E loc \in Tidy!Location : <<f, "intact">> \in fs'[<<s, loc>>].items
    <3>1. PICK loc \in Tidy!Location : <<f, "intact">> \in ItemsAt(s, loc)
      BY <2>1 DEF SourceSound, Kept
    <3>2. CASE loc # "target"
      BY <1>6, <2>1, <3>1, <3>2 DEF ItemsAt
    <3>3. CASE loc = "target" /\ f \in Tidy!FilesOf(Part(s))
      <4>1. PICK i \in Part(s) : i[1] = f
        BY <3>3 DEF Tidy!FilesOf
      <4>2. i \in ItemsAt(s, "source") /\ i \in Intacts
        BY <1>3, <4>1, <2>1 DEF SourceSound, Undamaged
      <4>3. i = <<f, "intact">>
        BY <4>1, <4>2 DEF Intacts
      <4>4. QED
        BY <4>2, <4>3, <2>3 DEF ItemsAt, Tidy!Location
    <3>4. CASE loc = "target" /\ f \notin Tidy!FilesOf(Part(s))
      <4>1. <<f, "intact">> \in {i \in Tidy!Items(s, "target") : i[1] \notin Tidy!FilesOf(Part(s))}
        BY <3>1, <3>4 DEF ItemsAt, Tidy!Items
      <4>2. <<f, "intact">> \in copied(s).items
        BY <4>1 DEF Tidy!CopiedOver, Tidy!Dir
      <4>3. QED
        BY <1>6, <3>4, <4>2
    <3>5. QED
      BY <3>2, <3>3, <3>4
  <2>6. Kept(s)'
    BY <2>1, <2>5 DEF SourceSound, Kept, ItemsAt
  <2>7. QED
    BY <2>2, <2>4, <2>6 DEF SourceSound
<1>8. ASSUME NEW s \in Source \ group PROVE SourceSound(s)'
  <2>1. SourceSound(s) /\ \A a \in Tidy!Location : fs'[<<s, a>>] = fs[<<s, a>>]
    BY <1>4, <1>6
  <2>2. {"source", "staged", "link", "target", "quarantine"} = Tidy!Location
    BY DEF Tidy!Location
  <2>3. QED
    BY <2>1, <2>2 DEF SourceSound, Shaped, Undamaged, Served, Kept, KindAt, ItemsAt
<1>9. QED
  BY <1>6, <1>7, <1>8 DEF AllSound, TidyInv, Tidy!Location
LEMMA CopyStep == ASSUME TidyInv, Tidy!CopyUnit \/ Tidy!CopyFails PROVE TidyInv'
<1>1. /\ pc = "copy" /\ UNCHANGED <<journal, added, todos, groups>> /\ todos = {}
      /\ \E copies \in Tidy!CopiedParts : fs' = Tidy!WithCopied(copies)
  BY DEF Tidy!CopyUnit, Tidy!CopyFails, TidyInv, Queued, Finishing
<1>2. AllSound' /\ \A s \in Source : fs'[<<s, "source">>] = fs[<<s, "source">>]
  BY <1>1, CopiesSound
<1>3. ToMove \subseteq Source
  BY MovesKnown DEF TidyInv
<1>4. CASE Tidy!CopyUnit
  <2>1. pc' = "verify" /\ UNCHANGED group
    BY <1>4 DEF Tidy!CopyUnit
  <2>2. ToMove' = ToMove
    BY <1>1, <2>1 DEF ToMove, Swapping, Finishing
  <2>3. \A s \in ToMove' : (~journal[s].live /\ KindAt(s, "source") = "dir")'
    BY <1>1, <1>2, <1>3, <2>2 DEF TidyInv, Queued, KindAt
  <2>4. Queued'
    BY <1>1, <2>1, <2>3 DEF TidyInv, Queued, Swapping, Finishing
  <2>5. StepSound' /\ Healed'
    BY <2>1 DEF StepSound, Healed, Swapping, Finishing
  <2>6. QED
    BY <1>2, <2>4, <2>5 DEF TidyInv
<1>5. CASE Tidy!CopyFails
  <2>1. pc' = "apply" /\ group' = {}
    BY <1>5 DEF Tidy!CopyFails
  <2>2. QED
    BY <1>1, <1>2, <1>3, <2>1, GivesUp DEF TidyInv, KindAt
<1>6. QED
  BY <1>4, <1>5

LEMMA VerifyStep == ASSUME TidyInv, Tidy!VerifyUnit PROVE TidyInv'
<1>1. pc = "verify" /\ todos = {} /\ UNCHANGED <<fs, journal, added, todos, groups>>
  BY DEF Tidy!VerifyUnit, Tidy!world, TidyInv, Queued, Finishing
<1>2. AllSound'
  BY <1>1, SoundStill DEF TidyInv
<1>3. CASE pc' = "swap" /\ UNCHANGED group
  <2>1. ToMove' = ToMove
    BY <1>1, <1>3 DEF ToMove, Swapping, Finishing
  <2>2. Queued'
    BY <1>1, <1>3, <2>1 DEF TidyInv, Queued, Swapping, Finishing, KindAt
  <2>3. StepSound' /\ Healed'
    BY <1>3 DEF StepSound, Healed, Swapping, Finishing
  <2>4. QED
    BY <1>2, <2>2, <2>3 DEF TidyInv
<1>4. CASE pc' = "apply" /\ group' = {}
  BY <1>1, <1>2, <1>4, GivesUp DEF TidyInv, KindAt
<1>5. QED
  BY <1>3, <1>4 DEF Tidy!VerifyUnit

LEMMA BeginSwapStep == ASSUME TidyInv, Tidy!BeginSwap PROVE TidyInv'
<1>1. pc = "swap" /\ todos = {} /\ UNCHANGED <<fs, added, todos, groups, group>>
  BY DEF Tidy!BeginSwap, Tidy!world, TidyInv, Queued, Finishing
<1>2. CASE group = {} /\ pc' = "apply" /\ UNCHANGED journal
  <2>1. AllSound'
    BY <1>1, <1>2, SoundStill DEF TidyInv
  <2>2. QED
    BY <1>1, <1>2, <2>1, GivesUp DEF TidyInv, KindAt
<1>3. ASSUME NEW s \in group, pc' = "link", moved' = s,
             journal' = [journal EXCEPT ![s] = [live |-> TRUE, manifest |-> Tidy!Items(s, "source")]]
      PROVE  TidyInv'
  <2>1. s \in ToMove /\ s \in Source
    BY <1>1 DEF ToMove, Swapping, Finishing, TidyInv, Queued
  <2>2. ~journal[s].live /\ KindAt(s, "source") = "dir" /\ SourceSound(s) /\ journal \in [Source -> Tidy!Record]
    BY <2>1 DEF TidyInv, Queued, AllSound
  <2>3. /\ Originals \subseteq ItemsAt(s, "source") /\ ItemsAt(s, "source") \subseteq Intacts
        /\ KindAt(s, "staged") = "none"
    BY <2>2 DEF SourceSound, Served, Undamaged, Shaped, Tidy!Location, Tidy!Node, KindAt
  <2> DEFINE record == [live |-> TRUE, manifest |-> Tidy!Items(s, "source")]
  <2>4. record \in Tidy!Record /\ record.live = TRUE /\ record.manifest = ItemsAt(s, "source")
    <3>1. ItemsAt(s, "source") \subseteq Tidy!Item
      BY <2>2 DEF SourceSound, Shaped, ItemsAt, Tidy!Location, Tidy!Node
    <3>2. QED
      BY <3>1 DEF Tidy!Record, ItemsAt, Tidy!Items
  <2> HIDE DEF record
  <2>5. /\ journal' \in [Source -> Tidy!Record] /\ journal'[s] = record
        /\ \A t \in Source \ {s} : journal'[t] = journal[t]
    BY <1>3, <2>1, <2>2, <2>4 DEF record
  <2>6. SourceSound(s)'
    <3>1. Shaped(s)' /\ Kept(s)'
      BY <1>1, <2>2 DEF SourceSound, Shaped, Kept, KindAt, ItemsAt
    <3>2. Undamaged(s)' /\ Served(s)'
      BY <1>1, <2>2, <2>3, <2>4, <2>5 DEF SourceSound, Undamaged, Served, KindAt, ItemsAt
    <3>3. QED
      BY <3>1, <3>2 DEF SourceSound
  <2>7. AllSound'
    BY <1>1, <2>1, <2>5, <2>6, SoundElsewhere DEF TidyInv, AllSound
  <2>8. StepSound'
    BY <1>1, <1>3, <2>1, <2>2, <2>3, <2>4, <2>5 DEF StepSound, Swapping, Finishing, KindAt
  <2>9. ToMove' \subseteq ToMove /\ s \notin ToMove'
    <3>1. ToMove' = (UNION groups) \cup (group \ {s})
      BY <1>1, <1>3 DEF ToMove, Swapping, Finishing
    <3>2. s \notin UNION groups
      BY <1>3 DEF TidyInv, Queued
    <3>3. ToMove = (UNION groups) \cup group
      BY <1>1 DEF ToMove, Swapping, Finishing
    <3>4. QED
      BY <3>1, <3>2, <3>3
  <2>10. \A t \in ToMove' : (~journal[t].live /\ KindAt(t, "source") = "dir")'
    <3>1. ToMove \subseteq Source
      BY MovesKnown DEF TidyInv
    <3>2. QED
      BY <1>1, <2>5, <2>9, <3>1 DEF TidyInv, Queued, KindAt
  <2>11. Queued'
    BY <1>1, <1>3, <2>10 DEF TidyInv, Queued, Swapping, Finishing
  <2>12. Healed'
    BY <1>3 DEF Healed, Finishing
  <2>13. QED
    BY <2>7, <2>8, <2>11, <2>12 DEF TidyInv
<1>4. QED
  BY <1>2, <1>3 DEF Tidy!BeginSwap

LEMMA NextUnitStep == ASSUME TidyInv, Tidy!NextUnit PROVE TidyInv'
<1>1. pc = "apply" /\ group = {} /\ todos = {} /\ UNCHANGED <<fs, journal, added, todos>>
  BY DEF Tidy!NextUnit, Tidy!world, TidyInv, Queued, Finishing
<1>2. AllSound'
  BY <1>1, SoundStill DEF TidyInv
<1>3. CASE UNCHANGED <<groups, group>> /\ pc' = "idle"
  <2>1. ToMove' = ToMove
    BY <1>1, <1>3 DEF ToMove, Swapping, Finishing
  <2>2. Queued'
    BY <1>1, <1>3, <2>1 DEF TidyInv, Queued, Swapping, Finishing, KindAt
  <2>3. StepSound' /\ Healed'
    BY <1>3 DEF StepSound, Healed, Swapping, Finishing
  <2>4. QED
    BY <1>2, <2>2, <2>3 DEF TidyInv
<1>4. ASSUME NEW g \in groups, groups' = groups \ {g},
             UNCHANGED <<pc, group>> \/ (pc' = "copy" /\ group' = g)
      PROVE  TidyInv'
  <2>1. ToMove' \subseteq ToMove
    BY <1>1, <1>4 DEF ToMove, Swapping, Finishing
  <2>2. \A t \in ToMove' : (~journal[t].live /\ KindAt(t, "source") = "dir")'
    BY <1>1, <2>1 DEF TidyInv, Queued, KindAt
  <2>3. group' \subseteq Source /\ \A h \in groups' : group' \cap h = {}
    BY <1>1, <1>4 DEF TidyInv, Queued
  <2>4. Queued'
    BY <1>1, <1>4, <2>2, <2>3 DEF TidyInv, Queued, Swapping, Finishing
  <2>5. StepSound' /\ Healed'
    BY <1>1, <1>4 DEF StepSound, Healed, Swapping, Finishing
  <2>6. QED
    BY <1>2, <2>4, <2>5 DEF TidyInv
<1>5. QED
  BY <1>3, <1>4 DEF Tidy!NextUnit
\* The sets of sources that share inodes are a partition, so units are disjoint.
LEMMA UnitsApart ==
    ASSUME NEW box1, NEW units \in SUBSET Tidy!Units(box1)
    PROVE  /\ Tidy!Selected(units) \subseteq SUBSET Source
           /\ \A g, h \in Tidy!Selected(units) : g = h \/ g \cap h = {}
           /\ \A g \in Tidy!Selected(units) : \A s \in g : ~journal[s].live /\ KindAt(s, "source") = "dir"
<1> DEFINE Home(s) == CHOOSE g \in HardlinkSet : s \in g
<1>1. \A s \in Source : Home(s) \in HardlinkSet /\ s \in Home(s)
  BY MachineAssumptions DEF Tidy!ModelTidyAssumption
<1>2. \A g \in HardlinkSet : g \subseteq Source
  BY MachineAssumptions DEF Tidy!ModelTidyAssumption
<1>3. \A g, h \in HardlinkSet : g = h \/ g \cap h = {}
  BY MachineAssumptions DEF Tidy!ModelTidyAssumption
<1>4. ASSUME NEW s \in Source PROVE Tidy!Unit(s) = {t \in Home(s) : KindAt(t, "source") = "dir"}
  BY <1>1 DEF Tidy!Unit, Tidy!Mates, Tidy!Kind, KindAt
<1> HIDE DEF Home
<1>5. \A g \in units : \E s \in Source : g = {t \in Home(s) : KindAt(t, "source") = "dir"}
  BY <1>4 DEF Tidy!Units
<1>6. \A g, h \in units : g = h \/ g \cap h = {}
  <2> SUFFICES ASSUME NEW g \in units, NEW h \in units, NEW t \in g \cap h PROVE g = h
    OBVIOUS
  <2>1. PICK a \in Source : g = {u \in Home(a) : KindAt(u, "source") = "dir"}
    BY <1>5
  <2>2. PICK b \in Source : h = {u \in Home(b) : KindAt(u, "source") = "dir"}
    BY <1>5
  <2>3. Home(a) = Home(b)
    BY <1>1, <1>3, <2>1, <2>2
  <2>4. QED
    BY <2>1, <2>2, <2>3
<1>7. \A g \in Tidy!Selected(units) : \E u \in units : g = u \ Tidy!Journaled
  BY DEF Tidy!Selected
<1>8. \A g \in units : \A t \in g : t \in Source /\ KindAt(t, "source") = "dir"
  BY <1>1, <1>2, <1>5
<1>9. \A g \in Tidy!Selected(units) : \A s \in g : s \in Source /\ ~journal[s].live /\ KindAt(s, "source") = "dir"
  BY <1>7, <1>8 DEF Tidy!Journaled
<1>10. \A g, h \in Tidy!Selected(units) : g = h \/ g \cap h = {}
  <2> SUFFICES ASSUME NEW g \in Tidy!Selected(units), NEW h \in Tidy!Selected(units) PROVE g = h \/ g \cap h = {}
    OBVIOUS
  <2>1. PICK u \in units, v \in units : g = u \ Tidy!Journaled /\ h = v \ Tidy!Journaled
    BY <1>7
  <2>2. u = v \/ u \cap v = {}
    BY <1>6
  <2>3. QED
    BY <2>1, <2>2
<1>11. QED
  BY <1>9, <1>10

\* A process begins with what the journal has.
LEMMA StartStep == ASSUME TidyInv, Tidy!StartApply \/ Tidy!StartRecover PROVE TidyInv'
<1>1. /\ pc = "idle" /\ pc' = "recover" /\ todos' = Tidy!Journaled /\ group = {} /\ group' = {}
      /\ UNCHANGED <<fs, journal, added>>
  BY DEF Tidy!StartApply, Tidy!StartRecover, Tidy!world, TidyInv, Queued
<1>2. AllSound'
  BY <1>1, SoundStill DEF TidyInv
<1>3. /\ groups' \subseteq SUBSET Source
      /\ \A g, h \in groups' : g = h \/ g \cap h = {}
      /\ \A g \in groups' : \A s \in g : ~journal[s].live /\ KindAt(s, "source") = "dir"
  <2>1. CASE UNCHANGED groups
    <3>1. \A g \in groups : \A s \in g : s \in ToMove
      BY DEF ToMove
    <3>2. QED
      BY <2>1, <3>1 DEF TidyInv, Queued
  <2>2. CASE Tidy!StartApply
    BY <2>2, UnitsApart DEF Tidy!StartApply
  <2>3. QED
    BY <2>1, <2>2 DEF Tidy!StartRecover
<1>4. ToMove' = UNION groups'
  BY <1>1 DEF ToMove, Swapping, Finishing
<1>5. \A s \in ToMove' : (~journal[s].live /\ KindAt(s, "source") = "dir")'
  <2> SUFFICES ASSUME NEW s \in ToMove' PROVE ~journal[s].live /\ KindAt(s, "source") = "dir"
    BY <1>1 DEF KindAt
  <2>1. PICK g \in groups' : s \in g
    BY <1>4
  <2>2. QED
    BY <1>3, <2>1
<1>6. todos' \subseteq {s \in Source : journal'[s].live}
  BY <1>1 DEF Tidy!Journaled
<1>7. Queued'
  BY <1>1, <1>3, <1>5, <1>6 DEF Queued, Swapping, Finishing
<1>8. StepSound'
  BY <1>1 DEF StepSound, Swapping, Finishing
<1>9. Healed'
  <2>1. \A s \in Source \ todos' : ~journal[s].live /\ SourceSound(s)
    BY <1>1 DEF Tidy!Journaled, TidyInv, AllSound
  <2>2. \A s \in Source \ todos' : KindAt(s, "source")' # "none"
    BY <1>1, <2>1 DEF SourceSound, Served, KindAt
  <2>3. QED
    BY <2>2 DEF Healed
<1>10. QED
  BY <1>2, <1>7, <1>8, <1>9 DEF TidyInv

\* The records are gone through, or left to the steps of a swap.
LEMMA RecoverSwapStep == ASSUME TidyInv, NEW s \in Source, Tidy!RecoverSwap(s) PROVE TidyInv'
<1>1. /\ pc = "recover" /\ s \in todos /\ moved' = s /\ pc' = "finalize" /\ group = {}
      /\ UNCHANGED <<fs, journal, added, todos, groups, group>>
  BY DEF Tidy!RecoverSwap, Tidy!world, TidyInv, Queued
<1>2. AllSound'
  BY <1>1, SoundStill DEF TidyInv
<1>3. ToMove' = ToMove
  BY <1>1 DEF ToMove
<1>4. Queued'
  BY <1>1, <1>3 DEF TidyInv, Queued, Swapping, Finishing, KindAt
<1>5. StepSound'
  BY <1>1 DEF TidyInv, Queued, StepSound, Swapping, Finishing
<1>6. Healed'
  BY <1>1 DEF TidyInv, Healed, KindAt, ItemsAt
<1>7. QED
  BY <1>2, <1>4, <1>5, <1>6 DEF TidyInv

LEMMA LeaveAloneStep == ASSUME TidyInv, NEW s \in Source, Tidy!LeaveAlone(s) PROVE TidyInv'
<1>1. /\ pc = "recover" /\ s \in todos /\ todos' = todos \ {s} /\ group = {}
      /\ UNCHANGED <<fs, journal, added, pc, moved, groups, group>>
  BY DEF Tidy!LeaveAlone, Tidy!world, TidyInv, Queued
<1>2. AllSound'
  BY <1>1, SoundStill DEF TidyInv
<1>3. ToMove' = ToMove
  BY <1>1 DEF ToMove
<1>4. Queued'
  BY <1>1, <1>3 DEF TidyInv, Queued, Swapping, Finishing, KindAt
<1>5. StepSound'
  BY <1>1 DEF TidyInv, StepSound, Swapping, Finishing
<1>6. ~(/\ KindAt(s, "source") = "none" /\ KindAt(s, "staged") = "dir"
        /\ ItemsAt(s, "staged") = journal[s].manifest)
  <2> SUFFICES ASSUME KindAt(s, "source") = "none", KindAt(s, "staged") = "dir",
                      ItemsAt(s, "staged") = journal[s].manifest
               PROVE  FALSE
    OBVIOUS
  <2>1. Tidy!Trusted(s) /\ Tidy!Exists(s, "staged") /\ ~Tidy!Exists(s, "source")
    BY DEF Tidy!Trusted, Tidy!Exists, Tidy!VerifyManifest, Tidy!Kind, Tidy!Items, KindAt, ItemsAt
  <2>2. QED
    BY <2>1 DEF Tidy!LeaveAlone, Tidy!SwapPlacedOrPending, Tidy!Resolvable, Tidy!Kind, KindAt
<1>7. Healed'
  BY <1>1, <1>6 DEF TidyInv, Healed, KindAt, ItemsAt
<1>8. QED
  BY <1>2, <1>4, <1>5, <1>7 DEF TidyInv

\* Steps that leave the disk, the journal and the queues as they are.
LEMMA IdleStep ==
    ASSUME TidyInv, UNCHANGED <<fs, journal, added, todos, groups, group, moved>>,
           UNCHANGED pc \/ (pc = "recover" /\ todos = {} /\ pc' \in {"apply", "idle"})
    PROVE  TidyInv'
<1>1. AllSound'
  BY SoundStill DEF TidyInv
<1>2. ToMove' = ToMove
  BY DEF ToMove, Swapping, Finishing
<1>3. \A s \in ToMove' : (~journal[s].live /\ KindAt(s, "source") = "dir")'
  BY <1>2 DEF TidyInv, Queued, KindAt
<1>4. Queued'
  BY <1>3 DEF TidyInv, Queued, Swapping, Finishing
<1>5. StepSound'
  BY DEF TidyInv, StepSound, Swapping, Finishing, KindAt, ItemsAt
<1>6. Healed'
  BY DEF TidyInv, Healed, Finishing, KindAt, ItemsAt
<1>7. QED
  BY <1>1, <1>4, <1>5, <1>6 DEF TidyInv

LEMMA JournalFailsStep == ASSUME TidyInv, Tidy!JournalFails PROVE TidyInv'
<1>1. todos = {} /\ pc' = "apply" /\ group' = {} /\ UNCHANGED <<fs, journal, added, todos, groups>>
  BY DEF Tidy!JournalFails, TidyInv, Queued, Finishing
<1>2. AllSound'
  BY <1>1, SoundStill DEF TidyInv
<1>3. QED
  BY <1>1, <1>2, GivesUp DEF TidyInv, KindAt

LEMMA CrashStep == ASSUME TidyInv, Tidy!Crash PROVE TidyInv'
<1> DEFINE s == moved
<1> USE DEF KindAt, ItemsAt
<1>1. /\ pc' = "idle" /\ todos' = {} /\ groups' = {} /\ group' = {}
      /\ UNCHANGED <<journal, added, moved>>
  BY DEF Tidy!Crash, Tidy!ProcessGone
<1>2. StepSound' /\ Queued' /\ Healed'
  BY <1>1 DEF StepSound, Queued, Healed, ToMove, Swapping, Finishing
<1>3. CASE UNCHANGED fs
  BY <1>1, <1>2, <1>3, SoundStill DEF TidyInv
<1>4. ASSUME pc = "clear", NEW left \in SUBSET Tidy!Items(s, "staged"),
             fs' = [fs EXCEPT ![<<s, "staged">>].items = left]
      PROVE  TidyInv'
  <2>1. /\ s \in Source /\ journal[s].live
        /\ ItemsAt(s, "staged") \subseteq ItemsAt(s, "target")
    BY <1>4 DEF TidyInv, StepSound, Swapping, Finishing
  <2>2. fs \in Disk /\ SourceSound(s)
    BY <2>1 DEF TidyInv, AllSound
  <2> DEFINE part0 == [fs[<<s, "staged">>] EXCEPT !.items = left]
  <2>3. "staged" \in Tidy!Location /\ fs[<<s, "staged">>] \in Tidy!Node
    BY <2>2 DEF SourceSound, Shaped, Tidy!Location
  <2>4. part0 \in Tidy!Node /\ part0.kind = fs[<<s, "staged">>].kind /\ part0.items = left
    BY <1>4, <2>3 DEF Tidy!Node, Tidy!Items
  <2>5. fs' = [fs EXCEPT ![<<s, "staged">>] = part0]
    BY <1>4
  <2> HIDE DEF part0
  <2>6. /\ fs' \in Disk /\ fs'[<<s, "staged">>] = part0
        /\ \A t \in Source, a \in Tidy!Location : (t = s /\ a = "staged") \/ fs'[<<t, a>>] = fs[<<t, a>>]
    BY <2>1, <2>2, <2>3, <2>4, <2>5, Writes
  <2>7. part0 = fs[<<s, "staged">>] \/ part0.kind = "dir"
    <3>1. CASE fs[<<s, "staged">>].kind # "dir"
      <4>1. fs[<<s, "staged">>].items = {}
        BY <2>2, <2>3, <3>1 DEF SourceSound, Shaped
      <4>2. part0.items = {}
        BY <1>4, <2>4, <4>1 DEF Tidy!Items
      <4>3. QED
        BY <2>3, <2>4, <4>1, <4>2 DEF Tidy!Node
    <3>2. QED
      BY <2>4, <3>1
  <2>8. Shaped(s)'
    BY <1>1, <2>1, <2>2, <2>6, <2>7, ShapeKept DEF SourceSound
  <2>9. /\ \A a \in {"source", "link", "target", "quarantine"} : fs'[<<s, a>>] = fs[<<s, a>>]
        /\ \A t \in Source \ {s}, a \in Tidy!Location : fs'[<<t, a>>] = fs[<<t, a>>]
    <3>1. {"source", "link", "target", "quarantine"} \subseteq Tidy!Location
      BY DEF Tidy!Location
    <3>2. QED
      BY <2>1, <2>6, <3>1
  <2>10. \A f \in File \cup Added : Tidy!Intact(s, f) => Tidy!Intact(s, f)'
    <3>1. \A i : i \in ItemsAt(s, "staged") => i \in ItemsAt(s, "target")
      BY <2>1
    <3>2. QED
      BY <1>1, <2>9, <3>1 DEF Tidy!Intact, Tidy!Location, Tidy!Items
  <2>11. left \subseteq ItemsAt(s, "staged")
    BY <1>4 DEF Tidy!Items
  <2>12. (Originals \subseteq ItemsAt(s, "staged") => ItemsAt(s, "staged") \subseteq Intacts)'
    BY <1>1, <2>2, <2>4, <2>6, <2>11 DEF SourceSound, Undamaged, Originals, Intacts
  <2>13. ItemsAt(s, "source")' \subseteq Intacts
    BY <1>1, <2>2, <2>9 DEF SourceSound, Undamaged
  <2>14. AllSound'
    BY <1>1, <2>1, <2>2, <2>6, <2>8, <2>9, <2>10, <2>12, <2>13, MovedSound
  <2>15. QED
    BY <1>2, <2>14 DEF TidyInv
<1>5. QED
  BY <1>3, <1>4 DEF Tidy!Crash
\* A file of a journaled move is damaged: what was a good original is one no more.
LEMMA DamageStep ==
    ASSUME TidyInv, NEW s \in Source, NEW where \in {"staged", "target"}, NEW f \in File,
           Tidy!Damage(s, where, f)
    PROVE  TidyInv'
<1> USE DEF KindAt, ItemsAt
<1>1. /\ pc \notin {"clear", "quarantine", "restore", "forget"} /\ journal[s].live
      /\ <<f, "intact">> \in ItemsAt(s, where)
      /\ \E other \in Tidy!Location \ {where} : <<f, "intact">> \in ItemsAt(s, other)
      /\ fs' = Tidy!Damaged(s, where, f)
      /\ UNCHANGED <<journal, added, pc, todos, groups, group, moved>>
  BY DEF Tidy!Damage, Tidy!process, Tidy!Items
<1>2. fs \in Disk /\ SourceSound(s) /\ where \in Tidy!Location
  BY DEF TidyInv, AllSound, Tidy!Location
<1> DEFINE items1 == (ItemsAt(s, where) \ {<<f, "intact">>}) \cup {<<f, "damaged">>}
           node1 == [fs[<<s, where>>] EXCEPT !.items = items1]
<1>3. fs[<<s, where>>] \in Tidy!Node /\ fs[<<s, where>>].kind = "dir"
  BY <1>1, <1>2 DEF SourceSound, Shaped
<1>4. items1 \subseteq Tidy!Item
  BY <1>3 DEF Tidy!Node, Tidy!Item
<1>5. node1 \in Tidy!Node /\ node1.kind = "dir" /\ node1.items = items1
  <2> HIDE DEF items1
  <2>1. QED
    BY <1>3, <1>4 DEF Tidy!Node
<1>6. fs' = [fs EXCEPT ![<<s, where>>] = node1]
  BY <1>1, <1>2 DEF Tidy!Damaged, Disk
<1>7. <<f, "intact">> \notin items1 /\ <<f, "damaged">> \in items1
      /\ \A g : g # f => (<<g, "intact">> \in items1 <=> <<g, "intact">> \in ItemsAt(s, where))
  OBVIOUS
<1> HIDE DEF items1, node1
<1>8. /\ fs' \in Disk /\ fs'[<<s, where>>] = node1
      /\ \A t \in Source, a \in Tidy!Location : (t = s /\ a = where) \/ fs'[<<t, a>>] = fs[<<t, a>>]
  BY <1>2, <1>5, <1>6, Writes
<1>9. /\ \A t \in Source : fs'[<<t, "source">>] = fs[<<t, "source">>] /\ fs'[<<t, "link">>] = fs[<<t, "link">>]
      /\ \A t \in Source, a \in Tidy!Location : fs'[<<t, a>>].kind = fs[<<t, a>>].kind
  <2>1. {"source", "link"} \subseteq Tidy!Location /\ where \notin {"source", "link"}
    BY DEF Tidy!Location
  <2>2. QED
    BY <1>3, <1>5, <1>8, <2>1
<1>10. Shaped(s)'
  BY <1>2, <1>5, <1>8, ShapeKept DEF SourceSound
<1>11. <<f, "intact">> \in Originals /\ <<f, "damaged">> \notin Intacts
  BY DEF Originals, Intacts
<1>12. (Originals \subseteq ItemsAt(s, "staged") => ItemsAt(s, "staged") \subseteq Intacts)'
  <2>1. CASE where = "staged"
    BY <1>5, <1>7, <1>8, <1>11, <2>1 DEF Originals, Intacts
  <2>2. CASE where # "staged"
    <3>1. fs'[<<s, "staged">>] = fs[<<s, "staged">>]
      BY <1>8, <2>2 DEF Tidy!Location
    <3>2. QED
      BY <1>2, <3>1 DEF SourceSound, Undamaged, Originals, Intacts
  <2>3. QED
    BY <2>1, <2>2
<1>13. ASSUME NEW g \in File \cup Added, Tidy!Intact(s, g) PROVE Tidy!Intact(s, g)'
  <2>1. CASE g = f
    <3>1. PICK other \in Tidy!Location \ {where} : <<f, "intact">> \in ItemsAt(s, other)
      BY <1>1
    <3>2. fs'[<<s, other>>] = fs[<<s, other>>]
      BY <1>8, <3>1
    <3>3. QED
      BY <2>1, <3>1, <3>2 DEF Tidy!Intact, Tidy!Items
  <2>2. CASE g # f
    <3>1. PICK a \in Tidy!Location : <<g, "intact">> \in ItemsAt(s, a)
      BY <1>13 DEF Tidy!Intact, Tidy!Items
    <3>2. <<g, "intact">> \in fs'[<<s, a>>].items
      BY <1>5, <1>7, <1>8, <2>2, <3>1
    <3>3. QED
      BY <3>2 DEF Tidy!Intact, Tidy!Items
  <2>3. QED
    BY <2>1, <2>2
<1>14. AllSound'
  <2>1. ItemsAt(s, "source")' \subseteq Intacts
    BY <1>2, <1>9 DEF SourceSound, Undamaged
  <2>2. \A t \in Source \ {s}, a \in Tidy!Location : fs'[<<t, a>>] = fs[<<t, a>>]
    BY <1>8
  <2>3. QED
    BY <1>1, <1>8, <1>10, <1>12, <1>13, <2>1, <2>2, MovedSound
<1>15. StepSound'
  <2>1. {"source", "staged", "link"} \subseteq Tidy!Location
    BY DEF Tidy!Location
  <2>2. pc' \in Swapping => moved \in Source /\ \A a \in Tidy!Location : KindAt(moved, a)' = KindAt(moved, a)
    BY <1>1, <1>9 DEF TidyInv, StepSound
  <2>3. QED
    BY <1>1, <2>1, <2>2 DEF TidyInv, StepSound, Swapping, Finishing
<1>16. Queued'
  <2>1. ToMove' = ToMove /\ ToMove \subseteq Source
    BY <1>1, MovesKnown DEF ToMove, TidyInv
  <2>2. \A t \in ToMove' : (~journal[t].live /\ KindAt(t, "source") = "dir")'
    BY <1>1, <1>9, <2>1 DEF TidyInv, Queued
  <2>3. QED
    BY <1>1, <2>2 DEF TidyInv, Queued
<1>17. Healed'
  <2>1. ~(ItemsAt(s, "staged")' = journal[s].manifest) \/ fs'[<<s, "staged">>] = fs[<<s, "staged">>]
    <3>1. CASE where = "staged"
      BY <1>1, <1>2, <1>5, <1>7, <1>8, <1>11, <3>1 DEF SourceSound, Undamaged
    <3>2. CASE where # "staged"
      BY <1>8, <3>2 DEF Tidy!Location
    <3>3. QED
      BY <3>1, <3>2
  <2>2. \A t \in Source \ {s} : fs'[<<t, "staged">>] = fs[<<t, "staged">>]
    BY <1>8 DEF Tidy!Location
  <2>3. SUFFICES ASSUME pc = "recover" \/ (pc \in Finishing /\ moved \in todos),
                        NEW t \in Source \ todos, KindAt(t, "source")' = "none",
                        KindAt(t, "staged")' = "dir", ItemsAt(t, "staged")' = journal[t].manifest
                 PROVE  FALSE
    BY <1>1 DEF Healed
  <2>4. KindAt(t, "source") = "none" /\ KindAt(t, "staged") = "dir"
    BY <1>9, <2>3 DEF Tidy!Location
  <2>5. ItemsAt(t, "staged") # journal[t].manifest
    BY <2>3, <2>4 DEF TidyInv, Healed
  <2>6. CASE t = s
    BY <2>1, <2>3, <2>5, <2>6
  <2>7. CASE t # s
    BY <2>2, <2>3, <2>5, <2>7
  <2>8. QED
    BY <2>6, <2>7
<1>18. QED
  BY <1>14, <1>15, <1>16, <1>17 DEF TidyInv

\* Somebody adds a file through the path: to the directory there, or to the copy.
LEMMA AddFileStep ==
    ASSUME TidyInv, NEW s \in Source, NEW f \in Added, Tidy!AddFile(s, f) PROVE TidyInv'
<1> USE DEF KindAt, ItemsAt
<1> DEFINE where == IF KindAt(s, "source") = "link" THEN "target" ELSE "source"
           items1 == ItemsAt(s, where) \cup {<<f, "intact">>}
           node1 == Tidy!Dir(items1)
<1>1. /\ added' = [added EXCEPT ![s] = @ \cup {f}] /\ UNCHANGED <<journal, pc, todos, groups, group, moved>>
      /\ fs' = [fs EXCEPT ![<<s, where>>] = Tidy!Dir(@.items \cup {<<f, "intact">>})]
      /\ where = "target" => KindAt(s, "target") = "dir"
  BY DEF Tidy!AddFile, Tidy!process, Tidy!Kind, Tidy!TargetThere
<1>2. /\ fs \in Disk /\ SourceSound(s) /\ added \in [Source -> SUBSET Added]
      /\ where \in {"source", "target"} /\ where \in Tidy!Location
  BY DEF TidyInv, AllSound, Tidy!Location
<1>3. where = "source" => KindAt(s, "source") # "link"
  OBVIOUS
<1>4. where = "target" => KindAt(s, "source") = "link"
  OBVIOUS
<1> HIDE DEF where
<1>5. items1 \subseteq Tidy!Item
  <2>1. fs[<<s, where>>] \in Tidy!Node
    BY <1>2 DEF SourceSound, Shaped
  <2>2. QED
    BY <2>1 DEF Tidy!Node, Tidy!Item
<1>6. node1 \in Tidy!Node /\ node1.kind = "dir" /\ node1.items = items1
  <2> HIDE DEF items1
  <2>1. QED
    BY <1>5 DEF Tidy!Dir, Tidy!Node
<1>7. fs' = [fs EXCEPT ![<<s, where>>] = node1]
  BY <1>1, <1>2 DEF Disk
<1>8. ItemsAt(s, where) \subseteq items1 /\ <<f, "intact">> \in items1
      /\ (ItemsAt(s, where) \subseteq Intacts => items1 \subseteq Intacts)
  BY DEF Intacts
<1> HIDE DEF items1, node1
<1>9. /\ fs' \in Disk /\ fs'[<<s, where>>] = node1
      /\ \A t \in Source, a \in Tidy!Location : (t = s /\ a = where) \/ fs'[<<t, a>>] = fs[<<t, a>>]
  BY <1>2, <1>6, <1>7, Writes
<1>10. /\ added' \in [Source -> SUBSET Added] /\ added'[s] = added[s] \cup {f}
       /\ \A t \in Source \ {s} : added'[t] = added[t]
  BY <1>1, <1>2
<1>11. \A t \in Source, a \in Tidy!Location : fs[<<t, a>>].items \subseteq fs'[<<t, a>>].items
  BY <1>6, <1>8, <1>9
<1>12. /\ fs'[<<s, "staged">>] = fs[<<s, "staged">>] /\ fs'[<<s, "link">>] = fs[<<s, "link">>]
       /\ \A t \in Source \ {s}, a \in Tidy!Location : fs'[<<t, a>>] = fs[<<t, a>>]
  <2>1. {"staged", "link"} \subseteq Tidy!Location
    BY DEF Tidy!Location
  <2>2. QED
    BY <1>2, <1>9, <2>1
<1>13. /\ KindAt(s, "source") = "link" => fs'[<<s, "source">>] = fs[<<s, "source">>]
       /\ KindAt(s, "source") # "link" => KindAt(s, "source")' = "dir"
       /\ ItemsAt(s, "source")' \subseteq Intacts
  <2>1. "source" \in Tidy!Location /\ ItemsAt(s, "source") \subseteq Intacts
    BY <1>2 DEF Tidy!Location, SourceSound, Undamaged
  <2>2. CASE where = "source"
    BY <1>3, <1>6, <1>8, <1>9, <2>1, <2>2
  <2>3. CASE where = "target"
    BY <1>4, <1>9, <2>1, <2>3
  <2>4. QED
    BY <1>2, <2>2, <2>3
<1>14. Shaped(s)'
  BY <1>2, <1>6, <1>9, ShapeKept DEF SourceSound
<1>15. Undamaged(s)'
  BY <1>1, <1>2, <1>12, <1>13 DEF SourceSound, Undamaged
<1>16. Served(s)'
  <2> SUFFICES ASSUME ~journal[s].live PROVE Served(s)'
    BY <1>1 DEF Served
  <2>1. {"source", "target", "staged"} \subseteq Tidy!Location
    BY DEF Tidy!Location
  <2>2. /\ KindAt(s, "source") # "none" /\ KindAt(s, "staged") # "dir"
        /\ Originals \subseteq ItemsAt(s, IF KindAt(s, "source") = "dir" THEN "source" ELSE "target")
    BY <1>2 DEF SourceSound, Served
  <2>3. fs[<<s, "source">>].kind \in {"dir", "link"}
    BY <1>2, <2>1, <2>2 DEF SourceSound, Shaped, Tidy!Node
  <2>4. CASE KindAt(s, "source") = "dir"
    BY <1>11, <1>12, <1>13, <2>1, <2>2, <2>4 DEF Served
  <2>5. CASE KindAt(s, "source") = "link"
    BY <1>11, <1>12, <1>13, <2>1, <2>2, <2>5 DEF Served
  <2>6. QED
    BY <2>3, <2>4, <2>5
<1>17. Kept(s)'
  <2>1. ASSUME NEW g \in File \cup added[s] PROVE \E loc \in Tidy!Location : <<g, "intact">> \in fs'[<<s, loc>>].items
    <3>1. PICK loc \in Tidy!Location : <<g, "intact">> \in ItemsAt(s, loc)
      BY <1>2 DEF SourceSound, Kept
    <3>2. QED
      BY <1>11, <3>1
  <2>2. <<f, "intact">> \in fs'[<<s, where>>].items
    BY <1>6, <1>8, <1>9
  <2>3. added[s] \subseteq Added
    BY <1>2 DEF SourceSound, Kept
  <2>4. QED
    BY <1>2, <1>10, <2>1, <2>2, <2>3 DEF Kept
<1>18. AllSound'
  <2>1. SourceSound(s)'
    BY <1>14, <1>15, <1>16, <1>17 DEF SourceSound
  <2>2. journal' \in [Source -> Tidy!Record]
    BY <1>1 DEF TidyInv, AllSound
  <2>3. QED
    BY <1>1, <1>9, <1>10, <1>12, <2>1, <2>2, SoundElsewhere DEF TidyInv
<1>19. StepSound'
  <2>1. CASE moved = s
    <3>1. {"source", "target", "staged", "link"} \subseteq Tidy!Location
      BY DEF Tidy!Location
    <3>2. /\ KindAt(s, "staged")' = KindAt(s, "staged") /\ KindAt(s, "link")' = KindAt(s, "link")
          /\ ItemsAt(s, "staged")' = ItemsAt(s, "staged")
          /\ ItemsAt(s, "target") \subseteq ItemsAt(s, "target")' /\ ItemsAt(s, "source") \subseteq ItemsAt(s, "source")'
          /\ KindAt(s, "source") = "link" => KindAt(s, "source")' = "link"
          /\ KindAt(s, "source") # "link" => KindAt(s, "source")' = "dir"
      BY <1>11, <1>12, <1>13, <3>1
    <3>3. KindAt(s, "source") \in {"none", "dir", "link"}
      BY <1>2, <3>1 DEF SourceSound, Shaped, Tidy!Node
    <3> HIDE DEF KindAt, ItemsAt
    <3>4. pc \in {"link", "stage"} => (KindAt(moved, "source") = "dir" /\ KindAt(moved, "staged") = "none")'
      BY <1>1, <2>1, <3>2 DEF TidyInv, StepSound
    <3>5. /\ pc \in {"stage", "place"} => (KindAt(moved, "link") = "link")'
          /\ pc \in {"clear", "quarantine"} => (KindAt(moved, "source") = "link")'
      BY <1>1, <2>1, <3>2 DEF TidyInv, StepSound
    <3>6. pc = "clear" => (Originals \cup ItemsAt(moved, "staged") \subseteq ItemsAt(moved, "target"))'
      <4> SUFFICES ASSUME pc = "clear"
                   PROVE  Originals \cup ItemsAt(s, "staged") \subseteq ItemsAt(s, "target")'
        BY <1>1, <2>1, <3>2
      <4>1. Originals \cup ItemsAt(s, "staged") \subseteq ItemsAt(s, "target")
        BY <2>1 DEF TidyInv, StepSound
      <4>2. QED
        BY <3>2, <4>1
    <3>7. pc = "restore" => (/\ KindAt(moved, "source") # "link" /\ KindAt(moved, "staged") = "dir"
                             /\ ItemsAt(moved, "staged") = journal[moved].manifest)'
      BY <1>1, <2>1, <3>2 DEF TidyInv, StepSound
    <3>8. pc = "forget" =>
            (/\ KindAt(moved, "source") # "none" /\ KindAt(moved, "staged") = "none"
             /\ Originals \subseteq ItemsAt(moved, IF KindAt(moved, "source") = "dir" THEN "source" ELSE "target"))'
      <4> SUFFICES ASSUME pc = "forget"
                   PROVE  /\ KindAt(s, "source")' # "none" /\ KindAt(s, "staged")' = "none"
                          /\ Originals \subseteq ItemsAt(s, IF KindAt(s, "source") = "dir" THEN "source" ELSE "target")'
        BY <1>1, <2>1
      <4>1. /\ KindAt(s, "source") # "none" /\ KindAt(s, "staged") = "none"
            /\ Originals \subseteq ItemsAt(s, IF KindAt(s, "source") = "dir" THEN "source" ELSE "target")
        BY <2>1 DEF TidyInv, StepSound
      <4>2. CASE KindAt(s, "source") = "dir"
        BY <3>2, <4>1, <4>2
      <4>3. CASE KindAt(s, "source") = "link"
        BY <3>2, <4>1, <4>3
      <4>4. QED
        BY <3>3, <4>1, <4>2, <4>3
    <3>9. QED
      BY <1>1, <3>4, <3>5, <3>6, <3>7, <3>8 DEF TidyInv, StepSound
  <2>2. CASE moved # s /\ pc \in Swapping
    <3>1. \A a \in Tidy!Location : fs'[<<moved, a>>] = fs[<<moved, a>>]
      BY <1>12, <2>2 DEF TidyInv, StepSound
    <3>2. QED
      BY <1>1, <2>2, <3>1 DEF TidyInv, StepSound, Tidy!Location
  <2>3. CASE pc \notin Swapping
    BY <1>1, <2>3 DEF TidyInv, StepSound, Swapping, Finishing
  <2>4. QED
    BY <2>1, <2>2, <2>3
<1>20. \A t \in Source : /\ KindAt(t, "source") = "dir" => KindAt(t, "source")' = "dir"
                         /\ KindAt(t, "source")' = "none" => KindAt(t, "source") = "none"
                         /\ fs'[<<t, "staged">>] = fs[<<t, "staged">>]
  BY <1>12, <1>13 DEF Tidy!Location
<1>21. Queued'
  <2>1. ToMove' = ToMove /\ ToMove \subseteq Source
    BY <1>1, MovesKnown DEF ToMove, TidyInv
  <2>2. \A t \in ToMove' : (~journal[t].live /\ KindAt(t, "source") = "dir")'
    BY <1>1, <1>20, <2>1 DEF TidyInv, Queued
  <2>3. QED
    BY <1>1, <2>2 DEF TidyInv, Queued
<1>22. Healed'
  BY <1>1, <1>20 DEF TidyInv, Healed
<1>23. QED
  BY <1>18, <1>19, <1>21, <1>22 DEF TidyInv

LEMMA TidyStep == ASSUME TidyInv, [Tidy!Next]_(Tidy!vars) PROVE TidyInv'
<1>1. CASE UNCHANGED Tidy!vars
  BY <1>1, IdleStep DEF Tidy!vars
<1>2. CASE Tidy!StartApply \/ Tidy!StartRecover
  BY <1>2, StartStep
<1>3. CASE \E s \in Source : Tidy!RecoverSwap(s) \/ Tidy!RecoverOriginal(s) \/ Tidy!LeaveAlone(s)
  BY <1>3, RecoverSwapStep, RecoverOriginalStep, LeaveAloneStep
<1>4. CASE Tidy!Recovered \/ Tidy!Unmount \/ Tidy!Mount
  BY <1>4, IdleStep DEF Tidy!Recovered, Tidy!Unmount, Tidy!Mount, Tidy!process, Tidy!world
<1>5. CASE Tidy!FinalizeGood \/ Tidy!Clear \/ Tidy!Quarantine \/ Tidy!FinalizeRestore \/ Tidy!Restore
  BY <1>5, FinalizeGoodStep, ClearStep, QuarantineStep, FinalizeRestoreStep, RestoreStep
<1>6. CASE Tidy!FinalizeNothing \/ Tidy!Forget
  BY <1>6, FinalizeNothingStep, ForgetStep
<1>7. CASE Tidy!NextUnit \/ Tidy!CopyUnit \/ Tidy!CopyFails \/ Tidy!VerifyUnit \/ Tidy!BeginSwap
  BY <1>7, NextUnitStep, CopyStep, VerifyStep, BeginSwapStep
<1>8. CASE Tidy!MakeLink \/ Tidy!Stage \/ Tidy!Place
  BY <1>8, MakeLinkStep, StageStep, PlaceStep
<1>9. CASE Tidy!Crash \/ Tidy!JournalFails
  BY <1>9, CrashStep, JournalFailsStep
<1>10. CASE \E s \in Source, where \in {"staged", "target"}, f \in File : Tidy!Damage(s, where, f)
  BY <1>10, DamageStep
<1>11. CASE \E s \in Source, f \in Added : Tidy!AddFile(s, f)
  BY <1>11, AddFileStep
<1>12. QED
  BY <1>1, <1>2, <1>3, <1>4, <1>5, <1>6, <1>7, <1>8, <1>9, <1>10, <1>11
     DEF Tidy!Next, Tidy!ProcessStep, Tidy!Environment

LEMMA TidyStart == Tidy!Init => TidyInv
<1> SUFFICES ASSUME Tidy!Init PROVE TidyInv
  OBVIOUS
<1> USE DEF KindAt, ItemsAt
<1>1. /\ Tidy!Dir(Originals) \in Tidy!Node /\ Tidy!Nothing \in Tidy!Node /\ Tidy!NoRecord \in Tidy!Record
      /\ Tidy!Dir(Originals).kind = "dir" /\ Tidy!Dir(Originals).items = Originals
      /\ Tidy!Nothing.kind = "none" /\ Tidy!Nothing.items = {} /\ ~Tidy!NoRecord.live
  BY DEF Tidy!Dir, Tidy!Node, Tidy!Nothing, Tidy!Item, Tidy!NoRecord, Tidy!Record, Originals
<1>2. fs = [p \in Source \X Tidy!Location |-> IF p[2] = "source" THEN Tidy!Dir(Originals) ELSE Tidy!Nothing]
  BY DEF Tidy!Init, Originals
<1>3. /\ fs \in Disk
      /\ \A s \in Source, a \in Tidy!Location :
            fs[<<s, a>>] = IF a = "source" THEN Tidy!Dir(Originals) ELSE Tidy!Nothing
  BY <1>1, <1>2 DEF Disk
<1>4. journal = [s \in Source |-> Tidy!NoRecord] /\ added = [s \in Source |-> {}]
  BY DEF Tidy!Init
<1>5. ASSUME NEW s \in Source PROVE SourceSound(s)
  <2>1. {"source", "staged", "link", "target", "quarantine"} \subseteq Tidy!Location
    BY DEF Tidy!Location
  <2>2. /\ fs[<<s, "source">>] = Tidy!Dir(Originals) /\ fs[<<s, "staged">>] = Tidy!Nothing
        /\ fs[<<s, "link">>] = Tidy!Nothing
    BY <1>3, <2>1
  <2>3. Shaped(s)
    BY <1>1, <1>3, <2>1 DEF Shaped
  <2>4. Originals \subseteq Intacts
    BY DEF Originals, Intacts
  <2>5. Undamaged(s)
    BY <1>1, <1>4, <2>2, <2>4 DEF Undamaged
  <2>6. Served(s)
    BY <1>1, <2>2 DEF Served
  <2>7. \A f \in File : <<f, "intact">> \in fs[<<s, "source">>].items
    BY <1>1, <2>2 DEF Originals
  <2>8. Kept(s)
    BY <1>4, <2>1, <2>7 DEF Kept
  <2>9. QED
    BY <2>3, <2>5, <2>6, <2>8 DEF SourceSound
<1>6. AllSound
  BY <1>1, <1>3, <1>4, <1>5 DEF AllSound
<1>7. StepSound /\ Queued /\ Healed
  BY DEF Tidy!Init, StepSound, Queued, Healed, ToMove, Swapping, Finishing
<1>8. QED
  BY <1>6, <1>7 DEF TidyInv

LEMMA TidyAlways == PartsSpec => []TidyInv
  BY TidyPart, TidyStart, TidyStep, PTL

\* The last good copy of a file is never deleted and never overwritten, wherever a move
\* dies, whatever it finds damaged, and whatever is added meanwhile.
\* src/model-tidy.mjs, copyUnitPureNode, swapToSymlink, finalizeSwapOrRestore, recoverFromJournal.
THEOREM FilesKept == PartsSpec => []NothingLost
<1>1. TidyInv => NothingLost
  BY DEF TidyInv, AllSound, SourceSound, Kept, NothingLost, Tidy!NothingLost, Tidy!Intact, Tidy!Items, ItemsAt
<1>2. QED
  BY <1>1, TidyAlways, PTL

\* A path that leads nowhere, or whose original was moved aside, has a record; a moved path
\* without one serves all its files.
THEOREM PathsLead == PartsSpec => []PathsServed
<1>1. ASSUME TidyInv PROVE PathsServed
  <2> SUFFICES ASSUME NEW s \in Source
               PROVE  /\ KindAt(s, "source") = "none" \/ KindAt(s, "staged") = "dir" => journal[s].live
                      /\ KindAt(s, "source") = "link" /\ ~journal[s].live => Originals \subseteq ItemsAt(s, "target")
    BY DEF PathsServed, Tidy!PathsServed, Tidy!Tracked, Tidy!LinkServes, Tidy!Kind, Tidy!Items, KindAt, ItemsAt,
       Originals
  <2>1. Served(s)
    BY <1>1 DEF TidyInv, AllSound, SourceSound
  <2>2. QED
    BY <2>1 DEF Served
<1>2. QED
  BY <1>1, TidyAlways, PTL

\* When recovery is through, every path a move left missing is back, if its original is good.
THEOREM RecoveryHeals == PartsSpec => []RecoverHeals
<1>1. TidyInv => RecoverHeals
  BY DEF TidyInv, Healed, RecoverHeals, Tidy!RecoverHeals, Tidy!StagedMatches, Tidy!ManifestExactMatch, Tidy!Kind,
     Tidy!Items, KindAt, ItemsAt
<1>2. QED
  BY <1>1, TidyAlways, PTL
=============================================================================
