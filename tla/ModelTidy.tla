------------------------------ MODULE ModelTidy ------------------------------
(***************************************************************************)
(* model-tidy: moves idle model directories to another disk and leaves     *)
(* symlinks behind. A unit is copied, verified, and swapped for a link in  *)
(* journaled steps; `recover`, and every `apply` at its start, finishes or *)
(* undoes what a crash interrupted. One process runs at a time; it may die *)
(* between any two changes of the disk, copies of its own may be damaged,  *)
(* the target disk may be away, and others add files through the path.     *)
(* src/src/model-tidy.mjs, src/bin/model-tidy.mjs.                         *)
(***************************************************************************)
EXTENDS Integers, FiniteSets

CONSTANTS Source,     \* model directories
          HardlinkSet, \* the sets of sources that share inodes, a partition
          File,       \* the files every source starts with
          Sticky,     \* those a copy creates with symlink or link: EEXIST if there
          Added,      \* files somebody may add later
          MaxAdded, MaxFaults

ModelTidyAssumption ==
    /\ UNION HardlinkSet = Source
    /\ \A g, h \in HardlinkSet : g = h \/ g \cap h = {}
    /\ Sticky \subseteq File /\ File \cap Added = {}
    /\ MaxAdded \in Nat /\ MaxFaults \in Nat

VARIABLES fs,       \* what is at the five paths of a source
          journal,  \* the record of a source: is there one, and its manifest
          stray,    \* sources for which an interrupted journal write left a .tmp file
          mounted,  \* the target disk is there
          pc,       \* what the running process does next
          applying, \* it runs `apply`, not `recover`
          todo,     \* records it has still to recover
          groups,   \* units it has still to move
          group,    \* members of the current unit it has still to swap
          cur,      \* the source it works on
          added,    \* history: what was added to each source
          faults
vars == <<fs, journal, stray, mounted, pc, applying, todo, groups, group, cur, added, faults>>
world == <<added, mounted, faults>>
process == <<pc, applying, todo, groups, group, cur>>

Location == {"source", "staged", "link", "target", "quarantine"}
Item == (File \cup Added) \X {"intact", "damaged"}
Node == [kind : {"none", "dir", "link"}, items : SUBSET Item]
Nothing == [kind |-> "none", items |-> {}]
Link == [kind |-> "link", items |-> {}]
Dir(items) == [kind |-> "dir", items |-> items]
Record == [live : BOOLEAN, manifest : SUBSET Item]
NoRecord == [live |-> FALSE, manifest |-> {}]

TypeOK ==
    /\ fs \in [Source \X Location -> Node]
    /\ journal \in [Source -> Record]
    /\ stray \subseteq Source
    /\ mounted \in BOOLEAN /\ applying \in BOOLEAN
    /\ pc \in {"idle", "recover", "apply", "copy", "verify", "swap", "link", "stage",
               "place", "finalize", "clear", "quarantine", "restore", "forget"}
    /\ todo \subseteq Source /\ group \subseteq Source
    /\ groups \subseteq SUBSET Source
    /\ cur \in Source
    /\ added \in [Source -> SUBSET Added]
    /\ faults \in 0..MaxFaults

Init ==
    /\ fs = [p \in Source \X Location |->
                IF p[2] = "source" THEN Dir(File \X {"intact"}) ELSE Nothing]
    /\ journal = [s \in Source |-> NoRecord]
    /\ stray = {} /\ mounted = TRUE
    /\ pc = "idle" /\ applying = FALSE
    /\ todo = {} /\ groups = {} /\ group = {}
    /\ cur = CHOOSE s \in Source : TRUE
    /\ added = [s \in Source |-> {}]
    /\ faults = 0

-----------------------------------------------------------------------------
(* The disk *)

Kind(s, at) == fs[<<s, at>>].kind
Items(s, at) == fs[<<s, at>>].items
\* A path on the target disk is there only while the disk is.
TargetThere(s) == mounted /\ Kind(s, "target") = "dir"
\* existsSync follows links: one whose target is away does not exist.
Exists(s, at) == Kind(s, at) = "dir" \/ (Kind(s, at) = "link" /\ TargetThere(s))
Renamed(s, from, to) == [fs EXCEPT ![<<s, to>>] = fs[<<s, from>>], ![<<s, from>>] = Nothing]
ManifestExactMatch(s, at, manifest) ==
    /\ IF at = "target" THEN TargetThere(s) ELSE Kind(s, at) = "dir"
    /\ Items(s, at) = manifest
VerifyManifest(s, at, manifest) == manifest \subseteq Items(s, at)
FilesOf(items) == {i[1] : i \in items}
Journaled == {s \in Source : journal[s].live}
Leftover(s) == Exists(s, "staged") \/ Exists(s, "link")

-----------------------------------------------------------------------------
(* Planning *)

\* What the machine looks like when a plan is made: whether every process and
\* docker could be asked, and the rule that speaks against a source, if any. A
\* process that only mentions the path and serves nothing is no reason.
Box == [readable : BOOLEAN, docker : BOOLEAN,
        rule : [Source -> {"none", "mentioned", "kept", "held", "bound", "fresh"}]]
Idle(s, box) == box.readable /\ box.docker /\ box.rule[s] \in {"none", "mentioned"}

Mates(s) == (CHOOSE g \in HardlinkSet : s \in g) \ {s}
\* A link of the source's files lies where discovery does not look.
IncompleteSet(s) ==
    \E t \in Mates(s) : \E at \in {"staged", "quarantine"} : Kind(t, at) = "dir"
Unit(s) == {t \in Mates(s) \cup {s} : Kind(t, "source") = "dir"}
Movable(s, box) == Kind(s, "source") = "dir" /\ ~IncompleteSet(s) /\ Idle(s, box)

\* planRun: whole units of idle directories, as far as the size cap allows, and
\* then without those whose move is journaled.
Units(box) ==
    LET s0 == {s \in Source : Kind(s, "source") = "dir"}
    IN  {u \in {Unit(s) : s \in s0} : \A t \in u : Movable(t, box)}
Selected(units) == {u \ Journaled : u \in units} \ {{}}

StartApply ==
    /\ pc = "idle"
    /\ stray = {}
    /\ \E box \in Box : \E units \in SUBSET Units(box) : groups' = Selected(units)
    /\ pc' = "recover" /\ applying' = TRUE /\ todo' = Journaled
    /\ UNCHANGED <<fs, journal, stray, group, cur, world>>

-----------------------------------------------------------------------------
(* Recovery *)

StartRecover ==
    /\ pc = "idle"
    /\ pc' = "recover" /\ applying' = FALSE /\ todo' = Journaled
    /\ UNCHANGED <<fs, journal, stray, groups, group, cur, world>>

\* Mutant of SwapPlacedOrPending: a rename that was still to come is not looked for.
SwapPlacedOrPending_Placed(s) == Kind(s, "source") = "link" /\ Exists(s, "source")

SwapPlacedOrPending(s) ==
    \/ Kind(s, "source") = "link" /\ Exists(s, "source")
    \/ ~Exists(s, "source") /\ Exists(s, "staged") /\ Exists(s, "link")
\* Whatever is on disk still has what the record lists.
Trusted(s) ==
    \A at \in {"source", "staged"} :
        Exists(s, at) => VerifyManifest(s, at, journal[s].manifest)

\* The case is decided by the guarded decision table below.
RecoverSwap(s) ==
    /\ pc = "recover" /\ s \in todo
    /\ SwapPlacedOrPending(s)
    /\ cur' = s /\ pc' = "finalize"
    /\ UNCHANGED <<fs, journal, stray, applying, todo, groups, group, world>>

\* No link was placed: put the original back, or clear what the crash left.
RecoverOriginal(s) ==
    /\ pc = "recover" /\ s \in todo
    /\ ~SwapPlacedOrPending(s) /\ Trusted(s)
    /\ \/ /\ Kind(s, "source") = "none" /\ Exists(s, "staged") /\ ~Exists(s, "link")
          /\ fs' = Renamed(s, "staged", "source")
       \/ /\ Kind(s, "source") = "dir" /\ Exists(s, "link") /\ ~Exists(s, "staged")
          /\ fs' = [fs EXCEPT ![<<s, "link">>] = Nothing]
       \/ /\ Kind(s, "source") = "dir" /\ ~Exists(s, "link") /\ ~Exists(s, "staged")
          /\ UNCHANGED fs
    /\ cur' = s /\ pc' = "forget"
    /\ UNCHANGED <<journal, stray, applying, todo, groups, group, world>>

Resolvable(s) ==
    \/ Kind(s, "source") = "none" /\ Exists(s, "staged") /\ ~Exists(s, "link")
    \/ Kind(s, "source") = "dir" /\ ~Exists(s, "staged")

\* Mutant of LeaveAlone: what cannot be recovered is taken off the journal.
LeaveAlone_Clears(s) ==
    /\ pc = "recover" /\ s \in todo
    /\ ~SwapPlacedOrPending(s) /\ ~(Trusted(s) /\ Resolvable(s))
    /\ todo' = todo \ {s} /\ journal' = [journal EXCEPT ![s] = NoRecord]
    /\ UNCHANGED <<fs, stray, pc, applying, groups, group, cur, world>>

\* A mismatch, an unrecognized state, or a rename that fails: left alone.
LeaveAlone(s) ==
    /\ pc = "recover" /\ s \in todo
    /\ ~SwapPlacedOrPending(s) /\ ~(Trusted(s) /\ Resolvable(s))
    /\ todo' = todo \ {s}
    /\ UNCHANGED <<fs, journal, stray, pc, applying, groups, group, cur, world>>

\* `apply` goes on if its target is there, and on another disk.
Recovered ==
    /\ pc = "recover" /\ todo = {}
    /\ pc' = IF applying /\ mounted THEN "apply" ELSE "idle"
    /\ UNCHANGED <<fs, journal, stray, applying, todo, groups, group, cur, world>>

-----------------------------------------------------------------------------
(* The steps of finalizeSwapOrRestore *)

\* Back to the loop that called: the next record, or the next member of the unit,
\* or, after a failure, the next unit.
Return(ok) ==
    IF cur \in todo
    THEN /\ pc' = "recover" /\ todo' = todo \ {cur} /\ UNCHANGED group
    ELSE /\ pc' = IF ok THEN "swap" ELSE "apply"
         /\ group' = IF ok THEN group \ {cur} ELSE {}
         /\ UNCHANGED todo

\* Mutant of TargetOk: what was true of the copy when the link was made is trusted.
TargetOk_Linked(s) == TargetThere(s)

TargetOk(s) == ManifestExactMatch(s, "target", journal[s].manifest)
StagedMatches(s) == ManifestExactMatch(s, "staged", journal[s].manifest)
LinkOk(s) ==
    /\ TargetThere(s)
    /\ Kind(s, "source") = "link" \/ (Kind(s, "source") = "none" /\ Kind(s, "link") = "link")

\* Rows 1 and 2: the live path is verified, so a pending rename is completed.
FinalizeGood ==
    /\ pc = "finalize"
    /\ TargetOk(cur) /\ LinkOk(cur)
    /\ fs' = IF Kind(cur, "source") = "none" THEN Renamed(cur, "link", "source") ELSE fs
    /\ pc' = IF Exists(cur, "staged") /\ ~StagedMatches(cur) THEN "quarantine" ELSE "clear"
    /\ UNCHANGED <<journal, stray, applying, todo, groups, group, cur, world>>

\* Row 1: the staged original goes. A process that dies may leave a part of it.
Clear ==
    /\ pc = "clear"
    /\ fs' = [fs EXCEPT ![<<cur, "staged">>] = Nothing]
    /\ pc' = "forget"
    /\ UNCHANGED <<journal, stray, applying, todo, groups, group, cur, world>>

\* Row 2: a damaged original is set aside. A second one for the same source is
\* not: the rename fails on the first.
Quarantine ==
    /\ pc = "quarantine"
    /\ IF Kind(cur, "quarantine") = "none"
       THEN fs' = Renamed(cur, "staged", "quarantine") /\ Return(TRUE)
       ELSE UNCHANGED fs /\ Return(FALSE)
    /\ UNCHANGED <<journal, stray, applying, groups, cur, world>>

\* Row 3: the copy is no good and the original is: the link makes way for it, a
\* directory that somebody made at the path meanwhile does not.
FinalizeRestore ==
    /\ pc = "finalize"
    /\ ~(TargetOk(cur) /\ LinkOk(cur)) /\ StagedMatches(cur)
    /\ fs' = [fs EXCEPT ![<<cur, "source">>] = IF @ = Link THEN Nothing ELSE @,
                        ![<<cur, "link">>] = IF Kind(cur, "source") = "none" THEN Nothing ELSE @]
    /\ pc' = "restore"
    /\ UNCHANGED <<journal, stray, applying, todo, groups, group, cur, world>>

Restore ==
    /\ pc = "restore"
    /\ fs' = IF Kind(cur, "source") = "none" THEN Renamed(cur, "staged", "source") ELSE fs
    /\ Return(FALSE)
    /\ UNCHANGED <<journal, stray, applying, groups, cur, world>>

\* Row 4: nothing is verified good, nothing is touched.
FinalizeNothing ==
    /\ pc = "finalize"
    /\ ~(TargetOk(cur) /\ LinkOk(cur)) /\ ~StagedMatches(cur)
    /\ Return(FALSE)
    /\ UNCHANGED <<fs, journal, stray, applying, groups, cur, world>>

Forget ==
    /\ pc = "forget"
    /\ journal' = [journal EXCEPT ![cur] = NoRecord]
    /\ Return(TRUE)
    /\ UNCHANGED <<fs, stray, applying, groups, cur, world>>

-----------------------------------------------------------------------------
(* The steps of applyRun and swapToSymlink *)

NextUnit ==
    /\ pc = "apply"
    /\ IF groups = {} THEN pc' = "idle" /\ UNCHANGED <<groups, group>>
       ELSE \E g \in groups :
               /\ groups' = groups \ {g}
               /\ IF \E s \in g : Leftover(s) THEN UNCHANGED <<pc, group>>
                  ELSE pc' = "copy" /\ group' = g
    /\ UNCHANGED <<fs, journal, stray, applying, todo, cur, world>>

\* The target with these of the source's items copied over it.
CopiedOver(s, part) ==
    Dir(part \cup {i \in Items(s, "target") : i[1] \notin FilesOf(part)})
CopiedParts ==
    LET all == {<<s, i>> : s \in group, i \in Item}
    IN  {c \in SUBSET {p \in all : p[2] \in Items(p[1], "source")} :
            \A p \in c : p[2][1] \notin Sticky \cap FilesOf(Items(p[1], "target"))}
WithCopied(part) ==
    [p \in Source \X Location |->
        IF p[2] = "target" /\ p[1] \in group
        THEN CopiedOver(p[1], {c[2] : c \in {d \in part : d[1] = p[1]}})
        ELSE fs[p]]
CopyComplete(part) ==
    \A s \in group : \A i \in Items(s, "source") : <<s, i>> \in part

\* copyUnitPureNode, all of it. Files are overwritten, links are not.
CopyUnit ==
    /\ pc = "copy"
    /\ \E part \in CopiedParts :
          /\ CopyComplete(part)
          /\ fs' = WithCopied(part)
    /\ pc' = "verify"
    /\ UNCHANGED <<journal, stray, mounted, applying, todo, groups, group, cur, added, faults>>

\* It throws: a link is there already, or the disk is full. A part is copied.
CopyFails ==
    /\ pc = "copy"
    /\ \E part \in CopiedParts :
          /\ ~CopyComplete(part)
          /\ fs' = WithCopied(part)
    /\ pc' = "apply" /\ group' = {}
    /\ UNCHANGED <<journal, stray, mounted, applying, todo, groups, cur, added, faults>>

VerifyUnit ==
    /\ pc = "verify"
    /\ IF \A s \in group : Items(s, "source") \subseteq Items(s, "target")
       THEN pc' = "swap" /\ UNCHANGED group
       ELSE pc' = "apply" /\ group' = {}
    /\ UNCHANGED <<fs, journal, stray, applying, todo, groups, cur, world>>

\* The manifest is of the source as it is now, not as it was copied.
BeginSwap ==
    /\ pc = "swap"
    /\ IF group = {} THEN pc' = "apply" /\ UNCHANGED <<journal, cur>>
       ELSE \E s \in group :
               /\ journal' = [journal EXCEPT ![s] = [live |-> TRUE,
                                                     manifest |-> Items(s, "source")]]
               /\ cur' = s /\ pc' = "link"
    /\ UNCHANGED <<fs, stray, applying, todo, groups, group, world>>

MakeLink ==
    /\ pc = "link"
    /\ fs' = [fs EXCEPT ![<<cur, "link">>] = Link]
    /\ pc' = "stage"
    /\ UNCHANGED <<journal, stray, applying, todo, groups, group, cur, world>>

Stage ==
    /\ pc = "stage"
    /\ fs' = Renamed(cur, "source", "staged")
    /\ pc' = "place"
    /\ UNCHANGED <<journal, stray, applying, todo, groups, group, cur, world>>

\* rename(2) puts a link where nothing is, not where somebody made a directory.
Place ==
    /\ pc = "place"
    /\ IF Kind(cur, "source") = "none"
       THEN fs' = Renamed(cur, "link", "source") /\ pc' = "finalize" /\ UNCHANGED group
       ELSE UNCHANGED fs /\ pc' = "apply" /\ group' = {}
    /\ UNCHANGED <<journal, stray, applying, todo, groups, cur, world>>

\* A journal write after the first fails: the unit is given up where it is.
JournalFails ==
    /\ pc \in {"stage", "place"} \/ (pc = "finalize" /\ cur \notin todo)
    /\ faults < MaxFaults
    /\ pc' = "apply" /\ group' = {} /\ faults' = faults + 1
    /\ UNCHANGED <<fs, journal, stray, applying, todo, groups, cur, added, mounted>>

-----------------------------------------------------------------------------
(* The environment *)

Fault == faults < MaxFaults /\ faults' = faults + 1
ProcessGone == pc' = "idle" /\ todo' = {} /\ groups' = {} /\ group' = {}

\* The process dies: anywhere, in a journal write, or in the removal of an original.
Crash ==
    /\ pc # "idle" /\ Fault /\ ProcessGone
    /\ \/ UNCHANGED <<fs, stray>>
       \/ pc \in {"stage", "place", "finalize"} /\ stray' = stray \cup {cur} /\ UNCHANGED fs
       \/ /\ pc = "clear" /\ UNCHANGED stray
          /\ \E left \in SUBSET Items(cur, "staged") : fs' = [fs EXCEPT ![<<cur, "staged">>].items = left]
    /\ UNCHANGED <<journal, mounted, applying, cur, added>>

Intact(s, f) == \E at \in Location : <<f, "intact">> \in Items(s, at)
\* With one item of a copy damaged.
Damaged(s, at, f) ==
    [fs EXCEPT ![<<s, at>>].items = (@ \ {<<f, "intact">>}) \cup {<<f, "damaged">>}]

\* A file of a move that is under way is damaged, though never the last good one, and
\* not between a check that passed and the rename or removal it allows.
Damage(s, at, f) ==
    /\ Fault /\ pc \notin {"clear", "quarantine", "restore", "forget"}
    /\ journal[s].live /\ <<f, "intact">> \in Items(s, at)
    /\ \E other \in Location \ {at} : <<f, "intact">> \in Items(s, other)
    /\ fs' = Damaged(s, at, f)
    /\ UNCHANGED <<journal, stray, process, added, mounted>>

\* The target disk goes or comes back while nothing runs.
Unmount ==
    /\ pc = "idle" /\ mounted /\ Fault
    /\ mounted' = FALSE
    /\ UNCHANGED <<fs, journal, stray, process, added>>
Mount ==
    /\ pc = "idle" /\ ~mounted
    /\ mounted' = TRUE
    /\ UNCHANGED <<fs, journal, stray, process, added, faults>>

\* Somebody adds a file through the path: into the directory, through the link,
\* or, when there is nothing, into a directory made for it.
AddFile(s, f) ==
    /\ Cardinality(UNION {added[t] : t \in Source}) < MaxAdded
    /\ f \notin added[s]
    /\ added' = [added EXCEPT ![s] = @ \cup {f}]
    /\ \/ /\ Kind(s, "source") # "link"
          /\ fs' = [fs EXCEPT ![<<s, "source">>] = Dir(@.items \cup {<<f, "intact">>})]
       \/ /\ Kind(s, "source") = "link" /\ TargetThere(s)
          /\ fs' = [fs EXCEPT ![<<s, "target">>] = Dir(@.items \cup {<<f, "intact">>})]
    /\ UNCHANGED <<journal, stray, process, mounted, faults>>

-----------------------------------------------------------------------------
ProcessStep ==
    \/ \E s \in Source : RecoverSwap(s) \/ RecoverOriginal(s) \/ LeaveAlone(s)
    \/ Recovered \/ FinalizeGood \/ Clear \/ Quarantine \/ FinalizeRestore \/ Restore
    \/ FinalizeNothing \/ Forget
    \/ NextUnit \/ CopyUnit \/ CopyFails \/ VerifyUnit \/ BeginSwap \/ MakeLink \/ Stage
    \/ Place
Environment ==
    \/ Crash \/ JournalFails \/ Unmount \/ Mount
    \/ \E s \in Source, at \in {"staged", "target"}, f \in File : Damage(s, at, f)
    \/ \E s \in Source, f \in Added : AddFile(s, f)
Next == StartApply \/ StartRecover \/ ProcessStep \/ Environment

Spec == Init /\ [][Next]_vars

-----------------------------------------------------------------------------
(* Properties *)

\* The data of a source, and what was added to it, is intact somewhere: the last
\* good copy of a file is never deleted and never overwritten.
NothingLost == \A s \in Source : \A f \in File \cup added[s] : Intact(s, f)

\* A path that leads nowhere, and an original that was moved aside, are always
\* described by a record recovery can act on.
Tracked ==
    \A s \in Source :
        Kind(s, "source") = "none" \/ Kind(s, "staged") = "dir" => journal[s].live

\* A path that was moved and is done with serves every file it had.
LinkServes ==
    \A s \in Source :
        Kind(s, "source") = "link" /\ ~journal[s].live
            => File \X {"intact"} \subseteq Items(s, "target")

\* Wherever a move was interrupted or ended, the path of a model leads to its files
\* or a record leads to them.
PathsServed == Tracked /\ LinkServes

\* Recovery that has gone through its records has brought back every path that a
\* move left missing and whose original is good, whatever was damaged or added since.
RecoverHeals ==
    pc = "recover" /\ todo = {} =>
        \A s \in Source : Kind(s, "source") = "none" => ~StagedMatches(s)
=============================================================================
