------------------------------ MODULE SourcePollers ------------------------------
(***************************************************************************)
(* The pollers of the other sources.  Both kinds mark what they read as     *)
(* seen, save the seen file, and only then append to the event queue:       *)
(*   unified  src/unified-poller.mjs over its adapters: the ids are in      *)
(*            memory, a first run seeds them, and the file is replaced in   *)
(*            one step;                                                     *)
(*   listing  src/comment-poller.mjs and src/discord-poller.mjs: the ids    *)
(*            are read from the file at each poll, every start discards a   *)
(*            first poll, and the file is overwritten in place.             *)
(* A watcher runs for long; a one-shot `poll` command may run beside it on  *)
(* the same file: the unified one queues what it finds, the listing one     *)
(* prints it.  A read that fails, in part or whole, looks like silence.     *)
(***************************************************************************)
EXTENDS Naturals, FiniteSets, Sequences, SequencesExt

CONSTANTS Own,         \* items that are skipped: the agent's own, or a bot's
          SeenCap,     \* ids the saved file keeps
          MaxItems, MaxCrashes

SourceAssumption ==
    /\ Own \subseteq 1..MaxItems /\ SeenCap \in Nat \ {0} /\ {MaxItems, MaxCrashes} \subseteq Nat

VARIABLES style,     \* which kind of poller
          items,     \* the items at the source are 1..items, in their order
          seenFile,
          at,        \* what each process does next
          seeding,   \* the watcher discards what its first round finds
          memory,    \* its seen ids
          hand,      \* new items it has taken and not passed on
          queued,    \* history: how often the watcher queued each item, to two
          seeded,    \* history: items a seed discarded
          gone,      \* history: items a one-shot queued or printed, or a process died with once saved
          forgotten, \* history: ids cut off or overwritten when the file was saved
          torn,      \* history: ids missing where a half-written file was read or left behind
          crashes
sourceVars == <<style, items, seenFile, at, seeding, memory, hand, queued, seeded, gone, forgotten,
                torn, crashes>>

Process == {"watch", "once"}
Item == 1..MaxItems

TypeOK ==
    /\ style \in {"unified", "listing"} /\ items \in 0..MaxItems
    /\ seenFile \in Seq(Item)
    /\ at \in [Process -> {"off", "idle", "save", "write", "append"}] /\ seeding \in BOOLEAN
    /\ memory \in [Process -> Seq(Item)] /\ hand \in [Process -> SUBSET Item]
    /\ queued \in [Item -> 0..2]
    /\ {seeded, gone, forgotten, torn} \subseteq SUBSET Item
    /\ crashes \in 0..MaxCrashes

Init ==
    /\ style \in {"unified", "listing"} /\ items = 0 /\ seenFile = << >>
    /\ at = [p \in Process |-> "off"] /\ seeding = FALSE /\ memory = [p \in Process |-> << >>]
    /\ hand = [p \in Process |-> {}]
    /\ queued = [i \in Item |-> 0]
    /\ seeded = {} /\ gone = {} /\ forgotten = {} /\ torn = {} /\ crashes = 0

\* The ids a save keeps: the newest.
Kept(ids) == SubSeq(ids, 1 + IF Len(ids) > SeenCap THEN Len(ids) - SeenCap ELSE 0, Len(ids))
\* The ids that are in the file, or will be when the writes under way are done.
Promised == ToSet(seenFile) \cup UNION {ToSet(Kept(memory[p])) : p \in {q \in Process : at[q] = "write"}}
\* Items in the order of the source, and the ids with what is new of a fetch behind them.
InOrder(S) == [k \in 1..Cardinality(S) |-> CHOOSE i \in S : Cardinality({j \in S : j <= i}) = k]
WithNew(ids, got) == ids \o InOrder(got \ ToSet(ids))

NewItem ==
    /\ items < MaxItems /\ items' = items + 1
    /\ UNCHANGED <<style, seenFile, at, seeding, memory, hand, queued, seeded, gone, forgotten, torn, crashes>>

\* A process begins with the file's ids.  A watcher discards its first round, the unified
\* one only when there are no ids.
Begin(p) ==
    /\ at[p] = "off" /\ at' = [at EXCEPT ![p] = "idle"]
    /\ memory' = [memory EXCEPT ![p] = IF style = "unified" THEN seenFile ELSE << >>]
    /\ seeding' = IF p = "watch" THEN style = "listing" \/ seenFile = << >> ELSE seeding
    /\ UNCHANGED <<style, items, seenFile, hand, queued, seeded, gone, forgotten, torn, crashes>>

\* The ids a poll starts from: the memory, or the file, half written as it may be.
Known(p) == IF style = "unified" THEN memory[p] ELSE seenFile

\* What a read of the source gives: a channel, post or page that fails is left out.
Fetched == SUBSET (1..items)
Taken(known, got) == got \ (ToSet(known) \cup Own)

\* A poll reads the source; what is new is seen, and taken unless it is the agent's own.
Read(p) ==
    /\ at[p] = "idle" /\ at' = [at EXCEPT ![p] = "save"]
    /\ \E got \in Fetched :
        /\ memory' = [memory EXCEPT ![p] = WithNew(Known(p), got)]
        /\ hand' = [hand EXCEPT ![p] = Taken(Known(p), got)]
    /\ torn' = torn \cup (Promised \ ToSet(seenFile))
    /\ UNCHANGED <<style, items, seenFile, seeding, queued, seeded, gone, forgotten, crashes>>

\* Mutant of SaveSeen: what was taken is not yet saved, but handed on.
SaveSeen_Skipped(p) ==
    /\ style = "unified" /\ at[p] = "save" /\ at' = [at EXCEPT ![p] = "append"]
    /\ UNCHANGED <<style, items, seenFile, seeding, memory, hand, queued, seeded, gone, forgotten,
                   torn, crashes>>

\* The unified poller writes a file beside it and renames that.
SaveSeen(p) ==
    /\ style = "unified" /\ at[p] = "save" /\ at' = [at EXCEPT ![p] = "append"]
    /\ seenFile' = Kept(memory[p])
    /\ forgotten' = forgotten \cup ((ToSet(seenFile) \cup ToSet(memory[p])) \ ToSet(seenFile'))
    /\ UNCHANGED <<style, items, seeding, memory, hand, queued, seeded, gone, torn, crashes>>

\* writeFileSync of a listing poller empties the file and fills it from the start ...
Truncate(p) ==
    /\ style = "listing" /\ at[p] = "save" /\ at' = [at EXCEPT ![p] = "write"]
    /\ \E n \in 0..Len(Kept(memory[p])) : seenFile' = SubSeq(Kept(memory[p]), 1, n)
    /\ UNCHANGED memory
    /\ forgotten' = forgotten \cup ((Promised \cup ToSet(memory[p])) \ Promised')
    /\ UNCHANGED <<style, items, seeding, hand, queued, seeded, gone, torn, crashes>>

\* ... to the end, over what another process has written since: what that wrote further
\* back stays.  The poller keeps no ids beyond the file.
FinishWrite(p) ==
    /\ at[p] = "write" /\ at' = [at EXCEPT ![p] = "append"]
    /\ LET kept == Kept(memory[p]) IN
        seenFile' = WithNew(kept, ToSet(SubSeq(seenFile, Len(kept) + 1, Len(seenFile))))
    /\ memory' = [memory EXCEPT ![p] = << >>]
    /\ forgotten' = forgotten \cup (Promised \ Promised')
    /\ UNCHANGED <<style, items, seeding, hand, queued, seeded, gone, torn, crashes>>

\* The round that seeds queues nothing.
Discard ==
    /\ at["watch"] = "append" /\ seeding /\ seeding' = FALSE /\ at' = [at EXCEPT !["watch"] = "idle"]
    /\ seeded' = seeded \cup hand["watch"] /\ hand' = [hand EXCEPT !["watch"] = {}]
    /\ UNCHANGED <<style, items, seenFile, memory, queued, gone, forgotten, torn, crashes>>

Queue(batch) == queued' = [i \in Item |-> IF i \in batch /\ queued[i] < 2 THEN queued[i] + 1 ELSE queued[i]]

\* The unified watcher appends its batch at once, the listing one line by line.
AppendEvents ==
    /\ at["watch"] = "append" /\ ~seeding
    /\ \/ /\ style = "unified" \/ hand["watch"] = {}
          /\ Queue(hand["watch"]) /\ hand' = [hand EXCEPT !["watch"] = {}]
          /\ at' = [at EXCEPT !["watch"] = "idle"]
       \/ /\ style = "listing" /\ UNCHANGED at
          /\ \E i \in hand["watch"] : Queue({i}) /\ hand' = [hand EXCEPT !["watch"] = @ \ {i}]
    /\ UNCHANGED <<style, items, seenFile, seeding, memory, seeded, gone, forgotten, torn, crashes>>

\* A one-shot passes on what it found and ends.
Present ==
    /\ at["once"] = "append" /\ at' = [at EXCEPT !["once"] = "off"]
    /\ gone' = gone \cup hand["once"] /\ hand' = [hand EXCEPT !["once"] = {}]
    /\ memory' = [memory EXCEPT !["once"] = << >>]
    /\ UNCHANGED <<style, items, seenFile, seeding, queued, seeded, forgotten, torn, crashes>>

\* A process is stopped, or a write fails: the rejection nobody handles ends it.  What it
\* was writing stays as it is.
Dies(p) ==
    /\ at[p] # "off" /\ crashes < MaxCrashes /\ crashes' = crashes + 1
    /\ at' = [at EXCEPT ![p] = "off"] /\ hand' = [hand EXCEPT ![p] = {}]
    /\ memory' = [memory EXCEPT ![p] = << >>] /\ seeding' = (seeding /\ p # "watch")
    /\ gone' = gone \cup IF at[p] \in {"write", "append"} THEN hand[p] ELSE {}
    /\ UNCHANGED seenFile
    /\ torn' = torn \cup (Promised \ Promised')
    /\ UNCHANGED <<style, items, queued, seeded, forgotten>>

Next ==
    \/ NewItem \/ Discard \/ AppendEvents \/ Present
    \/ \E p \in Process : Begin(p) \/ Read(p) \/ SaveSeen(p) \/ Truncate(p) \/ FinishWrite(p) \/ Dies(p)
SourceSpec == Init /\ [][Next]_sourceVars

-----------------------------------------------------------------------------
(* Properties *)

\* An item marked as seen reached somebody (the queue or a one-shot's terminal), was there
\* when a seed was taken, or was in the hands of a process that died; and the watcher
\* queues an item once, and none it seeded, through restarts and beside one-shots, as long
\* as its id was not pushed out of the file or overwritten there, and was not missing
\* where a half-written file was read or left behind.
AccountedOnce ==
    \A i \in 1..items \ Own :
        /\ i \in ToSet(seenFile) =>
               \/ queued[i] > 0 \/ \E p \in Process : i \in hand[p]
               \/ i \in seeded \cup gone
        /\ i \notin forgotten \cup torn =>
               queued[i] + (IF i \in seeded THEN 1 ELSE 0) <= 1
=============================================================================
