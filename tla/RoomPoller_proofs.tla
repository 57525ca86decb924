-------------------------- MODULE RoomPoller_proofs ---------------------------
(***************************************************************************)
(* Proofs about the room poller, for every size of the fetch window, of    *)
(* the seed and of the seen file, every tolerance and every room.          *)
(***************************************************************************)
EXTENDS RoomPoller, SequenceTheorems, FiniteSetTheorems, TLAPS

Id == Message \cup {Other}

\* The bounds are numbers, and the seen file holds two fetch windows that share
\* a message.
LEMMA Bounds ==
    /\ FetchLimit \in Nat \ {0} /\ SeedLimit \in Nat \ {0} /\ SeenCap \in Nat \ {0}
    /\ Tolerance \in Nat /\ MaxMessages \in Nat /\ MaxOthers \in Nat /\ MaxCrashes \in Nat
    /\ SeenCap + 1 >= 2 * FetchLimit
  BY RoomPollerAssumption

-----------------------------------------------------------------------------
(* Lemmas about sequences of ids *)

\* The ids of a sequence are its elements.
LEMMA IdsOf ==
    ASSUME NEW S, NEW s \in Seq(S)
    PROVE  /\ Ids(s) \subseteq S
           /\ \A p \in 1..Len(s) : s[p] \in Ids(s)
           /\ \A n \in Ids(s) : \E p \in 1..Len(s) : s[p] = n
  <1>1. Ids(s) = {s[p] : p \in 1..Len(s)}
    BY RangeEquality DEF Ids
  <1>2. Ids(s) \subseteq S
    BY RangeOfSeq DEF Ids
  <1>3. QED
    BY <1>1, <1>2

\* An empty sequence has no ids.
LEMMA IdsEmpty == Ids(<< >>) = {}
  BY DEF Ids, Range

\* An appended id joins the others.
LEMMA IdsAppend ==
    ASSUME NEW S, NEW s \in Seq(S), NEW n \in S
    PROVE  /\ Append(s, n) \in Seq(S)
           /\ Ids(Append(s, n)) = Ids(s) \cup {n}
  <1>1. Append(s, n) \in Seq(S) /\ Append(s, n) = s \o <<n>> /\ <<n>> \in Seq(S)
    BY AppendProperties, AppendIsConcat
  <1>2. Ids(<<n>>) = {n}
    BY DEF Ids, Range
  <1>3. Ids(s \o <<n>>) = Ids(s) \cup Ids(<<n>>)
    BY <1>1, RangeConcatenation DEF Ids
  <1>4. QED
    BY <1>1, <1>2, <1>3

\* A batch is its first message and the others.
LEMMA IdsHeadTail ==
    ASSUME NEW S, NEW s \in Seq(S), s # << >>
    PROVE  /\ Head(s) \in S /\ Tail(s) \in Seq(S)
           /\ Ids(s) = {Head(s)} \cup Ids(Tail(s))
  <1>1. /\ Head(s) \in S /\ Tail(s) \in Seq(S) /\ Len(s) \in Nat \ {0}
        /\ Len(Tail(s)) = Len(s) - 1 /\ Head(s) = s[1]
        /\ \A p \in 1..Len(Tail(s)) : Tail(s)[p] = s[p + 1]
    BY HeadTailProperties, EmptySeq
  <1>2. /\ \A p \in 1..Len(s) : s[p] \in Ids(s)
        /\ \A n \in Ids(s) : \E p \in 1..Len(s) : s[p] = n
        /\ \A p \in 1..Len(Tail(s)) : Tail(s)[p] \in Ids(Tail(s))
        /\ \A n \in Ids(Tail(s)) : \E p \in 1..Len(Tail(s)) : Tail(s)[p] = n
    <2> DEFINE t == Tail(s)
    <2>1. t \in Seq(S)
      BY <1>1
    <2> HIDE DEF t
    <2>2. /\ \A p \in 1..Len(t) : t[p] \in Ids(t)
          /\ \A n \in Ids(t) : \E p \in 1..Len(t) : t[p] = n
      BY <2>1, IdsOf
    <2>3. QED
      BY <2>2, IdsOf DEF t
  <1>3. ASSUME NEW n \in Ids(s) PROVE n \in {Head(s)} \cup Ids(Tail(s))
    <2>1. PICK p \in 1..Len(s) : n = s[p]
      BY <1>2, <1>3
    <2>2. CASE p = 1
      BY <1>1, <2>1, <2>2
    <2>3. CASE p # 1
      <3>1. p - 1 \in 1..Len(Tail(s)) /\ p = (p - 1) + 1
        BY <1>1, <2>3
      <3>2. Tail(s)[p - 1] = n
        BY <1>1, <2>1, <3>1
      <3>3. QED
        BY <1>2, <3>1, <3>2
    <2>4. QED
      BY <2>2, <2>3
  <1>4. Head(s) \in Ids(s)
    BY <1>1, <1>2
  <1>5. ASSUME NEW n \in Ids(Tail(s)) PROVE n \in Ids(s)
    <2>1. PICK p \in 1..Len(Tail(s)) : n = Tail(s)[p]
      BY <1>2, <1>5
    <2>2. p + 1 \in 1..Len(s) /\ n = s[p + 1]
      BY <1>1, <2>1
    <2>3. QED
      BY <1>2, <2>2
  <1>6. QED
    BY <1>1, <1>3, <1>4, <1>5

\* How many ids saveSeenIds drops from the front.
Dropped(s, k) == IF Len(s) <= k THEN 0 ELSE Len(s) - k

\* saveSeenIds keeps a suffix.
LEMMA LastOfSuffix ==
    ASSUME NEW S, NEW s \in Seq(S), NEW k \in Nat \ {0}
    PROVE  /\ LastOf(s, k) \in Seq(S) /\ Len(LastOf(s, k)) <= k
           /\ Dropped(s, k) \in 0..Len(s)
           /\ Len(LastOf(s, k)) = Len(s) - Dropped(s, k)
           /\ \A p \in 1..Len(LastOf(s, k)) : LastOf(s, k)[p] = s[p + Dropped(s, k)]
  <1>0. Len(s) \in Nat
    BY LenProperties
  <1>1. CASE Len(s) <= k
    BY <1>0, <1>1 DEF LastOf, Dropped
  <1>2. CASE Len(s) > k
    <2> DEFINE d == Len(s) - k
    <2>1. d \in Nat \ {0} /\ d \in 0..Len(s) /\ Len(s) - d = k
      BY <1>0, <1>2
    <2>2. LastOf(s, k) = SubSeq(s, d + 1, Len(s)) /\ Dropped(s, k) = d
      BY <1>0, <1>2 DEF LastOf, Dropped
    <2>3. d + 1 \in 1..Len(s) + 1 /\ Len(s) \in (d + 1) - 1..Len(s)
      BY <1>0, <2>1
    <2>4. /\ SubSeq(s, d + 1, Len(s)) \in Seq(S)
          /\ Len(SubSeq(s, d + 1, Len(s))) = Len(s) - (d + 1) + 1
          /\ \A p \in 1..Len(s) - (d + 1) + 1 :
                SubSeq(s, d + 1, Len(s))[p] = s[d + 1 + p - 1]
      BY <2>3, SubSeqProperties
    <2> HIDE DEF d
    <2>5. Len(LastOf(s, k)) = Len(s) - d
      BY <1>0, <2>1, <2>2, <2>4
    <2>6. \A p \in 1..Len(LastOf(s, k)) : LastOf(s, k)[p] = s[p + d]
      <3> SUFFICES ASSUME NEW p \in 1..Len(LastOf(s, k)) PROVE LastOf(s, k)[p] = s[p + d]
        OBVIOUS
      <3>1. p \in 1..Len(s) - (d + 1) + 1 /\ d + 1 + p - 1 = p + d
        BY <1>0, <2>1, <2>5
      <3>2. QED
        BY <2>2, <2>4, <3>1
    <2>7. QED
      BY <1>0, <2>1, <2>2, <2>4, <2>5, <2>6
  <1>3. QED
    BY <1>0, <1>1, <1>2

\* It saves nothing that was not seen.
LEMMA LastOfIds ==
    ASSUME NEW S, NEW s \in Seq(S), NEW k \in Nat \ {0}
    PROVE  Ids(LastOf(s, k)) \subseteq Ids(s)
  <1> DEFINE t == LastOf(s, k)
             d == Dropped(s, k)
  <1>1. /\ t \in Seq(S) /\ d \in 0..Len(s) /\ Len(t) = Len(s) - d /\ Len(s) \in Nat
        /\ \A p \in 1..Len(t) : t[p] = s[p + d]
    BY LastOfSuffix, LenProperties
  <1> HIDE DEF t, d
  <1> SUFFICES ASSUME NEW n \in Ids(t) PROVE n \in Ids(s)
    BY DEF t
  <1>2. PICK p \in 1..Len(t) : t[p] = n
    BY <1>1, IdsOf
  <1>3. p + d \in 1..Len(s)
    BY <1>1
  <1>4. QED
    BY <1>1, <1>2, <1>3, IdsOf

\* A fetch returns the newest messages of the room, the newest first.
LEMMA PageOf ==
    ASSUME room \in Seq(Kind), NEW limit \in Nat
    PROVE  /\ Page(limit) \in Seq(1..Len(room))
           /\ Ids(Page(limit)) = {n \in 1..Len(room) : n + limit > Len(room)}
           /\ Page(limit) # << >> => Len(room) > 0 /\ Page(limit)[1] = Len(room)
           /\ \A p, q \in 1..Len(Page(limit)) : Page(limit)[p] = Page(limit)[q] => p = q
  <1> DEFINE L == Len(room)
             m == IF L > limit THEN limit ELSE L
  <1>1. L \in Nat /\ m \in 0..L /\ m <= limit
    BY LenProperties
  <1>2. Page(limit) = [k \in 1..m |-> L + 1 - k]
    BY DEF Page
  <1> HIDE DEF L
  <1>3. \A k \in 1..m : L + 1 - k \in 1..L
    BY <1>1
  <1>4. Page(limit) \in [1..m -> 1..L] /\ m \in Nat
    BY <1>1, <1>2, <1>3
  <1>5. Page(limit) \in Seq(1..L) /\ Len(Page(limit)) = m
    <2>1. Page(limit) \in Seq(1..L)
      <3>1. Page(limit) \in UNION {[1..n -> 1..L] : n \in Nat}
        BY <1>4
      <3>2. QED
        BY <3>1, SeqDef, Zenon
    <2>2. DOMAIN Page(limit) = 1..m /\ DOMAIN Page(limit) = 1..Len(Page(limit))
          /\ Len(Page(limit)) \in Nat
      BY <1>4, <2>1, LenProperties
    <2>3. QED
      BY <1>4, <2>1, <2>2
  <1>6. Ids(Page(limit)) = {n \in 1..L : n + limit > L}
    <2>1. /\ \A p \in 1..m : Page(limit)[p] \in Ids(Page(limit))
          /\ \A n \in Ids(Page(limit)) : \E p \in 1..m : Page(limit)[p] = n
      BY <1>5, IdsOf
    <2>2. ASSUME NEW n \in 1..L, n + limit > L PROVE n \in Ids(Page(limit))
      <3>1. L + 1 - n \in 1..m /\ L + 1 - (L + 1 - n) = n
        BY <1>1, <2>2
      <3>2. QED
        BY <1>2, <2>1, <3>1
    <2>3. ASSUME NEW n \in Ids(Page(limit)) PROVE n \in 1..L /\ n + limit > L
      <3>1. PICK p \in 1..m : n = L + 1 - p
        BY <1>2, <2>1
      <3>2. QED
        BY <1>1, <3>1
    <2>4. QED
      BY <2>2, <2>3
  <1>7. \A p, q \in 1..Len(Page(limit)) : Page(limit)[p] = Page(limit)[q] => p = q
    <2>1. \A p \in 1..m : Page(limit)[p] = L + 1 - p
      BY <1>2
    <2>2. QED
      BY <1>1, <1>5, <2>1
  <1>8. Page(limit) # << >> => L > 0 /\ Page(limit)[1] = L
    <2> SUFFICES ASSUME Page(limit) # << >> PROVE L > 0 /\ Page(limit)[1] = L
      OBVIOUS
    <2>1. m # 0
      BY <1>5, EmptySeq
    <2>2. 1 \in 1..m /\ L > 0
      BY <1>1, <2>1
    <2>3. QED
      BY <1>1, <1>2, <2>2
  <1>9. QED
    BY <1>5, <1>6, <1>7, <1>8 DEF L

-----------------------------------------------------------------------------
(* Type correctness *)

\* A page is a batch, and what was seen before it can be followed by it.
LEMMA PageType ==
    ASSUME TypeOK, NEW limit \in {FetchLimit, SeedLimit}, NEW msgs \in Fetched(limit)
    PROVE  /\ msgs \in Seq(1..Len(room)) /\ msgs \in Seq(Message) /\ msgs \in Seq(Id)
           /\ msgs # << >> => msgs[1] = Len(room) /\ Len(room) \in Message
  <1>1. Len(room) \in 0..MaxMessages /\ limit \in Nat
    BY Bounds, LenProperties DEF TypeOK
  <1>2. 1..Len(room) \subseteq Message /\ 1..Len(room) \subseteq Id
    BY <1>1, Bounds DEF Message, Id
  <1>3. /\ Page(limit) \in Seq(1..Len(room))
        /\ Page(limit) # << >> => Len(room) > 0 /\ Page(limit)[1] = Len(room)
    BY <1>1, PageOf DEF TypeOK
  <1>4. msgs \in Seq(1..Len(room))
    BY <1>3, EmptySeq DEF Fetched
  <1>5. msgs \in Seq(Message) /\ msgs \in Seq(Id)
    BY <1>2, <1>4, SeqMonotonic
  <1>6. QED
    BY <1>1, <1>3, <1>4, <1>5, Bounds DEF Fetched, Message

\* What saveSeenIds leaves in the file fits the file.
LEMMA SaveType ==
    ASSUME NEW s \in Seq(Id), seenFile' = LastOf(s, SeenCap)
    PROVE  seenFile' \in Seq(Id) /\ Len(seenFile') <= SeenCap
  BY LastOfSuffix, Bounds

\* A batch is walked through in the phases of a walk, and a message that is being
\* handled heads it.
Walking == {"walking", "queueing", "notifying", "remembering"}
BatchInWalk ==
    /\ phase \notin Walking => batch = << >>
    /\ phase \in Walking \ {"walking"} => batch # << >>

\* Every step keeps the batch to the phases of a walk.
LEMMA BatchInWalkStep == BatchInWalk /\ [Next]_vars => BatchInWalk'
  BY DEF BatchInWalk, Walking, Next, vars, poller, files, Post, Start, SeedRoom, PollRooms,
         Classify, AppendEvent, AppendNotification, Remember, OtherRoomsMessage, EndOfRoom,
         SaveSeen, SaveHistory, Nudge, NudgeTmux, CooldownEnds, Crash, ReadNotes, ClearNotes

\* Every variable of the poller keeps its type.
THEOREM TypeCorrect == Spec => []TypeOK
<1> USE DEF Id
<1>1. Init => TypeOK
  <2> SUFFICES ASSUME Init PROVE TypeOK
    OBVIOUS
  <2>1. PICK n \in 0..MaxMessages - 1 : room \in [1..n -> Kind] /\ backlog = n
    BY DEF Init
  <2>2. n \in Nat /\ n <= MaxMessages
    BY <2>1, Bounds
  <2>3. room \in Seq(Kind) /\ Len(room) = n
    BY <2>1, <2>2, SeqDef, LenProperties
  <2>4. << >> \in Seq(Message) /\ << >> \in Seq(Id) /\ Len(<< >>) = 0
    BY EmptySeq
  <2>5. QED
    <3>1. backlog \in 0..MaxMessages /\ Len(room) <= MaxMessages
      BY <2>1, <2>2, <2>3, Bounds
    <3>2. /\ phase = "down"
          /\ seen = << >> /\ others = 0 /\ mark = 0 /\ batch = << >> /\ newest = 0
          /\ seenFile = << >> /\ markFile = 0
          /\ queued = [m \in Message |-> 0]
          /\ notes = {} /\ copy = {} /\ read = {}
          /\ agent = "asleep"
          /\ interrupted = {} /\ crashes = 0
      BY DEF Init
    <3>3. wake \in BOOLEAN /\ cooling \in BOOLEAN /\ refused \in BOOLEAN
      BY DEF Init
    <3>4. QED
      BY <2>3, <2>4, <3>1, <3>2, <3>3, Bounds DEF TypeOK
<1>2. TypeOK /\ BatchInWalk /\ [Next]_vars => TypeOK'
  <2> SUFFICES ASSUME TypeOK, BatchInWalk, [Next]_vars PROVE TypeOK'
    OBVIOUS
  <2> USE Bounds DEF poller, files, reader, history
  <2>1. ASSUME NEW kind \in Kind, Post(kind) PROVE TypeOK'
    <3>1. room' \in Seq(Kind) /\ Len(room') = Len(room) + 1 /\ Len(room) \in Nat
      BY <2>1, AppendProperties, LenProperties DEF Post, TypeOK
    <3>2. QED
      BY <2>1, <3>1 DEF Post, TypeOK
  <2>2. CASE Start
    BY <2>2 DEF Start, TypeOK
  <2>3. CASE SeedRoom
    <3>1. PICK msgs \in Fetched(SeedLimit) :
             /\ seen' = seen \o msgs
             /\ mark' = IF msgs = << >> THEN mark ELSE Bigger(mark, msgs[1])
             /\ backlog' = IF msgs = << >> THEN backlog ELSE msgs[1]
      BY <2>3 DEF SeedRoom
    <3>2. msgs \in Seq(Id) /\ (msgs # << >> => msgs[1] \in 0..MaxMessages)
      BY PageType DEF Message
    <3>3. seen' \in Seq(Id)
      BY <3>1, <3>2, ConcatProperties DEF TypeOK
    <3>4. mark' \in 0..MaxMessages /\ backlog' \in 0..MaxMessages
      BY <3>1, <3>2 DEF TypeOK, Bigger
    <3>5. QED
      BY <2>3, <3>3, <3>4 DEF SeedRoom, TypeOK
  <2>4. CASE PollRooms
    <3>1. batch' \in Seq(Message)
      BY <2>4, PageType DEF PollRooms
    <3>2. QED
      <4>1. wake' \in BOOLEAN
        BY <2>4 DEF PollRooms
      <4>2. /\ phase' = "walking" /\ newest' \in 0..MaxMessages
            /\ UNCHANGED <<room, backlog, seen, others, mark, cooling, files, queued, notes,
                           reader, history>>
        BY <2>4 DEF PollRooms
      <4>3. QED
        BY <3>1, <4>1, <4>2 DEF TypeOK
  <2>5. CASE Classify
    <3>1. Head(batch) \in Message /\ Tail(batch) \in Seq(Message)
      BY <2>5, IdsHeadTail DEF Classify, TypeOK
    <3>2. seen' \in Seq(Id)
      BY <2>5, <3>1, IdsAppend DEF Classify, TypeOK
    <3>3. newest' \in 0..MaxMessages
      <4>1. newest' \in {newest, Bigger(newest, Head(batch))}
        BY <2>5 DEF Classify
      <4>2. QED
        BY <3>1, <4>1 DEF TypeOK, Bigger, Message
    <3>4. batch' \in Seq(Message) /\ wake' \in BOOLEAN /\ phase' \in {"walking", "queueing"}
      BY <2>5, <3>1 DEF Classify, TypeOK
    <3>5. QED
      BY <2>5, <3>2, <3>3, <3>4 DEF Classify, TypeOK
  <2>6. CASE AppendEvent
    <3>0. Head(batch) \in Message
      BY <2>6, IdsHeadTail DEF AppendEvent, TypeOK, BatchInWalk, Walking
    <3>1. queued' \in [Message -> Nat]
      BY <2>6, <3>0 DEF AppendEvent, TypeOK
    <3>2. QED
      BY <2>6, <3>1 DEF AppendEvent, TypeOK
  <2>7. CASE AppendNotification
    <3>1. Head(batch) \in Message
      BY <2>7, IdsHeadTail DEF AppendNotification, TypeOK, BatchInWalk, Walking
    <3>2. QED
      BY <2>7, <3>1 DEF AppendNotification, TypeOK
  <2>8. CASE Remember
    <3>1. Tail(batch) \in Seq(Message)
      BY <2>8, IdsHeadTail DEF Remember, TypeOK, BatchInWalk, Walking
    <3>2. seenFile' \in Seq(Id) /\ Len(seenFile') <= SeenCap
      BY <2>8, SaveType DEF Remember, SaveSeenIds, TypeOK
    <3>3. QED
      BY <2>8, <3>1, <3>2 DEF Remember, SaveSeenIds, TypeOK
  <2>9. CASE OtherRoomsMessage
    <3>1. seen' \in Seq(Id)
      BY <2>9, IdsAppend DEF OtherRoomsMessage, TypeOK
    <3>2. seenFile' \in Seq(Id) /\ Len(seenFile') <= SeenCap
      BY <2>9, <3>1, SaveType DEF OtherRoomsMessage
    <3>3. QED
      BY <2>9, <3>1, <3>2 DEF OtherRoomsMessage, TypeOK
  <2>10. CASE EndOfRoom
    BY <2>10 DEF EndOfRoom, TypeOK, Bigger
  <2>11. CASE SaveSeen
    <3>1. seenFile' \in Seq(Id) /\ Len(seenFile') <= SeenCap
      BY <2>11, SaveType DEF SaveSeen, SaveSeenIds, TypeOK
    <3>2. QED
      BY <2>11, <3>1 DEF SaveSeen, SaveSeenIds, TypeOK
  <2>12. CASE SaveHistory
    BY <2>12 DEF SaveHistory, TypeOK
  <2>16. CASE Nudge
    BY <2>16 DEF Nudge, NudgeTmux, TypeOK
  <2>17. CASE CooldownEnds
    BY <2>17 DEF CooldownEnds, TypeOK
  <2>18. CASE ReadNotes
    BY <2>18 DEF ReadNotes, TypeOK
  <2>19. CASE ClearNotes
    BY <2>19 DEF ClearNotes, TypeOK
  <2>13. CASE Crash
    <3>1. interrupted' \subseteq Message
      <4>1. phase \in {"notifying", "remembering"} => Head(batch) \in Message
        BY IdsHeadTail DEF TypeOK, BatchInWalk, Walking
      <4>2. QED
        BY <2>13, <4>1 DEF Crash, TypeOK
    <3>2. wake' \in BOOLEAN /\ cooling' \in BOOLEAN /\ refused' \in BOOLEAN
      BY <2>13 DEF Crash
    <3>3. /\ phase' = "down" /\ crashes' \in Nat
          /\ seen' \in Seq(Id) /\ batch' \in Seq(Message)
          /\ mark' \in 0..MaxMessages /\ newest' \in 0..MaxMessages
      BY <2>13, EmptySeq DEF Crash, TypeOK
    <3>4. UNCHANGED <<room, backlog, others, files, queued, notes, agent, copy, read>>
      BY <2>13 DEF Crash
    <3>5. QED
      BY <3>1, <3>2, <3>3, <3>4 DEF TypeOK
  <2>14. CASE UNCHANGED vars
    BY <2>14 DEF vars, TypeOK
  <2>15. QED
    BY <2>1, <2>2, <2>3, <2>4, <2>5, <2>6, <2>7, <2>8, <2>9, <2>10, <2>11, <2>12, <2>13,
       <2>14, <2>16, <2>17, <2>18, <2>19 DEF Next
<1>3. Init => BatchInWalk
  BY DEF Init, BatchInWalk, Walking
<1>4. QED
  BY <1>1, <1>2, <1>3, BatchInWalkStep, PTL DEF Spec

-----------------------------------------------------------------------------
(* What is remembered was handled *)

\* A message that needs no handling, or had it: the backlog, the agent's own, and
\* what was queued.
Handled(n) == n <= backlog \/ room[n] = "self" \/ queued[n] > 0

\* Every id and every watermark is that of a message that was posted.
PostedOnly ==
    /\ Ids(seen) \subseteq 0..Len(room) /\ Ids(seenFile) \subseteq 0..Len(room)
    /\ Ids(batch) \subseteq 1..Len(room)
    /\ backlog <= Len(room) /\ mark <= Len(room) /\ newest <= Len(room)
    /\ markFile <= Len(room)

\* What the poller remembers was handled, but for the message it handles now.
SeenHandled ==
    /\ \A n \in Ids(seenFile) : Handled(n)
    /\ \A n \in Ids(seen) : Handled(n) \/ (phase = "queueing" /\ n = Head(batch))
    /\ phase \in {"notifying", "remembering"} => Handled(Head(batch))

\* A watermark hides nothing that a fetch can still return and was not handled; and
\* the same holds of the watermark that this batch will leave.
Covered(m) == \A n \in 1..Len(room) : n <= m /\ n + FetchLimit > Len(room) => Handled(n)
BelowBatch(n) == \E m \in Ids(batch) : n <= m
MarkCovers ==
    /\ Covered(mark) /\ Covered(markFile)
    /\ \A n \in Ids(batch) : n <= mark => Handled(n)
    /\ \A n \in 1..Len(room) :
          /\ n + FetchLimit > Len(room)
          /\ (phase \in Walking /\ n <= newest) \/ BelowBatch(n)
          => n \in Ids(batch) \/ Handled(n)

\* Nothing undoes the handling of a message, and the room only grows.
LEMMA HandledGrows ==
    ASSUME TypeOK, BatchInWalk, PostedOnly, [Next]_vars
    PROVE  /\ Len(room) \in 0..MaxMessages /\ Len(room') \in 0..MaxMessages
           /\ Len(room) <= Len(room') /\ backlog <= backlog' /\ backlog' <= Len(room')
           /\ \A n \in 1..Len(room) : room'[n] = room[n]
           /\ \A n \in 0..Len(room) : Handled(n) => Handled(n)'
  <1> USE Bounds DEF poller, files, reader, history
  <1>0. Len(room) \in 0..MaxMessages /\ backlog \in 0..Len(room)
    BY LenProperties DEF TypeOK, PostedOnly
  <1>1. ASSUME NEW kind \in Kind, Post(kind)
        PROVE  /\ Len(room') = Len(room) + 1 /\ Len(room') <= MaxMessages
               /\ \A n \in 1..Len(room) : room'[n] = room[n]
               /\ UNCHANGED <<backlog, queued>>
    BY <1>0, <1>1, AppendProperties DEF Post, TypeOK
  <1>2. CASE SeedRoom
    <2>1. PICK msgs \in Fetched(SeedLimit) :
             backlog' = IF msgs = << >> THEN backlog ELSE msgs[1]
      BY <1>2 DEF SeedRoom
    <2>2. backlog' \in {backlog, Len(room)}
      BY <2>1, PageType
    <2>3. backlog <= backlog' /\ backlog' <= Len(room)
      BY <1>0, <2>2 DEF PostedOnly
    <2>4. room' = room /\ queued' = queued
      BY <1>2 DEF SeedRoom
    <2>5. \A n \in 0..Len(room) : Handled(n) => Handled(n)'
      BY <1>0, <2>2, <2>3, <2>4 DEF Handled
    <2>6. QED
      BY <1>0, <2>3, <2>4, <2>5
  <1>3. CASE AppendEvent
    <2>1. room' = room /\ backlog' = backlog
          /\ queued' = [queued EXCEPT ![Head(batch)] = @ + 1]
      BY <1>3 DEF AppendEvent
    <2>2. ASSUME NEW n \in 0..Len(room), Handled(n) PROVE Handled(n)'
      <3>1. CASE n = 0
        BY <1>0, <2>1, <3>1 DEF Handled
      <3>2. CASE n # 0
        <4>1. n \in Message
          BY <1>0, <3>2 DEF Message
        <4>2. queued[n] > 0 => queued'[n] > 0
          BY <2>1, <4>1 DEF TypeOK
        <4>3. QED
          BY <2>1, <2>2, <4>2 DEF Handled
      <3>3. QED
        BY <3>1, <3>2
    <2>3. QED
      BY <1>0, <2>1, <2>2
  <1>4. CASE ~(\E kind \in Kind : Post(kind)) /\ ~SeedRoom /\ ~AppendEvent
    <2>1. UNCHANGED <<room, backlog, queued>>
      BY <1>4 DEF Next, vars, Start, PollRooms, Classify, AppendNotification, Remember,
         SaveSeenIds, OtherRoomsMessage, EndOfRoom, SaveSeen, SaveHistory, Nudge, NudgeTmux,
         CooldownEnds, Crash, ReadNotes, ClearNotes
    <2>2. QED
      BY <1>0, <2>1 DEF Handled
  <1>5. CASE \E kind \in Kind : Post(kind)
    <2>1. /\ Len(room') = Len(room) + 1 /\ Len(room') <= MaxMessages
          /\ \A n \in 1..Len(room) : room'[n] = room[n]
          /\ UNCHANGED <<backlog, queued>>
      BY <1>1, <1>5
    <2>2. \A n \in 0..Len(room) : Handled(n) => Handled(n)'
      BY <1>0, <2>1 DEF Handled
    <2>3. QED
      BY <1>0, <2>1, <2>2
  <1>6. QED
    BY <1>2, <1>3, <1>4, <1>5

\* Saving leaves ids in the file that were seen.
LEMMA SaveIds ==
    ASSUME TypeOK, seenFile' = LastOf(seen, SeenCap)
    PROVE  Ids(seenFile') \subseteq Ids(seen)
  BY LastOfIds, Bounds DEF TypeOK, Id

HandledInv == PostedOnly /\ SeenHandled /\ MarkCovers

\* Every step keeps to it.
LEMMA HandledStep ==
    ASSUME TypeOK, BatchInWalk, HandledInv, [Next]_vars
    PROVE  HandledInv'
  <1> USE Bounds DEF Id
  <1> DEFINE L == Len(room)
             M == Len(room')
  <1>0. /\ L \in 0..MaxMessages /\ M \in 0..MaxMessages /\ L <= M
        /\ backlog <= backlog' /\ backlog' <= M
        /\ \A n \in 0..L : Handled(n) => Handled(n)'
    BY HandledGrows DEF HandledInv
  <1>a. /\ Ids(seen) \subseteq 0..L /\ Ids(seenFile) \subseteq 0..L
        /\ Ids(batch) \subseteq 1..L
        /\ backlog \in 0..L /\ mark \in 0..L /\ newest \in 0..L /\ markFile \in 0..L
    BY <1>0 DEF HandledInv, PostedOnly, TypeOK
  <1>b. /\ \A n \in Ids(seenFile) : Handled(n)
        /\ \A n \in Ids(seen) : Handled(n) \/ (phase = "queueing" /\ n = Head(batch))
        /\ phase \in {"notifying", "remembering"} => Handled(Head(batch))
    BY DEF HandledInv, SeenHandled
  <1>c. /\ Covered(mark) /\ Covered(markFile)
        /\ \A n \in Ids(batch) : n <= mark => Handled(n)
        /\ \A n \in 1..L : n + FetchLimit > L
             /\ ((phase \in Walking /\ n <= newest) \/ BelowBatch(n))
             => n \in Ids(batch) \/ Handled(n)
    BY DEF HandledInv, MarkCovers
  <1>d. ASSUME NEW m \in 0..L, Covered(m) PROVE Covered(m)'
    BY <1>0, <1>d DEF Covered
  <1>e. phase \in Walking \ {"walking"} \/ batch # << >> =>
           /\ Head(batch) \in 1..L /\ Head(batch) \in Ids(batch)
           /\ Ids(batch) = {Head(batch)} \cup Ids(Tail(batch))
    BY <1>a, IdsHeadTail DEF TypeOK, BatchInWalk
  <1>f. batch = << >> => Ids(batch) = {}
    BY IdsEmpty
  <1>g. ASSUME NEW n \in 1..M, n + FetchLimit > M, n <= newest \/ BelowBatch(n)
        PROVE  n \in 1..L /\ n + FetchLimit > L
    BY <1>0, <1>a, <1>g DEF BelowBatch
  <1> HIDE DEF L, M
  \* Steps that do not touch what is remembered, nor move the poller on.
  <1>1. ASSUME UNCHANGED <<phase, seen, seenFile, batch, mark, newest, markFile>>
        PROVE  HandledInv'
    <2>1. PostedOnly'
      BY <1>0, <1>1, <1>a DEF PostedOnly, M
    <2>2. SeenHandled'
      BY <1>0, <1>1, <1>a, <1>b, <1>e DEF SeenHandled, Walking
    <2>3. MarkCovers'
      <3>1. Covered(mark)' /\ Covered(markFile)'
        BY <1>1, <1>a, <1>c, <1>d
      <3>2. \A n \in Ids(batch)' : n <= mark' => Handled(n)'
        BY <1>0, <1>1, <1>a, <1>c
      <3>3. ASSUME NEW n \in 1..M, n + FetchLimit > M,
                   (phase' \in Walking /\ n <= newest') \/ BelowBatch(n)'
            PROVE  n \in Ids(batch)' \/ Handled(n)'
        <4>1. (phase \in Walking /\ n <= newest) \/ BelowBatch(n)
          BY <1>1, <3>3 DEF BelowBatch
        <4>2. n \in 1..L /\ n + FetchLimit > L
          BY <1>g, <3>3, <4>1
        <4>3. QED
          BY <1>0, <1>1, <1>c, <4>1, <4>2
      <3>4. QED
        BY <3>1, <3>2, <3>3 DEF MarkCovers, M
    <2>4. QED
      BY <2>1, <2>2, <2>3 DEF HandledInv
  \* Steps that leave the poller between two walks.
  <1>2. ASSUME phase' \notin Walking, batch' = << >>, newest' \in 0..M,
               mark' \in 0..M, markFile' \in 0..M,
               \A m \in {mark', markFile'} : \A n \in 1..M :
                  n <= m /\ n + FetchLimit > M => Handled(n)',
               \A n \in Ids(seen') \cup Ids(seenFile') : n \in 0..M /\ Handled(n)'
        PROVE  HandledInv'
    <2>1. Ids(batch') = {}
      BY <1>2, IdsEmpty
    <2>2. PostedOnly'
      BY <1>0, <1>2, <2>1 DEF PostedOnly, M
    <2>3. SeenHandled'
      BY <1>2 DEF SeenHandled, Walking
    <2>4. MarkCovers'
      BY <1>2, <2>1 DEF MarkCovers, Covered, BelowBatch, M
    <2>5. QED
      BY <2>2, <2>3, <2>4 DEF HandledInv
  <1>3. \A n \in Ids(seenFile) : n \in 0..M /\ Handled(n)'
    BY <1>0, <1>a, <1>b
  <1>4. phase # "queueing" => \A n \in Ids(seen) : n \in 0..M /\ Handled(n)'
    BY <1>0, <1>a, <1>b
  <1>5. /\ mark \in 0..M /\ newest \in 0..M /\ markFile \in 0..M /\ 0 \in 0..M
        /\ \A m \in {mark, markFile} : \A n \in 1..M :
              n <= m /\ n + FetchLimit > M => Handled(n)'
    BY <1>0, <1>a, <1>c DEF Covered, L
  <1>6. \A n \in 1..M : n <= 0 => Handled(n)'
    BY <1>0
  <1> USE DEF poller, files, reader, history
  <1>7. CASE Start
    BY <1>2, <1>3, <1>5, <1>7 DEF Start, BatchInWalk, Walking
  <1>8. CASE SeedRoom
    <2>1. PICK msgs \in Fetched(SeedLimit) :
             /\ seen' = seen \o msgs
             /\ mark' = IF msgs = << >> THEN mark ELSE Bigger(mark, msgs[1])
             /\ backlog' = IF msgs = << >> THEN backlog ELSE msgs[1]
      BY <1>8 DEF SeedRoom
    <2>2. /\ phase' = "saving" /\ UNCHANGED <<batch, newest, seenFile, markFile, room>>
          /\ phase = "seeding" /\ L = M
      BY <1>8 DEF SeedRoom, L, M
    <2>3. batch = << >>
      BY <2>2 DEF BatchInWalk, Walking
    <2>4. msgs \in Seq(1..L) /\ (msgs # << >> => msgs[1] = L) /\ msgs \in Seq(Id)
      BY PageType DEF L
    <2>5. CASE msgs = << >>
      <3>1. seen' = seen /\ mark' = mark
        BY <2>1, <2>5, ConcatEmptySeq DEF TypeOK
      <3>2. QED
        BY <1>2, <1>3, <1>4, <1>5, <2>2, <2>3, <3>1 DEF Walking
    <2>6. CASE msgs # << >>
      <3>1. backlog' = L /\ mark' = Bigger(mark, L)
        BY <2>1, <2>4, <2>6
      <3>2. Ids(seen') = Ids(seen) \cup Ids(msgs)
        BY <2>1, <2>4, RangeConcatenation DEF TypeOK, Ids
      <3>3. Ids(msgs) \subseteq 1..L
        BY <2>4, IdsOf
      <3>4. \A n \in 0..M : Handled(n)'
        BY <1>0, <2>2, <3>1 DEF Handled
      <3>5. mark' = L
        BY <1>0, <1>a, <3>1 DEF Bigger
      <3>7. \A n \in Ids(seen') \cup Ids(seenFile') : n \in 0..M /\ Handled(n)'
        BY <1>a, <2>2, <3>2, <3>3, <3>4
      <3>8. QED
        BY <1>0, <1>2, <1>5, <2>2, <2>3, <3>4, <3>5, <3>7 DEF Walking
    <2>7. QED
      BY <2>5, <2>6
  <1>9. CASE EndOfRoom
    <2>1. /\ phase' = "saving" /\ UNCHANGED <<batch, newest, seen, seenFile, markFile, room>>
          /\ mark' = Bigger(mark, newest) /\ phase = "walking" /\ batch = << >>
      BY <1>9 DEF EndOfRoom
    <2>2. mark' \in {mark, newest}
      BY <2>1 DEF Bigger
    <2>3. ASSUME NEW n \in 1..M, n <= newest, n + FetchLimit > M PROVE Handled(n)'
      <3>1. n \in 1..L /\ n + FetchLimit > L
        BY <1>g, <2>3
      <3>2. n \notin Ids(batch)
        BY <1>f, <2>1
      <3>3. QED
        BY <1>0, <1>c, <2>1, <2>3, <3>1, <3>2 DEF Walking
    <2>4. QED
      BY <1>2, <1>3, <1>4, <1>5, <2>1, <2>2, <2>3 DEF Walking
  <1>10. CASE SaveSeen
    <2>1. /\ phase' = "marking" /\ UNCHANGED <<batch, newest, seen, mark, markFile>>
          /\ phase = "saving" /\ batch = << >>
      BY <1>10 DEF SaveSeen, SaveSeenIds, BatchInWalk, Walking
    <2>2. Ids(seenFile') \subseteq Ids(seen)
      BY <1>10, SaveIds DEF SaveSeen, SaveSeenIds
    <2>3. QED
      BY <1>2, <1>4, <1>5, <2>1, <2>2 DEF Walking
  <1>11. CASE SaveHistory
    <2>1. /\ phase' = "nudging" /\ UNCHANGED <<batch, newest, seen, mark, seenFile>>
          /\ phase = "marking" /\ batch = << >> /\ markFile' = mark
      BY <1>11 DEF SaveHistory, BatchInWalk, Walking
    <2>2. QED
      BY <1>2, <1>3, <1>4, <1>5, <2>1 DEF Walking
  <1>12. CASE Nudge
    <2>1. /\ phase' = "idle" /\ UNCHANGED <<batch, newest, seen, mark, seenFile, markFile>>
          /\ phase = "nudging" /\ batch = << >>
      BY <1>12 DEF Nudge, NudgeTmux, BatchInWalk, Walking
    <2>2. QED
      BY <1>2, <1>3, <1>4, <1>5, <2>1 DEF Walking
  <1>13. CASE Crash
    <2>1. /\ phase' = "down" /\ UNCHANGED <<seenFile, markFile>>
          /\ seen' = << >> /\ mark' = 0 /\ batch' = << >> /\ newest' = 0
      BY <1>13 DEF Crash
    <2>2. QED
      BY <1>2, <1>3, <1>5, <1>6, <2>1, IdsEmpty DEF Walking
  \* Steps of a walk: the watermarks stay.
  <1>14. ASSUME UNCHANGED <<room, mark, markFile>>, newest' \in 0..M,
                Ids(batch') \subseteq 1..L,
                \A n \in Ids(batch') : n <= mark => Handled(n)',
                \A n \in Ids(seenFile') : n \in 0..L /\ Handled(n)',
                \A n \in Ids(seen') :
                   n \in 0..L /\ (Handled(n)' \/ (phase' = "queueing" /\ n = Head(batch'))),
                phase' \in {"notifying", "remembering"} => Handled(Head(batch))',
                \A n \in 1..L : n + FetchLimit > L
                   /\ ((phase' \in Walking /\ n <= newest') \/ BelowBatch(n)')
                   => n \in Ids(batch') \/ Handled(n)'
         PROVE  HandledInv'
    <2>1. L = M
      BY <1>14 DEF L, M
    <2>2. PostedOnly'
      BY <1>0, <1>a, <1>14, <2>1 DEF PostedOnly, M
    <2>3. SeenHandled'
      BY <1>14 DEF SeenHandled
    <2>4. MarkCovers'
      <3>1. Covered(mark)' /\ Covered(markFile)'
        BY <1>a, <1>c, <1>d, <1>14
      <3>2. QED
        BY <1>14, <2>1, <3>1 DEF MarkCovers, M
    <2>5. QED
      BY <2>2, <2>3, <2>4 DEF HandledInv
  <1>15. CASE PollRooms
    <2>1. /\ batch' \in Fetched(FetchLimit) /\ newest' = 0 /\ phase' = "walking"
          /\ phase = "idle"
          /\ UNCHANGED <<room, mark, markFile, seen, seenFile>>
      BY <1>15 DEF PollRooms
    <2>2. /\ Ids(batch') \subseteq {n \in 1..L : n + FetchLimit > L}
          /\ batch' = << >> \/ Ids(batch') = {n \in 1..L : n + FetchLimit > L}
      BY <2>1, PageOf, IdsEmpty DEF Fetched, L, TypeOK
    <2>3. batch' = << >> => Ids(batch') = {}
      BY IdsEmpty
    <2>4. \A n \in Ids(batch') : n <= mark => Handled(n)'
      BY <1>0, <1>c, <2>2 DEF Covered, L
    <2>5. \A n \in 1..L : n + FetchLimit > L
             /\ ((phase' \in Walking /\ n <= newest') \/ BelowBatch(n)')
             => n \in Ids(batch') \/ Handled(n)'
      BY <2>1, <2>2, <2>3 DEF BelowBatch
    <2>6. QED
      BY <1>0, <1>a, <1>b, <1>14, <2>1, <2>2, <2>4, <2>5
  \* A message leaves the batch handled.
  <1>16. ASSUME UNCHANGED <<room, mark, markFile>>, phase \in Walking, batch # << >>,
                phase' = "walking", batch' = Tail(batch), Handled(Head(batch)),
                newest' \in {newest, Bigger(newest, Head(batch))},
                \A n \in Ids(seen') \cup Ids(seenFile') : n \in 0..L /\ Handled(n)'
         PROVE  HandledInv'
    <2>1. /\ Head(batch) \in 1..L /\ Head(batch) \in Ids(batch)
          /\ Ids(batch) = {Head(batch)} \cup Ids(batch')
      BY <1>e, <1>16
    <2>2. newest' \in 0..M
      BY <1>0, <1>a, <1>16, <2>1 DEF Bigger
    <2>3. \A n \in Ids(batch') : n \in 1..L /\ (n <= mark => Handled(n)')
      BY <1>0, <1>a, <1>c, <2>1
    <2>4. ASSUME NEW n \in 1..L, n + FetchLimit > L, n <= newest' \/ BelowBatch(n)'
          PROVE  n \in Ids(batch') \/ Handled(n)'
      <3>1. n <= newest \/ BelowBatch(n)
        <4>1. CASE BelowBatch(n)'
          BY <2>1, <4>1 DEF BelowBatch
        <4>2. CASE n <= newest'
          BY <1>a, <1>16, <2>1, <4>2 DEF Bigger, BelowBatch
        <4>3. QED
          BY <2>4, <4>1, <4>2
      <3>2. n \in Ids(batch) \/ Handled(n)
        BY <1>c, <1>16, <2>4, <3>1
      <3>3. QED
        BY <1>0, <1>16, <2>1, <3>2
    <2>5. QED
      BY <1>14, <1>16, <2>2, <2>3, <2>4
  <1>17. CASE Classify
    <2> DEFINE n == Head(batch)
               new == n \notin Ids(seen) /\ ~Stale(n)
    <2>1. /\ phase = "walking" /\ batch # << >>
          /\ seen' = IF n \in Ids(seen) THEN seen ELSE Append(seen, n)
          /\ newest' = IF new THEN Bigger(newest, n) ELSE newest
          /\ IF new /\ room[n] # "self"
             THEN phase' = "queueing" /\ batch' = batch
             ELSE phase' = phase /\ batch' = Tail(batch)
          /\ UNCHANGED <<room, mark, markFile, seenFile>>
      BY <1>17 DEF Classify
    <2>2. /\ n \in 1..L /\ n \in Ids(batch)
          /\ Ids(batch) = {n} \cup Ids(Tail(batch))
      BY <1>e, <2>1
    <2>3. Ids(seen') = Ids(seen) \cup {n}
      <3>1. n \in Id
        BY <1>0, <2>2 DEF Message
      <3>2. Ids(Append(seen, n)) = Ids(seen) \cup {n}
        BY <3>1, IdsAppend DEF TypeOK
      <3>3. QED
        BY <2>1, <3>2
    <2>4. newest' \in {newest, Bigger(newest, n)} /\ newest' \in 0..M
      BY <1>0, <1>a, <2>1, <2>2 DEF Bigger
    <2>5. L = M
      BY <2>1 DEF L, M
    <2>6. CASE new /\ room[n] # "self"
      <3>1. /\ phase' = "queueing" /\ batch' = batch /\ newest' = Bigger(newest, n)
        BY <2>1, <2>6
      <3>2. \A m \in 1..L : m + FetchLimit > L
               /\ ((phase' \in Walking /\ m <= newest') \/ BelowBatch(m)')
               => m \in Ids(batch') \/ Handled(m)'
        <4> SUFFICES ASSUME NEW m \in 1..L, m + FetchLimit > L,
                            m <= newest' \/ BelowBatch(m)'
                     PROVE  m \in Ids(batch') \/ Handled(m)'
          OBVIOUS
        <4>1. m <= newest \/ BelowBatch(m)
          BY <1>a, <2>2, <3>1 DEF Bigger, BelowBatch
        <4>2. m \in Ids(batch) \/ Handled(m)
          BY <1>c, <2>1, <4>1 DEF Walking
        <4>3. QED
          BY <1>0, <3>1, <4>2
      <3>3. \A m \in Ids(seen') :
               m \in 0..L /\ (Handled(m)' \/ (phase' = "queueing" /\ m = Head(batch')))
        BY <1>4, <2>1, <2>2, <2>3, <2>5, <3>1
      <3>4. \A m \in Ids(batch') : m <= mark => Handled(m)'
        BY <1>0, <1>a, <1>c, <3>1
      <3>5. QED
        BY <1>3, <1>14, <1>a, <2>1, <2>4, <2>5, <3>1, <3>2, <3>3, <3>4
    <2>7. CASE ~(new /\ room[n] # "self")
      <3>1. Handled(n)
        <4>1. CASE n \in Ids(seen)
          BY <1>b, <2>1, <4>1
        <4>2. CASE Stale(n)
          <5>1. n <= mark
            BY <1>a, <2>2, <4>2 DEF Stale
          <5>2. QED
            BY <1>c, <2>2, <5>1
        <4>3. CASE room[n] = "self"
          BY <4>3 DEF Handled
        <4>4. QED
          BY <2>7, <4>1, <4>2, <4>3
      <3>2. phase' = "walking" /\ batch' = Tail(batch)
        BY <2>1, <2>7
      <3>3. \A m \in Ids(seen') \cup Ids(seenFile') : m \in 0..L /\ Handled(m)'
        BY <1>0, <1>3, <1>4, <2>1, <2>2, <2>3, <2>5, <3>1
      <3>4. QED
        BY <1>16, <2>1, <2>4, <3>1, <3>2, <3>3 DEF Walking
    <2>8. QED
      BY <2>6, <2>7
  \* The message at the head of the batch is handled.
  <1>18. ASSUME phase \in Walking \ {"walking"}, phase' \in {"notifying", "remembering"},
                UNCHANGED <<room, mark, markFile, seen, seenFile, batch, newest>>,
                Handled(Head(batch))'
         PROVE  HandledInv'
    <2>1. L = M
      BY <1>18 DEF L, M
    <2>2. \A n \in Ids(seen') :
             n \in 0..L /\ (Handled(n)' \/ (phase' = "queueing" /\ n = Head(batch')))
      BY <1>0, <1>a, <1>b, <1>18
    <2>3. \A n \in Ids(batch') : n \in 1..L /\ (n <= mark => Handled(n)')
      BY <1>0, <1>a, <1>c, <1>18
    <2>4. ASSUME NEW n \in 1..L, n + FetchLimit > L, n <= newest' \/ BelowBatch(n)'
          PROVE  n \in Ids(batch') \/ Handled(n)'
      <3>1. n <= newest \/ BelowBatch(n)
        BY <1>18, <2>4 DEF BelowBatch
      <3>2. QED
        BY <1>0, <1>c, <1>18, <2>4, <3>1
    <2>5. QED
      BY <1>3, <1>5, <1>14, <1>18, <2>1, <2>2, <2>3, <2>4
  <1>19. CASE AppendEvent
    <2>1. Head(batch) \in Message
      BY <1>0, <1>e, <1>19 DEF AppendEvent, Walking, Message
    <2>2. queued'[Head(batch)] > 0 /\ batch' = batch
      BY <1>19, <2>1 DEF AppendEvent, TypeOK
    <2>3. QED
      BY <1>18, <1>19, <2>2 DEF AppendEvent, Handled, Walking
  <1>20. CASE AppendNotification
    <2>1. Handled(Head(batch)) /\ UNCHANGED <<backlog, room, queued, batch>>
      BY <1>20, <1>b DEF AppendNotification
    <2>2. Handled(Head(batch))'
      BY <2>1 DEF Handled
    <2>3. QED
      BY <1>18, <1>20, <2>2 DEF AppendNotification, Walking
  <1>21. CASE Remember
    <2>1. /\ phase = "remembering" /\ phase' = "walking" /\ batch' = Tail(batch)
          /\ UNCHANGED <<room, mark, markFile, seen, newest>>
          /\ batch # << >> /\ Handled(Head(batch))
      BY <1>21, <1>b DEF Remember, SaveSeenIds, BatchInWalk, Walking
    <2>2. Ids(seenFile') \subseteq Ids(seen) /\ L = M
      BY <1>21, <2>1, SaveIds DEF Remember, SaveSeenIds, L, M
    <2>3. QED
      BY <1>4, <1>16, <2>1, <2>2 DEF Walking
  <1>22. CASE OtherRoomsMessage
    <2>1. /\ phase = "walking" /\ phase' = phase /\ batch' = batch /\ batch = << >>
          /\ seen' = Append(seen, Other) /\ seenFile' = LastOf(seen', SeenCap)
          /\ UNCHANGED <<room, mark, markFile, newest, backlog>>
      BY <1>22 DEF OtherRoomsMessage
    <2>2. Ids(seen') = Ids(seen) \cup {0} /\ seen' \in Seq(Id)
      BY <2>1, IdsAppend DEF TypeOK, Other
    <2>3. Ids(seenFile') \subseteq Ids(seen')
      BY <2>1, <2>2, LastOfIds
    <2>4. L = M
      BY <2>1 DEF L, M
    <2>5. Handled(0)'
      BY <1>a, <2>1 DEF Handled
    <2>6. \A n \in Ids(seen') \cup Ids(seenFile') : n \in 0..L /\ Handled(n)'
      BY <1>0, <1>4, <2>1, <2>2, <2>3, <2>4, <2>5
    <2>7. Ids(batch') = {}
      BY <1>f, <2>1
    <2>8. ASSUME NEW n \in 1..L, n + FetchLimit > L, n <= newest' \/ BelowBatch(n)'
          PROVE  Handled(n)'
      <3>1. n <= newest /\ n \notin Ids(batch)
        BY <1>f, <2>1, <2>7, <2>8 DEF BelowBatch
      <3>2. QED
        BY <1>0, <1>c, <2>1, <2>8, <3>1 DEF Walking
    <2>9. QED
      BY <1>5, <1>14, <2>1, <2>4, <2>6, <2>7, <2>8
  <1>23. CASE \/ \E kind \in Kind : Post(kind)
              \/ CooldownEnds \/ ReadNotes \/ ClearNotes \/ UNCHANGED vars
    BY <1>1, <1>23 DEF Post, CooldownEnds, ReadNotes, ClearNotes, vars
  <1>24. QED
    BY <1>7, <1>8, <1>9, <1>10, <1>11, <1>12, <1>13, <1>15, <1>17, <1>19, <1>20, <1>21,
       <1>22, <1>23 DEF Next

\* What the poller remembers, and what its watermarks hide, was handled.
LEMMA HandledAlways == Spec => [](TypeOK /\ BatchInWalk /\ HandledInv)
<1>1. Init => HandledInv
  <2> SUFFICES ASSUME Init PROVE HandledInv
    OBVIOUS
  <2>1. PICK n \in 0..MaxMessages - 1 : room \in [1..n -> Kind] /\ backlog = n
    BY DEF Init
  <2>2. room \in Seq(Kind) /\ Len(room) = n /\ n \in Nat
    <3>1. n \in Nat
      BY <2>1, Bounds
    <3>2. room \in UNION {[1..m -> Kind] : m \in Nat}
      BY <2>1, <3>1
    <3>3. room \in Seq(Kind)
      BY <3>2, SeqDef, Zenon
    <3>4. QED
      BY <2>1, <3>1, <3>3, LenProperties
  <2>3. /\ seen = << >> /\ seenFile = << >> /\ batch = << >> /\ phase = "down"
        /\ mark = 0 /\ newest = 0 /\ markFile = 0
    BY DEF Init
  <2>4. Ids(seen) = {} /\ Ids(seenFile) = {} /\ Ids(batch) = {}
    BY <2>3, IdsEmpty
  <2>5. QED
    BY <2>1, <2>2, <2>3, <2>4
       DEF HandledInv, PostedOnly, SeenHandled, MarkCovers, Covered, BelowBatch, Walking
<1>2. Init => BatchInWalk
  BY DEF Init, BatchInWalk, Walking
<1>3. TypeOK /\ BatchInWalk /\ HandledInv /\ [Next]_vars => HandledInv'
  BY HandledStep
<1>4. QED
  BY <1>1, <1>2, <1>3, TypeCorrect, BatchInWalkStep, PTL DEF Spec

\* An id on disk belongs to the backlog, to the agent itself, or to a message that
\* was queued, wherever the poller was killed.
THEOREM RememberedHandled == Spec => []SeenMeansHandled
<1>1. HandledInv => SeenMeansHandled
  BY DEF HandledInv, SeenHandled, SeenMeansHandled, Handled
<1>2. QED
  BY <1>1, HandledAlways, PTL

-----------------------------------------------------------------------------
(* What was queued is not queued again *)

\* A message that was queued, in no crash, and that a fetch can still return.
Live(n) ==
    n \in Message /\ queued[n] > 0 /\ n \notin interrupted /\ n + FetchLimit > Len(room)

\* No id is there twice, and what follows the id of a live message is no older than
\* that message by a fetch window.
Distinct(s) == \A p, q \in 1..Len(s) : s[p] = s[q] => p = q
InOrder(s) == \A p, q \in 1..Len(s) : p < q /\ Live(s[p]) => s[p] < s[q] + FetchLimit

\* What saveSeenIds keeps is as distinct, and in the same order.
LEMMA LastOfOrder ==
    ASSUME NEW s \in Seq(Id), Distinct(s), InOrder(s), NEW k \in Nat \ {0}
    PROVE  Distinct(LastOf(s, k)) /\ InOrder(LastOf(s, k))
  <1> DEFINE t == LastOf(s, k)
             d == Dropped(s, k)
  <1>1. /\ t \in Seq(Id) /\ d \in 0..Len(s) /\ Len(t) = Len(s) - d /\ Len(s) \in Nat
        /\ \A p \in 1..Len(t) : t[p] = s[p + d]
    BY LastOfSuffix, LenProperties
  <1> HIDE DEF t, d
  <1>2. \A p \in 1..Len(t) : p + d \in 1..Len(s) /\ p \in Nat
    BY <1>1
  <1>3. Distinct(t)
    BY <1>1, <1>2 DEF Distinct
  <1>4. InOrder(t)
    <2> SUFFICES ASSUME NEW p \in 1..Len(t), NEW q \in 1..Len(t), p < q, Live(t[p])
                 PROVE  t[p] < t[q] + FetchLimit
      BY DEF InOrder
    <2>1. p + d < q + d /\ Live(s[p + d])
      BY <1>1
    <2>2. s[p + d] < s[q + d] + FetchLimit
      BY <1>2, <2>1 DEF InOrder
    <2>3. QED
      BY <1>1, <2>2
  <1>5. QED
    BY <1>3, <1>4 DEF t

\* A new id that no id leads by a fetch window can be appended.
LEMMA AppendOrder ==
    ASSUME NEW s \in Seq(Id), Distinct(s), InOrder(s), NEW n \in Id, n \notin Ids(s),
           \A m \in Ids(s) : m < n + FetchLimit
    PROVE  /\ Distinct(Append(s, n)) /\ InOrder(Append(s, n))
           /\ Append(s, n) # << >> /\ Append(s, n)[Len(Append(s, n))] = n
  <1> DEFINE t == Append(s, n)
  <1>1. /\ t \in Seq(Id) /\ Len(s) \in Nat /\ Len(t) = Len(s) + 1 /\ t[Len(s) + 1] = n
        /\ \A p \in 1..Len(s) : t[p] = s[p]
    BY AppendProperties, LenProperties
  <1>2. \A p \in 1..Len(s) : s[p] \in Ids(s)
    BY IdsOf
  <1> HIDE DEF t
  <1>3. Distinct(t)
    BY <1>1, <1>2 DEF Distinct
  <1>4. InOrder(t)
    <2> SUFFICES ASSUME NEW p \in 1..Len(t), NEW q \in 1..Len(t), p < q, Live(t[p])
                 PROVE  t[p] < t[q] + FetchLimit
      BY DEF InOrder
    <2>1. p \in 1..Len(s) /\ t[p] = s[p]
      BY <1>1
    <2>2. CASE q = Len(s) + 1
      BY <1>1, <1>2, <2>1, <2>2
    <2>3. CASE q # Len(s) + 1
      <3>1. q \in 1..Len(s) /\ t[q] = s[q]
        BY <1>1, <2>3
      <3>2. QED
        BY <2>1, <3>1 DEF InOrder
    <2>4. QED
      BY <2>2, <2>3
  <1>5. t # << >> /\ t[Len(t)] = n
    BY <1>1, EmptySeq
  <1>6. QED
    BY <1>3, <1>4, <1>5 DEF t

\* Saving keeps the ids of live messages: those that follow such an id are distinct
\* and fewer than two fetch windows, and the file holds as many.
LEMMA SaveKeepsLive ==
    ASSUME TypeOK, PostedOnly, Distinct(seen), InOrder(seen),
           NEW n \in Ids(seen), Live(n)
    PROVE  n \in Ids(LastOf(seen, SeenCap))
  <1> DEFINE t == LastOf(seen, SeenCap)
             d == Dropped(seen, SeenCap)
             F == FetchLimit
  <1>1. /\ t \in Seq(Id) /\ d \in 0..Len(seen) /\ Len(t) = Len(seen) - d
        /\ Len(seen) \in Nat /\ seen \in Seq(Id)
        /\ \A p \in 1..Len(t) : t[p] = seen[p + d]
    BY LastOfSuffix, LenProperties, Bounds DEF TypeOK, Id
  <1>2. d = 0 \/ d = Len(seen) - SeenCap
    BY DEF Dropped
  <1>3. PICK p \in 1..Len(seen) : seen[p] = n
    BY <1>1, IdsOf
  <1>4. Len(room) \in Nat /\ n \in Nat /\ n + F > Len(room) /\ F \in Nat \ {0}
    BY LenProperties, Bounds DEF Live, Message, TypeOK
  <1> HIDE DEF t, d, F
  <1>5. p > d
    <2> SUFFICES ASSUME p <= d PROVE FALSE
      BY <1>1
    <2>1. d = Len(seen) - SeenCap
      BY <1>1, <1>2
    <2> DEFINE P == p..Len(seen)
               V == n + 1 .. n + 2 * F - 1
               f == [q \in P |-> seen[q] + F]
    <2>2. ASSUME NEW q \in P PROVE seen[q] + F \in V
      <3>1. q \in 1..Len(seen) /\ q >= p
        BY <1>1, <2>2
      <3>2. seen[q] \in 0..Len(room)
        BY <1>1, <3>1, IdsOf DEF PostedOnly
      <3>3. n < seen[q] + F
        BY <1>3, <1>4, <3>1 DEF InOrder, F
      <3>4. seen[q] + F <= n + 2 * F - 1
        BY <1>4, <3>2
      <3>5. QED
        BY <1>4, <3>2, <3>3, <3>4
    <2>3. f \in [P -> V]
      BY <2>2
    <2>4. /\ IsFiniteSet(P) /\ Cardinality(P) = Len(seen) - p + 1
          /\ IsFiniteSet(V) /\ Cardinality(V) = 2 * F - 1
      <3>1. p \in Int /\ Len(seen) \in Int /\ p <= Len(seen)
        BY <1>1
      <3>2. n + 1 \in Int /\ n + 2 * F - 1 \in Int /\ n + 1 <= n + 2 * F - 1
        BY <1>4
      <3>3. IsFiniteSet(P) /\ Cardinality(P) = Len(seen) - p + 1
        BY <3>1, FS_Interval
      <3>4. IsFiniteSet(V) /\ Cardinality(V) = (n + 2 * F - 1) - (n + 1) + 1
        BY <3>2, FS_Interval
      <3>5. QED
        BY <1>4, <3>3, <3>4
    <2>5. Cardinality(V) < Cardinality(P)
      BY <1>1, <1>4, <2>1, <2>4, Bounds DEF F
    <2>6. \E q, r \in P : q # r /\ f[q] = f[r]
      <3> HIDE DEF P, V, f
      <3>1. QED
        BY <2>3, <2>4, <2>5, FS_PigeonHole
    <2>7. PICK q \in P, r \in P : q # r /\ seen[q] + F = seen[r] + F
      BY <2>6
    <2>8. q \in 1..Len(seen) /\ r \in 1..Len(seen)
      BY <1>1
    <2>9. seen[q] \in 0..Len(room) /\ seen[r] \in 0..Len(room)
      BY <1>1, <2>8, IdsOf DEF PostedOnly
    <2>10. seen[q] = seen[r]
      BY <1>4, <2>7, <2>9
    <2>11. QED
      BY <2>7, <2>8, <2>10 DEF Distinct
  <1>6. p - d \in 1..Len(t) /\ (p - d) + d = p
    BY <1>1, <1>5
  <1>7. t[p - d] = n
    BY <1>1, <1>3, <1>6
  <1>8. QED
    BY <1>1, <1>6, <1>7, IdsOf DEF t

\* As long as only this room fills the seen file, what was seen is in order, on disk
\* is a part of it, and nothing in the batch is older by a fetch window than what was
\* seen.
SeenInOrder ==
    /\ Distinct(seen) /\ InOrder(seen) /\ Distinct(seenFile) /\ InOrder(seenFile)
    /\ phase # "down" => Ids(seenFile) \subseteq Ids(seen)
    /\ phase = "seeding" => seen = << >> /\ seenFile = << >>
    /\ phase = "queueing" => /\ seen # << >> /\ seen[Len(seen)] = Head(batch)
                             /\ Head(batch) \notin Ids(seenFile)
    /\ \A n \in Ids(batch) : \A m \in Ids(seen) \cup Ids(batch) : m < n + FetchLimit

\* And what was queued in no crash is remembered for as long as a fetch can return
\* it: in memory while the poller runs, on disk but while it is being handled.
Handling(n) == phase \in {"notifying", "remembering"} /\ n = Head(batch)
QueuedRemembered ==
    /\ \A n \in Message : queued[n] > 1 => n \in interrupted
    /\ phase = "queueing" => queued[Head(batch)] = 0 \/ Head(batch) \in interrupted
    /\ phase # "down" =>
          \A n \in Message :
             /\ queued[n] > 0 /\ n \notin interrupted
             /\ n + FetchLimit > Len(room) \/ n \in Ids(batch)
             => n \in Ids(seen)
    /\ \A n \in Message : Live(n) /\ ~Handling(n) => n \in Ids(seenFile)

\* Every step but one of another room keeps to it.
LEMMA OrderStep ==
    ASSUME TypeOK, BatchInWalk, PostedOnly, SeenInOrder, QueuedRemembered,
           [Next]_vars, ~OtherRoomsMessage
    PROVE  SeenInOrder' /\ QueuedRemembered'
  <1> USE Bounds DEF Id, poller, files, reader, history
  <1> DEFINE L == Len(room)
             M == Len(room')
             Resting == {"idle", "walking", "saving", "marking", "nudging"}
  <1>0. L \in 0..MaxMessages /\ M \in 0..MaxMessages /\ L <= M
    BY HandledGrows
  <1>a. /\ Distinct(seen) /\ InOrder(seen) /\ Distinct(seenFile) /\ InOrder(seenFile)
        /\ phase # "down" => Ids(seenFile) \subseteq Ids(seen)
        /\ phase = "seeding" => seen = << >> /\ seenFile = << >>
        /\ phase = "queueing" => /\ seen # << >> /\ seen[Len(seen)] = Head(batch)
                                 /\ Head(batch) \notin Ids(seenFile)
        /\ \A n \in Ids(batch) : \A m \in Ids(seen) \cup Ids(batch) : m < n + FetchLimit
    BY DEF SeenInOrder
  <1>b. /\ \A n \in Message : queued[n] > 1 => n \in interrupted
        /\ phase = "queueing" => queued[Head(batch)] = 0 \/ Head(batch) \in interrupted
        /\ phase # "down" =>
              \A n \in Message :
                 /\ queued[n] > 0 /\ n \notin interrupted
                 /\ n + FetchLimit > L \/ n \in Ids(batch)
                 => n \in Ids(seen)
        /\ \A n \in Message : Live(n) /\ ~Handling(n) => n \in Ids(seenFile)
    BY DEF QueuedRemembered
  <1>c. /\ seen \in Seq(Id) /\ seenFile \in Seq(Id) /\ batch \in Seq(Message)
        /\ queued \in [Message -> Nat] /\ interrupted \subseteq Message
    BY DEF TypeOK
  <1>d. phase \in Walking \ {"walking"} \/ batch # << >> =>
           /\ Head(batch) \in Message /\ Head(batch) \in Ids(batch)
           /\ Ids(batch) = {Head(batch)} \cup Ids(Tail(batch))
           /\ Tail(batch) \in Seq(Message)
    BY <1>c, IdsHeadTail DEF BatchInWalk
  <1>e. ASSUME NEW n, queued' = queued, interrupted \subseteq interrupted', Live(n)'
        PROVE  Live(n)
    BY <1>0, <1>e DEF Live, Message
  <1>f. ASSUME NEW s, InOrder(s), queued' = queued, interrupted \subseteq interrupted'
        PROVE  InOrder(s)'
    BY <1>e, <1>f DEF InOrder
  <1> HIDE DEF L, M
  \* Steps that leave what is remembered and queued, and may take from the batch.
  <1>1. ASSUME UNCHANGED <<seen, seenFile, queued, interrupted>>,
               Ids(batch') \subseteq Ids(batch),
               \/ phase' = phase /\ (batch' = batch \/ phase = "walking")
               \/ phase \in Resting /\ phase' \in Resting
               \/ phase = "notifying" /\ phase' = "remembering" /\ batch' = batch
        PROVE  SeenInOrder' /\ QueuedRemembered'
    <2>1. InOrder(seen)' /\ InOrder(seenFile)' /\ Distinct(seen)' /\ Distinct(seenFile)'
      BY <1>a, <1>f, <1>1 DEF Distinct
    <2>2. SeenInOrder'
      BY <1>a, <1>1, <2>1 DEF SeenInOrder
    <2>3. phase' # "down" =>
             \A n \in Message :
                /\ queued'[n] > 0 /\ n \notin interrupted'
                /\ n + FetchLimit > M \/ n \in Ids(batch')
                => n \in Ids(seen')
      BY <1>0, <1>b, <1>1 DEF Message
    <2>4. \A n \in Message : Live(n)' /\ ~Handling(n)' => n \in Ids(seenFile')
      BY <1>b, <1>e, <1>1 DEF Handling
    <2>5. QueuedRemembered'
      BY <1>b, <1>1, <2>3, <2>4 DEF QueuedRemembered, M
    <2>6. QED
      BY <2>2, <2>5
  <1>2. CASE \/ \E kind \in Kind : Post(kind)
             \/ AppendNotification \/ EndOfRoom \/ SaveHistory \/ Nudge
             \/ CooldownEnds \/ ReadNotes \/ ClearNotes \/ UNCHANGED vars
    BY <1>1, <1>2 DEF Post, AppendNotification, EndOfRoom, SaveHistory, Nudge, NudgeTmux, CooldownEnds,
       ReadNotes, ClearNotes, vars
  <1>3. CASE Start
    <2>1. /\ phase = "down" /\ batch = << >> /\ batch' = << >> /\ seen' = seenFile
          /\ phase' = (IF seenFile = << >> THEN "seeding" ELSE "idle")
          /\ UNCHANGED <<room, seenFile, queued, interrupted>>
      BY <1>3 DEF Start, BatchInWalk, Walking
    <2>2. Ids(batch') = {}
      BY <2>1, IdsEmpty
    <2>3. InOrder(seen)' /\ InOrder(seenFile)' /\ Distinct(seen)' /\ Distinct(seenFile)'
      BY <1>a, <1>f, <2>1 DEF Distinct
    <2>4. SeenInOrder'
      BY <2>1, <2>2, <2>3 DEF SeenInOrder
    <2>5. QueuedRemembered'
      BY <1>b, <2>1, <2>2 DEF QueuedRemembered, Live, Handling, L
    <2>6. QED
      BY <2>4, <2>5
  <1>4. CASE SeedRoom
    <2>1. PICK msgs \in Fetched(SeedLimit) : seen' = seen \o msgs
      BY <1>4 DEF SeedRoom
    <2>2. /\ phase = "seeding" /\ phase' = "saving" /\ batch = << >>
          /\ seen = << >> /\ seenFile = << >>
          /\ UNCHANGED <<room, batch, seenFile, queued, interrupted>>
      BY <1>4, <1>a DEF SeedRoom, BatchInWalk, Walking
    <2>3. msgs \in Seq(Id)
      BY PageType
    <2>4. seen' = msgs
      BY <2>1, <2>2, <2>3, ConcatEmptySeq
    <2>5. Ids(batch') = {} /\ Ids(seenFile) = {}
      BY <2>2, IdsEmpty
    <2>6. \A n : ~Live(n)
      BY <1>b, <2>2, <2>5 DEF Live, Handling
    <2>7. \A n : ~Live(n)'
      BY <1>e, <2>2, <2>6
    <2>8. Distinct(msgs)
      <3>1. room \in Seq(Kind) /\ SeedLimit \in Nat
        BY DEF TypeOK
      <3>2. Distinct(Page(SeedLimit))
        BY <3>1, PageOf DEF Distinct
      <3>3. Distinct(<< >>)
        BY EmptySeq DEF Distinct
      <3>4. QED
        BY <3>2, <3>3 DEF Fetched
    <2>9. InOrder(seen)' /\ InOrder(seenFile)' /\ Distinct(seen)' /\ Distinct(seenFile)'
      BY <1>a, <2>2, <2>4, <2>7, <2>8 DEF Distinct, InOrder
    <2>10. SeenInOrder'
      BY <2>2, <2>5, <2>9 DEF SeenInOrder
    <2>11. QueuedRemembered'
      BY <1>b, <2>2, <2>5, <2>7 DEF QueuedRemembered, Live
    <2>12. QED
      BY <2>10, <2>11
  <1>5. CASE PollRooms
    <2>1. /\ phase = "idle" /\ phase' = "walking" /\ batch' \in Fetched(FetchLimit)
          /\ UNCHANGED <<room, seen, seenFile, queued, interrupted>>
      BY <1>5 DEF PollRooms
    <2>2. Ids(batch') \subseteq {n \in 1..L : n + FetchLimit > L}
      BY <2>1, PageOf, IdsEmpty DEF Fetched, L, TypeOK
    <2>3. InOrder(seen)' /\ InOrder(seenFile)' /\ Distinct(seen)' /\ Distinct(seenFile)'
      BY <1>a, <1>f, <2>1 DEF Distinct
    <2>4. \A n \in Ids(batch') : \A m \in Ids(seen') \cup Ids(batch') : m < n + FetchLimit
      <3>1. Ids(seen') \subseteq 0..L
        BY <2>1 DEF PostedOnly, L
      <3>2. QED
        BY <1>0, <2>2, <3>1
    <2>5. SeenInOrder'
      BY <1>a, <2>1, <2>3, <2>4 DEF SeenInOrder
    <2>6. QueuedRemembered'
      BY <1>b, <2>1, <2>2 DEF QueuedRemembered, Live, Handling, L
    <2>7. QED
      BY <2>5, <2>6
  <1>6. CASE Classify
    <2> DEFINE n == Head(batch)
    <2>1. /\ phase = "walking" /\ batch # << >>
          /\ seen' = IF n \in Ids(seen) THEN seen ELSE Append(seen, n)
          /\ \/ phase' = "queueing" /\ batch' = batch /\ n \notin Ids(seen)
             \/ phase' = phase /\ batch' = Tail(batch)
          /\ UNCHANGED <<room, seenFile, queued, interrupted>>
      BY <1>6 DEF Classify
    <2>2. n \in Message /\ n \in Ids(batch) /\ n \in Id
      BY <1>d, <2>1 DEF Message
    <2>3. Ids(batch') \subseteq Ids(batch)
      BY <1>d, <2>1
    <2>4. CASE n \in Ids(seen)
      <3>1. seen' = seen /\ phase' = phase
        BY <2>1, <2>4
      <3>2. QED
        BY <1>1, <2>1, <2>3, <3>1
    <2>5. CASE n \notin Ids(seen)
      <3>1. seen' = Append(seen, n) /\ Ids(seen') = Ids(seen) \cup {n}
        BY <1>c, <2>1, <2>2, <2>5, IdsAppend
      <3>2. /\ Distinct(seen') /\ InOrder(Append(seen, n))
            /\ seen' # << >> /\ seen'[Len(seen')] = n
        BY <1>a, <1>c, <2>2, <2>5, <3>1, AppendOrder
      <3>3. InOrder(seen)' /\ InOrder(seenFile)' /\ Distinct(seenFile)'
        BY <1>a, <1>f, <2>1, <3>1, <3>2 DEF Distinct
      <3>4. n \notin Ids(seenFile)
        BY <1>a, <2>1, <2>5
      <3>5. SeenInOrder'
        <4>1. Distinct(seen)'
          BY <3>2 DEF Distinct
        <4>2. \A k \in Ids(batch') : \A m \in Ids(seen') \cup Ids(batch') :
                 m < k + FetchLimit
          BY <1>a, <2>2, <2>3, <3>1
        <4>3. phase' = "queueing" => /\ seen' # << >> /\ seen'[Len(seen')] = Head(batch')
                                     /\ Head(batch') \notin Ids(seenFile')
          BY <2>1, <3>2, <3>4
        <4>4. phase' # "seeding" /\ phase' # "down" /\ Ids(seenFile') \subseteq Ids(seen')
          BY <1>a, <2>1, <3>1
        <4>5. QED
          BY <3>3, <4>1, <4>2, <4>3, <4>4 DEF SeenInOrder
      <3>6. QueuedRemembered'
        <4>1. queued[n] = 0 \/ n \in interrupted
          BY <1>b, <1>c, <2>1, <2>2, <2>5
        <4>2. phase' = "queueing" => queued'[Head(batch')] = 0 \/ Head(batch') \in interrupted'
          BY <2>1, <4>1
        <4>3. \A k \in Message :
                 /\ queued'[k] > 0 /\ k \notin interrupted'
                 /\ k + FetchLimit > Len(room') \/ k \in Ids(batch')
                 => k \in Ids(seen')
          BY <1>b, <2>1, <2>3, <3>1 DEF L
        <4>4. \A k \in Message : Live(k)' /\ ~Handling(k)' => k \in Ids(seenFile')
          BY <1>b, <1>e, <2>1 DEF Handling
        <4>5. QED
          BY <1>b, <2>1, <4>2, <4>3, <4>4 DEF QueuedRemembered
      <3>7. QED
        BY <3>5, <3>6
    <2>6. QED
      BY <2>4, <2>5
  <1>7. CASE AppendEvent
    <2> DEFINE n == Head(batch)
    <2>1. /\ phase = "queueing" /\ phase' = "notifying"
          /\ queued' = [queued EXCEPT ![n] = @ + 1]
          /\ UNCHANGED <<room, seen, seenFile, batch, interrupted>>
      BY <1>7 DEF AppendEvent
    <2>2. n \in Message /\ n \in Ids(batch)
      BY <1>d, <2>1 DEF Walking
    <2>3. /\ queued'[n] = queued[n] + 1 /\ queued[n] \in Nat
          /\ \A k \in Message : k # n => queued'[k] = queued[k]
      BY <1>c, <2>1, <2>2
    <2>4. seen # << >> /\ seen[Len(seen)] = n /\ n \notin Ids(seenFile)
      BY <1>a, <2>1
    <2>5. \A k : Live(k)' => Live(k) \/ k = n
      BY <2>1, <2>3 DEF Live
    <2>6. n \in Ids(seen)
      <3>1. Len(seen) \in 1..Len(seen)
        BY <1>c, <2>4, EmptySeq, LenProperties
      <3>2. QED
        BY <1>c, <2>4, <3>1, IdsOf
    <2>7. InOrder(seen)'
      <3> SUFFICES ASSUME NEW p \in 1..Len(seen), NEW q \in 1..Len(seen), p < q,
                          Live(seen[p])'
                   PROVE  seen[p] < seen[q] + FetchLimit
        BY <2>1 DEF InOrder
      <3>1. seen[p] # n
        <4>1. Len(seen) \in 1..Len(seen) /\ Len(seen) # p
          BY <1>c, LenProperties
        <4>2. QED
          BY <1>a, <2>4, <4>1 DEF Distinct
      <3>2. QED
        BY <1>a, <2>1, <2>5, <3>1 DEF InOrder
    <2>8. InOrder(seenFile)'
      <3> SUFFICES ASSUME NEW p \in 1..Len(seenFile), NEW q \in 1..Len(seenFile), p < q,
                          Live(seenFile[p])'
                   PROVE  seenFile[p] < seenFile[q] + FetchLimit
        BY <2>1 DEF InOrder
      <3>1. seenFile[p] # n
        BY <1>c, <2>4, IdsOf
      <3>2. QED
        BY <1>a, <2>1, <2>5, <3>1 DEF InOrder
    <2>9. Distinct(seen)' /\ Distinct(seenFile)'
      BY <1>a, <2>1 DEF Distinct
    <2>10. SeenInOrder'
      BY <1>a, <2>1, <2>7, <2>8, <2>9 DEF SeenInOrder
    <2>11. \A k \in Message : queued'[k] > 1 => k \in interrupted
      BY <1>b, <2>1, <2>3
    <2>12. \A k \in Message :
              /\ queued'[k] > 0 /\ k \notin interrupted
              /\ k + FetchLimit > L \/ k \in Ids(batch)
              => k \in Ids(seen)
      BY <1>b, <2>1, <2>3, <2>6
    <2>13. \A k \in Message : Live(k)' /\ ~Handling(k)' => k \in Ids(seenFile')
      BY <1>b, <2>1, <2>5 DEF Handling
    <2>14. QueuedRemembered'
      BY <2>1, <2>11, <2>12, <2>13 DEF QueuedRemembered, L
    <2>15. QED
      BY <2>10, <2>14
  \* Saving the ids.
  <1>8. ASSUME seenFile' = LastOf(seen, SeenCap),
               UNCHANGED <<room, seen, queued, interrupted>>,
               phase # "down", phase' \in Resting, Ids(batch') \subseteq Ids(batch)
        PROVE  SeenInOrder' /\ QueuedRemembered'
    <2>1. Distinct(seenFile') /\ InOrder(LastOf(seen, SeenCap))
      BY <1>a, <1>c, <1>8, LastOfOrder
    <2>2. InOrder(seen)' /\ InOrder(seenFile)' /\ Distinct(seen)' /\ Distinct(seenFile)'
      BY <1>a, <1>f, <1>8, <2>1 DEF Distinct
    <2>3. Ids(seenFile') \subseteq Ids(seen')
      BY <1>8, SaveIds
    <2>4. SeenInOrder'
      BY <1>a, <1>8, <2>2, <2>3 DEF SeenInOrder
    <2>5. ASSUME NEW n \in Message, Live(n) PROVE n \in Ids(seenFile')
      <3>1. n \in Ids(seen)
        BY <1>b, <1>8, <2>5 DEF Live, L
      <3>2. QED
        BY <1>a, <1>8, <2>5, <3>1, SaveKeepsLive
    <2>6. QueuedRemembered'
      BY <1>b, <1>e, <1>8, <2>5 DEF QueuedRemembered, L
    <2>7. QED
      BY <2>4, <2>6
  <1>9. CASE SaveSeen
    BY <1>8, <1>9 DEF SaveSeen, SaveSeenIds
  <1>10. CASE Remember
    <2>1. Ids(Tail(batch)) \subseteq Ids(batch)
      BY <1>d, <1>10 DEF Remember, Walking
    <2>2. QED
      BY <1>8, <1>10, <2>1 DEF Remember, SaveSeenIds
  <1>11. CASE Crash
    <2>1. /\ phase # "down" /\ phase' = "down" /\ seen' = << >> /\ batch' = << >>
          /\ interrupted' = IF phase \in {"notifying", "remembering"}
                            THEN interrupted \cup {Head(batch)} ELSE interrupted
          /\ UNCHANGED <<room, seenFile, queued>>
      BY <1>11 DEF Crash
    <2>2. Distinct(<< >>)
      BY EmptySeq DEF Distinct
    <2>3. Distinct(seen)' /\ InOrder(seen)'
      BY <2>1, <2>2, EmptySeq DEF Distinct, InOrder
    <2>4. Distinct(seenFile)' /\ InOrder(seenFile)'
      BY <1>a, <1>f, <2>1 DEF Distinct
    <2>5. Ids(batch') = {}
      BY <2>1, IdsEmpty
    <2>6. SeenInOrder'
      BY <2>1, <2>3, <2>4, <2>5 DEF SeenInOrder
    <2>7. ASSUME NEW n \in Message, Live(n)' PROVE n \in Ids(seenFile')
      <3>1. Live(n) /\ ~Handling(n)
        BY <1>e, <2>1, <2>7 DEF Live, Handling
      <3>2. QED
        BY <1>b, <2>1, <3>1
    <2>8. QueuedRemembered'
      BY <1>b, <2>1, <2>7 DEF QueuedRemembered
    <2>9. QED
      BY <2>6, <2>8
  <1>12. QED
    BY <1>2, <1>3, <1>4, <1>5, <1>6, <1>7, <1>9, <1>10, <1>11 DEF Next

\* A message is queued again only if the crash fell between its own append and its
\* own marker, although the seen file forgets old ids: unless other rooms fill it.
THEOREM ReplayedInterrupted == Spec => []ReplayOnlyInterrupted
<1> DEFINE OrderInv == others = 0 => SeenInOrder /\ QueuedRemembered
<1>1. Init => OrderInv
  <2> SUFFICES ASSUME Init PROVE SeenInOrder /\ QueuedRemembered
    OBVIOUS
  <2>1. /\ seen = << >> /\ seenFile = << >> /\ batch = << >> /\ phase = "down"
        /\ queued = [n \in Message |-> 0]
    BY DEF Init
  <2>2. Ids(seen) = {} /\ Ids(seenFile) = {} /\ Ids(batch) = {}
    BY <2>1, IdsEmpty
  <2>3. QED
    BY <2>1, <2>2 DEF SeenInOrder, QueuedRemembered, Distinct, InOrder, Live
<1>2. TypeOK /\ BatchInWalk /\ PostedOnly /\ OrderInv /\ [Next]_vars => OrderInv'
  <2> SUFFICES ASSUME TypeOK, BatchInWalk, PostedOnly, OrderInv, [Next]_vars, others' = 0
               PROVE  SeenInOrder' /\ QueuedRemembered'
    OBVIOUS
  <2>1. ~OtherRoomsMessage /\ others = 0
    BY DEF TypeOK, Next, vars, poller, files, reader, history, Post, Start, SeedRoom,
       PollRooms, Classify, AppendEvent, AppendNotification, Remember, OtherRoomsMessage,
       EndOfRoom, SaveSeen, SaveHistory, Nudge, NudgeTmux, CooldownEnds, Crash, ReadNotes, ClearNotes
  <2>2. QED
    BY <2>1, OrderStep
<1>3. OrderInv => ReplayOnlyInterrupted
  BY DEF QueuedRemembered, ReplayOnlyInterrupted
<1>4. HandledInv => PostedOnly
  BY DEF HandledInv
<1>5. QED
  BY <1>1, <1>2, <1>3, <1>4, HandledAlways, PTL DEF Spec

=============================================================================
