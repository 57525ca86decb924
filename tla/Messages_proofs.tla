---------------------------- MODULE Messages_proofs ----------------------------
(***************************************************************************)
(* Proofs about the parts that carry messages: the rule engine beside the  *)
(* room poller, the sends between sessions, and the pollers of the other   *)
(* sources, for any rooms, messages, rules, owners, requests and items,    *)
(* and any number of mishaps.                                              *)
(***************************************************************************)
EXTENDS Parts, SequenceTheorems, FiniteSetTheorems, TLAPS

-----------------------------------------------------------------------------
(* The rule engine: src/room-automation.mjs *)

\* A behaviour of the parts is one of the rule engine, which moves or stands still.
LEMMA RulesPart == PartsSpec => Rules!AutomationSpec
<1>1. PartsInit => Rules!Init
  BY DEF PartsInit
<1>2. [PartsNext]_partsVars => [Rules!Next]_(Rules!automationVars)
  BY DEF PartsNext, partsVars, messageVars, ruleVars, Rules!automationVars, Rules!engine
<1>3. QED
  BY <1>1, <1>2, PTL DEF PartsSpec, Rules!AutomationSpec

RuleFile == Rules!Ids(ruleSeenFile)
RuleKnown == Rules!Ids(ruleSeen)

\* What was dispatched, or is about to be, is in the seen file unless it was forgotten there,
\* and nothing that is seen is read again.
Taken ==
    /\ ruleStage # "down" => RuleFile \subseteq RuleKnown
    /\ ruleStage \notin {"poll", "act", "reply"} => ruleBatch = {}
    /\ ruleBatch \cap RuleKnown = {}
    /\ ruleStage = "act" => cur \in RuleMessage /\ (cur \in ruleForgotten \/ (cur \in RuleFile /\ done[cur] = 0))
    /\ \A m \in RuleMessage \ ruleForgotten : done[m] <= 1 /\ (done[m] > 0 => m \in RuleFile)

\* The rooms the engine knows of are configured, and dispatch is on when all of them
\* are seeded; a message is in its room.
Watching ==
    /\ seededFile \cup seeded \cup adopted \cup todo \subseteq rooms
    /\ \A r \in RuleRoom, m \in RuleMessage : m \in Rules!Ids(posted[r]) => RuleRoomOf[m] = r
    /\ \A m \in old : Rules!There(m)
    /\ \A m \in old \cup ruleBatch : RuleRoomOf[m] \in rooms
    /\ \A m \in RuleMessage : done[m] > 0 => RuleRoomOf[m] \in rooms
    /\ ruleStage = "act" => RuleRoomOf[cur] \in rooms
    /\ ruleStage = "mark" => cur \in rooms
    /\ ruleStage = "down" => ~ready
    /\ ready \/ ruleStage \in {"poll", "act", "reply"} => rooms \subseteq seeded

\* Once a room is seeded its history is in the seen file, or beyond what a poll reads, or
\* was forgotten.
Marked(r) == r \in seeded \cup seededFile \/ (ruleStage = "mark" /\ cur = r)
HistorySeen ==
    \A m \in old \ ruleForgotten : RuleRoomOf[m] \notin adopted =>
        /\ done[m] = 0 /\ ~(ruleStage = "act" /\ cur = m) /\ m \notin ruleBatch
        /\ Marked(RuleRoomOf[m]) => m \in RuleFile \/ m \notin Rules!Newest(RuleRoomOf[m], RuleFetch)

LEMMA NoneSeen == << >> \in Seq(RuleMessage) /\ Rules!Ids(<< >>) = {}
  BY DEF Rules!Ids, Rules!Range

\* The ids of two lists in a row are those of both.
LEMMA IdsTogether ==
    ASSUME NEW ids \in Seq(RuleMessage), NEW more \in Seq(RuleMessage)
    PROVE  ids \o more \in Seq(RuleMessage) /\ Rules!Ids(ids \o more) = Rules!Ids(ids) \cup Rules!Ids(more)
<1> DEFINE both == ids \o more
<1>1. /\ both \in Seq(RuleMessage) /\ DOMAIN ids = 1..Len(ids) /\ DOMAIN more = 1..Len(more)
      /\ DOMAIN both = 1..Len(both)
  BY ConcatProperties
<1>2. /\ \A k \in 1..Len(more) : Len(ids) + k \in 1..Len(both) /\ both[Len(ids) + k] = more[k]
      /\ \A k \in 1..Len(ids) : k \in 1..Len(both) /\ both[k] = ids[k]
      /\ \A k \in 1..Len(both) : \/ k \in 1..Len(ids) /\ both[k] = ids[k]
                                 \/ k - Len(ids) \in 1..Len(more) /\ both[k] = more[k - Len(ids)]
  OBVIOUS
<1> HIDE DEF both
<1>3. Rules!Ids(both) = {both[k] : k \in 1..Len(both)}
  BY <1>1 DEF Rules!Ids, Rules!Range
<1>4. Rules!Ids(ids) = {ids[k] : k \in 1..Len(ids)} /\ Rules!Ids(more) = {more[k] : k \in 1..Len(more)}
  BY <1>1 DEF Rules!Ids, Rules!Range
<1>5. Rules!Ids(both) = Rules!Ids(ids) \cup Rules!Ids(more)
  BY <1>2, <1>3, <1>4
<1>6. QED
  BY <1>1, <1>5 DEF both

LEMMA IdsAppended ==
    ASSUME NEW ids \in Seq(RuleMessage), NEW m \in RuleMessage
    PROVE  Append(ids, m) \in Seq(RuleMessage) /\ Rules!Ids(Append(ids, m)) = Rules!Ids(ids) \cup {m}
<1>1. <<m>> \in Seq(RuleMessage) /\ Append(ids, m) = ids \o <<m>>
  OBVIOUS
<1>2. Rules!Ids(<<m>>) = {m}
  BY DEF Rules!Ids, Rules!Range
<1>3. QED
  BY <1>1, <1>2, IdsTogether

LEMMA IdsAreMessages == \A ids \in Seq(RuleMessage) : Rules!Ids(ids) \subseteq RuleMessage
  BY DEF Rules!Ids, Rules!Range

\* The seen file keeps ids that it is given, and what it leaves out is forgotten.
LEMMA RulesFileSaved ==
    ASSUME RuleCap \in Nat \ {0}, NEW ids \in Seq(RuleMessage), Rules!Saved(ids)
    PROVE  /\ ruleSeenFile' \in Seq(RuleMessage) /\ RuleFile' \subseteq Rules!Ids(ids)
           /\ ruleForgotten \subseteq ruleForgotten' /\ ruleForgotten' \subseteq ruleForgotten \cup Rules!Ids(ids)
           /\ \A m \in Rules!Ids(ids) : m \in ruleForgotten' \/ m \in RuleFile'
<1> DEFINE first == 1 + IF Len(ids) > RuleCap THEN Len(ids) - RuleCap ELSE 0
           kept == SubSeq(ids, first, Len(ids))
<1>1. first \in 1..Len(ids) + 1 /\ Len(ids) \in Nat
  OBVIOUS
<1>2. /\ ruleSeenFile' = kept
      /\ ruleForgotten' = ruleForgotten \cup (Rules!Ids(ids) \ Rules!Ids(ruleSeenFile'))
  BY DEF Rules!Saved
<1>3. kept \in Seq(RuleMessage)
  BY <1>1, SubSeqProperties
<1>4. \A k \in 1..Len(kept) : first + k - 1 \in 1..Len(ids) /\ kept[k] = ids[first + k - 1]
  BY <1>1, SubSeqProperties
<1> HIDE DEF kept, first
<1>5. Rules!Ids(kept) \subseteq Rules!Ids(ids)
  BY <1>3, <1>4 DEF Rules!Ids, Rules!Range
<1>6. QED
  BY <1>2, <1>3, <1>5 DEF RuleFile

\* A seed makes the newest messages of the room seen.
LEMMA RoomSeeds ==
    ASSUME Rules!TypeOK, NEW r \in RuleRoom, Rules!SeeNewest(r)
    PROVE  ruleSeen' \in Seq(RuleMessage) /\ RuleKnown' = RuleKnown \cup Rules!Newest(r, RuleSeed)
<1> DEFINE unseen == Rules!Newest(r, RuleSeed) \ Rules!Ids(ruleSeen)
<1>1. PICK n \in 0..RuleSeed : \E ids \in [1..n -> unseen] :
        Rules!Ids(ids) = unseen /\ Rules!IsInjective(ids) /\ ruleSeen' = ruleSeen \o ids
  BY DEF Rules!SeeNewest
<1>2. PICK ids \in [1..n -> unseen] : Rules!Ids(ids) = unseen /\ ruleSeen' = ruleSeen \o ids
  BY <1>1
<1>3. ruleSeen \in Seq(RuleMessage) /\ posted[r] \in Seq(RuleMessage)
  BY DEF Rules!TypeOK
<1>4. Rules!Newest(r, RuleSeed) \subseteq RuleMessage
  BY <1>3 DEF Rules!Newest
<1>5. n \in Nat
  BY MessageAssumptions DEF Rules!AutomationAssumption
<1>6. ids \in Seq(RuleMessage)
  BY <1>2, <1>4, <1>5
<1>7. QED
  BY <1>2, <1>3, <1>6, IdsTogether DEF RuleKnown

\* The newest messages of a room are in it; the more are asked for, the more they are.
LEMMA NewestThere ==
    ASSUME Rules!TypeOK, NEW r \in RuleRoom
    PROVE  /\ Rules!Newest(r, RuleFetch) \subseteq Rules!Newest(r, RuleSeed)
           /\ Rules!Newest(r, RuleSeed) \subseteq Rules!Ids(posted[r])
           /\ Rules!Ids(posted[r]) \subseteq RuleMessage
<1>1. posted[r] \in Seq(RuleMessage) /\ Len(posted[r]) \in Nat /\ DOMAIN posted[r] = 1..Len(posted[r])
  BY DEF Rules!TypeOK
<1>2. RuleFetch \in Nat /\ RuleSeed \in Nat /\ RuleFetch <= RuleSeed
  BY MessageAssumptions DEF Rules!AutomationAssumption
<1>3. \A k \in 1..Len(posted[r]) : k + RuleFetch > Len(posted[r]) => k + RuleSeed > Len(posted[r])
  BY <1>1, <1>2
<1>4. Rules!Newest(r, RuleFetch) \subseteq Rules!Newest(r, RuleSeed)
  BY <1>3 DEF Rules!Newest
<1>5. Rules!Newest(r, RuleSeed) \subseteq Rules!Ids(posted[r])
  BY <1>1 DEF Rules!Newest, Rules!Ids, Rules!Range
<1>6. QED
  BY <1>1, <1>4, <1>5, IdsAreMessages

\* A message that is posted is the only one that comes into view.
LEMMA RoomGrows ==
    ASSUME Rules!TypeOK, NEW m \in RuleMessage, Rules!PostMessage(m)
    PROVE  /\ posted' \in [RuleRoom -> Seq(RuleMessage)] /\ ~Rules!There(m)
           /\ \A r \in RuleRoom : /\ Rules!Newest(r, RuleFetch)' \subseteq Rules!Newest(r, RuleFetch) \cup {m}
                                  /\ Rules!Ids(posted'[r]) = Rules!Ids(posted[r]) \cup
                                                                (IF r = RuleRoomOf[m] THEN {m} ELSE {})
<1> DEFINE home == RuleRoomOf[m]
           longer == Append(posted[home], m)
<1>1. /\ ~Rules!There(m) /\ posted' = [posted EXCEPT ![home] = longer]
      /\ home \in RuleRoom /\ posted \in [RuleRoom -> Seq(RuleMessage)] /\ RuleFetch \in Nat
  BY MessageAssumptions DEF Rules!PostMessage, Rules!TypeOK, Rules!AutomationAssumption
<1>2. longer \in Seq(RuleMessage) /\ Rules!Ids(longer) = Rules!Ids(posted[home]) \cup {m}
  BY <1>1, IdsAppended
<1>3. /\ Len(posted[home]) \in Nat /\ Len(longer) = Len(posted[home]) + 1 /\ longer[Len(longer)] = m
      /\ \A k \in 1..Len(posted[home]) : longer[k] = posted[home][k]
  BY <1>1, AppendProperties
<1> HIDE DEF longer, home
<1>4. /\ posted' \in [RuleRoom -> Seq(RuleMessage)] /\ posted'[home] = longer
      /\ \A r \in RuleRoom \ {home} : posted'[r] = posted[r]
  BY <1>1, <1>2
<1>5. Rules!Newest(home, RuleFetch)' \subseteq Rules!Newest(home, RuleFetch) \cup {m}
  <2>1. Rules!Newest(home, RuleFetch)' = {longer[k] : k \in {l \in 1..Len(longer) : l + RuleFetch > Len(longer)}}
    BY <1>4 DEF Rules!Newest
  <2> SUFFICES ASSUME NEW k \in 1..Len(longer), k + RuleFetch > Len(longer)
               PROVE  longer[k] = m \/ longer[k] \in Rules!Newest(home, RuleFetch)
    BY <2>1
  <2>2. CASE k = Len(longer)
    BY <1>3, <2>2
  <2>3. CASE k # Len(longer)
    <3>1. k \in 1..Len(posted[home]) /\ k + RuleFetch > Len(posted[home])
      BY <1>1, <1>3, <2>3
    <3>2. QED
      BY <1>3, <3>1 DEF Rules!Newest
  <2>4. QED
    BY <2>2, <2>3
<1>6. ASSUME NEW r \in RuleRoom \ {home}
      PROVE  Rules!Newest(r, RuleFetch)' = Rules!Newest(r, RuleFetch) /\ Rules!Ids(posted'[r]) = Rules!Ids(posted[r])
  BY <1>4 DEF Rules!Newest
<1>7. QED
  BY <1>1, <1>2, <1>4, <1>5, <1>6 DEF home

\* Every variable of the rule engine keeps its type.
LEMMA RulesTypeStep == Rules!TypeOK /\ Taken /\ Watching
    /\ [Rules!Next]_(Rules!automationVars) => Rules!TypeOK'
  <1> SUFFICES ASSUME Rules!TypeOK, Taken, Watching,
                      [Rules!Next]_(Rules!automationVars)
               PROVE Rules!TypeOK'
    OBVIOUS
  <1> USE MessageAssumptions DEF Rules!AutomationAssumption, Rules!TypeOK, Rules!Stages,
         Rules!None, Taken, Watching
  <1>1. CASE Rules!Start
    BY <1>1 DEF Rules!Start, Rules!Adopts
  <1>2. CASE Rules!MarkSeeded
    BY <1>2 DEF Rules!MarkSeeded
  <1>3. CASE Rules!MarkUnsaved
    <2>1. booting' \in BOOLEAN /\ ready' \in BOOLEAN /\ hot' \in BOOLEAN
          /\ muted' \in BOOLEAN /\ recent' \in BOOLEAN
      BY <1>3 DEF Rules!MarkUnsaved, Rules!Mishap, Rules!Stopped, Rules!PollFailed
    <2>2. /\ ruleStage' \in Rules!Stages /\ cur' \in {Rules!None} \cup RuleRoom \cup RuleMessage
          /\ ruleBatch' \subseteq RuleMessage /\ seeded' \subseteq RuleRoom /\ todo' \subseteq RuleRoom
      BY <1>3 DEF Rules!MarkUnsaved, Rules!Mishap, Rules!Stopped, Rules!PollFailed
    <2>6. ruleSeen' \in Seq(RuleMessage)
      BY <1>3, NoneSeen DEF Rules!MarkUnsaved, Rules!Stopped
    <2>3. ruleMishaps' \in 0..AutomationMishaps
      BY <1>3 DEF Rules!MarkUnsaved, Rules!Mishap, Rules!Stopped, Rules!PollFailed
    <2>4. UNCHANGED <<posted, rooms, ruleSeenFile, seededFile, done, old, adopted, ruleForgotten>>
      BY <1>3 DEF Rules!MarkUnsaved, Rules!Mishap, Rules!Stopped, Rules!PollFailed
    <2>5. QED
      BY <2>1, <2>2, <2>3, <2>4, <2>6
  <1>4. CASE Rules!SeedDone
    BY <1>4 DEF Rules!SeedDone
  <1>5. ASSUME NEW r \in RuleRoom, Rules!SeedRoom(r) PROVE Rules!TypeOK'
    <2>1. ruleSeen' \in Seq(RuleMessage) /\ Rules!Saved(ruleSeen')
      BY <1>5, RoomSeeds DEF Rules!SeedRoom
    <2>2. ruleSeenFile' \in Seq(RuleMessage) /\ ruleForgotten' \subseteq RuleMessage
      BY <2>1, RulesFileSaved, IdsAreMessages
    <2>3. QED
      BY <1>5, <2>1, <2>2 DEF Rules!SeedRoom
  <1>6. ASSUME NEW r \in RuleRoom, Rules!SeedUnread(r) PROVE Rules!TypeOK'
    BY <1>6 DEF Rules!SeedUnread, Rules!Mishap
  <1>7. ASSUME NEW r \in RuleRoom, Rules!SeedUnsaved(r) PROVE Rules!TypeOK'
    <2>1. booting' \in BOOLEAN /\ ready' \in BOOLEAN /\ hot' \in BOOLEAN
          /\ muted' \in BOOLEAN /\ recent' \in BOOLEAN
      BY <1>7 DEF Rules!SeedUnsaved, Rules!Mishap, Rules!Stopped,
         Rules!PollFailed
    <2>2. /\ ruleStage' \in Rules!Stages /\ cur' \in {Rules!None} \cup RuleRoom \cup RuleMessage
          /\ ruleBatch' \subseteq RuleMessage /\ seeded' \subseteq RuleRoom /\ todo' \subseteq RuleRoom
      BY <1>7 DEF Rules!SeedUnsaved, Rules!Mishap, Rules!Stopped,
         Rules!PollFailed
    <2>6. ruleSeen' \in Seq(RuleMessage)
      <3>1. Rules!SeeNewest(r) => ruleSeen' \in Seq(RuleMessage)
        BY RoomSeeds
      <3>2. QED
        BY <1>7, <3>1, NoneSeen DEF Rules!SeedUnsaved, Rules!Stopped
    <2>3. ruleMishaps' \in 0..AutomationMishaps
      BY <1>7 DEF Rules!SeedUnsaved, Rules!Mishap, Rules!Stopped,
         Rules!PollFailed
    <2>4. UNCHANGED <<posted, rooms, ruleSeenFile, seededFile, done, old, adopted, ruleForgotten>>
      BY <1>7 DEF Rules!SeedUnsaved, Rules!Mishap, Rules!Stopped,
         Rules!PollFailed
    <2>5. QED
      BY <2>1, <2>2, <2>3, <2>4, <2>6
  <1>8. ASSUME NEW r \in RuleRoom, Rules!ReadRoom(r) PROVE Rules!TypeOK'
    <2>1. Rules!Newest(r, RuleFetch) \subseteq RuleMessage
      BY NewestThere
    <2>2. QED
      BY <1>8, <2>1 DEF Rules!ReadRoom
  <1>9. CASE Rules!PollStart
    BY <1>9 DEF Rules!PollStart
  <1>10. CASE Rules!RunLead
    BY <1>10 DEF Rules!RunLead
  <1>11. CASE Rules!RunRule
    <2>1. done' \in [RuleMessage -> Nat]
      BY <1>11 DEF Rules!RunRule
    <2>2. ruleStage' \in Rules!Stages /\ cur' \in {Rules!None} \cup RuleRoom \cup RuleMessage
      BY <1>11 DEF Rules!RunRule
    <2>3. QED
      BY <1>11, <2>1, <2>2 DEF Rules!RunRule
  <1>12. CASE Rules!Reply
    BY <1>12 DEF Rules!Reply
  <1>13. CASE Rules!PollEnd
    <2>1. ruleSeenFile' \in Seq(RuleMessage) /\ ruleForgotten' \subseteq RuleMessage
      <3>1. CASE Rules!Saved(ruleSeen)
        BY <3>1, RulesFileSaved, IdsAreMessages
      <3>2. QED
        BY <1>13, <3>1 DEF Rules!PollEnd
    <2>2. ruleMishaps' \in 0..AutomationMishaps
      BY <1>13 DEF Rules!PollEnd, Rules!Mishap
    <2>3. QED
      BY <1>13, <2>1, <2>2 DEF Rules!PollEnd
  <1>14. ASSUME NEW m \in RuleMessage, Rules!Take(m) PROVE Rules!TypeOK'
    <2>1. ruleSeen' \in Seq(RuleMessage) /\ Rules!Saved(ruleSeen')
      BY <1>14, IdsAppended DEF Rules!Take
    <2>2. ruleSeenFile' \in Seq(RuleMessage) /\ ruleForgotten' \subseteq RuleMessage
      BY <2>1, RulesFileSaved, IdsAreMessages
    <2>3. QED
      BY <1>14, <2>1, <2>2 DEF Rules!Take
  <1>15. ASSUME NEW m \in RuleMessage, Rules!TakeUnsaved(m) PROVE Rules!TypeOK'
    BY <1>15 DEF Rules!TakeUnsaved, Rules!Mishap, Rules!PollFailed
  <1>16. ASSUME NEW m \in RuleMessage, Rules!PostMessage(m) PROVE Rules!TypeOK'
    BY <1>16 DEF Rules!PostMessage, Rules!engine
  <1>17. CASE Rules!IntervalEnds
    BY <1>17 DEF Rules!IntervalEnds
  <1>18. CASE Rules!Crash
    <2>1. booting' \in BOOLEAN /\ ready' \in BOOLEAN /\ hot' \in BOOLEAN
          /\ muted' \in BOOLEAN /\ recent' \in BOOLEAN
      BY <1>18 DEF Rules!Crash, Rules!Mishap, Rules!Stopped
    <2>2. /\ ruleStage' \in Rules!Stages /\ cur' \in {Rules!None} \cup RuleRoom \cup RuleMessage
          /\ ruleSeen' \in Seq(RuleMessage) /\ ruleBatch' \subseteq RuleMessage
          /\ seeded' \subseteq RuleRoom /\ todo' \subseteq RuleRoom
      BY <1>18 DEF Rules!Crash, Rules!Mishap, Rules!Stopped
    <2>3. ruleMishaps' \in 0..AutomationMishaps
      BY <1>18 DEF Rules!Crash, Rules!Mishap, Rules!Stopped
    <2>4. UNCHANGED <<posted, rooms, ruleSeenFile, seededFile, done, old, adopted, ruleForgotten>>
      BY <1>18 DEF Rules!Crash, Rules!Mishap, Rules!Stopped
    <2>5. QED
      BY <2>1, <2>2, <2>3, <2>4
  <1>19. CASE UNCHANGED Rules!automationVars
    BY <1>19 DEF Rules!automationVars, Rules!engine
  <1>20. QED
    BY <1>1, <1>2, <1>3, <1>4, <1>5, <1>6, <1>7, <1>8, <1>9, <1>10, <1>11, <1>12, <1>13,
       <1>14, <1>15, <1>16, <1>17, <1>18, <1>19 DEF Rules!Next

\* What is dispatched was saved as seen first.
LEMMA TakenStep == Rules!TypeOK /\ Taken /\ [Rules!Next]_(Rules!automationVars) => Taken'
  <1> SUFFICES ASSUME Rules!TypeOK, Taken, [Rules!Next]_(Rules!automationVars)
               PROVE  Taken'
    OBVIOUS
  <1>0. /\ ruleSeen \in Seq(RuleMessage) /\ done \in [RuleMessage -> Nat] /\ ruleStage \in Rules!Stages
        /\ RuleCap \in Nat \ {0} /\ ruleBatch \subseteq RuleMessage
    BY MessageAssumptions DEF Rules!TypeOK, Rules!AutomationAssumption
  <1> USE DEF Taken, RuleFile, RuleKnown
  <1>1. CASE Rules!Start
    BY <1>0, <1>1 DEF Rules!Start, Rules!Adopts
  <1>2. CASE Rules!MarkSeeded
    BY <1>0, <1>2 DEF Rules!MarkSeeded
  <1>3. CASE Rules!MarkUnsaved
    BY <1>0, <1>3 DEF Rules!MarkUnsaved, Rules!Mishap, Rules!Stopped, Rules!PollFailed
  <1>4. CASE Rules!SeedDone
    BY <1>0, <1>4 DEF Rules!SeedDone
  <1>5. ASSUME NEW r \in RuleRoom, Rules!SeedRoom(r) PROVE Taken'
    <2>1. ruleSeen' \in Seq(RuleMessage) /\ RuleKnown \subseteq RuleKnown'
      BY <1>5, RoomSeeds DEF Rules!SeedRoom
    <2>2. QED
      BY <1>0, <1>5, <2>1, RulesFileSaved DEF Rules!SeedRoom
  <1>6. ASSUME NEW r \in RuleRoom, Rules!SeedUnread(r) PROVE Taken'
    BY <1>0, <1>6 DEF Rules!SeedUnread, Rules!Mishap
  <1>7. ASSUME NEW r \in RuleRoom, Rules!SeedUnsaved(r) PROVE Taken'
    <2>1. ~booting => RuleKnown \subseteq RuleKnown'
      BY <1>7, RoomSeeds DEF Rules!SeedUnsaved
    <2>2. QED
      BY <1>7, <2>1 DEF Rules!SeedUnsaved, Rules!Mishap, Rules!Stopped, Rules!PollFailed
  <1>8. ASSUME NEW r \in RuleRoom, Rules!ReadRoom(r) PROVE Taken'
    BY <1>0, <1>8 DEF Rules!ReadRoom
  <1>9. CASE Rules!PollStart
    BY <1>0, <1>9 DEF Rules!PollStart
  <1>10. CASE Rules!RunLead
    BY <1>0, <1>10 DEF Rules!RunLead
  <1>11. CASE Rules!RunRule
    BY <1>0, <1>11 DEF Rules!RunRule
  <1>12. CASE Rules!Reply
    BY <1>0, <1>12 DEF Rules!Reply
  <1>13. CASE Rules!PollEnd
    <2>1. CASE Rules!Saved(ruleSeen)
      BY <1>0, <1>13, <2>1, RulesFileSaved DEF Rules!PollEnd
    <2>2. CASE UNCHANGED <<ruleSeenFile, ruleForgotten>>
      BY <1>0, <1>13, <2>2 DEF Rules!PollEnd
    <2>3. QED
      BY <1>13, <2>1, <2>2 DEF Rules!PollEnd
  <1>14. ASSUME NEW m \in RuleMessage, Rules!Take(m) PROVE Taken'
    <2>1. ruleSeen' \in Seq(RuleMessage) /\ RuleKnown' = RuleKnown \cup {m} /\ Rules!Saved(ruleSeen')
      BY <1>0, <1>14, IdsAppended DEF Rules!Take
    <2>2. /\ RuleFile' \subseteq RuleKnown' /\ ruleForgotten \subseteq ruleForgotten'
          /\ \A x \in RuleKnown' : x \in ruleForgotten' \/ x \in RuleFile'
      BY <1>0, <2>1, RulesFileSaved DEF RuleKnown
    <2>3. /\ RuleFile \subseteq RuleKnown /\ m \notin RuleKnown /\ ruleStage = "poll" /\ UNCHANGED done
          /\ \/ ruleStage' = "act" /\ cur' = m
             \/ ruleStage' = "poll"
          /\ ruleBatch' = ruleBatch \ {m}
      BY <1>14 DEF Rules!Take
    <2> HIDE DEF RuleFile, RuleKnown
    <2>4. \A x \in RuleMessage \ ruleForgotten' : done'[x] <= 1 /\ (done'[x] > 0 => x \in RuleFile')
      BY <2>1, <2>2, <2>3
    <2>5. m \notin ruleForgotten' => m \in RuleFile' /\ done'[m] = 0
      BY <1>0, <2>1, <2>2, <2>3
    <2>6. QED
      BY <2>1, <2>2, <2>3, <2>4, <2>5
  <1>15. ASSUME NEW m \in RuleMessage, Rules!TakeUnsaved(m) PROVE Taken'
    <2>1. RuleKnown' = RuleKnown \cup {m}
      BY <1>0, <1>15, IdsAppended DEF Rules!TakeUnsaved
    <2>2. QED
      BY <1>0, <1>15, <2>1 DEF Rules!TakeUnsaved, Rules!Mishap, Rules!PollFailed
  <1>16. ASSUME NEW m \in RuleMessage, Rules!PostMessage(m) PROVE Taken'
    BY <1>0, <1>16 DEF Rules!PostMessage, Rules!engine
  <1>17. CASE Rules!IntervalEnds
    BY <1>0, <1>17 DEF Rules!IntervalEnds
  <1>18. CASE Rules!Crash
    BY <1>0, <1>18 DEF Rules!Crash, Rules!Mishap, Rules!Stopped
  <1>19. CASE UNCHANGED Rules!automationVars
    BY <1>0, <1>19 DEF Rules!automationVars, Rules!engine
  <1>20. QED
    BY <1>1, <1>2, <1>3, <1>4, <1>5, <1>6, <1>7, <1>8, <1>9, <1>10,
       <1>11, <1>12, <1>13, <1>14, <1>15, <1>16, <1>17, <1>18, <1>19 DEF Rules!Next

\* Rooms are watched once they are configured, and served once they are seeded.
LEMMA WatchingStep == Rules!TypeOK /\ Taken /\ Watching /\ [Rules!Next]_(Rules!automationVars) => Watching'
  <1> SUFFICES ASSUME Rules!TypeOK, Taken, Watching, [Rules!Next]_(Rules!automationVars)
               PROVE  Watching'
    OBVIOUS
  <1>0. /\ rooms \subseteq RuleRoom /\ ruleStage \in Rules!Stages /\ RuleRoomOf \in [RuleMessage -> RuleRoom]
        /\ ruleBatch \cup old \subseteq RuleMessage /\ done \in [RuleMessage -> Nat]
        /\ posted' = posted => \A m : Rules!There(m)' <=> Rules!There(m)
    BY MessageAssumptions DEF Rules!TypeOK, Rules!AutomationAssumption, Rules!There
  <1> USE DEF Watching
  <1>1. CASE Rules!Start
    BY <1>0, <1>1 DEF Rules!Start, Rules!Adopts
  <1>2. CASE Rules!MarkSeeded
    BY <1>0, <1>2 DEF Rules!MarkSeeded
  <1>3. CASE Rules!MarkUnsaved
    BY <1>0, <1>3 DEF Rules!MarkUnsaved, Rules!Mishap, Rules!Stopped, Rules!PollFailed
  <1>4. CASE Rules!SeedDone
    BY <1>0, <1>4 DEF Rules!SeedDone
  <1>5. ASSUME NEW r \in RuleRoom, Rules!SeedRoom(r) PROVE Watching'
    BY <1>0, <1>5 DEF Rules!SeedRoom
  <1>6. ASSUME NEW r \in RuleRoom, Rules!SeedUnread(r) PROVE Watching'
    BY <1>0, <1>6 DEF Rules!SeedUnread, Rules!Mishap
  <1>7. ASSUME NEW r \in RuleRoom, Rules!SeedUnsaved(r) PROVE Watching'
    BY <1>0, <1>7 DEF Rules!SeedUnsaved, Rules!Mishap, Rules!Stopped, Rules!PollFailed
  <1>8. ASSUME NEW r \in RuleRoom, Rules!ReadRoom(r) PROVE Watching'
    <2>1. Rules!Newest(r, RuleFetch) \subseteq Rules!Ids(posted[r]) /\ Rules!Ids(posted[r]) \subseteq RuleMessage
      BY NewestThere
    <2>2. QED
      BY <1>0, <1>8, <2>1 DEF Rules!ReadRoom
  <1>9. CASE Rules!PollStart
    BY <1>0, <1>9 DEF Rules!PollStart
  <1>10. CASE Rules!RunLead
    BY <1>0, <1>10 DEF Rules!RunLead
  <1>11. CASE Rules!RunRule
    BY <1>0, <1>11 DEF Rules!RunRule
  <1>12. CASE Rules!Reply
    BY <1>0, <1>12 DEF Rules!Reply
  <1>13. CASE Rules!PollEnd
    BY <1>0, <1>13 DEF Rules!PollEnd
  <1>14. ASSUME NEW m \in RuleMessage, Rules!Take(m) PROVE Watching'
    BY <1>0, <1>14 DEF Rules!Take
  <1>15. ASSUME NEW m \in RuleMessage, Rules!TakeUnsaved(m) PROVE Watching'
    BY <1>0, <1>15 DEF Rules!TakeUnsaved, Rules!Mishap, Rules!PollFailed
  <1>16. ASSUME NEW m \in RuleMessage, Rules!PostMessage(m) PROVE Watching'
    <2>1. \A r \in RuleRoom : Rules!Ids(posted'[r]) = Rules!Ids(posted[r]) \cup (IF r = RuleRoomOf[m] THEN {m} ELSE {})
      BY <1>16, RoomGrows
    <2>2. \A x \in RuleMessage : Rules!There(x) => Rules!There(x)'
      BY <1>0, <2>1 DEF Rules!There
    <2>3. QED
      BY <1>0, <1>16, <2>1, <2>2 DEF Rules!PostMessage, Rules!engine
  <1>17. CASE Rules!IntervalEnds
    BY <1>0, <1>17 DEF Rules!IntervalEnds
  <1>18. CASE Rules!Crash
    BY <1>0, <1>18 DEF Rules!Crash, Rules!Mishap, Rules!Stopped
  <1>19. CASE UNCHANGED Rules!automationVars
    BY <1>0, <1>19 DEF Rules!automationVars, Rules!engine
  <1>20. QED
    BY <1>1, <1>2, <1>3, <1>4, <1>5, <1>6, <1>7, <1>8, <1>9, <1>10,
       <1>11, <1>12, <1>13, <1>14, <1>15, <1>16, <1>17, <1>18, <1>19 DEF Rules!Next

\* The history of a room is seen before the room is marked.
LEMMA HistorySeenStep == Rules!TypeOK /\ Taken /\ Watching /\ HistorySeen /\ [Rules!Next]_(Rules!automationVars) => HistorySeen'
  <1> SUFFICES ASSUME Rules!TypeOK, Taken, Watching, HistorySeen, [Rules!Next]_(Rules!automationVars)
               PROVE  HistorySeen'
    OBVIOUS
  <1>0. /\ ruleSeen \in Seq(RuleMessage) /\ done \in [RuleMessage -> Nat] /\ RuleCap \in Nat \ {0}
        /\ rooms \subseteq RuleRoom /\ RuleRoomOf \in [RuleMessage -> RuleRoom] /\ old \subseteq RuleMessage
        /\ posted' = posted => \A r : Rules!Newest(r, RuleFetch)' = Rules!Newest(r, RuleFetch)
    BY MessageAssumptions DEF Rules!TypeOK, Rules!AutomationAssumption, Rules!Newest
  <1> USE DEF HistorySeen, Marked, RuleFile
  <1>1. CASE Rules!Start
    BY <1>0, <1>1 DEF Rules!Start, Rules!Adopts, Taken, Watching
  <1>2. CASE Rules!MarkSeeded
    BY <1>0, <1>2 DEF Rules!MarkSeeded
  <1>3. CASE Rules!MarkUnsaved
    BY <1>0, <1>3 DEF Rules!MarkUnsaved, Rules!Mishap, Rules!Stopped, Rules!PollFailed
  <1>4. CASE Rules!SeedDone
    BY <1>0, <1>4 DEF Rules!SeedDone
  <1>5. ASSUME NEW r \in RuleRoom, Rules!SeedRoom(r) PROVE HistorySeen'
    <2>1. /\ ruleSeen' \in Seq(RuleMessage) /\ RuleKnown' = RuleKnown \cup Rules!Newest(r, RuleSeed)
          /\ Rules!Newest(r, RuleFetch) \subseteq Rules!Newest(r, RuleSeed)
      BY <1>5, RoomSeeds, NewestThere DEF Rules!SeedRoom
    <2>2. QED
      BY <1>0, <1>5, <2>1, RulesFileSaved DEF Rules!SeedRoom, Taken, RuleKnown
  <1>6. ASSUME NEW r \in RuleRoom, Rules!SeedUnread(r) PROVE HistorySeen'
    BY <1>0, <1>6 DEF Rules!SeedUnread, Rules!Mishap
  <1>7. ASSUME NEW r \in RuleRoom, Rules!SeedUnsaved(r) PROVE HistorySeen'
    BY <1>0, <1>7 DEF Rules!SeedUnsaved, Rules!Mishap, Rules!Stopped, Rules!PollFailed
  <1>8. ASSUME NEW r \in RuleRoom, Rules!ReadRoom(r) PROVE HistorySeen'
    <2>1. Rules!Newest(r, RuleFetch) \subseteq Rules!Ids(posted[r])
      BY NewestThere
    <2>2. QED
      BY <1>0, <1>8, <2>1 DEF Rules!ReadRoom, Taken, Watching, RuleKnown
  <1>9. CASE Rules!PollStart
    BY <1>0, <1>9 DEF Rules!PollStart
  <1>10. CASE Rules!RunLead
    BY <1>0, <1>10 DEF Rules!RunLead
  <1>11. CASE Rules!RunRule
    BY <1>0, <1>11 DEF Rules!RunRule
  <1>12. CASE Rules!Reply
    BY <1>0, <1>12 DEF Rules!Reply
  <1>13. CASE Rules!PollEnd
    <2>1. CASE Rules!Saved(ruleSeen)
      BY <1>0, <1>13, <2>1, RulesFileSaved DEF Rules!PollEnd, Taken, RuleKnown
    <2>2. CASE UNCHANGED <<ruleSeenFile, ruleForgotten>>
      BY <1>0, <1>13, <2>2 DEF Rules!PollEnd
    <2>3. QED
      BY <1>13, <2>1, <2>2 DEF Rules!PollEnd
  <1>14. ASSUME NEW m \in RuleMessage, Rules!Take(m) PROVE HistorySeen'
    <2>1. ruleSeen' \in Seq(RuleMessage) /\ RuleKnown' = RuleKnown \cup {m} /\ Rules!Saved(ruleSeen')
      BY <1>0, <1>14, IdsAppended DEF Rules!Take, RuleKnown
    <2>2. /\ RuleFile' \subseteq RuleKnown' /\ ruleForgotten \subseteq ruleForgotten'
          /\ \A x \in RuleKnown' : x \in ruleForgotten' \/ x \in RuleFile'
      BY <1>0, <2>1, RulesFileSaved DEF RuleKnown
    <2>3. /\ RuleFile \subseteq RuleKnown /\ ruleStage = "poll"
          /\ UNCHANGED <<done, posted, old, adopted, seeded, seededFile>>
          /\ \/ ruleStage' = "act" /\ cur' = m
             \/ ruleStage' = "poll"
          /\ m \in ruleBatch /\ ruleBatch' = ruleBatch \ {m}
      BY <1>14 DEF Rules!Take, Taken, RuleFile, RuleKnown
    <2> HIDE DEF RuleFile
    <2>4. QED
      BY <1>0, <2>1, <2>2, <2>3
  <1>15. ASSUME NEW m \in RuleMessage, Rules!TakeUnsaved(m) PROVE HistorySeen'
    BY <1>0, <1>15 DEF Rules!TakeUnsaved, Rules!Mishap, Rules!PollFailed
  <1>16. ASSUME NEW m \in RuleMessage, Rules!PostMessage(m) PROVE HistorySeen'
    <2>1. /\ ~Rules!There(m)
          /\ \A r \in RuleRoom : Rules!Newest(r, RuleFetch)' \subseteq Rules!Newest(r, RuleFetch) \cup {m}
      BY <1>16, RoomGrows
    <2>2. QED
      BY <1>0, <1>16, <2>1 DEF Rules!PostMessage, Rules!engine, Watching
  <1>17. CASE Rules!IntervalEnds
    BY <1>0, <1>17 DEF Rules!IntervalEnds
  <1>18. CASE Rules!Crash
    BY <1>0, <1>18 DEF Rules!Crash, Rules!Mishap, Rules!Stopped
  <1>19. CASE UNCHANGED Rules!automationVars
    BY <1>0, <1>19 DEF Rules!automationVars, Rules!engine
  <1>20. QED
    BY <1>1, <1>2, <1>3, <1>4, <1>5, <1>6, <1>7, <1>8, <1>9, <1>10,
       <1>11, <1>12, <1>13, <1>14, <1>15, <1>16, <1>17, <1>18, <1>19 DEF Rules!Next

\* Types, and what the dispatch rests on, hold throughout.
LEMMA RulesInvariant ==
    Rules!AutomationSpec => [](Rules!TypeOK /\ Taken /\ Watching /\ HistorySeen)
<1>1. Rules!Init => Rules!TypeOK
  <2> SUFFICES ASSUME Rules!Init PROVE Rules!TypeOK
    OBVIOUS
  <2>1. AutomationMishaps \in Nat
    BY MessageAssumptions DEF Rules!AutomationAssumption
  <2>2. ruleMishaps \in 0..AutomationMishaps /\ done \in [RuleMessage -> Nat]
    BY <2>1 DEF Rules!Init
  <2>3. {booting, ready, hot, muted, recent} \subseteq BOOLEAN
    BY DEF Rules!Init
  <2>4. QED
    BY <2>2, <2>3 DEF Rules!Init, Rules!TypeOK, Rules!Stages
<1>2. Rules!Init => Taken /\ Watching /\ HistorySeen
  BY NoneSeen, MessageAssumptions DEF Rules!AutomationAssumption, Rules!Init, Taken, Watching, HistorySeen
<1>3. QED
  BY <1>1, <1>2, RulesTypeStep, TakenStep, WatchingStep, HistorySeenStep, PTL
     DEF Rules!AutomationSpec

\* A message is dispatched at most once, through crashes, failed saves and restarts, unless the
\* rooms together pushed its id out of the seen file.
THEOREM RulesDispatchOnce == PartsSpec => []DispatchedOnce
<1>1. Taken => DispatchedOnce
  BY DEF Taken, DispatchedOnce, Rules!DispatchedOnce
<1>2. QED
  BY <1>1, RulesPart, RulesInvariant, PTL

\* History is dispatched only in a room the engine took as seeded from a seen file that
\* has no marker beside it, or after its id was pushed out of the seen file.
THEOREM RulesGuardHistory == PartsSpec => []HistoryGuarded
<1>1. HistorySeen => HistoryGuarded
  BY DEF HistorySeen, HistoryGuarded, Rules!HistoryGuarded
<1>2. QED
  BY <1>1, RulesPart, RulesInvariant, PTL

-----------------------------------------------------------------------------
(* Sending to a session: src/session-send.mjs *)

\* A behaviour of the parts is one of the sending, which moves or stands still.
LEMMA SendsPart == PartsSpec => Sends!SendSpec
<1>1. PartsInit => Sends!Init
  BY DEF PartsInit
<1>2. [PartsNext]_partsVars => [Sends!Next]_(Sends!sendVars)
  BY DEF PartsNext, partsVars, messageVars, sendVars, Sends!sendVars
<1>3. QED
  BY <1>1, <1>2, PTL DEF PartsSpec, Sends!SendSpec

HopOf == [at : Daemon, is : Sends!States]
SendTypes ==
    /\ hops \in [SendRequest -> Seq(HopOf)]
    /\ \A r \in SendRequest : Len(hops[r]) <= MaxForwardHops + 1
    /\ line \in [Daemon -> SUBSET SendRequest]
    /\ submitted \subseteq SendRequest /\ spawned \subseteq SendRequest
    /\ cleared \subseteq SendRequest /\ keys \in 0..MaxKeys

Gone(r) == r \in submitted \cup spawned \cup cleared
Nowhere(r) == ~Gone(r) /\ \A d \in Daemon : r \notin line[d]

\* A text is typed at the last hop, and nowhere before; what stands on a line stands on
\* that one only; and every hop that says ok says so of a text that has gone.
HopSound(r, k) ==
    /\ hops[r][k].is \in {"received", "typed"} => k = Len(hops[r])
    /\ hops[r][k].is = "received" => Nowhere(r)
    /\ hops[r][k].is = "typed" => r \in line[hops[r][k].at] \/ Gone(r)
    /\ hops[r][k].is = "waiting" => k < Len(hops[r])
    /\ hops[r][k].is = "ok" => Gone(r)
DeliveryOf(r) ==
    /\ hops[r] = << >> => Nowhere(r)
    /\ \A k \in 1..Len(hops[r]) : HopSound(r, k)
    /\ \A d \in Daemon : r \in line[d] =>
          ~Gone(r) /\ \A e \in Daemon : r \in line[e] => e = d
Delivery == \A r \in SendRequest : DeliveryOf(r)

\* A hop takes a new state, the other hops and requests stay.
LEMMA HopBecomes ==
    ASSUME SendTypes, NEW r \in SendRequest, NEW k \in 1..Len(hops[r]),
           NEW st \in Sends!States, Sends!Becomes(r, k, st)
    PROVE  /\ hops' \in [SendRequest -> Seq(HopOf)]
           /\ \A q \in SendRequest \ {r} : hops'[q] = hops[q]
           /\ Len(hops'[r]) = Len(hops[r])
           /\ \A j \in 1..Len(hops[r]) :
                 /\ hops'[r][j].at = hops[r][j].at
                 /\ hops'[r][j].is = IF j = k THEN st ELSE hops[r][j].is
  <1> DEFINE hop == [hops[r][k] EXCEPT !.is = st]
  <1>1. hops[r] \in Seq(HopOf) /\ hops[r][k] \in HopOf
    BY ElementOfSeq DEF SendTypes
  <1>2. hop \in HopOf /\ hop.at = hops[r][k].at /\ hop.is = st
    BY <1>1 DEF HopOf
  <1>3. hops' = [hops EXCEPT ![r] = [hops[r] EXCEPT ![k] = hop]]
    BY DEF Sends!Becomes
  <1> HIDE DEF hop
  <1>4. /\ [hops[r] EXCEPT ![k] = hop] \in Seq(HopOf)
        /\ Len([hops[r] EXCEPT ![k] = hop]) = Len(hops[r])
        /\ \A j \in 1..Len(hops[r]) :
              [hops[r] EXCEPT ![k] = hop][j] = IF j = k THEN hop ELSE hops[r][j]
    BY <1>1, <1>2, ExceptSeq
  <1> DEFINE new == [hops[r] EXCEPT ![k] = hop]
  <1>5. /\ new \in Seq(HopOf) /\ Len(new) = Len(hops[r]) /\ hops' = [hops EXCEPT ![r] = new]
        /\ \A j \in 1..Len(hops[r]) : new[j] = IF j = k THEN hop ELSE hops[r][j]
    BY <1>3, <1>4
  <1> HIDE DEF new
  <1>6. hops' \in [SendRequest -> Seq(HopOf)] /\ hops'[r] = new
        /\ \A q \in SendRequest \ {r} : hops'[q] = hops[q]
    BY <1>5 DEF SendTypes
  <1>7. QED
    BY <1>2, <1>5, <1>6

\* A request whose hops stay, and whose text at most moves from a line to where it is
\* gone, stays sound.
LEMMA DeliveryKept ==
    ASSUME NEW r \in SendRequest, DeliveryOf(r), hops'[r] = hops[r],
           Gone(r) => Gone(r)',
           \A d \in Daemon : r \in line[d] => r \in line'[d] \/ Gone(r)',
           \A d \in Daemon : r \in line'[d] => r \in line[d] /\ ~Gone(r)',
           Nowhere(r) => ~Gone(r)',
           \A k \in 1..Len(hops[r]) : hops[r][k].at \in Daemon
    PROVE  DeliveryOf(r)'
  <1>1. Nowhere(r) => Nowhere(r)'
    BY DEF Nowhere
  <1>2. ASSUME NEW k \in 1..Len(hops[r]), HopSound(r, k) PROVE HopSound(r, k)'
    BY <1>1, <1>2 DEF HopSound
  <1>3. QED
    BY <1>1, <1>2 DEF DeliveryOf

\* A hop that is done with, or has typed its text, keeps the delivery sound if the text
\* is where that state says.
LEMMA HopKept ==
    ASSUME SendTypes, Delivery, NEW r \in SendRequest, NEW k \in 1..Len(hops[r]),
           NEW st \in {"typed", "ok", "failed"}, Sends!Becomes(r, k, st),
           \A q \in SendRequest : Gone(q) => Gone(q)',
           \A q \in SendRequest, d \in Daemon : q \in line[d] => q \in line'[d] \/ Gone(q)',
           \A q \in SendRequest \ {r}, d \in Daemon :
              q \in line'[d] => q \in line[d] /\ ~Gone(q)',
           \A q \in SendRequest \ {r} : Nowhere(q) => ~Gone(q)',
           \A d \in Daemon : r \in line'[d] =>
              ~Gone(r)' /\ \A e \in Daemon : r \in line'[e] => e = d,
           st = "ok" => Gone(r)',
           st = "typed" => r \in line'[hops[r][k].at] /\ k = Len(hops[r]),
           \/ hops[r][k].is \in {"received", "typed"}
           \/ UNCHANGED <<line, submitted, spawned, cleared>>
    PROVE  Delivery'
  <1>1. /\ \A q \in SendRequest \ {r} : hops'[q] = hops[q]
        /\ Len(hops'[r]) = Len(hops[r]) /\ hops' \in [SendRequest -> Seq(HopOf)]
        /\ \A j \in 1..Len(hops[r]) :
              /\ hops'[r][j].at = hops[r][j].at
              /\ hops'[r][j].is = IF j = k THEN st ELSE hops[r][j].is
    BY HopBecomes DEF Sends!States, Sends!Answered
  <1>2. ASSUME NEW q \in SendRequest, NEW j \in 1..Len(hops[q]) PROVE hops[q][j].at \in Daemon
    <2>1. hops[q] \in Seq(HopOf)
      BY DEF SendTypes
    <2>2. hops[q][j] \in HopOf
      BY <2>1, ElementOfSeq
    <2>3. QED
      BY <2>2 DEF HopOf
  <1>3. ASSUME NEW q \in SendRequest \ {r} PROVE DeliveryOf(q)'
    BY <1>1, <1>2, DeliveryKept DEF Delivery
  <1>4. DeliveryOf(r)'
    <2>1. Len(hops[r]) \in Nat /\ Len(hops[r]) # 0 /\ hops[r] \in Seq(HopOf)
          /\ hops'[r] \in Seq(HopOf)
      BY <1>1, LenProperties DEF SendTypes
    <2>2. hops'[r] # << >>
      BY <1>1, <2>1, EmptySeq
    <2>3. ASSUME NEW j \in 1..Len(hops[r]) PROVE HopSound(r, j)'
      <3>1. HopSound(r, j) /\ HopSound(r, k)
        BY DEF Delivery, DeliveryOf
      <3>2. CASE j = k
        BY <1>1, <1>2, <3>2 DEF HopSound
      <3>3. CASE j # k
        <4>1. /\ hops'[r][j].at = hops[r][j].at /\ hops'[r][j].is = hops[r][j].is
              /\ hops[r][j].at \in Daemon
          BY <1>1, <1>2, <3>3
        <4>2. CASE hops[r][k].is \in {"received", "typed"}
          <5>1. hops[r][j].is \notin {"received", "typed"}
            BY <3>1, <3>3, <4>2 DEF HopSound
          <5>2. QED
            BY <1>1, <3>1, <4>1, <5>1 DEF HopSound
        <4>3. CASE UNCHANGED <<line, submitted, spawned, cleared>>
          BY <1>1, <3>1, <4>1, <4>3 DEF HopSound, Nowhere, Gone
        <4>4. QED
          BY <4>2, <4>3
      <3>4. QED
        BY <3>2, <3>3
    <2>4. QED
      BY <1>1, <2>2, <2>3 DEF DeliveryOf
  <1>5. QED
    BY <1>3, <1>4 DEF Delivery

\* Every step keeps the types and the delivery sound.
LEMMA DeliveryStep ==
    ASSUME SendTypes, Delivery, [Sends!Next]_(Sends!sendVars)
    PROVE  SendTypes' /\ Delivery'
  <1> USE MessageAssumptions DEF Sends!SendAssumption
  <1>0. /\ MaxForwardHops \in Nat /\ MaxKeys \in Nat
        /\ \A r \in SendRequest : Origin[r] \in Daemon /\ Len(hops[r]) \in Nat
    BY LenProperties DEF SendTypes
  <1>a. ASSUME NEW r \in SendRequest, NEW k \in 1..Len(hops[r])
        PROVE  HopSound(r, k) /\ DeliveryOf(r) /\ hops[r][k].at \in Daemon
    <2>1. hops[r] \in Seq(HopOf)
      BY DEF SendTypes
    <2>2. hops[r][k] \in HopOf
      BY <2>1, ElementOfSeq
    <2>3. QED
      BY <2>2 DEF HopOf, Delivery, DeliveryOf
  <1>b. ASSUME NEW r \in SendRequest, NEW k \in 1..Len(hops[r]),
               NEW st \in {"typed", "ok", "failed"}, Sends!Becomes(r, k, st),
               line' \in [Daemon -> SUBSET SendRequest], submitted' \subseteq SendRequest,
               spawned' \subseteq SendRequest, cleared' = cleared, keys' = keys
        PROVE  SendTypes'
    BY <1>b, HopBecomes DEF SendTypes, Sends!States, Sends!Answered
  <1>1. ASSUME NEW r \in SendRequest, Sends!Send(r) PROVE SendTypes' /\ Delivery'
    <2> DEFINE first == Sends!Hop(Origin[r], "received")
    <2>1. first \in HopOf /\ first.is = "received" /\ first.at \in Daemon
      BY <1>0 DEF Sends!Hop, HopOf, Sends!States
    <2> HIDE DEF first
    <2>2. <<first>> \in Seq(HopOf) /\ Len(<<first>>) = 1 /\ <<first>>[1] = first
      BY <2>1
    <2>3. /\ hops' = [hops EXCEPT ![r] = <<first>>] /\ hops[r] = << >>
          /\ UNCHANGED <<line, submitted, spawned, cleared, keys>>
      BY <1>1 DEF Sends!Send, first
    <2>4. /\ hops' \in [SendRequest -> Seq(HopOf)] /\ hops'[r] = <<first>>
          /\ \A q \in SendRequest \ {r} : hops'[q] = hops[q]
      BY <2>2, <2>3 DEF SendTypes
    <2>5. SendTypes'
      BY <1>0, <2>2, <2>3, <2>4 DEF SendTypes
    <2>6. ASSUME NEW q \in SendRequest \ {r} PROVE DeliveryOf(q)'
      <3>1. hops'[q] = hops[q] /\ DeliveryOf(q)
        BY <2>4 DEF Delivery
      <3>2. QED
        BY <1>a, <2>3, <3>1, DeliveryKept DEF DeliveryOf, Nowhere, Gone
    <2>7. DeliveryOf(r)'
      <3>1. Nowhere(r) /\ Nowhere(r)'
        BY <2>3 DEF Delivery, DeliveryOf, Nowhere, Gone
      <3>2. HopSound(r, 1)'
        BY <2>1, <2>2, <2>4, <3>1 DEF HopSound
      <3>3. QED
        BY <2>2, <2>4, <3>1, <3>2 DEF DeliveryOf, Nowhere
    <2>8. QED
      BY <2>5, <2>6, <2>7 DEF Delivery
  <1>2. ASSUME NEW r \in SendRequest, NEW k \in 1..MaxForwardHops + 1,
               Sends!Refuse(r, k) \/ Sends!Spawn(r, k) \/ Sends!Type(r, k) \/ Sends!Submit(r, k)
               \/ Sends!Return(r, k) \/ Sends!GivesUp(r, k)
        PROVE  SendTypes' /\ Delivery'
    <2>1. k \in 1..Len(hops[r])
      BY <1>2 DEF Sends!Refuse, Sends!Spawn, Sends!Type, Sends!Submit, Sends!Return,
         Sends!GivesUp, Sends!Is, Sends!Last
    <2>2. DeliveryOf(r) /\ HopSound(r, k) /\ hops[r][k].at \in Daemon
      BY <1>a, <2>1
    <2>3. CASE Sends!Refuse(r, k) \/ Sends!GivesUp(r, k)
      <3>1. /\ Sends!Becomes(r, k, "failed")
            /\ UNCHANGED <<line, submitted, spawned, cleared, keys>>
        BY <2>3 DEF Sends!Refuse, Sends!GivesUp
      <3>2. SendTypes'
        BY <1>b, <2>1, <3>1 DEF SendTypes
      <3>3. QED
        BY <2>1, <3>1, <3>2, HopKept DEF Delivery, DeliveryOf, Nowhere, Gone
    <2>4. CASE Sends!Spawn(r, k)
      <3>1. PICK st \in {"ok", "failed"} :
               /\ Sends!Becomes(r, k, st)
               /\ spawned' = IF st = "ok" THEN spawned \cup {r} ELSE spawned
        BY <2>4 DEF Sends!Spawn
      <3>2. UNCHANGED <<line, submitted, cleared, keys>> /\ hops[r][k].is = "received"
        BY <2>4 DEF Sends!Spawn, Sends!Is
      <3>3. Nowhere(r)
        BY <2>2, <3>2 DEF HopSound
      <3>4. SendTypes'
        BY <1>b, <2>1, <3>1, <3>2 DEF SendTypes
      <3>5. QED
        BY <2>1, <3>1, <3>2, <3>3, <3>4, HopKept DEF Delivery, DeliveryOf, Nowhere, Gone
    <2>5. CASE Sends!Type(r, k)
      <3>1. PICK st \in {"typed", "failed"} :
               /\ Sends!Becomes(r, k, st)
               /\ line' = IF st = "typed"
                          THEN [line EXCEPT ![hops[r][k].at] = @ \cup {r}] ELSE line
        BY <2>5 DEF Sends!Type
      <3>2. UNCHANGED <<submitted, spawned, cleared, keys>> /\ hops[r][k].is = "received"
        BY <2>5 DEF Sends!Type, Sends!Is
      <3>3. Nowhere(r) /\ k = Len(hops[r])
        BY <2>2, <3>2 DEF HopSound
      <3>4. /\ line' \in [Daemon -> SUBSET SendRequest]
            /\ st = "typed" => r \in line'[hops[r][k].at]
            /\ \A q \in SendRequest, d \in Daemon : q \in line[d] => q \in line'[d]
            /\ \A q \in SendRequest, d \in Daemon :
                  q \in line'[d] => q \in line[d] \/ (q = r /\ d = hops[r][k].at)
        BY <2>2, <3>1 DEF SendTypes
      <3>5. SendTypes'
        BY <1>b, <2>1, <3>1, <3>2, <3>4 DEF SendTypes
      <3>6. QED
        BY <2>1, <3>1, <3>2, <3>3, <3>4, <3>5, HopKept
           DEF Delivery, DeliveryOf, Nowhere, Gone
    <2>6. CASE Sends!Submit(r, k)
      <3> DEFINE d == hops[r][k].at
      <3>1. PICK st \in {"ok", "failed"} :
               /\ Sends!Becomes(r, k, st)
               /\ IF st = "ok"
                  THEN submitted' = submitted \cup line[d] /\ line' = [line EXCEPT ![d] = {}]
                  ELSE UNCHANGED <<submitted, line>>
        BY <2>6 DEF Sends!Submit
      <3>2. UNCHANGED <<spawned, cleared, keys>> /\ hops[r][k].is = "typed"
        BY <2>6 DEF Sends!Submit, Sends!Is
      <3>3. r \in line[d] \/ Gone(r)
        BY <2>2, <3>2 DEF HopSound
      <3>4. /\ line' \in [Daemon -> SUBSET SendRequest] /\ submitted' \subseteq SendRequest
            /\ \A q \in SendRequest, e \in Daemon :
                  /\ q \in line'[e] => q \in line[e] /\ (st = "ok" => e # d)
                  /\ q \in line[e] => q \in line'[e] \/ q \in submitted'
        BY <2>2, <3>1 DEF SendTypes
      <3>5. SendTypes'
        BY <1>b, <2>1, <3>1, <3>2, <3>4 DEF SendTypes
      <3>6. \A q \in SendRequest, e \in Daemon : q \in line'[e] => ~Gone(q)'
        BY <2>2, <3>1, <3>2, <3>4 DEF Delivery, DeliveryOf, Gone
      <3>7. \A q \in SendRequest : (Gone(q) => Gone(q)') /\ (Nowhere(q) => ~Gone(q)')
        BY <2>2, <3>1, <3>2 DEF Gone, Nowhere
      <3>8. st = "ok" => Gone(r)'
        BY <3>1, <3>2, <3>3 DEF Gone
      <3>9. \A q \in SendRequest, e \in Daemon : q \in line[e] => q \in line'[e] \/ Gone(q)'
        BY <3>4 DEF Gone
      <3>10. \A e, f \in Daemon : r \in line'[e] /\ r \in line'[f] => e = f
        BY <2>2, <3>4 DEF DeliveryOf
      <3>11. QED
        BY <2>1, <3>1, <3>2, <3>4, <3>5, <3>6, <3>7, <3>8, <3>9, <3>10, HopKept
    <2>7. CASE Sends!Return(r, k)
      <3>1. PICK st \in {hops[r][k + 1].is, "failed"} :
               /\ Sends!Becomes(r, k, st) /\ hops[r][k].is = "waiting"
               /\ hops[r][k + 1].is \in {"ok", "failed"}
               /\ UNCHANGED <<line, submitted, spawned, cleared, keys>>
        BY <2>7 DEF Sends!Return, Sends!Is, Sends!Answered
      <3>2. k + 1 \in 1..Len(hops[r])
        BY <1>0, <2>1, <2>2, <3>1 DEF HopSound
      <3>3. st = "ok" => Gone(r)
        BY <1>a, <3>1, <3>2 DEF HopSound
      <3>4. st \in {"ok", "failed"}
        BY <3>1
      <3>5. SendTypes'
        BY <1>b, <2>1, <3>1, <3>4 DEF SendTypes
      <3>6. QED
        BY <2>1, <3>1, <3>3, <3>4, <3>5, HopKept DEF Delivery, DeliveryOf, Nowhere, Gone
    <2>8. QED
      BY <1>2, <2>3, <2>4, <2>5, <2>6, <2>7
  <1>3. ASSUME NEW r \in SendRequest, NEW k \in 1..MaxForwardHops, Sends!Forward(r, k)
        PROVE  SendTypes' /\ Delivery'
    <2>1. /\ k \in 1..Len(hops[r]) /\ hops[r][k].is = "received" /\ k <= MaxForwardHops
          /\ Sends!How(r, k) \in Daemon
          /\ UNCHANGED <<line, submitted, spawned, cleared, keys>>
      BY <1>3 DEF Sends!Forward, Sends!Is, Sends!Last
    <2>2. DeliveryOf(r) /\ Nowhere(r) /\ k = Len(hops[r])
      BY <1>a, <2>1 DEF HopSound
    <2>3. CASE Sends!Becomes(r, k, "failed")
      <3>1. SendTypes'
        BY <1>b, <2>1, <2>3 DEF SendTypes
      <3>2. QED
        BY <2>1, <2>3, <3>1, HopKept DEF Delivery, DeliveryOf, Nowhere, Gone
    <2>4. CASE ~Sends!Becomes(r, k, "failed")
      <3> DEFINE waits == [hops[r][k] EXCEPT !.is = "waiting"]
                 next == Sends!Hop(Sends!How(r, k), "received")
                 old_ == [hops[r] EXCEPT ![k] = waits]
                 new == Append(old_, next)
      <3>1. hops' = [hops EXCEPT ![r] = new]
        BY <1>3, <2>4 DEF Sends!Forward, Sends!Becomes
      <3>2. hops[r] \in Seq(HopOf)
        BY DEF SendTypes
      <3>3. hops[r][k] \in HopOf
        BY <2>1, <3>2, ElementOfSeq
      <3>4. waits \in HopOf /\ waits.is = "waiting" /\ next \in HopOf /\ next.is = "received"
        BY <2>1, <3>3 DEF HopOf, Sends!Hop, Sends!States
      <3> HIDE DEF waits, next
      <3>5. /\ old_ \in Seq(HopOf) /\ Len(old_) = Len(hops[r])
            /\ \A j \in 1..Len(hops[r]) : old_[j] = IF j = k THEN waits ELSE hops[r][j]
        BY <2>1, <3>2, <3>4, ExceptSeq
      <3> HIDE DEF old_
      <3>6. /\ new \in Seq(HopOf) /\ new # << >> /\ Len(new) = k + 1 /\ new[k + 1] = next
            /\ \A j \in 1..k : new[j] = IF j = k THEN waits ELSE hops[r][j]
        BY <2>2, <3>4, <3>5, AppendProperties
      <3> HIDE DEF new
      <3>7. /\ hops' \in [SendRequest -> Seq(HopOf)] /\ hops'[r] = new
            /\ \A q \in SendRequest \ {r} : hops'[q] = hops[q]
        BY <3>1, <3>6 DEF SendTypes
      <3>8. SendTypes'
        <4>1. Len(hops'[r]) <= MaxForwardHops + 1
          BY <1>0, <2>1, <3>6, <3>7
        <4>2. \A q \in SendRequest : Len(hops'[q]) <= MaxForwardHops + 1
          BY <3>7, <4>1 DEF SendTypes
        <4>3. QED
          BY <2>1, <3>7, <4>2 DEF SendTypes
      <3>9. ASSUME NEW q \in SendRequest \ {r} PROVE DeliveryOf(q)'
        <4>1. hops'[q] = hops[q] /\ DeliveryOf(q)
          BY <3>7 DEF Delivery
        <4>2. QED
          BY <1>a, <2>1, <4>1, DeliveryKept DEF DeliveryOf, Nowhere, Gone
      <3>10. Nowhere(r)'
        BY <2>1, <2>2 DEF Nowhere, Gone
      <3>11. ASSUME NEW j \in 1..k + 1 PROVE HopSound(r, j)'
        <4>1. CASE j = k + 1
          BY <3>4, <3>6, <3>7, <3>10, <4>1 DEF HopSound
        <4>2. CASE j = k
          BY <1>0, <2>2, <3>4, <3>6, <3>7, <4>2 DEF HopSound
        <4>3. CASE j \in 1..k /\ j # k
          <5>1. HopSound(r, j) /\ hops'[r][j] = hops[r][j]
            BY <1>a, <2>2, <3>6, <3>7, <4>3
          <5>2. hops[r][j].is \notin {"received", "typed"}
            BY <2>2, <4>3, <5>1 DEF HopSound
          <5>3. QED
            BY <1>0, <2>1, <2>2, <3>6, <3>7, <4>3, <5>1, <5>2 DEF HopSound, Gone
        <4>4. QED
          BY <1>0, <2>2, <4>1, <4>2, <4>3
      <3>12. DeliveryOf(r)'
        BY <3>6, <3>7, <3>10, <3>11 DEF DeliveryOf, Nowhere
      <3>13. QED
        BY <3>8, <3>9, <3>12 DEF Delivery
    <2>5. QED
      BY <2>3, <2>4
  <1>4. ASSUME NEW d \in Daemon, Sends!Keys(d) PROVE SendTypes' /\ Delivery'
    <2>1. /\ cleared' = cleared \cup line[d] /\ line' = [line EXCEPT ![d] = {}]
          /\ keys < MaxKeys /\ keys' = keys + 1
          /\ UNCHANGED <<hops, submitted, spawned>>
      BY <1>4 DEF Sends!Keys
    <2>2. /\ line' \in [Daemon -> SUBSET SendRequest]
          /\ \A q \in SendRequest, e \in Daemon :
                /\ q \in line'[e] => q \in line[e] /\ e # d
                /\ q \in line[e] => q \in line'[e] \/ q \in cleared'
      BY <2>1 DEF SendTypes
    <2>3. SendTypes'
      BY <1>0, <2>1, <2>2 DEF SendTypes
    <2>4. ASSUME NEW q \in SendRequest PROVE DeliveryOf(q)'
      <3>1. DeliveryOf(q)
        BY DEF Delivery
      <3>2. \A e \in Daemon : q \in line'[e] => q \in line[e] /\ ~Gone(q)'
        BY <2>1, <2>2, <3>1 DEF DeliveryOf, Gone
      <3>3. (Gone(q) => Gone(q)') /\ (Nowhere(q) => ~Gone(q)')
        BY <2>1 DEF Gone, Nowhere
      <3>4. \A e \in Daemon : q \in line[e] => q \in line'[e] \/ Gone(q)'
        BY <2>2 DEF Gone
      <3>5. QED
        BY <1>a, <2>1, <3>1, <3>2, <3>3, <3>4, DeliveryKept
    <2>5. QED
      BY <2>3, <2>4 DEF Delivery
  <1>5. CASE UNCHANGED Sends!sendVars
    BY <1>5 DEF Sends!sendVars, SendTypes, Delivery, DeliveryOf, HopSound, Nowhere, Gone
  <1>6. \A k \in 1..MaxForwardHops : k \in 1..MaxForwardHops + 1
    BY <1>0
  <1>7. QED
    BY <1>1, <1>2, <1>3, <1>4, <1>5, <1>6 DEF Sends!Next

\* A sender is told that its text was delivered, through any chain of peers, only if it
\* was submitted to the session or handed to a script, and it is in one place only.
THEOREM SendsDeliver == PartsSpec => []DeliveredMeansSubmitted
<1>1. Sends!Init => SendTypes /\ Delivery
  <2> SUFFICES ASSUME Sends!Init PROVE SendTypes /\ Delivery
    OBVIOUS
  <2>1. MaxForwardHops \in Nat /\ MaxKeys \in Nat /\ << >> \in Seq(HopOf) /\ Len(<< >>) = 0
    BY MessageAssumptions, EmptySeq DEF Sends!SendAssumption
  <2>2. QED
    BY <2>1 DEF Sends!Init, SendTypes, Delivery, DeliveryOf, Nowhere, Gone
<1>2. SendTypes /\ Delivery /\ [Sends!Next]_(Sends!sendVars) => SendTypes' /\ Delivery'
  BY DeliveryStep
<1>3. Delivery => DeliveredMeansSubmitted
  BY DEF Delivery, DeliveryOf, HopSound, Gone, DeliveredMeansSubmitted,
         Sends!DeliveredMeansSubmitted, Sends!Is, Sends!Last
<1>4. QED
  BY <1>1, <1>2, <1>3, SendsPart, PTL DEF Sends!SendSpec


-----------------------------------------------------------------------------
(* The other sources: src/unified-poller.mjs, src/comment-poller.mjs *)

\* A behaviour of the parts is one of the pollers, which move or stand still.
LEMMA SourcesPart == PartsSpec => Sources!Init /\ [][Sources!Next]_(Sources!sourceVars)
<1>1. PartsInit => Sources!Init
  BY DEF PartsInit
<1>2. [PartsNext]_partsVars => [Sources!Next]_(Sources!sourceVars)
  BY DEF PartsNext, partsVars, messageVars, sourceVars, Sources!sourceVars
<1>3. QED
  BY <1>1, <1>2, PTL DEF PartsSpec

SourceStages == {"off", "idle", "save", "write", "append"}
SourceTyped ==
    /\ style \in {"unified", "listing"} /\ items \in 0..MaxItems
    /\ sourceFile \in Seq(Sources!Item)
    /\ at \in [Sources!Process -> SourceStages]
    /\ \A p \in Sources!Process : at[p] = "write" => style = "listing"
    /\ sourceMemory \in [Sources!Process -> Seq(Sources!Item)]
    /\ hand \in [Sources!Process -> SUBSET Sources!Item]
    /\ sourceQueued \in [Sources!Item -> 0..2]

InFile(i) == i \in Sources!ToSet(sourceFile)
InMemory(p, i) == i \in Sources!ToSet(sourceMemory[p])
Saving(p) == at[p] \in {"write", "append"}

\* An item reached somebody, was there at a seed, was in the hands of a process that
\* died, or is in the hands of one that saves it as seen, or has.
PassedOn(i) ==
    \/ sourceQueued[i] > 0 \/ i \in discarded \cup gone
    \/ \E p \in Sources!Process : Saving(p) /\ i \in hand[p]

\* What the file marks as seen was passed on, and what a memory does was passed on or is
\* in hand and about to be saved.
SeenPassedOn ==
    /\ \A i \in Sources!Item \ SourceOwn : InFile(i) => PassedOn(i)
    /\ \A p \in Sources!Process, i \in Sources!Item \ SourceOwn :
          InMemory(p, i) => PassedOn(i) \/ (at[p] = "save" /\ i \in hand[p])

\* What a process holds it has marked as seen.
HandMarked ==
    \A p \in Sources!Process : at[p] = "save" => \A i \in hand[p] : InMemory(p, i)

\* What the watcher queued, discarded or is about to is in the file or will be, and is in the
\* ids it goes by, unless it was forgotten or torn off; what it holds it has neither queued nor
\* discarded.
Missed == forgotten \cup torn
Given(i) == sourceQueued[i] > 0 \/ i \in discarded
GoesByMemory == at["watch"] # "off" /\ (style = "unified" \/ at["watch"] = "save")
GivenRemembered ==
    \A i \in Sources!Item \ Missed :
        Given(i) \/ (Saving("watch") /\ i \in hand["watch"]) =>
            i \in Sources!Promised /\ (GoesByMemory => InMemory("watch", i))
GivenOnce ==
    \A i \in Sources!Item \ Missed :
        /\ sourceQueued[i] = 0 \/ (sourceQueued[i] = 1 /\ i \notin discarded)
        /\ (at["watch"] = "save" \/ Saving("watch")) /\ i \in hand["watch"] => ~Given(i)

SourceInv == SourceTyped /\ SeenPassedOn /\ HandMarked /\ GivenRemembered /\ GivenOnce

\* The items of a set in their order are those items: each has a rank of its own among them.
LEMMA OrderedItems ==
    ASSUME NEW n \in Nat, NEW S \in SUBSET (1..n)
    PROVE  Sources!InOrder(S) \in Seq(S) /\ Sources!ToSet(Sources!InOrder(S)) = S
<1> DEFINE c == Cardinality(S)
           Below(x) == {j \in S : j <= x}
           rank == [x \in S |-> Cardinality(Below(x))]
           list == Sources!InOrder(S)
<1>1. IsFiniteSet(S) /\ c \in Nat
  <2>1. IsFiniteSet(1..n)
    BY FS_Interval
  <2>2. QED
    BY <2>1, FS_Subset, FS_CardinalityType
<1>2. ASSUME NEW x \in S PROVE IsFiniteSet(Below(x)) /\ rank[x] \in 1..c
  <2>1. IsFiniteSet(Below(x)) /\ Cardinality(Below(x)) <= c
    BY <1>1, FS_Subset
  <2>2. Cardinality(Below(x)) \in Nat /\ Cardinality(Below(x)) # 0
    BY <2>1, FS_CardinalityType, FS_EmptySet
  <2>3. QED
    BY <1>1, <2>1, <2>2
<1>3. ASSUME NEW x \in S, NEW y \in S, x < y PROVE rank[x] # rank[y]
  <2>1. Below(x) \subseteq Below(y) /\ y \in Below(y) /\ y \notin Below(x)
    <3>1. x \in Nat /\ y \in Nat /\ \A j \in S : j \in Nat
      OBVIOUS
    <3>2. ASSUME NEW j \in S, j <= x PROVE j <= y
      BY <1>3, <3>1, <3>2
    <3>3. y <= y /\ ~(y <= x)
      BY <1>3, <3>1
    <3>4. QED
      BY <3>2, <3>3
  <2>2. QED
    BY <1>2, <2>1, FS_Subset
<1>4. ASSUME NEW x \in S, NEW y \in S, rank[x] = rank[y] PROVE x = y
  BY <1>3, <1>4
<1>5. \A k \in 1..c : \E x \in S : rank[x] = k
  <2>1. rank \in Injection(S, 1..c)
    BY <1>2, <1>4 DEF Injection, IsInjective
  <2>2. IsFiniteSet(1..c) /\ Cardinality(1..c) = c
    BY <1>1, FS_Interval
  <2>3. rank \in Surjection(S, 1..c)
    BY <2>1, <2>2, FS_Injection
  <2>4. QED
    BY <2>3 DEF Surjection
<1>6. list = [k \in 1..c |-> CHOOSE i \in S : Cardinality(Below(i)) = k]
  <2>1. Sources!InOrder(S) =
          [k \in 1..Sources!Cardinality(S) |-> CHOOSE i \in S : Sources!Cardinality({j \in S : j <= i}) = k]
    BY DEF Sources!InOrder
  <2>2. \A T : Sources!Cardinality(T) = Cardinality(T)
    BY DEF Sources!Cardinality, Cardinality
  <2>3. QED
    BY <2>1, <2>2, Zenon
<1>7. ASSUME NEW k \in 1..c PROVE list[k] \in S /\ rank[list[k]] = k
  <2>1. PICK x \in S : rank[x] = k
    BY <1>5
  <2>2. list[k] = CHOOSE i \in S : Cardinality(Below(i)) = k
    BY <1>6
  <2>3. QED
    BY <2>1, <2>2
<1>8. \A x \in S : rank[x] \in 1..c /\ list[rank[x]] = x
  BY <1>2, <1>4, <1>7
<1>9. list \in Seq(S) /\ DOMAIN list = 1..c
  <2>1. DOMAIN list = 1..c /\ list = [k \in DOMAIN list |-> list[k]]
    BY <1>6
  <2> HIDE DEF list, c
  <2>2. list \in [1..c -> S]
    BY <1>7, <2>1
  <2>3. QED
    BY <1>1, <2>1, <2>2
<1>10. QED
  BY <1>7, <1>8, <1>9 DEF Sources!ToSet

\* A fetch adds its items to the ids, and nothing else.
LEMMA IdsWithNew ==
    ASSUME MaxItems \in Nat, NEW ids \in Seq(Sources!Item), NEW got \in SUBSET Sources!Item
    PROVE  /\ Sources!WithNew(ids, got) \in Seq(Sources!Item)
           /\ Sources!ToSet(Sources!WithNew(ids, got)) = Sources!ToSet(ids) \cup got
<1> DEFINE new == got \ Sources!ToSet(ids)
           list == Sources!InOrder(new)
<1>1. list \in Seq(new) /\ Sources!ToSet(list) = new
  BY OrderedItems DEF Sources!Item
<1>2. list \in Seq(Sources!Item)
  BY <1>1
<1>3. Sources!WithNew(ids, got) = ids \o list
  BY DEF Sources!WithNew
<1>4. Sources!ToSet(ids \o list) = Sources!ToSet(ids) \cup Sources!ToSet(list)
  <2>1. \A k \in 1..Len(list) : Len(ids) + k \in 1..Len(ids \o list) /\ (ids \o list)[Len(ids) + k] = list[k]
    BY <1>2
  <2>2. \A k \in 1..Len(ids) : k \in 1..Len(ids \o list) /\ (ids \o list)[k] = ids[k]
    BY <1>2
  <2>3. \A k \in 1..Len(ids \o list) :
          \/ k \in 1..Len(ids) /\ (ids \o list)[k] = ids[k]
          \/ k - Len(ids) \in 1..Len(list) /\ (ids \o list)[k] = list[k - Len(ids)]
    BY <1>2
  <2>4. DOMAIN ids = 1..Len(ids) /\ DOMAIN list = 1..Len(list) /\ DOMAIN (ids \o list) = 1..Len(ids \o list)
    BY <1>2
  <2> DEFINE both == ids \o list
  <2>5. Sources!ToSet(both) = {both[k] : k \in 1..Len(both)}
    BY <2>4 DEF Sources!ToSet
  <2>6. Sources!ToSet(ids) = {ids[k] : k \in 1..Len(ids)} /\ Sources!ToSet(list) = {list[k] : k \in 1..Len(list)}
    BY <2>4 DEF Sources!ToSet
  <2>7. ASSUME NEW x \in {both[k] : k \in 1..Len(both)}
        PROVE  x \in Sources!ToSet(ids) \/ x \in Sources!ToSet(list)
    BY <2>3, <2>6
  <2>8. ASSUME NEW x, x \in {ids[k] : k \in 1..Len(ids)} \/ x \in {list[k] : k \in 1..Len(list)}
        PROVE  x \in Sources!ToSet(both)
    <3> HIDE DEF both
    <3>1. QED
      BY <2>1, <2>2, <2>5, <2>8 DEF both
  <2>9. QED
    BY <2>5, <2>6, <2>7, <2>8
<1>5. ids \o list \in Seq(Sources!Item)
  BY <1>2, ConcatProperties
<1>6. got \subseteq Sources!Item /\ new \cup Sources!ToSet(ids) = got \cup Sources!ToSet(ids)
  OBVIOUS
<1>7. QED
  BY <1>1, <1>3, <1>4, <1>5, <1>6

\* A save keeps ids that it is given.
LEMMA IdsKept ==
    ASSUME NEW ids \in Seq(Sources!Item)
    PROVE  Sources!Kept(ids) \in Seq(Sources!Item) /\ Sources!ToSet(Sources!Kept(ids)) \subseteq Sources!ToSet(ids)
<1> DEFINE first == 1 + IF Len(ids) > SourceCap THEN Len(ids) - SourceCap ELSE 0
           kept == SubSeq(ids, first, Len(ids))
<1>1. SourceCap \in Nat \ {0}
  BY MessageAssumptions DEF Sources!SourceAssumption
<1>2. first \in 1..Len(ids) + 1 /\ Len(ids) \in Nat
  BY <1>1
<1>3. kept \in Seq(Sources!Item)
  BY <1>2, SubSeqProperties
<1>4. \A k \in 1..Len(kept) : first + k - 1 \in 1..Len(ids) /\ kept[k] = ids[first + k - 1]
  BY <1>2, SubSeqProperties
<1>5. Sources!ToSet(kept) \subseteq Sources!ToSet(ids)
  BY <1>3, <1>4 DEF Sources!ToSet
<1>6. QED
  BY <1>3, <1>5 DEF Sources!Kept

\* The first ids of a list are ids of it.
LEMMA IdsFirst ==
    ASSUME NEW ids \in Seq(Sources!Item), NEW n \in 0..Len(ids)
    PROVE  SubSeq(ids, 1, n) \in Seq(Sources!Item) /\ Sources!ToSet(SubSeq(ids, 1, n)) \subseteq Sources!ToSet(ids)
<1> DEFINE list == SubSeq(ids, 1, n)
<1>1. list \in Seq(Sources!Item) /\ Len(list) = n /\ \A k \in 1..n : list[k] = ids[k]
  BY SubSeqProperties
<1>2. Sources!ToSet(list) \subseteq Sources!ToSet(ids)
  BY <1>1 DEF Sources!ToSet
<1>3. QED
  BY <1>1, <1>2

\* The last ids of a list are ids of it.
LEMMA IdsLast ==
    ASSUME NEW ids \in Seq(Sources!Item), NEW n \in Nat
    PROVE  LET list == SubSeq(ids, n + 1, Len(ids)) IN
           list \in Seq(Sources!Item) /\ Sources!ToSet(list) \subseteq Sources!ToSet(ids)
<1> DEFINE list == SubSeq(ids, n + 1, Len(ids))
<1>1. CASE n > Len(ids)
  <2>1. list = << >>
    BY <1>1, SubSeqProperties
  <2>2. QED
    BY <2>1 DEF Sources!ToSet
<1>2. CASE n <= Len(ids)
  <2>1. /\ list \in Seq(Sources!Item)
        /\ \A k \in 1..Len(list) : n + k \in 1..Len(ids) /\ list[k] = ids[n + k]
    BY <1>2, SubSeqProperties
  <2>2. Sources!ToSet(list) \subseteq Sources!ToSet(ids)
    BY <2>1 DEF Sources!ToSet
  <2>3. QED
    BY <2>1, <2>2
<1>3. QED
  BY <1>1, <1>2

LEMMA NoIds == << >> \in Seq(Sources!Item) /\ Sources!ToSet(<< >>) = {}
  BY DEF Sources!ToSet

\* The file of a unified poller is never half written: what is promised is in it.
LEMMA UnifiedPromise ==
    /\ SourceTyped /\ style = "unified" => Sources!Promised = Sources!ToSet(sourceFile)
    /\ SourceTyped' /\ style' = "unified" => Sources!Promised' = Sources!ToSet(sourceFile')
  BY DEF SourceTyped, Sources!Promised

\* A step that neither writes the file nor begins or ends a write leaves the promise as it is.
LEMMA PromiseStays ==
    ASSUME sourceFile' = sourceFile,
           \A p \in Sources!Process : (at'[p] = "write") <=> (at[p] = "write"),
           \A p \in Sources!Process : at[p] = "write" => sourceMemory'[p] = sourceMemory[p]
    PROVE  Sources!Promised' = Sources!Promised
<1>1. {p \in Sources!Process : at'[p] = "write"} = {p \in Sources!Process : at[p] = "write"}
  OBVIOUS
<1>2. {Sources!ToSet(Sources!Kept(sourceMemory'[p])) : p \in {q \in Sources!Process : at'[q] = "write"}} =
        {Sources!ToSet(Sources!Kept(sourceMemory[p])) : p \in {q \in Sources!Process : at[q] = "write"}}
  BY <1>1
<1>3. QED
  BY <1>2 DEF Sources!Promised

\* The ids a poll starts from are of items, and those that were passed on.
LEMMA IdsKnown ==
    ASSUME SourceInv, NEW p \in Sources!Process, at[p] = "idle"
    PROVE  /\ Sources!Known(p) \in Seq(Sources!Item)
           /\ \A i \in Sources!Item \ SourceOwn : i \in Sources!ToSet(Sources!Known(p)) => PassedOn(i)
           /\ p = "watch" => \A i \in Sources!Item \ (Missed \cup (Sources!Promised \ Sources!ToSet(sourceFile))) :
                                Given(i) => i \in Sources!ToSet(Sources!Known(p))
<1>1. CASE style = "unified"
  <2>1. Sources!Known(p) = sourceMemory[p]
    BY <1>1 DEF Sources!Known
  <2>2. QED
    BY <1>1, <2>1 DEF SourceInv, SourceTyped, SeenPassedOn, GivenRemembered, GoesByMemory, InMemory
<1>2. CASE style # "unified"
  <2>1. Sources!Known(p) = sourceFile
    BY <1>2 DEF Sources!Known
  <2>2. QED
    BY <2>1 DEF SourceInv, SourceTyped, SeenPassedOn, GivenRemembered, InFile
<1>3. QED
  BY <1>1, <1>2

LEMMA SourcesBegin ==
    ASSUME SourceInv, NEW p \in Sources!Process, Sources!Begin(p) PROVE SourceInv'
<1> DEFINE ids == IF style = "unified" THEN sourceFile ELSE << >>
<1>1. /\ at[p] = "off" /\ sourceMemory' = [sourceMemory EXCEPT ![p] = ids] /\ at' = [at EXCEPT ![p] = "idle"]
      /\ UNCHANGED <<style, items, sourceFile, hand, sourceQueued, discarded, gone, forgotten, torn>>
  BY DEF Sources!Begin
<1>2. ids \in Seq(Sources!Item) /\ \A i : i \in Sources!ToSet(ids) => InFile(i)
  BY NoIds DEF SourceInv, SourceTyped, InFile
<1>3. style = "unified" => ids = sourceFile
  OBVIOUS
<1> HIDE DEF ids
<1>4. SourceTyped /\ SeenPassedOn /\ HandMarked /\ GivenRemembered /\ GivenOnce
  BY DEF SourceInv
<1>5. /\ at' \in [Sources!Process -> SourceStages]
      /\ sourceMemory' \in [Sources!Process -> Seq(Sources!Item)]
      /\ at'[p] = "idle" /\ sourceMemory'[p] = ids
      /\ \A q \in Sources!Process \ {p} : at'[q] = at[q] /\ sourceMemory'[q] = sourceMemory[q]
  BY <1>1, <1>2, <1>4 DEF SourceTyped, SourceStages
<1>6. SourceTyped'
  BY <1>1, <1>4, <1>5 DEF SourceTyped
<1>7. \A i : PassedOn(i) => PassedOn(i)'
  BY <1>1, <1>5 DEF PassedOn, Saving
<1>8. SeenPassedOn'
  BY <1>1, <1>2, <1>4, <1>5, <1>7 DEF SeenPassedOn, InFile, InMemory
<1>9. HandMarked'
  BY <1>1, <1>4, <1>5 DEF HandMarked, InMemory
<1>10. Sources!Promised' = Sources!Promised
  BY <1>1, <1>5, PromiseStays
<1>11. GivenRemembered'
  <2>1. CASE p = "watch"
    <3>1. style = "unified" => \A i \in Sources!Promised : InMemory("watch", i)'
      BY <1>3, <1>4, <1>5, <2>1, UnifiedPromise DEF InMemory
    <3>2. QED
      BY <1>1, <1>4, <1>5, <1>10, <2>1, <3>1 DEF GivenRemembered, Missed, Given, GoesByMemory, Saving
  <2>2. CASE p # "watch"
    BY <1>1, <1>4, <1>5, <1>10, <2>2
       DEF GivenRemembered, Missed, Given, GoesByMemory, Saving, InMemory, Sources!Process
  <2>3. QED
    BY <2>1, <2>2
<1>12. GivenOnce'
  BY <1>1, <1>4, <1>5 DEF GivenOnce, Missed, Given, Saving, Sources!Process
<1>13. QED
  BY <1>6, <1>8, <1>9, <1>11, <1>12 DEF SourceInv

LEMMA SourcesRead ==
    ASSUME SourceInv, NEW p \in Sources!Process, Sources!Read(p) PROVE SourceInv'
<1>1. PICK got \in SUBSET (1..items) :
        /\ sourceMemory' = [sourceMemory EXCEPT ![p] = Sources!WithNew(Sources!Known(p), got)]
        /\ hand' = [hand EXCEPT ![p] = Sources!Taken(Sources!Known(p), got)]
  BY DEF Sources!Read, Sources!Fetched
<1> DEFINE known == Sources!Known(p)
           ids == Sources!WithNew(known, got)
           new == got \ (Sources!ToSet(known) \cup SourceOwn)
<1>2. /\ at[p] = "idle" /\ at' = [at EXCEPT ![p] = "save"]
      /\ torn' = torn \cup (Sources!Promised \ Sources!ToSet(sourceFile))
      /\ UNCHANGED <<style, items, sourceFile, sourceQueued, discarded, gone, forgotten>>
  BY DEF Sources!Read
<1>3. SourceTyped /\ SeenPassedOn /\ HandMarked /\ GivenRemembered /\ GivenOnce
  BY DEF SourceInv
<1>4. got \subseteq Sources!Item /\ MaxItems \in Nat
  BY <1>3, MessageAssumptions DEF SourceTyped, Sources!Item, Sources!SourceAssumption
<1>5. /\ known \in Seq(Sources!Item)
      /\ \A i \in Sources!Item \ SourceOwn : i \in Sources!ToSet(known) => PassedOn(i)
      /\ p = "watch" => \A i \in Sources!Item \ Missed' : Given(i) => i \in Sources!ToSet(known)
  BY <1>2, IdsKnown DEF Missed
<1>6. ids \in Seq(Sources!Item) /\ Sources!ToSet(ids) = Sources!ToSet(known) \cup got
  BY <1>4, <1>5, IdsWithNew
<1>7. sourceMemory' = [sourceMemory EXCEPT ![p] = ids] /\ hand' = [hand EXCEPT ![p] = new] /\ new \subseteq Sources!Item
  BY <1>1, <1>4 DEF Sources!Taken
<1>8. /\ new \subseteq got /\ new \cap Sources!ToSet(known) = {}
      /\ \A i \in got : i \in Sources!ToSet(known) \cup SourceOwn \cup new
  OBVIOUS
<1> HIDE DEF known, ids, new
<1>9. /\ at' \in [Sources!Process -> SourceStages]
      /\ sourceMemory' \in [Sources!Process -> Seq(Sources!Item)] /\ hand' \in [Sources!Process -> SUBSET Sources!Item]
      /\ at'[p] = "save" /\ sourceMemory'[p] = ids /\ hand'[p] = new
      /\ \A q \in Sources!Process \ {p} : at'[q] = at[q] /\ sourceMemory'[q] = sourceMemory[q] /\ hand'[q] = hand[q]
  BY <1>2, <1>3, <1>6, <1>7 DEF SourceTyped, SourceStages
<1>10. SourceTyped' /\ Missed \subseteq Missed'
  BY <1>2, <1>3, <1>9 DEF SourceTyped, Missed
<1>11. \A i : PassedOn(i) => PassedOn(i)'
  BY <1>2, <1>9 DEF PassedOn, Saving
<1>12. SeenPassedOn'
  BY <1>2, <1>3, <1>5, <1>6, <1>8, <1>9, <1>11 DEF SeenPassedOn, InFile, InMemory
<1>13. HandMarked'
  BY <1>2, <1>3, <1>6, <1>8, <1>9 DEF HandMarked, InMemory
<1>14. Sources!Promised' = Sources!Promised
  BY <1>2, <1>9, PromiseStays
<1>15. GivenRemembered'
  <2>1. CASE p = "watch"
    BY <1>2, <1>3, <1>5, <1>6, <1>9, <1>10, <1>14, <2>1 DEF GivenRemembered, Given, Saving, InMemory
  <2>2. CASE p # "watch"
    BY <1>2, <1>3, <1>9, <1>10, <1>14, <2>2
       DEF GivenRemembered, Given, GoesByMemory, Saving, InMemory, Sources!Process
  <2>3. QED
    BY <2>1, <2>2
<1>16. GivenOnce'
  <2>1. CASE p = "watch"
    BY <1>2, <1>3, <1>5, <1>8, <1>9, <1>10, <2>1 DEF GivenOnce, Given
  <2>2. CASE p # "watch"
    BY <1>2, <1>3, <1>9, <1>10, <2>2 DEF GivenOnce, Given, Saving, Sources!Process
  <2>3. QED
    BY <2>1, <2>2
<1>17. QED
  BY <1>10, <1>12, <1>13, <1>15, <1>16 DEF SourceInv

\* What a save does to the four conditions: the file is of ids that were passed on or are in
\* hand, and what it no longer promises is forgotten.
LEMMA SavedSound ==
    ASSUME SourceInv, NEW p \in Sources!Process, at[p] \in {"save", "write"},
           NEW now \in {"write", "append"}, at' = [at EXCEPT ![p] = now], now = "write" => style = "listing",
           NEW left \in Seq(Sources!Item), sourceMemory' = [sourceMemory EXCEPT ![p] = left],
           left = sourceMemory[p] \/ (left = << >> /\ style = "listing"),
           sourceFile' \in Seq(Sources!Item),
           \A i : InFile(i)' => InFile(i) \/ InMemory(p, i),
           forgotten \subseteq forgotten',
           \A i \in Sources!Promised : i \in forgotten' \/ i \in Sources!Promised',
           at[p] = "save" => \A i : InMemory(p, i) => i \in forgotten' \/ i \in Sources!Promised',
           UNCHANGED <<style, items, hand, sourceQueued, discarded, gone, torn>>
    PROVE  SourceInv'
<1>1. SourceTyped /\ SeenPassedOn /\ HandMarked /\ GivenRemembered /\ GivenOnce
  BY DEF SourceInv
<1>2. /\ at' \in [Sources!Process -> SourceStages] /\ sourceMemory' \in [Sources!Process -> Seq(Sources!Item)]
      /\ at'[p] = now /\ sourceMemory'[p] = left
      /\ \A q \in Sources!Process \ {p} : at'[q] = at[q] /\ sourceMemory'[q] = sourceMemory[q]
  BY <1>1 DEF SourceTyped, SourceStages
<1>3. SourceTyped' /\ Missed \subseteq Missed'
  BY <1>1, <1>2 DEF SourceTyped, Missed
<1>4. \A i : PassedOn(i) => PassedOn(i)'
  BY <1>2 DEF PassedOn, Saving
<1>5. \A i \in Sources!Item \ SourceOwn : InMemory(p, i) => PassedOn(i)'
  <2>1. \A i \in hand[p] : PassedOn(i)'
    BY <1>2 DEF PassedOn, Saving
  <2>2. QED
    BY <1>1, <1>4, <2>1 DEF SeenPassedOn
<1>6. \A i : i \in Sources!ToSet(left) => InMemory(p, i)
  BY NoIds DEF InMemory
<1>7. SeenPassedOn'
  BY <1>1, <1>2, <1>4, <1>5, <1>6 DEF SeenPassedOn, InMemory
<1>8. HandMarked'
  BY <1>1, <1>2 DEF HandMarked, InMemory
<1>9. GivenRemembered'
  <2>1. CASE p = "watch"
    <3>1. \A i \in Sources!Item \ Missed' : Given(i) \/ i \in hand[p] => i \in Sources!Promised'
      BY <1>1, <1>3, <2>1 DEF GivenRemembered, HandMarked, Saving, Missed
    <3>2. GoesByMemory' => style = "unified" /\ at[p] = "save" /\ left = sourceMemory[p]
      BY <1>1, <1>2, <2>1 DEF GoesByMemory, SourceTyped
    <3>3. style = "unified" /\ at[p] = "save" =>
             \A i \in Sources!Item \ Missed' : Given(i) \/ i \in hand[p] => InMemory(p, i)
      BY <1>1, <1>3, <2>1 DEF GivenRemembered, HandMarked, GoesByMemory
    <3>4. QED
      BY <1>2, <2>1, <3>1, <3>2, <3>3 DEF GivenRemembered, Given, InMemory
  <2>2. CASE p # "watch"
    <3>1. GoesByMemory' = GoesByMemory /\ Saving("watch")' = Saving("watch")
          /\ sourceMemory'["watch"] = sourceMemory["watch"]
      BY <1>2, <2>2 DEF GoesByMemory, Saving, Sources!Process
    <3>2. QED
      BY <1>1, <1>3, <3>1 DEF GivenRemembered, Given, InMemory, Missed
  <2>3. QED
    BY <2>1, <2>2
<1>10. GivenOnce'
  BY <1>1, <1>2, <1>3 DEF GivenOnce, Given, Saving, Sources!Process
<1>11. QED
  BY <1>3, <1>7, <1>8, <1>9, <1>10 DEF SourceInv

\* The unified poller replaces the file.
LEMMA SourcesSave ==
    ASSUME SourceInv, NEW p \in Sources!Process, Sources!SaveSeen(p) PROVE SourceInv'
<1> DEFINE ids == sourceMemory[p]
<1>1. /\ style = "unified" /\ at[p] = "save" /\ at' = [at EXCEPT ![p] = "append"]
      /\ sourceFile' = Sources!Kept(ids) /\ sourceMemory' = sourceMemory
      /\ forgotten' = forgotten \cup ((Sources!ToSet(sourceFile) \cup Sources!ToSet(ids)) \ Sources!ToSet(sourceFile'))
      /\ UNCHANGED <<style, items, hand, sourceQueued, discarded, gone, torn>>
  BY DEF Sources!SaveSeen
<1>2. SourceTyped
  BY DEF SourceInv
<1>3. ids \in Seq(Sources!Item) /\ sourceMemory' = [sourceMemory EXCEPT ![p] = ids]
  BY <1>1, <1>2 DEF SourceTyped
<1>4. sourceFile' \in Seq(Sources!Item) /\ Sources!ToSet(sourceFile') \subseteq Sources!ToSet(ids)
  BY <1>1, <1>3, IdsKept
<1>5. SourceTyped'
  <2>1. at' \in [Sources!Process -> SourceStages] /\ \A q \in Sources!Process : at'[q] = "write" => at[q] = "write"
    BY <1>1, <1>2 DEF SourceTyped, SourceStages
  <2>2. QED
    BY <1>1, <1>2, <1>4, <2>1 DEF SourceTyped
<1>6. Sources!Promised = Sources!ToSet(sourceFile) /\ Sources!Promised' = Sources!ToSet(sourceFile')
  BY <1>1, <1>2, <1>5, UnifiedPromise
<1>7. /\ \A i : InFile(i)' => InFile(i) \/ InMemory(p, i)
      /\ \A i \in Sources!Promised : i \in forgotten' \/ i \in Sources!Promised'
      /\ \A i : InMemory(p, i) => i \in forgotten' \/ i \in Sources!Promised'
  BY <1>1, <1>4, <1>6 DEF InFile, InMemory
<1>8. QED
  BY <1>1, <1>3, <1>4, <1>7, SavedSound

\* A listing poller begins to overwrite the file.
LEMMA SourcesTruncate ==
    ASSUME SourceInv, NEW p \in Sources!Process, Sources!Truncate(p) PROVE SourceInv'
<1> DEFINE ids == sourceMemory[p]
           kept == Sources!Kept(ids)
<1>1. PICK n \in 0..Len(kept) : sourceFile' = SubSeq(kept, 1, n)
  BY DEF Sources!Truncate
<1>2. /\ style = "listing" /\ at[p] = "save" /\ at' = [at EXCEPT ![p] = "write"] /\ sourceMemory' = sourceMemory
      /\ forgotten' = forgotten \cup ((Sources!Promised \cup Sources!ToSet(ids)) \ Sources!Promised')
      /\ UNCHANGED <<style, items, hand, sourceQueued, discarded, gone, torn>>
  BY DEF Sources!Truncate
<1>3. SourceTyped
  BY DEF SourceInv
<1>4. ids \in Seq(Sources!Item) /\ sourceMemory' = [sourceMemory EXCEPT ![p] = ids]
  BY <1>2, <1>3 DEF SourceTyped
<1>5. kept \in Seq(Sources!Item) /\ Sources!ToSet(kept) \subseteq Sources!ToSet(ids)
  BY <1>4, IdsKept
<1> HIDE DEF kept
<1>6. sourceFile' \in Seq(Sources!Item) /\ Sources!ToSet(sourceFile') \subseteq Sources!ToSet(ids)
  BY <1>1, <1>5, IdsFirst
<1>7. /\ \A i : InFile(i)' => InFile(i) \/ InMemory(p, i)
      /\ \A i \in Sources!Promised : i \in forgotten' \/ i \in Sources!Promised'
      /\ \A i : InMemory(p, i) => i \in forgotten' \/ i \in Sources!Promised'
  BY <1>2, <1>6 DEF InFile, InMemory
<1>8. QED
  BY <1>2, <1>4, <1>6, <1>7, SavedSound

\* It writes the file to the end.
LEMMA SourcesFinish ==
    ASSUME SourceInv, NEW p \in Sources!Process, Sources!FinishWrite(p) PROVE SourceInv'
<1> DEFINE kept == Sources!Kept(sourceMemory[p])
           tail == SubSeq(sourceFile, Len(kept) + 1, Len(sourceFile))
<1>1. /\ at[p] = "write" /\ at' = [at EXCEPT ![p] = "append"]
      /\ sourceFile' = Sources!WithNew(kept, Sources!ToSet(tail))
      /\ sourceMemory' = [sourceMemory EXCEPT ![p] = << >>]
      /\ forgotten' = forgotten \cup (Sources!Promised \ Sources!Promised')
      /\ UNCHANGED <<style, items, hand, sourceQueued, discarded, gone, torn>>
  BY DEF Sources!FinishWrite
<1>2. SourceTyped /\ style = "listing"
  BY <1>1 DEF SourceInv, SourceTyped
<1>3. sourceMemory[p] \in Seq(Sources!Item) /\ sourceFile \in Seq(Sources!Item) /\ MaxItems \in Nat
  BY <1>2, MessageAssumptions DEF SourceTyped, Sources!SourceAssumption
<1>4. kept \in Seq(Sources!Item) /\ Sources!ToSet(kept) \subseteq Sources!ToSet(sourceMemory[p])
  BY <1>3, IdsKept
<1> HIDE DEF kept
<1>5. tail \in Seq(Sources!Item) /\ Sources!ToSet(tail) \subseteq Sources!ToSet(sourceFile)
  BY <1>3, <1>4, IdsLast
<1>6. Sources!ToSet(tail) \subseteq Sources!Item
  BY <1>5 DEF Sources!ToSet
<1> HIDE DEF tail
<1>7. sourceFile' \in Seq(Sources!Item) /\ Sources!ToSet(sourceFile') = Sources!ToSet(kept) \cup Sources!ToSet(tail)
  BY <1>1, <1>3, <1>4, <1>6, IdsWithNew
<1>8. /\ \A i : InFile(i)' => InFile(i) \/ InMemory(p, i)
      /\ \A i \in Sources!Promised : i \in forgotten' \/ i \in Sources!Promised'
  BY <1>1, <1>4, <1>5, <1>7 DEF InFile, InMemory
<1>9. QED
  BY <1>1, <1>2, <1>7, <1>8, NoIds, SavedSound

\* The round that seeds ends.
LEMMA SourcesDiscard ==
    ASSUME SourceInv, Sources!Discard PROVE SourceInv'
<1>1. SourceTyped /\ SeenPassedOn /\ HandMarked /\ GivenRemembered /\ GivenOnce /\ "watch" \in Sources!Process
  BY DEF SourceInv, Sources!Process
<1>2. /\ at["watch"] = "append" /\ at' = [at EXCEPT !["watch"] = "idle"]
      /\ discarded' = discarded \cup hand["watch"] /\ hand' = [hand EXCEPT !["watch"] = {}]
      /\ UNCHANGED <<style, items, sourceFile, sourceMemory, sourceQueued, gone, forgotten, torn>>
  BY DEF Sources!Discard
<1>3. /\ at' \in [Sources!Process -> SourceStages] /\ hand' \in [Sources!Process -> SUBSET Sources!Item]
      /\ at'["watch"] = "idle" /\ hand'["watch"] = {}
      /\ \A q \in Sources!Process \ {"watch"} : at'[q] = at[q] /\ hand'[q] = hand[q]
  BY <1>1, <1>2 DEF SourceTyped, SourceStages
<1>4. SourceTyped'
  BY <1>1, <1>2, <1>3 DEF SourceTyped
<1>5. \A i : PassedOn(i) => PassedOn(i)'
  BY <1>1, <1>2, <1>3 DEF PassedOn, Saving
<1>6. SeenPassedOn'
  BY <1>1, <1>2, <1>3, <1>5 DEF SeenPassedOn, InFile, InMemory
<1>7. HandMarked'
  BY <1>1, <1>2, <1>3 DEF HandMarked, InMemory
<1>8. Sources!Promised' = Sources!Promised
  BY <1>2, <1>3, PromiseStays
<1>9. GivenRemembered'
  BY <1>1, <1>2, <1>3, <1>8 DEF GivenRemembered, Missed, Given, GoesByMemory, Saving, InMemory
<1>10. GivenOnce'
  BY <1>1, <1>2, <1>3 DEF GivenOnce, Missed, Given, Saving, SourceTyped
<1>11. QED
  BY <1>4, <1>6, <1>7, <1>9, <1>10 DEF SourceInv

\* The watcher queues its batch, or one item of it.
LEMMA SourcesAppend ==
    ASSUME SourceInv, Sources!AppendEvents PROVE SourceInv'
<1>1. SourceTyped /\ SeenPassedOn /\ HandMarked /\ GivenRemembered /\ GivenOnce /\ "watch" \in Sources!Process
  BY DEF SourceInv, Sources!Process
<1>2. /\ at["watch"] = "append"
      /\ UNCHANGED <<style, items, sourceFile, sourceMemory, discarded, gone, forgotten, torn>>
  BY DEF Sources!AppendEvents
<1>3. PICK portion \in SUBSET hand["watch"], next \in {"append", "idle"} :
        /\ sourceQueued' = [i \in Sources!Item |-> IF i \in portion /\ sourceQueued[i] < 2
                                                   THEN sourceQueued[i] + 1 ELSE sourceQueued[i]]
        /\ hand' = [hand EXCEPT !["watch"] = @ \ portion] /\ at' = [at EXCEPT !["watch"] = next]
        /\ next = "idle" => portion = hand["watch"]
  <2>1. CASE /\ Sources!Queue(hand["watch"]) /\ hand' = [hand EXCEPT !["watch"] = {}]
             /\ at' = [at EXCEPT !["watch"] = "idle"]
    <3>1. hand' = [hand EXCEPT !["watch"] = @ \ hand["watch"]]
      BY <1>1, <2>1 DEF SourceTyped
    <3>2. WITNESS hand["watch"] \in SUBSET hand["watch"], "idle" \in {"append", "idle"}
    <3>3. QED
      BY <2>1, <3>1 DEF Sources!Queue
  <2>2. ASSUME NEW i \in hand["watch"], Sources!Queue({i}), hand' = [hand EXCEPT !["watch"] = @ \ {i}], at' = at
        PROVE  \E portion \in SUBSET hand["watch"], next \in {"append", "idle"} :
                 /\ sourceQueued' = [j \in Sources!Item |-> IF j \in portion /\ sourceQueued[j] < 2
                                                            THEN sourceQueued[j] + 1 ELSE sourceQueued[j]]
                 /\ hand' = [hand EXCEPT !["watch"] = @ \ portion] /\ at' = [at EXCEPT !["watch"] = next]
                 /\ next = "idle" => portion = hand["watch"]
    <3>1. at' = [at EXCEPT !["watch"] = "append"]
      BY <1>1, <1>2, <2>2 DEF SourceTyped
    <3>2. WITNESS {i} \in SUBSET hand["watch"], "append" \in {"append", "idle"}
    <3>3. QED
      BY <2>2, <3>1 DEF Sources!Queue
  <2>3. QED
    BY <2>1, <2>2 DEF Sources!AppendEvents
<1>4. /\ at' \in [Sources!Process -> SourceStages]
      /\ hand' \in [Sources!Process -> SUBSET Sources!Item]
      /\ at'["watch"] = next /\ hand'["watch"] = hand["watch"] \ portion
      /\ \A q \in Sources!Process \ {"watch"} : at'[q] = at[q] /\ hand'[q] = hand[q]
  BY <1>1, <1>2, <1>3 DEF SourceTyped, SourceStages
<1>5. ASSUME NEW i \in Sources!Item
      PROVE  /\ sourceQueued[i] \in 0..2 /\ sourceQueued'[i] \in 0..2
             /\ i \in portion => sourceQueued'[i] > 0 /\ (sourceQueued[i] = 0 => sourceQueued'[i] = 1)
             /\ i \notin portion => sourceQueued'[i] = sourceQueued[i]
             /\ sourceQueued[i] > 0 => sourceQueued'[i] > 0
  BY <1>1, <1>3 DEF SourceTyped
<1>6. portion \subseteq hand["watch"] /\ portion \subseteq Sources!Item
  BY <1>1 DEF SourceTyped
<1>7. SourceTyped'
  <2>1. sourceQueued' \in [Sources!Item -> 0..2]
    BY <1>3, <1>5
  <2>2. QED
    BY <1>1, <1>2, <1>4, <2>1 DEF SourceTyped
<1>8. ASSUME NEW i \in Sources!Item, PassedOn(i) PROVE PassedOn(i)'
  <2>1. CASE sourceQueued[i] > 0 \/ i \in discarded \cup gone
    BY <1>2, <1>5, <2>1 DEF PassedOn
  <2>2. CASE \E q \in Sources!Process \ {"watch"} : Saving(q) /\ i \in hand[q]
    BY <1>4, <2>2 DEF PassedOn, Saving
  <2>3. CASE i \in hand["watch"]
    BY <1>1, <1>3, <1>4, <1>5, <2>3 DEF PassedOn, Saving
  <2>4. QED
    BY <1>8, <2>1, <2>2, <2>3 DEF PassedOn
<1>9. SeenPassedOn'
  BY <1>1, <1>2, <1>4, <1>8 DEF SeenPassedOn, InFile, InMemory
<1>10. HandMarked'
  BY <1>1, <1>2, <1>4 DEF HandMarked, InMemory
<1>11. Sources!Promised' = Sources!Promised
  BY <1>2, <1>4, PromiseStays
<1>12. GivenRemembered'
  <2>1. \A i \in Sources!Item : Given(i)' => Given(i) \/ i \in hand["watch"]
    BY <1>2, <1>5, <1>6 DEF Given
  <2>2. QED
    BY <1>1, <1>2, <1>4, <1>11, <2>1 DEF GivenRemembered, Missed, GoesByMemory, Saving, InMemory
<1>13. GivenOnce'
  <2> SUFFICES ASSUME NEW i \in Sources!Item \ Missed
               PROVE  /\ sourceQueued'[i] = 0 \/ (sourceQueued'[i] = 1 /\ i \notin discarded)
                      /\ (at'["watch"] = "save" \/ Saving("watch")') /\ i \in hand'["watch"] => ~Given(i)'
    BY <1>2 DEF GivenOnce, Missed
  <2>1. CASE i \in portion
    BY <1>1, <1>2, <1>4, <1>5, <1>6, <2>1 DEF GivenOnce, Given, Saving
  <2>2. CASE i \notin portion
    BY <1>1, <1>2, <1>4, <1>5, <2>2 DEF GivenOnce, Given, Saving
  <2>3. QED
    BY <2>1, <2>2
<1>14. QED
  BY <1>7, <1>9, <1>10, <1>12, <1>13 DEF SourceInv

LEMMA SourcesPresent ==
    ASSUME SourceInv, Sources!Present PROVE SourceInv'
<1>1. SourceTyped /\ SeenPassedOn /\ HandMarked /\ GivenRemembered /\ GivenOnce
      /\ "once" \in Sources!Process /\ "watch" \in Sources!Process
  BY DEF SourceInv, Sources!Process
<1>2. /\ at["once"] = "append" /\ at' = [at EXCEPT !["once"] = "off"]
      /\ gone' = gone \cup hand["once"] /\ hand' = [hand EXCEPT !["once"] = {}]
      /\ sourceMemory' = [sourceMemory EXCEPT !["once"] = << >>]
      /\ UNCHANGED <<style, items, sourceFile, sourceQueued, discarded, forgotten, torn>>
  BY DEF Sources!Present
<1>3. /\ at' \in [Sources!Process -> SourceStages]
      /\ hand' \in [Sources!Process -> SUBSET Sources!Item]
      /\ sourceMemory' \in [Sources!Process -> Seq(Sources!Item)]
      /\ at'["once"] = "off" /\ sourceMemory'["once"] = << >>
      /\ \A q \in Sources!Process \ {"once"} :
            at'[q] = at[q] /\ hand'[q] = hand[q] /\ sourceMemory'[q] = sourceMemory[q]
  BY <1>1, <1>2, NoIds DEF SourceTyped, SourceStages
<1>4. SourceTyped'
  BY <1>1, <1>2, <1>3 DEF SourceTyped
<1>5. \A i : PassedOn(i) => PassedOn(i)'
  BY <1>2, <1>3 DEF PassedOn, Saving
<1>6. SeenPassedOn'
  BY <1>1, <1>2, <1>3, <1>5, NoIds DEF SeenPassedOn, InFile, InMemory
<1>7. HandMarked'
  BY <1>1, <1>3 DEF HandMarked, InMemory
<1>8. at'["watch"] = at["watch"] /\ hand'["watch"] = hand["watch"] /\ sourceMemory'["watch"] = sourceMemory["watch"]
  BY <1>1, <1>3
<1>9. Sources!Promised' = Sources!Promised
  BY <1>2, <1>3, PromiseStays
<1>10. GivenRemembered' /\ GivenOnce'
  BY <1>1, <1>2, <1>8, <1>9 DEF GivenRemembered, GivenOnce, Missed, Given, GoesByMemory, Saving, InMemory
<1>11. QED
  BY <1>4, <1>6, <1>7, <1>10 DEF SourceInv

LEMMA SourcesDies ==
    ASSUME SourceInv, NEW p \in Sources!Process, Sources!Dies(p) PROVE SourceInv'
<1>1. SourceTyped /\ SeenPassedOn /\ HandMarked /\ GivenRemembered /\ GivenOnce
  BY DEF SourceInv
<1>2. /\ at' = [at EXCEPT ![p] = "off"] /\ hand' = [hand EXCEPT ![p] = {}]
      /\ sourceMemory' = [sourceMemory EXCEPT ![p] = << >>]
      /\ gone \subseteq gone' /\ (Saving(p) => hand[p] \subseteq gone')
      /\ torn' = torn \cup (Sources!Promised \ Sources!Promised')
      /\ UNCHANGED <<style, items, sourceFile, sourceQueued, discarded, forgotten>>
  BY DEF Sources!Dies, Saving
<1>3. /\ at' \in [Sources!Process -> SourceStages]
      /\ hand' \in [Sources!Process -> SUBSET Sources!Item]
      /\ sourceMemory' \in [Sources!Process -> Seq(Sources!Item)]
      /\ at'[p] = "off" /\ sourceMemory'[p] = << >>
      /\ \A q \in Sources!Process \ {p} :
            at'[q] = at[q] /\ hand'[q] = hand[q] /\ sourceMemory'[q] = sourceMemory[q]
  BY <1>1, <1>2, NoIds DEF SourceTyped, SourceStages
<1>4. SourceTyped'
  BY <1>1, <1>2, <1>3 DEF SourceTyped
<1>5. \A i : PassedOn(i) => PassedOn(i)'
  BY <1>2, <1>3 DEF PassedOn, Saving
<1>6. SeenPassedOn'
  BY <1>1, <1>2, <1>3, <1>5, NoIds DEF SeenPassedOn, InFile, InMemory
<1>7. HandMarked'
  BY <1>1, <1>3 DEF HandMarked, InMemory
<1>8. GivenRemembered' /\ GivenOnce'
  <2>1. CASE p = "watch"
    BY <1>1, <1>2, <1>3, <2>1 DEF GivenRemembered, GivenOnce, Missed, Given, GoesByMemory, Saving
  <2>2. CASE p # "watch"
    BY <1>1, <1>2, <1>3, <2>2
       DEF GivenRemembered, GivenOnce, Missed, Given, GoesByMemory, Saving, InMemory, Sources!Process
  <2>3. QED
    BY <2>1, <2>2
<1>9. QED
  BY <1>4, <1>6, <1>7, <1>8 DEF SourceInv

LEMMA SourcesStart == Sources!Init => SourceInv
<1> SUFFICES ASSUME Sources!Init PROVE SourceInv
  OBVIOUS
<1>1. SourceTyped
  BY NoIds, MessageAssumptions DEF Sources!Init, SourceTyped, SourceStages, Sources!SourceAssumption
<1>2. SeenPassedOn /\ HandMarked
  BY NoIds DEF Sources!Init, SeenPassedOn, HandMarked, InFile, InMemory
<1>3. GivenRemembered /\ GivenOnce
  BY DEF Sources!Init, GivenRemembered, GivenOnce, Given, Saving, Sources!Process
<1>4. QED
  BY <1>1, <1>2, <1>3 DEF SourceInv

LEMMA SourcesStep == SourceInv /\ [Sources!Next]_(Sources!sourceVars) => SourceInv'
<1> SUFFICES ASSUME SourceInv, [Sources!Next]_(Sources!sourceVars) PROVE SourceInv'
  OBVIOUS
<1>1. ASSUME items' \in 0..MaxItems,
             UNCHANGED <<style, sourceFile, at, sourceMemory, hand, sourceQueued, discarded, gone, forgotten, torn>>
      PROVE  SourceInv'
  <2>1. Sources!Promised' = Sources!Promised
    BY <1>1, PromiseStays
  <2>2. QED
    BY <1>1, <2>1 DEF SourceInv, SourceTyped, SeenPassedOn, HandMarked, GivenRemembered, GivenOnce, Missed, Given,
       GoesByMemory, Saving, InFile, InMemory, PassedOn
<1>2. CASE Sources!NewItem
  <2>1. items' \in 0..MaxItems
    BY <1>2, MessageAssumptions DEF SourceInv, SourceTyped, Sources!NewItem, Sources!SourceAssumption
  <2>2. QED
    BY <1>1, <1>2, <2>1 DEF Sources!NewItem
<1>3. CASE UNCHANGED Sources!sourceVars
  BY <1>1, <1>3 DEF Sources!sourceVars, SourceInv, SourceTyped
<1>4. QED
  BY <1>2, <1>3, SourcesDiscard, SourcesAppend, SourcesPresent, SourcesBegin, SourcesRead, SourcesSave,
     SourcesTruncate, SourcesFinish, SourcesDies DEF Sources!Next

\* An item the pollers of the other sources mark as seen reached somebody, was there at a
\* seed or was in the hands of a process that died; the watcher queues it once, and none it
\* discarded, unless its id was pushed out of the file or overwritten there, or was missing where
\* a half-written file was read or left behind.
\* src/unified-poller.mjs, poll; src/comment-poller.mjs, pollComments.
THEOREM ItemsAccounted == PartsSpec => []AccountedOnce
<1>1. ASSUME SourceInv PROVE AccountedOnce
  <2>1. SourceTyped /\ SeenPassedOn /\ GivenOnce
    BY <1>1 DEF SourceInv
  <2> SUFFICES ASSUME NEW i \in 1..items \ SourceOwn
               PROVE  /\ i \in Sources!ToSet(sourceFile) =>
                           \/ sourceQueued[i] > 0 \/ \E p \in Sources!Process : i \in hand[p]
                           \/ i \in discarded \cup gone
                      /\ i \notin forgotten \cup torn => sourceQueued[i] + (IF i \in discarded THEN 1 ELSE 0) <= 1
    BY DEF AccountedOnce, Sources!AccountedOnce
  <2>2. i \in Sources!Item \ SourceOwn /\ sourceQueued[i] \in 0..2
    BY <2>1, MessageAssumptions DEF SourceTyped, Sources!Item, Sources!SourceAssumption
  <2>3. InFile(i) => PassedOn(i)
    BY <2>1, <2>2 DEF SeenPassedOn
  <2>4. i \notin forgotten \cup torn => sourceQueued[i] + (IF i \in discarded THEN 1 ELSE 0) <= 1
    BY <2>1, <2>2 DEF GivenOnce, Missed
  <2>5. QED
    BY <2>3, <2>4 DEF InFile, PassedOn
<1>2. QED
  BY <1>1, SourcesPart, SourcesStart, SourcesStep, PTL
=============================================================================
