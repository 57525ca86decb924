----------------------------- MODULE Stores_proofs -----------------------------
(***************************************************************************)
(* Proofs about what a machine keeps and shows: the server cards of the     *)
(* device heartbeat and the archive of a room, for any ports, processes,    *)
(* registries, page sizes and budgets.                                      *)
(***************************************************************************)
EXTENDS Parts, FiniteSetTheorems, WellFoundedInduction, TLAPS

-----------------------------------------------------------------------------
(* Server cards: packages/user-intent-kit/src/tensorfold-status.js *)

\* A behaviour of the parts is one of the monitor, which moves or stands still.
LEMMA CardsPart == PartsSpec => Cards!Init /\ [][Cards!Next]_(Cards!vars)
<1>1. PartsInit => Cards!Init
  BY DEF PartsInit
<1>2. [PartsNext]_partsVars => [Cards!Next]_(Cards!vars)
  BY DEF PartsNext, partsVars, storeVars, cardVars, Cards!vars
<1>3. QED
  BY <1>1, <1>2, PTL DEF PartsSpec

Process == [kind : Cards!Kinds \cup {"gone"}, arg : Port \cup {Cards!NoPort}, listens : SUBSET Port, counter : Nat]
Sample == [count : Nat, made : Nat, taken : BOOLEAN]
ACard == [shown : BOOLEAN, reachable : BOOLEAN, rated : BOOLEAN, rate : Int, truth : Int]

\* Only what a rate is made of.
ProcessesTyped == process \in [ServerPid -> Process]
CountsTyped == samples \in [Port -> Sample] /\ made \in [Port -> Nat]

\* A port has one listener, and what does not listen has counted nothing.
OneListener ==
    \A i, j \in ServerPid : process[i].listens \cap process[j].listens # {} => i = j
FreshCounters == \A i \in ServerPid : process[i].listens = {} => process[i].counter = 0

\* Whoever listens on a port has counted, over the last reading there, no more than was made there since.
Baseline ==
    \A p \in Port :
        /\ samples[p].made <= made[p]
        /\ \A i \in ServerPid : p \in process[i].listens /\ samples[p].taken =>
              process[i].counter - samples[p].count <= made[p] - samples[p].made

HonestCard(card) == card.rated => card.rate >= 0 /\ card.rate <= card.truth
HonestCards(cards) == \A p \in Port : HonestCard(cards[p])

RatesInv ==
    /\ ProcessesTyped /\ CountsTyped /\ OneListener /\ FreshCounters /\ Baseline
    /\ DOMAIN reading.cards = Port /\ HonestCards(reading.cards) /\ HonestCards(snapshot.cards)

LEMMA RatesStart == Cards!Init => RatesInv
<1> SUFFICES ASSUME Cards!Init PROVE RatesInv
  OBVIOUS
<1>1. Cards!Gone \in Process
  BY DEF Process, Cards!Gone
<1>2. Cards!NoSample \in Sample
  BY DEF Sample, Cards!NoSample
<1>3. ProcessesTyped /\ CountsTyped
  BY <1>1, <1>2 DEF Cards!Init, ProcessesTyped, CountsTyped
<1>4. OneListener /\ FreshCounters
  BY DEF Cards!Init, OneListener, FreshCounters, Cards!Gone
<1>5. Baseline
  BY DEF Cards!Init, Baseline, Cards!NoSample
<1>6. DOMAIN reading.cards = Port /\ HonestCards(reading.cards) /\ HonestCards(snapshot.cards)
  BY DEF Cards!Init, Cards!Idle, Cards!NoCard, HonestCards, HonestCard
<1>7. QED
  BY <1>3, <1>4, <1>5, <1>6 DEF RatesInv

\* A series is read from a process that listens on the port.
LEMMA SeriesServed ==
  ASSUME NEW p \in Port, NEW token, NEW fault, NEW a \in Cards!Answers(p, token, fault), a.metrics = "series"
  PROVE  (CHOOSE j \in Cards!Servers(p) : TRUE) \in Cards!Servers(p)
<1>1. Cards!Servers(p) # {}
  BY DEF Cards!Answers
<1>2. QED
  BY <1>1

\* A card is honest, and its reading is the new baseline.
LEMMA CardHonest ==
  ASSUME RatesInv, NEW p \in Port, NEW token, NEW fault, NEW a \in Cards!Answers(p, token, fault)
  PROVE  HonestCard(Cards!Card(p, a))
<1> DEFINE i == CHOOSE j \in Cards!Servers(p) : TRUE
<1>1. CASE ~(a.metrics = "series" /\ Cards!Rated(samples[p], process[i].counter))
  BY <1>1 DEF Cards!Card, HonestCard
<1>2. CASE a.metrics = "series" /\ Cards!Rated(samples[p], process[i].counter)
  <2>1. i \in ServerPid /\ p \in process[i].listens
    BY <1>2, SeriesServed DEF Cards!Servers
  <2>2. process[i].counter \in Nat /\ samples[p].count \in Nat /\ samples[p].made \in Nat /\ made[p] \in Nat
    BY <2>1 DEF RatesInv, ProcessesTyped, CountsTyped, Process, Sample
  <2>3. process[i].counter - samples[p].count <= made[p] - samples[p].made
    BY <1>2, <2>1 DEF RatesInv, Baseline, Cards!Rated
  <2>4. process[i].counter - samples[p].count >= 0
    BY <1>2, <2>2 DEF Cards!Rated
  <2>5. /\ Cards!Card(p, a).rate = process[i].counter - samples[p].count
        /\ Cards!Card(p, a).truth = made[p] - samples[p].made
    BY <1>2 DEF Cards!Card
  <2>6. QED
    BY <2>3, <2>4, <2>5 DEF HonestCard
<1>3. QED
  BY <1>1, <1>2

LEMMA SampleTaken ==
  ASSUME RatesInv, NEW p \in Port, NEW token, NEW fault, NEW a \in Cards!Answers(p, token, fault)
  PROVE  \/ Cards!Sampled(p, a) = samples[p]
         \/ /\ Cards!Sampled(p, a) \in Sample /\ Cards!Sampled(p, a).made = made[p]
            /\ \A j \in ServerPid : p \in process[j].listens => Cards!Sampled(p, a).count = process[j].counter
<1> DEFINE i == CHOOSE j \in Cards!Servers(p) : TRUE
<1>1. CASE a.metrics # "series"
  BY <1>1 DEF Cards!Sampled
<1>2. CASE a.metrics = "series"
  <2>1. i \in ServerPid /\ p \in process[i].listens
    BY <1>2, SeriesServed DEF Cards!Servers
  <2>2. process[i].counter \in Nat /\ made[p] \in Nat
    BY <2>1 DEF RatesInv, ProcessesTyped, CountsTyped, Process
  <2>3. \A j \in ServerPid : p \in process[j].listens => j = i
    BY <2>1 DEF RatesInv, OneListener
  <2>4. Cards!Sampled(p, a) = [count |-> process[i].counter, made |-> made[p], taken |-> TRUE]
    BY <1>2 DEF Cards!Sampled
  <2>5. Cards!Sampled(p, a) \in Sample
    BY <2>2, <2>4 DEF Sample
  <2>6. Cards!Sampled(p, a).made = made[p] /\ Cards!Sampled(p, a).count = process[i].counter
    BY <2>4
  <2> HIDE DEF i
  <2>7. QED
    BY <2>3, <2>5, <2>6
<1>3. QED
  BY <1>1, <1>2

\* Machine: what the rest of the machine does to processes and counts.
LEMMA MachineKeepsRates ==
  ASSUME RatesInv, UNCHANGED <<samples, snapshot>>, reading' = reading,
         ProcessesTyped', made' \in [Port -> Nat], OneListener', FreshCounters',
         \A p \in Port : /\ made'[p] >= made[p]
                         /\ \A i \in ServerPid : p \in process'[i].listens =>
                              \/ /\ p \in process[i].listens
                                 /\ process'[i].counter - process[i].counter <= made'[p] - made[p]
                              \/ process'[i].counter = 0
  PROVE  RatesInv'
<1>1. Baseline'
  <2> SUFFICES ASSUME NEW p \in Port
               PROVE  /\ samples[p].made <= made'[p]
                      /\ \A i \in ServerPid : p \in process'[i].listens /\ samples[p].taken =>
                            process'[i].counter - samples[p].count <= made'[p] - samples[p].made
    BY DEF Baseline
  <2>1. /\ samples[p].made \in Nat /\ samples[p].count \in Nat /\ made[p] \in Nat /\ made'[p] \in Nat
        /\ samples[p].made <= made[p] /\ made'[p] >= made[p]
    BY DEF RatesInv, CountsTyped, Sample, Baseline
  <2>2. ASSUME NEW i \in ServerPid, p \in process'[i].listens, samples[p].taken
        PROVE  process'[i].counter - samples[p].count <= made'[p] - samples[p].made
    <3>1. process'[i].counter \in Nat /\ process[i].counter \in Nat
      BY DEF RatesInv, ProcessesTyped, Process
    <3>2. CASE process'[i].counter = 0
      BY <2>1, <3>2
    <3>3. CASE p \in process[i].listens /\ process'[i].counter - process[i].counter <= made'[p] - made[p]
      <4>1. process[i].counter - samples[p].count <= made[p] - samples[p].made
        BY <2>2, <3>3 DEF RatesInv, Baseline
      <4>2. QED
        BY <2>1, <3>1, <3>3, <4>1
    <3>4. QED
      BY <2>2, <3>2, <3>3
  <2>3. QED
    BY <2>1, <2>2
<1>2. CountsTyped'
  BY DEF RatesInv, CountsTyped
<1>3. QED
  BY <1>1, <1>2 DEF RatesInv, HonestCards

\* A read replaces readings by true ones and cards by honest ones.
LEMMA ReadKeepsRates ==
  ASSUME RatesInv, UNCHANGED <<process, made>>, samples' \in [Port -> Sample],
         \A p \in Port : \/ samples'[p] = samples[p]
                         \/ samples'[p] = Cards!NoSample
                         \/ /\ samples'[p].made = made[p]
                            /\ \A i \in ServerPid : p \in process[i].listens => samples'[p].count = process[i].counter,
         DOMAIN reading'.cards = Port, HonestCards(reading.cards)', HonestCards(snapshot.cards)'
  PROVE  RatesInv'
<1>1. Baseline'
  <2> SUFFICES ASSUME NEW p \in Port
               PROVE  /\ samples'[p].made <= made[p]
                      /\ \A i \in ServerPid : p \in process[i].listens /\ samples'[p].taken =>
                            process[i].counter - samples'[p].count <= made[p] - samples'[p].made
    BY DEF Baseline
  <2>1. made[p] \in Nat /\ \A i \in ServerPid : process[i].counter \in Nat
    BY DEF RatesInv, CountsTyped, ProcessesTyped, Process
  <2>2. CASE samples'[p] = samples[p]
    BY <2>2 DEF RatesInv, Baseline
  <2>3. CASE samples'[p] = Cards!NoSample
    <3>1. samples'[p].made = 0 /\ ~samples'[p].taken
      BY <2>3 DEF Cards!NoSample
    <3>2. QED
      BY <2>1, <3>1
  <2>4. CASE /\ samples'[p].made = made[p]
             /\ \A i \in ServerPid : p \in process[i].listens => samples'[p].count = process[i].counter
    BY <2>1, <2>4
  <2>5. QED
    BY <2>2, <2>3, <2>4
<1>2. QED
  BY <1>1 DEF RatesInv, CountsTyped, ProcessesTyped, OneListener, FreshCounters

LEMMA RatesStep == RatesInv /\ [Cards!Next]_(Cards!vars) => RatesInv'
<1> SUFFICES ASSUME RatesInv, [Cards!Next]_(Cards!vars) PROVE RatesInv'
  OBVIOUS
<1>1. ASSUME NEW i \in ServerPid, NEW kind \in Cards!Kinds, NEW arg \in Port \cup {Cards!NoPort},
             Cards!Launch(i, kind, arg)
      PROVE  RatesInv'
  <2> DEFINE new == [Cards!Gone EXCEPT !.kind = kind, !.arg = arg]
  <2>1. new \in Process /\ new.listens = {} /\ new.counter = 0
    BY DEF Process, Cards!Gone
  <2>2. process' = [process EXCEPT ![i] = new] /\ UNCHANGED <<samples, snapshot, reading, made>>
    BY <1>1 DEF Cards!Launch
  <2> HIDE DEF new
  <2>3. ProcessesTyped' /\ process'[i] = new /\ \A j \in ServerPid : j # i => process'[j] = process[j]
    BY <2>1, <2>2 DEF RatesInv, ProcessesTyped
  <2>4. OneListener' /\ FreshCounters'
    BY <2>1, <2>3 DEF RatesInv, OneListener, FreshCounters
  <2>5. \A p \in Port : made[p] \in Nat
    BY DEF RatesInv, CountsTyped
  <2>6. \A j \in ServerPid : process[j].counter \in Nat
    BY DEF RatesInv, ProcessesTyped, Process
  <2>7. \A p \in Port : /\ made'[p] >= made[p]
                        /\ \A j \in ServerPid : p \in process'[j].listens =>
                              \/ /\ p \in process[j].listens
                                 /\ process'[j].counter - process[j].counter <= made'[p] - made[p]
                              \/ process'[j].counter = 0
    BY <2>1, <2>2, <2>3, <2>5, <2>6
  <2>8. QED
    BY <2>2, <2>3, <2>4, <2>7, MachineKeepsRates DEF RatesInv, CountsTyped
<1>2. ASSUME NEW i \in ServerPid, NEW ports \in SUBSET Port, Cards!Listen(i, ports) PROVE RatesInv'
  <2> DEFINE new == [process[i] EXCEPT !.listens = ports]
  <2>1. new \in Process /\ new.listens = ports /\ new.counter = process[i].counter
    BY DEF RatesInv, ProcessesTyped, Process
  <2>2. /\ process' = [process EXCEPT ![i] = new] /\ UNCHANGED <<samples, snapshot, reading, made>>
        /\ process[i].listens = {} /\ ports # {} /\ \A p \in ports : Cards!Servers(p) = {}
    BY <1>2 DEF Cards!Listen
  <2> HIDE DEF new
  <2>3. ProcessesTyped' /\ process'[i] = new /\ \A j \in ServerPid : j # i => process'[j] = process[j]
    BY <2>1, <2>2 DEF RatesInv, ProcessesTyped
  <2>4. process[i].counter = 0
    BY <2>2 DEF RatesInv, FreshCounters
  <2>5. \A j \in ServerPid : process[j].listens \cap ports = {}
    BY <2>2 DEF Cards!Servers
  <2>6. OneListener' /\ FreshCounters'
    BY <2>1, <2>2, <2>3, <2>5 DEF RatesInv, OneListener, FreshCounters
  <2>7. \A p \in Port : made[p] \in Nat
    BY DEF RatesInv, CountsTyped
  <2>8. \A j \in ServerPid : process[j].counter \in Nat
    BY DEF RatesInv, ProcessesTyped, Process
  <2>9. \A p \in Port : /\ made'[p] >= made[p]
                        /\ \A j \in ServerPid : p \in process'[j].listens =>
                              \/ /\ p \in process[j].listens
                                 /\ process'[j].counter - process[j].counter <= made'[p] - made[p]
                              \/ process'[j].counter = 0
    BY <2>1, <2>2, <2>3, <2>4, <2>7, <2>8
  <2>10. QED
    BY <2>2, <2>3, <2>6, <2>9, MachineKeepsRates DEF RatesInv, CountsTyped
<1>3. ASSUME NEW i \in ServerPid, Cards!Stop(i) PROVE RatesInv'
  <2>1. Cards!Gone \in Process /\ Cards!Gone.listens = {} /\ Cards!Gone.counter = 0
    BY DEF Process, Cards!Gone
  <2>2. process' = [process EXCEPT ![i] = Cards!Gone] /\ UNCHANGED <<samples, snapshot, reading, made>>
    BY <1>3 DEF Cards!Stop
  <2>3. ProcessesTyped' /\ process'[i] = Cards!Gone /\ \A j \in ServerPid : j # i => process'[j] = process[j]
    BY <2>1, <2>2 DEF RatesInv, ProcessesTyped
  <2>4. OneListener' /\ FreshCounters'
    BY <2>1, <2>3 DEF RatesInv, OneListener, FreshCounters
  <2>5. \A p \in Port : made[p] \in Nat
    BY DEF RatesInv, CountsTyped
  <2>6. \A j \in ServerPid : process[j].counter \in Nat
    BY DEF RatesInv, ProcessesTyped, Process
  <2>7. \A p \in Port : /\ made'[p] >= made[p]
                        /\ \A j \in ServerPid : p \in process'[j].listens =>
                              \/ /\ p \in process[j].listens
                                 /\ process'[j].counter - process[j].counter <= made'[p] - made[p]
                              \/ process'[j].counter = 0
    BY <2>1, <2>2, <2>3, <2>5, <2>6
  <2>8. QED
    BY <2>2, <2>3, <2>4, <2>7, MachineKeepsRates DEF RatesInv, CountsTyped
<1>4. ASSUME NEW i \in ServerPid, Cards!Generate(i) PROVE RatesInv'
  <2> DEFINE new == [process[i] EXCEPT !.counter = process[i].counter + 1]
  <2>1. process[i].counter \in Nat /\ \A j \in ServerPid : process[j].counter \in Nat
    BY DEF RatesInv, ProcessesTyped, Process
  <2>2. new \in Process /\ new.listens = process[i].listens /\ new.counter = process[i].counter + 1
    BY <2>1 DEF RatesInv, ProcessesTyped, Process
  <2>3. /\ process' = [process EXCEPT ![i] = new] /\ UNCHANGED <<samples, snapshot, reading>>
        /\ process[i].listens # {}
        /\ made' = [p \in Port |-> IF p \in process[i].listens THEN made[p] + 1 ELSE made[p]]
    BY <1>4 DEF Cards!Generate
  <2> HIDE DEF new
  <2>4. ProcessesTyped' /\ process'[i] = new /\ \A j \in ServerPid : j # i => process'[j] = process[j]
    BY <2>2, <2>3 DEF RatesInv, ProcessesTyped
  <2>5. OneListener' /\ FreshCounters'
    BY <2>2, <2>3, <2>4 DEF RatesInv, OneListener, FreshCounters
  <2>6. \A p \in Port : made[p] \in Nat
    BY DEF RatesInv, CountsTyped
  <2>7. made' \in [Port -> Nat] /\ \A p \in Port : made'[p] >= made[p]
    BY <2>3, <2>6
  <2>8. ASSUME NEW p \in Port, NEW j \in ServerPid, p \in process'[j].listens
        PROVE  p \in process[j].listens /\ process'[j].counter - process[j].counter <= made'[p] - made[p]
    <3>1. CASE j = i
      <4>1. p \in process[i].listens /\ process'[i].counter = process[i].counter + 1
        BY <2>2, <2>4, <2>8, <3>1
      <4>2. made'[p] = made[p] + 1
        BY <2>3, <4>1
      <4>3. QED
        BY <2>1, <2>6, <3>1, <4>1, <4>2
    <3>2. CASE j # i
      <4>1. process'[j] = process[j]
        BY <2>4, <3>2
      <4>2. QED
        BY <2>1, <2>6, <2>7, <2>8, <4>1
    <3>3. QED
      BY <3>1, <3>2
  <2>9. QED
    BY <2>3, <2>4, <2>5, <2>7, <2>8, MachineKeepsRates
<1>5. CASE UNCHANGED <<process, samples, made, reading, snapshot>>
  BY <1>5 DEF RatesInv, ProcessesTyped, CountsTyped, OneListener, FreshCounters, Baseline,
     HonestCards
<1>6. ASSUME NEW ok \in BOOLEAN, Cards!ReadRegistry(ok) PROVE RatesInv'
  <2>1. UNCHANGED <<process, samples, made, snapshot>> /\ reading'.cards = Cards!Idle.cards
    BY <1>6 DEF Cards!ReadRegistry, Cards!environment, Cards!Idle
  <2>2. DOMAIN Cards!Idle.cards = Port /\ \A p \in Port : HonestCard(Cards!Idle.cards[p])
    BY DEF Cards!Idle, Cards!NoCard, HonestCard
  <2>3. QED
    BY <2>1, <2>2 DEF RatesInv, ProcessesTyped, CountsTyped, OneListener, FreshCounters,
       Baseline, HonestCards
<1>7. ASSUME NEW ok \in BOOLEAN, Cards!Scan(ok) PROVE RatesInv'
  <2>1. UNCHANGED <<process, samples, made, snapshot>> /\ reading'.cards = reading.cards
    BY <1>7 DEF Cards!Scan, Cards!environment
  <2>2. QED
    BY <2>1 DEF RatesInv, ProcessesTyped, CountsTyped, OneListener, FreshCounters, Baseline,
       HonestCards
<1>8. ASSUME NEW p \in Port, NEW fault \in BOOLEAN, Cards!Probe(p, fault) PROVE RatesInv'
  <2>1. UNCHANGED <<process, made, snapshot>>
    BY <1>8 DEF Cards!Probe, Cards!environment
  <2>2. PICK token \in BOOLEAN :
         \E a \in Cards!Answers(p, token, fault) :
           \/ Cards!ProbeKnown(p, a) \/ Cards!Detect(p, a)
           \/ reading' = [reading EXCEPT !.todo = @ \ {p}] /\ UNCHANGED samples
    BY <1>8 DEF Cards!Probe
  <2>a. PICK a \in Cards!Answers(p, token, fault) :
           \/ Cards!ProbeKnown(p, a) \/ Cards!Detect(p, a)
           \/ reading' = [reading EXCEPT !.todo = @ \ {p}] /\ UNCHANGED samples
    BY <2>2
  <2>3. /\ samples' = samples \/ samples' = [samples EXCEPT ![p] = Cards!Sampled(p, a)]
        /\ \/ reading'.cards = reading.cards
           \/ reading'.cards = [reading.cards EXCEPT ![p] = Cards!Card(p, a)]
           \/ reading'.cards = [reading.cards EXCEPT ![p] = Cards!NoCard]
    <3>1. CASE Cards!ProbeKnown(p, a)
      BY <3>1 DEF Cards!ProbeKnown
    <3>2. CASE Cards!Detect(p, a)
      BY <3>2 DEF Cards!Detect
    <3>3. CASE reading' = [reading EXCEPT !.todo = @ \ {p}] /\ UNCHANGED samples
      BY <3>3
    <3>4. QED
      BY <2>a, <3>1, <3>2, <3>3
  <2>4. samples \in [Port -> Sample]
    BY DEF RatesInv, CountsTyped
  <2>5. /\ samples' \in [Port -> Sample]
        /\ \A q \in Port : \/ samples'[q] = samples[q]
                           \/ /\ samples'[q].made = made[q]
                              /\ \A i \in ServerPid : q \in process[i].listens =>
                                    samples'[q].count = process[i].counter
    BY <2>3, <2>4, SampleTaken
  <2>6. HonestCard(Cards!Card(p, a)) /\ HonestCard(Cards!NoCard)
    BY CardHonest DEF Cards!NoCard, HonestCard
  <2>7. DOMAIN reading'.cards = Port /\ \A q \in Port : HonestCard(reading'.cards[q])
    BY <2>3, <2>6 DEF RatesInv, HonestCards
  <2>8. HonestCards(reading.cards)' /\ HonestCards(snapshot.cards)'
    BY <2>1, <2>7 DEF RatesInv, HonestCards
  <2>9. QED
    BY <2>1, <2>5, <2>7, <2>8, ReadKeepsRates
<1>9. ASSUME Cards!Publish PROVE RatesInv'
  <2>1. /\ UNCHANGED <<process, made>> /\ snapshot'.cards = reading.cards /\ reading' = Cards!Idle
        /\ samples' = [p \in Port |-> IF reading.cards[p].shown THEN samples[p] ELSE Cards!NoSample]
    BY <1>9 DEF Cards!Publish, Cards!environment
  <2>2. Cards!NoSample \in Sample /\ samples \in [Port -> Sample]
    BY DEF RatesInv, CountsTyped, Cards!NoSample, Sample
  <2>3. samples' \in [Port -> Sample] /\ \A p \in Port : samples'[p] \in {samples[p], Cards!NoSample}
    BY <2>1, <2>2
  <2>4. DOMAIN reading'.cards = Port /\ \A p \in Port : HonestCard(reading'.cards[p])
    BY <2>1 DEF Cards!Idle, Cards!NoCard, HonestCard
  <2>5. HonestCards(reading.cards)' /\ HonestCards(snapshot.cards)'
    BY <2>1, <2>4 DEF RatesInv, HonestCards
  <2>6. QED
    BY <2>1, <2>3, <2>4, <2>5, ReadKeepsRates
<1>10. ASSUME NEW p \in Port, NEW engine \in Cards!Engines, Cards!EditRegistry(p, engine)
       PROVE  UNCHANGED <<process, samples, made, reading, snapshot>>
  BY <1>10 DEF Cards!EditRegistry
<1>11. CASE Cards!Tick \/ UNCHANGED Cards!vars
  BY <1>5, <1>11 DEF Cards!Tick, Cards!vars
<1>12. QED
  BY <1>1, <1>2, <1>3, <1>4, <1>5, <1>6, <1>7, <1>8, <1>9, <1>10, <1>11 DEF Cards!Next

\* No card claims tokens that were not generated at its port since the reading it compares
\* with: through restarts of the server, a port taken over, and readings that failed.
THEOREM RatesHonest == PartsSpec => []RateNeverOverstates
<1>1. RatesInv => RateNeverOverstates
  BY DEF RatesInv, HonestCards, HonestCard, RateNeverOverstates, Cards!RateNeverOverstates
<1>2. QED
  BY <1>1, RatesStart, RatesStep, CardsPart, PTL

Asked == [asked : BOOLEAN, tensorfold : BOOLEAN, age : Nat]
Engaged == {"absent", "tensorfold"}

ServedTyped ==
    /\ registry \in [Port -> Cards!Engines] /\ upFor \in [Port -> 0..RecheckTicks] /\ detected \in [Port -> Asked]
    /\ reading.phase \in {"idle", "scan", "probe"} /\ (reading.phase # "idle" => due)

\* Who has been well for an interval is an open engine, and a verdict against a port is older
\* than what serves it.
ServedSince ==
    \A p \in Port : upFor[p] > 0 => \E i \in ServerPid : p \in process[i].listens /\ process[i].kind = "open"
VerdictsOlder ==
    \A p \in Port : detected[p].asked /\ ~detected[p].tensorfold => detected[p].age >= upFor[p]

Due(p) == upFor[p] >= RecheckTicks /\ registry[p] \in Engaged

\* The read in flight is about the registry as it is and will show what it must.
ReadShows ==
    \A p \in Port : Due(p) /\ reading.phase # "idle" =>
        \/ reading.error
        \/ /\ reading.entries[p] = registry[p]
           /\ reading.phase = "probe" => p \in reading.todo \/ reading.cards[p].shown

ShownInv ==
    /\ RatesInv /\ ServedTyped /\ ServedSince /\ VerdictsOlder /\ ReadShows
    /\ \A p \in Port : ~due /\ Due(p) => snapshot.error \/ snapshot.cards[p].shown

LEMMA RecheckPositive == RecheckTicks \in Nat /\ RecheckTicks > 0
  BY StoreAssumptions DEF Cards!CardsAssumption

LEMMA ShownStart == Cards!Init => ShownInv
<1> SUFFICES ASSUME Cards!Init PROVE ShownInv
  OBVIOUS
<1>1. Cards!NotAsked \in Asked
  BY DEF Asked, Cards!NotAsked
<1>2. ServedTyped
  BY <1>1, RecheckPositive DEF Cards!Init, ServedTyped, Cards!Idle
<1>3. ServedSince /\ VerdictsOlder
  BY DEF Cards!Init, ServedSince, VerdictsOlder, Cards!NotAsked
<1>4. ReadShows /\ due
  BY DEF Cards!Init, ReadShows, Cards!Idle
<1>5. QED
  BY <1>2, <1>3, <1>4, RatesStart DEF ShownInv

\* What a port loses its time for: nothing has to be shown there any more.
LEMMA TimeLost ==
  ASSUME ShownInv, RatesInv', UNCHANGED <<detected, reading, snapshot, due>>, ServedSince',
         registry' \in [Port -> Cards!Engines], upFor' \in [Port -> 0..RecheckTicks],
         \A p \in Port : upFor'[p] = 0 \/ (upFor'[p] = upFor[p] /\ registry'[p] = registry[p])
  PROVE  ShownInv'
<1>1. \A p \in Port : Due(p)' => Due(p)
  BY RecheckPositive DEF Due
<1>2. ServedTyped'
  BY DEF ShownInv, ServedTyped
<1>3. VerdictsOlder'
  <2> SUFFICES ASSUME NEW p \in Port, detected[p].asked, ~detected[p].tensorfold PROVE detected[p].age >= upFor'[p]
    BY DEF VerdictsOlder
  <2>1. detected[p].age \in Nat /\ detected[p].age >= upFor[p]
    BY DEF ShownInv, ServedTyped, VerdictsOlder, Asked
  <2>2. QED
    BY <2>1
<1>4. \A p \in Port : Due(p)' => registry'[p] = registry[p]
  BY RecheckPositive DEF Due
<1>5. ReadShows'
  BY <1>1, <1>4 DEF ShownInv, ReadShows
<1>6. \A p \in Port : ~due' /\ Due(p)' => snapshot'.error \/ snapshot'.cards[p].shown
  BY <1>1 DEF ShownInv
<1>7. QED
  BY <1>2, <1>3, <1>5, <1>6 DEF ShownInv

\* An open engine alone on its port answers every GET as one.
LEMMA WellAnswers ==
  ASSUME ShownInv, NEW p \in Port, upFor[p] > 0, NEW token, NEW a \in Cards!Answers(p, token, FALSE)
  PROVE  Cards!Reachable(a) /\ Cards!LooksTensorFold(a)
<1>1. PICK i \in ServerPid : p \in process[i].listens /\ process[i].kind = "open"
  BY DEF ShownInv, ServedSince
<1>2. \A j \in ServerPid : p \in process[j].listens => j = i
  BY <1>1 DEF ShownInv, RatesInv, OneListener
<1>3. Cards!Servers(p) = {i}
  BY <1>1, <1>2 DEF Cards!Servers
<1>4. {process[j].kind : j \in Cards!Servers(p)} = {"open"}
  BY <1>1, <1>3
<1>5. a = [health |-> "shape", metrics |-> "series"]
  BY <1>4 DEF Cards!Answers
<1>6. QED
  BY <1>5 DEF Cards!Reachable, Cards!LooksTensorFold

LEMMA ShownStep == ShownInv /\ [Cards!Next]_(Cards!vars) => ShownInv'
<1> SUFFICES ASSUME ShownInv, [Cards!Next]_(Cards!vars) PROVE ShownInv'
  OBVIOUS
<1>0. RatesInv'
  BY RatesStep DEF ShownInv
<1>T. /\ registry \in [Port -> Cards!Engines] /\ upFor \in [Port -> 0..RecheckTicks] /\ detected \in [Port -> Asked]
      /\ process \in [ServerPid -> Process] /\ RecheckTicks \in Nat /\ RecheckTicks > 0
  BY RecheckPositive DEF ShownInv, ServedTyped, RatesInv, ProcessesTyped
<1>1. ASSUME NEW i \in ServerPid, NEW kind \in Cards!Kinds, NEW arg \in Port \cup {Cards!NoPort},
             Cards!Launch(i, kind, arg)
      PROVE  ShownInv'
  <2>1. /\ process[i] = Cards!Gone /\ UNCHANGED <<registry, upFor, detected, reading, snapshot, due>>
        /\ process' = [process EXCEPT ![i] = [Cards!Gone EXCEPT !.kind = kind, !.arg = arg]]
    BY <1>1 DEF Cards!Launch
  <2>2. process[i].listens = {} /\ \A j \in ServerPid : j # i => process'[j] = process[j]
    BY <1>T, <2>1 DEF Cards!Gone
  <2>3. ServedSince'
    BY <2>1, <2>2 DEF ShownInv, ServedSince
  <2>4. QED
    BY <1>0, <1>T, <2>1, <2>3, TimeLost
<1>2. ASSUME NEW i \in ServerPid, NEW ports \in SUBSET Port, Cards!Listen(i, ports) PROVE ShownInv'
  <2>1. /\ UNCHANGED <<registry, detected, reading, snapshot, due>>
        /\ process' = [process EXCEPT ![i].listens = ports] /\ process[i].listens = {}
        /\ upFor' = [p \in Port |-> IF p \in ports THEN 0 ELSE upFor[p]]
    BY <1>2 DEF Cards!Listen
  <2>2. \A j \in ServerPid : j # i => process'[j] = process[j]
    BY <1>T, <2>1
  <2>3. ServedSince'
    BY <1>T, <2>1, <2>2 DEF ShownInv, ServedSince
  <2>4. upFor' \in [Port -> 0..RecheckTicks]
    BY <1>T, <2>1
  <2>5. QED
    BY <1>0, <1>T, <2>1, <2>3, <2>4, TimeLost
<1>3. ASSUME NEW i \in ServerPid, Cards!Stop(i) PROVE ShownInv'
  <2>1. /\ UNCHANGED <<registry, detected, reading, snapshot, due>>
        /\ process' = [process EXCEPT ![i] = Cards!Gone]
        /\ upFor' = [p \in Port |-> IF p \in process[i].listens THEN 0 ELSE upFor[p]]
    BY <1>3 DEF Cards!Stop
  <2>2. \A j \in ServerPid : j # i => process'[j] = process[j]
    BY <1>T, <2>1
  <2>3. ServedSince'
    BY <1>T, <2>1, <2>2 DEF ShownInv, ServedSince
  <2>4. upFor' \in [Port -> 0..RecheckTicks]
    BY <1>T, <2>1
  <2>5. QED
    BY <1>0, <1>T, <2>1, <2>3, <2>4, TimeLost
<1>4. ASSUME NEW i \in ServerPid, Cards!Generate(i) PROVE ShownInv'
  <2>1. /\ UNCHANGED <<registry, upFor, detected, reading, snapshot, due>>
        /\ process' = [process EXCEPT ![i].counter = process[i].counter + 1]
    BY <1>4 DEF Cards!Generate
  <2> DEFINE new == [process[i] EXCEPT !.counter = process[i].counter + 1]
  <2>2. new.listens = process[i].listens /\ new.kind = process[i].kind
    BY <1>T DEF Process
  <2>a. process' = [process EXCEPT ![i] = new]
    BY <2>1
  <2> HIDE DEF new
  <2>3. \A j \in ServerPid : process'[j].listens = process[j].listens /\ process'[j].kind = process[j].kind
    BY <1>T, <2>2, <2>a
  <2>4. ServedSince'
    BY <2>1, <2>3 DEF ShownInv, ServedSince
  <2>5. QED
    BY <1>0, <1>T, <2>1, <2>4, TimeLost
<1>5. ASSUME NEW p \in Port, NEW engine \in Cards!Engines, Cards!EditRegistry(p, engine) PROVE ShownInv'
  <2>1. /\ UNCHANGED <<process, detected, reading, snapshot, due>>
        /\ registry' = [registry EXCEPT ![p] = engine] /\ upFor' = [upFor EXCEPT ![p] = 0]
    BY <1>5 DEF Cards!EditRegistry
  <2>2. ServedSince'
    BY <1>T, <2>1 DEF ShownInv, ServedSince
  <2>3. registry' \in [Port -> Cards!Engines] /\ upFor' \in [Port -> 0..RecheckTicks]
    BY <1>T, <2>1
  <2>4. QED
    BY <1>0, <1>T, <2>1, <2>2, <2>3, TimeLost
<1>6. ASSUME Cards!Tick PROVE ShownInv'
  <2>1. /\ reading.phase = "idle" /\ due' = TRUE /\ UNCHANGED <<process, registry, reading, snapshot>>
        /\ detected' = [p \in Port |-> IF detected[p].asked /\ detected[p].age < RecheckTicks
                                       THEN [detected[p] EXCEPT !.age = @ + 1] ELSE detected[p]]
        /\ upFor' = [p \in Port |->
              IF (\E i \in Cards!Servers(p) : process[i].kind = "open") /\ upFor[p] < RecheckTicks
              THEN upFor[p] + 1 ELSE upFor[p]]
    BY <1>6 DEF Cards!Tick
  <2>2. upFor' \in [Port -> 0..RecheckTicks]
    <3>1. \A p \in Port : upFor[p] \in 0..RecheckTicks
      BY <1>T
    <3>2. QED
      BY <1>T, <2>1, <3>1
  <2>3. ASSUME NEW p \in Port
        PROVE  /\ detected'[p] \in Asked
               /\ detected'[p].asked = detected[p].asked /\ detected'[p].tensorfold = detected[p].tensorfold
               /\ \/ detected'[p].age = detected[p].age /\ (detected[p].asked => detected[p].age >= RecheckTicks)
                  \/ detected'[p].age = detected[p].age + 1
    <3>1. detected[p] \in Asked
      BY <1>T
    <3>2. CASE detected[p].asked /\ detected[p].age < RecheckTicks
      <4>1. detected'[p] = [detected[p] EXCEPT !.age = detected[p].age + 1]
        BY <2>1, <3>2
      <4>2. QED
        BY <3>1, <4>1 DEF Asked
    <3>3. CASE ~(detected[p].asked /\ detected[p].age < RecheckTicks)
      <4>1. detected'[p] = detected[p] /\ detected[p].age \in Nat
        BY <2>1, <3>1, <3>3 DEF Asked
      <4>2. QED
        BY <1>T, <3>1, <3>3, <4>1
    <3>4. QED
      BY <3>2, <3>3
  <2>4. ServedTyped'
    BY <1>T, <2>1, <2>2, <2>3 DEF ServedTyped
  <2>5. ServedSince'
    <3> SUFFICES ASSUME NEW p \in Port, upFor'[p] > 0
                 PROVE  \E i \in ServerPid : p \in process[i].listens /\ process[i].kind = "open"
      BY <2>1 DEF ServedSince
    <3>1. upFor[p] > 0 \/ \E i \in Cards!Servers(p) : process[i].kind = "open"
      BY <1>T, <2>1
    <3>2. QED
      BY <3>1 DEF ShownInv, ServedSince, Cards!Servers
  <2>6. VerdictsOlder'
    <3> SUFFICES ASSUME NEW p \in Port, detected'[p].asked, ~detected'[p].tensorfold PROVE detected'[p].age >= upFor'[p]
      BY DEF VerdictsOlder
    <3>1. detected[p].asked /\ ~detected[p].tensorfold
      BY <2>3
    <3>2. detected[p].age >= upFor[p] /\ detected[p].age \in Nat /\ upFor[p] \in 0..RecheckTicks
      BY <1>T, <3>1 DEF ShownInv, VerdictsOlder, Asked
    <3>3. upFor'[p] \in {upFor[p], upFor[p] + 1} /\ upFor'[p] \in 0..RecheckTicks
      BY <2>1, <2>2
    <3>4. \/ detected'[p].age = detected[p].age /\ detected[p].age >= RecheckTicks
          \/ detected'[p].age = detected[p].age + 1
      BY <2>3, <3>1
    <3>5. QED
      BY <1>T, <3>2, <3>3, <3>4
  <2>7. QED
    BY <1>0, <2>1, <2>4, <2>5, <2>6 DEF ShownInv, ReadShows
<1>7. ASSUME NEW ok \in BOOLEAN, Cards!ReadRegistry(ok) PROVE ShownInv'
  <2>1. /\ due /\ UNCHANGED <<process, registry, due, detected, snapshot, upFor>>
        /\ reading' = [Cards!Idle EXCEPT !.phase = "scan", !.error = ~ok, !.entries = IF ok THEN registry ELSE @]
    BY <1>7 DEF Cards!ReadRegistry, Cards!environment
  <2>2. reading'.phase = "scan" /\ reading'.error = ~ok /\ (ok => reading'.entries = registry)
    BY <2>1 DEF Cards!Idle
  <2>3. ReadShows'
    BY <2>1, <2>2 DEF ReadShows, Due
  <2>4. ServedTyped' /\ ServedSince' /\ VerdictsOlder'
    BY <2>1, <2>2 DEF ShownInv, ServedTyped, ServedSince, VerdictsOlder
  <2>5. QED
    BY <1>0, <2>1, <2>3, <2>4 DEF ShownInv
<1>8. ASSUME NEW ok \in BOOLEAN, Cards!Scan(ok) PROVE ShownInv'
  <2>1. /\ reading.phase = "scan" /\ UNCHANGED <<process, registry, due, detected, snapshot, upFor>>
        /\ reading'.phase = "probe" /\ reading'.error = reading.error /\ reading'.entries = reading.entries
        /\ {p \in Port : reading.entries[p] # "none"} \subseteq reading'.todo
    BY <1>8 DEF Cards!Scan, Cards!environment
  <2>2. due
    BY <2>1 DEF ShownInv, ServedTyped
  <2>3. ReadShows'
    BY <2>1 DEF ShownInv, ReadShows, Due, Engaged
  <2>4. ServedTyped' /\ ServedSince' /\ VerdictsOlder'
    BY <2>1, <2>2 DEF ShownInv, ServedTyped, ServedSince, VerdictsOlder
  <2>5. QED
    BY <1>0, <2>1, <2>2, <2>3, <2>4 DEF ShownInv
<1>9. ASSUME NEW p \in Port, NEW fault \in BOOLEAN, Cards!Probe(p, fault) PROVE ShownInv'
  <2>1. /\ reading.phase = "probe" /\ UNCHANGED <<process, registry, due, snapshot>>
        /\ upFor' = IF fault THEN [upFor EXCEPT ![p] = 0] ELSE upFor
    BY <1>9 DEF Cards!Probe, Cards!environment
  <2>2. PICK token \in BOOLEAN :
           \E a \in Cards!Answers(p, token, fault) :
              \/ Cards!Known(p) /\ Cards!ProbeKnown(p, a)
              \/ reading.entries[p] = "absent" /\ ~Cards!Known(p) /\ Cards!Detect(p, a)
              \/ /\ reading.entries[p] = "other" /\ reading' = [reading EXCEPT !.todo = @ \ {p}]
                 /\ UNCHANGED detected
    BY <1>9 DEF Cards!Probe
  <2>3. PICK a \in Cards!Answers(p, token, fault) :
              \/ Cards!Known(p) /\ Cards!ProbeKnown(p, a)
              \/ reading.entries[p] = "absent" /\ ~Cards!Known(p) /\ Cards!Detect(p, a)
              \/ /\ reading.entries[p] = "other" /\ reading' = [reading EXCEPT !.todo = @ \ {p}]
                 /\ UNCHANGED detected
    BY <2>2
  <2>4. /\ reading'.phase = "probe" /\ reading'.error = reading.error /\ reading'.entries = reading.entries
        /\ reading'.todo = reading.todo \ {p}
        /\ \/ reading'.cards = reading.cards
           \/ reading'.cards = [reading.cards EXCEPT ![p] = Cards!Card(p, a)]
           \/ reading'.cards = [reading.cards EXCEPT ![p] = Cards!NoCard]
    <3>1. CASE Cards!Known(p) /\ Cards!ProbeKnown(p, a)
      BY <2>1, <3>1 DEF Cards!ProbeKnown
    <3>2. CASE reading.entries[p] = "absent" /\ ~Cards!Known(p) /\ Cards!Detect(p, a)
      BY <2>1, <3>2 DEF Cards!Detect
    <3>3. CASE /\ reading.entries[p] = "other" /\ reading' = [reading EXCEPT !.todo = @ \ {p}]
               /\ UNCHANGED detected
      BY <2>1, <3>3
    <3>4. QED
      BY <2>3, <3>1, <3>2, <3>3
  <2>5. upFor' \in [Port -> 0..RecheckTicks] /\ \A q \in Port : upFor'[q] \in {0, upFor[q]}
    BY <1>T, <2>1
  <2>6. upFor'[p] > 0 => ~fault /\ upFor[p] = upFor'[p] /\ Cards!Reachable(a) /\ Cards!LooksTensorFold(a)
    <3> SUFFICES ASSUME upFor'[p] > 0 PROVE ~fault /\ upFor[p] = upFor'[p] /\ Cards!Reachable(a) /\ Cards!LooksTensorFold(a)
      OBVIOUS
    <3>1. ~fault /\ upFor' = upFor
      BY <1>T, <2>1
    <3>2. a \in Cards!Answers(p, token, FALSE)
      BY <3>1
    <3>3. QED
      BY <3>1, <3>2, WellAnswers
  <2>7. detected' = detected \/ detected' = [detected EXCEPT ![p] = [asked |-> TRUE, tensorfold |-> TRUE, age |-> 0]]
        \/ detected' = [detected EXCEPT ![p] = [asked |-> TRUE, tensorfold |-> Cards!LooksTensorFold(a), age |-> 0]]
    <3>1. detected = [detected EXCEPT ![p] = detected[p]]
      BY <1>T
    <3>2. QED
      BY <2>3, <3>1 DEF Cards!ProbeKnown, Cards!Detect, Cards!Detection
  <2>8. detected' \in [Port -> Asked]
    <3>1. Cards!LooksTensorFold(a) \in BOOLEAN
      BY DEF Cards!LooksTensorFold
    <3>2. /\ [asked |-> TRUE, tensorfold |-> TRUE, age |-> 0] \in Asked
          /\ [asked |-> TRUE, tensorfold |-> Cards!LooksTensorFold(a), age |-> 0] \in Asked
      BY <3>1 DEF Asked
    <3>3. QED
      BY <1>T, <2>7, <3>2
  <2>9. VerdictsOlder'
    <3> SUFFICES ASSUME NEW q \in Port, detected'[q].asked, ~detected'[q].tensorfold PROVE detected'[q].age >= upFor'[q]
      BY DEF VerdictsOlder
    <3>1. upFor[q] \in 0..RecheckTicks /\ upFor'[q] \in {0, upFor[q]} /\ detected'[q].age \in Nat
      BY <1>T, <2>5, <2>8 DEF Asked
    <3>2. CASE detected'[q] = detected[q]
      <4>1. detected[q].age >= upFor[q]
        BY <3>2 DEF ShownInv, VerdictsOlder
      <4>2. QED
        BY <3>1, <3>2, <4>1
    <3>3. CASE detected'[q] # detected[q]
      <4>1. q = p /\ ~Cards!LooksTensorFold(a)
        BY <1>T, <2>7, <3>3
      <4>2. upFor'[q] = 0
        BY <2>6, <3>1, <4>1
      <4>3. QED
        BY <3>1, <4>2
    <3>4. QED
      BY <3>2, <3>3
  <2>10. Due(p)' => reading.error \/ reading'.cards[p].shown
    <3> SUFFICES ASSUME Due(p)', ~reading.error PROVE reading'.cards[p].shown
      OBVIOUS
    <3>1. /\ upFor'[p] >= RecheckTicks /\ upFor'[p] > 0 /\ upFor[p] = upFor'[p] /\ registry[p] \in Engaged
      BY <1>T, <2>1, <2>5, <2>6 DEF Due
    <3>2. reading.entries[p] = registry[p]
      BY <2>1, <3>1 DEF ShownInv, ReadShows, Due
    <3>3. DOMAIN reading.cards = Port
      BY DEF ShownInv, RatesInv
    <3>4. CASE Cards!Known(p) /\ Cards!ProbeKnown(p, a)
      <4>1. reading'.cards = [reading.cards EXCEPT ![p] = Cards!Card(p, a)]
        BY <3>4 DEF Cards!ProbeKnown
      <4>2. QED
        BY <3>3, <4>1 DEF Cards!Card
    <3>5. CASE reading.entries[p] = "absent" /\ ~Cards!Known(p) /\ Cards!Detect(p, a)
      <4>1. ~Cards!AskedLately(p)
        <5>1. detected[p].asked /\ ~detected[p].tensorfold => detected[p].age >= upFor[p]
          BY DEF ShownInv, VerdictsOlder
        <5>2. detected[p].age \in Nat /\ upFor[p] \in 0..RecheckTicks
          BY <1>T DEF Asked
        <5>3. QED
          BY <1>T, <3>1, <5>1, <5>2 DEF Cards!AskedLately
      <4>2. reading'.cards = [reading.cards EXCEPT ![p] = Cards!Card(p, a)]
        BY <2>6, <3>1, <3>5, <4>1 DEF Cards!Detect
      <4>3. QED
        BY <3>3, <4>2 DEF Cards!Card
    <3>6. QED
      BY <2>3, <3>1, <3>2, <3>4, <3>5 DEF Engaged
  <2>11. \A q \in Port : q # p => reading'.cards[q] = reading.cards[q]
    BY <2>4 DEF ShownInv, RatesInv
  <2>12. ReadShows'
    <3> SUFFICES ASSUME NEW q \in Port, Due(q)'
                 PROVE  \/ reading'.error
                        \/ /\ reading'.entries[q] = registry'[q]
                           /\ q \in reading'.todo \/ reading'.cards[q].shown
      BY DEF ReadShows
    <3>1. Due(q)
      BY <1>T, <2>1, <2>5 DEF Due
    <3>2. \/ reading.error
          \/ /\ reading.entries[q] = registry[q]
             /\ q \in reading.todo \/ reading.cards[q].shown
      BY <2>1, <3>1 DEF ShownInv, ReadShows
    <3>3. QED
      BY <2>1, <2>4, <2>10, <2>11, <3>2
  <2>13. due
    BY <2>1 DEF ShownInv, ServedTyped
  <2>14. ServedTyped'
    BY <1>T, <2>1, <2>4, <2>5, <2>8, <2>13 DEF ServedTyped
  <2>15. ServedSince'
    BY <1>T, <2>1, <2>5 DEF ShownInv, ServedSince
  <2>16. QED
    BY <1>0, <2>1, <2>9, <2>12, <2>13, <2>14, <2>15 DEF ShownInv
<1>10. ASSUME Cards!Publish PROVE ShownInv'
  <2>1. /\ reading.phase = "probe" /\ reading.todo = {} /\ UNCHANGED <<process, registry, detected, upFor>>
        /\ snapshot'.error = reading.error /\ snapshot'.cards = reading.cards
        /\ reading' = Cards!Idle /\ due' = FALSE
    BY <1>10 DEF Cards!Publish, Cards!environment
  <2>2. reading'.phase = "idle"
    BY <2>1 DEF Cards!Idle
  <2>3. \A p \in Port : Due(p)' => snapshot'.error \/ snapshot'.cards[p].shown
    BY <2>1 DEF ShownInv, ReadShows, Due
  <2>4. ServedTyped' /\ ServedSince' /\ VerdictsOlder' /\ ReadShows'
    BY <2>1, <2>2 DEF ShownInv, ServedTyped, ServedSince, VerdictsOlder, ReadShows
  <2>5. QED
    BY <1>0, <2>3, <2>4 DEF ShownInv
<1>11. CASE UNCHANGED Cards!vars
  <2>1. UNCHANGED <<process, registry, due, reading, detected, snapshot, upFor>>
    BY <1>11 DEF Cards!vars
  <2>2. QED
    BY <1>0, <2>1 DEF ShownInv, ServedTyped, ServedSince, VerdictsOlder, ReadShows, Due
<1>12. QED
  BY <1>1, <1>2, <1>3, <1>4, <1>5, <1>6, <1>7, <1>8, <1>9, <1>10, <1>11 DEF Cards!Next

\* An open engine that has answered for the recheck time is on the snapshot, whatever held its
\* port before, unless the registry names another engine there or could not be read.
THEOREM ServersShown == PartsSpec => []ServerShown
<1>1. ShownInv => ServerShown
  BY DEF ShownInv, Due, Engaged, ServerShown, Cards!ServerShown
<1>2. QED
  BY <1>1, ShownStart, ShownStep, CardsPart, PTL

-----------------------------------------------------------------------------
(* The room archive: src/src/room-archive.mjs *)

LEMMA ArchivePart == PartsSpec => Archive!Init /\ [][Archive!Next]_(Archive!vars)
<1>1. PartsInit => Archive!Init
  BY DEF PartsInit
<1>2. [PartsNext]_partsVars => [Archive!Next]_(Archive!vars)
  BY DEF PartsNext, partsVars, storeVars, archiveVars, Archive!vars
<1>3. QED
  BY <1>1, <1>2, PTL DEF PartsSpec

Place == 1..ArchiveMessages
GapRecord == [n : Nat \ {0}, before : Place, until : Place]

\* Some gap is around m; every hole of `has` that lies between two of `ends` is in a gap.
Covered(gaps, m) == \E g \in gaps : g.until < m /\ m < g.before
NamedBetween(ends, has, gaps) ==
    \A m \in Place \ has : (\E low, high \in ends : low < m /\ m < high) => Covered(gaps, m)
Named(has, gaps) == NamedBetween(has, has, gaps)

\* From x upwards nothing is missing below the newest, and below it only what was known.
Gapless(has, x) == \A m \in Place \ has : x <= m => \A a \in has : a < m
KnownBelow(has, known, x) == \A a \in has : a < x => a \in known

\* A page the API answered: all from y up to u.
IsPage(page, y, u) ==
    /\ y < u /\ page = y..(u - 1)
    /\ Archive!Min(page) = y /\ (Archive!Short(page) => y = 1)

\* The gap this sync opened reaches from the newest known message up to y at least.
OwnGap(s, y) ==
    \E g \in s.gaps : /\ g.n = s.own /\ g.until \in s.known /\ y <= g.before
                      /\ \A k \in s.known : k <= g.until

\* Why what is below y and not archived is no silent hole.
Accounted(s, y) == s.known = {} \/ (\E k \in s.known : y <= k) \/ y = 1 \/ OwnGap(s, y)

NewestWalk(s) ==
    /\ s.healing = Archive!NoGap
    /\ NamedBetween(s.known, archive, Archive!Without(s, s.own))
    /\ s.step = "fetch" =>
          \/ s.before = Archive!Newest /\ s.known = archive /\ s.own = Archive!NoGap
          \/ /\ s.before \in 1..top
             /\ Gapless(archive, s.before) /\ KnownBelow(archive, s.known, s.before)
             /\ \A k \in s.known : k < s.before
             /\ s.known = {} \/ OwnGap(s, s.before)
    /\ s.step = "append" =>
          \E y, u \in 1..(top + 1) :
             /\ IsPage(s.page, y, u) /\ Accounted(s, y)
             /\ Gapless(archive, u) /\ KnownBelow(archive, s.known, u)
             /\ \A k \in s.known : k < u
    /\ s.step = "stored" =>
          \E y, u \in 1..(top + 1) :
             /\ IsPage(s.page, y, u) /\ Accounted(s, y) /\ s.page \subseteq archive
             /\ Gapless(archive, y) /\ KnownBelow(archive, s.known, y)
             /\ \A k \in s.known : k < y \/ k \in s.page

HealingWalk(s) ==
    /\ s.healing # Archive!NoGap \/ s.step # "fetch" =>
          s.healing # s.own /\ \E g \in s.gaps : g.n = s.healing
    /\ s.step # "fetch" => \E y \in 1..top : IsPage(s.page, y, Archive!Gap(s, s.healing).before)
    /\ s.step = "stored" => s.page \subseteq archive

OlderWalk(s) ==
    s.step = "append" => \E y, u \in 1..(top + 1) : IsPage(s.page, y, u) /\ u \in archive /\ \A a \in archive : u <= a

Walking(s) ==
    /\ s.phase \in {"newest", "heal", "backfill"} /\ s.step \in {"fetch", "append", "stored"}
    /\ s.gaps = saved.gaps /\ s.held = archive /\ s.known \subseteq archive
    /\ s.phase = "newest" => NewestWalk(s)
    /\ s.phase = "heal" => HealingWalk(s)
    /\ s.phase = "backfill" => OlderWalk(s)

GapsSound(gaps) ==
    /\ IsFiniteSet(gaps) /\ gaps \subseteq GapRecord
    /\ \A g \in gaps : g.before <= top /\ g.until \in archive /\ g.until < g.before
    /\ \A g, h \in gaps : g.n = h.n => g = h

ArchiveInv(c) ==
    /\ top \in 0..ArchiveMessages /\ archive \subseteq 1..top /\ DOMAIN call = {c}
    /\ GapsSound(saved.gaps) /\ Named(archive, saved.gaps)
    /\ (call[c].phase = "idle" /\ call[c].step = "fetch") \/ Walking(call[c])

LEMMA Bounded == ArchiveMessages \in Nat /\ ArchiveMessages > 0 /\ PageSize \in Nat /\ PageSize > 0
  BY StoreAssumptions DEF Archive!ArchiveAssumption

\* A set of numbers has a least member.
LEMMA Least == ASSUME NEW S \in SUBSET Nat, S # {} PROVE \E x \in S : \A y \in S : x <= y
<1> DEFINE R == {ss \in Nat \X Nat : ss[1] < ss[2]}
<1>1. IsWellFoundedOn(R, Nat)
  BY NatLessThanWellFounded DEF OpToRel
<1> HIDE DEF R
<1>2. PICK x \in S : \A y \in S : <<y, x>> \notin R
  BY <1>1, WFMin
<1>3. \A y \in S : ~(y < x)
  BY <1>2 DEF R
<1>4. QED
  BY <1>3

\* A bounded one has a greatest.
LEMMA Greatest == ASSUME NEW S \in SUBSET Nat, S # {}, NEW b \in Nat, \A x \in S : x <= b
                  PROVE  \E x \in S : \A y \in S : y <= x
<1> DEFINE T == {b - x : x \in S}
<1>1. T \in SUBSET Nat /\ T # {}
  <2>1. \A x \in S : b - x \in Nat
    OBVIOUS
  <2>2. \A x \in S : b - x \in T
    OBVIOUS
  <2>3. QED
    BY <2>1, <2>2
<1>2. PICK t \in T : \A u \in T : t <= u
  BY <1>1, Least
<1>3. PICK x \in S : t = b - x
  OBVIOUS
<1>4. ASSUME NEW y \in S PROVE y <= x
  <2>1. b - x <= b - y
    BY <1>2, <1>3
  <2>2. x \in Nat /\ y \in Nat
    OBVIOUS
  <2>3. QED
    BY <2>1, <2>2
<1>5. QED
  BY <1>4

\* The archive's own copies of the operators it takes from the libraries.
LEMMA ArchiveOperators ==
    /\ \A S : Archive!Cardinality(S) = Cardinality(S)
    /\ \A S \in SUBSET Nat : \A x \in S : (\A y \in S : x <= y) => Archive!Min(S) = x
    /\ \A S \in SUBSET Nat : \A x \in S : (\A y \in S : y <= x) => Archive!Max(S) = x
<1>1. \A S : Archive!Cardinality(S) = Cardinality(S)
  BY DEF Archive!Cardinality, Cardinality
<1>2. ASSUME NEW S \in SUBSET Nat, NEW x \in S, \A y \in S : x <= y PROVE Archive!Min(S) = x
  <2>1. \A z \in S : (\A y \in S : z =< y) => z = x
    BY <1>2
  <2>2. Archive!Min(S) \in S /\ \A y \in S : Archive!Min(S) =< y
    BY <1>2 DEF Archive!Min
  <2>3. QED
    BY <2>1, <2>2
<1>3. ASSUME NEW S \in SUBSET Nat, NEW x \in S, \A y \in S : y <= x PROVE Archive!Max(S) = x
  <2>1. \A z \in S : (\A y \in S : z >= y) => z = x
    BY <1>3
  <2>2. Archive!Max(S) \in S /\ \A y \in S : Archive!Max(S) >= y
    BY <1>3 DEF Archive!Max
  <2>3. QED
    BY <2>1, <2>2
<1>4. QED
  BY <1>1, <1>2, <1>3

\* What the API answers is a page, and an empty answer means the room's start.
LEMMA PageAnswered ==
  ASSUME top \in 0..ArchiveMessages, NEW b, b = Archive!Newest \/ b \in 1..top
  PROVE  /\ Archive!PageBelow(b) # {} =>
              \E y \in 1..top, u \in 1..(top + 1) :
                 IsPage(Archive!PageBelow(b), y, u) /\ u = IF b = Archive!Newest THEN top + 1 ELSE b
         /\ Archive!PageBelow(b) = {} => b = 1 \/ top = 0
<1> USE StoreAssumptions DEF Archive!ArchiveAssumption, Archive!Newest
<1> DEFINE upper == IF b = Archive!Newest THEN top ELSE b - 1
           page == {m \in 1..upper : m > upper - PageSize}
           y == IF upper < PageSize THEN 1 ELSE upper - PageSize + 1
<1>1. upper \in 0..top /\ Archive!PageBelow(b) = page
  BY DEF Archive!PageBelow
<1>2. CASE upper = 0
  <2>1. page = {}
    BY <1>2
  <2>2. QED
    BY <1>1, <1>2, <2>1
<1>3. CASE upper # 0
  <2> HIDE DEF upper
  <2>1. y \in 1..upper /\ page = y..upper /\ upper \in Nat
    BY <1>1, <1>3
  <2>a. y = IF upper < PageSize THEN 1 ELSE upper - PageSize + 1
    OBVIOUS
  <2> HIDE DEF page, y
  <2>2. Archive!Min(page) = y
    <3>1. page \in SUBSET Nat /\ y \in page /\ \A z \in page : y <= z
      BY <2>1
    <3>2. QED
      BY <3>1, ArchiveOperators
  <2>3. Archive!Short(page) => y = 1
    <3>1. \A a, z \in Nat : a <= z => Cardinality(a..z) = z - a + 1
      BY FS_Interval
    <3>2. Archive!Short(page) => Cardinality(page) < PageSize
      BY ArchiveOperators DEF Archive!Short
    <3>3. y \in Nat /\ upper \in Nat /\ y <= upper /\ Cardinality(page) = Cardinality(y..upper)
      BY <2>1
    <3>4. Cardinality(page) = upper - y + 1
      BY <3>1, <3>3
    <3>5. QED
      BY <2>1, <2>a, <3>2, <3>4
  <2>4. IsPage(page, y, upper + 1)
    BY <2>1, <2>2, <2>3 DEF IsPage
  <2>5. y \in 1..top /\ upper + 1 \in 1..(top + 1) /\ page # {}
    <3>1. upper \in 0..top /\ top \in Nat
      BY <1>1, Bounded
    <3>2. y \in 1..top /\ upper + 1 \in 1..(top + 1) /\ y \in y..upper
      BY <2>1, <3>1
    <3>3. QED
      BY <2>1, <3>2
  <2>6. upper + 1 = IF b = Archive!Newest THEN top + 1 ELSE b
    BY DEF upper
  <2>7. QED
    BY <1>1, <2>4, <2>5, <2>6
<1>4. QED
  BY <1>2, <1>3

\* Nothing is silent when all below y was known, or is in the gap the sync opened.
LEMMA BlockNamed ==
  ASSUME NEW has \in SUBSET Place, NEW known \in SUBSET has, NEW gaps \in SUBSET GapRecord,
         NEW elder \in SUBSET gaps, NEW y \in Nat,
         Gapless(has, y), KnownBelow(has, known, y), NamedBetween(known, has, elder),
         \/ known = {} \/ (\E k \in known : y <= k) \/ y = 1
         \/ \E g \in gaps : g.until \in known /\ y <= g.before /\ \A k \in known : k <= g.until
  PROVE  Named(has, gaps)
<1> SUFFICES ASSUME NEW m \in Place \ has, NEW low \in has, NEW high \in has, low < m, m < high
             PROVE  Covered(gaps, m)
  BY DEF Named, NamedBetween
<1> USE DEF Place
<1>1. m < y
  BY DEF Gapless
<1>2. low \in known
  BY <1>1 DEF KnownBelow
<1>3. ASSUME NEW k \in known, m < k PROVE Covered(gaps, m)
  BY <1>2, <1>3 DEF NamedBetween, Covered
<1>4. CASE \E k \in known : y <= k
  BY <1>1, <1>3, <1>4
<1>5. ASSUME NEW g \in gaps, g.until \in known, y <= g.before, \A k \in known : k <= g.until PROVE Covered(gaps, m)
  <2>1. g.before \in Place /\ g.until \in Place /\ g.until # m
    BY <1>5 DEF GapRecord
  <2>2. CASE m < g.until
    BY <1>3, <1>5, <2>2
  <2>3. CASE g.until < m
    BY <1>1, <1>5, <2>1, <2>3 DEF Covered
  <2>4. QED
    BY <2>1, <2>2, <2>3
<1>6. QED
  BY <1>1, <1>2, <1>4, <1>5

LEMMA BlockGrows ==
  ASSUME NEW has \in SUBSET Place, NEW known, NEW y \in Nat, NEW u \in Nat, y < u,
         Gapless(has, u), KnownBelow(has, known, u)
  PROVE  Gapless(has \cup (y..(u - 1)), y) /\ KnownBelow(has \cup (y..(u - 1)), known, y)
  BY DEF Gapless, KnownBelow, Place

LEMMA NamedGrows ==
  ASSUME NEW ends, NEW has, NEW more, NEW gaps, NamedBetween(ends, has, gaps)
  PROVE  NamedBetween(ends, has \cup more, gaps)
  BY DEF NamedBetween

\* A page stored inside a gap, or right below all there is, makes no hole that is not named.
LEMMA HealedNamed ==
  ASSUME NEW has \in SUBSET Place, NEW gaps \in SUBSET GapRecord, NEW g \in gaps, NEW y \in Nat,
         g.until \in has, g.until < g.before, Named(has, gaps)
  PROVE  Named(has \cup (y..(g.before - 1)), gaps)
<1> DEFINE page == y..(g.before - 1)
<1> SUFFICES ASSUME NEW m \in Place \ (has \cup page), NEW low \in has \cup page, NEW high \in has \cup page,
                    low < m, m < high
             PROVE  Covered(gaps, m)
  BY DEF Named, NamedBetween
<1> USE DEF Place, GapRecord
<1>1. ASSUME NEW a \in has, NEW b \in has, a < m, m < b PROVE Covered(gaps, m)
  BY <1>1 DEF Named, NamedBetween
<1>2. CASE g.before <= m
  <2>1. high \in has
    BY <1>2
  <2>2. QED
    BY <1>1, <1>2, <2>1
<1>3. CASE m < g.before
  <2>1. m < y /\ low \in has
    BY <1>3
  <2>2. CASE g.until < m
    BY <1>3, <2>2 DEF Covered
  <2>3. CASE m < g.until
    BY <1>1, <2>1, <2>3
  <2>4. QED
    BY <2>2, <2>3
<1>4. QED
  BY <1>2, <1>3

LEMMA OlderNamed ==
  ASSUME NEW has \in SUBSET Place, NEW gaps, NEW y \in Nat, NEW u \in has, \A a \in has : u <= a, Named(has, gaps)
  PROVE  Named(has \cup (y..(u - 1)), gaps)
<1> DEFINE page == y..(u - 1)
<1> SUFFICES ASSUME NEW m \in Place \ (has \cup page), NEW low \in has \cup page, NEW high \in has \cup page,
                    low < m, m < high
             PROVE  Covered(gaps, m)
  BY DEF Named, NamedBetween
<1>1. u < m /\ high \in has
  BY DEF Place
<1>2. QED
  BY <1>1 DEF Named, NamedBetween

\* Gaps that cover as much.
LEMMA NamedBy ==
  ASSUME NEW has, NEW gaps, NEW elder, Named(has, gaps),
         \A m \in Place \ has : Covered(gaps, m) => Covered(elder, m)
  PROVE  Named(has, elder)
  BY DEF Named, NamedBetween

\* What the steps keep beside the walk itself.
Kept(c) ==
    /\ top \in 0..ArchiveMessages /\ archive \subseteq 1..top /\ DOMAIN call = {c}
    /\ GapsSound(saved.gaps) /\ Named(archive, saved.gaps)

LEMMA OthersSound ==
  ASSUME NEW gaps, GapsSound(gaps), NEW fewer \in SUBSET gaps
  PROVE  GapsSound(fewer)
  BY FS_Subset DEF GapsSound

\* Gaps stay sound as the room and the archive grow.
LEMMA SoundGrows ==
  ASSUME NEW gaps, GapsSound(gaps), top \in Nat, top' \in Nat, top <= top', archive \subseteq archive'
  PROVE  GapsSound(gaps)'
  BY DEF GapsSound, GapRecord, Place

LEMMA NoneWithout ==
  ASSUME NEW s, s.gaps \subseteq GapRecord
  PROVE  Archive!Without(s, Archive!NoGap) = s.gaps
  BY DEF Archive!Without, Archive!NoGap, GapRecord

\* The walk a step leaves in progress.
LEMMA WalksOn ==
  ASSUME NEW c, NEW t, t = call'[c], Kept(c)', (t.phase = "idle" /\ t.step = "fetch") \/ Walking(t)'
  PROVE  ArchiveInv(c)'
  BY DEF ArchiveInv, Kept, Walking, NewestWalk, HealingWalk, OlderWalk, Accounted, OwnGap,
     IsPage

LEMMA StartStep ==
  ASSUME NEW c, ArchiveInv(c), NEW b, NEW back, Archive!Start(c, b, back)
  PROVE  ArchiveInv(c)'
<1>1. PICK t : t = call'[c]
  OBVIOUS
<1>2. /\ t.phase = "newest" /\ t.step = "fetch" /\ t.known = archive /\ t.held = archive /\ t.gaps = saved.gaps
      /\ t.before = Archive!Newest /\ t.own = Archive!NoGap /\ t.healing = Archive!NoGap
      /\ UNCHANGED <<top, archive, saved>> /\ DOMAIN call' = {c}
  BY <1>1 DEF ArchiveInv, Archive!Start, Archive!Resting
<1>3. Archive!Without(t, t.own) = saved.gaps
  BY <1>2, NoneWithout DEF ArchiveInv, GapsSound
<1>4. NewestWalk(t)'
  BY <1>2, <1>3 DEF NewestWalk, ArchiveInv, Named
<1>5. Walking(t)' /\ Kept(c)'
  BY <1>2, <1>4 DEF Walking, Kept, ArchiveInv, GapsSound
<1>6. QED
  BY <1>1, <1>5, WalksOn

\* There is a number no gap has.
LEMMA FreshNumber ==
  ASSUME NEW gaps \in SUBSET GapRecord, IsFiniteSet(gaps)
  PROVE  \E k \in 1..(Cardinality(gaps) + 1) : \A g \in gaps : g.n # k
<1> SUFFICES ASSUME \A k \in 1..(Cardinality(gaps) + 1) : \E g \in gaps : g.n = k PROVE FALSE
  OBVIOUS
<1> DEFINE N == Cardinality(gaps)
           f == [k \in 1..(N + 1) |-> CHOOSE g \in gaps : g.n = k]
<1>1. N \in Nat
  BY FS_CardinalityType
<1>2. \A k \in 1..(N + 1) : f[k] \in gaps /\ f[k].n = k
  OBVIOUS
<1>3. f \in [1..(N + 1) -> gaps]
  BY <1>2
<1>4. IsFiniteSet(1..(N + 1)) /\ Cardinality(1..(N + 1)) = N + 1
  <2>1. 1 \in Int /\ N + 1 \in Int /\ ~(1 > N + 1) /\ (N + 1) - 1 + 1 = N + 1
    BY <1>1
  <2> HIDE DEF N
  <2>2. QED
    BY <2>1, FS_Interval
<1>5. N < N + 1
  BY <1>1
<1> DEFINE S == 1..(N + 1)
<1> HIDE DEF f, S
<1>6. IsFiniteSet(S) /\ Cardinality(gaps) < Cardinality(S) /\ f \in [S -> gaps]
  BY <1>3, <1>4, <1>5 DEF S
<1>7. \E x, y \in S : x # y /\ f[x] = f[y]
  BY <1>6, FS_PigeonHole
<1>8. QED
  BY <1>2, <1>7 DEF S

\* A gap is lowered to what is left of it.
LEMMA LoweredSound ==
  ASSUME NEW gaps, GapsSound(gaps), NEW g \in gaps, NEW x \in 1..top, g.until < x, top \in 0..ArchiveMessages,
         NEW lower, lower = [g EXCEPT !.before = x]
  PROVE  /\ lower.n = g.n /\ lower.before = x /\ lower.until = g.until
         /\ GapsSound((gaps \ {g}) \cup {lower})
<1>1. g \in GapRecord /\ x \in Place /\ g.until \in Nat
  BY Bounded DEF GapsSound, Place, GapRecord
<1>2. lower \in GapRecord /\ lower.n = g.n /\ lower.before = x /\ lower.until = g.until
  BY <1>1 DEF GapRecord
<1>3. IsFiniteSet((gaps \ {g}) \cup {lower})
  BY FS_RemoveElement, FS_AddElement DEF GapsSound
<1>4. \A h \in (gaps \ {g}) \cup {lower} : h.before <= top /\ h.until \in archive /\ h.until < h.before
  <2>1. g.until \in archive /\ x <= top
    BY DEF GapsSound
  <2>2. QED
    BY <1>2, <2>1 DEF GapsSound
<1>5. \A h, k \in (gaps \ {g}) \cup {lower} : h.n = k.n => h = k
  BY <1>2 DEF GapsSound
<1>6. (gaps \ {g}) \cup {lower} \subseteq GapRecord
  BY <1>2 DEF GapsSound
<1>7. QED
  BY <1>2, <1>3, <1>4, <1>5, <1>6 DEF GapsSound

\* The gap a sync opens.
LEMMA OpenedSound ==
  ASSUME NEW gaps, GapsSound(gaps), NEW g \in GapRecord, g.before <= top, g.until \in archive, g.until < g.before,
         \A h \in gaps : h.n # g.n
  PROVE  GapsSound(gaps \cup {g})
  BY FS_AddElement DEF GapsSound

LEMMA StoredNewestStep ==
  ASSUME NEW c, ArchiveInv(c), Archive!StoredNewest(c)
  PROVE  ArchiveInv(c)'
<1> DEFINE s == call[c]
           ends == Archive!Short(s.page) \/ s.page \cap s.known # {}
           elder == Archive!Without(s, s.own)
<1>1. PICK t : t = call'[c]
  OBVIOUS
<1>2. /\ s.phase = "newest" /\ s.step = "stored" /\ Walking(s) /\ NewestWalk(s) /\ s.gaps = saved.gaps
      /\ UNCHANGED <<top, archive>> /\ DOMAIN call' = {c} /\ Kept(c)
  BY DEF Archive!StoredNewest, ArchiveInv, Walking, Kept
<1>3. PICK y \in 1..(top + 1), u \in 1..(top + 1) :
             /\ IsPage(s.page, y, u) /\ Accounted(s, y) /\ s.page \subseteq archive
             /\ Gapless(archive, y) /\ KnownBelow(archive, s.known, y)
             /\ \A k \in s.known : k < y \/ k \in s.page
  BY <1>2 DEF NewestWalk
<1>4. y \in 1..top /\ y \in s.page /\ Archive!Min(s.page) = y /\ y \in Nat /\ \A k \in s.page : y <= k
  BY <1>2, <1>3 DEF IsPage, Kept
<1>5. /\ archive \in SUBSET Place /\ s.known \in SUBSET archive /\ saved.gaps \in SUBSET GapRecord
      /\ elder \in SUBSET saved.gaps /\ NamedBetween(s.known, archive, elder)
  <2>1. archive \in SUBSET Place
    BY <1>2, Bounded DEF Kept, Place
  <2>2. saved.gaps \in SUBSET GapRecord
    BY <1>2 DEF Kept, GapsSound
  <2>3. QED
    BY <1>2, <2>1, <2>2 DEF Walking, NewestWalk, Archive!Without
<1> HIDE DEF s
<1>6. CASE ends
  <2>1. /\ t.gaps = elder /\ t.own = Archive!NoGap /\ t.phase = "heal" /\ t.step = "fetch"
        /\ t.known = s.known /\ t.held = s.held /\ t.healing = s.healing
    BY <1>1, <1>6 DEF Archive!StoredNewest, ArchiveInv, s
  <2>2. saved'.gaps = elder
    BY <1>2, <1>6 DEF Archive!StoredNewest, Archive!SaveState, s
  <2>3. (\E k \in s.known : y <= k) \/ y = 1
    BY <1>3, <1>4, <1>6 DEF IsPage
  <2>4. Named(archive, elder)
    BY <1>3, <1>4, <1>5, <2>3, BlockNamed
  <2>5. GapsSound(elder)
    BY <1>2, <1>5, OthersSound DEF Kept
  <2>6. Kept(c)'
    BY <1>2, <2>2, <2>4, <2>5 DEF Kept, GapsSound
  <2>7. Walking(t)'
    BY <1>2, <2>1, <2>2 DEF Walking, HealingWalk, NewestWalk
  <2>8. QED
    BY <1>1, <2>6, <2>7, WalksOn
<1>7. CASE ~ends
  <2> DEFINE shifted == IF Archive!OpensGap(s, s.page)
                      THEN {IF g.n = s.own THEN [g EXCEPT !.before = y] ELSE g : g \in s.gaps}
                      ELSE s.gaps
  <2>1. /\ t.gaps = shifted /\ t.own = s.own /\ t.phase = "newest" /\ t.step = "fetch" /\ t.before = y
        /\ t.known = s.known /\ t.held = s.held /\ t.healing = s.healing
    BY <1>1, <1>2, <1>4, <1>7 DEF Archive!StoredNewest, ArchiveInv, s
  <2>2. saved'.gaps = shifted
    <3> DEFINE tt == [s EXCEPT !.gaps = shifted, !.before = y, !.step = "fetch", !.page = {}]
    <3>1. IF tt.gaps # s.gaps THEN Archive!SaveState(tt) ELSE UNCHANGED saved
      BY <1>4, <1>7 DEF Archive!StoredNewest, s
    <3>2. tt.gaps = shifted
      OBVIOUS
    <3> HIDE DEF tt, shifted
    <3>3. IF shifted # s.gaps THEN saved'.gaps = shifted ELSE saved' = saved
      BY <3>1, <3>2 DEF Archive!SaveState
    <3>4. QED
      BY <1>2, <3>3
  <2>3. \A k \in s.known : k < y
    BY <1>3, <1>7
  <2>4. /\ GapsSound(shifted) /\ Archive!Without(t, t.own) = elder
        /\ s.known = {} \/ OwnGap(t, y)
    <3>1. CASE s.known = {}
      <4>1. shifted = s.gaps
        BY <3>1 DEF Archive!OpensGap
      <4>2. QED
        BY <1>2, <2>1, <3>1, <4>1 DEF Kept, Archive!Without
    <3>2. CASE s.known # {}
      <4>1. Archive!OpensGap(s, s.page)
        BY <1>7, <3>2 DEF Archive!OpensGap
      <4>2. OwnGap(s, y)
        <5>1. y # 1
          <6>1. s.known \subseteq Place
            BY <1>5
          <6>2. QED
            BY <2>3, <3>2, <6>1 DEF Place
        <5>2. ~ \E k \in s.known : y <= k
          <6>1. ASSUME NEW k \in s.known PROVE k \in Nat
            <7>1. k \in 1..ArchiveMessages
              BY <1>5 DEF Place
            <7>2. QED
              BY <7>1, Bounded
          <6>2. QED
            BY <1>4, <2>3, <6>1
        <5>3. QED
          BY <1>3, <3>2, <5>1, <5>2 DEF Accounted
      <4>3. PICK g \in s.gaps : /\ g.n = s.own /\ g.until \in s.known /\ y <= g.before
                                /\ \A k \in s.known : k <= g.until
        BY <4>2 DEF OwnGap
      <4> DEFINE lower == [g EXCEPT !.before = y]
      <4>4. \A h \in s.gaps : h.n = s.own <=> h = g
        BY <1>2, <4>3 DEF Kept, GapsSound
      <4>5. shifted = (s.gaps \ {g}) \cup {lower}
        BY <4>1, <4>3, <4>4
      <4>6. g.until < y
        BY <2>3, <4>3
      <4>7. lower.n = g.n /\ lower.before = y /\ lower.until = g.until /\ GapsSound((s.gaps \ {g}) \cup {lower})
        <5>1. GapsSound(s.gaps) /\ top \in 0..ArchiveMessages
          BY <1>2 DEF Kept
        <5> HIDE DEF shifted, lower
        <5>2. lower = [g EXCEPT !.before = y]
          BY DEF lower
        <5>3. QED
          BY <1>4, <4>3, <4>6, <5>1, <5>2, LoweredSound
      <4> HIDE DEF lower, shifted
      <4>8. GapsSound(shifted)
        BY <4>5, <4>7
      <4>9. Archive!Without(t, t.own) = elder
        BY <2>1, <4>3, <4>4, <4>5, <4>7 DEF Archive!Without
      <4>10. OwnGap(t, y)
        BY <1>4, <2>1, <4>3, <4>5, <4>7 DEF OwnGap
      <4>11. QED
        BY <4>8, <4>9, <4>10
    <3>3. QED
      BY <3>1, <3>2
  <2> HIDE DEF shifted
  <2>5. Named(archive, shifted)
    <3>1. shifted \in SUBSET GapRecord /\ elder \in SUBSET shifted
      BY <2>1, <2>4 DEF GapsSound, Archive!Without
    <3>2. \/ s.known = {}
          \/ \E g \in shifted : g.until \in s.known /\ y <= g.before /\ \A k \in s.known : k <= g.until
      BY <2>1, <2>4 DEF OwnGap
    <3>3. QED
      BY <1>3, <1>4, <1>5, <3>1, <3>2, BlockNamed
  <2>6. Kept(c)'
    BY <1>2, <2>2, <2>4, <2>5 DEF Kept, GapsSound
  <2>7. NewestWalk(t)'
    <3>1. NamedBetween(t.known, archive, Archive!Without(t, t.own))
      BY <1>5, <2>1, <2>4
    <3>2. t.healing = Archive!NoGap
      BY <1>2, <2>1 DEF NewestWalk
    <3>3. /\ t.before \in 1..top /\ Gapless(archive, t.before) /\ KnownBelow(archive, t.known, t.before)
          /\ (\A k \in t.known : k < t.before) /\ (t.known = {} \/ OwnGap(t, t.before))
      BY <1>3, <1>4, <2>1, <2>3, <2>4
    <3>4. QED
      BY <1>2, <2>1, <3>1, <3>2, <3>3 DEF NewestWalk
  <2>8. Walking(t)'
    BY <1>2, <2>1, <2>2, <2>7 DEF Walking
  <2>9. QED
    BY <1>1, <2>6, <2>8, WalksOn
<1>8. QED
  BY <1>6, <1>7

LEMMA FetchNewestStep ==
  ASSUME NEW c, ArchiveInv(c), Archive!FetchNewest(c)
  PROVE  ArchiveInv(c)'
<1> DEFINE s == call[c]
           page == Archive!PageBelow(s.before)
           elder == Archive!Without(s, s.own)
           taken == [s EXCEPT !.pages = @ + 1, !.page = page, !.step = "append"]
<1>1. PICK t : t = call'[c]
  OBVIOUS
<1>2. /\ s.phase = "newest" /\ s.step = "fetch" /\ Walking(s) /\ NewestWalk(s) /\ s.gaps = saved.gaps
      /\ UNCHANGED <<top, archive>> /\ DOMAIN call' = {c} /\ Kept(c)
  BY DEF Archive!FetchNewest, ArchiveInv, Walking, Kept
<1>3. \/ s.before = Archive!Newest /\ s.known = archive /\ s.own = Archive!NoGap
      \/ /\ s.before \in 1..top
         /\ Gapless(archive, s.before) /\ KnownBelow(archive, s.known, s.before)
         /\ \A k \in s.known : k < s.before
         /\ s.known = {} \/ OwnGap(s, s.before)
  BY <1>2 DEF NewestWalk
<1>4. /\ archive \in SUBSET Place /\ s.known \in SUBSET archive /\ saved.gaps \in SUBSET GapRecord
      /\ elder \in SUBSET saved.gaps /\ NamedBetween(s.known, archive, elder) /\ top \in Nat
      /\ \A a \in archive : a \in Nat /\ a <= top
  <2>1. archive \in SUBSET Place /\ top \in Nat /\ \A a \in archive : a \in Nat /\ a <= top
    BY <1>2, Bounded DEF Kept, Place
  <2>2. saved.gaps \in SUBSET GapRecord
    BY <1>2 DEF Kept, GapsSound
  <2>3. QED
    BY <1>2, <2>1, <2>2 DEF Walking, NewestWalk, Archive!Without
<1>5. ASSUME page = {}, t = [s EXCEPT !.gaps = elder, !.own = Archive!NoGap, !.pages = @ + 1,
                                      !.reachedStart = TRUE, !.phase = "heal"],
             IF s.own # Archive!NoGap THEN saved'.gaps = elder ELSE saved' = saved
      PROVE  ArchiveInv(c)'
  <2>1. /\ t.gaps = elder /\ t.own = Archive!NoGap /\ t.phase = "heal" /\ t.step = "fetch"
        /\ t.known = s.known /\ t.held = s.held /\ t.healing = s.healing
    BY <1>2, <1>5
  <2>2. saved'.gaps = elder
    BY <1>2, <1>4, <1>5, NoneWithout
  <2>3. s.before = 1 \/ top = 0
    BY <1>2, <1>3, <1>5, PageAnswered DEF Kept
  <2>4. Named(archive, elder)
    <3>1. CASE archive = {}
      BY <3>1 DEF Named, NamedBetween
    <3>2. CASE archive # {}
      <4>1. s.before = 1 /\ s.before # Archive!Newest
        <5>1. PICK a \in archive : TRUE
          BY <3>2
        <5>2. 1 <= a /\ a \in Nat /\ a <= top
          BY <1>4, Bounded DEF Place
        <5>3. top # 0
          BY <1>4, <5>2
        <5>4. QED
          BY <2>3, <5>3, Bounded DEF Archive!Newest
      <4>2. Gapless(archive, 1)
        BY <1>3, <4>1
      <4>3. \A m \in Place \ archive : \A a \in archive : a < m
        BY <4>2 DEF Gapless, Place
      <4>4. \A m \in Place : m \in Nat
        BY DEF Place
      <4>5. QED
        BY <1>4, <4>3, <4>4 DEF Named, NamedBetween
    <3>3. QED
      BY <3>1, <3>2
  <2>5. GapsSound(elder)
    BY <1>2, <1>4, OthersSound DEF Kept
  <2>6. Kept(c)'
    BY <1>2, <2>2, <2>4, <2>5 DEF Kept, GapsSound
  <2>7. Walking(t)'
    BY <1>2, <2>1, <2>2 DEF Walking, HealingWalk, NewestWalk
  <2>8. QED
    BY <1>1, <2>6, <2>7, WalksOn
<1>6. ASSUME page # {}
      PROVE  \E y \in 1..top, u \in 1..(top + 1) :
                /\ IsPage(page, y, u) /\ u = (IF s.before = Archive!Newest THEN top + 1 ELSE s.before)
                /\ page = y..(u - 1) /\ y < u
                /\ Gapless(archive, u) /\ KnownBelow(archive, s.known, u) /\ \A k \in s.known : k < u
  <2>1. PICK y \in 1..top, u \in 1..(top + 1) :
           IsPage(page, y, u) /\ u = IF s.before = Archive!Newest THEN top + 1 ELSE s.before
    BY <1>2, <1>3, <1>6, PageAnswered DEF Kept
  <2>2. CASE s.before = Archive!Newest /\ s.known = archive
    <3>1. u = top + 1
      BY <2>1, <2>2
    <3>2. Gapless(archive, u) /\ KnownBelow(archive, s.known, u) /\ \A k \in s.known : k < u
      <4>1. \A a \in archive : a < u
        BY <1>4, <3>1
      <4>2. \A m \in Place : u <= m => \A a \in archive : a < m
        BY <1>4, <3>1 DEF Place
      <4>3. QED
        BY <2>2, <4>1, <4>2 DEF Gapless, KnownBelow
    <3>3. QED
      BY <2>1, <3>2 DEF IsPage
  <2>3. CASE /\ s.before \in 1..top
             /\ Gapless(archive, s.before) /\ KnownBelow(archive, s.known, s.before)
             /\ \A k \in s.known : k < s.before
    <3>1. s.before # Archive!Newest
      BY <1>2, <2>3, Bounded DEF Archive!Newest, Kept
    <3>2. u = s.before
      BY <2>1, <3>1
    <3>3. QED
      BY <2>1, <2>3, <3>2 DEF IsPage
  <2>4. QED
    BY <1>3, <2>2, <2>3
<1> HIDE DEF s, page
<1>7. ASSUME page # {}, Archive!OpensGap(s, page), s.own = Archive!NoGap, t = Archive!WithGap(taken, page),
             saved'.gaps = t.gaps
      PROVE  ArchiveInv(c)'
  <2>1. PICK y \in 1..top, u \in 1..(top + 1) :
                /\ IsPage(page, y, u) /\ u = (IF s.before = Archive!Newest THEN top + 1 ELSE s.before)
                /\ page = y..(u - 1) /\ y < u
                /\ Gapless(archive, u) /\ KnownBelow(archive, s.known, u) /\ \A k \in s.known : k < u
    BY <1>6, <1>7
  <2>2. s.known # {} /\ page \cap s.known = {}
    BY <1>7 DEF Archive!OpensGap
  <2>3. PICK k \in s.known : \A x \in s.known : x <= k
    <3>1. s.known \in SUBSET Nat /\ \A x \in s.known : x <= top
      BY <1>4
    <3>2. QED
      BY <1>4, <2>2, <3>1, Greatest
  <2>4. Archive!Max(s.known) = k
    <3>1. s.known \in SUBSET Nat
      BY <1>4
    <3>2. QED
      BY <2>3, <3>1, ArchiveOperators
  <2>5. \A x \in s.known : x < y
    BY <1>4, <2>1, <2>2
  <2> DEFINE fresh == CHOOSE n \in 1..(Archive!Cardinality(s.gaps) + 1) : \A g \in s.gaps : g.n # n
             gap == [n |-> fresh, before |-> y, until |-> k]
  <2>6. fresh \in Nat \ {0} /\ \A g \in s.gaps : g.n # fresh
    <3>1. s.gaps \in SUBSET GapRecord /\ IsFiniteSet(s.gaps)
      BY <1>2, <1>4 DEF Kept, GapsSound
    <3>2. Archive!Cardinality(s.gaps) = Cardinality(s.gaps)
      BY ArchiveOperators
    <3>3. \E n \in 1..(Archive!Cardinality(s.gaps) + 1) : \A g \in s.gaps : g.n # n
      BY <3>1, <3>2, FreshNumber
    <3>4. QED
      BY <3>3
  <2>7. /\ t.gaps = s.gaps \cup {gap} /\ t.own = fresh /\ t.phase = s.phase /\ t.step = "append" /\ t.page = page
        /\ t.known = s.known /\ t.held = s.held /\ t.healing = s.healing
    BY <1>7, <2>1, <2>4 DEF Archive!WithGap, IsPage
  <2>8. gap \in GapRecord /\ gap.n = fresh /\ gap.before = y /\ gap.until = k
    <3>1. y \in Place /\ k \in Place
      <4>1. k \in Place
        BY <1>4
      <4>2. top <= ArchiveMessages
        BY <1>2, Bounded DEF Kept
      <4>3. y \in Place
        BY <1>4, <4>2, Bounded DEF Place
      <4>4. QED
        BY <4>1, <4>3
    <3>2. QED
      BY <2>6, <3>1 DEF GapRecord
  <2> HIDE DEF fresh, gap
  <2>9. GapsSound(s.gaps \cup {gap})
    <3>1. GapsSound(s.gaps) /\ gap.before <= top /\ gap.until \in archive /\ gap.until < gap.before
      BY <1>2, <1>4, <2>5, <2>8 DEF Kept
    <3>2. QED
      BY <2>6, <2>8, <3>1, OpenedSound
  <2>10. Named(archive, s.gaps \cup {gap})
    <3>1. Named(archive, s.gaps)
      BY <1>2 DEF Kept
    <3>2. QED
      BY <3>1, NamedBy DEF Covered
  <2>11. Kept(c)'
    BY <1>2, <1>7, <2>7, <2>9, <2>10 DEF Kept, GapsSound
  <2>12. NewestWalk(t)'
    <3>1. NamedBetween(t.known, archive, Archive!Without(t, t.own))
      <4>1. Archive!Without(t, t.own) = s.gaps
        BY <2>6, <2>7, <2>8 DEF Archive!Without
      <4>2. elder = s.gaps
        BY <1>2, <1>4, <1>7, NoneWithout
      <4>3. QED
        BY <1>4, <2>7, <4>1, <4>2
    <3>2. OwnGap(t, y)
      BY <2>1, <2>3, <2>7, <2>8 DEF OwnGap
    <3>3. t.healing = Archive!NoGap
      BY <1>2, <2>7 DEF NewestWalk
    <3>4. /\ IsPage(t.page, y, u) /\ Accounted(t, y)
          /\ Gapless(archive, u) /\ KnownBelow(archive, t.known, u) /\ \A x \in t.known : x < u
      BY <2>1, <2>7, <3>2 DEF Accounted
    <3>5. y \in 1..(top + 1)
      BY <1>4
    <3>6. IsPage(t.page, y, u)' /\ Accounted(t, y)'
      BY <1>2, <3>4 DEF IsPage, Accounted, OwnGap
    <3>7. QED
      BY <1>2, <2>7, <3>1, <3>3, <3>4, <3>5, <3>6 DEF NewestWalk
  <2>13. Walking(t)'
    BY <1>2, <1>7, <2>7, <2>12 DEF Walking
  <2>14. QED
    BY <1>1, <2>11, <2>13, WalksOn
<1>8. ASSUME page # {}, ~(Archive!OpensGap(s, page) /\ s.own = Archive!NoGap), t = taken, saved' = saved
      PROVE  ArchiveInv(c)'
  <2>1. PICK y \in 1..top, u \in 1..(top + 1) :
                /\ IsPage(page, y, u) /\ u = (IF s.before = Archive!Newest THEN top + 1 ELSE s.before)
                /\ page = y..(u - 1) /\ y < u
                /\ Gapless(archive, u) /\ KnownBelow(archive, s.known, u) /\ \A k \in s.known : k < u
    BY <1>6, <1>8
  <2>2. /\ t.gaps = s.gaps /\ t.own = s.own /\ t.phase = s.phase /\ t.step = "append" /\ t.page = page
        /\ t.known = s.known /\ t.held = s.held /\ t.healing = s.healing
    BY <1>8
  <2>3. Accounted(s, y)
    <3>1. CASE ~Archive!OpensGap(s, page)
      <4>1. CASE page \cap s.known # {}
        BY <1>4, <2>1, <4>1 DEF Accounted
      <4>2. CASE s.known = {} \/ Archive!Short(page)
        BY <2>1, <4>2 DEF Accounted, IsPage
      <4>3. QED
        BY <3>1, <4>1, <4>2 DEF Archive!OpensGap
    <3>2. CASE s.own # Archive!NoGap
      <4>1. s.before \in 1..top /\ (s.known = {} \/ OwnGap(s, s.before))
        BY <1>3, <3>2
      <4>2. u = s.before
        BY <1>2, <2>1, <4>1, Bounded DEF Archive!Newest, Kept
      <4>3. ASSUME OwnGap(s, u) PROVE OwnGap(s, y)
        <5>1. PICK g \in s.gaps : /\ g.n = s.own /\ g.until \in s.known /\ u <= g.before
                                  /\ \A k \in s.known : k <= g.until
          BY <4>3 DEF OwnGap
        <5>2. g.before \in Nat
          BY <1>2, <1>4, <5>1 DEF GapRecord, Place
        <5>3. y <= g.before
          BY <2>1, <5>1, <5>2
        <5>4. QED
          BY <5>1, <5>3 DEF OwnGap
      <4>4. QED
        BY <4>1, <4>2, <4>3 DEF Accounted
    <3>3. QED
      BY <1>8, <3>1, <3>2
  <2>4. NewestWalk(t)'
    <3>1. Archive!Without(t, t.own) = elder
      BY <2>2 DEF Archive!Without
    <3>2. NamedBetween(t.known, archive, Archive!Without(t, t.own))
      BY <1>4, <2>2, <3>1
    <3>3. t.healing = Archive!NoGap
      BY <1>2, <2>2 DEF NewestWalk
    <3>4. /\ IsPage(t.page, y, u) /\ Accounted(t, y)
          /\ Gapless(archive, u) /\ KnownBelow(archive, t.known, u) /\ \A x \in t.known : x < u
      BY <2>1, <2>2, <2>3 DEF Accounted, OwnGap
    <3>5. y \in 1..(top + 1)
      BY <1>4
    <3>6. IsPage(t.page, y, u)' /\ Accounted(t, y)'
      BY <1>2, <3>4 DEF IsPage, Accounted, OwnGap
    <3>7. QED
      BY <1>2, <2>2, <3>2, <3>3, <3>4, <3>5, <3>6 DEF NewestWalk
  <2>5. Walking(t)'
    BY <1>2, <1>8, <2>2, <2>4 DEF Walking
  <2>6. Kept(c)'
    BY <1>2, <1>8 DEF Kept, GapsSound
  <2>7. QED
    BY <1>1, <2>5, <2>6, WalksOn
<1>9. QED
  <2>1. CASE page = {}
    BY <1>1, <1>5, <2>1 DEF Archive!FetchNewest, Archive!SaveState, ArchiveInv, s, page
  <2>2. CASE page # {} /\ Archive!OpensGap(s, page) /\ s.own = Archive!NoGap
    BY <1>1, <1>7, <2>2 DEF Archive!FetchNewest, Archive!SaveState, ArchiveInv, s, page
  <2>3. CASE page # {} /\ ~(Archive!OpensGap(s, page) /\ s.own = Archive!NoGap)
    BY <1>1, <1>8, <2>3 DEF Archive!FetchNewest, ArchiveInv, s, page
  <2>4. QED
    BY <2>1, <2>2, <2>3

LEMMA AppendStep ==
  ASSUME NEW c, ArchiveInv(c), Archive!Append(c)
  PROVE  ArchiveInv(c)'
<1>0. PICK s : s = call[c]
  OBVIOUS
<1> DEFINE elder == Archive!Without(s, s.own)
<1>1. PICK t : t = call'[c]
  OBVIOUS
<1>2. /\ s.step = "append" /\ Walking(s) /\ s.gaps = saved.gaps /\ s.held = archive /\ Kept(c)
      /\ UNCHANGED <<top, saved>> /\ DOMAIN call' = {c} /\ archive' = archive \cup s.page
  BY <1>0 DEF Archive!Append, ArchiveInv, Walking, Kept
<1>3. /\ t.phase = s.phase /\ t.step = "stored" /\ t.known = s.known /\ t.gaps = s.gaps /\ t.own = s.own
      /\ t.healing = s.healing /\ t.page = s.page /\ t.held = s.held \cup s.page
  BY <1>0, <1>1 DEF Archive!Append, ArchiveInv
<1>4. /\ archive \in SUBSET Place /\ s.known \in SUBSET archive /\ saved.gaps \in SUBSET GapRecord
      /\ elder \in SUBSET saved.gaps /\ top \in Nat /\ archive \subseteq 1..top
  <2>1. archive \in SUBSET Place /\ top \in Nat
    BY <1>2, Bounded DEF Kept, Place
  <2>2. saved.gaps \in SUBSET GapRecord
    BY <1>2 DEF Kept, GapsSound
  <2>3. QED
    BY <1>2, <2>1, <2>2 DEF Kept, Walking, Archive!Without
<1>5. GapsSound(saved.gaps)'
  <2>1. GapsSound(saved.gaps) /\ archive \subseteq archive'
    BY <1>2 DEF Kept
  <2>2. QED
    BY <1>2, <1>4, <2>1, SoundGrows DEF GapsSound
<1>6. ASSUME NEW y \in 1..(top + 1), NEW u \in 1..(top + 1), IsPage(s.page, y, u), Named(archive', saved.gaps)
      PROVE  Kept(c)' /\ IsPage(s.page, y, u)'
  <2>1. s.page \subseteq 1..top
    BY <1>4, <1>6 DEF IsPage
  <2>2. archive' \subseteq 1..top
    BY <1>2, <1>4, <2>1
  <2>3. Named(archive, saved.gaps)'
    BY <1>2, <1>6
  <2>4. Kept(c)'
    BY <1>2, <1>5, <2>2, <2>3 DEF Kept
  <2>5. QED
    BY <1>2, <1>6, <2>4 DEF IsPage
<1>7. CASE s.phase = "newest"
  <2>1. PICK y \in 1..(top + 1), u \in 1..(top + 1) :
             /\ IsPage(s.page, y, u) /\ Accounted(s, y)
             /\ Gapless(archive, u) /\ KnownBelow(archive, s.known, u)
             /\ \A k \in s.known : k < u
    BY <1>2, <1>7 DEF Walking, NewestWalk
  <2>2. y \in Nat /\ u \in Nat /\ y < u /\ s.page = y..(u - 1) /\ archive' = archive \cup (y..(u - 1))
    BY <1>2, <1>4, <2>1 DEF IsPage
  <2>3. Gapless(archive', y) /\ KnownBelow(archive', s.known, y)
    BY <1>4, <2>1, <2>2, BlockGrows
  <2>4. NamedBetween(s.known, archive', elder) /\ s.healing = Archive!NoGap
    <3>1. NamedBetween(s.known, archive, elder) /\ s.healing = Archive!NoGap
      BY <1>2, <1>7 DEF Walking, NewestWalk
    <3>2. QED
      BY <2>2, <3>1, NamedGrows
  <2>5. Named(archive', saved.gaps)
    <3>1. archive' \in SUBSET Place
      <4>1. top <= ArchiveMessages /\ ArchiveMessages \in Nat
        BY <1>2, Bounded DEF Kept
      <4>2. y..(u - 1) \subseteq Place
        BY <1>4, <2>1, <2>2, <4>1 DEF Place
      <4>3. QED
        BY <1>4, <2>2, <4>2
    <3>2. \/ s.known = {} \/ (\E k \in s.known : y <= k) \/ y = 1
          \/ \E g \in saved.gaps : g.until \in s.known /\ y <= g.before /\ \A k \in s.known : k <= g.until
      BY <1>2, <2>1 DEF Accounted, OwnGap
    <3>3. s.known \in SUBSET archive'
      BY <1>2, <1>4
    <3>4. QED
      BY <1>4, <2>2, <2>3, <2>4, <3>1, <3>2, <3>3, BlockNamed
  <2>6. \A k \in s.known : k < y \/ k \in s.page
    <3>1. ASSUME NEW k \in s.known PROVE k \in Nat
      <4>1. k \in 1..top
        BY <1>4
      <4>2. QED
        BY <4>1, <1>4
    <3>2. QED
      BY <2>1, <2>2, <3>1
  <2>7. Kept(c)' /\ IsPage(s.page, y, u)'
    BY <1>6, <2>1, <2>5
  <2>8. NewestWalk(t)'
    <3>1. Archive!Without(t, t.own) = elder
      BY <1>3 DEF Archive!Without
    <3>2. NamedBetween(t.known, archive', Archive!Without(t, t.own))
      BY <1>3, <2>4, <3>1
    <3>3. Accounted(t, y)'
      BY <1>3, <2>1 DEF Accounted, OwnGap
    <3>4. t.page \subseteq archive' /\ t.healing = Archive!NoGap
      BY <1>2, <1>3, <2>4
    <3>5. Gapless(archive', y) /\ KnownBelow(archive', t.known, y) /\ \A k \in t.known : k < y \/ k \in t.page
      BY <1>3, <2>3, <2>6
    <3>6. IsPage(t.page, y, u)'
      BY <1>3, <2>7
    <3>7. QED
      BY <1>2, <1>3, <3>2, <3>3, <3>4, <3>5, <3>6 DEF NewestWalk
  <2>9. Walking(t)'
    BY <1>2, <1>3, <1>4, <1>7, <2>8 DEF Walking
  <2>10. QED
    BY <1>1, <2>7, <2>9, WalksOn
<1>8. CASE s.phase = "heal"
  <2>0. PICK g : g = Archive!Gap(s, s.healing)
    OBVIOUS
  <2>1. PICK y \in 1..top : IsPage(s.page, y, g.before) /\ HealingWalk(s)
    BY <1>2, <1>8, <2>0 DEF Walking, HealingWalk
  <2>2. g \in saved.gaps
    <3>1. \E h \in s.gaps : h.n = s.healing
      BY <1>2, <2>1 DEF HealingWalk
    <3>2. QED
      BY <1>2, <2>0, <3>1 DEF Archive!Gap
  <2>3. g.until \in archive /\ g.until < g.before /\ g.before \in 1..top
    <3>1. g.before \in Place /\ g.before <= top /\ g.until \in archive /\ g.until < g.before
      BY <1>2, <2>2 DEF Kept, GapsSound, GapRecord
    <3>2. QED
      BY <1>4, <3>1, Bounded DEF Place
  <2>4. Named(archive', saved.gaps)
    <3>1. Named(archive, saved.gaps) /\ y \in Nat /\ archive' = archive \cup (y..(g.before - 1))
      BY <1>2, <1>4, <2>1 DEF Kept, IsPage
    <3>2. QED
      BY <1>4, <2>2, <2>3, <3>1, HealedNamed
  <2>5. y \in 1..(top + 1) /\ g.before \in 1..(top + 1)
    BY <1>4, <2>3
  <2>6. Kept(c)' /\ IsPage(s.page, y, g.before)'
    BY <1>6, <2>1, <2>4, <2>5
  <2>7. Archive!Gap(t, t.healing) = g
    BY <1>3, <2>0 DEF Archive!Gap
  <2>8. HealingWalk(t)'
    <3>1. t.healing # t.own /\ \E h \in t.gaps : h.n = t.healing
      BY <1>2, <1>3, <2>1 DEF HealingWalk
    <3>2. t.page \subseteq archive'
      BY <1>2, <1>3
    <3>3. IsPage(t.page, y, Archive!Gap(t, t.healing).before)'
      BY <1>3, <2>6, <2>7 DEF IsPage
    <3>4. QED
      BY <1>2, <3>1, <3>2, <3>3 DEF HealingWalk
  <2>9. Walking(t)'
    BY <1>2, <1>3, <1>4, <1>8, <2>8 DEF Walking
  <2>10. QED
    BY <1>1, <2>6, <2>9, WalksOn
<1>9. CASE s.phase = "backfill"
  <2>1. PICK y \in 1..(top + 1), u \in 1..(top + 1) :
           IsPage(s.page, y, u) /\ u \in archive /\ \A a \in archive : u <= a
    BY <1>2, <1>9 DEF Walking, OlderWalk
  <2>2. Named(archive', saved.gaps)
    <3>1. Named(archive, saved.gaps) /\ y \in Nat /\ archive' = archive \cup (y..(u - 1))
      BY <1>2, <1>4, <2>1 DEF Kept, IsPage
    <3>2. QED
      BY <1>4, <2>1, <3>1, OlderNamed
  <2>3. Kept(c)'
    BY <1>6, <2>1, <2>2
  <2>4. Walking(t)'
    BY <1>2, <1>3, <1>4, <1>9 DEF Walking, OlderWalk
  <2>5. QED
    BY <1>1, <2>3, <2>4, WalksOn
<1>10. QED
  BY <1>2, <1>7, <1>8, <1>9 DEF Walking

\* What a walk in the second phase has in hand.
LEMMA HealedGap ==
  ASSUME NEW c, NEW s, Kept(c), s.gaps = saved.gaps, HealingWalk(s),
         s.healing # Archive!NoGap \/ Archive!Without(s, s.own) # {}
  PROVE  LET g == Archive!Gap(s, Archive!Healed(s))
         IN /\ g \in s.gaps /\ g.n = Archive!Healed(s) /\ g.n # s.own
            /\ g.until \in archive /\ g.until < g.before /\ g.before \in 2..top
<1> DEFINE elder == Archive!Without(s, s.own)
           n == Archive!Healed(s)
<1>1. n # s.own /\ \E g \in s.gaps : g.n = n
  <2>1. CASE s.healing # Archive!NoGap
    BY <2>1 DEF HealingWalk, Archive!Healed
  <2>2. CASE s.healing = Archive!NoGap
    <3>1. elder # {} /\ elder \subseteq s.gaps /\ \A g \in elder : g.n # s.own
      BY <2>2 DEF Archive!Without
    <3>2. \A g \in s.gaps : g.before \in Nat /\ g.before <= top
      BY Bounded DEF Kept, GapsSound, GapRecord, Place
    <3> DEFINE S == {g.before : g \in elder}
    <3> HIDE DEF elder
    <3>3. S \in SUBSET Nat /\ S # {} /\ \A x \in S : x <= top
      BY <3>1, <3>2
    <3>4. top \in Nat
      BY Bounded DEF Kept
    <3>5. \E x \in S : \A z \in S : z <= x
      BY <3>3, <3>4, Greatest
    <3>6. \E g \in elder : \A h \in elder : h.before <= g.before
      BY <3>5
    <3>7. n = (CHOOSE g \in elder : \A h \in elder : h.before <= g.before).n
      BY <2>2 DEF Archive!Healed, elder
    <3>8. QED
      BY <3>1, <3>6, <3>7
  <2>3. QED
    BY <2>1, <2>2
<1> HIDE DEF n
<1>2. PICK g : g = Archive!Gap(s, n)
  OBVIOUS
<1>3. g \in s.gaps /\ g.n = n
  BY <1>1, <1>2 DEF Archive!Gap
<1>4. g.until \in archive /\ g.until < g.before /\ g.before <= top /\ g.before \in Place /\ g.until \in Place
  BY <1>3 DEF Kept, GapsSound, GapRecord
<1>5. g.before \in 2..top
  BY <1>4, Bounded DEF Place, Kept
<1>6. QED
  BY <1>1, <1>2, <1>3, <1>4, <1>5 DEF n

LEMMA FetchHealStep ==
  ASSUME NEW c, ArchiveInv(c), Archive!FetchHeal(c)
  PROVE  ArchiveInv(c)'
<1>0. PICK s : s = call[c]
  OBVIOUS
<1>1. PICK t : t = call'[c]
  OBVIOUS
<1> DEFINE n == Archive!Healed(s)
<1>2. PICK g : g = Archive!Gap(s, n)
  OBVIOUS
<1> DEFINE page == Archive!PageBelow(g.before)
<1>3. /\ s.phase = "heal" /\ s.step = "fetch" /\ Walking(s) /\ HealingWalk(s) /\ s.gaps = saved.gaps
      /\ Archive!Without(s, s.own) # {} /\ UNCHANGED <<top, archive>> /\ DOMAIN call' = {c} /\ Kept(c)
  BY <1>0 DEF Archive!FetchHeal, ArchiveInv, Walking, Kept
<1>4. g \in s.gaps /\ g.n = n /\ g.n # s.own /\ g.until \in archive /\ g.until < g.before /\ g.before \in 2..top
  BY <1>2, <1>3, HealedGap
<1>5. top \in Nat /\ g.before \in 1..top /\ g.before # 1 /\ g.before # Archive!Newest /\ top # 0
  BY <1>3, <1>4, Bounded DEF Kept, Archive!Newest
<1>6. page # {} /\ \E y \in 1..top, u \in 1..(top + 1) : IsPage(page, y, u) /\ u = g.before
  <2>1. page # {}
    BY <1>3, <1>5, PageAnswered DEF Kept
  <2>2. QED
    BY <1>3, <1>5, <2>1, PageAnswered DEF Kept
<1>7. t = [s EXCEPT !.pages = @ + 1, !.page = page, !.step = "append", !.healing = n] /\ saved' = saved
  BY <1>0, <1>1, <1>2, <1>6 DEF Archive!FetchHeal, ArchiveInv
<1>8. PICK p : p = page
  OBVIOUS
<1>9. PICK y \in 1..top : IsPage(p, y, g.before)
  BY <1>6, <1>8
<1> HIDE DEF page, n
<1>10. /\ t.gaps = s.gaps /\ t.own = s.own /\ t.phase = "heal" /\ t.step = "append" /\ t.page = p
       /\ t.known = s.known /\ t.held = s.held /\ t.healing = n
  BY <1>3, <1>7, <1>8
<1>11. HealingWalk(t)'
  <2>1. Archive!Gap(t, t.healing) = g
    BY <1>2, <1>10 DEF Archive!Gap
  <2>2. IsPage(t.page, y, Archive!Gap(t, t.healing).before)
    BY <1>9, <1>10, <2>1
  <2>3. y \in 1..top'
    BY <1>3
  <2>4. t.healing # t.own /\ \E h \in t.gaps : h.n = t.healing
    BY <1>4, <1>10
  <2>5. IsPage(t.page, y, Archive!Gap(t, t.healing).before)'
    BY <2>2 DEF IsPage
  <2>6. QED
    BY <1>10, <2>3, <2>4, <2>5 DEF HealingWalk
<1>12. Walking(t)'
  BY <1>3, <1>7, <1>10, <1>11 DEF Walking
<1>13. Kept(c)'
  BY <1>3, <1>7 DEF Kept, GapsSound
<1>14. QED
  BY <1>1, <1>12, <1>13, WalksOn

LEMMA StoredHealStep ==
  ASSUME NEW c, ArchiveInv(c), Archive!StoredHeal(c)
  PROVE  ArchiveInv(c)'
<1>0. PICK s : s = call[c]
  OBVIOUS
<1>1. PICK t : t = call'[c]
  OBVIOUS
<1>2. PICK g : g = Archive!Gap(s, s.healing)
  OBVIOUS
<1>3. /\ s.phase = "heal" /\ s.step = "stored" /\ Walking(s) /\ HealingWalk(s) /\ s.gaps = saved.gaps
      /\ UNCHANGED <<top, archive>> /\ DOMAIN call' = {c} /\ Kept(c)
  BY <1>0 DEF Archive!StoredHeal, ArchiveInv, Walking, Kept
<1>4. g \in s.gaps /\ g.n = s.healing /\ g.n # s.own
  <2>1. s.healing # s.own /\ \E h \in s.gaps : h.n = s.healing
    BY <1>3 DEF HealingWalk
  <2>2. QED
    BY <1>2, <2>1 DEF Archive!Gap
<1>5. /\ g.until \in archive /\ g.until < g.before /\ g.before <= top /\ g.before \in Place /\ g.until \in Place
      /\ \A h \in s.gaps : h.n = g.n <=> h = g
  BY <1>3, <1>4 DEF Kept, GapsSound, GapRecord
<1>6. PICK y \in 1..top : IsPage(s.page, y, g.before) /\ s.page \subseteq archive
  BY <1>2, <1>3 DEF HealingWalk
<1>7. /\ Archive!Min(s.page) = y /\ (Archive!Short(s.page) => y = 1) /\ y..(g.before - 1) \subseteq archive
      /\ y \in Nat /\ top \in Nat
  BY <1>3, <1>6, Bounded DEF IsPage, Kept
<1> DEFINE lower == [g EXCEPT !.before = y]
           shut == y <= g.until \/ Archive!Short(s.page)
           left == IF shut THEN s.gaps \ {g} ELSE (s.gaps \ {g}) \cup {lower}
<1>8. Archive!Without(s, g.n) = s.gaps \ {g}
  BY <1>5 DEF Archive!Without
<1>9. /\ t.gaps = left /\ t.step = "fetch" /\ t.healing = (IF shut THEN Archive!NoGap ELSE s.healing)
      /\ t.phase = "heal" /\ t.own = s.own /\ t.known = s.known /\ t.held = s.held /\ saved'.gaps = left
  <2>1. Archive!Closed(s, g, s.page) = shut
    BY <1>7 DEF Archive!Closed
  <2> DEFINE next == [s EXCEPT !.gaps = IF shut THEN Archive!Without(s, g.n)
                                        ELSE Archive!Without(s, g.n) \cup {[g EXCEPT !.before = Archive!Min(s.page)]},
                               !.healing = IF shut THEN Archive!NoGap ELSE @, !.step = "fetch", !.page = {},
                               !.reachedStart = @ \/ (Archive!Min(s.page) > g.until /\ Archive!Short(s.page))]
  <2>2. call' = [call EXCEPT ![c] = next] /\ Archive!SaveState(next)
    <3> HIDE DEF shut
    <3>1. QED
      BY <1>0, <1>2, <2>1 DEF Archive!StoredHeal
  <2>3. /\ next.gaps = left /\ next.step = "fetch" /\ next.healing = (IF shut THEN Archive!NoGap ELSE s.healing)
        /\ next.phase = s.phase /\ next.own = s.own /\ next.known = s.known /\ next.held = s.held
    <3> HIDE DEF shut
    <3>1. QED
      BY <1>3, <1>7, <1>8
  <2> HIDE DEF next
  <2>4. t = next /\ saved'.gaps = next.gaps
    BY <1>1, <2>2 DEF ArchiveInv, Archive!SaveState
  <2>5. QED
    BY <1>3, <2>3, <2>4
<1>10. CASE shut
  <2>1. left = s.gaps \ {g}
    BY <1>10
  <2> HIDE DEF left, shut
  <2>2. GapsSound(left)
    <3>1. GapsSound(s.gaps)
      BY <1>3 DEF Kept
    <3>2. QED
      BY <2>1, <3>1, OthersSound
  <2>3. Named(archive, left)
    <3>1. ASSUME NEW m \in Place \ archive PROVE ~(g.until < m /\ m < g.before)
      BY <1>5, <1>7, <1>10, <3>1 DEF Place, shut
    <3>2. \A m \in Place \ archive : Covered(s.gaps, m) => Covered(left, m)
      BY <2>1, <3>1 DEF Covered
    <3>3. Named(archive, s.gaps)
      BY <1>3 DEF Kept
    <3>4. QED
      BY <3>2, <3>3, NamedBy
  <2>4. Kept(c)'
    BY <1>3, <1>9, <2>2, <2>3 DEF Kept, GapsSound
  <2>5. Walking(t)'
    BY <1>3, <1>9, <1>10 DEF Walking, HealingWalk
  <2>6. QED
    BY <1>1, <2>4, <2>5, WalksOn
<1>11. CASE ~shut
  <2>1. left = (s.gaps \ {g}) \cup {lower}
    BY <1>11
  <2>2. g.until < y
    BY <1>5, <1>7, <1>11 DEF Place
  <2>3. lower = [g EXCEPT !.before = y]
    OBVIOUS
  <2> HIDE DEF left, shut, lower
  <2>4. lower.n = g.n /\ lower.before = y /\ lower.until = g.until /\ GapsSound((s.gaps \ {g}) \cup {lower})
    <3>1. GapsSound(s.gaps) /\ top \in 0..ArchiveMessages
      BY <1>3 DEF Kept
    <3>2. QED
      BY <1>4, <1>6, <2>2, <2>3, <3>1, LoweredSound
  <2>5. Named(archive, left)
    <3>1. ASSUME NEW m \in Place \ archive, g.until < m, m < g.before PROVE m < y
      BY <1>5, <1>7, <3>1 DEF Place
    <3>2. \A m \in Place \ archive : Covered(s.gaps, m) => Covered(left, m)
      BY <2>1, <2>4, <3>1 DEF Covered
    <3>3. Named(archive, s.gaps)
      BY <1>3 DEF Kept
    <3>4. QED
      BY <3>2, <3>3, NamedBy
  <2>6. Kept(c)'
    BY <1>3, <1>9, <2>1, <2>4, <2>5 DEF Kept, GapsSound
  <2>7. HealingWalk(t)'
    <3>1. t.healing = s.healing /\ lower \in t.gaps /\ lower.n = s.healing /\ t.healing # t.own
      BY <1>4, <1>9, <1>11, <2>1, <2>4
    <3>2. QED
      BY <1>9, <3>1 DEF HealingWalk
  <2>8. Walking(t)'
    BY <1>3, <1>9, <2>7 DEF Walking
  <2>9. QED
    BY <1>1, <2>6, <2>8, WalksOn
<1>12. QED
  BY <1>10, <1>11

LEMMA FetchOlderStep ==
  ASSUME NEW c, ArchiveInv(c), Archive!FetchOlder(c)
  PROVE  ArchiveInv(c)'
<1>0. PICK s : s = call[c]
  OBVIOUS
<1>1. PICK t : t = call'[c]
  OBVIOUS
<1>2. /\ s.phase = "backfill" /\ s.step = "fetch" /\ Walking(s) /\ s.gaps = saved.gaps /\ s.held = archive
      /\ archive # {} /\ UNCHANGED <<top, archive, saved>> /\ DOMAIN call' = {c} /\ Kept(c)
  BY <1>0 DEF Archive!FetchOlder, ArchiveInv, Walking, Kept
<1>3. Kept(c)'
  BY <1>2 DEF Kept, GapsSound
<1>4. archive \in SUBSET Nat /\ top \in Nat /\ archive \subseteq 1..top
  BY <1>2, Bounded DEF Kept
<1>5. PICK x \in archive : \A a \in archive : x <= a
  BY <1>2, <1>4, Least
<1>6. Archive!Min(s.held) = x /\ x \in 1..top
  BY <1>2, <1>4, <1>5, ArchiveOperators
<1>7. PICK p : p = Archive!PageBelow(x)
  OBVIOUS
<1>8. t = IF p = {} THEN [s EXCEPT !.pages = @ + 1, !.reachedStart = TRUE]
          ELSE [s EXCEPT !.pages = @ + 1, !.page = p, !.step = "append"]
  BY <1>0, <1>1, <1>6, <1>7 DEF Archive!FetchOlder, ArchiveInv
<1>9. CASE p = {}
  <2>1. /\ t.phase = "backfill" /\ t.step = "fetch" /\ t.gaps = s.gaps /\ t.held = s.held /\ t.known = s.known
    BY <1>2, <1>8, <1>9
  <2>2. Walking(t)'
    BY <1>2, <2>1 DEF Walking, OlderWalk
  <2>3. QED
    BY <1>1, <1>3, <2>2, WalksOn
<1>10. CASE p # {}
  <2>1. /\ t.phase = "backfill" /\ t.step = "append" /\ t.gaps = s.gaps /\ t.held = s.held /\ t.known = s.known
        /\ t.page = p
    BY <1>2, <1>8, <1>10
  <2>2. PICK y \in 1..top, u \in 1..(top + 1) : IsPage(p, y, u) /\ u = x
    <3>1. x # Archive!Newest
      BY <1>2, <1>6, Bounded DEF Archive!Newest, Kept
    <3>2. QED
      BY <1>2, <1>6, <1>7, <1>10, <3>1, PageAnswered DEF Kept
  <2>3. IsPage(t.page, y, u)'
    BY <2>1, <2>2 DEF IsPage
  <2>4. y \in 1..(top' + 1) /\ u \in 1..(top' + 1)
    BY <1>2, <1>4
  <2>5. u \in archive' /\ \A a \in archive' : u <= a
    BY <1>2, <1>5, <2>2
  <2>6. OlderWalk(t)'
    BY <2>3, <2>4, <2>5 DEF OlderWalk
  <2>7. Walking(t)'
    BY <1>2, <2>1, <2>6 DEF Walking
  <2>8. QED
    BY <1>1, <1>3, <2>7, WalksOn
<1>11. QED
  BY <1>9, <1>10

LEMMA StoredOlderStep ==
  ASSUME NEW c, ArchiveInv(c), Archive!StoredOlder(c)
  PROVE  ArchiveInv(c)'
<1>0. PICK s : s = call[c]
  OBVIOUS
<1>1. PICK t : t = call'[c]
  OBVIOUS
<1>2. /\ s.phase = "backfill" /\ Walking(s) /\ UNCHANGED <<top, archive, saved>> /\ DOMAIN call' = {c} /\ Kept(c)
  BY <1>0 DEF Archive!StoredOlder, ArchiveInv, Walking, Kept
<1>3. t.phase = "backfill" /\ t.step = "fetch" /\ t.gaps = s.gaps /\ t.held = s.held /\ t.known = s.known
  BY <1>0, <1>1, <1>2 DEF Archive!StoredOlder, ArchiveInv
<1>4. Walking(t)' /\ Kept(c)'
  BY <1>2, <1>3 DEF Walking, OlderWalk, Kept, GapsSound
<1>5. QED
  BY <1>1, <1>4, WalksOn

LEMMA NextWalkStep ==
  ASSUME NEW c, ArchiveInv(c), Archive!NextWalk(c)
  PROVE  ArchiveInv(c)'
<1>0. PICK s : s = call[c]
  OBVIOUS
<1>1. PICK t : t = call'[c]
  OBVIOUS
<1>2. /\ s.step = "fetch" /\ s.phase \in {"newest", "heal", "backfill"} /\ UNCHANGED <<top, archive>>
      /\ DOMAIN call' = {c} /\ Kept(c)
  BY <1>0 DEF Archive!NextWalk, ArchiveInv, Kept
<1>3. Walking(s)
  BY <1>0, <1>2 DEF ArchiveInv
<1>4. \/ t = [s EXCEPT !.phase = "heal"] /\ s.phase = "newest" /\ saved' = saved
      \/ t = [s EXCEPT !.phase = "backfill", !.healing = Archive!NoGap] /\ s.phase = "heal" /\ saved' = saved
      \/ t = Archive!Resting /\ saved'.gaps = s.gaps
  <2>1. CASE s.phase = "newest"
    <3>1. call' = [call EXCEPT ![c] = [s EXCEPT !.phase = "heal"]] /\ saved' = saved
      BY <1>0, <2>1 DEF Archive!NextWalk
    <3>2. QED
      BY <1>1, <2>1, <3>1 DEF ArchiveInv
  <2>2. CASE s.phase = "heal"
    <3> DEFINE next == [s EXCEPT !.phase = "backfill", !.healing = Archive!NoGap]
    <3>1. call' = [call EXCEPT ![c] = next] /\ saved' = saved
      BY <1>0, <2>2 DEF Archive!NextWalk
    <3> HIDE DEF next
    <3>2. t = next
      BY <1>1, <3>1 DEF ArchiveInv
    <3>3. QED
      BY <2>2, <3>1, <3>2 DEF next
  <2>3. CASE s.phase = "backfill"
    BY <1>0, <1>1, <2>3 DEF Archive!NextWalk, ArchiveInv, Archive!SaveState
  <2>4. QED
    BY <1>2, <2>1, <2>2, <2>3
<1>5. Kept(c)'
  BY <1>2, <1>3, <1>4 DEF Kept, GapsSound, Walking
<1>6. CASE t = [s EXCEPT !.phase = "heal"] /\ s.phase = "newest" /\ saved' = saved
  <2>1. /\ t.phase = "heal" /\ t.step = "fetch" /\ t.gaps = s.gaps /\ t.held = s.held /\ t.known = s.known
        /\ t.healing = s.healing
    BY <1>2, <1>6
  <2>2. s.healing = Archive!NoGap
    BY <1>3, <1>6 DEF Walking, NewestWalk
  <2>3. Walking(t)'
    BY <1>2, <1>3, <1>6, <2>1, <2>2 DEF Walking, HealingWalk
  <2>4. QED
    BY <1>1, <1>5, <2>3, WalksOn
<1>7. CASE t = [s EXCEPT !.phase = "backfill", !.healing = Archive!NoGap] /\ s.phase = "heal" /\ saved' = saved
  <2>1. t.phase = "backfill" /\ t.step = "fetch" /\ t.gaps = s.gaps /\ t.held = s.held /\ t.known = s.known
    BY <1>2, <1>7
  <2>2. Walking(t)'
    BY <1>2, <1>3, <1>7, <2>1 DEF Walking, OlderWalk
  <2>3. QED
    BY <1>1, <1>5, <2>2, WalksOn
<1>8. CASE t = Archive!Resting
  <2>1. t.phase = "idle" /\ t.step = "fetch"
    BY <1>8 DEF Archive!Resting
  <2>2. QED
    BY <1>1, <1>5, <2>1, WalksOn
<1>9. QED
  BY <1>4, <1>6, <1>7, <1>8

LEMMA AbortStep ==
  ASSUME NEW c, ArchiveInv(c), Archive!Abort(c)
  PROVE  ArchiveInv(c)'
<1>1. PICK t : t = call'[c]
  OBVIOUS
<1>2. t.phase = "idle" /\ t.step = "fetch"
  BY <1>1 DEF Archive!Abort, ArchiveInv, Archive!Resting
<1>3. Kept(c)'
  BY DEF Archive!Abort, ArchiveInv, Kept, GapsSound
<1>4. QED
  BY <1>1, <1>2, <1>3, WalksOn

LEMMA PostStep ==
  ASSUME NEW c, ArchiveInv(c), Archive!Post
  PROVE  ArchiveInv(c)'
<1>1. PICK t : t = call'[c]
  OBVIOUS
<1>2. /\ t = call[c] /\ top' = top + 1 /\ top < ArchiveMessages /\ UNCHANGED <<archive, saved, call>> /\ Kept(c)
      /\ top \in Nat /\ top' \in 0..ArchiveMessages /\ 1..top \subseteq 1..top'
      /\ 1..(top + 1) \subseteq 1..(top' + 1)
  BY <1>1, Bounded DEF Archive!Post, ArchiveInv, Kept
<1>3. Kept(c)'
  <2>1. GapsSound(saved.gaps) /\ top' \in Nat /\ top <= top' /\ archive \subseteq archive'
    BY <1>2 DEF Kept
  <2>2. GapsSound(saved.gaps)'
    BY <1>2, <2>1, SoundGrows DEF GapsSound
  <2>3. QED
    BY <1>2, <2>2 DEF Kept
<1>4. CASE t.phase = "idle" /\ t.step = "fetch"
  BY <1>1, <1>3, <1>4, WalksOn
<1>5. CASE Walking(t)
  <2>1. NewestWalk(t) => NewestWalk(t)'
    BY <1>2 DEF NewestWalk, IsPage, Accounted, OwnGap
  <2>2. HealingWalk(t) => HealingWalk(t)'
    BY <1>2 DEF HealingWalk, IsPage
  <2>3. OlderWalk(t) => OlderWalk(t)'
    BY <1>2 DEF OlderWalk, IsPage
  <2>4. Walking(t)'
    BY <1>2, <1>5, <2>1, <2>2, <2>3 DEF Walking
  <2>5. QED
    BY <1>1, <1>3, <2>4, WalksOn
<1>6. QED
  BY <1>2, <1>4, <1>5 DEF ArchiveInv

LEMMA ArchiveStep ==
  ASSUME NEW c, ArchiveCaller = {c}, ArchiveInv(c), [Archive!Next]_(Archive!vars)
  PROVE  ArchiveInv(c)'
<1>1. CASE Archive!Post
  BY <1>1, PostStep
<1>2. CASE UNCHANGED Archive!vars
  <2>1. PICK t : t = call'[c]
    OBVIOUS
  <2>2. t = call[c] /\ UNCHANGED <<top, archive, saved, call>>
    BY <1>2, <2>1 DEF Archive!vars
  <2>3. Kept(c)'
    BY <2>2 DEF ArchiveInv, Kept, GapsSound
  <2>4. Walking(t) => Walking(t)'
    BY <2>2 DEF Walking, NewestWalk, HealingWalk, OlderWalk, Accounted, OwnGap, IsPage
  <2>5. QED
    BY <2>1, <2>2, <2>3, <2>4, WalksOn DEF ArchiveInv
<1>3. CASE Archive!Work(c) \/ Archive!Abort(c)
  BY <1>3, FetchNewestStep, StoredNewestStep, FetchHealStep, StoredHealStep, FetchOlderStep,
     StoredOlderStep,
     AppendStep, NextWalkStep, AbortStep DEF Archive!Work
<1>4. CASE \E b \in Budget, back \in BOOLEAN : Archive!Start(c, b, back)
  BY <1>4, StartStep
<1>5. QED
  BY <1>1, <1>2, <1>3, <1>4 DEF Archive!Next

LEMMA ArchiveStart ==
  ASSUME NEW c, ArchiveCaller = {c}, Archive!Init
  PROVE  ArchiveInv(c)
<1>1. /\ archive = {} /\ saved.gaps = {} /\ DOMAIN call = {c} /\ call[c] = Archive!Resting /\ top \in 0..ArchiveMessages
  BY DEF Archive!Init
<1>2. GapsSound(saved.gaps) /\ Named(archive, saved.gaps)
  BY <1>1, FS_EmptySet DEF GapsSound, Named, NamedBetween
<1>3. call[c].phase = "idle" /\ call[c].step = "fetch"
  BY <1>1 DEF Archive!Resting
<1>4. QED
  BY <1>1, <1>2, <1>3 DEF ArchiveInv

\* While one sync runs at a time, no hole of the archive is silent: whatever the sizes of the room, the
\* pages and the budgets, and wherever a kill or a failed fetch ended a sync, a message missing between
\* two archived ones lies in a gap the state file names.
THEOREM HolesNamed == ASSUME NEW c, ArchiveCaller = {c} PROVE PartsSpec => []NoSilentHole
<1>1. ArchiveInv(c) => NoSilentHole
  <2>1. ArchiveInv(c) => 1..top \subseteq Place
    BY Bounded DEF ArchiveInv, Place
  <2>2. QED
    BY <2>1 DEF ArchiveInv, Named, NamedBetween, Covered, NoSilentHole, Archive!NoSilentHole
<1>2. QED
  BY <1>1, ArchiveStart, ArchiveStep, ArchivePart, PTL
=============================================================================
