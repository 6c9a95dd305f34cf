--------------------------- MODULE StartupProofs ---------------------------
(***************************************************************************)
(* What holds of Startup for all nodes, addresses, clocks and windows,     *)
(* however many packets are lost, late or repeated and however often a     *)
(* node ends, while it starts or later.                                    *)
(***************************************************************************)
EXTENDS Startup, FiniteSetTheorems, SequenceTheorems, TLAPS

----------------------------------------------------------------------------
\* Facts about ages, beacons and buffers.

\* Ages are counted, and the order of two ages stays when time passes.
LEMMA LaterFacts ==
  /\ 0 \in Ages
  /\ \A x \in Ages : Later(x) \in Ages
  /\ \A x, y \in Ages : x <= y => Later(x) <= Later(y)
  BY BoundAssumption DEF Ages, Later

LEMMA BeaconFacts ==
  ASSUME NEW b \in Beacons
  PROVE  /\ b.from \in Nodes /\ b.addr \in Addresses /\ b.age \in Ages
         /\ Aged(b) \in Beacons
         /\ Aged(b).from = b.from /\ Aged(b).addr = b.addr /\ Aged(b).age = Later(b.age)
  BY LaterFacts DEF Beacons, Aged

\* What a buffer holds after a packet has come.
LEMMA ReceivedFacts ==
  ASSUME NEW q \in Seq(Beacons), Len(q) <= QueueCap, NEW b \in Beacons
  PROVE  /\ Received(q, b) \in Seq(Beacons)
         /\ Len(Received(q, b)) <= QueueCap
         /\ \A i \in DOMAIN Received(q, b) :
              \/ i \in DOMAIN q /\ Received(q, b)[i] = q[i]
              \/ Received(q, b)[i] = b
  <1>1. CASE Len(q) < QueueCap
    BY <1>1, BoundAssumption DEF Received
  <1>2. CASE ~(Len(q) < QueueCap)
    BY <1>2 DEF Received
  <1> QED BY <1>1, <1>2

----------------------------------------------------------------------------
\* Type correctness of Discovery.

LEMMA InitTyped == Init => TypeOK
  <1> SUFFICES ASSUME Init PROVE TypeOK
    OBVIOUS
  <1>1. addr \in [Nodes -> Addresses \union {Down}]
    BY DEF Init
  <1>2. due \in [Nodes -> [send : 0 .. 1, read : 0 .. 2]]
    BY DEF Init, NothingDue
  <1>3. queue \in [Nodes -> Seq(Beacons)] /\ \A n \in Nodes : Len(queue[n]) <= QueueCap
    BY BoundAssumption, EmptySeq DEF Init
  <1>4. held \in SUBSET Copies /\ seen \in [Nodes -> SUBSET (Nodes \X Ages)]
    BY DEF Init
  <1>5. seenLen \in [Nodes -> 0 .. SeenCap]
    BY BoundAssumption DEF Init
  <1>6. reg \in [Nodes -> [Nodes -> Addresses \union {Unknown}]]
    BY DEF Init, NoPeers
  <1>7. ago \in [Nodes -> [Addresses -> Ages]]
    BY BoundAssumption DEF Init, Ages
  <1>8. faults \in 0 .. FaultBound /\ moves \in 0 .. MoveBound
    BY BoundAssumption DEF Init
  <1> QED BY <1>1, <1>2, <1>3, <1>4, <1>5, <1>6, <1>7, <1>8 DEF TypeOK

LEMMA StartTyped ==
  ASSUME TypeOK, NEW n \in Nodes, NEW a \in Addresses, Start(n, a)
  PROVE  TypeOK'
  BY LaterFacts DEF TypeOK, Start

LEMMA CrashTyped ==
  ASSUME TypeOK, NEW n \in Nodes, Crash(n)
  PROVE  TypeOK'
  <1>1. addr' \in [Nodes -> Addresses \union {Down}]
    BY DEF TypeOK, Crash
  <1>2. due' \in [Nodes -> [send : 0 .. 1, read : 0 .. 2]]
    BY DEF TypeOK, Crash, NothingDue
  <1>3. /\ queue' \in [Nodes -> Seq(Beacons)]
        /\ \A m \in Nodes : Len(queue'[m]) <= QueueCap
    BY BoundAssumption, EmptySeq DEF TypeOK, Crash
  <1>4. held' \in SUBSET Copies /\ seen' \in [Nodes -> SUBSET (Nodes \X Ages)]
    BY DEF TypeOK, Crash
  <1>5. seenLen' \in [Nodes -> 0 .. SeenCap]
    BY BoundAssumption DEF TypeOK, Crash
  <1>6. reg' \in [Nodes -> [Nodes -> Addresses \union {Unknown}]]
    BY DEF TypeOK, Crash, NoPeers
  <1>7. ago' \in [Nodes -> [Addresses -> Ages]]
    BY DEF TypeOK, Crash
  <1>8. faults' \in 0 .. FaultBound /\ moves' \in 0 .. MoveBound
    BY BoundAssumption DEF TypeOK, Crash
  <1> QED BY <1>1, <1>2, <1>3, <1>4, <1>5, <1>6, <1>7, <1>8 DEF TypeOK

\* The buffers after an interval: as long, and every packet is older.
LEMMA AgedBuffers ==
  ASSUME TypeOK, Tick, NEW n \in Nodes
  PROVE  /\ queue'[n] \in Seq(Beacons)
         /\ Len(queue'[n]) = Len(queue[n])
         /\ DOMAIN queue'[n] = DOMAIN queue[n]
         /\ \A i \in DOMAIN queue[n] :
              queue[n][i] \in Beacons /\ queue'[n][i] = Aged(queue[n][i])
  <1>1. queue'[n] = [i \in DOMAIN queue[n] |-> Aged(queue[n][i])]
    BY DEF Tick
  <1>2. queue[n] \in Seq(Beacons)
    BY DEF TypeOK
  <1>3. /\ Len(queue[n]) \in Nat /\ DOMAIN queue[n] = 1 .. Len(queue[n])
        /\ \A i \in DOMAIN queue[n] : queue[n][i] \in Beacons
    BY <1>2, LenProperties, ElementOfSeq
  <1>4. queue'[n] \in [1 .. Len(queue[n]) -> Beacons]
    BY <1>1, <1>3, BeaconFacts
  <1>5. queue'[n] \in Seq(Beacons)
    BY <1>3, <1>4, SeqDef
  <1>6. Len(queue'[n]) = Len(queue[n])
    BY <1>3, <1>4, <1>5, LenProperties
  <1> QED BY <1>1, <1>3, <1>5, <1>6

LEMMA TickTyped ==
  ASSUME TypeOK, Tick
  PROVE  TypeOK'
  <1>1. addr' \in [Nodes -> Addresses \union {Down}]
    BY DEF TypeOK, Tick
  <1>2. due' \in [Nodes -> [send : 0 .. 1, read : 0 .. 2]]
    BY DEF TypeOK, Tick
  <1>3. /\ queue' \in [Nodes -> Seq(Beacons)]
        /\ \A m \in Nodes : Len(queue'[m]) <= QueueCap
    <2>1. DOMAIN queue' = Nodes /\ queue' = [n \in Nodes |-> queue'[n]]
      BY DEF Tick
    <2> QED BY <2>1, AgedBuffers DEF TypeOK
  <1>4. held' \in SUBSET Copies
    <2> SUFFICES ASSUME NEW c \in held PROVE [c EXCEPT !.beacon = Aged(@)] \in Copies
      BY DEF Tick
    <2>1. c \in Copies
      BY DEF TypeOK
    <2>2. c.beacon \in Beacons
      BY <2>1 DEF Copies
    <2>3. Aged(c.beacon) \in Beacons
      BY <2>2, BeaconFacts
    <2> QED BY <2>1, <2>3 DEF Copies
  <1>5. seen' \in [Nodes -> SUBSET (Nodes \X Ages)]
    <2> SUFFICES ASSUME NEW n \in Nodes PROVE OneLater(seen[n]) \subseteq Nodes \X Ages
      BY DEF Tick
    <2>1. seen[n] \subseteq Nodes \X Ages
      BY DEF TypeOK
    <2> QED BY <2>1, LaterFacts DEF OneLater
  <1>6. ago' \in [Nodes -> [Addresses -> Ages]]
    BY LaterFacts DEF TypeOK, Tick
  <1> QED BY <1>1, <1>2, <1>3, <1>4, <1>5, <1>6 DEF TypeOK, Tick

\* A node's beacon, and what Send does to the buffers.
LEMMA SendFacts ==
  ASSUME TypeOK, NEW n \in Nodes, Send(n)
  PROVE  \E lost \in SUBSET Hears[n], late \in SUBSET Hears[n], beacon \in Beacons :
           /\ beacon = [from |-> n, addr |-> addr[n], age |-> 0]
           /\ faults' = faults + Cardinality(lost) + Cardinality(late)
           /\ faults' <= FaultBound
           /\ queue' = [m \in Nodes |->
                          IF m \in (Hears[n] \ lost) \intersect Up
                          THEN Received(queue[m], beacon) ELSE queue[m]]
           /\ held' = held \union {[to |-> m, beacon |-> beacon] : m \in late}
  <1>1. [from |-> n, addr |-> addr[n], age |-> 0] \in Beacons
    BY LaterFacts DEF TypeOK, Send, Beacons
  <1> QED BY <1>1 DEF Send

LEMMA SendTyped ==
  ASSUME TypeOK, NEW n \in Nodes, Send(n)
  PROVE  TypeOK'
  <1>1. PICK lost \in SUBSET Hears[n], late \in SUBSET Hears[n], beacon \in Beacons :
          /\ faults' = faults + Cardinality(lost) + Cardinality(late)
          /\ faults' <= FaultBound
          /\ queue' = [m \in Nodes |->
                         IF m \in (Hears[n] \ lost) \intersect Up
                         THEN Received(queue[m], beacon) ELSE queue[m]]
          /\ held' = held \union {[to |-> m, beacon |-> beacon] : m \in late}
    BY SendFacts
  <1>2. lost \subseteq Nodes /\ late \subseteq Nodes
    BY HearsAssumption
  <1>3. Cardinality(lost) \in Nat /\ Cardinality(late) \in Nat
    BY <1>2, NodeAssumption, FS_Subset, FS_CardinalityType
  <1>4. faults' \in 0 .. FaultBound
    BY <1>1, <1>3, BoundAssumption DEF TypeOK
  <1>5. /\ queue' \in [Nodes -> Seq(Beacons)]
        /\ \A m \in Nodes : Len(queue'[m]) <= QueueCap
    BY <1>1, ReceivedFacts DEF TypeOK
  <1>6. held' \in SUBSET Copies
    BY <1>1, <1>2 DEF TypeOK, Copies
  <1>7. due' \in [Nodes -> [send : 0 .. 1, read : 0 .. 2]]
    <2>1. due[n] \in [send : 0 .. 1, read : 0 .. 2]
      BY DEF TypeOK
    <2>2. [due[n] EXCEPT !.send = 0] \in [send : 0 .. 1, read : 0 .. 2]
      BY <2>1
    <2>3. due' = [due EXCEPT ![n] = [due[n] EXCEPT !.send = 0]]
      BY DEF Send
    <2> QED BY <2>2, <2>3 DEF TypeOK
  <1> QED BY <1>4, <1>5, <1>6, <1>7 DEF TypeOK, Send

\* A copy the network held back comes into a buffer or into none.
LEMMA ArriveFacts ==
  ASSUME TypeOK, NEW c \in held, Arrive(c)
  PROVE  /\ c \in Copies /\ c.to \in Nodes /\ c.beacon \in Beacons
         /\ \A m \in Nodes : queue'[m] \in {queue[m], Received(queue[m], c.beacon)}
         /\ queue' \in [Nodes -> Seq(Beacons)]
         /\ \A m \in Nodes : Len(queue'[m]) <= QueueCap
  <1>1. c \in Copies /\ c.to \in Nodes /\ c.beacon \in Beacons
    BY DEF TypeOK, Copies
  <1>2. /\ queue \in [Nodes -> Seq(Beacons)]
        /\ \A m \in Nodes : Len(queue[m]) <= QueueCap
    BY DEF TypeOK
  <1>3. \A m \in Nodes : /\ Received(queue[m], c.beacon) \in Seq(Beacons)
                         /\ Len(Received(queue[m], c.beacon)) <= QueueCap
    BY <1>1, <1>2, ReceivedFacts
  <1>4. \/ queue' = queue
        \/ queue' = [queue EXCEPT ![c.to] = Received(queue[c.to], c.beacon)]
    BY DEF Arrive
  <1> QED BY <1>1, <1>2, <1>3, <1>4

LEMMA ArriveTyped ==
  ASSUME TypeOK, NEW c \in held, Arrive(c)
  PROVE  TypeOK'
  BY ArriveFacts DEF TypeOK, Arrive

\* The packet that is read, and the buffers and addresses afterwards.
LEMMA ReadFacts ==
  ASSUME TypeOK, NEW m \in Nodes, Read(m)
  PROVE  /\ Head(queue[m]) = queue[m][1] /\ 1 \in DOMAIN queue[m]
         /\ Head(queue[m]) \in Beacons
         /\ Tail(queue[m]) \in Seq(Beacons) /\ Len(Tail(queue[m])) <= QueueCap
         /\ \A i \in DOMAIN Tail(queue[m]) :
              i + 1 \in DOMAIN queue[m] /\ Tail(queue[m])[i] = queue[m][i + 1]
         /\ queue' = [queue EXCEPT ![m] = Tail(queue[m])]
  <1>1. queue[m] \in Seq(Beacons) /\ queue[m] # <<>> /\ Len(queue[m]) <= QueueCap
    BY DEF TypeOK, Read
  <1>2. queue' = [queue EXCEPT ![m] = Tail(queue[m])]
    BY DEF Read
  <1>3. /\ Head(queue[m]) \in Beacons /\ Tail(queue[m]) \in Seq(Beacons)
        /\ Len(Tail(queue[m])) = Len(queue[m]) - 1
        /\ \A i \in 1 .. Len(Tail(queue[m])) : Tail(queue[m])[i] = queue[m][i + 1]
    BY <1>1, HeadTailProperties
  <1>4. Len(queue[m]) \in Nat \ {0} /\ DOMAIN queue[m] = 1 .. Len(queue[m])
    BY <1>1, EmptySeq, LenProperties
  <1>5. DOMAIN Tail(queue[m]) = 1 .. Len(Tail(queue[m]))
    BY <1>3, LenProperties
  <1>6. Head(queue[m]) = queue[m][1]
    BY <1>1
  <1> QED BY <1>1, <1>2, <1>3, <1>4, <1>5, <1>6, BoundAssumption

LEMMA ReadTyped ==
  ASSUME TypeOK, NEW m \in Nodes, Read(m)
  PROVE  TypeOK'
  <1> DEFINE b == Head(queue[m])
  <1>1. b \in Beacons /\ b.from \in Nodes /\ b.addr \in Addresses /\ b.age \in Ages
    BY ReadFacts, BeaconFacts
  <1>2. /\ queue' \in [Nodes -> Seq(Beacons)]
        /\ \A n \in Nodes : Len(queue'[n]) <= QueueCap
    BY ReadFacts DEF TypeOK
  <1>3. due' \in [Nodes -> [send : 0 .. 1, read : 0 .. 2]]
    <2>1. due[m] \in [send : 0 .. 1, read : 0 .. 2] /\ due[m].read > 0
      BY DEF TypeOK, Read
    <2>2. [due[m] EXCEPT !.read = due[m].read - 1] \in [send : 0 .. 1, read : 0 .. 2]
      BY <2>1
    <2>3. due' = [due EXCEPT ![m] = [due[m] EXCEPT !.read = due[m].read - 1]]
      BY DEF Read
    <2> QED BY <2>2, <2>3 DEF TypeOK
  <1>4. /\ seen' \in [Nodes -> SUBSET (Nodes \X Ages)]
        /\ seenLen' \in [Nodes -> 0 .. SeenCap]
        /\ reg' \in [Nodes -> [Nodes -> Addresses \union {Unknown}]]
    <2>1. CASE Accepts(m, b)
      <3>1. Remember(m, b) /\ Upsert(m, b)
        BY <2>1 DEF Read
      <3>2. Nonce(b) \in Nodes \X Ages
        BY <1>1 DEF Nonce
      <3>3. /\ seen \in [Nodes -> SUBSET (Nodes \X Ages)]
            /\ seenLen \in [Nodes -> 0 .. SeenCap] /\ seenLen[m] \in 0 .. SeenCap
        BY DEF TypeOK
      <3>4. /\ seen' \in [Nodes -> SUBSET (Nodes \X Ages)]
            /\ seenLen' \in [Nodes -> 0 .. SeenCap]
        <4>1. CASE seenLen[m] + 1 > SeenCap
          <5>1. seen' = [seen EXCEPT ![m] = {}] /\ seenLen' = [seenLen EXCEPT ![m] = 0]
            BY <3>1, <4>1 DEF Remember
          <5> QED BY <3>3, <5>1, BoundAssumption
        <4>2. CASE ~(seenLen[m] + 1 > SeenCap)
          <5>1. /\ seen' = [seen EXCEPT ![m] = seen[m] \union {Nonce(b)}]
                /\ seenLen' = [seenLen EXCEPT ![m] = seenLen[m] + 1]
            BY <3>1, <4>2 DEF Remember
          <5>2. seenLen[m] + 1 \in 0 .. SeenCap
            BY <3>3, <4>2, BoundAssumption
          <5> QED BY <3>2, <3>3, <5>1, <5>2
        <4> QED BY <4>1, <4>2
      <3>5. reg' \in [Nodes -> [Nodes -> Addresses \union {Unknown}]]
        BY <3>1, <1>1 DEF TypeOK, Upsert
      <3> QED BY <3>4, <3>5
    <2>2. CASE ~Accepts(m, b)
      BY <2>2 DEF TypeOK, Read
    <2> QED BY <2>1, <2>2
  <1> QED BY <1>2, <1>3, <1>4 DEF TypeOK, Read

----------------------------------------------------------------------------
\* Beacons tell the truth about the past: the sender of a beacon was at its
\* address no longer ago than the beacon is old.

WasThere(b) == ago[b.from][b.addr] <= b.age
WillHaveBeen(b) == ago'[b.from][b.addr] <= b.age

Truthful ==
  /\ \A n \in Nodes : addr[n] # Down => ago[n][addr[n]] = 0
  /\ \A n \in Nodes : \A i \in DOMAIN queue[n] : WasThere(queue[n][i])
  /\ \A c \in held : WasThere(c.beacon)

LEMMA InitTruthful == Init => Truthful
  BY DEF Init, Truthful

\* Nobody has been away for longer after a step other than Tick.
LEMMA StartTruthful ==
  ASSUME TypeOK, Truthful, NEW n \in Nodes, NEW a \in Addresses, Start(n, a)
  PROVE  Truthful'
  <1>1. \A m \in Nodes, x \in Addresses : ago'[m][x] \in {ago[m][x], 0}
    BY DEF TypeOK, Start
  <1>2. ASSUME NEW b \in Beacons, WasThere(b) PROVE WillHaveBeen(b)
    <2>1. ago'[b.from][b.addr] \in {ago[b.from][b.addr], 0} /\ b.age \in Nat
      BY <1>1, BeaconFacts DEF Ages
    <2> QED BY <1>2, <2>1 DEF WasThere, WillHaveBeen
  <1>3. \A m \in Nodes : addr'[m] # Down => ago'[m][addr'[m]] = 0
    BY DEF TypeOK, Truthful, Start
  <1>4. \A m \in Nodes : \A i \in DOMAIN queue[m] : queue[m][i] \in Beacons
    BY LenProperties, ElementOfSeq DEF TypeOK
  <1>5. \A c \in held : c.beacon \in Beacons
    BY DEF TypeOK, Copies
  <1>6. queue' = queue /\ held' = held
    BY DEF Start
  <1>7. \A m \in Nodes : \A i \in DOMAIN queue'[m] : WillHaveBeen(queue'[m][i])
    BY <1>2, <1>4, <1>6 DEF Truthful
  <1>8. \A c \in held' : WillHaveBeen(c.beacon)
    BY <1>2, <1>5, <1>6 DEF Truthful
  <1> QED BY <1>3, <1>7, <1>8 DEF Truthful, WasThere, WillHaveBeen

LEMMA CrashTruthful ==
  ASSUME TypeOK, Truthful, NEW n \in Nodes, Crash(n)
  PROVE  Truthful'
  BY DEF TypeOK, Truthful, Crash, WasThere

\* All ages grow together.
LEMMA TickTruthful ==
  ASSUME TypeOK, Truthful, Tick
  PROVE  Truthful'
  <1>1. \A m \in Nodes, x \in Addresses :
          ago'[m][x] = IF addr[m] = x THEN 0 ELSE Later(ago[m][x])
    BY DEF TypeOK, Tick
  <1>2. \A m \in Nodes : addr'[m] # Down => ago'[m][addr'[m]] = 0
    BY <1>1 DEF TypeOK, Tick
  <1>3. ASSUME NEW b \in Beacons, WasThere(b) PROVE WillHaveBeen(Aged(b))
    <2>1. /\ b.from \in Nodes /\ b.addr \in Addresses /\ b.age \in Ages
          /\ Aged(b).from = b.from /\ Aged(b).addr = b.addr
          /\ Aged(b).age = Later(b.age)
      BY BeaconFacts
    <2>2. ago[b.from][b.addr] \in Ages /\ ago[b.from][b.addr] <= b.age
      BY <1>3, <2>1 DEF TypeOK, WasThere
    <2>3. Later(ago[b.from][b.addr]) <= Later(b.age) /\ Later(b.age) >= 0
      BY <2>1, <2>2, LaterFacts DEF Ages
    <2>4. ago'[b.from][b.addr] <= Later(b.age)
      BY <1>1, <2>1, <2>3
    <2> QED BY <2>1, <2>4 DEF WillHaveBeen
  <1>4. \A m \in Nodes : \A i \in DOMAIN queue'[m] : WillHaveBeen(queue'[m][i])
    BY <1>3, AgedBuffers DEF Truthful
  <1>5. \A c \in held' : WillHaveBeen(c.beacon)
    <2> SUFFICES ASSUME NEW d \in held
                 PROVE  WillHaveBeen([d EXCEPT !.beacon = Aged(@)].beacon)
      BY DEF Tick
    <2>1. d.beacon \in Beacons /\ WasThere(d.beacon) /\ d \in Copies
      BY DEF TypeOK, Copies, Truthful
    <2>2. [d EXCEPT !.beacon = Aged(@)].beacon = Aged(d.beacon)
      BY <2>1 DEF Copies
    <2> QED BY <1>3, <2>1, <2>2
  <1> QED BY <1>2, <1>4, <1>5 DEF Truthful, WasThere, WillHaveBeen

LEMMA SendTruthful ==
  ASSUME TypeOK, Truthful, NEW n \in Nodes, Send(n)
  PROVE  Truthful'
  <1>1. PICK lost \in SUBSET Hears[n], late \in SUBSET Hears[n], beacon \in Beacons :
          /\ beacon = [from |-> n, addr |-> addr[n], age |-> 0]
          /\ queue' = [m \in Nodes |->
                         IF m \in (Hears[n] \ lost) \intersect Up
                         THEN Received(queue[m], beacon) ELSE queue[m]]
          /\ held' = held \union {[to |-> m, beacon |-> beacon] : m \in late}
    BY SendFacts
  <1>2. addr' = addr /\ ago' = ago /\ addr[n] # Down
    BY DEF Send
  <1>3. WasThere(beacon)
    BY <1>1, <1>2 DEF Truthful, WasThere
  <1>4. \A m \in Nodes : \A i \in DOMAIN queue'[m] : WasThere(queue'[m][i])
    <2> SUFFICES ASSUME NEW m \in Nodes, NEW i \in DOMAIN queue'[m]
                 PROVE  WasThere(queue'[m][i])
      OBVIOUS
    <2>1. queue'[m] \in {queue[m], Received(queue[m], beacon)}
      BY <1>1
    <2>2. queue[m] \in Seq(Beacons) /\ Len(queue[m]) <= QueueCap
      BY DEF TypeOK
    <2>3. \/ i \in DOMAIN queue[m] /\ queue'[m][i] = queue[m][i]
          \/ queue'[m][i] = beacon
      BY <2>1, <2>2, ReceivedFacts
    <2> QED BY <1>3, <2>3 DEF Truthful
  <1>5. \A c \in held' : WasThere(c.beacon)
    BY <1>1, <1>3 DEF Truthful
  <1> QED BY <1>2, <1>4, <1>5 DEF Truthful, WasThere

LEMMA ArriveTruthful ==
  ASSUME TypeOK, Truthful, NEW c \in held, Arrive(c)
  PROVE  Truthful'
  <1>1. addr' = addr /\ ago' = ago /\ held' = held \ {c}
    BY DEF Arrive
  <1>2. \A m \in Nodes : \A i \in DOMAIN queue'[m] : WasThere(queue'[m][i])
    <2> SUFFICES ASSUME NEW m \in Nodes, NEW i \in DOMAIN queue'[m]
                 PROVE  WasThere(queue'[m][i])
      OBVIOUS
    <2>1. queue'[m] \in {queue[m], Received(queue[m], c.beacon)} /\ c.beacon \in Beacons
      BY ArriveFacts
    <2>2. queue[m] \in Seq(Beacons) /\ Len(queue[m]) <= QueueCap
      BY DEF TypeOK
    <2>3. \/ i \in DOMAIN queue[m] /\ queue'[m][i] = queue[m][i]
          \/ queue'[m][i] = c.beacon
      BY <2>1, <2>2, ReceivedFacts
    <2> QED BY <2>3 DEF Truthful
  <1> QED BY <1>1, <1>2 DEF Truthful, WasThere

LEMMA ReadTruthful ==
  ASSUME TypeOK, Truthful, NEW m \in Nodes, Read(m)
  PROVE  Truthful'
  <1>1. addr' = addr /\ ago' = ago /\ held' = held
    BY DEF Read
  <1>2. \A n \in Nodes : \A i \in DOMAIN queue'[n] : WasThere(queue'[n][i])
    <2> SUFFICES ASSUME NEW n \in Nodes, NEW i \in DOMAIN queue'[n]
                 PROVE  WasThere(queue'[n][i])
      OBVIOUS
    <2>1. CASE n = m
      <3>1. queue'[n] = Tail(queue[m])
        BY <2>1, ReadFacts DEF TypeOK
      <3> QED BY <3>1, ReadFacts DEF Truthful
    <2>2. CASE n # m
      <3>1. queue'[n] = queue[n]
        BY <2>2, ReadFacts DEF TypeOK
      <3> QED BY <3>1 DEF Truthful
    <2> QED BY <2>1, <2>2
  <1> QED BY <1>1, <1>2 DEF Truthful, WasThere

----------------------------------------------------------------------------
\* Startup around it.

\* The steps of Startup, by what they do to Discovery.
LEMMA Steps ==
  ASSUME [StartupNext]_allVars
  PROVE  \/ Tick /\ UNCHANGED <<conf, ident, told>>
         \/ \E n \in Nodes : Send(n) /\ UNCHANGED <<conf, ident, told>>
         \/ \E n \in Nodes : Read(n) /\ UNCHANGED <<conf, ident, told>>
         \/ \E c \in held : Arrive(c) /\ UNCHANGED <<conf, ident, told>>
         \/ \E n \in Nodes : Stop(n)
         \/ \E n \in Nodes, a \in Addresses : Run(n, a)
         \/ \E n \in Answering : Identify(n)
         \/ \E n \in Answering : Answer(n)
         \/ \E n \in Answering : StartFails(n)
         \/ UNCHANGED <<vars, conf, ident, told>>
  BY DEF StartupNext, allVars

LEMMA DiscoveryTyped ==
  ASSUME StartupTypeOK, [StartupNext]_allVars
  PROVE  TypeOK'
  <1> USE DEF StartupTypeOK
  <1>1. CASE Tick
    BY <1>1, TickTyped
  <1>2. CASE \E n \in Nodes : Send(n)
    BY <1>2, SendTyped
  <1>3. CASE \E n \in Nodes : Read(n)
    BY <1>3, ReadTyped
  <1>4. CASE \E c \in held : Arrive(c)
    BY <1>4, ArriveTyped
  <1>5. CASE \E n \in Nodes : Stop(n)
    BY <1>5, CrashTyped DEF Stop
  <1>6. CASE \E n \in Nodes, a \in Addresses : Run(n, a)
    BY <1>6, StartTyped DEF Run
  <1>7. CASE \E n \in Answering : Identify(n) \/ Answer(n)
    BY <1>7 DEF Identify, Answer, vars, TypeOK, Up
  <1>8. CASE \E n \in Answering : StartFails(n)
    BY <1>8, BoundAssumption DEF StartFails, TypeOK
  <1>9. CASE UNCHANGED vars
    BY <1>9 DEF vars, TypeOK
  <1> QED BY <1>1, <1>2, <1>3, <1>4, <1>5, <1>6, <1>7, <1>8, <1>9, Steps

LEMMA DiscoveryTruthful ==
  ASSUME StartupTypeOK, Truthful, [StartupNext]_allVars
  PROVE  Truthful'
  <1> USE DEF StartupTypeOK
  <1>1. CASE Tick
    BY <1>1, TickTruthful
  <1>2. CASE \E n \in Nodes : Send(n)
    BY <1>2, SendTruthful
  <1>3. CASE \E n \in Nodes : Read(n)
    BY <1>3, ReadTruthful
  <1>4. CASE \E c \in held : Arrive(c)
    BY <1>4, ArriveTruthful
  <1>5. CASE \E n \in Nodes : Stop(n)
    BY <1>5, CrashTruthful DEF Stop
  <1>6. CASE \E n \in Nodes, a \in Addresses : Run(n, a)
    BY <1>6, StartTruthful DEF Run
  <1>7. CASE \E n \in Answering : Identify(n) \/ Answer(n)
    BY <1>7 DEF Identify, Answer, vars, Truthful, WasThere
  <1>8. CASE \E n \in Answering : StartFails(n)
    BY <1>8 DEF StartFails, Truthful, WasThere
  <1>9. CASE UNCHANGED vars
    BY <1>9 DEF vars, Truthful, WasThere
  <1> QED BY <1>1, <1>2, <1>3, <1>4, <1>5, <1>6, <1>7, <1>8, <1>9, Steps

\* An identity, complete or not, is a sequence of at most Keys values.
LEMMA ValueFacts ==
  \A v : v \in Values <=> v \in Seq(Fresh) /\ Len(v) <= Keys
  <1>1. ASSUME NEW v, v \in Values PROVE v \in Seq(Fresh) /\ Len(v) <= Keys
    <2>1. PICK k \in 0 .. Keys : v \in [1 .. k -> Fresh]
      BY <1>1 DEF Values
    <2>2. k \in Nat /\ v \in Seq(Fresh)
      BY <2>1, SeqDef DEF Keys
    <2>3. Len(v) = k
      BY <2>1, <2>2, LenProperties
    <2> QED BY <2>1, <2>2, <2>3 DEF Keys
  <1>2. ASSUME NEW v, v \in Seq(Fresh), Len(v) <= Keys PROVE v \in Values
    <2>1. Len(v) \in Nat /\ v \in [1 .. Len(v) -> Fresh]
      BY <1>2, LenProperties
    <2>2. Len(v) \in 0 .. Keys
      BY <1>2, <2>1 DEF Keys
    <2> QED BY <2>1, <2>2 DEF Values
  <1> QED BY <1>1, <1>2

LEMMA EmptyValue == <<>> \in Values /\ Len(<<>>) = 0
  <1>1. <<>> \in Seq(Fresh) /\ Len(<<>>) = 0
    BY EmptySeq
  <1>2. Len(<<>>) <= Keys
    BY <1>1 DEF Keys
  <1> QED BY <1>1, <1>2, ValueFacts

\* One key more.
LEMMA AppendFacts ==
  ASSUME NEW v \in Values, NEW e \in Fresh
  PROVE  /\ Len(v) \in Nat /\ DOMAIN v = 1 .. Len(v)
         /\ Len(v) < Keys => Append(v, e) \in Values
         /\ Len(Append(v, e)) = Len(v) + 1
         /\ \A i \in 1 .. Len(v) : Append(v, e)[i] = v[i]
         /\ Append(v, e)[Len(v) + 1] = e
  <1>1. v \in Seq(Fresh) /\ Len(v) \in Nat /\ DOMAIN v = 1 .. Len(v)
    BY ValueFacts, LenProperties
  <1>2. Append(v, e) \in Seq(Fresh) /\ Len(Append(v, e)) = Len(v) + 1
    BY <1>1
  <1>3. ASSUME Len(v) < Keys PROVE Append(v, e) \in Values
    <2>1. Len(Append(v, e)) <= Keys
      BY <1>1, <1>2, <1>3 DEF Keys
    <2> QED BY <1>2, <2>1, ValueFacts
  <1>4. /\ \A i \in 1 .. Len(v) : Append(v, e)[i] = v[i]
        /\ Append(v, e)[Len(v) + 1] = e
    BY <1>1
  <1> QED BY <1>1, <1>2, <1>3, <1>4

\* What is in memory is what is stored, as far as it goes; what clients were told
\* is what is stored, and nothing is missing then.
Kept ==
  \A n \in Answering :
    /\ Len(ident[n]) <= Len(conf[n])
    /\ \A i \in 1 .. Len(ident[n]) : ident[n][i] = conf[n][i]
    /\ \A v \in told[n] : v = conf[n] /\ Len(v) = Keys

StartupInv == StartupTypeOK /\ Truthful /\ Kept

LEMMA InitInv == StartupInit => StartupInv
  <1> SUFFICES ASSUME StartupInit PROVE StartupInv
    OBVIOUS
  <1>1. TypeOK /\ Truthful
    BY InitTyped, InitTruthful DEF StartupInit
  <1>2. <<>> \in Values /\ Len(<<>>) = 0
    BY EmptyValue
  <1>3. \A n \in Nodes : addr[n] = Down
    BY DEF StartupInit, Init
  <1>4. StartupTypeOK
    BY <1>1, <1>2, <1>3, AnsweringAssumption DEF StartupInit, StartupTypeOK
  <1>5. Kept
    BY <1>2 DEF StartupInit, Kept
  <1> QED BY <1>1, <1>4, <1>5 DEF StartupInv

\* What a step does to the identity of one node keeps it whole.
LEMMA IdentifyKeeps ==
  ASSUME StartupInv, NEW n \in Answering, Identify(n)
  PROVE  StartupTypeOK' /\ Kept'
  <1> DEFINE k == Len(ident[n]) + 1
  <1>1. /\ addr[n] = Down /\ Len(ident[n]) < Keys /\ GetOrSet(n, k)
        /\ UNCHANGED vars /\ told' = told
    BY DEF Identify
  <1>2. TypeOK'
    BY <1>1, DiscoveryTyped DEF StartupInv, StartupTypeOK, vars, TypeOK
  <1>3. /\ conf \in [Answering -> Values] /\ ident \in [Answering -> Values]
        /\ told \in [Answering -> SUBSET Values] /\ moves \in Fresh
    BY DEF StartupInv, StartupTypeOK, TypeOK, Fresh
  <1>4. /\ Len(ident[n]) \in Nat /\ Len(conf[n]) \in Nat
        /\ DOMAIN conf[n] = 1 .. Len(conf[n])
        /\ Len(ident[n]) <= Len(conf[n])
        /\ \A i \in 1 .. Len(ident[n]) : ident[n][i] = conf[n][i]
        /\ \A v \in told[n] : v = conf[n] /\ Len(v) = Keys
    BY <1>3, AppendFacts DEF StartupInv, Kept
  <1>5. \A m \in Answering : addr'[m] # Down => m # n
    BY <1>1 DEF vars
  <1>6. \A m \in Answering \ {n} : ident'[m] = ident[m] /\ conf'[m] = conf[m]
    BY <1>1, <1>3 DEF GetOrSet
  <1>7. /\ conf' \in [Answering -> Values] /\ ident' \in [Answering -> Values]
        /\ Len(ident'[n]) <= Len(conf'[n])
        /\ \A i \in 1 .. Len(ident'[n]) : ident'[n][i] = conf'[n][i]
        /\ \A v \in told[n] : v = conf'[n] /\ Len(v) = Keys
    <2>1. CASE k \in DOMAIN conf[n]
      <3>1. conf' = conf /\ ident' = [ident EXCEPT ![n] = Append(ident[n], conf[n][k])]
        BY <1>1, <2>1 DEF GetOrSet
      <3>2. conf[n][k] \in Fresh
        BY <1>3, <2>1, ValueFacts, LenProperties, ElementOfSeq
      <3>3. /\ Append(ident[n], conf[n][k]) \in Values
            /\ Len(Append(ident[n], conf[n][k])) = k
            /\ \A i \in 1 .. Len(ident[n]) : Append(ident[n], conf[n][k])[i] = ident[n][i]
            /\ Append(ident[n], conf[n][k])[k] = conf[n][k]
        BY <1>1, <1>3, <3>2, AppendFacts
      <3>4. ident'[n] = Append(ident[n], conf[n][k]) /\ ident' \in [Answering -> Values]
        BY <1>3, <3>1, <3>3
      <3> QED BY <1>3, <1>4, <2>1, <3>1, <3>3, <3>4
    <2>2. CASE k \notin DOMAIN conf[n]
      <3>1. /\ conf' = [conf EXCEPT ![n] = Append(conf[n], moves)]
            /\ ident' = [ident EXCEPT ![n] = Append(ident[n], moves)]
        BY <1>1, <2>2 DEF GetOrSet
      <3>2. Len(conf[n]) = Len(ident[n])
        BY <1>4, <2>2
      <3>3. told[n] = {}
        BY <1>1, <1>4, <3>2 DEF Keys
      <3>4. /\ Append(ident[n], moves) \in Values /\ Append(conf[n], moves) \in Values
            /\ Len(Append(ident[n], moves)) = k /\ Len(Append(conf[n], moves)) = k
            /\ \A i \in 1 .. Len(ident[n]) :
                 Append(ident[n], moves)[i] = ident[n][i]
                 /\ Append(conf[n], moves)[i] = conf[n][i]
            /\ Append(ident[n], moves)[k] = moves /\ Append(conf[n], moves)[k] = moves
        BY <1>1, <1>3, <3>2, AppendFacts
      <3>5. /\ ident'[n] = Append(ident[n], moves) /\ ident' \in [Answering -> Values]
            /\ conf'[n] = Append(conf[n], moves) /\ conf' \in [Answering -> Values]
        BY <1>3, <3>1, <3>4
      <3> QED BY <1>4, <3>3, <3>4, <3>5
    <2> QED BY <2>1, <2>2
  <1>8. \A m \in Answering : addr'[m] # Down => Len(ident'[m]) = Keys
    BY <1>1, <1>5, <1>6 DEF StartupInv, StartupTypeOK, vars
  <1>9. StartupTypeOK'
    BY <1>1, <1>2, <1>3, <1>7, <1>8 DEF StartupTypeOK
  <1>10. Kept'
    BY <1>1, <1>6, <1>7 DEF StartupInv, Kept
  <1> QED BY <1>9, <1>10

LEMMA AnswerKeeps ==
  ASSUME StartupInv, NEW n \in Answering, Answer(n)
  PROVE  StartupTypeOK' /\ Kept'
  <1>1. /\ addr[n] # Down /\ told' = [told EXCEPT ![n] = @ \union {ident[n]}]
        /\ UNCHANGED <<vars, conf, ident>>
    BY DEF Answer
  <1>2. /\ conf[n] \in Values /\ ident[n] \in Values /\ Len(ident[n]) = Keys
        /\ Len(ident[n]) <= Len(conf[n])
        /\ \A i \in 1 .. Len(ident[n]) : ident[n][i] = conf[n][i]
    BY <1>1 DEF StartupInv, StartupTypeOK, Kept
  <1>3. ident[n] = conf[n]
    <2>1. conf[n] \in Seq(Fresh) /\ Len(conf[n]) <= Keys /\ ident[n] \in Seq(Fresh)
      BY <1>2, ValueFacts
    <2>2. Len(ident[n]) = Len(conf[n])
      BY <1>2, <2>1, LenProperties DEF Keys
    <2> QED BY <1>2, <2>1, <2>2, SeqEqual
  <1>4. StartupTypeOK'
    BY <1>1, <1>2 DEF StartupInv, StartupTypeOK, TypeOK, vars
  <1>5. Kept'
    BY <1>1, <1>2, <1>3 DEF StartupInv, StartupTypeOK, Kept
  <1> QED BY <1>4, <1>5

LEMMA StopKeeps ==
  ASSUME StartupInv, NEW n \in Nodes, Stop(n)
  PROVE  StartupTypeOK' /\ Kept'
  <1>1. /\ Crash(n) /\ conf' = conf /\ told' = told
        /\ ident' = [i \in Answering |-> IF i = n THEN <<>> ELSE ident[i]]
    BY DEF Stop
  <1>2. <<>> \in Values /\ Len(<<>>) = 0
    BY EmptyValue
  <1>3. TypeOK' /\ addr' = [addr EXCEPT ![n] = Down]
    BY <1>1, CrashTyped DEF StartupInv, StartupTypeOK, Crash
  <1>4. StartupTypeOK'
    BY <1>1, <1>2, <1>3, AnsweringAssumption DEF StartupInv, StartupTypeOK, TypeOK
  <1>5. \A m \in Answering : Len(conf[m]) \in Nat
    BY ValueFacts, LenProperties DEF StartupInv, StartupTypeOK
  <1>6. Kept'
    BY <1>1, <1>2, <1>5 DEF StartupInv, Kept
  <1> QED BY <1>4, <1>6

LEMMA StartFailsKeeps ==
  ASSUME StartupInv, NEW n \in Answering, StartFails(n)
  PROVE  StartupTypeOK' /\ Kept'
  <1>1. /\ addr[n] = Down /\ ident' = [ident EXCEPT ![n] = <<>>]
        /\ addr' = addr /\ conf' = conf /\ told' = told
    BY DEF StartFails
  <1>2. <<>> \in Values /\ Len(<<>>) = 0
    BY EmptyValue
  <1>3. TypeOK'
    BY BoundAssumption DEF StartupInv, StartupTypeOK, TypeOK, StartFails
  <1>4. StartupTypeOK'
    BY <1>1, <1>2, <1>3 DEF StartupInv, StartupTypeOK
  <1>5. \A m \in Answering : Len(conf[m]) \in Nat
    BY ValueFacts, LenProperties DEF StartupInv, StartupTypeOK
  <1>6. Kept'
    BY <1>1, <1>2, <1>5 DEF StartupInv, StartupTypeOK, Kept
  <1> QED BY <1>4, <1>6

LEMMA RunKeeps ==
  ASSUME StartupInv, NEW n \in Nodes, NEW a \in Addresses, Run(n, a)
  PROVE  StartupTypeOK' /\ Kept'
  <1>1. /\ n \in Answering => Len(ident[n]) = Keys
        /\ Start(n, a) /\ UNCHANGED <<conf, ident, told>>
    BY DEF Run
  <1>2. TypeOK' /\ addr' = [addr EXCEPT ![n] = a]
    BY <1>1, StartTyped DEF StartupInv, StartupTypeOK, Start
  <1>3. StartupTypeOK'
    BY <1>1, <1>2, AnsweringAssumption DEF StartupInv, StartupTypeOK, TypeOK
  <1>4. Kept'
    BY <1>1 DEF StartupInv, Kept
  <1> QED BY <1>3, <1>4

LEMMA InvStep == StartupInv /\ [StartupNext]_allVars => StartupInv'
  <1> SUFFICES ASSUME StartupInv, [StartupNext]_allVars PROVE StartupTypeOK' /\ Kept'
    BY DiscoveryTruthful DEF StartupInv
  <1>1. ASSUME addr' = addr, UNCHANGED <<conf, ident, told>>
        PROVE  StartupTypeOK' /\ Kept'
    <2>1. TypeOK'
      BY DiscoveryTyped DEF StartupInv
    <2> QED BY <1>1, <2>1 DEF StartupInv, StartupTypeOK, Kept
  <1>2. CASE Tick /\ UNCHANGED <<conf, ident, told>>
    BY <1>1, <1>2 DEF Tick
  <1>3. CASE \E n \in Nodes : Send(n) /\ UNCHANGED <<conf, ident, told>>
    BY <1>1, <1>3 DEF Send
  <1>4. CASE \E n \in Nodes : Read(n) /\ UNCHANGED <<conf, ident, told>>
    BY <1>1, <1>4 DEF Read
  <1>5. CASE \E c \in held : Arrive(c) /\ UNCHANGED <<conf, ident, told>>
    BY <1>1, <1>5 DEF Arrive
  <1>6. CASE \E n \in Nodes : Stop(n)
    BY <1>6, StopKeeps
  <1>7. CASE \E n \in Nodes, a \in Addresses : Run(n, a)
    BY <1>7, RunKeeps
  <1>8. CASE \E n \in Answering : Identify(n)
    BY <1>8, IdentifyKeeps
  <1>9. CASE \E n \in Answering : Answer(n)
    BY <1>9, AnswerKeeps
  <1>10. CASE \E n \in Answering : StartFails(n)
    BY <1>10, StartFailsKeeps
  <1>11. CASE UNCHANGED <<vars, conf, ident, told>>
    BY <1>1, <1>11 DEF vars
  <1> QED BY <1>2, <1>3, <1>4, <1>5, <1>6, <1>7, <1>8, <1>9, <1>10, <1>11, Steps

LEMMA InvHolds == StartupSpec => []StartupInv
  BY InitInv, InvStep, PTL DEF StartupSpec

----------------------------------------------------------------------------
\* The theorems.

\* Every reachable state of discovery and start (server.go, discovery.go,
\* client_responder.go) has the types StartupTypeOK lists.
THEOREM TypeCorrect == StartupSpec => []StartupTypeOK
  <1>1. StartupInv => StartupTypeOK
    BY DEF StartupInv
  <1> QED BY <1>1, InvHolds, PTL

\* An address that is taken is one the node had within the window.
LEMMA TakenWasHeld ==
  ASSUME StartupInv, [StartupNext]_allVars, NEW m \in Nodes, NEW n \in Nodes,
         reg'[m][n] # reg[m][n], reg'[m][n] # Unknown
  PROVE  ago[n][reg'[m][n]] + Offset[m] - Offset[n] <= MaxSkew
  <1> USE DEF StartupInv, StartupTypeOK
  <1>1. ASSUME NEW r \in Nodes, Read(r)
        PROVE  ago[n][reg'[m][n]] + Offset[m] - Offset[n] <= MaxSkew
    <2> DEFINE b == Head(queue[r])
    <2>1. Accepts(r, b) /\ Upsert(r, b)
      BY <1>1 DEF Read
    <2>2. /\ b \in Beacons /\ b.from \in Nodes /\ b.addr \in Addresses
          /\ b.age \in Ages /\ WasThere(b)
      BY <1>1, ReadFacts, BeaconFacts DEF Truthful
    <2>3. r = m /\ b.from = n /\ reg'[m][n] = b.addr
      BY <2>1, <2>2 DEF Upsert, TypeOK
    <2>4. b.age + Offset[m] - Offset[n] <= MaxSkew /\ ago[n][b.addr] <= b.age
      BY <2>1, <2>2, <2>3 DEF Accepts, InWindow, WasThere
    <2>5. Offset[m] \in Int /\ Offset[n] \in Int /\ MaxSkew \in Int
      BY OffsetAssumption, BoundAssumption
    <2>6. \A i \in Ages : i \in Int
      BY BoundAssumption DEF Ages
    <2>7. ago[n] \in [Addresses -> Ages]
      BY DEF TypeOK
    <2>8. ago[n][b.addr] \in Ages
      BY <2>2, <2>7
    <2> HIDE DEF b
    <2> QED BY <2>2, <2>3, <2>4, <2>5, <2>6, <2>8
  <1>2. CASE \E r \in Nodes : Stop(r)
    <2>1. reg'[m][n] \in {reg[m][n], Unknown}
      BY <1>2 DEF Stop, Crash, NoPeers, TypeOK
    <2> QED BY <2>1
  <1>3. ASSUME reg' = reg PROVE FALSE
    BY <1>3
  <1> QED
    BY <1>1, <1>2, <1>3, Steps
    DEF Tick, Send, Arrive, Run, Start, Identify, Answer, StartFails, vars

\* However late a packet is read (discovery.go HandlePacket), the registry takes
\* no address that the node it names had left before the window.
THEOREM NoOutdatedAddress == StartupSpec => AddressWasHeld
  <1>1. StartupInv /\ [StartupNext]_allVars =>
          [\A m \in Nodes, n \in Nodes :
             LET a == reg'[m][n] IN
             a # reg[m][n] /\ a # Unknown =>
               ago[n][a] + Offset[m] - Offset[n] <= MaxSkew]_vars
    BY TakenWasHeld
  <1> QED BY <1>1, InvHolds, PTL DEF StartupSpec, AddressWasHeld

\* Clients of a node are told one identity only, whatever restarts and starts cut
\* off between two keys (client_responder.go GenerateServerIdentity) there are.
THEOREM OneIdentity == StartupSpec => []IdentitySticks
  <1>1. StartupInv => IdentitySticks
    <2> SUFFICES ASSUME StartupInv, NEW n \in Answering
                 PROVE  Cardinality(told[n]) <= 1
      BY DEF IdentitySticks
    <2>1. told[n] \subseteq {conf[n]}
      BY DEF StartupInv, Kept
    <2>2. IsFiniteSet({conf[n]}) /\ Cardinality({conf[n]}) = 1
      BY FS_Singleton
    <2> QED BY <2>1, <2>2, FS_Subset
  <1> QED BY <1>1, InvHolds, PTL
=============================================================================
