----------------------------- MODULE Discovery -----------------------------
(***************************************************************************)
(* How the nodes of a cluster find each other (discovery.go, the two       *)
(* tickers of server.go Run).  Once per DiscoverInterval a node sends a    *)
(* beacon with its address, and once per interval it reads ONE packet from *)
(* its socket: RecvOnce, HandlePacket, Registry.Upsert.  The registry is   *)
(* what every call to a peer takes the address from, and nothing removes   *)
(* an entry (Prune has no caller).                                         *)
(*                                                                         *)
(* Time is counted in intervals and kept as ages, so that it is unbounded: *)
(* a node sends at most one beacon per interval, hence its sender and its  *)
(* age identify a beacon and stand for its nonce.  A packet may be lost,   *)
(* delayed or duplicated; a socket buffer has room for QueueCap packets.   *)
(***************************************************************************)
EXTENDS Integers, Sequences, FiniteSets

CONSTANTS Nodes, Addresses,
          Down,      \* the address of a node that is not running
          Unknown,   \* stands for "no entry in the registry"
          Hears,     \* Hears[n]: the nodes the packets of n get to
          Offset,    \* Offset[n]: how far the clock of n is ahead
          MaxSkew,   \* the window of timestamps, in intervals
          Old,       \* ages are counted up to Old
          QueueCap,  \* the packets a socket buffer holds
          SeenCap,   \* seenCap
          FaultBound, MoveBound  \* bounds on faults of the network and crashes

ASSUME NodeAssumption == /\ IsFiniteSet(Nodes)
                         /\ Addresses # {} /\ Down \notin Addresses
                         /\ Unknown \notin Addresses
ASSUME HearsAssumption == Hears \in [Nodes -> SUBSET Nodes]
ASSUME OffsetAssumption == Offset \in [Nodes -> Int]
ASSUME BoundAssumption == /\ MaxSkew \in Nat /\ Old \in Nat /\ QueueCap \in Nat
                          /\ SeenCap \in Nat
                          /\ FaultBound \in Nat /\ MoveBound \in Nat
\* An age that is no longer counted is outside every node's window.
ASSUME OldAssumption ==
  \A m \in Nodes, n \in Nodes : Old + Offset[m] - Offset[n] > MaxSkew

VARIABLES
  addr,    \* addr[n]: where n listens, or Down
  due,     \* due[n]: sends and reads the tickers of n have asked for
  queue,   \* queue[n]: the packets in the socket buffer of n
  held,    \* the copies the network holds back
  seen,    \* seen[n]: the nonces n remembers, as <<sender, age>>
  seenLen, \* seenLen[n]: how many there are, those too old to matter included
  reg,     \* reg[n][p]: the address n has for p
  ago,     \* history: ago[n][a], the intervals since n was at address a
  faults, moves  \* bounded by FaultBound and MoveBound

vars == <<addr, due, queue, held, seen, seenLen, reg, ago, faults, moves>>

Ages == 0 .. Old
Beacons == [from : Nodes, addr : Addresses, age : Ages]
Copies == [to : Nodes, beacon : Beacons]
Up == {n \in Nodes : addr[n] # Down}

TypeOK ==
  /\ addr \in [Nodes -> Addresses \union {Down}]
  /\ due \in [Nodes -> [send : 0 .. 1, read : 0 .. 2]]
  /\ queue \in [Nodes -> Seq(Beacons)]
  /\ \A n \in Nodes : Len(queue[n]) <= QueueCap
  /\ held \in SUBSET Copies
  /\ seen \in [Nodes -> SUBSET (Nodes \X Ages)]
  /\ seenLen \in [Nodes -> 0 .. SeenCap]
  /\ reg \in [Nodes -> [Nodes -> Addresses \union {Unknown}]]
  /\ ago \in [Nodes -> [Addresses -> Ages]]
  /\ faults \in 0 .. FaultBound /\ moves \in 0 .. MoveBound

NothingDue == [send |-> 0, read |-> 0]
NoPeers == [p \in Nodes |-> Unknown]

Init ==
  /\ addr = [n \in Nodes |-> Down]
  /\ due = [n \in Nodes |-> NothingDue]
  /\ queue = [n \in Nodes |-> <<>>]
  /\ held = {}
  /\ seen = [n \in Nodes |-> {}] /\ seenLen = [n \in Nodes |-> 0]
  /\ reg = [n \in Nodes |-> NoPeers]
  /\ ago = [n \in Nodes |-> [a \in Addresses |-> Old]]
  /\ faults = 0 /\ moves = 0

(***************************************************************************)
(* VerifyBeacon, whose window is that of m's clock against the stamp.      *)
(***************************************************************************)
\* A window that refuses only stamps of the future.
FutureOnly(m, b) == Offset[b.from] - b.age - Offset[m] <= MaxSkew

InWindow(m, b) ==
  /\ b.age + Offset[m] - Offset[b.from] <= MaxSkew
  /\ Offset[b.from] - b.age - Offset[m] <= MaxSkew

Nonce(b) == <<b.from, b.age>>

(***************************************************************************)
(* The process: Run binds an address and starts the tickers; a crash       *)
(* forgets the registry, the nonces and what the socket had received.      *)
(***************************************************************************)
Start(n, a) ==
  /\ addr[n] = Down
  /\ \A p \in Nodes : addr[p] # a
  /\ addr' = [addr EXCEPT ![n] = a]
  /\ ago' = [ago EXCEPT ![n][a] = 0]
  /\ UNCHANGED <<due, queue, held, seen, seenLen, reg, faults, moves>>

Crash(n) ==
  /\ addr[n] # Down
  /\ moves < MoveBound /\ moves' = moves + 1
  /\ addr' = [addr EXCEPT ![n] = Down]
  /\ due' = [due EXCEPT ![n] = NothingDue]
  /\ queue' = [queue EXCEPT ![n] = <<>>]
  /\ seen' = [seen EXCEPT ![n] = {}] /\ seenLen' = [seenLen EXCEPT ![n] = 0]
  /\ reg' = [reg EXCEPT ![n] = NoPeers]
  /\ UNCHANGED <<held, ago, faults>>

(***************************************************************************)
(* An interval passes.  It is long enough for the sends and reads the last *)
(* one asked for; a read waits for a packet, and the ticker's channel      *)
(* holds one tick more.                                                    *)
(***************************************************************************)
Later(age) == IF age < Old THEN age + 1 ELSE Old
OneLater(s) == {<<p[1], Later(p[2])>> : p \in {q \in s : q[2] < Old}}
Aged(b) == [b EXCEPT !.age = Later(@)]

CaughtUp(n) == due[n].send = 0 /\ (due[n].read = 0 \/ queue[n] = <<>>)

Tick ==
  /\ \A n \in Up : CaughtUp(n)
  /\ due' = [n \in Nodes |->
               IF addr[n] = Down THEN due[n]
               ELSE [send |-> 1, read |-> IF due[n].read = 2 THEN 2 ELSE due[n].read + 1]]
  /\ queue' = [n \in Nodes |-> [i \in DOMAIN queue[n] |-> Aged(queue[n][i])]]
  /\ held' = {[c EXCEPT !.beacon = Aged(@)] : c \in {d \in held : d.beacon.age < Old}}
  /\ seen' = [n \in Nodes |-> OneLater(seen[n])]
  /\ ago' = [n \in Nodes |-> [a \in Addresses |->
               IF addr[n] = a THEN 0 ELSE Later(ago[n][a])]]
  /\ UNCHANGED <<addr, seenLen, reg, faults, moves>>

(***************************************************************************)
(* Broadcaster.Send: the packet goes into the buffers of the nodes that    *)
(* hear it, unless the network loses it or holds back a copy, or both.     *)
(***************************************************************************)
Received(q, b) == IF Len(q) < QueueCap THEN Append(q, b) ELSE q

Send(n) ==
  /\ addr[n] # Down
  /\ due[n].send > 0
  /\ \E lost \in SUBSET Hears[n], late \in SUBSET Hears[n] :
       LET beacon == [from |-> n, addr |-> addr[n], age |-> 0] IN
       /\ faults' = faults + Cardinality(lost) + Cardinality(late)
       /\ faults' <= FaultBound
       /\ queue' = [m \in Nodes |->
                      IF m \in (Hears[n] \ lost) \intersect Up
                      THEN Received(queue[m], beacon) ELSE queue[m]]
       /\ held' = held \union {[to |-> m, beacon |-> beacon] : m \in late}
  /\ due' = [due EXCEPT ![n].send = 0]
  /\ UNCHANGED <<addr, seen, seenLen, reg, ago, moves>>

\* A copy that was held back gets to the node, if it runs.
Arrive(c) ==
  /\ c \in held
  /\ held' = held \ {c}
  /\ queue' = IF addr[c.to] = Down THEN queue
              ELSE [queue EXCEPT ![c.to] = Received(@, c.beacon)]
  /\ UNCHANGED <<addr, due, seen, seenLen, reg, ago, faults, moves>>

(***************************************************************************)
(* RecvOnce: one packet, and what HandlePacket makes of it.  The map of    *)
(* nonces is emptied when it has outgrown its cap, the new one included.   *)
(***************************************************************************)
Accepts(m, b) == InWindow(m, b) /\ Nonce(b) \notin seen[m]

\* A map that is never emptied.
RememberAlways(m, b) ==
  /\ seen' = [seen EXCEPT ![m] = @ \union {Nonce(b)}]
  /\ seenLen' = [seenLen EXCEPT ![m] = @ + 1]

Remember(m, b) ==
  IF seenLen[m] + 1 > SeenCap
  THEN seen' = [seen EXCEPT ![m] = {}] /\ seenLen' = [seenLen EXCEPT ![m] = 0]
  ELSE /\ seen' = [seen EXCEPT ![m] = @ \union {Nonce(b)}]
       /\ seenLen' = [seenLen EXCEPT ![m] = @ + 1]

\* Registry.Upsert, LastSeen left out: nothing reads it.
Upsert(m, b) == reg' = [reg EXCEPT ![m][b.from] = b.addr]

Read(m) ==
  /\ addr[m] # Down
  /\ due[m].read > 0
  /\ queue[m] # <<>>
  /\ LET b == Head(queue[m]) IN
       IF Accepts(m, b)
       THEN /\ Remember(m, b)
            /\ Upsert(m, b)
       ELSE UNCHANGED <<seen, seenLen, reg>>
  /\ queue' = [queue EXCEPT ![m] = Tail(@)]
  /\ due' = [due EXCEPT ![m].read = @ - 1]
  /\ UNCHANGED <<addr, held, ago, faults, moves>>

Next ==
  \/ Tick
  \/ \E n \in Nodes : Send(n) \/ Read(n) \/ Crash(n)
  \/ \E n \in Nodes, a \in Addresses : Start(n, a)
  \/ \E c \in held : Arrive(c)

Spec == Init /\ [][Next]_vars

(***************************************************************************)
(* The properties.                                                         *)
(***************************************************************************)

\* The registry only ever takes an address that the node it names had within
\* the window: however late a packet is, no older address comes back.
AddressWasHeld ==
  [][\A m \in Nodes, n \in Nodes :
       LET a == reg'[m][n] IN
       a # reg[m][n] /\ a # Unknown =>
         ago[n][a] + Offset[m] - Offset[n] <= MaxSkew]_vars
=============================================================================
