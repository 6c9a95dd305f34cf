----------------------------- MODULE DiskClaim -----------------------------
(***************************************************************************)
(* Disks that are pulled from one node and plugged into another, and what  *)
(* each node makes of them: the files that name a disk and keep its        *)
(* statistics (diskid.go), the claim at every tick (cmd/server/main.go     *)
(* claimDisk, store.ClaimOrTouchDisk), the global view a node makes of its *)
(* own and its peers' disk rows (federation.go, AggregateDiskStats), the   *)
(* election of the coordinator, and where the coordinator sends a task     *)
(* (GlobalRepo.SubmitTask).                                                *)
(*                                                                         *)
(* Disk rows never travel: a node's table has the disks that were plugged  *)
(* into it.  Nodes are numbers, whose order is that of their ids.          *)
(***************************************************************************)
EXTENDS Naturals, FiniteSets

CONSTANTS Nodes, Disks,
          Names,    \* the ids a disk may be given; genUUID repeats none
          NoName,   \* stands for "no id file"
          TornName, \* stands for an id file that does not parse
          Nobody,   \* stands for an empty node id, and for "no node"
          Nowhere,  \* stands for "no disk row"
          Home,     \* the node each disk is plugged into in the beginning
          LastTime, \* bound on the clock
          Grace,    \* CLAIM_GRACE_SEC
          Max       \* bound on each kind of event

Events == {"crash", "plug", "io", "unread"}

ASSUME NodeAssumption == Nodes \subseteq Nat /\ Nobody \notin Nodes
ASSUME DiskAssumption == Nobody \notin Disks
ASSUME NowhereAssumption ==
  Nowhere \notin Nodes \union [node : Nodes \union {Nobody}, secs : Nat, seen : Nat]
ASSUME FiniteAssumption == IsFiniteSet(Names)
ASSUME NameAssumption == NoName \notin Names /\ TornName \notin Names
                         /\ NoName # TornName
ASSUME HomeAssumption == Home \in [Disks -> Nodes]
ASSUME TimeAssumption == LastTime \in Nat /\ Grace \in Nat
ASSUME MaxAssumption == Max \in [Events -> Nat]

VARIABLES
  plugged, \* plugged[d]: the node the disk is in
  idFile,  \* idFile[d]: what .immich-disk-id says
  stats,   \* stats[d]: .immich-disk-stats
  row,     \* row[n][k]: node n's row of the disk named k
  tick,    \* tick[n]: the scheduling goroutine of n
  coord,   \* coord[n]: whom n elected last
  task,    \* task[n]: the task of the one directory queued at n
  now,     \* the second it is
  used     \* history: names given, and events of each kind capped by Max

vars == <<plugged, idFile, stats, row, tick, coord, task, now, used>>

Pcs == {"idle", "claim", "naming", "save", "touch", "write", "writing", "fetch"}

\* disks: those still to be claimed; name: the one in hand; at: when the tick
\* began; view: who has each disk; best: the coordinator so far; peers: those
\* still to be asked.
Idle == [pc |-> "idle", disks |-> {}, disk |-> Nobody, name |-> NoName, at |-> 0,
         view |-> [k \in Names |-> Nowhere], best |-> [node |-> Nobody, score |-> 0],
         peers |-> {}]

Rows == [node : Nodes \union {Nobody}, secs : Nat, seen : Nat]
NoTask == [name |-> NoName, seen |-> Nobody]

Ticks == [pc : Pcs, disks : SUBSET Disks, disk : Disks \union {Nobody},
          name : Names \union {NoName}, at : 0 .. LastTime,
          view : [Names -> Nodes \union {Nobody, Nowhere}],
          best : [node : Nodes \union {Nobody}, score : Nat], peers : SUBSET Nodes]

TypeOK ==
  /\ plugged \in [Disks -> Nodes]
  /\ idFile \in [Disks -> Names \union {NoName, TornName}]
  /\ stats \in [Disks -> {"none", "torn", "ok"}]
  /\ row \in [Nodes -> [Names -> Rows \union {Nowhere}]]
  /\ tick \in [Nodes -> Ticks]
  /\ \A n \in Nodes :
       /\ tick[n].pc \in {"save", "touch"} => tick[n].name \in Names
       /\ n \notin tick[n].peers
  /\ coord \in [Nodes -> Nodes \union {Nobody}]
  /\ task \in [Nodes -> [name : Names, seen : Nodes \union {Nobody}] \union {NoTask}]
  /\ now \in 0 .. LastTime
  /\ used = [x \in Events \union {"names"} |-> used[x]]
  /\ used["names"] \subseteq Names
  /\ \A e \in Events : used[e] \in 0 .. Max[e]

Init ==
  /\ plugged = Home
  /\ idFile = [d \in Disks |-> NoName]
  /\ stats = [d \in Disks |-> "none"]
  /\ row = [n \in Nodes |-> [k \in Names |-> Nowhere]]
  /\ tick = [n \in Nodes |-> Idle]
  /\ coord = [n \in Nodes |-> Nobody]
  /\ task = [n \in Nodes |-> NoTask]
  /\ now = 0
  /\ used = [e \in Events \union {"names"} |-> IF e = "names" THEN {} ELSE 0]

Spend(e) == used[e] < Max[e] /\ used' = [used EXCEPT ![e] = @ + 1]

T(n) == tick[n]
Goto(n, pc) == tick' = [tick EXCEPT ![n].pc = pc]
\* The disk in hand is in n; Nobody is a disk that went while a file on it was
\* open.
Here(n) == T(n).disk \in Disks /\ plugged[T(n).disk] = n

----------------------------------------------------------------------------
\* The tick claims one disk after another (claimDisk).  An error ends the
\* claim of that disk only.

StartTick(n) ==
  /\ T(n).pc = "idle"
  /\ tick' = [tick EXCEPT ![n] = [Idle EXCEPT !.pc = "claim", !.at = now,
                                              !.disks = Disks]]
  /\ UNCHANGED <<plugged, idFile, stats, row, coord, task, now, used>>

\* The directory of a disk that is elsewhere cannot be read or written.
Absent(n, d) ==
  /\ T(n).pc = "claim"
  /\ d \in T(n).disks
  /\ plugged[d] # n
  /\ tick' = [tick EXCEPT ![n].disks = @ \ {d}]
  /\ UNCHANGED <<plugged, idFile, stats, row, coord, task, now, used>>

\* ReadOrCreateDiskID: a name that parses is kept.
Identify(n, d) ==
  /\ T(n).pc = "claim"
  /\ d \in T(n).disks
  /\ plugged[d] = n
  /\ idFile[d] \in Names
  /\ tick' = [tick EXCEPT ![n].pc = "save", ![n].disks = @ \ {d},
                          ![n].disk = d, ![n].name = idFile[d]]
  /\ UNCHANGED <<plugged, idFile, stats, row, coord, task, now, used>>

\* Anything else, a read that fails included, gives the disk a new name; the
\* file is emptied before the name is in it.
Create(n, d) ==
  /\ T(n).pc = "claim"
  /\ d \in T(n).disks
  /\ plugged[d] = n
  /\ IF idFile[d] \in Names THEN Spend("unread") ELSE UNCHANGED used
  /\ idFile' = [idFile EXCEPT ![d] = TornName]
  /\ tick' = [tick EXCEPT ![n].pc = "naming", ![n].disks = @ \ {d},
                          ![n].disk = d]
  /\ UNCHANGED <<plugged, stats, row, coord, task, now>>

\* genUUID: names have no order, so any will do.
Fresh == CHOOSE k \in Names : k \notin used.names

NameDisk(n, k) ==
  /\ T(n).pc = "naming"
  /\ Here(n)
  /\ k \notin used.names /\ k = Fresh
  /\ idFile' = [idFile EXCEPT ![T(n).disk] = k]
  /\ used' = [used EXCEPT !.names = @ \union {k}]
  /\ tick' = [tick EXCEPT ![n].pc = "save", ![n].name = k]
  /\ UNCHANGED <<plugged, stats, row, coord, task, now>>

\* The name cannot be written: no claim without it.
UnnamedAnyway(n, k) ==  \* mutant: the error is not looked at
  tick' = [tick EXCEPT ![n].pc = "save", ![n].name = k]
Unnamed(n, k) == Goto(n, "claim")

NameFails(n, k) ==
  /\ T(n).pc = "naming"
  /\ k \notin used.names /\ k = Fresh
  /\ Unnamed(n, k)
  /\ IF Here(n) THEN Spend("io") ELSE UNCHANGED used
  /\ UNCHANGED <<plugged, idFile, stats, row, coord, task, now>>

\* ReadDiskStats: a file that is not there is no error, one that does not
\* parse is.
OnlyReadable(n) == Here(n) /\ stats[T(n).disk] = "ok"  \* mutant: a missing file is one
StatsReadable(n) == Here(n) => stats[T(n).disk] # "torn"

\* SaveDisk, with neither node nor seconds: the upsert overwrites both.
WithoutNode(n) == Nobody

SaveDisk(n) ==
  /\ T(n).pc = "save"
  /\ IF StatsReadable(n)
     THEN /\ row' = [row EXCEPT ![n][T(n).name] =
                       [node |-> WithoutNode(n), secs |-> 0, seen |-> T(n).at]]
          /\ Goto(n, "touch")
     ELSE Goto(n, "claim") /\ UNCHANGED row
  /\ UNCHANGED <<plugged, idFile, stats, coord, task, now, used>>

\* EligibleForClaim and AccrueOnlineSeconds.
MayClaim(n, r, t) == r.node \in {Nobody, n} \/ t - r.seen >= Grace
Accrued(r, t) == r.secs + (IF t > r.seen THEN t - r.seen ELSE 0)

\* ClaimOrTouchDisk.  Only this goroutine writes the table.
Touch(n) ==
  /\ T(n).pc = "touch"
  /\ LET r == row[n][T(n).name]
         t == T(n).at
     IN  IF MayClaim(n, r, t)
         THEN /\ row' = [row EXCEPT ![n][T(n).name] =
                           [node |-> n, secs |-> Accrued(r, t), seen |-> t]]
              /\ Goto(n, "write")
         ELSE Goto(n, "claim") /\ UNCHANGED row
  /\ UNCHANGED <<plugged, idFile, stats, coord, task, now, used>>

\* WriteDiskStats empties the file and fills it.
TruncateStats(n) ==
  /\ T(n).pc = "write"
  /\ Here(n)
  /\ stats' = [stats EXCEPT ![T(n).disk] = "torn"]
  /\ Goto(n, "writing")
  /\ UNCHANGED <<plugged, idFile, row, coord, task, now, used>>

WriteStats(n) ==
  /\ T(n).pc = "writing"
  /\ Here(n)
  /\ stats' = [stats EXCEPT ![T(n).disk] = "ok"]
  /\ Goto(n, "claim")
  /\ UNCHANGED <<plugged, idFile, row, coord, task, now, used>>

StatsFail(n) ==
  /\ T(n).pc \in {"write", "writing"}
  /\ IF Here(n) THEN Spend("io") ELSE UNCHANGED used
  /\ Goto(n, "claim")
  /\ UNCHANGED <<plugged, idFile, stats, row, coord, task, now>>

----------------------------------------------------------------------------
\* The federation and the coordinator.

\* nodeFromState scores a node by the seconds of its disks.
Score(n) ==
  LET sum[K \in SUBSET Names] ==
        IF K = {} THEN 0
        ELSE LET k == CHOOSE j \in K : TRUE
             IN  sum[K \ {k}] + (IF row[n][k] = Nowhere THEN 0 ELSE row[n][k].secs)
  IN  sum[Names]

Reported(n, k) == IF row[n][k] = Nowhere THEN Nowhere ELSE row[n][k].node

\* AggregateDiskStats: no report carries a last-seen time, so the node of the
\* first one stays.
Merged(view, n) ==
  [k \in Names |-> IF view[k] = Nowhere THEN Reported(n, k) ELSE view[k]]

\* ElectCoordinator: the highest score, of equals the smallest id.
FirstWins(best, n) ==  \* mutant: no tie-break
  IF best.node = Nobody \/ Score(n) > best.score
  THEN [node |-> n, score |-> Score(n)] ELSE best
Elected(best, n) ==
  IF \/ best.node = Nobody
     \/ Score(n) > best.score
     \/ Score(n) = best.score /\ n < best.node
  THEN [node |-> n, score |-> Score(n)] ELSE best

Include(n, m) ==
  tick' = [tick EXCEPT ![n].view = Merged(@, m), ![n].best = Elected(@, m),
                       ![n].pc = "fetch",
                       ![n].peers = IF m = n THEN Nodes \ {n} ELSE @ \ {m}]

\* Its own state first,
Federate(n) ==
  /\ T(n).pc = "claim"
  /\ T(n).disks = {}
  /\ Include(n, n)
  /\ UNCHANGED <<plugged, idFile, stats, row, coord, task, now, used>>

\* then that of each peer, which may be in the middle of a claim,
FetchState(n, m) ==
  /\ T(n).pc = "fetch"
  /\ m \in T(n).peers
  /\ Include(n, m)
  /\ UNCHANGED <<plugged, idFile, stats, row, coord, task, now, used>>

\* which may not answer: nothing is scheduled.
FetchFails(n) ==
  /\ T(n).pc = "fetch"
  /\ T(n).peers # {}
  /\ tick' = [tick EXCEPT ![n] = Idle]
  /\ UNCHANGED <<plugged, idFile, stats, row, coord, task, now, used>>

Schedule(n) ==
  /\ T(n).pc = "fetch"
  /\ T(n).peers = {}
  /\ coord' = [coord EXCEPT ![n] = T(n).best.node]
  /\ tick' = [tick EXCEPT ![n] = Idle]
  /\ UNCHANGED <<plugged, idFile, stats, row, now, used>>

\* GlobalRepo.SubmitTask: to the node the view has the disk at, or here.
AlwaysHere(n, k) == n  \* mutant: the task is not sent to another node
Routed(n, k) == IF T(n).view[k] = Nobody THEN n ELSE T(n).view[k]

\* The coordinator may find a disk for the directory; a node that ever had a
\* task of the directory ignores the new one.
Submit(n, k) ==
  /\ Schedule(n)
  /\ T(n).best.node = n
  /\ T(n).view[k] # Nowhere
  /\ LET m == Routed(n, k)
     IN  task' = IF task[m] = NoTask
                 THEN [task EXCEPT ![m] = [name |-> k, seen |-> T(n).view[k]]]
                 ELSE task

SubmitNone(n) == Schedule(n) /\ UNCHANGED task

----------------------------------------------------------------------------

\* A disk is pulled out and plugged in elsewhere.  A file that is open on it is
\* lost to its node, even if the disk comes back.
HasOpen(m, d) == T(m).pc \in {"naming", "writing"} /\ T(m).disk = d

Plug(d, n) ==
  /\ plugged[d] # n
  /\ Spend("plug")
  /\ plugged' = [plugged EXCEPT ![d] = n]
  /\ tick' = [m \in Nodes |-> IF HasOpen(m, d) THEN [tick[m] EXCEPT !.disk = Nobody]
                              ELSE tick[m]]
  /\ UNCHANGED <<idFile, stats, row, coord, task, now>>

Crash(n) ==
  /\ T(n).pc # "idle"
  /\ Spend("crash")
  /\ tick' = [tick EXCEPT ![n] = Idle]
  /\ UNCHANGED <<plugged, idFile, stats, row, coord, task, now>>

Pass ==
  /\ now < LastTime
  /\ now' = now + 1
  /\ UNCHANGED <<plugged, idFile, stats, row, tick, coord, task, used>>

Tick(n) ==
  \/ StartTick(n)
  \/ \E d \in Disks : Absent(n, d) \/ Identify(n, d) \/ Create(n, d)
  \/ \E k \in Names : NameDisk(n, k) \/ NameFails(n, k) \/ Submit(n, k)
  \/ SaveDisk(n) \/ Touch(n) \/ TruncateStats(n) \/ WriteStats(n) \/ StatsFail(n)
  \/ Federate(n) \/ FetchFails(n) \/ SubmitNone(n)
  \/ \E m \in Nodes : FetchState(n, m)

Next ==
  \/ \E n \in Nodes : Tick(n) \/ Crash(n)
  \/ \E d \in Disks, n \in Nodes : Plug(d, n)
  \/ Pass

Spec == Init /\ [][Next]_vars

\* Each node's ticker goes on.
FairSpec == Spec /\ \A n \in Nodes : WF_vars(Tick(n))

----------------------------------------------------------------------------
\* Properties.

\* A disk keeps the name it has rows under, whatever is interrupted and
\* wherever it is plugged in, unless its id file could not be read once.
NameSticks ==
  used["unread"] = 0 =>
    \A n \in Nodes, k \in Names :
      row[n][k] # Nowhere => \E d \in Disks : idFile[d] = k

\* Nodes that have heard each other elect one coordinator, though each has
\* read the others' states at other moments.
OneCoordinator ==
  \A n, m \in Nodes : coord[n] = n /\ coord[m] = m => n = m

\* A task is queued where the disk has been plugged in, unless the view was
\* made while the disk's node was claiming it anew: then it has no node.
TaskReachesDisk ==
  \A n \in Nodes :
    task[n] # NoTask => task[n].seen = Nobody \/ row[n][task[n].name] # Nowhere

\* A disk that stays plugged in is claimed at its node again and again, unless
\* its statistics were cut off, which no later tick repairs.
Claimed(n, d) ==
  idFile[d] \in Names /\ row[n][idFile[d]] # Nowhere /\ row[n][idFile[d]].node = n

StatsLost(d) ==
  stats[d] = "torn" /\ \A n \in Nodes : ~(T(n).pc = "writing" /\ T(n).disk = d)

StaysClaimed ==
  \A n \in Nodes, d \in Disks :
    <>[](plugged[d] = n) => []<>(Claimed(n, d) \/ StatsLost(d))

----------------------------------------------------------------------------
\* The inductive invariants of the proofs.

\* A disk that is being named has no name yet, and a name in hand is on a disk.
NameInv ==
  /\ \A n \in Nodes : T(n).pc = "naming" /\ Here(n) => idFile[T(n).disk] = TornName
  /\ used["unread"] = 0 =>
       \A n \in Nodes : T(n).pc \in {"save", "touch"} =>
         \E d \in Disks : idFile[d] = T(n).name

\* A node has the disks of its table for its own or for nobody's, and never a
\* second to their credit: SaveDisk begins each tick at zero, and at its time.
RowInv ==
  \A n \in Nodes :
    /\ \A k \in Names : row[n][k] # Nowhere =>
         row[n][k].node \in {n, Nobody} /\ row[n][k].secs = 0
    /\ T(n).pc = "touch" =>
         row[n][T(n).name] # Nowhere /\ row[n][T(n).name].seen = T(n).at

\* So all scores are equal, and the node of the smallest id is ahead.
Heard(n) == IF T(n).pc = "fetch" THEN Nodes \ T(n).peers ELSE {}
Smallest(m, N) == m \in N /\ \A o \in N : m <= o

ElectInv ==
  \A n \in Nodes :
    /\ T(n).best.score = 0
    /\ IF Heard(n) = {} THEN T(n).best.node = Nobody ELSE Smallest(T(n).best.node, Heard(n))
    /\ coord[n] # Nobody => Smallest(coord[n], Nodes)

\* A view has a disk only where it has a row.
ViewInv ==
  \A n \in Nodes, k \in Names :
    T(n).view[k] \in Nodes => row[T(n).view[k]][k] # Nowhere
=============================================================================
