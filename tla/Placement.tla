----------------------------- MODULE Placement -----------------------------
(***************************************************************************)
(* Where a directory is: the row of one directory in the `directory' table *)
(* of every node.  A node writes its own row when it scans a disk whose    *)
(* sidecar lists the directory (scanner.syncDir), when an asset is         *)
(* uploaded (store.SaveUploadedAsset), and when its worker has moved the   *)
(* directory to one of its disks (worker.rehost); it learns the rows of    *)
(* other nodes by federation (server.Federate, cluster.Federation.Run),    *)
(* which fetches one node after another and then saves what it found.      *)
(* Every write goes through store.SaveDirectory, where the greater         *)
(* last_eval_at wins.                                                      *)
(*                                                                         *)
(* Each node stamps its writes with a clock of its own, in seconds: clocks *)
(* may be apart, and two writes may carry the same stamp.  A node has one  *)
(* scheduling goroutine (scan, federation, worker) and, beside it, the     *)
(* handlers of uploads, deletions and of other nodes' calls.  The copy and *)
(* the release of the files are TaskWorker's subject: here a migration is  *)
(* what it does to the rows.  It leaves the sidecar of the source disk as  *)
(* it is and writes none on the target.                                    *)
(***************************************************************************)
EXTENDS Naturals

CONSTANTS Nodes, Disks,
          Host,         \* the node each disk is mounted on
          Home,         \* the disk the directory is on in the beginning
          Id,           \* node ids, compared to break a tie of stamps
          Start,        \* Start[n]: the clock of n in the beginning, in seconds
          Times,        \* Times[n]: the seconds it may show later
          Targets,      \* disks a migration may choose
          Coordinators, \* nodes that hold themselves to be the coordinator
          NoRow,        \* stands for "no row of the directory"
          NoDisk,       \* stands for "no disk"
          Max           \* bound on each kind of event

Events == {"rpc", "crash", "upload", "discard"}

ASSUME HostAssumption == Host \in [Disks -> Nodes] /\ Home \in Disks
ASSUME IdAssumption == Id \in [Nodes -> Nat]
ASSUME TimesAssumption == Start \in [Nodes -> Nat] /\ Times \in [Nodes -> SUBSET Nat]
ASSUME TargetAssumption == Targets \subseteq Disks
ASSUME CoordinatorAssumption == Coordinators \subseteq Nodes
ASSUME NoDiskAssumption == NoDisk \notin Disks
ASSUME MaxAssumption == Max \in [Events -> Nat]

Rows == [owner : Nodes, disk : Disks, stamp : Nat]

ASSUME NoRowAssumption == NoRow \notin Rows

VARIABLES
  clock,   \* clock[n]: the second node n believes it is
  row,     \* row[n]: the directory's row in the database of n, or NoRow
  listed,  \* disks whose sidecar lists an asset of the directory
  at,      \* at[n]: where the scheduling goroutine of n is
  view,    \* view[n]: the best row of the federation under way
  heard,   \* heard[n]: the nodes it has read already
  task,    \* task[n]: the migration task of the directory at node n
  upload,  \* upload[n]: an upload that has read the row and not written it
  used     \* history: events of each kind so far, capped by Max

vars == <<clock, row, listed, at, view, heard, task, upload, used>>

MaybeRow == Rows \union {NoRow}
NoTask == [status |-> "none", src |-> NoDisk, dst |-> NoDisk, remote |-> FALSE]
Tasks == [status : {"none", "QUEUED", "RUNNING", "DONE", "FAILED"},
          src : Disks \union {NoDisk}, dst : Disks \union {NoDisk},
          remote : BOOLEAN]
NoUpload == [disk |-> NoDisk, seen |-> NoRow]
Uploads == [disk : Disks, seen : MaybeRow] \union {NoUpload}

TypeOK ==
  /\ clock \in [Nodes -> Nat]
  /\ row \in [Nodes -> MaybeRow]
  /\ listed \subseteq Disks
  /\ at \in [Nodes -> {"idle", "fed", "adopt", "notify"}]
  /\ view \in [Nodes -> MaybeRow]
  /\ heard \in [Nodes -> SUBSET Nodes]
  /\ task \in [Nodes -> Tasks]
  /\ \A n \in Nodes :
       /\ at[n] \in {"adopt", "notify"} => task[n].status # "none"
       /\ task[n].status # "none" => task[n].src \in Disks /\ task[n].dst \in Disks
  /\ upload \in [Nodes -> Uploads]
  /\ used \in [Events -> Nat]

Init ==
  /\ clock = Start
  /\ row = [n \in Nodes |->
              IF n = Host[Home]
              THEN [owner |-> n, disk |-> Home, stamp |-> Start[n]]
              ELSE NoRow]
  /\ listed = {Home}
  /\ at = [n \in Nodes |-> "idle"]
  /\ view = [n \in Nodes |-> NoRow]
  /\ heard = [n \in Nodes |-> {}]
  /\ task = [n \in Nodes |-> NoTask]
  /\ upload = [n \in Nodes |-> NoUpload]
  /\ used = [e \in Events |-> 0]

Spend(e) == used[e] < Max[e] /\ used' = [used EXCEPT ![e] = @ + 1]

----------------------------------------------------------------------------
\* The table.

\* SaveDirectory: the upsert takes effect only with a newer stamp.
SaveDirectory(n, r) ==
  row' = IF row[n] = NoRow \/ r.stamp > row[n].stamp
         THEN [row EXCEPT ![n] = r] ELSE row

\* The row a node writes about itself.
WithoutDisk(n, d) == [owner |-> n, disk |-> NoDisk, stamp |-> clock[n]]  \* mutant
OwnRow(n, d) == [owner |-> n, disk |-> d, stamp |-> clock[n]]

\* RelinquishDirectory and DeleteAsset delete the row only while it names the
\* node itself.
DeleteOwn(n) ==
  row' = IF row[n] # NoRow /\ row[n].owner = n THEN [row EXCEPT ![n] = NoRow]
                                               ELSE row

\* A node writes about itself only if its table names no other owner.
MayClaim(n, seen) == seen # NoRow => seen.owner = n

----------------------------------------------------------------------------
\* Writes about itself.

\* ScanRepository: the row is written even if no file of the sidecar exists.
Scan(d) ==
  LET n == Host[d]
  IN  /\ at[n] = "idle"
      /\ d \in listed
      /\ MayClaim(n, row[n])
      /\ SaveDirectory(n, OwnRow(n, d))
      /\ UNCHANGED <<clock, listed, at, view, heard, task, upload, used>>

\* uploadAsset up to the row SaveUploadedAsset reads ...
UploadReads(d) ==
  LET n == Host[d]
  IN  /\ upload[n] = NoUpload
      /\ Spend("upload")
      /\ listed' = listed \union {d}
      /\ upload' = [upload EXCEPT ![n] = [disk |-> d, seen |-> row[n]]]
      /\ UNCHANGED <<clock, row, at, view, heard, task>>

\* ... and the row it writes.
UploadSaves(n) ==
  /\ upload[n] # NoUpload
  /\ IF MayClaim(n, upload[n].seen)
     THEN SaveDirectory(n, OwnRow(n, upload[n].disk)) ELSE UNCHANGED row
  /\ upload' = [upload EXCEPT ![n] = NoUpload]
  /\ UNCHANGED <<clock, listed, at, view, heard, task, used>>

\* The last asset a node lists in the directory is deleted: the row goes, and
\* the sidecar entry on the disk of one replica, if this disk has one.
Discard(d) ==
  /\ \E e \in listed : Host[e] = Host[d]
  /\ Spend("discard")
  /\ DeleteOwn(Host[d])
  /\ listed' = listed \ {d}
  /\ UNCHANGED <<clock, at, view, heard, task, upload>>

----------------------------------------------------------------------------
\* Federation.

\* AggregateDirectoryStats: the newer row, of equally new ones that of the
\* greater node id.
FirstSeen(r, cur) == cur = NoRow  \* mutant: the first row found is kept
Better(r, cur) ==
  \/ cur = NoRow
  \/ r.stamp > cur.stamp
  \/ r.stamp = cur.stamp /\ Id[r.owner] > Id[cur.owner]

Merge(cur, r) == IF r # NoRow /\ Better(r, cur) THEN r ELSE cur

\* The node's own state is read first,
Federate(n) ==
  /\ at[n] = "idle"
  /\ at' = [at EXCEPT ![n] = "fed"]
  /\ view' = [view EXCEPT ![n] = row[n]]
  /\ heard' = [heard EXCEPT ![n] = {n}]
  /\ UNCHANGED <<clock, row, listed, task, upload, used>>

\* then that of one peer after another,
FetchState(n, m) ==
  /\ at[n] = "fed"
  /\ m \notin heard[n]
  /\ view' = [view EXCEPT ![n] = Merge(@, row[m])]
  /\ heard' = [heard EXCEPT ![n] = @ \union {m}]
  /\ UNCHANGED <<clock, row, listed, at, task, upload, used>>

\* and one that does not answer ends the federation.
FetchFails(n) ==
  /\ at[n] = "fed"
  /\ heard[n] # Nodes
  /\ Spend("rpc")
  /\ at' = [at EXCEPT ![n] = "idle"]
  /\ view' = [view EXCEPT ![n] = NoRow]
  /\ heard' = [heard EXCEPT ![n] = {}]
  /\ UNCHANGED <<clock, row, listed, task, upload>>

Restamped(n) == [view[n] EXCEPT !.stamp = clock[n]]  \* mutant: stamped anew
Learned(n) == view[n]

SaveView(n) ==
  /\ at[n] = "fed"
  /\ heard[n] = Nodes
  /\ IF view[n] = NoRow THEN UNCHANGED row ELSE SaveDirectory(n, Learned(n))
  /\ at' = [at EXCEPT ![n] = "idle"]
  /\ view' = [view EXCEPT ![n] = NoRow]
  /\ heard' = [heard EXCEPT ![n] = {}]
  /\ UNCHANGED <<clock, listed, task, upload, used>>

----------------------------------------------------------------------------
\* A migration.

\* RunBalancingCycle and SubmitTask: one task of the directory per node, ever.
Emit(c, d) ==
  /\ c \in Coordinators
  /\ at[c] = "idle"
  /\ row[c] # NoRow
  /\ d \in Targets \ {row[c].disk}
  /\ task[Host[d]].status = "none"
  /\ task' = [task EXCEPT ![Host[d]] =
       [status |-> "QUEUED", src |-> row[c].disk, dst |-> d, remote |-> FALSE]]
  /\ UNCHANGED <<clock, row, listed, at, view, heard, upload, used>>

NotifyFirst(remote) ==  \* mutant: the source gives up before the target has it
  IF remote THEN "notify" ELSE "adopt"
AfterCopy(remote) == "adopt"

\* runMigration: the row must be here or at the source node, which is known
\* only if the last federation succeeded; what follows until the row is
\* written is copying and releasing.
StartMigration(n) ==
  LET s == Host[task[n].src]
  IN  /\ at[n] = "idle"
      /\ task[n].status = "QUEUED"
      /\ \E sees \in BOOLEAN :
           LET remote == sees /\ s # n
           IN  IF row[n] # NoRow \/ (remote /\ row[s] # NoRow)
               THEN /\ at' = [at EXCEPT ![n] = AfterCopy(remote)]
                    /\ task' = [task EXCEPT ![n].status = "RUNNING",
                                            ![n].remote = remote]
               ELSE /\ task' = [task EXCEPT ![n].status = "FAILED"]
                    /\ UNCHANGED at
      /\ UNCHANGED <<clock, row, listed, view, heard, upload, used>>

\* The copy or the release fails.
MigrationFails(n) ==
  /\ at[n] = "adopt"
  /\ Spend("rpc")
  /\ at' = [at EXCEPT ![n] = "idle"]
  /\ task' = [task EXCEPT ![n].status = "FAILED"]
  /\ UNCHANGED <<clock, row, listed, view, heard, upload>>

\* rehost: the row is written; an older clock leaves it as it is.
Adopt(n) ==
  /\ at[n] = "adopt"
  /\ SaveDirectory(n, OwnRow(n, task[n].dst))
  /\ IF task[n].remote
     THEN at' = [at EXCEPT ![n] = "notify"] /\ UNCHANGED task
     ELSE /\ at' = [at EXCEPT ![n] = "idle"]
          /\ task' = [task EXCEPT ![n].status = "DONE"]
  /\ UNCHANGED <<clock, listed, view, heard, upload, used>>

\* handleRehostDirectory at the source node; the call or its answer is lost.
Notify(n) ==
  LET s == Host[task[n].src]
  IN  /\ at[n] = "notify"
      /\ \/ /\ DeleteOwn(s)
            /\ task' = [task EXCEPT ![n].status = "DONE"]
            /\ UNCHANGED used
         \/ /\ DeleteOwn(s) \/ UNCHANGED row
            /\ task' = [task EXCEPT ![n].status = "FAILED"]
            /\ Spend("rpc")
      /\ at' = [at EXCEPT ![n] = "idle"]
      /\ UNCHANGED <<clock, listed, view, heard, upload>>

----------------------------------------------------------------------------

Tick(n) ==
  /\ \E t \in Times[n] :
       /\ t > clock[n]
       /\ \A u \in Times[n] : u > clock[n] => t <= u
       /\ clock' = [clock EXCEPT ![n] = t]
  /\ UNCHANGED <<row, listed, at, view, heard, task, upload, used>>

\* The process dies and starts again; a RUNNING task is not taken up again.
Crash(n) ==
  /\ at[n] # "idle" \/ upload[n] # NoUpload
  /\ Spend("crash")
  /\ at' = [at EXCEPT ![n] = "idle"]
  /\ view' = [view EXCEPT ![n] = NoRow]
  /\ heard' = [heard EXCEPT ![n] = {}]
  /\ upload' = [upload EXCEPT ![n] = NoUpload]
  /\ UNCHANGED <<clock, row, listed, task>>

Federation(n) ==
  \/ Federate(n)
  \/ \E m \in Nodes : FetchState(n, m)
  \/ SaveView(n)

Migration(n) ==
  \/ StartMigration(n)
  \/ Adopt(n)
  \/ Notify(n)

Next ==
  \/ \E d \in Disks : Scan(d) \/ UploadReads(d) \/ Discard(d)
  \/ \E c \in Nodes, d \in Disks : Emit(c, d)
  \/ \E n \in Nodes :
       \/ UploadSaves(n)
       \/ Federation(n)
       \/ FetchFails(n)
       \/ Migration(n)
       \/ MigrationFails(n)
       \/ Tick(n)
       \/ Crash(n)

Spec == Init /\ [][Next]_vars

\* The scheduling loop of every node runs: it federates again and again and
\* goes on with the migration it has begun.
FairSpec ==
  Spec /\ \A n \in Nodes : /\ WF_vars(Federation(n))
                           /\ WF_vars(Adopt(n) \/ Notify(n))

----------------------------------------------------------------------------
\* Properties.

\* No copy of a row, in a table or in a federation under way, is newer than
\* the clock of the node it names: what a node writes about itself in a later
\* second wins over every copy of what it wrote before.
StampsOfOwner ==
  \A n \in Nodes :
    /\ row[n] # NoRow => row[n].stamp <= clock[row[n].owner]
    /\ view[n] # NoRow => view[n].stamp <= clock[view[n].owner]

\* Unless its last asset is deleted the directory is listed at some node:
\* handing it over never leaves it without a row, whichever call is lost and
\* whenever a process dies.
NeverForgotten ==
  used["discard"] = 0 => \E n \in Nodes : row[n] # NoRow

\* All nodes end up with the same row of the directory.
Converges == <>[](\A n, m \in Nodes : row[n] = row[m])

\* Once a migration is done its node's row keeps naming the target disk.
MigrationSticks ==
  [][\A n \in Nodes :
       /\ task[n].status = "DONE"
       /\ row[n] # NoRow /\ row[n].disk = task[n].dst
       /\ row'[n] # NoRow
       => row'[n].disk = task[n].dst]_vars
=============================================================================
