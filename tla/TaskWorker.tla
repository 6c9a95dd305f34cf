----------------------------- MODULE TaskWorker -----------------------------
(***************************************************************************)
(* The tasks that move one directory and replicate its assets: the         *)
(* coordinator that emits them (coordinator.go), the task table of each    *)
(* node (store.go), the worker that executes them one after another        *)
(* (worker.go), and the handlers of the source node it calls while the     *)
(* coordinator, the uploads and the other node's worker run beside it      *)
(* (clusterapi.handleReleaseSource, handleRehostDirectory, uploadAsset,    *)
(* deleteAsset).                                                           *)
(*                                                                         *)
(* Every node has a database of its own: asset rows, replica rows and      *)
(* tasks never travel, only directory rows do.  Copying a file is one      *)
(* step here; MigrationExec is that step in detail, and what it leaves     *)
(* behind, the completed list of .migrating.json on the target disk, is    *)
(* kept.  A scan of a disk, an upload and a deletion are one step each, too *)
(* (Library and AssetApi take them apart).                                 *)
(*                                                                         *)
(* The scheduling goroutine goes through ticks (main.makeTick): it scans   *)
(* its disks, federates, plans when it is the coordinator, and executes    *)
(* the tasks that wait.  The handlers run beside it.  The directory's rows *)
(* carry a version in place of last_eval_at: a later write is newer than   *)
(* every earlier one (no two writes of one second, no clock behind         *)
(* another; Placement has both).                                           *)
(***************************************************************************)
EXTENDS Naturals, FiniteSets

CONSTANTS Nodes, Disks, Assets,
          Mig,          \* the id "mig-<dirKey>"; a replica task's id is its asset
          NoDir,        \* stands for "no directory row"
          NoDisk,       \* stands for "no disk"
          Host,         \* the node each disk is mounted on
          MinReplicas,
          Placed,       \* <<asset, disk>> pairs present in the beginning
          Listed,       \* those of them that the sidecar of their disk lists
          KnownToo,     \* <<node, asset>>: asset rows beyond those of Placed
          Home,         \* the disk the directory row names in the beginning
          Targets,      \* disks whose tier and free space suit the directory
          Roomy,        \* disks with room for another replica
          Coordinators, \* nodes that hold themselves to be the coordinator
          Max,          \* bound on each kind of event
          MaxFaults     \* bound on the faults among them together

\* "fail": a call, a copy or a federation fails; "write": a status update is lost.
Events == {"crash", "fail", "write", "scan", "upload", "delete"}
Faults == {"crash", "fail", "write"}
TaskIds == {Mig} \union Assets

ASSUME IdAssumption == Mig \notin Assets
ASSUME HostAssumption == Host \in [Disks -> Nodes] /\ Home \in Disks
ASSUME TargetAssumption == Targets \subseteq Disks
ASSUME RoomyAssumption == Roomy \subseteq Disks
ASSUME MinAssumption == MinReplicas \in Nat
ASSUME PlacedAssumption == Placed \subseteq Assets \X Disks
ASSUME ListedAssumption == Listed \subseteq Placed
ASSUME KnownAssumption == KnownToo \subseteq Nodes \X Assets
ASSUME CoordinatorAssumption == Coordinators \subseteq Nodes
ASSUME MaxAssumption == Max \in [Events -> Nat] /\ MaxFaults \in Nat
ASSUME NoDiskAssumption == NoDisk \notin Disks
ASSUME FiniteAssumption == IsFiniteSet(Nodes) /\ IsFiniteSet(Disks)

VARIABLES
  bytes,     \* <<asset, disk>> pairs whose file is on the disk
  sidecar,   \* sidecar[d]: the assets the directory's sidecar on d lists
  known,     \* known[n]: the asset rows of node n
  replica,   \* replica[n]: its replica rows, all HEALTHY
  manifest,  \* manifest[d]: assets listed completed in disk d's manifest
  dir,       \* dir[n]: node n's row of the directory
  task,      \* task[n][id]: its task table
  worker,    \* worker[n]: the scheduling goroutine
  view,      \* view[n]: the newest row of the federation under way
  heard,     \* heard[n]: the nodes whose disks this tick's global view has
  begun,     \* history: begun[n], the tasks whose execution has begun
  used       \* history: events of each kind so far, capped by Max

vars == <<bytes, sidecar, known, replica, manifest, dir, task, worker, view,
          heard, begun, used>>

Statuses == {"none", "QUEUED", "RUNNING", "DONE", "FAILED"}
Pcs == {"idle", "federate", "plan", "list", "pick", "open", "copy", "register",
        "judge", "release", "wipe", "rehost", "relinquish", "ok", "err"}

Idle == [pc |-> "idle", id |-> Mig, queue |-> {}, assets |-> {}, todo |-> {},
         src |-> NoDisk, remote |-> FALSE, safe |-> {}, cur |-> {}]

Workers == [pc : Pcs, id : TaskIds, queue : SUBSET TaskIds, assets : SUBSET Assets,
            todo : SUBSET Assets, src : Disks \union {NoDisk}, remote : BOOLEAN,
            safe : SUBSET Assets, cur : SUBSET Assets]

Tasks == [status : Statuses, src : Disks \union {NoDisk}, dst : Disks \union {NoDisk}]

NoTask == [status |-> "none", src |-> NoDisk, dst |-> NoDisk]

\* Rows of the directory table.
Rows == [node : Nodes, disk : Disks, version : Nat]

ASSUME NoDirAssumption == NoDir \notin Rows

TypeOK ==
  /\ bytes \subseteq Assets \X Disks
  /\ sidecar \in [Disks -> SUBSET Assets]
  /\ known \in [Nodes -> SUBSET Assets]
  /\ replica \in [Nodes -> SUBSET (Assets \X Disks)]
  /\ manifest \in [Disks -> SUBSET Assets]
  /\ dir \in [Nodes -> Rows \union {NoDir}]
  /\ task \in [Nodes -> [TaskIds -> Tasks]]
  /\ worker \in [Nodes -> Workers]
  /\ view \in [Nodes -> Rows \union {NoDir}]
  /\ heard \in [Nodes -> SUBSET Nodes]
  /\ begun \in [Nodes -> SUBSET TaskIds]
  /\ used \in [Events -> Nat]

\* The assets node n lists in the beginning.
Lists(n) == {a \in Assets : \/ \E d \in Disks : Host[d] = n /\ <<a, d>> \in Placed
                            \/ <<n, a>> \in KnownToo}

Init ==
  /\ bytes = Placed
  /\ sidecar = [d \in Disks |-> {a \in Assets : <<a, d>> \in Listed}]
  /\ known = [n \in Nodes |-> Lists(n)]
  /\ replica = [n \in Nodes |-> {p \in Placed : Host[p[2]] = n}]
  /\ manifest = [d \in Disks |-> {}]
  /\ dir = [n \in Nodes |-> IF n = Host[Home]
                            THEN [node |-> n, disk |-> Home, version |-> 0]
                            ELSE NoDir]
  /\ task = [n \in Nodes |-> [id \in TaskIds |-> NoTask]]
  /\ worker = [n \in Nodes |-> Idle]
  /\ view = [n \in Nodes |-> NoDir]
  /\ heard = [n \in Nodes |-> {}]
  /\ begun = [n \in Nodes |-> {}]
  /\ used = [e \in Events |-> 0]

\* The time of the next write of a directory row.
Now ==
  LET stamps == {dir[n].version : n \in {m \in Nodes : dir[m] # NoDir}}
                  \union {view[n].version : n \in {m \in Nodes : view[m] # NoDir}}
  IN  CHOOSE t \in {0} \union {v + 1 : v \in stamps} : \A v \in stamps : v < t

\* A row learned elsewhere counts if it is newer.
Newer(r, cur) == r # NoDir /\ (cur # NoDir => cur.version < r.version)

\* A node writes a row of its own unless it knows another owner.
WriteOwn(n, d) ==
  dir' = IF dir[n] # NoDir /\ dir[n].node # n THEN dir
         ELSE [dir EXCEPT ![n] = [node |-> n, disk |-> d, version |-> Now]]

FaultsSoFar == used["crash"] + used["fail"] + used["write"]

Spend(e) ==
  /\ used[e] < Max[e]
  /\ e \in Faults => FaultsSoFar < MaxFaults
  /\ used' = [used EXCEPT ![e] = @ + 1]

----------------------------------------------------------------------------
\* The coordinator.  It plans between a federation and the tasks of its own
\* worker; a task goes to the node the target is mounted on.

\* SubmitTask is INSERT OR IGNORE: an id that ever existed is never queued again.
SubmitOverwrites(n, id, src, dst) ==  \* mutant: INSERT OR REPLACE
  task' = [task EXCEPT ![n][id] = [status |-> "QUEUED", src |-> src, dst |-> dst]]
SubmitTask(n, id, src, dst) ==
  /\ task[n][id].status = "none"
  /\ task' = [task EXCEPT ![n][id] = [status |-> "QUEUED", src |-> src, dst |-> dst]]

\* PlanMigration never picks the disk the directory is on.
EmitMigration(c, dst) ==
  /\ c \in Coordinators
  /\ worker[c].pc = "plan"
  /\ dir[c] # NoDir
  /\ dst \in Targets \ {dir[c].disk}
  /\ Host[dst] \in heard[c]
  /\ SubmitTask(Host[dst], Mig, dir[c].disk, dst)
  /\ UNCHANGED <<bytes, sidecar, known, replica, manifest, dir, worker, view,
                 heard, begun, used>>

\* CountHealthyReplicas joins the local disk table: this node's disks only.
ReplicaCount(n, a) ==
  Cardinality({d \in Disks : <<a, d>> \in replica[n] /\ Host[d] = n})

\* SelectReplicaTarget: not a disk that has a replica, and, all the rows this
\* node has being its own, not a disk of this node once there is one.
ReplicaTarget(n, a, d) ==
  /\ <<a, d>> \notin replica[n]
  /\ (\E e \in Disks : <<a, e>> \in replica[n]) => Host[d] # n

EmitReplica(c, a, dst) ==
  /\ c \in Coordinators
  /\ worker[c].pc = "plan"
  /\ a \in known[c]
  /\ ReplicaCount(c, a) < MinReplicas
  /\ dst \in Roomy
  /\ ReplicaTarget(c, a, dst)
  /\ Host[dst] \in heard[c]
  /\ SubmitTask(Host[dst], a, NoDisk, dst)
  /\ UNCHANGED <<bytes, sidecar, known, replica, manifest, dir, worker, view,
                 heard, begun, used>>

----------------------------------------------------------------------------
\* The tick of node n: scan, federation, tasks.

W(n) == worker[n]
Dst(n) == task[n][W(n).id].dst

Goto(n, pc) == worker' = [worker EXCEPT ![n].pc = pc]

\* ScanRepository, every fourth tick: what the sidecar lists and the disk has is
\* entered again; the directory's row is written even if nothing is.
Scan(n, d) ==
  /\ W(n).pc = "idle"
  /\ Host[d] = n
  /\ sidecar[d] # {}
  /\ Spend("scan")
  /\ LET found == {a \in sidecar[d] : <<a, d>> \in bytes}
     IN  /\ known' = [known EXCEPT ![n] = @ \union found]
         /\ replica' = [replica EXCEPT ![n] = @ \union (found \X {d})]
  /\ WriteOwn(n, d)
  /\ UNCHANGED <<bytes, sidecar, manifest, task, worker, view, heard, begun>>

\* Federate: the node's own state is read first, then that of one peer after
\* another; only then is the newest row saved, which may have been relinquished
\* meanwhile.
Collect(n) ==
  /\ W(n).pc = "idle"
  /\ Goto(n, "federate")
  /\ view' = [view EXCEPT ![n] = dir[n]]
  /\ heard' = [heard EXCEPT ![n] = {n}]
  /\ UNCHANGED <<bytes, sidecar, known, replica, manifest, dir, task, begun,
                 used>>

Fetch(n, m) ==
  /\ W(n).pc = "federate"
  /\ m \notin heard[n]
  /\ view' = IF Newer(dir[m], view[n]) THEN [view EXCEPT ![n] = dir[m]] ELSE view
  /\ heard' = [heard EXCEPT ![n] = @ \union {m}]
  /\ UNCHANGED <<bytes, sidecar, known, replica, manifest, dir, task, worker,
                 begun, used>>

\* A peer the registry has lost is not asked.
SaveView(n) ==
  /\ W(n).pc = "federate"
  /\ IF heard[n] = Nodes THEN UNCHANGED used ELSE Spend("fail")
  /\ Goto(n, "plan")
  /\ dir' = IF Newer(view[n], dir[n]) THEN [dir EXCEPT ![n] = view[n]] ELSE dir
  /\ view' = [view EXCEPT ![n] = NoDir]
  /\ UNCHANGED <<bytes, sidecar, known, replica, manifest, task, heard, begun>>

\* One that does not answer ends the federation: no view, no planning.
FetchFails(n) ==
  /\ W(n).pc = "federate"
  /\ Spend("fail")
  /\ Goto(n, "list")
  /\ view' = [view EXCEPT ![n] = NoDir]
  /\ heard' = [heard EXCEPT ![n] = {}]
  /\ UNCHANGED <<bytes, sidecar, known, replica, manifest, dir, task, begun>>

\* RunOnce lists the QUEUED tasks once and goes through that list.
PendingMigrations(n) ==  \* mutant: the list is cut short
  {id \in {Mig} : task[n][id].status = "QUEUED"}
Pending(n) == {id \in TaskIds : task[n][id].status = "QUEUED"}

ListPending(n) ==
  /\ W(n).pc \in {"plan", "list"}
  /\ Pending(n) # {}
  /\ worker' = [worker EXCEPT ![n].pc = "pick", ![n].queue = Pending(n)]
  /\ UNCHANGED <<bytes, sidecar, known, replica, manifest, dir, task, view,
                 heard, begun, used>>

\* The error of UpdateTaskStatus is dropped: the task is executed even if it
\* stays QUEUED.
Pick(n, id) ==
  /\ W(n).pc = "pick"
  /\ id \in W(n).queue
  /\ \/ task' = [task EXCEPT ![n][id].status = "RUNNING"] /\ UNCHANGED used
     \/ UNCHANGED task /\ Spend("write")
  /\ worker' = [worker EXCEPT ![n] = [Idle EXCEPT !.pc = "open", !.id = id,
                                                  !.queue = W(n).queue \ {id}]]
  /\ begun' = [begun EXCEPT ![n] = @ \union {id}]
  /\ UNCHANGED <<bytes, sidecar, known, replica, manifest, dir, view, heard>>

\* The tick is over: nothing waits, or the list is done.
EndOfTick(n) ==
  /\ \/ W(n).pc \in {"plan", "list"} /\ Pending(n) = {}
     \/ W(n).pc = "pick" /\ W(n).queue = {}
  /\ worker' = [worker EXCEPT ![n] = Idle]
  /\ heard' = [heard EXCEPT ![n] = {}]
  /\ UNCHANGED <<bytes, sidecar, known, replica, manifest, dir, task, view,
                 begun, used>>

\* An empty list of assets needs no copy.
ReleaseFirst(n) == "judge"  \* mutant: the source is released before the copy
AfterOpen(n) == IF known[n] = {} THEN "judge" ELSE "copy"

\* runMigration up to the listing of the assets.  The source node is looked
\* up in the global view; if it is not there (the federation failed, say) a
\* remote disk is taken for a local one.  The directory row must be here or
\* at the source node; the assets are always those of the local database.
OpenMigration(n) ==
  LET src == task[n][Mig].src
      s == Host[src]
      remote == s # n /\ s \in heard[n]
  IN  /\ W(n).pc = "open"
      /\ W(n).id = Mig
      /\ \/ /\ dir[n] = NoDir
            /\ remote => dir[s] = NoDir
            /\ Goto(n, "err")
            /\ UNCHANGED used
         \/ /\ dir[n] = NoDir /\ remote  \* the call fails
            /\ Goto(n, "err")
            /\ Spend("fail")
         \/ /\ dir[n] # NoDir \/ (remote /\ dir[s] # NoDir)
            /\ worker' = [worker EXCEPT
                 ![n].pc = AfterOpen(n),
                 ![n].assets = known[n],
                 ![n].todo = known[n],
                 ![n].src = src,
                 ![n].remote = remote]
            /\ UNCHANGED used
      /\ UNCHANGED <<bytes, sidecar, known, replica, manifest, dir, task, view,
                     heard, begun>>

\* runReplica up to the choice of a source: the first HEALTHY row.
OpenReplica(n) ==
  /\ W(n).pc = "open"
  /\ W(n).id \in Assets
  /\ LET id == W(n).id
         sources == {d \in Disks : <<id, d>> \in replica[n]}
     IN  IF id \notin known[n] \/ sources = {}
         THEN Goto(n, "err")
         ELSE \E d \in sources :
                worker' = [worker EXCEPT
                  ![n].pc = "copy", ![n].assets = {id}, ![n].todo = {id},
                  ![n].src = d, ![n].remote = Host[d] # n /\ Host[d] \in heard[n]]
  /\ UNCHANGED <<bytes, sidecar, known, replica, manifest, dir, task, view,
                 heard, begun, used>>

\* copyAssets.  Same directory: nothing to do.
SameDisk(n) ==
  /\ W(n).pc = "copy"
  /\ W(n).src = Dst(n)
  /\ worker' = [worker EXCEPT ![n].pc = "register", ![n].todo = {}]
  /\ UNCHANGED <<bytes, sidecar, known, replica, manifest, dir, task, view,
                 heard, begun, used>>

\* The disk the worker reads from, as it believes the source to be mounted.
Reads(n, a) ==
  /\ <<a, W(n).src>> \in bytes
  /\ W(n).remote \/ Host[W(n).src] = n

CopyAsset(n, a) ==
  /\ W(n).pc = "copy"
  /\ W(n).src # Dst(n)
  /\ a \in W(n).todo
  /\ a \notin manifest[Dst(n)]
  /\ Reads(n, a)
  /\ bytes' = bytes \union {<<a, Dst(n)>>}
  /\ manifest' = [manifest EXCEPT ![Dst(n)] = @ \union {a}]
  /\ worker' = [worker EXCEPT ![n].todo = @ \ {a}]
  /\ UNCHANGED <<sidecar, known, replica, dir, task, view, heard, begun, used>>

\* Listed as completed by an earlier job: skipped without a look.
SkipAsset(n, a) ==
  /\ W(n).pc = "copy"
  /\ W(n).src # Dst(n)
  /\ a \in W(n).todo
  /\ a \in manifest[Dst(n)]
  /\ worker' = [worker EXCEPT ![n].todo = @ \ {a}]
  /\ UNCHANGED <<bytes, sidecar, known, replica, manifest, dir, task, view,
                 heard, begun, used>>

\* Only a VERIFIED copy is accepted: the completed list is the job exactly.
Verified(n) == manifest[Dst(n)] = W(n).assets

AfterCopyAnyway(n, ok) == Goto(n, "register")  \* mutant: the error is dropped
AfterCopy(n, ok) == Goto(n, IF ok THEN "register" ELSE "err")

CopyFails(n) ==
  /\ W(n).pc = "copy"
  /\ W(n).src # Dst(n)
  /\ \/ /\ \E a \in W(n).todo : a \notin manifest[Dst(n)] /\ ~Reads(n, a)
        /\ UNCHANGED used
     \/ Spend("fail")
  /\ AfterCopy(n, FALSE)
  /\ UNCHANGED <<bytes, sidecar, known, replica, manifest, dir, task, view,
                 heard, begun>>

CopyDone(n) ==
  /\ W(n).pc = "copy"
  /\ W(n).src # Dst(n)
  /\ W(n).todo = {}
  /\ AfterCopy(n, Verified(n))
  /\ UNCHANGED <<bytes, sidecar, known, replica, manifest, dir, task, view,
                 heard, begun, used>>

\* AddReplica for every asset of the snapshot.
Register(n) ==
  /\ W(n).pc = "register"
  /\ replica' = [replica EXCEPT ![n] = @ \union (W(n).assets \X {Dst(n)})]
  /\ Goto(n, IF W(n).id = Mig THEN "judge" ELSE "ok")
  /\ UNCHANGED <<bytes, sidecar, known, manifest, dir, task, view, heard,
                 begun, used>>

\* safeToRelease counts this node's HEALTHY rows on other disks.
Others(n, a, src) == {d \in Disks \ {src} : <<a, d>> \in replica[n]}
CountsSource(n, a, src) ==  \* mutant: the replica about to go is counted
  Cardinality(Others(n, a, src) \union {src}) >= MinReplicas
SafeToRelease(n, a, src) ==
  MinReplicas <= 1 \/ Cardinality(Others(n, a, src)) >= MinReplicas

\* releaseSource judges every asset before it releases the first.
Judge(n) ==
  /\ W(n).pc = "judge"
  /\ LET safe == {a \in W(n).assets : SafeToRelease(n, a, W(n).src)}
     IN  worker' = [worker EXCEPT ![n].pc = "release", ![n].safe = safe,
                                  ![n].todo = safe]
  /\ UNCHANGED <<bytes, sidecar, known, replica, manifest, dir, task, view,
                 heard, begun, used>>

\* A local source: row first, then the file.
ReleaseRow(n, a) ==
  /\ W(n).pc = "release"
  /\ ~W(n).remote
  /\ a \in W(n).todo
  /\ replica' = [replica EXCEPT ![n] = @ \ {<<a, W(n).src>>}]
  /\ worker' = [worker EXCEPT ![n].pc = "wipe", ![n].todo = @ \ {a},
                              ![n].cur = {a}]
  /\ UNCHANGED <<bytes, sidecar, known, manifest, dir, task, view, heard,
                 begun, used>>

\* Without a root for the source disk (it is another node's) no file is touched.
WipeFile(n) ==
  /\ W(n).pc = "wipe"
  /\ bytes' = IF Host[W(n).src] = n THEN bytes \ (W(n).cur \X {W(n).src}) ELSE bytes
  /\ worker' = [worker EXCEPT ![n].pc = "release", ![n].cur = {}]
  /\ UNCHANGED <<sidecar, known, replica, manifest, dir, task, view, heard,
                 begun, used>>

LocalReleased(n) ==
  /\ W(n).pc = "release"
  /\ ~W(n).remote
  /\ W(n).todo = {}
  /\ Goto(n, "rehost")
  /\ UNCHANGED <<bytes, sidecar, known, replica, manifest, dir, task, view,
                 heard, begun, used>>

\* handleReleaseSource at node s: an empty list stands for the whole
\* directory.  The target is never a disk s has mounted, so files go too.
Allowed(s, list) == IF list = {} THEN known[s] ELSE known[s] \intersect list

ReleasedAt(s, list, src) ==
  /\ replica' = [replica EXCEPT ![s] = @ \ (Allowed(s, list) \X {src})]
  /\ bytes' = bytes \ (Allowed(s, list) \X {src})

\* The call, its answer, or both may be lost: an error fails the task.
ReleaseRemote(n) ==
  /\ W(n).pc = "release"
  /\ W(n).remote
  /\ LET s == Host[W(n).src]
     IN  \/ ReleasedAt(s, W(n).safe, W(n).src) /\ Goto(n, "rehost") /\ UNCHANGED used
         \/ ReleasedAt(s, W(n).safe, W(n).src) /\ Goto(n, "err") /\ Spend("fail")
         \/ UNCHANGED <<replica, bytes>> /\ Goto(n, "err") /\ Spend("fail")
  /\ UNCHANGED <<sidecar, known, manifest, dir, task, view, heard, begun>>

\* rehost: the local row becomes this node's.
SaveRow(n) ==
  /\ W(n).pc = "rehost"
  /\ dir' = [dir EXCEPT ![n] = [node |-> n, disk |-> Dst(n),
                                version |-> Now]]
  /\ Goto(n, IF W(n).remote THEN "relinquish" ELSE "ok")
  /\ UNCHANGED <<bytes, sidecar, known, replica, manifest, task, view, heard,
                 begun, used>>

\* handleRehostDirectory at the source node deletes its row only if that row
\* still names it as the owner.
Relinquished(s) ==
  dir' = IF dir[s] # NoDir /\ dir[s].node = s THEN [dir EXCEPT ![s] = NoDir]
                                              ELSE dir

Relinquish(n) ==
  /\ W(n).pc = "relinquish"
  /\ LET s == Host[W(n).src]
     IN  \/ Relinquished(s) /\ Goto(n, "ok") /\ UNCHANGED used
         \/ (Relinquished(s) \/ UNCHANGED dir) /\ Goto(n, "err") /\ Spend("fail")
  /\ UNCHANGED <<bytes, sidecar, known, replica, manifest, task, view, heard,
                 begun>>

Outcome(n) == IF W(n).pc = "ok" THEN "DONE" ELSE "FAILED"

\* Here, too, the error of the update is dropped.
Settle(n) ==
  /\ W(n).pc \in {"ok", "err"}
  /\ \/ task' = [task EXCEPT ![n][W(n).id].status = Outcome(n)] /\ UNCHANGED used
     \/ UNCHANGED task /\ Spend("write")
  /\ worker' = [worker EXCEPT ![n] = [Idle EXCEPT !.pc = "pick",
                                                  !.queue = W(n).queue]]
  /\ UNCHANGED <<bytes, sidecar, known, replica, manifest, dir, view, heard,
                 begun>>

----------------------------------------------------------------------------
\* What runs beside the ticks.

\* The process dies and starts again: databases and disks stay.
Crash(n) ==
  /\ W(n).pc # "idle"
  /\ Spend("crash")
  /\ worker' = [worker EXCEPT ![n] = Idle]
  /\ view' = [view EXCEPT ![n] = NoDir]
  /\ heard' = [heard EXCEPT ![n] = {}]
  /\ UNCHANGED <<bytes, sidecar, known, replica, manifest, dir, task, begun>>

\* uploadAsset and SaveUploadedAsset: the directory row is written unless it
\* belongs to another node.
Upload(a, d) ==
  LET n == Host[d]
  IN  /\ Spend("upload")
      /\ bytes' = bytes \union {<<a, d>>}
      /\ sidecar' = [sidecar EXCEPT ![d] = @ \union {a}]
      /\ known' = [known EXCEPT ![n] = @ \union {a}]
      /\ replica' = [replica EXCEPT ![n] = @ \union {<<a, d>>}]
      /\ WriteOwn(n, d)
      /\ UNCHANGED <<manifest, task, worker, view, heard, begun>>

\* deleteAsset: all rows, and the file and the sidecar entry of one replica;
\* either of these removals may fail unnoticed.
Delete(n, a) ==
  /\ a \in known[n]
  /\ Spend("delete")
  /\ LET rows == {d \in Disks : <<a, d>> \in replica[n] /\ Host[d] = n}
     IN  \/ UNCHANGED <<bytes, sidecar>>
        \/ \E d \in rows, e \in {{}, {a}} :
             /\ bytes' \in {bytes, bytes \ {<<a, d>>}}
             /\ sidecar' = [sidecar EXCEPT ![d] = @ \ e]
  /\ known' = [known EXCEPT ![n] = @ \ {a}]
  /\ replica' = [replica EXCEPT ![n] = {p \in @ : p[1] # a}]
  /\ dir' = IF known[n] = {a} /\ dir[n] # NoDir /\ dir[n].node = n
            THEN [dir EXCEPT ![n] = NoDir] ELSE dir
  /\ UNCHANGED <<manifest, task, worker, view, heard, begun>>

----------------------------------------------------------------------------

Work(n) ==
  \/ Collect(n)
  \/ \E m \in Nodes : Fetch(n, m)
  \/ SaveView(n)
  \/ ListPending(n)
  \/ \E id \in TaskIds : Pick(n, id)
  \/ EndOfTick(n)
  \/ OpenMigration(n)
  \/ OpenReplica(n)
  \/ SameDisk(n)
  \/ \E a \in Assets : CopyAsset(n, a) \/ SkipAsset(n, a) \/ ReleaseRow(n, a)
  \/ CopyFails(n)
  \/ CopyDone(n)
  \/ Register(n)
  \/ Judge(n)
  \/ WipeFile(n)
  \/ LocalReleased(n)
  \/ ReleaseRemote(n)
  \/ SaveRow(n)
  \/ Relinquish(n)
  \/ Settle(n)

Coordinate(c) ==
  \E dst \in Disks :
    \/ EmitMigration(c, dst)
    \/ \E a \in Assets : EmitReplica(c, a, dst)

Environment ==
  \/ \E n \in Nodes : Crash(n)
  \/ \E n \in Nodes : FetchFails(n)
  \/ \E n \in Nodes, d \in Disks : Scan(n, d)
  \/ \E a \in Assets, d \in Disks : Upload(a, d)
  \/ \E n \in Nodes, a \in Assets : Delete(n, a)

Next ==
  \/ \E n \in Nodes : Work(n)
  \/ \E c \in Nodes : Coordinate(c)
  \/ Environment

Spec == Init /\ [][Next]_vars

\* Each node's scheduling loop runs.  Whether a coordinator plans, and a scan is
\* due, is left open.
FairSpec == Spec /\ \A n \in Nodes : WF_vars(Work(n))

----------------------------------------------------------------------------
\* Properties.

\* No asset that some database still lists is without a file anywhere: a
\* migration never destroys the last copy, whatever calls fail and whenever
\* the process dies.
AssetSurvives ==
  \A a \in Assets :
    (\E n \in Nodes : a \in known[n]) => \E d \in Disks : <<a, d>> \in bytes

\* A HEALTHY row means the file is there, so that a count of rows is a count
\* of replicas; between the deletion of a row and that of its file too.
HealthyRowHasFile ==
  \A n \in Nodes : replica[n] \subseteq bytes

\* Releasing the source (worker.releaseSource, handleReleaseSource) takes a
\* file away only when at least MinReplicas files of the asset stay, unless a
\* client has deleted files meanwhile.
Copies(a) == {d \in Disks : <<a, d>> \in bytes}

ReleaseKeepsEnough ==
  [][\A a \in Assets :
       /\ Copies(a) \ Copies(a)' # {}
       /\ \E n \in Nodes : a \in known[n]
       /\ used'["delete"] = 0
       => MinReplicas <= 1 \/ Cardinality(Copies(a)') >= MinReplicas]_vars

\* A task that was executed is executed again only if its status was lost on
\* both occasions, before and after the execution, or before it and the process
\* died on the way: however often the coordinators emit it.
Excused == used["write"] >= 2 \/ (used["write"] >= 1 /\ used["crash"] >= 1)
ExecutedOnce ==
  [][\A n \in Nodes :
       /\ W(n).pc = "pick" /\ W(n)'.pc = "open"
       /\ W(n)'.id \in begun[n]
       => Excused]_vars

\* The directory moves as a whole: when its row is rehosted the target disk
\* has a file for every asset the node lists.
MovesWhole ==
  [][\A n \in Nodes :
       W(n).pc = "rehost" /\ W(n)'.pc # "rehost" /\ dir'[n] # dir[n] =>
         known[n] \X {Dst(n)} \subseteq bytes]_vars

\* Every queued task is executed to an end, or the process died or a status
\* update was lost: then a task may stay RUNNING for good.  One that waits for
\* its turn is executed even so.
TaskSettles ==
  \A n \in Nodes, id \in TaskIds :
    task[n][id].status = "QUEUED" ~>
      \/ task[n][id].status \in {"DONE", "FAILED"}
      \/ task[n][id].status = "RUNNING" /\ used["crash"] + used["write"] > 0

----------------------------------------------------------------------------
\* The inductive invariants behind the theorems of TaskWorkerProofs.

Opened == {"copy", "register", "judge", "release", "wipe", "rehost", "relinquish"}
Releasing == {"judge", "release", "wipe", "rehost", "relinquish"}
Moves(n) == W(n).pc \in Opened /\ W(n).id = Mig
Resting == {"idle", "federate", "plan", "list", "pick"}
Executes(n, id) == W(n).pc \notin Resting /\ W(n).id = id

\* A task that exists names a target disk of its node; the one being executed is
\* RUNNING or, its update lost, still QUEUED, and those of the list are QUEUED.
WorkInv ==
  \A n \in Nodes :
    /\ \A id \in TaskIds : task[n][id].status # "none" =>
         /\ task[n][id].dst \in Disks /\ Host[task[n][id].dst] = n
         /\ id = Mig => task[n][id].src \in Disks \ {task[n][id].dst}
    /\ W(n).pc \notin Resting =>
         /\ task[n][W(n).id].status \in {"QUEUED", "RUNNING"}
         /\ W(n).id \notin W(n).queue
    /\ \A id \in W(n).queue : task[n][id].status = "QUEUED"
    /\ W(n).pc \in Opened => W(n).src \in Disks
    /\ W(n).pc \in Releasing => W(n).id = Mig
    /\ Moves(n) => W(n).src = task[n][Mig].src

\* A task whose execution has begun and that is QUEUED lost its status once; if
\* it is not being executed, there is the excuse for doing so again.
BegunInv ==
  \A n \in Nodes : \A id \in begun[n] :
    /\ task[n][id].status # "none"
    /\ task[n][id].status = "QUEUED" =>
         used["write"] >= 1 /\ (Executes(n, id) \/ Excused)

\* Without uploads, and with all targets at one node, the directory is moved
\* once, and from its home.
HomeInv ==
  /\ \A n \in Nodes : task[n][Mig].status # "none" =>
       task[n][Mig].src = Home /\ task[n][Mig].dst \in Targets
  /\ (\A n \in Nodes : task[n][Mig].status = "none") =>
       \A n \in Nodes : /\ dir[n] # NoDir => dir[n].disk = Home
                        /\ view[n] # NoDir => view[n].disk = Home
  /\ \A d \in Disks : sidecar[d] \X {d} \subseteq Listed

\* Nor, without deletions, does a file leave any other disk, so that what a
\* manifest lists there is there, and so is the directory once it is copied.
MoveInv ==
  /\ \A n \in Nodes : known[n] = Lists(n)
  /\ \A d \in Disks \ {Home} : manifest[d] \X {d} \subseteq bytes
  /\ \A n \in Nodes : Moves(n) =>
       /\ W(n).assets = Lists(n)
       /\ W(n).pc \in {"release", "wipe"} => W(n).todo \union W(n).safe \subseteq Lists(n)
       /\ W(n).pc = "wipe" => W(n).cur \subseteq Lists(n)
       /\ W(n).pc # "copy" => Lists(n) \X {Dst(n)} \subseteq bytes

\* With one remote target and a coordinator at the home node, that node never
\* registers anything: a replica task it gets is for an asset it has no row of,
\* and a scan finds no file without one.
RowInv ==
  /\ HealthyRowHasFile
  /\ \A n \in Nodes : \A p \in replica[n] : Host[p[2]] = n
  /\ \A p \in bytes : Host[p[2]] = Host[Home] => p \in replica[Host[Home]]
  /\ \A a \in Assets : task[Host[Home]][a].status # "none" =>
       \A d \in Disks : <<a, d>> \notin replica[Host[Home]]
  /\ W(Host[Home]).pc \notin Opened
  /\ \A n \in Nodes : W(n).id # Mig =>
       /\ W(n).pc = "copy" => Host[W(n).src] = n /\ W(n).assets \X {W(n).src} \subseteq bytes
       /\ W(n).pc = "register" => W(n).assets \X {Dst(n)} \subseteq bytes

\* On a single node files leave only the disk the one migration releases; while
\* it does, the replicas it counted are on other disks.
KeepInv ==
  \A n \in Nodes :
    LET R == task[n][Mig].src
    IN  /\ W(n).pc \in Opened => ~W(n).remote
        /\ task[n][Mig].status = "none" => R = NoDisk
        /\ used["delete"] = 0 =>
             /\ \A d \in Disks \ {R} : manifest[d] \X {d} \subseteq bytes
             /\ \A p \in replica[n] : p[2] # R => p \in bytes
             /\ W(n).pc = "copy" /\ W(n).id # Mig /\ W(n).src # R =>
                  W(n).assets \X {W(n).src} \subseteq bytes
             /\ W(n).pc = "register" /\ Dst(n) # R =>
                  W(n).assets \X {Dst(n)} \subseteq bytes
             /\ W(n).pc \in {"release", "wipe"} =>
                  /\ W(n).todo \subseteq W(n).safe
                  /\ W(n).pc = "wipe" => W(n).cur \subseteq W(n).safe
                  /\ \A a \in W(n).safe : SafeToRelease(n, a, R)
=============================================================================
