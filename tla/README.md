# immich-go-server: a verification project

immich-go-server stores the files (assets) of a photo library on several disks
of several nodes. Files are grouped into directories; a directory is the unit
of placement: it is evaluated, given a tier, and moved from disk to disk as a
whole. Every node runs the same program with a SQLite database of its own;
nodes learn of each other by signed UDP beacons and read each other's state
over a signed HTTP API. One node, the coordinator, plans migrations and
replications; the node a target disk is mounted on executes them.

This project models the parts of the program whose correctness depends on
interleaving, failure and order, checks them with TLC on small instances, and
proves every safety property it checks with TLAPS, for all values of the
constants or for those that a named hypothesis describes.

## 1. Inventory

Sources are relative to `src/`.

| Component | State it keeps | Operations | Talks to |
|---|---|---|---|
| Directory copy: `internal/migrationexec/executor.go`, `internal/migration/migration.go` | target files, `.<dirKey>.migrating.json` on the target disk, the manifest in memory | `Start`, `Run`, `CopyFile`, `Finish`, `Rollback`; `ComputeResume`, `AllCopied`, `RollbackTargets`, `CanDeleteSource` | the worker calls it; a `BlobStore` holds the files |
| Remote blob source: `internal/migrationexec/remote.go`, `clusterapi.handleBlob` | none | stat by `bytes=0-0`, open by `bytes=<offset>-`; range parsing | the source node's HTTP API |
| Task worker: `internal/worker/worker.go` | the task being executed, a snapshot of its assets | `RunOnce`, `runMigration`, `runReplica`, `copyAssets`, `releaseSource`, `safeToRelease`, `rehost` | store, executor, source node's handlers |
| Coordinator: `internal/coordinator/coordinator.go`, `internal/balancer/balancer.go`, `internal/space/space.go`, `internal/eval/eval.go` | none (reads the global view) | `RunBalancingCycle`: temperature, `TargetTier`, `PlanMigration`, `PrecheckSpace`, `SelectReplicaTarget`, submit | store, other nodes' `POST /tasks` |
| Store: `internal/store/store.go` | SQLite tables disk, directory, asset, asset_meta, asset_replica, device_asset, task, server_config | upserts with last-write-wins conditions, `INSERT OR IGNORE` of tasks, deletions | everything on the node |
| Source-side handlers: `internal/clusterapi/clusterapi.go` | none | `handleSubmitTask`, `handleReleaseSource`, `handleRehostDirectory`, `handleGetDirectory` | store, disks |
| Asset API: `internal/clusterapi/clusterapi.go`, `internal/model/blobpath.go` | none | upload, delete, list, download, device check | store, disks |
| Federation: `internal/cluster/federation.go`, `cluster.go`, `server.go` `Federate` | the registry of nodes | fetch and verify every node's state, aggregate disks and directories, save newer directory rows, elect the coordinator | other nodes' `GET /state` |
| Scanner: `internal/scanner/scanner.go`, `internal/eval/eval.go` | none | walk a disk, record directories, disk space, asset and replica rows | store, sidecar files |
| Disk identity and claim: `internal/diskid`, `internal/claim`, `cmd/server/main.go` | `.immich/disk_id`, disk rows | claim or touch a disk, accrue online time, eligibility | store |
| Write placement: `internal/space/space.go`, `balancer.go` | none | `SelectWriteDisk`, `MeetsHardFloor`, `BelowSoftTarget`, `AssignTiers` | called by tests only: an upload takes the disk of `ListMountedDisks` with most free bytes |
| Ingest: `internal/ingest`, `cmd/ingest` | the sidecar file of each directory | import files, flush the sidecar, remove an entry | disks |
| Discovery: `internal/discovery/discovery.go` | registry of nodes, nonces seen | broadcast, receive one packet, verify, upsert | UDP |
| Client responder and identity: `internal/discovery/client_responder.go` | `server_config` rows, the identity in memory | make up or read the identity, answer clients | store, UDP |
| Request signing: `internal/crypto/hmac.go`, `clusterapi` auth | nonces seen | sign, verify with a time window | every handler |
| Server: `internal/server/server.go`, `cmd/server/main.go` | wiring, tickers | scheduling loop: claim, scan, federate, coordinate, work | all |

### How they interact

One goroutine per node (`server.Run`, `makeTick`) claims and scans its disks,
federates, and then, in the same turn, coordinates if the node is the
coordinator and runs the worker. HTTP handlers (uploads, deletions, the calls
of another node's worker) run beside it at any moment; the database serialises
single statements, nothing serialises a sequence of them. A migration is
therefore one sequential program per node interleaved with handlers, with the
other nodes' sequential programs, and with crashes. Asset rows, replica rows
and tasks never leave their node; only directory and disk rows travel, by
being fetched.

### What is hard, and what correctness means

* Directory copy: a crash between the data, the progress and the completed
  list; a manifest left by a job over other assets. Correct: a target file is
  always a prefix of its source, VERIFIED means complete, recorded progress is
  never ahead of the data, a job fails only for a cause, and the executor does
  no more than an abstract copy may (`DirCopy`).
* Worker and handlers: calls that are executed though their answer is lost,
  status updates whose errors are dropped, snapshots that go stale, a release
  that trusts rows instead of files. Correct: no asset loses its last file, rows
  stand for files, a release keeps enough replicas, a directory moves whole,
  tasks are executed at least once while the process lives, and again only if
  their status was lost.
* Placement of directory rows: clocks, equal time stamps, stale copies at
  third nodes. Correct: a copy is never newer than its owner's clock, a handover
  leaves a row, rows converge.
* The files of a directory: two processes and many handlers write the sidecar
  without a lock, files and sidecar are emptied before they are written, an
  import may end anywhere. Correct: no file of the inbox is lost, what is listed
  exists, an accepted upload stays listed.
* Disks: pulled and plugged in elsewhere, named by a file that may be cut off,
  claimed anew at every tick while others read the row. Correct: a disk keeps
  its name and is claimed again and again, nodes elect one coordinator, tasks
  reach the disk's node.
* An asset and its clients: uploaded from several devices under different dates
  and names, on the disk that is emptiest at the moment; deleted statement by
  statement. Correct: an upload that was answered keeps its file, a client is
  told the truth about what is there, what is listed can be downloaded, what is
  deleted stays deleted.
* Space and tiers: plans made on a report that uploads and other plans overtake,
  a tier no disk has. Correct: a planned migration leaves its target the
  reserve, and directories do not wander from disk to disk.
* Discovery and identity: lost, late and repeated beacons, nodes that come back
  elsewhere, a first start that is cut off. Correct: no outdated address comes
  back, clients always see one identity.

`PROJECT.json` lists the hazards line by line with the properties for them.

## 2. Plan

1. `DirCopy`, `MigrationExec` (done): the copy, its abstract specification,
   the refinement, and `MigrationExecProofs`, which proves its safety and the
   refinement.
2. `TaskWorker` (done): tasks, worker, coordinator and handlers; composes the
   copy as a single step per file, keeping the manifest's completed list;
   `TaskWorkerProofs` proves its safety.
3. `Placement` (done): the rows of one directory on every node under scanning,
   federation, rehosting and clocks; `PlacementProofs` proves its safety.
4. `Library` (done): the files and the sidecar of a directory under the
   importer, uploads, deletions and scans; `LibraryProofs` proves its safety.
5. `DiskClaim` (done): names, statistics and rows of disks, the merge of disk
   rows, the election, and where tasks are sent; `DiskClaimProofs` proves its
   safety.
6. `Discovery`, `Startup` (done): beacons, registry and nonces; the identity
   and the start of a node around them; `StartupProofs` proves their safety.
7. `AssetApi` (done): one asset over disks, months and names, under uploads,
   deletions, scans and lookups, statement by statement; `AssetApiProofs`
   proves its safety.
8. `Balance` (done): space, tiers, the plans of a cycle with the choice of the
   disk, and what carrying them out does to the disks; `BalanceProofs` proves
   its safety.
9. Left: `RowsHaveFiles` for targets at the directory's own node (section 5
   says why its argument needs `RemoteTarget`), and the hazards without a
   property.

A model of the time window of signed calls was planned and is given up: see
section 13.

## 3. MigrationExec: the copy of a directory

`target` and `disk` are the files and the manifest on the target disk and
survive a crash; `mem`, `pc`, `todo`, `cur`, `written` are the process. A file
is the sequence of source units it consists of, so that a gap, a repetition or
a surplus after a resumption is visible. `Begin` is `Start` up to its write,
`WriteManifest` each of the program's manifest writes (before the copy, after
each chunk, after each file, at the end), and `Skip`, `SourceMissing`,
`OpenAppend`, `CreateTarget`, `OpenSource`, `CopyChunk`, `EndOfFile`,
`Conclude` follow `CopyFile` and `Run`. `Finish`, `FinishRefused`, `Rollback`,
`RemoveManifest` exist when `Cleanup` holds: only the tests' callers use them,
the worker calls none. With `Remote` the source grants ranges as
`parseByteRange` does. The environment spends a budget of crashes, I/O errors,
torn manifest writes (`os.WriteFile` truncates first), deletions at the source
and removals of replicas.

`DirCopy` is what such a copy promises. The refinement maps the files of full
length to `copied` and the position in the job to `verdict`.

| Run | Instance | Shows |
|---|---|---|
| `MCExecLocal` | 2 assets of 3 and 1 units, chunks of 2, 3 jobs, 2 crashes, 1 I/O error, 1 torn write, 1 deletion | prefixes, VERIFIED is complete, manifest not ahead, completed files untouched, registered replicas stay complete, jobs end, refinement of `DirCopy` |
| `MCExecRemote` | remote source, 3 assets of which one is empty, 4 jobs, 1 crash, 2 I/O errors, 1 deletion, 1 removal, 1 refused Finish, a caller that cleans up | a job fails only for a cause, of which a remote source has one more; every Run without an error is VERIFIED, unless a refused Finish kept a manifest |

Two assets and three jobs are enough for a manifest of one job to meet a job
over other assets and for the third job to meet what the second made of it; a
file of two chunks is enough to be cut off before, between and after them.

Two properties name an exception that the code makes. A file that is whole at
the target but not yet listed as completed, as after a crash between its last
chunk and the manifest write, is asked for with an empty range, which
`parseByteRange` refuses: every later attempt from a remote source fails
(`RemoteFailureHasCause`).
And with a manifest of an earlier job over other assets, `AllCopied` is false,
so that `Run` returns without an error and without VERIFIED: `CleanRunVerifies`
therefore holds of a caller that calls `Finish` or `Rollback` after every job,
and the worker calls neither.

Fairness: `WF_vars(Step)`, the process goes on while nothing fails.

## 4. MigrationExecProofs

| Theorem | Assumes beyond the named assumptions | Argument |
|---|---|---|
| `TypeCorrect` | nothing | `TypeOK` is inductive |
| `ResumedCopyIsPrefix` | nothing | `PrefixInv`: while a file is copied, `written` is the length it has; hence every appended unit is the next one |
| `RegisteredStaysComplete` | no `Cleanup`, no removals of replicas (`Max["removal"] = 0`) | `RegisteredInv`: until a manifest write is torn, the saved list names every registered replica, since `Run` has saved the list before its caller registers from it, and later jobs only add to it |
| `ImplementsDirCopy` | no `Cleanup`, no removals of replicas | every step changes `copied` and `verdict` as a step of `DirCopy` or not at all; `OwnFile`: the file being copied is one of the job |
| `FailureHasCause` | nothing | `CauseInv`: the cause is there from the moment a job gives up; a remote source refuses a range only if the file is whole and memory does not list it |
| `CleanCallerVerifies` | `Cleanup` | `CleanInv`: no manifest outlives its job, so that the completed list holds files of this job only, and those whose turn has come |
| `VerifiedIsComplete`, `ManifestTellsTheTruth`, `CompletedStaysUntouched` | no `Cleanup`, no removals of replicas (`Max["removal"] = 0`) | `ManifestInv`: what disk or memory lists as completed is complete and not being written; the disk's progress lags behind the memory's; VERIFIED is set only over a list that covers the job |

`TargetIsPrefix` alone is not inductive: an append is right only if the count
in memory is the file's length, which is the second part of `PrefixInv`.
`VerifiedComplete` needs to know of every file in the completed list, which a
job may have found in the manifest, hence the statements about `disk` and that
the running job's memory covers the disk. The extra assumptions are needed:
with `Cleanup` a crash between Rollback's removal of the files and that of the
manifest leaves a completed list over files that are gone, and a replica
removed behind the manifest's back does the same; both are hazards listed in
`PROJECT.json`. The proofs hold for any set of assets and sizes, any jobs,
chunk size, remote or local, and any number of crashes, faults and torn writes.

The refinement is proved for the initial states, for each action, and for the
whole specification. `RegisteredStaysComplete` is what `TaskWorker` relies on
when it takes the copy of a file as one step.

Left to TLC: liveness (`JobEnds`), which is out of the prover's reach.

## 5. TaskWorker: tasks, worker and handlers

One directory, its assets, and nodes with a database each. `known`, `replica`,
`dir` and `task` are the asset, replica, directory and task rows of each node,
`bytes` the files on all disks, `manifest` the completed list on each disk,
`worker[n]` the locals of the goroutine. A migration goes through
`OpenMigration` (look up the source node and the directory row, list the
assets), `CopyAsset`/`SkipAsset`/`CopyFails`/`CopyDone`, `Register`, `Judge`
(`safeToRelease` for all assets before the first release), then either
`ReleaseRow` and `WipeFile` per asset or `ReleaseRemote`, `SaveRow`,
`Relinquish`, `Settle`. A replication ends after `Register`. `EmitMigration`
and `EmitReplica` are the coordinator, which plans in the same turn; `Upload` and
`Delete` run beside it. A remote call may fail before or after it is executed.

The turn begins with what fills the tables: `Scan` enters what a disk's sidecar
lists (`sidecar`, which a migration leaves on its source) and writes the
directory's row unless another node owns it, and a federation is `Collect` (the
node's own row), one `Fetch` per peer and `SaveView`, which writes what was
fetched some steps ago, stale or relinquished meanwhile as it may be. `view` is
what it carries, `heard` the nodes whose disks the global view of this turn has:
without a federation (`FetchFails`) the worker takes remote disks for its own.
`Pick` and `Settle` may lose the status update, since `RunOnce` drops its error:
the task is executed while it is QUEUED, or stays RUNNING. `begun` is a history:
the tasks whose execution has begun.

Abstractions: a file's copy is one step; a row's version stands for its time
stamp, every write being newer than those before it (equal and lagging stamps
are `Placement`'s subject); each handler and a scan are one step; errors of
`os.Remove` are dropped, as in the code; the choice among target disks is free.

| Run | Instance | Shows |
|---|---|---|
| `MCWorkLocal` | 1 node, 3 disks, 2 assets, 1 upload, 1 deletion, 1 scan, and 2 of 1 crash, 1 failing copy or federation, 1 lost status update | a release leaves `MinReplicas` files, unless a client has deleted files meanwhile; every queued task ends, but one that was cut off or whose status was lost |
| `MCWorkRemote` | 2 nodes, 3 disks, 2 assets, 1 scan, and 2 of 1 crash, 1 failing call, copy or federation, 2 lost status updates; the target node knows the assets | no asset is lost, rows stand for files, the directory arrives whole; a task is executed again only after two lost updates, or one and a crash |
| `MCWorkUnknown` | the target node has no asset rows | violation: nothing is copied and the source releases everything |

A task that is RUNNING when the process dies is never executed again:
`RunOnce` lists QUEUED tasks only (worker.go:65), nothing turns the status
back, and the id, which is that of the directory, keeps a new task from being
queued. `docs/` speaks of resuming a migration (line 1117 of the design
document), which the manifest would allow and the task does not. The same
happens without a crash if the update to DONE or FAILED is lost. `TaskSettles`
therefore excepts a task that is RUNNING after a crash or a lost update; a task
that waits for its turn is executed even then. `ExecutedOnce` says what it takes
to execute a task twice: while it is QUEUED although it is executed, its first
update was lost, and it stays QUEUED only if the second is lost as well or never
comes.

That one node owns the directory is not claimed: the row a migration has made
the source give up comes back without any failure, from a federation that read
it before or from a scan of the source's sidecar. `Placement` shows that the rows
agree again (`Converges`).

Bounds: a migration and a replication of each asset are the only task ids of a
directory, so the instances hold every task there can be; two nodes are the
source and the target, a third would take no part in the calls. In
`MCWorkRemote` the target is a disk that does not yet hold an asset: when it
does, the copy there is counted once, no asset is safe, and the empty list of
`MCWorkUnknown` is sent. `AssetSurvives` is not claimed when uploads and
deletions of the same asset interleave with a release: a row deleted, deleted
again with its asset and uploaded anew loses the new file to the pending
`os.Remove`. For the same reason `ReleaseKeepsEnough` speaks of behaviours
until the first deletion by a client.

At most two faults fall in one behaviour (`MaxFaults`), besides uploads,
deletions and scans: two are what a second execution takes. The coordinators are
told of disks with room (`Roomy`), which keeps the replications to one disk.

Fairness: weak fairness of each node's turn (`Work`), which the scheduling loop
runs. Whether a scan is due and what a coordinator plans is left open.

`TaskWorkerProofs` proves, for any nodes, disks, assets, placements and tasks, and
any number of crashes, lost calls, lost updates, scans and federations:

| Theorem | Assumes beyond the named assumptions | Argument |
|---|---|---|
| `TypeCorrect` | nothing | `TypeOK` with `WorkInv`: the task in hand is RUNNING or still QUEUED, those listed are QUEUED, a task is for a disk of its node, and a migration's source is another disk; that the time of a write is a number takes the greatest of finitely many (`FiniteHasMax`) |
| `TaskRunsOnce` (`ExecutedOnce`) | nothing | `BegunInv`: a task that was begun exists, and is QUEUED only after a lost update and while it is executed, or after a second loss or a crash; no submission replaces a task |
| `MovesAllFiles` (`MovesWhole`) | `SingleTarget`: the targets are at one node; `SidecarAtHome`: the sidecars of the beginning are at the directory's home; no uploads, no deletions | `HomeInv`: the directory is moved from its home only, since rows, views and sidecars name no other disk before; `MoveInv`: a file leaves no other disk, so that what a manifest lists is there, and past the copy all that is listed is at the target |
| `NoAssetLost` (`AssetSurvives`) | the same, and `AllPlaced`, `TargetListsAll`: what is listed has a file in the beginning, and the target's node lists all its home lists | what a release removes at home is at the target by `MoveInv` |
| `RowsHaveFiles` (`HealthyRowHasFile`) | `SingleTarget`, `SidecarAtHome`, `RemoteTarget`, `HomeCoordinates`: the targets are at another node, and the home node alone emits tasks; no uploads, no deletions | `RowInv`: the home node never registers anything but what a scan finds, so that only what it releases can lose its rows |
| `EnoughRemain` (`ReleaseKeepsEnough`) | `OneNode` | `KeepInv`: files leave only the disk that the one migration releases, and the replicas it has counted are on others |

The hypotheses are not for the proofs' sake, except `RemoteTarget` and
`SidecarAtHome`. TLC violates `AssetSurvives` and `HealthyRowHasFile` with a
single deletion by a client, and `AssetSurvives` without `TargetListsAll`
(`MCWorkUnknown`). It violates `HealthyRowHasFile` in 22 steps without
`HomeCoordinates`, if the source disk too has room for a replica: with a
coordinator at the target's node, a replica task registers its file only after
the migration has released that file. With the targets at the directory's own
node, so without `RemoteTarget`, TLC finds `HealthyRowHasFile` to hold as long as
nobody uploads (an upload between `ReleaseRow` and `WipeFile` is lost), but
`RowInv` does not show it: there the rows of one node are both registered and
released. With a sidecar on the target's node from the beginning TLC finds the
properties of `MCWorkRemote` to hold as well, but `HomeInv` does not: a scan
there may name that disk. `EnoughRemain` needs no bound on uploads; it excepts
deletions as the property does. `TaskSettles` is liveness and stays with TLC.

## 6. Placement: the row of a directory on every node

`TaskWorker` takes a row's version as given; `Placement` looks at the stamps.
`row[n]` is the row of the one directory in the table of node `n`: the owner,
the disk and the second of `last_eval_at`. `clock[n]` is the second node `n`
believes it is (`Start`, then the members of `Times`); clocks may be apart, lag
behind and coincide. `listed` is the set of disks whose sidecar lists an asset
of the directory: a scan of such a disk writes the row.

`Scan`, `UploadReads`/`UploadSaves` (the handler reads who owns the directory
and writes later), `Adopt` (`worker.rehost`) and `SaveView` (`Federate`) write
through `SaveDirectory`, which ignores what is not newer; `Discard` and
`Notify` (`handleRehostDirectory` at the source) delete a row that names the
node itself. `Federate`, one `FetchState` per peer, and `SaveView` are the
steps of a federation, which `FetchFails` ends early. `StartMigration` up to
`Notify` are a migration's effect on the rows; what lies between, copy and
release, is `TaskWorker`'s and may fail (`MigrationFails`). The scheduling
goroutine of a node is in one place (`at`), so a scan, a federation and a
migration of one node do not overlap, while uploads, deletions and the calls of
other nodes come at any moment. `Crash` loses a federation, an upload and the
migration under way, whose task stays RUNNING.

Abstractions: temperature, tier and sizes of a row are left out; a task is
queued at the node its target disk is on; every node knows every other; a node
that writes its row twice in a second writes the later one in vain, as in the
code.

| Run | Instance | Shows |
|---|---|---|
| `MCPlace` | n1 with d1 and n2 with d2, one more second for n1 and two for n2, migrations from n1 to d2, 1 lost call, 1 crash, 1 upload, 1 deletion | no copy is newer than its owner's clock, a handover leaves a row, rows converge |
| `MCPlaceRescan` | one node, d1 and d2, nothing fails | violation: the scan after a migration turns the row back, for the sidecar stays on the source disk |

Bounds: one upload, one deletion, one lost call and one crash can each fall
between any two steps of a migration and two federations; two nodes are the
source and the target of a handover. The seconds of n1 (2, 4) and n2 (1, 3, 5)
let n2 write both with an older and with a newer stamp than the row it has
learned, and are never the same: with equal stamps `Converges` fails, because
the merge of equally new rows goes by node id while `SaveDirectory` keeps what
is there. `MCPlaceRescan` has equal seconds. `NeverForgotten` and its theorem
suppose that migrations go to disks of one node: when two nodes migrate the
directory to each other at once, each may make the other give up its new row,
which the model reaches in 14 steps with both disks as targets.

Fairness: weak fairness of each node's federation and of `Adopt` and `Notify`,
which the loop of `makeTick` runs in every turn; nothing is assumed of scans,
uploads, the coordinator or the clock. Failures are bounded, so that a
federation succeeds in the end; with a peer that is down for good none ever
would, since `Federation.Run` gives up at the first one.

## 7. PlacementProofs

| Theorem | Assumes beyond the named assumptions | Argument |
|---|---|---|
| `TypeCorrect` | nothing | `TypeOK` is inductive; it includes that a worker past its start has a task with disks |
| `CopiesAreOld` | nothing | what is written new carries the clock of the node it names, what is copied was old where it came from, and no clock goes back |
| `HandingOverKeepsARow` | all disks in `Targets` are at one node | `TasksOf` (tasks are there, and remote only if the source is elsewhere) and `Held` (a node about to notify the source has a row itself) are inductive |

`NeverForgotten` alone is not inductive: that `Notify` deletes a row leaves
another only because the target wrote its own before, which nothing but a
`Notify` sent by another migrating node could have deleted since. The theorems
hold for any number of nodes and disks, any clocks, equal seconds included, and
any number of crashes, lost calls and uploads.

`Converges` is liveness and stays with TLC.

## 8. Library: the files of a directory and their sidecar

One directory of one disk. `inbox` are the files to import, `file[a]` is the
asset's file in the repository: absent, cut off ("part") or whole; `writer[a]`
is who emptied it last. `sidecar` is the set of assets `.meta.json` lists, or
`Torn` while it is empty or cut off; `rows` the assets the database knows on the
disk. `job[x]` is what each actor is doing: a handler (`Upload`, `UploadWrites`,
`UploadFails`, `Record`, `RecordFails` are `uploadAsset`; `Delete`, `Unlink`,
`Unlist`, `Drop` are `deleteAsset`), the importer (`StartImport`, `Examine`,
then `Rename` or `StartCopy`, `EndCopy`, `RemoveSource`, and `EndWalk`), or the
scanner (`Scan`, `ScanEntry`). `FlushMeta` is `ReadSidecar`, `Truncate`, `Put`,
which anybody's may interleave; `RemoveAssetFromMeta` shares the last two.
`Crash` ends the server with its handlers and scanner, `Kill` the importer,
which is also what a cancelled context does between two files.

Abstractions: an asset is its content and has one path, so that uploading it
again writes the same file; one disk and one directory; `MigratePhysName` at the
start and the deduplication by device id are left out; the rows of an asset, its
replica and its metadata are one.

| Run | Instance | Shows |
|---|---|---|
| `MCLibrary` | 2 handlers, 1 file in the inbox, 2 other assets to upload; 1 import in any way (copy, rename, move across devices), 2 uploads, 1 deletion, and one of a crash, a kill, an I/O or database error | no file of the inbox is lost, what is listed or known has a file, an accepted upload stays listed unless flushes overlap or one could not read the sidecar |

Bounds: two uploads and an import are three writers of the sidecar, of which two
can overlap while the third reads; the deletion can be of what an upload or the
import brought. The handlers and the two assets to upload are alike, hence the
symmetry. There is one import in `MCLibrary`, since a second one after an
interrupted one loses files: killed while it copies across devices, it leaves a
cut off file under the final name, and the next run takes what exists for
imported, skips the copy and removes the source (ingest.go:140). Uploads and inbox
hold different assets: an upload of an asset that is there already empties its
file first, and loses it for good if it is interrupted. One failure falls in a
behaviour (`OneFailure`), at any point of any operation. `AcceptedListed` has two
exceptions. `clash`: two flushes that overlap, or one that reads what another has
emptied, lose entries, for nothing locks the sidecar. `lost`: a flush that cannot
read the sidecar takes it for empty and overwrites it with its batch
(ingest.go:193), so that one I/O error unlists what was answered; `lost` are the
entries it had at that moment, and nothing else may go. That every file is listed
in the end is not claimed: a kill before the flush leaves files that no scan
lists and every later import skips. The removals of a deletion may fail
unnoticed: the file or the entry stays, and a scan brings the asset back.

No fairness is assumed; the properties are safety properties.

`LibraryProofs` proves them for any assets and handlers, all ways of taking
files, and any number of failures:

| Theorem | Assumes beyond the named assumptions | Argument |
|---|---|---|
| `TypeCorrect` | nothing | `Typed`: besides the types, which steps are a handler's, the importer's and the scanner's, and that a handler's flush adds its asset or nothing (`Shape`) |
| `ListedHaveFiles` | nothing | `Backed`: what the sidecar lists, a flush is about to write, or an actor is about to list or record has a file or is being deleted |
| `ImportsKeepFiles` | one import, and nobody uploads a file of the inbox | `Imports`: what the walk has still to look at is not in the repository, the file in hand is written by the importer or deleted, and a source is only removed when its copy is whole |
| `AnsweredStayListed` | nothing (`clash` and `lost` are part of the property) | `Listing`: until a clash at most one actor is between reading and writing the sidecar, and what it holds includes all that was answered or is about to be, but for what it could not read |

`ListedExists` is not inductive: a flush writes what it has read some steps
ago, so the argument must hold of what every actor carries with it.
`AcceptedListed` needs to know that nobody else has read the sidecar meanwhile,
which is what the absence of a clash amounts to. The two assumptions of
`ImportsKeepFiles` are those of the instance and needed, as said above.

## 9. DiskClaim: disks that move

`plugged[d]` is the node a disk is in, `idFile` and `stats` are the files on it,
`row[n]` is the disk table of a node by disk name, `tick[n]` the scheduling
goroutine: it claims one disk after another (`Identify`, or `Create` and
`NameDisk`; `SaveDisk`; `Touch`; `TruncateStats`, `WriteStats`), reads its own
state and that of each peer (`Federate`, `FetchState`), elects a coordinator and
may send a task (`Submit`, `SubmitNone`). `Plug` moves a disk at any moment,
`Crash` ends the process. The state of a peer is read between any two steps of
its claim. A file that is open when its disk is pulled out is lost to its node,
even if the disk comes back (`HasOpen`): what is written through it goes nowhere.

Abstractions: the directory of a disk that is elsewhere is not there (an empty
mount point, on which the code would create a new id, is not modelled); nodes
know each other; which disk `PlanMigration` takes is free; free space and labels
are left out; the disks of a node are claimed in any order.

| Run | Instance | Shows |
|---|---|---|
| `MCClaim` | 2 nodes, 1 disk that begins at the second node, 2 names, 2 seconds; it moves once, 1 crash, 1 failed read of the id file | the disk keeps its name unless its id file could not be read; one coordinator; a task is queued where the disk has been, unless the view was made in the middle of a claim; a disk that stays is claimed again and again unless its statistics file was cut off |

Bounds: a disk that moves once has an old and a new node, which are all the
nodes that can have a row of it; the second name is for the failed read; writes
of the files fail when the disk is pulled or the process dies in the middle, so
that no separate I/O error is needed. The disk begins at the node that is not
elected, so that its tasks are sent.

Fairness: weak fairness of each node's goroutine, which a ticker drives. A peer
that does not answer ends a federation but not the claims.

What the model also says of the code, and the properties leave open: `SaveDisk`
stores zero seconds and the time of the same tick before `ClaimOrTouchDisk`
accrues, so that online seconds stay zero, all nodes score alike, and
`OneCoordinator` holds by the order of ids: the node with the smallest id always
coordinates, wherever the disks are and however long they have been there. Were
seconds to accrue, states read at different moments could elect two. Tables are per node, so that the grace
period never decides a claim, and after a move both nodes hold the disk for
their own. A cut off statistics file is never repaired: `ReadDiskStats` returns
an error before the claim, at every node and every tick.

`DiskClaimProofs` proves, for any nodes, disks, names, times and number of moves,
crashes and faults:

| Theorem | Argument |
|---|---|
| `TypeCorrect` | `TypeOK` with `RowInv`: a node has the disks of its table for its own or for nobody's, with no seconds, since `SaveDisk` begins each tick at zero and at the time `Touch` then compares with |
| `SmallestCoordinates` (`OneCoordinator`) | `ElectInv`: all scores are zero, so that of the nodes heard so far the smallest is ahead, and a node elects only when it has heard all |
| `TasksReachDisks` (`TaskReachesDisk`) | `ViewInv`: a view has a disk only at a node that has a row of it, and no row is ever removed |
| `NamesStick` (`NameSticks`) | `NameInv`: a disk that is being named has no name yet, and a name in hand is on a disk |

No hypothesis is added to the named assumptions. That a score is a sum over all
disks of a state is where `SmallestCoordinates` needs an induction over a finite
set (section 13). `StaysClaimed` is liveness and stays with TLC.

## 10. Discovery and Startup: addresses and identity

`addr[n]` is where node `n` listens, `queue[n]` its socket buffer, `held` the
copies the network holds back, `seen[n]` and `seenLen[n]` the nonces, `reg[n]`
the registry from which every call to a peer takes the address. `Tick` is an
interval; in it a node may `Send` one beacon and `Read` one packet (`RecvOnce`,
`HandlePacket`, `Upsert`), as its two tickers ask for (`due`). A beacon is
identified by its sender and its age in intervals, which stands for the time
stamp and the nonce. `Crash` forgets everything but what the network holds;
`Start` may be at another address. `ago` is a history: how long ago a node was
last at an address.

`Startup` adds what happens before `Run` binds an address: `Identify` reads or
makes up one key of the identity (`GenerateServerIdentity`), `StartFails` ends
the process in between, `Answer` is the client responder. `conf` is the table
`server_config`, `ident` the identity in memory, `told` what clients were
answered.

| Run | Instance | Shows |
|---|---|---|
| `MCDiscover` | two nodes that hear themselves; n2 hears n1 too, which has clients; n2's clock is one interval ahead; 2 addresses, 1 fault of the network, 1 crash or failed start; window of 1 interval, buffer of 2 packets, nonces emptied at 2 | no address that is older than the window comes back; clients are told one identity |

Bounds: two addresses and a crash let a node go elsewhere while its old beacons
wait or are held back; ages are counted to 3, which is outside the window of 1
for every clock (`OldAssumption`). The window, the buffer and the cap of the
nonces are as small as they can be with all three reached: n2 hears two beacons
per interval, so that its buffer fills and drops packets, and what it reads is
as old as the window allows and older.

Beacons go to the address of the node's own socket (server.go:121), so that a
node that hears another one hears itself as well, and `RecvOnce` takes one packet
per tick: such a node falls behind by a packet in every interval, until what it
reads is older than the window and refused (server.go:166; with the default
interval of 5 s and window of 300 s, once some 60 packets wait). That a node that
stays gets known, and remains so, is therefore not claimed. The map of nonces is
emptied when it is full, so that a beacon of the window that is repeated is
accepted again (discovery.go:191); for `AddressWasHeld` that is no matter, since
the window alone decides.

No fairness is assumed; the properties are safety properties.

`StartupProofs` proves, for any nodes, addresses, clocks, windows and bounds:

| Theorem | Argument |
|---|---|
| `TypeCorrect` | `StartupTypeOK` is inductive |
| `NoOutdatedAddress` | `Truthful`: a beacon in a buffer or in the network is of an address its sender was at no longer ago than the beacon is old, and a running node is where it was zero intervals ago; the window then bounds what is accepted |
| `OneIdentity` | `Kept`: what is in memory is a prefix of what is stored, and what clients were told is what is stored, which is complete then |

## 11. AssetApi: an asset and its clients

One asset. `file` and `writer` are its files by root, month and name, `entry`
the name each sidecar lists it under, `row`, `reps` and `dev` its row, replicas
and device keys. A root is a disk or `Root`, which is BLOB_ROOT: the server
defaults it, so that an upload that finds no mounted disk goes there.
`uploadAsset` is `Upload` (deduplication by device key, choice of the root),
`Open`, `Fill`, `List`, `RecordAsset`, `RecordReplica`, `RecordKey`;
`deleteAsset` is `Delete`, `Find`, the four statements of `DeleteAsset`
(`DropAsset` ... `DropMeta`), `Unlink`, `Unlist`; `Scan`, `ScanLooks`,
`ScanAsset`, `ScanReplica` are an entry of `syncDir`. `UploadFails`,
`DeleteFails` and `Crash` end them anywhere; `Unlink` and `Unlist` may fail
unnoticed, since the errors of both removals are dropped (clusterapi.go:1076-1077)
and the client is answered 204. `Listed`, `LookupDeviceAssets`,
`LooksIn` and `Serves` are what clients are answered.

| Run | Instance | Shows |
|---|---|---|
| `MCAsset` | 2 disks and BLOB_ROOT, 2 months, 2 names, 3 devices of which one has another name and one another date; 2 handlers, 2 uploads, 2 deletions, 1 scan, and a crash or a failing statement, write or removal | an accepted upload keeps its file, devices are told the truth, what is listed can be downloaded, deleted stays deleted, each with the exceptions below |

Bounds: two uploads can be of one place or differ in each of disk, month and
name; the deletions, the scan and the one failure (`OneFailure`) can each fall
between any two steps of them. Handlers and disks are alike, hence the symmetry.

The exceptions are what the code does:

* An upload of an asset that is there already empties its file first
  (clusterapi.go:948): cut off, it has destroyed the only copy (`cut`).
* A deletion cut off between its statements (store.go:753) leaves device keys,
  and every later upload with such a key is answered as a duplicate although
  nothing is stored (`halted`). It is no exception of the other properties.
* A deletion that overlaps an upload, a scan or another deletion may do so too,
  remove the file just written or leave an entry (`raced`).
* The row has one month for all replicas: after uploads under two dates a
  download looks in the wrong month on some of the disks.
* A deletion removes one file and one entry, where the first replica and the
  row say; files elsewhere are found again by the next scan. If the replica
  cannot be read, it looks in BLOB_ROOT and removes nothing on the disks.
* A deletion that cannot remove the sidecar entry is answered all the same, and
  the entry stays: if the file could not be removed either, or is there again,
  the next scan registers the asset (`gone` is not set). A file that stays
  without an entry does no harm.
* A file in BLOB_ROOT is on no disk, so that no scan sees it, although a
  comment in `SaveUploadedAsset` leaves its directory row to the scanner; when
  a disk gets a replica later, the file is no longer looked for.

No fairness is assumed.

`AssetApiProofs` proves the four properties and the types for any disks, months,
names, keys and handlers, and any number of operations and failures. The
inductive invariant is

    IInv == TypeOK /\ InPlace /\ (~raced => Safe)
    Safe == Alone /\ Dropped /\ Written /\ Known /\ Kept /\ GoneIsGone

| Theorem | Argument |
|---|---|
| `TypeCorrect` | `TypeOK` is inductive |
| `AnsweredUploadsKept` | `Written`: from its `Fill` on, what an upload has written is whole, being rewritten, or lost to a later upload that was cut off |
| `AnswersTrue` | `Known`: an upload that records a replica or a key has seen the row saved; keys outlive the row only inside a deletion, or after one that was cut off |
| `ListedServed` | `Kept`: every replica has a file in a month of an upload, and the row's month has one somewhere; with one month these are the same |
| `DeletedForGood` | `GoneIsGone` with `InPlace`: entries are only where uploads were, so that the one place a deletion clears is all there is |

None of the four is inductive, since each step of a deletion destroys what
another operation may just have read. `Alone` (while nothing has raced, a
deletion is the only operation under way) and `Dropped` (what it has removed so
far) reduce that to the steps of one deletion.

## 12. Balance: space, tiers and plans

A node that coordinates itself: `at` are the assets on each disk, `waste` what
failed copies left, `listed` the sidecars, `rep`, `row`, `mounted`, `free`,
`task` the tables, `known` the asset rows. `tick` is the scheduling
goroutine: `Claim` and `Touch` per disk, now and then `Scan` per disk, `Plan`
(`RunBalancingCycle` on the free space reported), then for each queued task
`StartTask` (or `RowIsGone`), `Copy`/`CopyFails`, `Register`, `Release`, `Rehost`.
`Upload`, `UploadLoose` (to BLOB_ROOT) and `Delete` come at any moment. An upload
is told apart by its device key only, so that one asset may come to several
disks; a deletion removes the rows, and the file and the entry of one replica,
either of which may stay. `copied` is a history: the disks the files of a
directory have been copied to. The temperature, the tier it asks for, the adjacent tiers, the
reserve, the margin and the choice of the target are those of the code.

| Run | Instance | Shows |
|---|---|---|
| `MCBalance` | disks of 4, 6 and 5 units, 2 directories that should be warm, 3 assets of 2, 1 and 2 units, reserve of 1, margin of 10%; 3 uploads, or 2 and a deletion or a crash | a planned migration leaves its target the reserve unless another plan or an upload takes the room; a directory is copied to one disk and no further |

Bounds: the sizes are such that each disk is too small for some combination, so
that the space check refuses, the disk fills up during a copy and uploads go to
different disks; a crash can end a tick before and after a plan, a deletion can
take a directory's row away before and while its task runs (`ThreeEvents`).
`MinReplicas` is 2, as `config.Default` has it and `main.go` takes it.

What the model takes from the code and a reader may not expect: all disks are
HOT, since `claimDisk` says so, so that a directory that should be warm goes
from one hot disk to another, and only its used up task id keeps it from going
on (`CopiedOnce`). The view a cycle plans on has no capacities
(`nodeFromState`), so that the reserve by ratio of the design document (docs,
section 5.5) is zero. No plan counts what another plan of the same cycle will
take (coordinator.go:54-70), and uploads ignore the reserve: these are the
exceptions of `FloorKept` (`crowded`). With one node `SelectReplicaTarget`
finds no disk, so that there are no replications; a source is released only if
uploads have put the asset on further disks.

A row may then name a disk that has nothing of the directory: the source of a
migration is emptied before the row moves, a deletion empties a disk, and a scan
of the source names it again for its sidecar. So no property relates rows and
files.

Time stamps of rows are abstracted: a save may be ignored. No other write of the
database fails here; lost status updates are `TaskWorker`'s subject. The part of
an upload that a full disk cuts off is left out. No fairness is assumed.

`BalanceProofs` proves, for any disks, directories, assets, sizes, ages, tiers of
disks, margins and thresholds, and any number of uploads, deletions and crashes:

| Theorem | Assumes beyond the named assumptions | Argument |
|---|---|---|
| `TypeCorrect` | nothing | `TypeOK`, of which the hard part is that no disk is filled beyond its room; `WorkInv`: what runs was queued, has a row, and moves assets of its directory alone |
| `CopiedToOneOther` (`CopiedOnce`) | nothing | `CopyInv`: files of a directory are copied to its task's target alone, which never changes, for no submission replaces a task |
| `ReserveKept` (`FloorKept`) | nothing | `SpaceInv`: what the tick has reported is true until somebody uploads there, and no two plans at hand that nobody crowds are for one disk; what a copy takes it no longer has to bring |

`Weight` is a sum over a set; its lemmas (`WeightFacts`) are proved by counting
units of storage.

## 13. What is not modelled, and why

* Request signing and the time window of signed calls: the signature is
  cryptography, and the only state, the set of nonces, grows and is read by
  nothing else. The models take calls as authentic and executed at most once
  per call.
* The choice of the disk of a replication (`SelectReplicaTarget`): `TaskWorker`
  leaves it free.
* `SelectWriteDisk`, `MeetsHardFloor`, `BelowSoftTarget`, `AssignTiers`,
  `MigrationGain`, `FetchDiskLocation`, `Registry.Prune`,
  `DirChecksumsMatch`: only tests call them. Checksums are therefore compared
  nowhere.
* `MigratePhysName` and the formatting of names and times: names are abstracted
  to members of a set.
* The details of an asset shown to clients (`asset_meta`), the nodes table, the
  schema migration, the UI and media endpoints' formatting, HTTP routing, JSON,
  SQL text and logging: they decide nothing the properties speak of.
* Copying an asset to a disk on another node while its source moves, and two
  nodes that migrate a directory to each other at once: named as hazards, with
  the reason no property covers them.

Only model-checked, on the instances above: liveness (`JobEnds`, `TaskSettles`,
`Converges`, `StaysClaimed`), which is out of the prover's reach. Every invariant and every action property of a passing run is stated by a
theorem, as is the refinement of `DirCopy`. The type invariants of `TaskWorker`,
`DiskClaim`, `Balance`, `Library` and `AssetApi` are proved and are no properties
of the runs.

Induction: the library's induction theorems cannot be used here, but that a
relation is well founded can, in the form that a set of counterexamples has a
smallest one (`WFMin`). That is how the sums of `DiskClaim` (`NoSecondsNoScore`)
and `Balance` (`WeightIsUnits`) are reasoned about.
