------------------------------ MODULE AssetApi ------------------------------
(***************************************************************************)
(* One asset as the clients of a node see it: uploaded under device keys,  *)
(* looked up before an upload, listed, downloaded and deleted, over several *)
(* disks, months and file names (clusterapi.go, the media part of store.go, *)
(* blobpath.go), beside the scanner.  Where a file goes is decided by the  *)
(* upload alone: the mounted disk with most free bytes at that moment, or  *)
(* BLOB_ROOT while no disk is mounted, and the month and the name the      *)
(* client gives.  The database has one month and one name for the asset,   *)
(* and a set of disks.                                                     *)
(*                                                                         *)
(* Handlers run at once and every statement of the database is a step; no  *)
(* transaction joins them.  The write of a sidecar is one step here, what  *)
(* it is made of is the subject of Library, and directory rows are left to *)
(* Placement.                                                              *)
(***************************************************************************)
EXTENDS Naturals, FiniteSets

CONSTANTS Disks, Dirs, Names, Keys,
          Root,      \* BLOB_ROOT, which is no disk
          Requests,  \* what clients may send: key, month and name of the file
          Handlers, Scanner,
          None,      \* stands for "no disk, month, name, key, handler or row"
          Max        \* bound on each kind of event

Actors == Handlers \union {Scanner}
Events == {"upload", "delete", "scan", "crash", "io"}
Roots == Disks \union {Root}
Paths == Roots \X Dirs \X Names
Places == Roots \X Dirs

ASSUME RequestAssumption == Requests \subseteq [key : Keys, dir : Dirs, name : Names]
ASSUME NoneAssumption == None \notin Roots \union Dirs \union Names \union Keys
                                     \union Handlers \union [dir : Dirs, name : Names]
ASSUME RootAssumption == Root \notin Disks
ASSUME ScannerAssumption == Scanner \notin Handlers
ASSUME MaxAssumption == Max \in [Events -> Nat]

VARIABLES
  file,    \* file[f]: the file at path f
  writer,  \* writer[f]: the handler that emptied it last and is filling it
  entry,   \* entry[p]: the name the sidecar of p lists the asset under, or None
  row,     \* the row of the asset, or None
  reps,    \* disks with a replica row
  dev,     \* keys with a device_asset row
  job,     \* job[x]: what actor x is doing
  home,    \* history: the files of uploads answered with 201
  cut,     \* history: files whose writing was cut off
  placed,  \* history: places files were uploaded to
  halted,  \* history: a deletion was cut off
  raced,   \* history: a deletion overlapped with an upload or a scan
  gone,    \* history: the entry was deleted where a file was, no upload since
  used     \* history: events of each kind so far, capped by Max

vars == <<file, writer, entry, row, reps, dev, job, home, cut, placed, halted,
          raced, gone, used>>
data == <<file, writer, entry, row, reps, dev>>
history == <<home, cut, placed, halted, raced, gone>>

Uploading == {"open", "fill", "list", "asset", "replica", "key"}
Deleting == {"find", "dropAsset", "dropReplicas", "dropKeys", "dropMeta", "unlink",
             "unlist"}
Scanning == {"look", "scanAsset", "scanReplica"}

Idle == [pc |-> "idle", key |-> None, disk |-> None, dir |-> None, name |-> None]
Job == [pc : {"idle"} \union Uploading \union Deleting \union Scanning,
        key : Keys \union {None}, disk : Roots \union {None},
        dir : Dirs \union {None}, name : Names \union {None}]

TypeOK ==
  /\ file \in [Paths -> {"none", "part", "whole"}]
  /\ writer \in [Paths -> Handlers \union {None}]
  /\ entry \in [Places -> Names \union {None}]
  /\ row \in [dir : Dirs, name : Names] \union {None}
  /\ reps \subseteq Disks /\ dev \subseteq Keys
  /\ job \in [Actors -> Job]
  /\ home \subseteq Paths /\ cut \subseteq Paths /\ placed \subseteq Places
  /\ halted \in BOOLEAN /\ raced \in BOOLEAN /\ gone \in BOOLEAN
  /\ used \in [Events -> Nat] /\ \A e \in Events : used[e] <= Max[e]
  /\ \A x \in Actors :
       /\ job[x].pc \in (Uploading \union Scanning) =>
            job[x].disk # None /\ job[x].dir # None /\ job[x].name # None
       /\ job[x].pc \in Uploading => job[x].key # None
       /\ job[x].pc \in Deleting => job[x].dir # None /\ job[x].name # None
  /\ job[Scanner].pc \in {"idle"} \union Scanning
  /\ job[Scanner].disk \in Disks \union {None}

Init ==
  /\ file = [f \in Paths |-> "none"] /\ writer = [f \in Paths |-> None]
  /\ entry = [p \in Places |-> None]
  /\ row = None /\ reps = {} /\ dev = {}
  /\ job = [x \in Actors |-> Idle]
  /\ home = {} /\ cut = {} /\ placed = {}
  /\ halted = FALSE /\ raced = FALSE /\ gone = FALSE
  /\ used = [e \in Events |-> 0]

Spend(e) == used[e] < Max[e] /\ used' = [used EXCEPT ![e] = @ + 1]
Goto(x, pc) == job' = [job EXCEPT ![x].pc = pc]
Stop(x) == job' = [job EXCEPT ![x] = Idle]
Busy(pcs) == \E x \in Actors : job[x].pc \in pcs

Path(x) == <<job[x].disk, job[x].dir, job[x].name>>
Place(x) == <<job[x].disk, job[x].dir>>

(***************************************************************************)
(* The file of the asset in a directory: the one under the name asked for, *)
(* or else any that holds the asset's id in its name.                      *)
(***************************************************************************)
Present(p) == {n \in Names : file[<<p[1], p[2], n>>] # "none"}

ResolvePhysPath(p, name) == IF name \in Present(p) THEN {name} ELSE Present(p)

(***************************************************************************)
(* The statements of the store.                                            *)
(***************************************************************************)
\* The month is overwritten, the name stays that of the first upload.
SaveAsset(dir, name) ==
  row' = IF row = None THEN [dir |-> dir, name |-> name] ELSE [row EXCEPT !.dir = dir]

AddReplica(disk) == reps' = reps \union {disk}

\* handleBulkUploadCheck and the check at the start of an upload.
LookupDeviceAssets(k) == k \in dev

\* A deletion that leaves what devices know.
KeepDeviceAssets == UNCHANGED dev
DeleteDeviceAssets == dev' = {}

(***************************************************************************)
(* uploadAsset.                                                            *)
(***************************************************************************)
\* The free bytes may be any; a disk is not mounted until it is claimed.
WriteRoots == Disks \union {Root}

\* A key that is known is answered with the asset it has; else, or if the lookup
\* fails, the root is chosen.
Upload(x, r) ==
  /\ job[x].pc = "idle"
  /\ used["upload"] < Max["upload"]
  /\ \/ /\ ~LookupDeviceAssets(r.key)
        /\ used' = [used EXCEPT !["upload"] = @ + 1]
     \/ /\ LookupDeviceAssets(r.key) /\ used["io"] < Max["io"]
        /\ used' = [used EXCEPT !["upload"] = @ + 1, !["io"] = @ + 1]
  /\ \E d \in WriteRoots :
       /\ job' = [job EXCEPT ![x] = [pc |-> "open", key |-> r.key, disk |-> d,
                                     dir |-> r.dir, name |-> r.name]]
       /\ placed' = placed \union {<<d, r.dir>>}
  /\ gone' = FALSE
  /\ raced' = (raced \/ Busy(Deleting))
  /\ UNCHANGED <<data, home, cut, halted>>

\* os.WriteFile empties the file, if there is one,
Open(x) ==
  /\ job[x].pc = "open"
  /\ file' = [file EXCEPT ![Path(x)] = "part"]
  /\ writer' = [writer EXCEPT ![Path(x)] = x]
  /\ Goto(x, "fill")
  /\ UNCHANGED <<entry, row, reps, dev, history, used>>

\* and fills it, unless another handler has emptied it since and does so.
Fill(x) ==
  /\ job[x].pc = "fill"
  /\ IF writer[Path(x)] = x
     THEN /\ file' = [file EXCEPT ![Path(x)] = "whole"]
          /\ writer' = [writer EXCEPT ![Path(x)] = None]
     ELSE UNCHANGED <<file, writer>>
  /\ Goto(x, "list")
  /\ UNCHANGED <<entry, row, reps, dev, history, used>>

\* FlushMeta.
List(x) ==
  /\ job[x].pc = "list"
  /\ entry' = [entry EXCEPT ![Place(x)] = job[x].name]
  /\ Goto(x, "asset")
  /\ UNCHANGED <<file, writer, row, reps, dev, history, used>>

\* SaveUploadedAsset: the asset's row,
RecordAsset(x) ==
  /\ job[x].pc = "asset"
  /\ SaveAsset(job[x].dir, job[x].name)
  /\ Goto(x, "replica")
  /\ UNCHANGED <<file, writer, entry, reps, dev, history, used>>

\* and the replica's, if it is on a disk.
RecordReplica(x) ==
  /\ job[x].pc = "replica"
  /\ IF job[x].disk = Root THEN UNCHANGED reps ELSE AddReplica(job[x].disk)
  /\ Goto(x, "key")
  /\ UNCHANGED <<file, writer, entry, row, dev, history, used>>

\* SaveDeviceAsset, whose error is ignored, and the answer.
RecordKey(x) ==
  /\ job[x].pc = "key"
  /\ \/ dev' = dev \union {job[x].key} /\ UNCHANGED used
     \/ Spend("io") /\ UNCHANGED dev
  /\ home' = home \union {Path(x)}
  /\ Stop(x)
  /\ UNCHANGED <<file, writer, entry, row, reps, cut, placed, halted, raced, gone>>

\* An upload that is cut off leaves what it has done.
CutOff(X) ==
  LET filling == {f \in Paths : writer[f] \in X} IN
  /\ writer' = [f \in Paths |-> IF f \in filling THEN None ELSE writer[f]]
  /\ cut' = cut \union filling

\* A handler that removes its file when it fails.
RemoveFile(x) == file' = [file EXCEPT ![Path(x)] = "none"]
LeaveFile(x) == UNCHANGED file

UploadFails(x) ==
  /\ job[x].pc \in Uploading
  /\ Spend("io")
  /\ CutOff({x})
  /\ LeaveFile(x)
  /\ Stop(x)
  /\ UNCHANGED <<entry, row, reps, dev, home, placed, halted, raced, gone>>

(***************************************************************************)
(* deleteAsset.                                                            *)
(***************************************************************************)
Delete(x) ==
  /\ job[x].pc = "idle"
  /\ row # None
  /\ Spend("delete")
  /\ job' = [job EXCEPT ![x] = [Idle EXCEPT !.pc = "find", !.dir = row.dir,
                                            !.name = row.name]]
  /\ raced' = (raced \/ Busy(Uploading \union Deleting \union Scanning))
  /\ UNCHANGED <<data, home, cut, placed, halted, gone>>

\* The disk of one replica is remembered before the rows go, or BLOB_ROOT if
\* there is none or it cannot be read,
Find(x) ==
  /\ job[x].pc = "find"
  /\ \E d \in Roots :
       /\ job' = [job EXCEPT ![x].pc = "dropAsset", ![x].disk = d]
       /\ \/ d \in reps /\ UNCHANGED used
          \/ d = Root /\ reps = {} /\ UNCHANGED used
          \/ d = Root /\ reps # {} /\ Spend("io")
  /\ UNCHANGED <<data, history>>

\* then DeleteAsset removes, one after the other, the asset's row,
DropAsset(x) ==
  /\ job[x].pc = "dropAsset"
  /\ IF row = None THEN Goto(x, "unlink") ELSE Goto(x, "dropReplicas")
  /\ row' = None
  /\ home' = {}
  /\ UNCHANGED <<file, writer, entry, reps, dev, cut, placed, halted, raced, gone,
                 used>>

\* its replicas',
DropReplicas(x) ==
  /\ job[x].pc = "dropReplicas"
  /\ reps' = {}
  /\ Goto(x, "dropKeys")
  /\ UNCHANGED <<file, writer, entry, row, dev, history, used>>

\* what devices know of it,
DropKeys(x) ==
  /\ job[x].pc = "dropKeys"
  /\ DeleteDeviceAssets
  /\ Goto(x, "dropMeta")
  /\ UNCHANGED <<file, writer, entry, row, reps, history, used>>

\* and the details clients are shown, which are not modelled.
DropMeta(x) ==
  /\ job[x].pc = "dropMeta"
  /\ Goto(x, "unlink")
  /\ UNCHANGED <<data, history, used>>

\* One file is removed, where the row and the replica said; an error of
\* os.Remove is ignored.
Unlink(x) ==
  /\ job[x].pc = "unlink"
  /\ \/ Present(Place(x)) = {} /\ UNCHANGED <<file, writer, used>>
     \/ \E n \in ResolvePhysPath(Place(x), job[x].name) :
          LET f == <<job[x].disk, job[x].dir, n>> IN
          /\ file' = [file EXCEPT ![f] = "none"]
          /\ writer' = [writer EXCEPT ![f] = None]
          /\ UNCHANGED used
     \/ Spend("io") /\ UNCHANGED <<file, writer>>
  /\ Goto(x, "unlist")
  /\ UNCHANGED <<entry, row, reps, dev, history>>

\* and the entry of that directory's sidecar (RemoveAssetFromMeta); an error of
\* that is ignored too: the answer is 204 with the entry still there.
KeepEntry(x) == UNCHANGED entry
RemoveEntry(x) == entry' = [entry EXCEPT ![Place(x)] = None]

Unlist(x) ==
  /\ job[x].pc = "unlist"
  /\ \/ /\ RemoveEntry(x)
        /\ gone' = (Place(x) \in placed)
        /\ UNCHANGED used
     \/ /\ Spend("io")
        /\ gone' = FALSE
        /\ UNCHANGED entry
  /\ Stop(x)
  /\ UNCHANGED <<file, writer, row, reps, dev, home, cut, placed, halted, raced>>

\* A statement of DeleteAsset fails: what was removed stays removed.
DeleteFails(x) ==
  /\ job[x].pc \in {"dropAsset", "dropReplicas", "dropKeys", "dropMeta"}
  /\ Spend("io")
  /\ halted' = TRUE
  /\ Stop(x)
  /\ UNCHANGED <<data, home, cut, placed, raced, gone>>

(***************************************************************************)
(* syncDir, for one directory the scan comes to.                           *)
(***************************************************************************)
Scan(p) ==
  /\ job[Scanner].pc = "idle"
  /\ p[1] \in Disks /\ entry[p] # None
  /\ Spend("scan")
  /\ job' = [job EXCEPT ![Scanner] =
       [pc |-> "look", key |-> None, disk |-> p[1], dir |-> p[2], name |-> entry[p]]]
  /\ raced' = (raced \/ Busy(Deleting))
  /\ UNCHANGED <<data, home, cut, placed, halted, gone>>

HasFile(p) == Present(p) # {}

ScanLooks ==
  /\ job[Scanner].pc = "look"
  /\ IF HasFile(Place(Scanner)) THEN Goto(Scanner, "scanAsset") ELSE Stop(Scanner)
  /\ UNCHANGED <<data, history, used>>

ScanAsset ==
  /\ job[Scanner].pc = "scanAsset"
  /\ SaveAsset(job[Scanner].dir, job[Scanner].name)
  /\ Goto(Scanner, "scanReplica")
  /\ UNCHANGED <<file, writer, entry, reps, dev, history, used>>

ScanReplica ==
  /\ job[Scanner].pc = "scanReplica"
  /\ AddReplica(job[Scanner].disk)
  /\ Stop(Scanner)
  /\ UNCHANGED <<file, writer, entry, row, dev, history, used>>

Crash ==
  /\ Busy(Uploading \union Deleting \union Scanning)
  /\ Spend("crash")
  /\ CutOff(Handlers)
  /\ halted' = (halted \/ Busy(Deleting))
  /\ job' = [x \in Actors |-> Idle]
  /\ UNCHANGED <<file, entry, row, reps, dev, home, placed, raced, gone>>

Next ==
  \/ \E x \in Handlers :
       \/ \E r \in Requests : Upload(x, r)
       \/ Open(x) \/ Fill(x) \/ List(x) \/ RecordAsset(x) \/ RecordReplica(x)
       \/ RecordKey(x) \/ UploadFails(x)
       \/ Delete(x) \/ Find(x) \/ DropAsset(x) \/ DropReplicas(x) \/ DropKeys(x)
       \/ DropMeta(x) \/ Unlink(x) \/ Unlist(x) \/ DeleteFails(x)
  \/ \E p \in Places : Scan(p)
  \/ ScanLooks \/ ScanAsset \/ ScanReplica
  \/ Crash

Spec == Init /\ [][Next]_vars

(***************************************************************************)
(* What clients are answered.                                              *)
(***************************************************************************)
\* listAssets and GET of the asset.
Listed == row # None

\* serveAssetBytes looks on the disk of one replica, or else in BLOB_ROOT, in the
\* month of the row.
LooksIn == IF reps = {} THEN {Root} ELSE reps
Serves(d) == Present(<<d, row.dir>>) # {}

(***************************************************************************)
(* Properties.                                                             *)
(***************************************************************************)
\* The file of an upload that was answered with 201 is whole until the asset is
\* deleted, except while another upload of it writes the same file, and for good
\* if that one is cut off: os.WriteFile empties what is there.
BackedUp ==
  raced \/ \A f \in home : file[f] = "whole" \/ writer[f] # None \/ f \in cut

\* A client that is told an asset exists, by the check or as a duplicate, does
\* not send it: then it is listed.  Only a deletion that was cut off between its
\* statements, or that met an upload, leaves a key of an asset that is not there.
CheckTruthful ==
  \A k \in Keys :
    LookupDeviceAssets(k) /\ ~halted /\ ~raced =>
      Listed \/ Busy({"dropReplicas", "dropKeys"})

\* A listed asset can be downloaded, whichever of its replicas is looked up,
\* if its files are all of one month, as long as no deletion met an upload or a
\* scan, even if one was cut off.  Until a replica is recorded, that is so of
\* BLOB_ROOT only.
ListedCanBeServed ==
  /\ Listed /\ ~raced
  /\ Cardinality({p[2] : p \in placed}) <= 1
  /\ reps = {} => placed \subseteq {Root} \X Dirs
  => \A d \in LooksIn : Serves(d)

\* A deleted asset stays deleted, even if its file could not be removed: no scan
\* finds it again, unless its files were at several places, of which the
\* deletion knows one, or the deletion met an upload or a scan, or the entry
\* could not be removed (then gone is FALSE, though clients are answered 204).
DeletionSticks ==
  gone /\ ~raced /\ Cardinality(placed) <= 1 =>
    /\ ~Listed /\ reps = {} /\ dev = {}
    /\ \A p \in Places : entry[p] = None
=============================================================================
