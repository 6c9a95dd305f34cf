------------------------------ MODULE Balance ------------------------------
(***************************************************************************)
(* The directories of a node that coordinates itself, and the space of its *)
(* disks: where uploads go, what a scan says of a directory, which         *)
(* migrations a balancing cycle plans (balancer.go, space.go, eval.go,     *)
(* coordinator.go), and what carrying them out does to the disks.          *)
(*                                                                         *)
(* Uploads and deletions come at any moment; everything else is the tick   *)
(* of main.go: it claims the disks and reports their free space, scans now *)
(* and then, plans on the space reported, and works off the queued tasks.  *)
(* The protocol of a task is the subject of TaskWorker, the time stamps of *)
(* directory rows of Placement: here a save may come too soon after the    *)
(* last one and be ignored, and no other write of the database fails.      *)
(* Sizes are in units of storage; disks are numbers, in the order of their *)
(* serials.                                                                *)
(***************************************************************************)
EXTENDS Integers, FiniteSets, FiniteSetsExt

CONSTANTS Disks, Dirs, Assets,
          Room,      \* Room[d]: the units disk d holds
          TierOf,    \* TierOf[d]: the tier of disk d, HOT for all (claimDisk)
          DirOf,     \* DirOf[a]: the directory of asset a
          Size,      \* Size[a]: the units asset a takes
          Age,       \* Age[k]: the months since directory k
          NoRow,     \* stands for "no row", "no task" and "no directory"
          MinFree,       \* DiskMinFreeBytes
          MarginPercent, \* SafetyMargin
          HotPercent, ColdPercent, \* HotTempThr, ColdTempThr
          MinReplicas,
          UploadBound, DeleteBound, CrashBound  \* bounds on the calls and crashes

Tiers == {"HOT", "WARM", "COLD"}

ASSUME DiskAssumption == Disks \subseteq Nat /\ Room \in [Disks -> Nat]
ASSUME TierAssumption == TierOf \in [Disks -> Tiers]
ASSUME FiniteAssumption == IsFiniteSet(Assets)
ASSUME AssetAssumption == DirOf \in [Assets -> Dirs] /\ Size \in [Assets -> Nat]
ASSUME DirAssumption == Age \in [Dirs -> Nat] /\ NoRow \notin Dirs
ASSUME NumberAssumption == {MinFree, MarginPercent, HotPercent, ColdPercent,
                            MinReplicas, UploadBound, DeleteBound, CrashBound} \subseteq Nat

VARIABLES
  at,       \* at[d]: the assets whose files are on disk d
  waste,    \* waste[d]: units taken by files whose copying failed
  listed,   \* listed[d]: the assets the sidecars of disk d list
  rep,      \* rep[d]: the assets with a replica row for disk d
  row,      \* row[k]: the directory row of k
  known,    \* the assets with a row of their own
  mounted,  \* disks whose row names this node
  free,     \* free[d]: the free units the disk row says
  task,     \* task[k]: the migration of k
  tick,     \* what the scheduling goroutine is doing
  copied,   \* history: copied[k]: disks files of k have been copied to
  touched,  \* history: disks uploaded to since their space was reported
  crowded,  \* history: directories whose plan was overtaken
  uploads, deletes, crashes  \* bounded by the bounds of those names

vars == <<at, waste, listed, rep, row, known, mounted, free, task, tick, copied,
          touched, crowded, uploads, deletes, crashes>>

Rows == [disk : Disks, tier : Tiers, temp : 0 .. 24, total : Nat]
Tasks == [src : Disks, dst : Disks, st : {"QUEUED", "RUNNING", "DONE", "FAILED"}]
ASSUME NoRowAssumption == NoRow \notin Rows \union Tasks

Pcs == {"idle", "claim", "touch", "scan", "plan", "work", "copy", "release", "save"}

\* disks: those still to be claimed or scanned; dirs: the tasks still to be run;
\* dir: the one that runs, assets: what it moves, left: what of that it still has
\* to copy, row: the row it has read.
Ticks == [pc : Pcs, disks : SUBSET Disks, dirs : SUBSET Dirs,
          dir : Dirs \union {NoRow}, assets : SUBSET Assets, left : SUBSET Assets,
          row : Rows \union {NoRow}]
Idle == [pc |-> "idle", disks |-> {}, dirs |-> {}, dir |-> NoRow, assets |-> {},
         left |-> {}, row |-> NoRow]

Weight(S) == MapThenSumSet(LAMBDA a : Size[a], S)
Free(d) == Room[d] - Weight(at[d]) - waste[d]
In(k, S) == {a \in S : DirOf[a] = k}

TypeOK ==
  /\ at \in [Disks -> SUBSET Assets] /\ listed \in [Disks -> SUBSET Assets]
  /\ rep \in [Disks -> SUBSET Assets]
  /\ waste \in [Disks -> Nat] /\ free \in [Disks -> Nat]
  /\ \A d \in Disks : Free(d) >= 0
  /\ row \in [Dirs -> Rows \union {NoRow}]
  /\ known \subseteq Assets /\ mounted \subseteq Disks
  /\ task \in [Dirs -> Tasks \union {NoRow}]
  /\ tick \in Ticks
  /\ tick.pc \in {"copy", "release", "save"} =>
       tick.dir # NoRow /\ tick.row # NoRow /\ task[tick.dir] # NoRow
  /\ copied \in [Dirs -> SUBSET Disks]
  /\ touched \subseteq Disks /\ crowded \subseteq Dirs
  /\ uploads \in 0 .. UploadBound /\ deletes \in 0 .. DeleteBound
  /\ crashes \in 0 .. CrashBound

Init ==
  /\ at = [d \in Disks |-> {}] /\ listed = [d \in Disks |-> {}]
  /\ rep = [d \in Disks |-> {}]
  /\ waste = [d \in Disks |-> 0] /\ free = [d \in Disks |-> 0]
  /\ row = [k \in Dirs |-> NoRow] /\ task = [k \in Dirs |-> NoRow]
  /\ known = {} /\ mounted = {} /\ tick = Idle
  /\ copied = [k \in Dirs |-> {}] /\ touched = {} /\ crowded = {}
  /\ uploads = 0 /\ deletes = 0 /\ crashes = 0

Goto(pc) == tick' = [tick EXCEPT !.pc = pc]

(***************************************************************************)
(* Temperature and tiers.                                                  *)
(***************************************************************************)
\* Evaluate, in 24ths: a directory cools down in 24 months.
Evaluate(k) == IF Age[k] > 24 THEN 0 ELSE 24 - Age[k]

TargetTier(temp) ==
  CASE 100 * temp < 24 * ColdPercent -> "COLD"
    [] 100 * temp >= 24 * HotPercent -> "HOT"
    [] OTHER -> "WARM"

Adjacent(tier) == IF tier = "WARM" THEN {"HOT", "COLD"} ELSE {"WARM"}

(***************************************************************************)
(* Space.                                                                  *)
(***************************************************************************)
\* The view a cycle plans on has no capacities (nodeFromState), so that the
\* floor by ratio is zero.
HardReserveFloor == MinFree

Required(total) == (total * (100 + MarginPercent)) \div 100

\* A check that leaves the floor out.
FitsWithoutFloor(d, total) == free[d] >= Required(total)
PrecheckSpace(d, total) == free[d] >= Required(total) + HardReserveFloor

(***************************************************************************)
(* The plan of a cycle.                                                    *)
(***************************************************************************)
SelectTarget(k, tiers) ==
  {d \in Disks \ {row[k].disk} : TierOf[d] \in tiers /\ PrecheckSpace(d, row[k].total)}

PlanMigration(k) ==
  IF row[k] = NoRow THEN {}
  ELSE LET target == TargetTier(row[k].temp) IN
       IF target = row[k].tier THEN {}
       ELSE IF SelectTarget(k, {target}) # {} THEN SelectTarget(k, {target})
       ELSE SelectTarget(k, Adjacent(target))

\* No disk has an online score, so that the first of them is taken.
Target(k) == Min(PlanMigration(k))

\* INSERT OR REPLACE, INSERT OR IGNORE: the id is that of the directory.
SubmitAgain(k) == PlanMigration(k) # {}
Submits(k) == PlanMigration(k) # {} /\ task[k] = NoRow

(***************************************************************************)
(* Uploads: to the mounted disk with most free space by its row, whatever  *)
(* its floor; the directory becomes cold until it is scanned.  Only an     *)
(* upload of the same device is told apart, and changes nothing: another   *)
(* device may bring an asset again, and put it on another disk.            *)
(***************************************************************************)
\* SaveDirectory, which ignores what is not newer than the row.
SaveDirectory(k, r) == row' = [row EXCEPT ![k] = r] \/ (row[k] # NoRow /\ UNCHANGED row)

\* Somebody else takes room on disk d, or directory k grows.
Overtaken(d, k) == {j \in Dirs : task[j] # NoRow /\ (j = k \/ task[j].dst = d)}

Upload(a) ==
  /\ uploads < UploadBound /\ uploads' = uploads + 1
  /\ \E d \in {e \in mounted : \A o \in mounted : free[o] <= free[e]} :
       LET k == DirOf[a]
           total == IF row[k] = NoRow THEN Size[a] ELSE row[k].total + Size[a]
       IN /\ a \in at[d] \/ Free(d) >= Size[a]
          /\ at' = [at EXCEPT ![d] = @ \union {a}]
          /\ listed' = [listed EXCEPT ![d] = @ \union {a}]
          /\ rep' = [rep EXCEPT ![d] = @ \union {a}]
          /\ known' = known \union {a}
          /\ SaveDirectory(k, [disk |-> d, tier |-> TierOf[d], temp |-> 0,
                               total |-> total])
          /\ touched' = touched \union {d}
          /\ crowded' = crowded \union Overtaken(d, k)
  /\ UNCHANGED <<waste, mounted, free, task, tick, copied, deletes, crashes>>

\* While no disk is mounted, BLOB_ROOT, which is no disk, takes the file for good:
\* the asset has a row, but neither a replica nor a place in a directory row.
UploadLoose(a) ==
  /\ mounted = {}
  /\ uploads < UploadBound /\ uploads' = uploads + 1
  /\ known' = known \union {a}
  /\ crowded' = crowded \union {j \in {DirOf[a]} : task[j] # NoRow}
  /\ UNCHANGED <<at, waste, listed, rep, row, mounted, free, task, tick, copied,
                 touched, deletes, crashes>>

\* deleteAsset: the rows go, and that of a directory left without assets; then one
\* disk with a replica loses the file and its entry, and neither removal is checked.
Delete(a) ==
  /\ deletes < DeleteBound /\ deletes' = deletes + 1
  /\ a \in known /\ known' = known \ {a}
  /\ rep' = [d \in Disks |-> rep[d] \ {a}]
  /\ row' = [row EXCEPT ![DirOf[a]] = IF In(DirOf[a], known') = {} THEN NoRow ELSE @]
  /\ \/ /\ \A d \in Disks : a \notin rep[d]
        /\ UNCHANGED <<at, listed>>
     \/ \E d \in Disks :
          /\ a \in rep[d]
          /\ at' \in {at, [at EXCEPT ![d] = @ \ {a}]}
          /\ listed' \in {listed, [listed EXCEPT ![d] = @ \ {a}]}
  /\ UNCHANGED <<waste, mounted, free, task, tick, copied, touched, crowded, uploads,
                 crashes>>

(***************************************************************************)
(* The tick.                                                               *)
(***************************************************************************)
StartTick ==
  /\ tick.pc = "idle"
  /\ tick' = [Idle EXCEPT !.pc = "claim", !.disks = Disks]
  /\ UNCHANGED <<at, waste, listed, rep, row, known, mounted, free, task, copied,
                 touched, crowded, uploads, deletes, crashes>>

UpdateSpace(d) == free' = [free EXCEPT ![d] = Free(d)]

\* claimDisk: SaveDisk clears the node, UpdateSpace reports the space,
Claim(d) ==
  /\ tick.pc = "claim" /\ d = Min(tick.disks)
  /\ mounted' = mounted \ {d}
  /\ UpdateSpace(d)
  /\ touched' = touched \ {d}
  /\ Goto("touch")
  /\ UNCHANGED <<at, waste, listed, rep, row, known, task, copied, crowded, uploads,
                 deletes, crashes>>

\* and ClaimOrTouchDisk sets the node.  Every few ticks the disks are scanned.
Touch(d) ==
  /\ tick.pc = "touch" /\ d = Min(tick.disks)
  /\ mounted' = mounted \union {d}
  /\ IF tick.disks # {d}
     THEN tick' = [tick EXCEPT !.pc = "claim", !.disks = @ \ {d}]
     ELSE \/ tick' = [tick EXCEPT !.pc = "scan", !.disks = Disks]
          \/ tick' = [tick EXCEPT !.pc = "plan", !.disks = {}]
  /\ UNCHANGED <<at, waste, listed, rep, row, known, free, task, copied, touched,
                 crowded, uploads, deletes, crashes>>

\* A scan of a disk gives it the directories of its sidecars, with the files it has
\* of them, and their temperature.  What it finds is known, deleted or not.
Found(d) == listed[d] \intersect at[d]

Scanned(d, k) ==
  [disk |-> d, tier |-> TierOf[d], temp |-> Evaluate(k),
   total |-> Weight(In(k, Found(d)))]

Scan(d) ==
  /\ tick.pc = "scan" /\ d = Min(tick.disks)
  /\ rep' = [rep EXCEPT ![d] = @ \union Found(d)]
  /\ known' = known \union Found(d)
  /\ crowded' = crowded \union
       {k \in Dirs : task[k] # NoRow /\ In(k, Found(d) \ known) # {}}
  /\ \E tooSoon \in SUBSET {k \in Dirs : row[k] # NoRow} :
       row' = [k \in Dirs |->
                 IF In(k, listed[d]) = {} \/ k \in tooSoon THEN row[k] ELSE Scanned(d, k)]
  /\ tick' = [tick EXCEPT !.disks = @ \ {d},
                          !.pc = IF tick.disks = {d} THEN "plan" ELSE "scan"]
  /\ UNCHANGED <<at, waste, listed, mounted, free, task, copied, touched, uploads,
                 deletes, crashes>>

\* RunBalancingCycle: all plans are made on the same report, no plan counts what
\* another one will take.  The worker then lists what is queued.
Queued(t) == {k \in Dirs : t[k] # NoRow /\ t[k].st = "QUEUED"}

Plan ==
  /\ tick.pc = "plan"
  /\ task' = [k \in Dirs |->
                IF Submits(k) THEN [src |-> row[k].disk, dst |-> Target(k), st |-> "QUEUED"]
                ELSE task[k]]
  /\ crowded' = crowded \union
       {k \in Queued(task') :
          \/ \E j \in Queued(task') \ {k} : task'[j].dst = task'[k].dst
          \/ Submits(k) /\ task'[k].dst \in touched
          \/ Submits(k) /\ row[k].total < Weight(In(k, known))}
  /\ tick' = [tick EXCEPT !.pc = "work", !.dirs = Queued(task')]
  /\ UNCHANGED <<at, waste, listed, rep, row, known, mounted, free, copied, touched,
                 uploads, deletes, crashes>>

(***************************************************************************)
(* The worker.                                                             *)
(***************************************************************************)
SetStatus(k, st) == task' = [task EXCEPT ![k].st = st]

StartTask(k) ==
  /\ tick.pc = "work" /\ k \in tick.dirs
  /\ row[k] # NoRow
  /\ SetStatus(k, "RUNNING")
  /\ tick' = [tick EXCEPT !.pc = "copy", !.dirs = @ \ {k}, !.dir = k,
                          !.assets = In(k, known), !.left = In(k, known),
                          !.row = row[k]]
  /\ UNCHANGED <<at, waste, listed, rep, row, known, mounted, free, copied, touched,
                 crowded, uploads, deletes, crashes>>

\* The row went with the last asset of the directory.
RowIsGone(k) ==
  /\ tick.pc = "work" /\ k \in tick.dirs
  /\ row[k] = NoRow
  /\ SetStatus(k, "FAILED")
  /\ tick' = [tick EXCEPT !.dirs = @ \ {k}]
  /\ UNCHANGED <<at, waste, listed, rep, row, known, mounted, free, copied, touched,
                 crowded, uploads, deletes, crashes>>

EndTick ==
  /\ tick.pc = "work" /\ tick.dirs = {}
  /\ tick' = Idle
  /\ UNCHANGED <<at, waste, listed, rep, row, known, mounted, free, task, copied,
                 touched, crowded, uploads, deletes, crashes>>

Source == task[tick.dir].src
Destination == task[tick.dir].dst

\* A file that is there already is written over.
Copy(a) ==
  /\ tick.pc = "copy"
  /\ a \in tick.left \intersect at[Source]
  /\ a \in at[Destination] \/ Size[a] <= Free(Destination)
  /\ at' = [at EXCEPT ![Destination] = @ \union {a}]
  /\ tick' = [tick EXCEPT !.left = @ \ {a}]
  /\ copied' = [copied EXCEPT ![tick.dir] = @ \union {Destination}]
  /\ UNCHANGED <<waste, listed, rep, row, known, mounted, free, task, touched,
                 crowded, uploads, deletes, crashes>>

NextTask(st) ==
  /\ SetStatus(tick.dir, st)
  /\ tick' = [tick EXCEPT !.pc = "work", !.dir = NoRow, !.assets = {}, !.left = {},
                          !.row = NoRow]

\* The disk is full, and what was written stays, or the file is not where the
\* task says: a directory may be spread over disks, and the file be deleted.
CopyFails(a) ==
  /\ tick.pc = "copy"
  /\ a \in tick.left
  /\ \/ a \notin at[Source] /\ UNCHANGED waste
     \/ /\ a \in at[Source] \ at[Destination] /\ Size[a] > Free(Destination)
        /\ waste' = [waste EXCEPT ![Destination] = @ + Free(Destination)]
  /\ NextTask("FAILED")
  /\ UNCHANGED <<at, listed, rep, row, known, mounted, free, copied, touched,
                 crowded, uploads, deletes, crashes>>

Register ==
  /\ tick.pc = "copy" /\ tick.left = {}
  /\ rep' = [rep EXCEPT ![Destination] = @ \union tick.assets]
  /\ Goto("release")
  /\ UNCHANGED <<at, waste, listed, row, known, mounted, free, task, copied,
                 touched, crowded, uploads, deletes, crashes>>

\* The replica of the source does not count.
SafeToRelease(a) ==
  MinReplicas <= 1 \/ Cardinality({d \in Disks \ {Source} : a \in rep[d]}) >= MinReplicas

Release ==
  /\ tick.pc = "release"
  /\ LET safe == {a \in tick.assets : SafeToRelease(a)} IN
       /\ rep' = [rep EXCEPT ![Source] = @ \ safe]
       /\ at' = [at EXCEPT ![Source] = @ \ safe]
  /\ Goto("save")
  /\ UNCHANGED <<waste, listed, row, known, mounted, free, task, copied, touched,
                 crowded, uploads, deletes, crashes>>

\* rehost: the row that was read, with the new disk; its tier is the old disk's.
Rehost ==
  /\ tick.pc = "save"
  /\ SaveDirectory(tick.dir, [tick.row EXCEPT !.disk = Destination])
  /\ NextTask("DONE")
  /\ UNCHANGED <<at, waste, listed, rep, known, mounted, free, copied, touched,
                 crowded, uploads, deletes, crashes>>

Crash ==
  /\ crashes < CrashBound /\ crashes' = crashes + 1
  /\ tick.pc # "idle"
  /\ tick' = Idle
  /\ UNCHANGED <<at, waste, listed, rep, row, known, mounted, free, task, copied,
                 touched, crowded, uploads, deletes>>

Step ==
  \/ StartTick \/ Plan \/ EndTick \/ Register \/ Release \/ Rehost
  \/ \E d \in Disks : Claim(d) \/ Touch(d) \/ Scan(d)
  \/ \E k \in Dirs : StartTask(k) \/ RowIsGone(k)
  \/ \E a \in Assets : Copy(a) \/ CopyFails(a)

Next == Step \/ Crash \/ \E a \in Assets : Upload(a) \/ UploadLoose(a) \/ Delete(a)

Spec == Init /\ [][Next]_vars

(***************************************************************************)
(* Properties.                                                             *)
(***************************************************************************)
Unfinished(k) ==
  task[k] # NoRow /\ (task[k].st = "QUEUED" \/ (tick.dir = k /\ tick.pc = "copy"))
ToCopy(k) == IF tick.dir = k THEN tick.left ELSE In(k, known)

\* A planned migration leaves its target the reserve, until it is carried out
\* and while it is: unless another plan or an upload takes room there too, or
\* the directory has more than its row says.  Nothing reserves the room.
FloorKept ==
  \A k \in Dirs : Unfinished(k) /\ k \notin crowded =>
    LET d == task[k].dst IN
    Free(d) - Weight(ToCopy(k) \ at[d]) >= MinFree

\* A directory is copied to one disk and no further, although no plan ever makes
\* it what it should be, for all disks are of one tier, although a scan names the
\* source of a migration again, and whatever is uploaded to it and deleted.
CopiedOnce == \A k \in Dirs : Cardinality(copied[k]) <= 1

(***************************************************************************)
(* The inductive invariants of the proofs.                                 *)
(***************************************************************************)
Busy == tick.pc \in {"copy", "release", "save"}
AtHand == tick.dirs \union (IF Busy THEN {tick.dir} ELSE {})

\* What is at hand was queued, and the task that runs moves assets of its directory.
WorkInv ==
  /\ \A k \in tick.dirs : task[k] # NoRow /\ task[k].st = "QUEUED"
  /\ IF Busy
     THEN /\ task[tick.dir].st = "RUNNING"
          /\ tick.left \subseteq tick.assets /\ tick.assets \subseteq In(tick.dir, Assets)
     ELSE tick.dir = NoRow

\* Files are copied to the target of their directory's task alone.
CopyInv == \A k \in Dirs : copied[k] # {} => task[k] # NoRow /\ copied[k] = {task[k].dst}

\* The disks whose space the tick has reported, until somebody uploads to them.
Reported ==
  CASE tick.pc \in {"scan", "plan"} -> Disks \ touched
    [] tick.pc = "claim" -> Disks \ (touched \union tick.disks)
    [] tick.pc = "touch" -> Disks \ (touched \union (tick.disks \ {Min(tick.disks)}))
    [] OTHER -> {}

\* A plan counts on no more than what is free, and no other task at hand takes it.
SpaceInv ==
  /\ \A d \in Reported : free[d] <= Free(d)
  /\ \A k \in Dirs \ crowded : Unfinished(k) =>
       \A j \in AtHand \ {k} : task[j].dst # task[k].dst
=============================================================================
