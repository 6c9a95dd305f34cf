--------------------------- MODULE AssetApiProofs ---------------------------
(***************************************************************************)
(* What holds of AssetApi for all disks, months, names, devices and        *)
(* handlers, however often statements and writes fail and the server ends. *)
(***************************************************************************)
EXTENDS AssetApi, FiniteSetTheorems, TLAPS

----------------------------------------------------------------------------
\* Facts about what actors are doing.

Pcs == {"idle"} \union Uploading \union Deleting \union Scanning

\* An actor knows what its step needs.
Filled(j) ==
  /\ j.pc \in (Uploading \union Scanning) => j.disk # None /\ j.dir # None /\ j.name # None
  /\ j.pc \in Uploading => j.key # None
  /\ j.pc \in Deleting => j.dir # None /\ j.name # None

LEMMA JobFacts ==
  ASSUME TypeOK, NEW x \in Actors
  PROVE  /\ job[x] \in Job /\ Filled(job[x]) /\ job[x].pc \in Pcs
         /\ x = Scanner => job[x].pc \in {"idle"} \union Scanning
                           /\ job[x].disk \in Disks \union {None}
  BY DEF TypeOK, Filled, Job, Pcs

\* The scanner only scans, and only disks.
Scans(j) == j.pc \in {"idle"} \union Scanning /\ j.disk \in Disks \union {None}

\* Only one actor moves, and it knows what it needs.
Moves(x) ==
  /\ job' \in [Actors -> Job]
  /\ Filled(job'[x])
  /\ x = Scanner => Scans(job'[x])
  /\ \A y \in Actors \ {x} : job'[y] = job[y]

LEMMA MovesTyped ==
  ASSUME TypeOK, NEW x \in Actors, Moves(x)
  PROVE  /\ job' \in [Actors -> Job]
         /\ \A y \in Actors :
              /\ job'[y].pc \in (Uploading \union Scanning) =>
                   job'[y].disk # None /\ job'[y].dir # None /\ job'[y].name # None
              /\ job'[y].pc \in Uploading => job'[y].key # None
              /\ job'[y].pc \in Deleting => job'[y].dir # None /\ job'[y].name # None
         /\ job'[Scanner].pc \in {"idle"} \union Scanning
         /\ job'[Scanner].disk \in Disks \union {None}
  <1>1. Scanner \in Actors
    BY DEF Actors
  <1> QED BY <1>1 DEF TypeOK, Moves, Filled, Scans

LEMMA GotoFacts ==
  ASSUME TypeOK, NEW x \in Actors, NEW pc \in Pcs, Goto(x, pc)
  PROVE  /\ job' \in [Actors -> Job]
         /\ \A y \in Actors \ {x} : job'[y] = job[y]
         /\ job'[x].pc = pc
         /\ job'[x].key = job[x].key /\ job'[x].disk = job[x].disk
         /\ job'[x].dir = job[x].dir /\ job'[x].name = job[x].name
  <1>1. job[x] \in Job
    BY JobFacts
  <1>2. [job[x] EXCEPT !.pc = pc] \in Job
    BY <1>1 DEF Job, Pcs
  <1>3. job' = [job EXCEPT ![x] = [job[x] EXCEPT !.pc = pc]]
    BY DEF Goto
  <1> QED BY <1>1, <1>2, <1>3 DEF TypeOK, Job

LEMMA StopFacts ==
  ASSUME TypeOK, NEW x \in Actors, Stop(x)
  PROVE  /\ job' \in [Actors -> Job]
         /\ \A y \in Actors \ {x} : job'[y] = job[y]
         /\ job'[x] = Idle /\ job'[x].pc = "idle"
  BY DEF TypeOK, Stop, Idle, Job

LEMMA IdleFilled == Idle \in Job /\ Idle.pc = "idle" /\ Idle.disk = None /\ Filled(Idle)
  BY DEF Idle, Job, Filled, Uploading, Deleting, Scanning

\* A step within an upload, a deletion or a scan moves on.
LEMMA GotoMoves ==
  ASSUME TypeOK, NEW x \in Actors, NEW pc \in Pcs, Goto(x, pc),
         \E S \in {Uploading, Deleting, Scanning} : pc \in S /\ job[x].pc \in S
  PROVE  Moves(x)
  <1>1. Filled(job'[x])
    BY GotoFacts, JobFacts DEF Filled, Uploading, Deleting, Scanning
  <1>2. x = Scanner => Scans(job'[x])
    BY GotoFacts, JobFacts DEF Scans, Uploading, Deleting, Scanning
  <1> QED BY <1>1, <1>2, GotoFacts DEF Moves

LEMMA StopMoves ==
  ASSUME TypeOK, NEW x \in Actors, Stop(x)
  PROVE  Moves(x)
  BY StopFacts, IdleFilled DEF Moves, Scans

LEMMA SpendFacts ==
  ASSUME TypeOK, NEW e \in Events, Spend(e)
  PROVE  used' \in [Events -> Nat] /\ \A i \in Events : used'[i] <= Max[i]
  <1>1. /\ used \in [Events -> Nat] /\ \A i \in Events : used[i] <= Max[i]
        /\ used[e] < Max[e] /\ used' = [used EXCEPT ![e] = used[e] + 1]
        /\ Max \in [Events -> Nat]
    BY MaxAssumption DEF TypeOK, Spend
  <1>2. used[e] + 1 \in Nat /\ used[e] + 1 <= Max[e]
    BY <1>1
  <1> QED BY <1>1, <1>2

\* The path and the place of an actor that has a root.
LEMMA PlaceFacts ==
  ASSUME TypeOK, NEW x \in Actors
  PROVE  /\ job[x].pc \in Uploading \union Scanning =>
              Path(x) \in Paths /\ Place(x) \in Places
         /\ job[x].dir # None /\ job[x].disk # None => Place(x) \in Places
  BY JobFacts DEF Filled, Job, Path, Place, Paths, Places

----------------------------------------------------------------------------
\* Type correctness.

\* What is no actor's is in its type.
Typed ==
  /\ file \in [Paths -> {"none", "part", "whole"}]
  /\ writer \in [Paths -> Handlers \union {None}]
  /\ entry \in [Places -> Names \union {None}]
  /\ row \in [dir : Dirs, name : Names] \union {None}
  /\ reps \subseteq Disks /\ dev \subseteq Keys
  /\ home \subseteq Paths /\ cut \subseteq Paths /\ placed \subseteq Places
  /\ halted \in BOOLEAN /\ raced \in BOOLEAN /\ gone \in BOOLEAN

LEMMA TypeParts ==
  ASSUME TypeOK
  PROVE  /\ Typed /\ used \in [Events -> Nat] /\ \A e \in Events : used[e] <= Max[e]
         /\ job \in [Actors -> Job] /\ \A x \in Actors : Filled(job[x])
  BY JobFacts DEF TypeOK, Typed

LEMMA PartsType ==
  ASSUME TypeOK, NEW x \in Actors, Moves(x), Typed',
         used' \in [Events -> Nat], \A e \in Events : used'[e] <= Max[e]
  PROVE  TypeOK'
  BY MovesTyped DEF TypeOK, Typed

LEMMA InitTyped == Init => TypeOK
  <1> SUFFICES ASSUME Init PROVE TypeOK
    OBVIOUS
  <1>1. \A x \in Actors : job[x] \in Job /\ job[x].pc = "idle" /\ job[x].disk = None
    BY IdleFilled DEF Init
  <1>2. used \in [Events -> Nat] /\ \A e \in Events : used[e] <= Max[e]
    BY MaxAssumption DEF Init
  <1>3. /\ job \in [Actors -> Job]
        /\ \A x \in Actors : job[x].pc \notin Uploading \union Deleting \union Scanning
    BY <1>1 DEF Init, Uploading, Deleting, Scanning
  <1>4. Scanner \in Actors
    BY DEF Actors
  <1> QED BY <1>1, <1>2, <1>3, <1>4 DEF Init, TypeOK

LEMMA UploadTyped ==
  ASSUME TypeOK, NEW x \in Handlers, NEW r \in Requests, Upload(x, r)
  PROVE  TypeOK'
  <1>1. r.key \in Keys /\ r.dir \in Dirs /\ r.name \in Names
    BY RequestAssumption
  <1>2. x \in Actors
    BY DEF Actors
  <1>3. PICK d \in WriteRoots :
          /\ job' = [job EXCEPT ![x] = [pc |-> "open", key |-> r.key, disk |-> d,
                                        dir |-> r.dir, name |-> r.name]]
          /\ placed' = placed \union {<<d, r.dir>>}
    BY DEF Upload
  <1>4. d \in Roots /\ <<d, r.dir>> \in Places
    BY <1>1 DEF WriteRoots, Roots, Places
  <1>5. Moves(x)
    BY <1>1, <1>2, <1>3, <1>4, NoneAssumption, ScannerAssumption
    DEF TypeOK, Moves, Filled, Job, Uploading, Deleting, Scanning
  <1>6. used' \in [Events -> Nat] /\ \A e \in Events : used'[e] <= Max[e]
    BY MaxAssumption DEF Upload, TypeOK, Events
  <1>7. Typed'
    BY <1>3, <1>4 DEF Upload, TypeOK, Typed, data, Busy
  <1> QED BY <1>2, <1>5, <1>6, <1>7, PartsType

\* The other steps of an upload.
LEMMA UploadStepTyped ==
  ASSUME TypeOK, NEW x \in Handlers,
         \/ Open(x) \/ Fill(x) \/ List(x) \/ RecordAsset(x) \/ RecordReplica(x)
         \/ RecordKey(x) \/ UploadFails(x)
  PROVE  TypeOK'
  <1>1. x \in Actors /\ job[x].pc \in Uploading /\ Path(x) \in Paths /\ Place(x) \in Places
    BY PlaceFacts DEF Actors, Uploading, Open, Fill, List, RecordAsset, RecordReplica,
                      RecordKey, UploadFails
  <1>2. /\ job[x].key \in Keys /\ job[x].disk \in Roots
        /\ job[x].dir \in Dirs /\ job[x].name \in Names
    BY <1>1, JobFacts DEF Filled, Job
  <1>3. Moves(x)
    BY <1>1, GotoMoves, StopMoves
    DEF Pcs, Uploading, Open, Fill, List, RecordAsset, RecordReplica, RecordKey,
        UploadFails
  <1>4. used' \in [Events -> Nat] /\ \A e \in Events : used'[e] <= Max[e]
    BY SpendFacts, TypeParts
    DEF Events, Open, Fill, List, RecordAsset, RecordReplica, RecordKey, UploadFails
  <1>5. Typed'
    <2> USE <1>1, <1>2 DEF TypeOK, Typed, history
    <2>1. CASE Open(x)
      BY <2>1 DEF Open
    <2>2. CASE Fill(x)
      BY <2>2 DEF Fill
    <2>3. CASE List(x)
      BY <2>3 DEF List
    <2>4. CASE RecordAsset(x)
      BY <2>4 DEF RecordAsset, SaveAsset
    <2>5. CASE RecordReplica(x)
      BY <2>5 DEF RecordReplica, AddReplica, Roots
    <2>6. CASE RecordKey(x)
      BY <2>6 DEF RecordKey
    <2>7. CASE UploadFails(x)
      BY <2>7 DEF UploadFails, CutOff, LeaveFile
    <2> QED BY <2>1, <2>2, <2>3, <2>4, <2>5, <2>6, <2>7
  <1> QED BY <1>1, <1>3, <1>4, <1>5, PartsType

LEMMA DeleteTyped ==
  ASSUME TypeOK, NEW x \in Handlers, Delete(x)
  PROVE  TypeOK'
  <1>1. x \in Actors /\ x # Scanner /\ row.dir \in Dirs /\ row.name \in Names
    BY ScannerAssumption DEF TypeOK, Actors, Delete
  <1> DEFINE j == [Idle EXCEPT !.pc = "find", !.dir = row.dir, !.name = row.name]
  <1>2. /\ job' = [job EXCEPT ![x] = j]
        /\ j \in Job /\ j.pc = "find" /\ j.dir = row.dir /\ j.name = row.name
    BY <1>1, IdleFilled DEF Delete, Job, Deleting
  <1>3. Moves(x)
    <2>1. Filled(j)
      BY <1>1, <1>2, NoneAssumption DEF Filled, Uploading, Deleting, Scanning
    <2> HIDE DEF j
    <2> QED BY <1>1, <1>2, <2>1 DEF TypeOK, Moves
  <1>4. used' \in [Events -> Nat] /\ \A e \in Events : used'[e] <= Max[e]
    BY SpendFacts DEF Delete, Events
  <1>5. Typed'
    BY DEF Delete, TypeOK, Typed, data, Busy
  <1> QED BY <1>1, <1>3, <1>4, <1>5, PartsType

\* Where a deletion looks is a root, and it does not change anything else.
LEMMA FindFacts ==
  ASSUME TypeOK, NEW x \in Actors, Find(x)
  PROVE  /\ Moves(x) /\ job'[x].pc = "dropAsset" /\ job'[x].disk \in Roots
         /\ job'[x].dir = job[x].dir /\ job'[x].name = job[x].name
  <1>1. PICK d \in Roots : job' = [job EXCEPT ![x].pc = "dropAsset", ![x].disk = d]
    BY DEF Find
  <1>2. job[x] \in Job /\ Filled(job[x]) /\ job[x].pc = "find"
    BY JobFacts DEF Find
  <1>3. job' = [job EXCEPT ![x] = [job[x] EXCEPT !.pc = "dropAsset", !.disk = d]]
    BY <1>1
  <1>4. [job[x] EXCEPT !.pc = "dropAsset", !.disk = d] \in Job
    BY <1>2 DEF Job, Deleting
  <1>5. job'[x] = [job[x] EXCEPT !.pc = "dropAsset", !.disk = d]
    BY <1>3 DEF TypeOK
  <1>6. Filled(job'[x])
    BY <1>2, <1>5 DEF Filled, Job, Uploading, Deleting, Scanning
  <1>7. x # Scanner
    BY <1>2, JobFacts DEF Scanning
  <1> QED BY <1>2, <1>3, <1>4, <1>5, <1>6, <1>7 DEF TypeOK, Moves, Job

\* The other steps of a deletion.
LEMMA DeleteStepTyped ==
  ASSUME TypeOK, NEW x \in Handlers,
         \/ Find(x) \/ DropAsset(x) \/ DropReplicas(x) \/ DropKeys(x) \/ DropMeta(x)
         \/ Unlink(x) \/ Unlist(x) \/ DeleteFails(x)
  PROVE  TypeOK'
  <1>1. x \in Actors
    BY DEF Actors
  <1>2. Moves(x)
    BY <1>1, GotoMoves, StopMoves, FindFacts
    DEF Pcs, Deleting, DropAsset, DropReplicas, DropKeys, DropMeta, Unlink, Unlist,
        DeleteFails
  <1>3. used' \in [Events -> Nat] /\ \A e \in Events : used'[e] <= Max[e]
    BY SpendFacts, TypeParts
    DEF Events, Find, DropAsset, DropReplicas, DropKeys, DropMeta, Unlink, Unlist,
        DeleteFails
  <1>4. Typed'
    <2> USE <1>1 DEF TypeOK, Typed, history, data
    <2>1. CASE Find(x)
      BY <2>1 DEF Find
    <2>2. CASE DropAsset(x)
      BY <2>2 DEF DropAsset
    <2>3. CASE DropReplicas(x)
      BY <2>3 DEF DropReplicas
    <2>4. CASE DropKeys(x)
      BY <2>4 DEF DropKeys, DeleteDeviceAssets
    <2>5. CASE DropMeta(x)
      BY <2>5 DEF DropMeta
    <2>6. CASE Unlink(x)
      BY <2>6 DEF Unlink
    <2>7. CASE Unlist(x)
      <3>1. gone' \in BOOLEAN
        <4>1. gone' = (Place(x) \in placed) \/ gone' = FALSE
          BY <2>7 DEF Unlist
        <4>2. (Place(x) \in placed) \in BOOLEAN
          OBVIOUS
        <4> QED BY <4>1, <4>2, Zenon
      <3>2. entry' \in [Places -> Names \union {None}]
        BY <2>7 DEF Unlist, RemoveEntry
      <3> QED BY <2>7, <3>1, <3>2 DEF Unlist
    <2>8. CASE DeleteFails(x)
      BY <2>8 DEF DeleteFails
    <2> QED BY <2>1, <2>2, <2>3, <2>4, <2>5, <2>6, <2>7, <2>8
  <1> QED BY <1>1, <1>2, <1>3, <1>4, PartsType

LEMMA ScanTyped ==
  ASSUME TypeOK, NEW p \in Places, Scan(p)
  PROVE  TypeOK'
  <1>1. /\ Scanner \in Actors /\ p[1] \in Disks /\ p[2] \in Dirs /\ entry[p] \in Names
        /\ job' = [job EXCEPT ![Scanner] =
             [pc |-> "look", key |-> None, disk |-> p[1], dir |-> p[2], name |-> entry[p]]]
    BY DEF TypeOK, Actors, Places, Scan
  <1>2. Moves(Scanner)
    BY <1>1, NoneAssumption
    DEF TypeOK, Moves, Filled, Scans, Job, Uploading, Deleting, Scanning, Roots
  <1>3. used' \in [Events -> Nat] /\ \A e \in Events : used'[e] <= Max[e]
    BY SpendFacts DEF Scan, Events
  <1>4. Typed'
    BY DEF Scan, TypeOK, Typed, data, Busy
  <1> QED BY <1>1, <1>2, <1>3, <1>4, PartsType

LEMMA ScanStepTyped ==
  ASSUME TypeOK, ScanLooks \/ ScanAsset \/ ScanReplica
  PROVE  TypeOK'
  <1>1. /\ Scanner \in Actors /\ job[Scanner].pc \in Scanning
        /\ job[Scanner].disk \in Disks /\ job[Scanner].dir \in Dirs
        /\ job[Scanner].name \in Names
    <2>1. Scanner \in Actors /\ job[Scanner].pc \in Scanning
      BY DEF Actors, Scanning, ScanLooks, ScanAsset, ScanReplica
    <2> QED BY <2>1, JobFacts DEF Filled, Job
  <1>2. Moves(Scanner)
    BY <1>1, GotoMoves, StopMoves DEF Pcs, Scanning, ScanLooks, ScanAsset, ScanReplica
  <1>3. used' = used
    BY DEF ScanLooks, ScanAsset, ScanReplica
  <1>4. Typed'
    BY <1>1 DEF ScanLooks, ScanAsset, ScanReplica, SaveAsset, AddReplica, TypeOK, Typed,
                data, history
  <1> QED BY <1>1, <1>2, <1>3, <1>4, PartsType, TypeParts

LEMMA CrashTyped ==
  ASSUME TypeOK, Crash
  PROVE  TypeOK'
  <1>1. \A x \in Actors : job'[x] = Idle
    BY DEF Crash
  <1>2. /\ job' \in [Actors -> Job] /\ Scanner \in Actors
        /\ \A x \in Actors : job'[x].pc \notin Uploading \union Deleting \union Scanning
        /\ job'[Scanner].pc = "idle" /\ job'[Scanner].disk = None
    BY <1>1, IdleFilled DEF Crash, Actors, Uploading, Deleting, Scanning
  <1>3. used' \in [Events -> Nat] /\ \A e \in Events : used'[e] <= Max[e]
    BY SpendFacts DEF Crash, Events
  <1>4. Typed'
    BY DEF Crash, CutOff, TypeOK, Typed, Busy
  <1> QED BY <1>2, <1>3, <1>4 DEF TypeOK, Typed

LEMMA TypeStep == TypeOK /\ [Next]_vars => TypeOK'
  <1> SUFFICES ASSUME TypeOK, [Next]_vars PROVE TypeOK'
    OBVIOUS
  <1>1. CASE \E x \in Handlers, r \in Requests : Upload(x, r)
    BY <1>1, UploadTyped
  <1>2. CASE \E x \in Handlers :
               \/ Open(x) \/ Fill(x) \/ List(x) \/ RecordAsset(x) \/ RecordReplica(x)
               \/ RecordKey(x) \/ UploadFails(x)
    BY <1>2, UploadStepTyped
  <1>3. CASE \E x \in Handlers : Delete(x)
    BY <1>3, DeleteTyped
  <1>4. CASE \E x \in Handlers :
               \/ Find(x) \/ DropAsset(x) \/ DropReplicas(x) \/ DropKeys(x)
               \/ DropMeta(x) \/ Unlink(x) \/ Unlist(x) \/ DeleteFails(x)
    BY <1>4, DeleteStepTyped
  <1>5. CASE \E p \in Places : Scan(p)
    BY <1>5, ScanTyped
  <1>6. CASE ScanLooks \/ ScanAsset \/ ScanReplica
    BY <1>6, ScanStepTyped
  <1>7. CASE Crash
    BY <1>7, CrashTyped
  <1>8. CASE UNCHANGED vars
    BY <1>8 DEF vars, TypeOK
  <1> QED BY <1>1, <1>2, <1>3, <1>4, <1>5, <1>6, <1>7, <1>8 DEF Next

\* No step leaves the sets its variables belong to, and the scanner never writes.
THEOREM TypeCorrect == Spec => []TypeOK
  BY InitTyped, TypeStep, PTL DEF Spec

----------------------------------------------------------------------------
\* The steps of an operation that has begun.

UploadStep(x) ==
  Open(x) \/ Fill(x) \/ List(x) \/ RecordAsset(x) \/ RecordReplica(x) \/ RecordKey(x)
  \/ UploadFails(x)
DeleteStep(x) ==
  Find(x) \/ DropAsset(x) \/ DropReplicas(x) \/ DropKeys(x) \/ DropMeta(x) \/ Unlink(x)
  \/ Unlist(x) \/ DeleteFails(x)
ScanStep == ScanLooks \/ ScanAsset \/ ScanReplica

\* x goes on with one of pcs, or stops; the others stay where they are.
GoesOn(x, pcs) ==
  /\ job[x].pc \in pcs /\ job'[x].pc \in pcs \union {"idle"}
  /\ \A y \in Actors \ {x} : job'[y] = job[y]
  /\ job'[x].pc # "idle" => job'[x].dir = job[x].dir /\ job'[x].name = job[x].name

LEMMA UploadStepFacts ==
  ASSUME TypeOK, NEW x \in Handlers, UploadStep(x)
  PROVE  /\ GoesOn(x, Uploading)
         /\ job'[x].pc # "idle" => job'[x].disk = job[x].disk
         /\ raced' = raced /\ gone' = gone /\ placed' = placed /\ halted' = halted
  <1>1. x \in Actors
    BY DEF Actors
  <1> USE <1>1, GotoFacts, StopFacts DEF GoesOn, Uploading, Pcs, history
  <1>2. CASE Open(x)
    BY <1>2 DEF Open
  <1>3. CASE Fill(x)
    BY <1>3 DEF Fill
  <1>4. CASE List(x)
    BY <1>4 DEF List
  <1>5. CASE RecordAsset(x)
    BY <1>5 DEF RecordAsset
  <1>6. CASE RecordReplica(x)
    BY <1>6 DEF RecordReplica
  <1>7. CASE RecordKey(x)
    BY <1>7 DEF RecordKey
  <1>8. CASE UploadFails(x)
    BY <1>8 DEF UploadFails
  <1> QED BY <1>2, <1>3, <1>4, <1>5, <1>6, <1>7, <1>8 DEF UploadStep

LEMMA DeleteStepFacts ==
  ASSUME TypeOK, NEW x \in Handlers, DeleteStep(x)
  PROVE  GoesOn(x, Deleting) /\ raced' = raced /\ placed' = placed
  <1>1. x \in Actors
    BY DEF Actors
  <1> USE <1>1, GotoFacts, StopFacts DEF GoesOn, Deleting, Pcs, history
  <1>2. CASE Find(x)
    BY <1>2, FindFacts DEF Find, Moves
  <1>3. CASE DropAsset(x)
    BY <1>3 DEF DropAsset
  <1>4. CASE DropReplicas(x)
    BY <1>4 DEF DropReplicas
  <1>5. CASE DropKeys(x)
    BY <1>5 DEF DropKeys
  <1>6. CASE DropMeta(x)
    BY <1>6 DEF DropMeta
  <1>7. CASE Unlink(x)
    BY <1>7 DEF Unlink
  <1>8. CASE Unlist(x)
    BY <1>8 DEF Unlist
  <1>9. CASE DeleteFails(x)
    BY <1>9 DEF DeleteFails
  <1> QED BY <1>2, <1>3, <1>4, <1>5, <1>6, <1>7, <1>8, <1>9 DEF DeleteStep

LEMMA ScanStepFacts ==
  ASSUME TypeOK, ScanStep
  PROVE  /\ GoesOn(Scanner, Scanning) /\ Scanner \in Actors
         /\ job'[Scanner].pc # "idle" => job'[Scanner].disk = job[Scanner].disk
         /\ UNCHANGED <<file, writer, entry, dev, history>>
  <1>1. Scanner \in Actors
    BY DEF Actors
  <1> USE <1>1, GotoFacts, StopFacts DEF GoesOn, Scanning, Pcs, history, data
  <1>2. CASE ScanLooks
    BY <1>2 DEF ScanLooks
  <1>3. CASE ScanAsset
    BY <1>3 DEF ScanAsset
  <1>4. CASE ScanReplica
    BY <1>4 DEF ScanReplica
  <1> QED BY <1>1, <1>2, <1>3, <1>4 DEF ScanStep

\* The steps an operation begins with.
LEMMA UploadFacts ==
  ASSUME TypeOK, NEW x \in Handlers, NEW r \in Requests, Upload(x, r)
  PROVE  /\ x \in Actors /\ job[x].pc = "idle" /\ job'[x].pc = "open"
         /\ \A y \in Actors \ {x} : job'[y] = job[y]
         /\ \E d \in Roots :
              /\ job'[x].disk = d /\ job'[x].dir = r.dir /\ r.dir \in Dirs
              /\ placed' = placed \union {<<d, r.dir>>}
         /\ gone' = FALSE /\ UNCHANGED <<data, home, cut, halted>>
         /\ ~raced' => ~raced /\ ~Busy(Deleting)
  <1>1. x \in Actors /\ r.dir \in Dirs
    BY RequestAssumption DEF Actors
  <1>2. PICK d \in WriteRoots :
          /\ job' = [job EXCEPT ![x] = [pc |-> "open", key |-> r.key, disk |-> d,
                                        dir |-> r.dir, name |-> r.name]]
          /\ placed' = placed \union {<<d, r.dir>>}
    BY DEF Upload
  <1>3. ~raced' => ~raced /\ ~Busy(Deleting)
    BY DEF Upload, TypeOK
  <1>4. /\ job'[x].pc = "open" /\ job'[x].disk = d /\ job'[x].dir = r.dir
        /\ \A y \in Actors \ {x} : job'[y] = job[y]
    BY <1>1, <1>2 DEF TypeOK
  <1>5. d \in Roots
    BY DEF WriteRoots, Roots
  <1>6. job[x].pc = "idle" /\ gone' = FALSE /\ UNCHANGED <<data, home, cut, halted>>
    BY DEF Upload
  <1> QED BY <1>1, <1>2, <1>3, <1>4, <1>5, <1>6

LEMMA DeleteFacts ==
  ASSUME TypeOK, NEW x \in Handlers, Delete(x)
  PROVE  /\ x \in Actors /\ job[x].pc = "idle" /\ job'[x].pc = "find" /\ row # None
         /\ \A y \in Actors \ {x} : job'[y] = job[y]
         /\ UNCHANGED <<data, home, cut, placed, halted, gone>>
         /\ ~raced' => ~raced /\ \A y \in Actors : job[y].pc = "idle"
  <1>1. x \in Actors
    BY DEF Actors
  <1>2. [Idle EXCEPT !.pc = "find", !.dir = row.dir, !.name = row.name].pc = "find"
    BY IdleFilled DEF Job
  <1>3. /\ job'[x].pc = "find" /\ \A y \in Actors \ {x} : job'[y] = job[y]
    BY <1>1, <1>2 DEF TypeOK, Delete
  <1>4. ~raced' => ~raced /\ ~Busy(Uploading \union Deleting \union Scanning)
    BY DEF TypeOK, Delete
  <1>5. ~raced' => \A y \in Actors : job[y].pc = "idle"
    BY <1>4, JobFacts DEF Busy, Pcs
  <1> QED BY <1>1, <1>3, <1>4, <1>5 DEF Delete

LEMMA ScanFacts ==
  ASSUME TypeOK, NEW p \in Places, Scan(p)
  PROVE  /\ Scanner \in Actors /\ job[Scanner].pc = "idle" /\ job'[Scanner].pc = "look"
         /\ job'[Scanner].disk = p[1] /\ job'[Scanner].dir = p[2] /\ entry[p] # None
         /\ \A y \in Actors \ {Scanner} : job'[y] = job[y]
         /\ UNCHANGED <<data, home, cut, placed, halted, gone>>
         /\ ~raced' => ~raced /\ ~Busy(Deleting)
  <1>1. Scanner \in Actors
    BY DEF Actors
  <1>2. /\ job'[Scanner].pc = "look" /\ \A y \in Actors \ {Scanner} : job'[y] = job[y]
        /\ job'[Scanner].disk = p[1] /\ job'[Scanner].dir = p[2]
    BY <1>1 DEF TypeOK, Scan
  <1>3. ~raced' => ~raced /\ ~Busy(Deleting)
    BY DEF TypeOK, Scan
  <1> QED BY <1>1, <1>2, <1>3 DEF Scan

LEMMA CrashFacts ==
  ASSUME TypeOK, Crash
  PROVE  /\ \A x \in Actors : job'[x].pc = "idle"
         /\ UNCHANGED <<file, entry, row, reps, dev, home, placed, raced, gone>>
         /\ ~halted' => ~halted /\ ~Busy(Deleting)
         /\ \E x \in Actors : job[x].pc # "idle"
  <1>1. \A x \in Actors : job'[x].pc = "idle"
    BY IdleFilled DEF Crash
  <1>2. \E x \in Actors : job[x].pc # "idle"
    BY DEF Crash, Busy, Uploading, Deleting, Scanning
  <1>3. ~halted' => ~halted /\ ~Busy(Deleting)
    BY DEF TypeOK, Crash
  <1> QED BY <1>1, <1>2, <1>3 DEF Crash

\* A step is one of these.
LEMMA StepIs ==
  ASSUME [Next]_vars
  PROVE  \/ \E x \in Handlers, r \in Requests : Upload(x, r)
         \/ \E x \in Handlers : UploadStep(x) \/ Delete(x) \/ DeleteStep(x)
         \/ \E p \in Places : Scan(p)
         \/ ScanStep \/ Crash \/ UNCHANGED vars
  BY DEF Next, UploadStep, DeleteStep, ScanStep

LEMMA RacedStays == TypeOK /\ [Next]_vars /\ ~raced' => ~raced
  <1> SUFFICES ASSUME TypeOK, [Next]_vars, ~raced' PROVE ~raced
    OBVIOUS
  <1> QED BY StepIs, UploadFacts, UploadStepFacts, DeleteFacts, DeleteStepFacts,
             ScanFacts, ScanStepFacts, CrashFacts DEF vars, history

----------------------------------------------------------------------------
\* As long as no deletion meets another operation, it is alone.

Alone ==
  \A x \in Handlers :
    job[x].pc \in Deleting => \A y \in Actors \ {x} : job[y].pc = "idle"

NoDeletion == \A x \in Actors : job[x].pc \notin Deleting

LEMMA PcsApart ==
  \A pc \in Pcs :
    /\ pc \in Uploading => pc \notin Deleting \union Scanning /\ pc # "idle"
    /\ pc \in Scanning => pc \notin Deleting \union Uploading /\ pc # "idle"
    /\ pc \in Deleting => pc # "idle"
  BY DEF Pcs, Uploading, Deleting, Scanning

\* Whatever begins or goes on but a deletion finds none under way and leaves none.
LEMMA NotDeleting ==
  ASSUME TypeOK, Alone, [Next]_vars, ~raced',
         ~ \E x \in Handlers : Delete(x) \/ DeleteStep(x),
         ~ UNCHANGED vars, ~ Crash
  PROVE  NoDeletion /\ NoDeletion'
  <1>0. \A x \in Actors : job[x].pc \in Pcs
    BY JobFacts
  <1>01. \A x \in Actors : x = Scanner => job[x].pc \notin Deleting
    BY JobFacts DEF Deleting, Scanning
  <1>1. CASE \E x \in Handlers, r \in Requests : Upload(x, r)
    <2>1. PICK x \in Handlers, r \in Requests : Upload(x, r)
      BY <1>1
    <2> QED BY <2>1, UploadFacts DEF NoDeletion, Busy, Deleting
  <1>2. CASE \E x \in Handlers : UploadStep(x)
    <2>1. PICK x \in Handlers : UploadStep(x)
      BY <1>2
    <2>2. x \in Actors /\ GoesOn(x, Uploading)
      BY <2>1, UploadStepFacts DEF Actors
    <2>3. NoDeletion
      BY <1>0, <1>01, <2>2, PcsApart DEF NoDeletion, Alone, GoesOn, Actors
    <2>4. job'[x].pc \notin Deleting
      BY <2>2 DEF GoesOn, Uploading, Deleting
    <2> QED BY <2>2, <2>3, <2>4 DEF NoDeletion, GoesOn
  <1>3. CASE \E p \in Places : Scan(p)
    <2>1. PICK p \in Places : Scan(p)
      BY <1>3
    <2> QED BY <2>1, ScanFacts DEF NoDeletion, Busy, Deleting
  <1>4. CASE ScanStep
    <2>2. Scanner \in Actors /\ GoesOn(Scanner, Scanning)
      BY <1>4, ScanStepFacts
    <2>3. NoDeletion
      BY <1>0, <1>01, <2>2, PcsApart DEF NoDeletion, Alone, GoesOn, Actors
    <2>4. job'[Scanner].pc \notin Deleting
      BY <2>2 DEF GoesOn, Scanning, Deleting
    <2> QED BY <2>2, <2>3, <2>4 DEF NoDeletion, GoesOn
  <1> QED BY StepIs, <1>1, <1>2, <1>3, <1>4

LEMMA AloneStep ==
  ASSUME TypeOK, Alone, [Next]_vars, ~raced'
  PROVE  Alone'
  <1>1. CASE \E x \in Handlers : Delete(x)
    BY <1>1, DeleteFacts DEF Alone, Actors, Deleting
  <1>2. CASE \E x \in Handlers : DeleteStep(x)
    BY <1>2, DeleteStepFacts DEF Alone, Actors, GoesOn, Deleting
  <1>3. CASE Crash
    BY <1>3, CrashFacts DEF Alone, Actors
  <1>4. CASE UNCHANGED vars
    BY <1>4 DEF Alone, vars
  <1>5. CASE NoDeletion'
    BY <1>5 DEF NoDeletion, Alone, Actors
  <1> QED BY <1>1, <1>2, <1>3, <1>4, <1>5, NotDeleting

----------------------------------------------------------------------------
\* What a deletion that is alone has removed so far.

Dropped ==
  \A x \in Handlers :
    /\ job[x].pc \in {"find", "dropAsset"} => row # None
    /\ job[x].pc \in Deleting \ {"find", "dropAsset"} => row = None /\ home = {}
    /\ job[x].pc \in {"dropKeys", "dropMeta", "unlink", "unlist"} => reps = {}
    /\ job[x].pc \in {"dropMeta", "unlink", "unlist"} => dev = {}

LEMMA DroppedStep ==
  ASSUME TypeOK, Alone, Dropped, [Next]_vars, ~raced'
  PROVE  Dropped'
  <1>1. CASE \E x \in Handlers : Delete(x)
    <2>1. PICK x \in Handlers : Delete(x)
      BY <1>1
    <2>2. \A y \in Handlers : job'[y].pc \in Deleting => y = x
      BY <2>1, DeleteFacts DEF Actors, Deleting
    <2> QED BY <2>1, <2>2, DeleteFacts DEF Dropped, Deleting, data
  <1>2. CASE \E x \in Handlers : DeleteStep(x)
    <2>1. PICK x \in Handlers : DeleteStep(x)
      BY <1>2
    <2>2. x \in Actors /\ GoesOn(x, Deleting)
      BY <2>1, DeleteStepFacts DEF Actors
    <2>3. \A y \in Handlers : job'[y].pc \in Deleting => y = x
      BY <2>2 DEF Alone, Actors, GoesOn, Deleting
    <2>4. SUFFICES /\ job'[x].pc \in {"find", "dropAsset"} => row' # None
                   /\ job'[x].pc \in Deleting \ {"find", "dropAsset"}
                        => row' = None /\ home' = {}
                   /\ job'[x].pc \in {"dropKeys", "dropMeta", "unlink", "unlist"}
                        => reps' = {}
                   /\ job'[x].pc \in {"dropMeta", "unlink", "unlist"} => dev' = {}
      BY <2>3 DEF Dropped, Deleting
    <2> USE <2>2, GotoFacts, StopFacts DEF Dropped, Deleting, Pcs, data, history
    <2>5. CASE Find(x)
      BY <2>5, FindFacts DEF Find
    <2>6. CASE DropAsset(x)
      BY <2>6 DEF DropAsset
    <2>7. CASE DropReplicas(x)
      BY <2>7 DEF DropReplicas
    <2>8. CASE DropKeys(x)
      BY <2>8 DEF DropKeys, DeleteDeviceAssets
    <2>9. CASE DropMeta(x)
      BY <2>9 DEF DropMeta
    <2>10. CASE Unlink(x)
      BY <2>10 DEF Unlink
    <2>11. CASE Unlist(x)
      BY <2>11 DEF Unlist
    <2>12. CASE DeleteFails(x)
      BY <2>12 DEF DeleteFails
    <2> QED BY <2>1, <2>5, <2>6, <2>7, <2>8, <2>9, <2>10, <2>11, <2>12 DEF DeleteStep
  <1>3. CASE Crash
    BY <1>3, CrashFacts DEF Dropped, Actors, Deleting
  <1>4. CASE UNCHANGED vars
    BY <1>4 DEF Dropped, vars
  <1>5. CASE NoDeletion'
    BY <1>5 DEF NoDeletion, Dropped, Actors, Deleting
  <1> QED BY <1>1, <1>2, <1>3, <1>4, <1>5, NotDeleting

----------------------------------------------------------------------------
\* Only a deletion removes files; what is written is whole unless it was cut off.

Good(f) == file[f] = "whole" \/ writer[f] # None \/ f \in cut

LEMMA FilesStay ==
  ASSUME TypeOK, [Next]_vars, ~ \E x \in Handlers : Unlink(x), NEW f \in Paths
  PROVE  /\ file[f] # "none" => file'[f] # "none"
         /\ Good(f) => Good(f)'
  <1> USE DEF TypeOK, Good, history, data
  <1>1. CASE \E x \in Handlers, r \in Requests : Upload(x, r)
    BY <1>1 DEF Upload
  <1>2. CASE \E x \in Handlers : UploadStep(x)
    <2>1. PICK x \in Handlers : UploadStep(x)
      BY <1>2
    <2>2. x # None
      BY NoneAssumption
    <2>3. CASE Open(x)
      BY <2>2, <2>3 DEF Open
    <2>4. CASE Fill(x)
      BY <2>4 DEF Fill
    <2>5. CASE List(x) \/ RecordAsset(x) \/ RecordReplica(x) \/ RecordKey(x)
      BY <2>5 DEF List, RecordAsset, RecordReplica, RecordKey
    <2>6. CASE UploadFails(x)
      BY <2>6 DEF UploadFails, CutOff, LeaveFile
    <2> QED BY <2>1, <2>3, <2>4, <2>5, <2>6 DEF UploadStep
  <1>3. CASE \E x \in Handlers : Delete(x)
    BY <1>3 DEF Delete
  <1>4. CASE \E x \in Handlers : DeleteStep(x) /\ ~Unlink(x)
    BY <1>4 DEF DeleteStep, Find, DropAsset, DropReplicas, DropKeys, DropMeta, Unlist,
                DeleteFails
  <1>5. CASE \E p \in Places : Scan(p)
    BY <1>5 DEF Scan
  <1>6. CASE ScanStep
    BY <1>6, ScanStepFacts
  <1>7. CASE Crash
    BY <1>7, NoneAssumption DEF Crash, CutOff
  <1>8. CASE UNCHANGED vars
    BY <1>8 DEF vars
  <1> QED BY StepIs, <1>1, <1>2, <1>3, <1>4, <1>5, <1>6, <1>7, <1>8

\* While a deletion that is alone unlinks, there is nothing else.
LEMMA UnlinkAlone ==
  ASSUME TypeOK, Alone, Dropped, NEW x \in Handlers, Unlink(x)
  PROVE  /\ row' = None /\ home' = {} /\ reps' = {}
         /\ \A y \in Actors : job'[y].pc \in {"idle", "unlist"}
  <1>1. x \in Actors /\ job[x].pc = "unlink"
    BY DEF Actors, Unlink
  <1>2. row = None /\ home = {} /\ reps = {}
    BY <1>1 DEF Dropped, Deleting
  <1>3. \A y \in Actors \ {x} : job[y].pc = "idle"
    BY <1>1 DEF Alone, Deleting
  <1> QED BY <1>1, <1>2, <1>3, GotoFacts DEF Unlink, Pcs, Deleting, history

\* What uploads have written since they emptied their file.
Written ==
  /\ \A f \in home : Good(f)
  /\ \A x \in Handlers :
       job[x].pc \in Uploading \ {"open"} => Good(Path(x)) /\ file[Path(x)] # "none"

LEMMA WrittenStep ==
  ASSUME TypeOK, Alone, Dropped, Written, [Next]_vars, ~raced'
  PROVE  Written'
  <1>1. CASE \E x \in Handlers : Unlink(x)
    BY <1>1, UnlinkAlone DEF Written, Uploading, Actors
  <1> SUFFICES ASSUME ~ \E x \in Handlers : Unlink(x) PROVE Written'
    BY <1>1
  <1>2. \A f \in Paths : /\ file[f] # "none" => file'[f] # "none"
                         /\ Good(f) => Good(f)'
    BY FilesStay
  <1>3. \A x \in Handlers :
          job[x].pc \in Uploading => Path(x) \in Paths
    BY PlaceFacts DEF Actors
  <1>4. home \subseteq Paths
    BY DEF TypeOK
  <1>5. ASSUME home' \subseteq home,
               \A x \in Handlers :
                 job'[x].pc \in Uploading \ {"open"} =>
                   job[x].pc \in Uploading \ {"open"} /\ Path(x)' = Path(x)
        PROVE  Written'
    BY <1>2, <1>3, <1>4, <1>5 DEF Written
  <1>6. CASE \E x \in Handlers, r \in Requests : Upload(x, r)
    <2>1. PICK x \in Handlers, r \in Requests : Upload(x, r)
      BY <1>6
    <2> QED BY <2>1, <1>5, UploadFacts DEF Actors, Path
  <1>7. CASE \E x \in Handlers : UploadStep(x)
    <2>1. PICK x \in Handlers : UploadStep(x)
      BY <1>7
    <2>2. /\ x \in Actors /\ GoesOn(x, Uploading)
          /\ job'[x].pc # "idle" => Path(x)' = Path(x)
          /\ \A y \in Handlers \ {x} : job'[y] = job[y] /\ Path(y)' = Path(y)
      BY <2>1, UploadStepFacts DEF Actors, GoesOn, Path
    <2>3. CASE Open(x)
      <3>1. job[x].pc = "open" /\ x # None /\ Path(x) \in Paths
        BY <2>3, <1>3, NoneAssumption DEF Open, Uploading
      <3>2. file'[Path(x)] # "none" /\ Good(Path(x))'
        <4>1. file'[Path(x)] = "part" /\ writer'[Path(x)] = x
          BY <2>3, <3>1 DEF Open, TypeOK
        <4>2. job'[x].pc = "fill"
          BY <2>2, <2>3, GotoFacts DEF Open, Pcs, Uploading
        <4> QED BY <3>1, <4>1, <4>2, <2>2 DEF Good
      <3>3. \A f \in home' : Good(f)'
        BY <2>3, <1>2, <1>4 DEF Open, history, Written
      <3>4. job'[x].pc = "fill"
        BY <2>2, <2>3, GotoFacts DEF Open, Pcs, Uploading
      <3>5. \A y \in Handlers \ {x} :
              job'[y].pc \in Uploading \ {"open"} =>
                Good(Path(y))' /\ file'[Path(y)'] # "none"
        BY <1>2, <1>3, <2>2 DEF Written
      <3> QED BY <2>2, <3>2, <3>3, <3>4, <3>5 DEF Written
    <2>4. CASE RecordKey(x)
      <3>1. job'[x].pc = "idle" /\ home' = home \union {Path(x)} /\ job[x].pc = "key"
        BY <2>2, <2>4, StopFacts DEF RecordKey
      <3>2. Path(x) \in Paths /\ Good(Path(x))
        BY <3>1, <1>3 DEF Written, Uploading
      <3>3. \A f \in home' : Good(f)'
        BY <3>1, <3>2, <1>2, <1>4 DEF Written
      <3>4. \A y \in Handlers \ {x} :
              job'[y].pc \in Uploading \ {"open"} =>
                Good(Path(y))' /\ file'[Path(y)'] # "none"
        BY <1>2, <1>3, <2>2 DEF Written
      <3> QED BY <3>1, <3>3, <3>4 DEF Written, Uploading
    <2>5. CASE ~Open(x) /\ ~RecordKey(x)
      <3>1. home' = home
        BY <2>1, <2>5 DEF UploadStep, Fill, List, RecordAsset, RecordReplica,
                          UploadFails, history
      <3>2. job[x].pc # "open" \/ job'[x].pc = "idle"
        <4>1. CASE UploadFails(x)
          BY <4>1, <2>2, StopFacts DEF UploadFails
        <4>2. CASE ~UploadFails(x)
          BY <2>1, <2>5, <4>2 DEF UploadStep, Fill, List, RecordAsset, RecordReplica
        <4> QED BY <4>1, <4>2
      <3> QED BY <1>5, <2>2, <3>1, <3>2 DEF GoesOn, Uploading
    <2> QED BY <2>3, <2>4, <2>5
  <1>8. CASE \E x \in Handlers : Delete(x)
    <2>1. PICK x \in Handlers : Delete(x)
      BY <1>8
    <2> QED BY <2>1, <1>5, DeleteFacts DEF Actors, Path, Uploading
  <1>9. CASE \E x \in Handlers : DeleteStep(x)
    <2>1. PICK x \in Handlers : DeleteStep(x)
      BY <1>9
    <2>2. home' \subseteq home
      BY <2>1 DEF DeleteStep, Find, DropAsset, DropReplicas, DropKeys, DropMeta, Unlink,
                  Unlist, DeleteFails, history
    <2> QED BY <2>1, <2>2, <1>5, DeleteStepFacts
            DEF Actors, Path, Uploading, Deleting, GoesOn
  <1>10. CASE \E p \in Places : Scan(p)
    <2>1. PICK p \in Places : Scan(p)
      BY <1>10
    <2> QED BY <2>1, <1>5, ScanFacts, ScannerAssumption DEF Actors, Path
  <1>11. CASE ScanStep
    BY <1>11, <1>5, ScanStepFacts, ScannerAssumption DEF Actors, Path, GoesOn, history
  <1>12. CASE Crash
    BY <1>12, <1>5, CrashFacts DEF Actors, Uploading
  <1>13. CASE UNCHANGED vars
    BY <1>13, <1>5 DEF vars, Path
  <1> QED BY StepIs, <1>6, <1>7, <1>8, <1>9, <1>10, <1>11, <1>12, <1>13

\* What devices are told of has a row, except while a deletion is between the two.
Known ==
  /\ \A x \in Handlers : job[x].pc \in {"replica", "key"} => row # None
  /\ dev # {} /\ ~halted => row # None \/ Busy({"dropReplicas", "dropKeys"})

LEMMA SaveAssetFacts ==
  ASSUME TypeOK, NEW dir \in Dirs, NEW name \in Names, SaveAsset(dir, name)
  PROVE  row' # None /\ row'.dir = dir
  BY NoneAssumption DEF TypeOK, SaveAsset

LEMMA KnownStep ==
  ASSUME TypeOK, Alone, Dropped, Known, [Next]_vars, ~raced'
  PROVE  Known'
  <1> USE DEF Known
  <1>1. CASE \E x \in Handlers, r \in Requests : Upload(x, r)
    <2>1. PICK x \in Handlers, r \in Requests : Upload(x, r)
      BY <1>1
    <2> QED BY <2>1, UploadFacts DEF Actors, Busy, data, Deleting
  <1>2. CASE \E x \in Handlers : UploadStep(x)
    <2>1. PICK x \in Handlers : UploadStep(x)
      BY <1>2
    <2>2. /\ x \in Actors /\ GoesOn(x, Uploading) /\ halted' = halted
          /\ job[x].dir \in Dirs /\ job[x].name \in Names
      BY <2>1, UploadStepFacts, JobFacts DEF Actors, GoesOn, Filled, Job
    <2>3. ~Busy({"dropReplicas", "dropKeys"})
      BY <2>1, <1>2, NotDeleting, JobFacts, PcsApart, <2>2
      DEF Alone, NoDeletion, Busy, Deleting, GoesOn, Actors, Scanning, Uploading
    <2>4. row # None => row' # None
      BY <2>1, <2>2, SaveAssetFacts
      DEF UploadStep, Open, Fill, List, RecordAsset, RecordReplica, RecordKey, UploadFails
    <2>5. job'[x].pc \in {"replica", "key"} => row' # None
      <3>1. CASE RecordAsset(x)
        BY <3>1, <2>2, SaveAssetFacts DEF RecordAsset
      <3>2. CASE RecordReplica(x)
        BY <3>2, <2>4 DEF RecordReplica
      <3>3. CASE ~RecordAsset(x) /\ ~RecordReplica(x)
        BY <2>1, <2>2, <3>3, GotoFacts, StopFacts
        DEF UploadStep, Open, Fill, List, RecordKey, UploadFails, Pcs, Uploading
      <3> QED BY <3>1, <3>2, <3>3
    <2>6. dev' = dev \/ row' # None
      <3>1. CASE RecordKey(x)
        BY <3>1, <2>4 DEF RecordKey
      <3>2. CASE ~RecordKey(x)
        BY <2>1, <3>2
        DEF UploadStep, Open, Fill, List, RecordAsset, RecordReplica, UploadFails
      <3> QED BY <3>1, <3>2
    <2> QED BY <2>2, <2>3, <2>4, <2>5, <2>6 DEF GoesOn, Actors
  <1>3. CASE \E x \in Handlers : Delete(x)
    <2>1. PICK x \in Handlers : Delete(x)
      BY <1>3
    <2> QED BY <2>1, DeleteFacts DEF Actors, data
  <1>4. CASE \E x \in Handlers : DeleteStep(x)
    <2>1. PICK x \in Handlers : DeleteStep(x)
      BY <1>4
    <2>2. /\ x \in Actors /\ GoesOn(x, Deleting)
          /\ \A y \in Actors \ {x} : job[y].pc = "idle"
      BY <2>1, DeleteStepFacts DEF Alone, Actors, GoesOn
    <2>3. \A y \in Handlers : job'[y].pc \notin {"replica", "key"}
      BY <2>2 DEF GoesOn, Actors, Deleting
    <2>4. SUFFICES dev' # {} /\ ~halted'
                     => row' # None \/ job'[x].pc \in {"dropReplicas", "dropKeys"}
      BY <2>2, <2>3 DEF Busy
    <2>5. Busy({"dropReplicas", "dropKeys"}) => job[x].pc \in {"dropReplicas", "dropKeys"}
      BY <2>2 DEF Busy
    <2> USE <2>2, <2>5, GotoFacts, StopFacts DEF Dropped, Deleting, Pcs, data, history
    <2>6. CASE Find(x)
      BY <2>6 DEF Find
    <2>7. CASE DropAsset(x)
      BY <2>7 DEF DropAsset
    <2>8. CASE DropReplicas(x)
      BY <2>8 DEF DropReplicas
    <2>9. CASE DropKeys(x)
      BY <2>9 DEF DropKeys, DeleteDeviceAssets
    <2>10. CASE DropMeta(x)
      BY <2>10 DEF DropMeta
    <2>11. CASE Unlink(x)
      BY <2>11 DEF Unlink
    <2>12. CASE Unlist(x)
      BY <2>12 DEF Unlist
    <2>13. CASE DeleteFails(x)
      BY <2>13 DEF DeleteFails
    <2> QED BY <2>1, <2>6, <2>7, <2>8, <2>9, <2>10, <2>11, <2>12, <2>13 DEF DeleteStep
  <1>5. CASE \E p \in Places : Scan(p)
    <2>1. PICK p \in Places : Scan(p)
      BY <1>5
    <2> QED BY <2>1, ScanFacts, ScannerAssumption DEF Actors, Busy, data, Deleting
  <1>6. CASE ScanStep
    <2>1. /\ Scanner \in Actors /\ GoesOn(Scanner, Scanning)
          /\ UNCHANGED <<dev, halted>>
      BY <1>6, ScanStepFacts DEF history
    <2>2. job[Scanner].dir \in Dirs /\ job[Scanner].name \in Names
      BY <2>1, JobFacts DEF Filled, Job, GoesOn
    <2>3. row # None => row' # None
      BY <1>6, <2>2, SaveAssetFacts DEF ScanStep, ScanLooks, ScanAsset, ScanReplica, data
    <2>4. ~Busy({"dropReplicas", "dropKeys"})
      BY <2>1, JobFacts DEF Alone, Busy, Deleting, GoesOn, Actors, Scanning
    <2> QED BY <2>1, <2>3, <2>4, ScannerAssumption DEF GoesOn, Actors
  <1>7. CASE Crash
    BY <1>7, CrashFacts DEF Actors, Busy, Deleting
  <1>8. CASE UNCHANGED vars
    BY <1>8 DEF vars, Busy
  <1> QED BY StepIs, <1>1, <1>2, <1>3, <1>4, <1>5, <1>6, <1>7, <1>8

----------------------------------------------------------------------------
\* Uploads, sidecar entries and scans are where files were uploaded to.

InPlace ==
  /\ IsFiniteSet(placed)
  /\ \A p \in Places : entry[p] # None => p \in placed
  /\ \A x \in Actors : job[x].pc \in Uploading \union Scanning => Place(x) \in placed

LEMMA InPlaceStep ==
  ASSUME TypeOK, InPlace, [Next]_vars
  PROVE  InPlace'
  <1> USE DEF InPlace
  <1>1. CASE \E x \in Handlers, r \in Requests : Upload(x, r)
    <2>1. PICK x \in Handlers, r \in Requests : Upload(x, r)
      BY <1>1
    <2>2. PICK d \in Roots :
            /\ job'[x].disk = d /\ job'[x].dir = r.dir
            /\ placed' = placed \union {<<d, r.dir>>}
      BY <2>1, UploadFacts
    <2>3. IsFiniteSet(placed')
      BY <2>2, FS_AddElement
    <2>4. entry' = entry /\ \A y \in Actors \ {x} : job'[y] = job[y]
      BY <2>1, UploadFacts DEF data
    <2> QED BY <2>2, <2>3, <2>4 DEF Place
  <1>2. CASE \E x \in Handlers : UploadStep(x)
    <2>1. PICK x \in Handlers : UploadStep(x)
      BY <1>2
    <2>2. /\ x \in Actors /\ GoesOn(x, Uploading) /\ placed' = placed
          /\ job'[x].pc # "idle" => Place(x)' = Place(x)
          /\ \A y \in Actors \ {x} : job'[y] = job[y] /\ Place(y)' = Place(y)
      BY <2>1, UploadStepFacts DEF Actors, GoesOn, Place
    <2>3. \A p \in Places : entry'[p] # None => entry[p] # None \/ p = Place(x)
      BY <2>1
      DEF TypeOK, UploadStep, Open, Fill, List, RecordAsset, RecordReplica, RecordKey,
          UploadFails
    <2> QED BY <2>2, <2>3 DEF GoesOn, Uploading, Scanning
  <1>3. CASE \E x \in Handlers : Delete(x)
    <2>1. PICK x \in Handlers : Delete(x)
      BY <1>3
    <2> QED BY <2>1, DeleteFacts DEF data, Place, Uploading, Scanning
  <1>4. CASE \E x \in Handlers : DeleteStep(x)
    <2>1. PICK x \in Handlers : DeleteStep(x)
      BY <1>4
    <2>2. /\ x \in Actors /\ GoesOn(x, Deleting) /\ placed' = placed
          /\ \A y \in Actors \ {x} : job'[y] = job[y] /\ Place(y)' = Place(y)
      BY <2>1, DeleteStepFacts DEF Actors, GoesOn, Place
    <2>3. \A p \in Places : entry'[p] # None => entry[p] # None
      BY <2>1
      DEF TypeOK, DeleteStep, Find, DropAsset, DropReplicas, DropKeys, DropMeta, Unlink,
          Unlist, RemoveEntry, DeleteFails, data
    <2> QED BY <2>2, <2>3 DEF GoesOn, Uploading, Scanning, Deleting
  <1>5. CASE \E p \in Places : Scan(p)
    <2>1. PICK p \in Places : Scan(p)
      BY <1>5
    <2>2. p = <<p[1], p[2]>>
      BY DEF Places
    <2> QED BY <2>1, <2>2, ScanFacts DEF data, Place
  <1>6. CASE ScanStep
    BY <1>6, ScanStepFacts DEF GoesOn, history, Place, Uploading, Scanning
  <1>7. CASE Crash
    BY <1>7, CrashFacts DEF Uploading, Scanning
  <1>8. CASE UNCHANGED vars
    BY <1>8 DEF vars, Place
  <1> QED BY StepIs, <1>1, <1>2, <1>3, <1>4, <1>5, <1>6, <1>7, <1>8

----------------------------------------------------------------------------
\* Where a row or a replica says a file is, there is one.

Holds(files, p) == \E n \in Names : files[<<p[1], p[2], n>>] # "none"

Kept ==
  /\ \A d \in reps : \E m \in Dirs : <<d, m>> \in placed /\ Holds(file, <<d, m>>)
  /\ row # None =>
       \E d \in Roots : <<d, row.dir>> \in placed /\ Holds(file, <<d, row.dir>>)
  /\ job[Scanner].pc \in {"scanAsset", "scanReplica"} => Holds(file, Place(Scanner))

LEMMA HoldsStays ==
  ASSUME TypeOK, [Next]_vars, ~ \E x \in Handlers : Unlink(x),
         NEW p \in Places, Holds(file, p)
  PROVE  Holds(file', p)
  <1>1. PICK n \in Names : file[<<p[1], p[2], n>>] # "none"
    BY DEF Holds
  <1>2. <<p[1], p[2], n>> \in Paths
    BY DEF Places, Paths
  <1> QED BY <1>1, <1>2, FilesStay DEF Holds

LEMMA KeptStep ==
  ASSUME TypeOK, Alone, Dropped, Written, InPlace, Kept, [Next]_vars, ~raced'
  PROVE  Kept'
  <1>1. CASE \E x \in Handlers : Unlink(x)
    BY <1>1, UnlinkAlone DEF Kept, Actors
  <1> SUFFICES ASSUME ~ \E x \in Handlers : Unlink(x) PROVE Kept'
    BY <1>1
  <1>2. \A p \in Places : p \in placed /\ Holds(file, p) => p \in placed' /\ Holds(file', p)
    <2>1. placed \subseteq placed'
      BY StepIs, UploadFacts, UploadStepFacts, DeleteFacts, DeleteStepFacts, ScanFacts,
         ScanStepFacts, CrashFacts DEF vars, history
    <2> QED BY <2>1, HoldsStays
  <1>3. /\ \A d \in Roots, m \in Dirs : <<d, m>> \in Places
        /\ reps \subseteq Roots /\ Scanner \in Actors
        /\ row # None => row.dir \in Dirs
    BY DEF Places, TypeOK, Actors, Roots
  <1>4. ASSUME reps' \subseteq reps, row' \in {row, None},
               job'[Scanner].pc \in {"scanAsset", "scanReplica"} =>
                 Holds(file', Place(Scanner)')
        PROVE  Kept'
    <2>1. \A d \in reps' : \E m \in Dirs : <<d, m>> \in placed' /\ Holds(file', <<d, m>>)
      BY <1>2, <1>3, <1>4 DEF Kept
    <2>2. row' # None =>
            \E d \in Roots : <<d, row'.dir>> \in placed' /\ Holds(file', <<d, row'.dir>>)
      BY <1>2, <1>3, <1>4 DEF Kept
    <2> QED BY <2>1, <2>2, <1>4 DEF Kept
  <1>5. ASSUME job'[Scanner] = job[Scanner]
        PROVE  job'[Scanner].pc \in {"scanAsset", "scanReplica"} =>
                 Holds(file', Place(Scanner)')
    <2> SUFFICES ASSUME job[Scanner].pc \in {"scanAsset", "scanReplica"}
                 PROVE  Holds(file', Place(Scanner)')
      BY <1>5
    <2>1. Holds(file, Place(Scanner)) /\ Place(Scanner) \in Places
      BY <1>3, PlaceFacts DEF Kept, Scanning
    <2>2. Place(Scanner)' = Place(Scanner)
      BY <1>5 DEF Place
    <2>3. \A p \in Places : Holds(file, p) => Holds(file', p)
      BY HoldsStays
    <2> QED BY <2>1, <2>2, <2>3 DEF Holds
  <1>6. CASE \E x \in Handlers, r \in Requests : Upload(x, r)
    <2>1. PICK x \in Handlers, r \in Requests : Upload(x, r)
      BY <1>6
    <2> QED BY <2>1, <1>3, <1>4, <1>5, UploadFacts, ScannerAssumption DEF data
  <1>7. CASE \E x \in Handlers : UploadStep(x)
    <2>1. PICK x \in Handlers : UploadStep(x)
      BY <1>7
    <2>2. /\ x \in Actors /\ GoesOn(x, Uploading) /\ placed' = placed
          /\ job'[Scanner] = job[Scanner]
          /\ job[x].dir \in Dirs /\ job[x].name \in Names /\ job[x].disk \in Roots
      BY <2>1, <1>3, UploadStepFacts, JobFacts, ScannerAssumption
      DEF Actors, GoesOn, Filled, Job
    <2>3. ASSUME job[x].pc \in Uploading \ {"open"}, file' = file
          PROVE  Place(x) \in placed' /\ Holds(file', <<job[x].disk, job[x].dir>>)
      <3>1. file'[<<job[x].disk, job[x].dir, job[x].name>>] # "none"
        BY <2>3 DEF Written, Path
      <3>2. Holds(file', <<job[x].disk, job[x].dir>>)
        BY <3>1, <2>2 DEF Holds
      <3> QED BY <3>2, <2>2, <2>3 DEF InPlace
    <2>5. CASE RecordAsset(x)
      <3>1. row' # None /\ row'.dir = job[x].dir /\ reps' = reps
        BY <2>2, <2>5, SaveAssetFacts DEF RecordAsset
      <3>2. <<job[x].disk, row'.dir>> \in placed' /\ Holds(file', <<job[x].disk, row'.dir>>)
        BY <2>3, <2>5, <3>1 DEF RecordAsset, Uploading, Place, Holds
      <3>3. \A d \in reps' : \E m \in Dirs : <<d, m>> \in placed' /\ Holds(file', <<d, m>>)
        BY <1>2, <1>3, <3>1 DEF Kept
      <3>4. job'[Scanner].pc \in {"scanAsset", "scanReplica"} => Holds(file', Place(Scanner)')
        BY <2>2, <1>5
      <3> QED BY <2>2, <3>2, <3>3, <3>4 DEF Kept
    <2>6. CASE RecordReplica(x)
      <3>1. reps' \subseteq reps \union {job[x].disk} /\ row' = row
        BY <2>6 DEF RecordReplica, AddReplica
      <3>2. \A d \in reps' : \E m \in Dirs : <<d, m>> \in placed' /\ Holds(file', <<d, m>>)
        <4>1. \A d \in reps : \E m \in Dirs : <<d, m>> \in placed' /\ Holds(file', <<d, m>>)
          BY <1>2, <1>3 DEF Kept
        <4>2. <<job[x].disk, job[x].dir>> \in placed'
              /\ Holds(file', <<job[x].disk, job[x].dir>>)
          BY <2>3, <2>6 DEF RecordReplica, Uploading, Place
        <4> QED BY <4>1, <4>2, <3>1, <2>2
      <3>3. row' # None =>
              \E d \in Roots : <<d, row'.dir>> \in placed' /\ Holds(file', <<d, row'.dir>>)
        BY <1>2, <1>3, <3>1 DEF Kept
      <3>4. job'[Scanner].pc \in {"scanAsset", "scanReplica"} => Holds(file', Place(Scanner)')
        BY <2>2, <1>5
      <3> QED BY <3>2, <3>3, <3>4 DEF Kept
    <2>7. CASE ~RecordAsset(x) /\ ~RecordReplica(x)
      BY <2>1, <2>2, <2>7, <1>4, <1>5
      DEF UploadStep, Open, Fill, List, RecordKey, UploadFails
    <2> QED BY <2>5, <2>6, <2>7
  <1>8. CASE \E x \in Handlers : Delete(x)
    <2>1. PICK x \in Handlers : Delete(x)
      BY <1>8
    <2> QED BY <2>1, <1>3, <1>4, <1>5, DeleteFacts, ScannerAssumption DEF data
  <1>9. CASE \E x \in Handlers : DeleteStep(x)
    <2>1. PICK x \in Handlers : DeleteStep(x)
      BY <1>9
    <2>2. job'[Scanner] = job[Scanner]
      BY <2>1, <1>3, DeleteStepFacts, ScannerAssumption DEF GoesOn
    <2>3. reps' \subseteq reps /\ row' \in {row, None}
      BY <2>1
      DEF DeleteStep, Find, DropAsset, DropReplicas, DropKeys, DropMeta, Unlink, Unlist,
          DeleteFails, data
    <2> QED BY <2>2, <2>3, <1>4, <1>5
  <1>10. CASE \E p \in Places : Scan(p)
    <2>1. PICK p \in Places : Scan(p)
      BY <1>10
    <2> QED BY <2>1, <1>4, ScanFacts DEF data
  <1>11. CASE ScanStep
    <2>1. /\ job[Scanner].disk \in Disks /\ job[Scanner].dir \in Dirs
          /\ job[Scanner].name \in Names /\ job[Scanner].pc \in Scanning
          /\ Place(Scanner) \in placed /\ Place(Scanner) \in Places
          /\ file' = file /\ placed' = placed
      <3>1. job[Scanner].pc \in Scanning /\ file' = file /\ placed' = placed
        BY <1>11, ScanStepFacts DEF GoesOn, history
      <3>2. /\ job[Scanner].disk \in Disks /\ job[Scanner].dir \in Dirs
            /\ job[Scanner].name \in Names
        BY <3>1, <1>3, JobFacts DEF Filled, Job
      <3> QED BY <1>3, <3>1, <3>2, PlaceFacts DEF InPlace
    <2>2. job'[Scanner].pc # "idle" => Place(Scanner)' = Place(Scanner)
      BY <1>11, ScanStepFacts DEF GoesOn, Place
    <2>3. job'[Scanner].pc \in {"scanAsset", "scanReplica"} => Holds(file', Place(Scanner)')
      <3>1. CASE ScanLooks
        <4>1. job'[Scanner].pc # "idle" => HasFile(Place(Scanner))
          BY <1>3, <3>1, StopFacts DEF ScanLooks
        <4> QED BY <4>1, <2>1, <2>2 DEF HasFile, Present, Holds
      <3>2. CASE ScanAsset
        BY <3>2, <2>1, <2>2 DEF ScanAsset, Kept, Holds
      <3>3. CASE ScanReplica
        BY <3>3, <1>3, StopFacts DEF ScanReplica
      <3> QED BY <1>11, <3>1, <3>2, <3>3 DEF ScanStep
    <2>4. CASE ScanLooks
      BY <2>4, <2>3, <1>4 DEF ScanLooks, data
    <2>5. CASE ScanAsset
      <3>1. row' # None /\ row'.dir = job[Scanner].dir /\ reps' = reps
        BY <2>1, <2>5, SaveAssetFacts DEF ScanAsset
      <3>2. /\ <<job[Scanner].disk, row'.dir>> \in placed'
            /\ Holds(file', <<job[Scanner].disk, row'.dir>>)
        BY <2>1, <2>5, <3>1 DEF ScanAsset, Kept, Place, Holds
      <3>3. \A d \in reps' : \E m \in Dirs : <<d, m>> \in placed' /\ Holds(file', <<d, m>>)
        BY <1>2, <1>3, <3>1 DEF Kept
      <3> QED BY <2>1, <2>3, <3>2, <3>3 DEF Kept, Roots
    <2>6. CASE ScanReplica
      <3>1. reps' = reps \union {job[Scanner].disk} /\ row' = row
        BY <2>6 DEF ScanReplica, AddReplica
      <3>2. \A d \in reps' : \E m \in Dirs : <<d, m>> \in placed' /\ Holds(file', <<d, m>>)
        <4>1. \A d \in reps : \E m \in Dirs : <<d, m>> \in placed' /\ Holds(file', <<d, m>>)
          BY <1>2, <1>3 DEF Kept
        <4>2. <<job[Scanner].disk, job[Scanner].dir>> \in placed'
              /\ Holds(file', <<job[Scanner].disk, job[Scanner].dir>>)
          BY <2>1, <2>6 DEF ScanReplica, Kept, Place, Holds
        <4> QED BY <4>1, <4>2, <3>1, <2>1
      <3>3. row' # None =>
              \E d \in Roots : <<d, row'.dir>> \in placed' /\ Holds(file', <<d, row'.dir>>)
        BY <1>2, <1>3, <3>1 DEF Kept
      <3> QED BY <2>3, <3>2, <3>3 DEF Kept
    <2> QED BY <1>11, <2>4, <2>5, <2>6 DEF ScanStep
  <1>12. CASE Crash
    BY <1>12, <1>3, <1>4, CrashFacts
  <1>13. CASE UNCHANGED vars
    BY <1>13, <1>4, <1>5 DEF vars
  <1> QED BY StepIs, <1>6, <1>7, <1>8, <1>9, <1>10, <1>11, <1>12, <1>13

----------------------------------------------------------------------------
\* Nothing is left of what was at one place and was deleted.

Single(S) == Cardinality(S) <= 1

LEMMA SingleIs ==
  ASSUME NEW S, IsFiniteSet(S), Single(S), NEW a \in S, NEW b \in S
  PROVE  a = b
  <1>1. Cardinality(S \ {a}) = Cardinality(S) - 1 /\ IsFiniteSet(S \ {a})
    BY FS_RemoveElement
  <1>2. Cardinality(S \ {a}) = 0
    BY <1>1, FS_CardinalityType DEF Single
  <1> QED BY <1>1, <1>2, FS_EmptySet

NothingLeft ==
  /\ row = None /\ reps = {} /\ dev = {}
  /\ \A p \in Places : entry[p] = None
  /\ \A x \in Actors : job[x].pc = "idle"

GoneIsGone == gone /\ Single(placed) => NothingLeft

LEMMA GoneStep ==
  ASSUME TypeOK, Alone, Dropped, InPlace, GoneIsGone, [Next]_vars, ~raced'
  PROVE  GoneIsGone'
  <1> SUFFICES ASSUME gone', Single(placed') PROVE NothingLeft'
    BY DEF GoneIsGone
  <1>1. CASE \E x \in Handlers : Unlist(x)
    <2>1. PICK x \in Handlers : Unlist(x)
      BY <1>1
    <2>2. /\ x \in Actors /\ job[x].pc = "unlist" /\ job'[x].pc = "idle"
          /\ row = None /\ reps = {} /\ dev = {}
          /\ UNCHANGED <<row, reps, dev, placed>>
      BY <2>1, StopFacts DEF Actors, Unlist, Dropped, Deleting
    <2>3. \A y \in Actors : job'[y].pc = "idle"
      BY <2>1, <2>2, StopFacts DEF Alone, Unlist, Deleting
    <2>4. Place(x) \in placed
      BY <2>1 DEF Unlist
    <2>5. \A p \in Places \ {Place(x)} : entry[p] = None
      BY <2>2, <2>4, SingleIs DEF InPlace
    <2>6. \A p \in Places : entry'[p] = None
      BY <2>1, <2>5 DEF Unlist, RemoveEntry, TypeOK
    <2> QED BY <2>2, <2>3, <2>6 DEF NothingLeft
  <1>2. CASE ~ \E x \in Handlers : Unlist(x)
    <2>1. CASE \E x \in Handlers, r \in Requests : Upload(x, r)
      BY <2>1, UploadFacts
    <2>2. (gone /\ placed' = placed) \/ \E x \in Handlers, r \in Requests : Upload(x, r)
      <3>1. CASE \E x \in Handlers : DeleteStep(x)
        BY <3>1, <1>2
        DEF DeleteStep, Find, DropAsset, DropReplicas, DropKeys, DropMeta, Unlink,
            DeleteFails, history
      <3> QED BY <3>1, StepIs, UploadStepFacts, DeleteFacts, ScanFacts, ScanStepFacts,
                 CrashFacts DEF vars, history
    <2>3. CASE gone /\ placed' = placed
      <3>1. NothingLeft
        BY <2>3 DEF GoneIsGone
      <3>2. /\ ~ \E x \in Handlers : UploadStep(x) \/ Delete(x) \/ DeleteStep(x)
            /\ ~ ScanStep /\ ~ Crash /\ ~ \E p \in Places : Scan(p)
        BY <3>1, UploadStepFacts, DeleteFacts, DeleteStepFacts, ScanFacts, ScanStepFacts,
           CrashFacts
        DEF NothingLeft, GoesOn, Actors, Uploading, Deleting, Scanning
      <3>3. UNCHANGED vars
        BY <2>1, <3>2, StepIs, UploadFacts
      <3> QED BY <3>1, <3>3 DEF NothingLeft, vars
    <2> QED BY <2>2, <2>1, <2>3, UploadFacts
  <1> QED BY <1>1, <1>2

----------------------------------------------------------------------------
\* The properties.

\* Without a deletion that overlaps with an upload or a scan.
Safe == Alone /\ Dropped /\ Written /\ Known /\ Kept /\ GoneIsGone

IInv == TypeOK /\ InPlace /\ (~raced => Safe)

LEMMA InitSafe == Init => IInv
  <1> SUFFICES ASSUME Init PROVE IInv
    OBVIOUS
  <1>1. \A x \in Actors : job[x].pc = "idle"
    BY IdleFilled DEF Init
  <1>2. Scanner \in Actors /\ Handlers \subseteq Actors
    BY DEF Actors
  <1>3. InPlace
    BY <1>1, FS_EmptySet DEF Init, InPlace, Uploading, Scanning
  <1>4. Safe
    BY <1>1, <1>2
    DEF Init, Safe, Alone, Dropped, Written, Known, Kept, GoneIsGone, Uploading, Deleting
  <1> QED BY <1>3, <1>4, InitTyped DEF IInv

LEMMA StepSafe == IInv /\ [Next]_vars => IInv'
  <1> SUFFICES ASSUME IInv, [Next]_vars PROVE IInv'
    OBVIOUS
  <1>1. TypeOK' /\ InPlace'
    BY TypeStep, InPlaceStep DEF IInv
  <1>2. ASSUME ~raced' PROVE Safe'
    <2>1. Safe
      BY <1>2, RacedStays DEF IInv
    <2> QED BY <1>2, <2>1, AloneStep, DroppedStep, WrittenStep, KnownStep, KeptStep,
               GoneStep DEF Safe, IInv
  <1> QED BY <1>1, <1>2 DEF IInv

LEMMA Invariance == Spec => []IInv
  BY InitSafe, StepSafe, PTL DEF Spec

\* The file of an upload that was answered stays whole until the asset is deleted,
\* but for another upload that empties it and is cut off (os.WriteFile).
THEOREM AnsweredUploadsKept == Spec => []BackedUp
  <1>1. IInv => BackedUp
    BY DEF IInv, Safe, Written, Good, BackedUp
  <1> QED BY <1>1, Invariance, PTL

\* What the bulk check answers of a device's key is true: the asset has a row.
THEOREM AnswersTrue == Spec => []CheckTruthful
  <1>1. IInv => CheckTruthful
    BY DEF IInv, Safe, Known, CheckTruthful, LookupDeviceAssets, Listed
  <1> QED BY <1>1, Invariance, PTL

\* Whatever replica a download is served from has the file, and so has BLOB_ROOT
\* when none is recorded.
THEOREM ListedServed == Spec => []ListedCanBeServed
  <1>1. IInv => ListedCanBeServed
    <2> DEFINE months == {p[2] : p \in placed}
    <2> SUFFICES ASSUME IInv, row # None, ~raced, Single(months),
                        reps = {} => placed \subseteq {Root} \X Dirs,
                        NEW d \in LooksIn
                 PROVE  Holds(file, <<d, row.dir>>)
      BY DEF ListedCanBeServed, Listed, Serves, Present, Holds, Single
    <2>1. IsFiniteSet(months)
      <3> DEFINE f == [p \in placed |-> p[2]]
      <3>1. f \in Surjection(placed, months)
        BY DEF Surjection
      <3> QED BY <3>1, FS_Surjection DEF IInv, InPlace
    <2>2. Kept /\ row.dir \in months
      <3>1. PICK e \in Roots : <<e, row.dir>> \in placed
        BY DEF IInv, Safe, Kept
      <3> QED BY <3>1 DEF IInv, Safe
    <2>3. CASE reps = {}
      <3>1. PICK e \in Roots : <<e, row.dir>> \in placed /\ Holds(file, <<e, row.dir>>)
        BY <2>2 DEF Kept
      <3> QED BY <2>3, <3>1 DEF LooksIn
    <2>4. CASE reps # {}
      <3>1. PICK m \in Dirs : <<d, m>> \in placed /\ Holds(file, <<d, m>>)
        BY <2>2, <2>4 DEF Kept, LooksIn
      <3>2. m \in months
        BY <3>1
      <3> QED BY <2>1, <2>2, <3>1, <3>2, SingleIs
    <2> QED BY <2>3, <2>4
  <1> QED BY <1>1, Invariance, PTL

\* What is deleted stays deleted: no scan finds an entry of it.
THEOREM DeletedForGood == Spec => []DeletionSticks
  <1>1. IInv => DeletionSticks
    BY DEF IInv, Safe, GoneIsGone, NothingLeft, DeletionSticks, Single, Listed
  <1> QED BY <1>1, Invariance, PTL
=============================================================================
