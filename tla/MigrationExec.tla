--------------------------- MODULE MigrationExec ---------------------------
(***************************************************************************)
(* The copy of one directory onto a target disk, as migrationexec/         *)
(* executor.go performs it over a BlobStore: Start reads or creates the    *)
(* manifest .migrating.json, Run works through the resume plan of          *)
(* migration.ComputeResume file by file, CopyFile streams a file in chunks *)
(* and writes the manifest after each, and the result is VERIFIED,         *)
(* ROLLBACK or, when AllCopied says no, still IN_PROGRESS.                 *)
(*                                                                         *)
(* One target directory sees a sequence of jobs: every REPLICA and         *)
(* MIGRATION task for that disk and directory runs an Executor of its own  *)
(* over the files and the manifest the earlier ones left.  Durable are     *)
(* `target' and `disk'; `mem', `pc', `todo', `cur' and `written' live in   *)
(* the process and are lost when it dies.                                  *)
(*                                                                         *)
(* A file's content is abstracted to the sequence of source units it is    *)
(* made of: unit i of a good copy is unit i of the source.  An absent file *)
(* and an empty one are the same.  With Remote the source is another       *)
(* node's /api/cluster/blob (remote.go, clusterapi.handleBlob), otherwise  *)
(* a local disk.  With Cleanup the caller ends a job with Finish or        *)
(* Rollback, as executor_test.go does; worker.copyAssets calls neither.    *)
(***************************************************************************)
EXTENDS Integers, Sequences

CONSTANTS Assets,   \* assets of the directory
          NoAsset,  \* stands for "no file is being copied"
          Size,     \* length of each asset, in units
          Jobs,     \* sets of assets a job may be asked to copy
          Chunk,    \* most units one Read returns (bufSize)
          Remote,   \* is the source another node?
          Cleanup,  \* does the caller call Finish and Rollback?
          Max       \* bound on each kind of event

Events == {"job", "crash", "fault", "torn", "vanish", "removal", "refusal"}

ASSUME NoAssetAssumption == NoAsset \notin Assets
ASSUME SizeAssumption == Size \in [Assets -> Nat]
ASSUME JobsAssumption == Jobs \subseteq SUBSET Assets
ASSUME ChunkAssumption == Chunk \in Nat \ {0}
ASSUME ModeAssumption == Remote \in BOOLEAN /\ Cleanup \in BOOLEAN
ASSUME MaxAssumption == Max \in [Events -> Nat]

VARIABLES
  source,      \* assets whose bytes the source still holds
  target,      \* target[a]: the units in the target file of a
  disk,        \* the manifest file on the target disk
  mem,         \* the *migration.Manifest of the running job
  pc,          \* where the running job is
  job,         \* the assets of the latest job
  todo,        \* those whose action in the plan is still to come
  cur,         \* the file being copied
  written,     \* the local of CopyFile: its length so far
  registered,  \* assets the caller vouches for after VERIFIED (AddReplica)
  faulty,      \* history: an injected failure hit the latest job
  used         \* history: events of each kind so far, capped by Max

vars == <<source, target, disk, mem, pc, job, todo, cur, written,
          registered, faulty, used>>

----------------------------------------------------------------------------
\* The manifest.

States == {"PLANNED", "IN_PROGRESS", "VERIFIED", "ROLLBACK"}

Absent == -1  \* an asset without an entry in Partial

Manifests == [found : BOOLEAN,
              completed : SUBSET Assets,
              partial : [Assets -> Nat \union {Absent}],
              state : States]

\* ReadManifest found no file, or one it could not parse.
NoManifest == [found |-> FALSE, completed |-> {},
               partial |-> [a \in Assets |-> Absent], state |-> "PLANNED"]

NewManifest == [found |-> TRUE, completed |-> {},
                partial |-> [a \in Assets |-> Absent], state |-> "IN_PROGRESS"]

\* Start adopts the manifest it can read, whoever wrote it and for whichever
\* assets, and makes a new one otherwise.
AlwaysNew(m) == NewManifest  \* mutant: the file is never looked at
Adopt(m) == IF m.found THEN [m EXCEPT !.state = "IN_PROGRESS"] ELSE NewManifest

StartOfChunk(m, a, n) == [m EXCEPT !.partial[a] = n - Chunk]  \* mutant
SetPartial(m, a, n) == [m EXCEPT !.partial[a] = n]

MarkCompleted(m, a) == [m EXCEPT !.completed = @ \union {a},
                                 !.partial[a] = Absent]

\* ComputeResume's three modes for one source file.
ModeSkip(m, a) == a \in m.completed
ModeRange(m, a) == a \notin m.completed /\ m.partial[a] > 0
WholeEvenIfPartial(m, a) == a \notin m.completed  \* mutant: progress ignored
ModeWhole(m, a) == a \notin m.completed /\ m.partial[a] <= 0

\* The completed set is the source list: a completed file of an earlier job
\* with other assets makes it differ.
AllCopied(m, S) == m.completed = S

\* RollbackTargets without the manifest itself: the files a rollback deletes.
RollbackTargets(m) == m.completed \union {a \in Assets : m.partial[a] # Absent}

----------------------------------------------------------------------------
\* The source.

Complete(a) == Len(target[a]) = Size[a]

\* parseByteRange on "bytes=start-": a range that starts at the end is
\* refused, and handleBlob answers 416.
TailTooShort(a, start) == start + 1 < Size[a]  \* mutant: off by one
SatisfiableRange(a, start) == start < Size[a]

\* A remote source is statted with "bytes=0-0" and must answer 206.
StatSource(a) == a \in source /\ (Remote => SatisfiableRange(a, 0))

\* Opened with "bytes=offset-"; any status but 200 and 206 is an error.
OpensSource(a, offset) == a \in source /\ (Remote => SatisfiableRange(a, offset))

\* OpenTargetAppend returns the length the file has, not the one recorded.
RecordedOffset(a) == mem.partial[a]  \* mutant: trusts the manifest
ResumeOffset(a) == Len(target[a])

\* The source units first + 1 .. first + n.
Units(first, n) == [i \in 1..n |-> first + i]

----------------------------------------------------------------------------

Saving == {"start", "save", "mark", "abort", "verified"}
Copying == {"source", "read", "save"}
Ended == {"failed", "done"}
Pcs == {"idle", "next", "purge"} \union Saving \union Copying \union Ended

TypeOK ==
  /\ source \subseteq Assets
  /\ target \in [Assets -> Seq(Nat)]
  /\ disk \in Manifests
  /\ mem \in Manifests
  /\ pc \in Pcs
  /\ job \subseteq Assets
  /\ todo \subseteq job
  /\ cur \in Assets \union {NoAsset}
  /\ pc \in Copying \union {"mark"} => cur \in Assets
  /\ written \in Nat
  /\ registered \subseteq Assets
  /\ faulty \in BOOLEAN
  /\ used \in [Events -> Nat]

Init ==
  /\ source = Assets
  /\ target = [a \in Assets |-> <<>>]
  /\ disk = NoManifest
  /\ mem = NoManifest
  /\ pc = "idle"
  /\ job = {}
  /\ todo = {}
  /\ cur = NoAsset
  /\ written = 0
  /\ registered = {}
  /\ faulty = FALSE
  /\ used = [e \in Events |-> 0]

Spend(e) == used[e] < Max[e] /\ used' = [used EXCEPT ![e] = @ + 1]

\* The error path of Run: the state becomes ROLLBACK, to be saved.
Abort ==
  /\ mem' = [mem EXCEPT !.state = "ROLLBACK"]
  /\ pc' = "abort"
  /\ todo' = {}
  /\ cur' = NoAsset
  /\ written' = 0

\* The process memory is gone: the job returned, or the process died.
Forget ==
  /\ mem' = NoManifest
  /\ pc' = "idle"
  /\ todo' = {}
  /\ cur' = NoAsset
  /\ written' = 0

----------------------------------------------------------------------------
\* Start.

\* Start up to its write of the manifest.
Begin(S) ==
  /\ pc = "idle"
  /\ Spend("job")
  /\ mem' = Adopt(disk)
  /\ pc' = "start"
  /\ job' = S
  /\ todo' = S
  /\ faulty' = FALSE
  /\ UNCHANGED <<source, target, disk, cur, written, registered>>

AfterSave ==
  CASE pc = "save" -> "read"
    [] pc = "abort" -> "failed"
    [] pc = "verified" -> "done"
    [] OTHER -> "next"

WriteManifest ==
  /\ pc \in Saving
  /\ disk' = mem
  /\ pc' = AfterSave
  /\ UNCHANGED <<source, target, mem, job, todo, cur, written, registered,
                 faulty, used>>

\* The write fails, either before the file is opened or after os.WriteFile
\* truncated it.  Only a Start without a manifest looks at the error.
WriteManifestFails ==
  /\ pc \in Saving
  /\ Spend("torn")
  /\ disk' \in {disk, NoManifest}
  /\ pc' = IF pc = "start" /\ ~disk.found THEN "failed" ELSE AfterSave
  /\ faulty' = TRUE
  /\ UNCHANGED <<source, target, mem, job, todo, cur, written, registered>>

----------------------------------------------------------------------------
\* Run and CopyFile.  The plan is computed once from mem; as only the entry
\* of the file being copied changes after that, reading an asset's mode when
\* its turn comes is the same.

Skip(a) ==
  /\ pc = "next"
  /\ a \in todo
  /\ ModeSkip(mem, a)
  /\ todo' = todo \ {a}
  /\ UNCHANGED <<source, target, disk, mem, pc, job, cur, written, registered,
                 faulty, used>>

SourceMissing(a) ==
  /\ pc = "next"
  /\ a \in todo
  /\ ~ModeSkip(mem, a)
  /\ ~StatSource(a)
  /\ Abort
  /\ UNCHANGED <<source, target, disk, job, registered, faulty, used>>

\* OpenTargetAppend: keep what the file holds.
OpenAppend(a) ==
  /\ pc = "next"
  /\ a \in todo
  /\ ModeRange(mem, a)
  /\ StatSource(a)
  /\ written' = ResumeOffset(a)
  /\ pc' = "source"
  /\ cur' = a
  /\ todo' = todo \ {a}
  /\ UNCHANGED <<source, target, disk, mem, job, registered, faulty, used>>

\* CreateTarget: truncate it.  The new entry of Partial is not saved yet.
CreateTarget(a) ==
  /\ pc = "next"
  /\ a \in todo
  /\ ModeWhole(mem, a)
  /\ StatSource(a)
  /\ target' = [target EXCEPT ![a] = <<>>]
  /\ mem' = SetPartial(mem, a, 0)
  /\ written' = 0
  /\ pc' = "source"
  /\ cur' = a
  /\ todo' = todo \ {a}
  /\ UNCHANGED <<source, disk, job, registered, faulty, used>>

OpenSource ==
  /\ pc = "source"
  /\ OpensSource(cur, written)
  /\ pc' = "read"
  /\ UNCHANGED <<source, target, disk, mem, job, todo, cur, written,
                 registered, faulty, used>>

OpenSourceRefused ==
  /\ pc = "source"
  /\ ~OpensSource(cur, written)
  /\ Abort
  /\ UNCHANGED <<source, target, disk, job, registered, faulty, used>>

\* One turn of the loop up to the write of the manifest.
CopyChunk ==
  /\ pc = "read"
  /\ \E n \in 1..Chunk :
       /\ written + n <= Size[cur]
       /\ target' = [target EXCEPT ![cur] = @ \o Units(written, n)]
       /\ written' = written + n
       /\ mem' = SetPartial(mem, cur, written + n)
  /\ pc' = "save"
  /\ UNCHANGED <<source, disk, job, todo, cur, registered, faulty, used>>

PastEnd == written > Size[cur]  \* mutant: off by one
AtEnd == written >= Size[cur]

\* EOF and dst.Close(): the file must be as long as StatSource said, else
\* "size mismatch".
EndOfFile ==
  /\ pc = "read"
  /\ AtEnd
  /\ IF written = Size[cur]
     THEN /\ mem' = MarkCompleted(mem, cur)
          /\ pc' = "mark"
          /\ UNCHANGED <<todo, cur, written>>
     ELSE Abort
  /\ UNCHANGED <<source, target, disk, job, registered, faulty, used>>

\* An I/O error or an unreachable source node: opening, reading, writing or
\* closing fails, a failed write having put some units in the file.
IOError ==
  /\ \/ pc = "next" /\ \E a \in todo : ~ModeSkip(mem, a)
     \/ pc \in {"source", "read"}
  /\ Spend("fault")
  /\ \/ UNCHANGED target
     \/ /\ pc = "read"
        /\ \E n \in 1..(Chunk - 1) :
             /\ written + n <= Size[cur]
             /\ target' = [target EXCEPT ![cur] = @ \o Units(written, n)]
  /\ Abort
  /\ faulty' = TRUE
  /\ UNCHANGED <<source, disk, job, registered>>

\* The end of Run: VERIFIED is set, and saved, only if AllCopied.
Conclude ==
  /\ pc = "next"
  /\ todo = {}
  /\ IF AllCopied(mem, job)
     THEN mem' = [mem EXCEPT !.state = "VERIFIED"] /\ pc' = "verified"
     ELSE pc' = "done" /\ UNCHANGED mem
  /\ cur' = NoAsset
  /\ written' = 0
  /\ UNCHANGED <<source, target, disk, job, todo, registered, faulty, used>>

----------------------------------------------------------------------------
\* What the caller does with the result.

\* copyAssets accepts VERIFIED and nothing else, and leaves the rest as it
\* is; the task then registers the replicas.
Return ==
  /\ pc \in Ended
  /\ ~Cleanup \/ (pc = "done" /\ mem.state # "VERIFIED")
  /\ registered' = IF pc = "done" /\ mem.state = "VERIFIED"
                   THEN registered \union job ELSE registered
  /\ Forget
  /\ UNCHANGED <<source, target, disk, job, faulty, used>>

\* Finish, with enough effective replicas: partial files go, then the manifest.
Finish ==
  /\ pc = "done"
  /\ mem.state = "VERIFIED"
  /\ Cleanup
  /\ target' = [a \in Assets |-> IF mem.partial[a] # Absent THEN <<>>
                                                            ELSE target[a]]
  /\ registered' = registered \union job
  /\ pc' = "purge"
  /\ UNCHANGED <<source, disk, mem, job, todo, cur, written, faulty, used>>

\* Finish with too few: CanDeleteSource says no and nothing changes.
FinishRefused ==
  /\ pc = "done"
  /\ mem.state = "VERIFIED"
  /\ Cleanup
  /\ Spend("refusal")
  /\ Forget
  /\ UNCHANGED <<source, target, disk, job, registered, faulty>>

\* Rollback removes every file the manifest names, then the manifest.
Rollback ==
  /\ pc = "failed"
  /\ Cleanup
  /\ target' = [a \in Assets |-> IF a \in RollbackTargets(mem) THEN <<>>
                                                               ELSE target[a]]
  /\ pc' = "purge"
  /\ UNCHANGED <<source, disk, mem, job, todo, cur, written, registered,
                 faulty, used>>

KeepManifest ==  \* mutant: the files go, the manifest stays
  /\ pc = "purge"
  /\ Forget
  /\ UNCHANGED <<source, target, disk, job, registered, faulty, used>>

RemoveManifest ==
  /\ pc = "purge"
  /\ disk' = NoManifest
  /\ Forget
  /\ UNCHANGED <<source, target, job, registered, faulty, used>>

----------------------------------------------------------------------------
\* The environment.

Crash ==
  /\ pc # "idle"
  /\ Spend("crash")
  /\ Forget
  /\ UNCHANGED <<source, target, disk, job, registered, faulty>>

\* The asset is deleted at the source (clusterapi.deleteAsset).
Vanish(a) ==
  /\ a \in source
  /\ Spend("vanish")
  /\ source' = source \ {a}
  /\ UNCHANGED <<target, disk, mem, pc, job, todo, cur, written, registered,
                 faulty>>

\* A registered replica is removed from the target disk: the asset is
\* deleted, or the directory moves on and releaseSource empties this disk.
\* The manifest is left alone.  Not while the file is being written.
RemoveReplica(a) ==
  /\ a \in registered
  /\ a # cur
  /\ Spend("removal")
  /\ target' = [target EXCEPT ![a] = <<>>]
  /\ registered' = registered \ {a}
  /\ UNCHANGED <<source, disk, mem, pc, job, todo, cur, written, faulty>>

----------------------------------------------------------------------------

ForFile(a) == Skip(a) \/ SourceMissing(a) \/ OpenAppend(a) \/ CreateTarget(a)

\* What the process does when nothing fails.
Step ==
  \/ WriteManifest
  \/ \E a \in Assets : ForFile(a)
  \/ OpenSource
  \/ OpenSourceRefused
  \/ CopyChunk
  \/ EndOfFile
  \/ Conclude
  \/ Return
  \/ Finish
  \/ Rollback
  \/ RemoveManifest

Environment ==
  \/ \E S \in Jobs : Begin(S)
  \/ WriteManifestFails
  \/ IOError
  \/ FinishRefused
  \/ Crash
  \/ \E a \in Assets : Vanish(a) \/ RemoveReplica(a)

Next == Step \/ Environment

Spec == Init /\ [][Next]_vars

\* The goroutine runs: nothing in a job waits for anything but I/O.
FairSpec == Spec /\ WF_vars(Step)

----------------------------------------------------------------------------
\* Properties.

\* However often a copy is cut off and resumed, a target file is a prefix of
\* its source: appending never leaves a gap, a repetition or a surplus
\* (CopyFile's offset is the file's real length, in both opens).
TargetIsPrefix ==
  \A a \in Assets :
    /\ Len(target[a]) <= Size[a]
    /\ \A i \in 1..Len(target[a]) : target[a][i] = i

\* Run answers VERIFIED only if every file of this job is entirely at the
\* target, whatever manifest an earlier job left.
VerifiedComplete ==
  pc = "done" /\ mem.state = "VERIFIED" => \A a \in job : Complete(a)

\* The manifest never records more progress than the file has, nor lists as
\* completed a file that is not (it is written after the data).
ManifestNotAhead ==
  \A a \in Assets :
    /\ disk.partial[a] <= Len(target[a])
    /\ a \in disk.completed => Complete(a)

\* The inductive strengthenings of the three invariants above, for the proofs.
\* While a file is being copied, CopyFile's count is the length it has.
PrefixInv ==
  /\ TargetIsPrefix
  /\ pc \in Copying => written = Len(target[cur])

\* Whatever memory or disk lists as completed is complete and is not the file
\* being copied; the disk lags behind the memory of the running job; VERIFIED
\* is only ever set over a completed list that covers the job.
ManifestInv ==
  /\ \A a \in mem.completed : Complete(a)
  /\ \A a \in disk.completed : Complete(a)
  /\ \A a \in Assets : mem.partial[a] <= Len(target[a])
  /\ \A a \in Assets : disk.partial[a] <= Len(target[a])
  /\ ~disk.found => disk = NoManifest
  /\ pc \in Copying => cur \notin mem.completed
  /\ pc # "idle" =>
       /\ mem.found
       /\ disk.completed \subseteq mem.completed
       /\ \A a \in Assets \ mem.completed :
            disk.partial[a] <= mem.partial[a] \/ disk.partial[a] <= 0
  /\ mem.state = "VERIFIED" =>
       pc \in {"verified", "done"} /\ job \subseteq mem.completed

\* The file being copied is one the job was asked for.
OwnFile == pc \in Copying => cur \in job

\* A job fails only because something failed, an injected I/O error or a source
\* file that is gone; resuming is no reason to fail, unless the source is remote
\* and a file is whole at the target but not yet listed as completed: its
\* resumption asks for an empty range, and so does the size of an empty file.  A
\* file with a tail to fetch is never refused.  (A replica that is removed is
\* whole no more.)
RemoteFailureHasCause ==
  pc = "failed" =>
    faulty \/ ~(job \subseteq source) \/ used["removal"] > 0
           \/ \E a \in job : Complete(a) /\ a \notin disk.completed

\* Strengthening: the cause is there from the moment the job gives up, and the
\* completed list in memory, which never loses an entry, is what the later write
\* of the manifest saves.
CauseInv ==
  /\ ~disk.found => disk = NoManifest
  /\ pc # "idle" => mem.found /\ disk.completed \subseteq mem.completed
  /\ pc \in Copying => cur \notin mem.completed
  /\ pc \in {"abort", "failed"} =>
       faulty \/ ~(job \subseteq source) \/ used["removal"] > 0
              \/ \E a \in job : Complete(a) /\ a \notin mem.completed

\* A Run that returns without an error has verified its files; only the
\* manifest a refused Finish or a dead caller leaves can make a later job of
\* other assets return in between (AllCopied compares for equality).
CleanRunVerifies ==
  pc = "done" =>
    mem.state = "VERIFIED" \/ used["refusal"] > 0 \/ used["crash"] > 0

\* Strengthening: no manifest outlives its job, so the completed list holds files
\* of this job only, and all of those whose turn has come.
CleanInv ==
  used["refusal"] = 0 /\ used["crash"] = 0 =>
    /\ pc = "idle" => disk = NoManifest
    /\ pc # "idle" => mem.completed \subseteq job
    /\ pc \in {"start", "next", "mark"} => job \subseteq todo \union mem.completed
    /\ pc \in Copying => job \subseteq todo \union mem.completed \union {cur}
    /\ pc \in {"verified", "done"} => mem.state = "VERIFIED"

\* A replica the caller registered after VERIFIED stays complete, whatever
\* later jobs, crashes and I/O errors do to the directory, as long as no
\* crash has torn the manifest.
RegisteredComplete == used["torn"] = 0 => \A a \in registered : Complete(a)

\* Strengthening: the manifest lists every registered replica, since the list it
\* was registered from was saved before the caller had its answer, and only a
\* caller that cleans up removes the manifest.
RegisteredInv ==
  /\ pc = "purge" => Cleanup
  /\ used["torn"] = 0 =>
       /\ registered \subseteq disk.completed
       /\ pc = "done" /\ mem.state = "VERIFIED" => mem.completed = disk.completed

\* A file the saved manifest lists as completed is never written again.
CompletedUntouched ==
  [][\A a \in disk.completed : target'[a] = target[a]]_vars

\* A job ends: with an answer, or with the death of the process.
JobEnds == pc # "idle" ~> pc = "idle"

\* The implementation of the abstract copy.
Verdict ==
  CASE pc = "idle" -> "none"
    [] pc = "done" /\ mem.state = "VERIFIED" -> "verified"
    [] pc = "failed" \/ (pc = "done" /\ mem.state # "VERIFIED") -> "failed"
    [] OTHER -> "open"

Copied == {a \in Assets : Complete(a)}

Abstract == INSTANCE DirCopy WITH copied <- Copied, verdict <- Verdict

\* Every step of the executor is a step of DirCopy or changes nothing there.
CopiesDirectory == Abstract!Spec
=============================================================================
