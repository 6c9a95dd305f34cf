------------------------ MODULE MigrationExecProofs ------------------------
(***************************************************************************)
(* What holds of MigrationExec for every set of assets, every size and     *)
(* chunk, local or remote source, and every budget of failures.            *)
(***************************************************************************)
EXTENDS MigrationExec, SequenceTheorems, TLAPS

----------------------------------------------------------------------------
\* Facts about the operators.

\* A run of units is a sequence of numbers.
LEMMA UnitsType ==
  ASSUME NEW first \in Nat, NEW n \in Nat
  PROVE  /\ Units(first, n) \in Seq(Nat)
         /\ Len(Units(first, n)) = n
         /\ \A i \in 1..n : Units(first, n)[i] = first + i
  <1>1. \A i \in 1..n : first + i \in Nat
    OBVIOUS
  <1>2. [i \in 1..n |-> first + i] \in Seq(Nat)
    BY <1>1
  <1>3. Len([i \in 1..n |-> first + i]) = n
    BY <1>1
  <1> QED
    BY <1>2, <1>3 DEF Units

\* Appending the units that follow a prefix of the source makes a longer
\* prefix of it.
LEMMA AppendUnits ==
  ASSUME NEW t \in Seq(Nat), NEW n \in Nat
  PROVE  LET u == t \o Units(Len(t), n)
         IN  /\ u \in Seq(Nat)
             /\ Len(u) = Len(t) + n
             /\ (\A i \in 1..Len(t) : t[i] = i) => \A i \in 1..Len(u) : u[i] = i
  <1> DEFINE v == Units(Len(t), n)
  <1>0. Len(t) \in Nat
    OBVIOUS
  <1>1. /\ v \in Seq(Nat)
        /\ Len(v) = n
        /\ \A i \in 1..n : v[i] = Len(t) + i
    BY <1>0, UnitsType
  <1> HIDE DEF v
  <1>2. /\ t \o v \in Seq(Nat)
        /\ Len(t \o v) = Len(t) + n
        /\ \A i \in 1..(Len(t) + n) :
             (t \o v)[i] = IF i <= Len(t) THEN t[i] ELSE v[i - Len(t)]
    BY <1>1, ConcatProperties
  <1>3. ASSUME \A i \in 1..Len(t) : t[i] = i, NEW i \in 1..Len(t \o v)
        PROVE  (t \o v)[i] = i
    BY <1>0, <1>1, <1>2, <1>3
  <1> QED
    BY <1>2, <1>3 DEF v

\* The operators on manifests make manifests.
LEMMA ManifestType ==
  /\ NoManifest \in Manifests
  /\ NewManifest \in Manifests
  /\ \A m \in Manifests : Adopt(m) \in Manifests
  /\ \A m \in Manifests, a \in Assets, n \in Nat : SetPartial(m, a, n) \in Manifests
  /\ \A m \in Manifests, a \in Assets : MarkCompleted(m, a) \in Manifests
  /\ \A m \in Manifests, s \in States : [m EXCEPT !.state = s] \in Manifests
  <1> USE DEF Manifests, Absent, States
  <1>1. NoManifest \in Manifests /\ NewManifest \in Manifests
    BY DEF NoManifest, NewManifest
  <1>2. \A m \in Manifests : Adopt(m) \in Manifests
    BY <1>1 DEF Adopt
  <1>3. \A m \in Manifests, a \in Assets, n \in Nat :
           SetPartial(m, a, n) \in Manifests
    BY DEF SetPartial
  <1>4. \A m \in Manifests, a \in Assets : MarkCompleted(m, a) \in Manifests
    BY DEF MarkCompleted
  <1> QED
    BY <1>1, <1>2, <1>3, <1>4
----------------------------------------------------------------------------
\* Type correctness.

LEMMA SpendType ==
  ASSUME used \in [Events -> Nat], NEW e \in Events, Spend(e)
  PROVE  used' \in [Events -> Nat]
  BY DEF Spend

\* The error path and the end of a job keep the types of what they set.
LEMMA AbortType ==
  ASSUME mem \in Manifests, Abort
  PROVE  /\ mem' \in Manifests
         /\ pc' = "abort"
         /\ todo' = {}
         /\ cur' = NoAsset
         /\ written' = 0
  BY ManifestType DEF Abort, States

LEMMA ForgetType ==
  ASSUME Forget
  PROVE  /\ mem' \in Manifests
         /\ pc' = "idle"
         /\ todo' = {}
         /\ cur' = NoAsset
         /\ written' = 0
  BY ManifestType DEF Forget

\* Every step keeps every variable in its type.
LEMMA TypeStep == TypeOK /\ [Next]_vars => TypeOK'
  <1> SUFFICES ASSUME TypeOK, [Next]_vars
               PROVE  TypeOK'
    OBVIOUS
  <1> USE DEF TypeOK, Pcs, Saving, Copying, Ended
  <1>1. ASSUME NEW S \in Jobs, Begin(S)
        PROVE  TypeOK'
    <2>1. mem' \in Manifests
      BY <1>1, ManifestType DEF Begin
    <2>2. used' \in [Events -> Nat]
      BY <1>1, SpendType DEF Begin, Events
    <2>3. job' \subseteq Assets
      BY <1>1, JobsAssumption DEF Begin
    <2> QED
      BY <1>1, <2>1, <2>2, <2>3 DEF Begin
  <1>2. ASSUME WriteManifest
        PROVE  TypeOK'
    BY <1>2 DEF WriteManifest, AfterSave
  <1>3. ASSUME WriteManifestFails
        PROVE  TypeOK'
    <2>1. disk' \in Manifests
      BY <1>3, ManifestType DEF WriteManifestFails
    <2>2. used' \in [Events -> Nat]
      BY <1>3, SpendType DEF WriteManifestFails, Events
    <2> QED
      BY <1>3, <2>1, <2>2 DEF WriteManifestFails, AfterSave
  <1>4. ASSUME NEW a \in Assets, Skip(a)
        PROVE  TypeOK'
    BY <1>4 DEF Skip
  <1>5. ASSUME NEW a \in Assets, SourceMissing(a)
        PROVE  TypeOK'
    BY <1>5, AbortType DEF SourceMissing
  <1>6. ASSUME NEW a \in Assets, OpenAppend(a)
        PROVE  TypeOK'
    <2>1. Len(target[a]) \in Nat
      BY <1>6
    <2> QED
      BY <1>6, <2>1 DEF OpenAppend, ResumeOffset
  <1>7. ASSUME NEW a \in Assets, CreateTarget(a)
        PROVE  TypeOK'
    <2>1. mem' \in Manifests
      BY <1>7, ManifestType DEF CreateTarget
    <2>2. target' \in [Assets -> Seq(Nat)]
      BY <1>7 DEF CreateTarget
    <2> QED
      BY <1>7, <2>1, <2>2 DEF CreateTarget
  <1>8. ASSUME OpenSource
        PROVE  TypeOK'
    BY <1>8 DEF OpenSource
  <1>9. ASSUME OpenSourceRefused
        PROVE  TypeOK'
    BY <1>9, AbortType DEF OpenSourceRefused
  <1>10. ASSUME CopyChunk
         PROVE  TypeOK'
    <2>1. PICK n \in 1..Chunk :
            /\ target' = [target EXCEPT ![cur] = @ \o Units(written, n)]
            /\ written' = written + n
            /\ mem' = SetPartial(mem, cur, written + n)
      BY <1>10 DEF CopyChunk
    <2>2. cur \in Assets /\ n \in Nat /\ written' \in Nat
      BY <1>10, <2>1, ChunkAssumption DEF CopyChunk
    <2>3. mem' \in Manifests
      BY <2>1, <2>2, ManifestType
    <2>4. target[cur] \o Units(written, n) \in Seq(Nat)
      BY <2>2, UnitsType, ConcatProperties
    <2>5. target' \in [Assets -> Seq(Nat)]
      BY <2>1, <2>4
    <2> QED
      BY <1>10, <2>2, <2>3, <2>5 DEF CopyChunk
  <1>11. ASSUME EndOfFile
         PROVE  TypeOK'
    <2>1. cur \in Assets
      BY <1>11 DEF EndOfFile
    <2>2. CASE written = Size[cur]
      BY <1>11, <2>1, <2>2, ManifestType DEF EndOfFile
    <2>3. CASE written # Size[cur]
      BY <1>11, <2>3, AbortType DEF EndOfFile
    <2> QED
      BY <2>2, <2>3
  <1>12. ASSUME IOError
         PROVE  TypeOK'
    <2>1. used' \in [Events -> Nat]
      BY <1>12, SpendType DEF IOError, Events
    <2>2. target' \in [Assets -> Seq(Nat)]
      <3>1. CASE UNCHANGED target
        BY <3>1
      <3>2. CASE /\ pc = "read"
                 /\ \E n \in 1..(Chunk - 1) :
                      target' = [target EXCEPT ![cur] = @ \o Units(written, n)]
        <4>1. PICK n \in 1..(Chunk - 1) :
                target' = [target EXCEPT ![cur] = @ \o Units(written, n)]
          BY <3>2
        <4>2. n \in Nat /\ cur \in Assets
          BY <3>2, <4>1, ChunkAssumption
        <4>3. target[cur] \o Units(written, n) \in Seq(Nat)
          BY <4>2, UnitsType, ConcatProperties
        <4> QED
          BY <4>1, <4>3
      <3> QED
        BY <1>12, <3>1, <3>2 DEF IOError
    <2> QED
      BY <1>12, <2>1, <2>2, AbortType DEF IOError
  <1>13. ASSUME Conclude
         PROVE  TypeOK'
    BY <1>13, ManifestType DEF Conclude, States
  <1>14. ASSUME Return
         PROVE  TypeOK'
    BY <1>14, ForgetType DEF Return
  <1>15. ASSUME Finish
         PROVE  TypeOK'
    <2>1. target' \in [Assets -> Seq(Nat)]
      BY <1>15 DEF Finish
    <2> QED
      BY <1>15, <2>1 DEF Finish
  <1>16. ASSUME FinishRefused
         PROVE  TypeOK'
    BY <1>16, ForgetType, SpendType DEF FinishRefused, Events
  <1>17. ASSUME Rollback
         PROVE  TypeOK'
    <2>1. target' \in [Assets -> Seq(Nat)]
      BY <1>17 DEF Rollback
    <2> QED
      BY <1>17, <2>1 DEF Rollback
  <1>18. ASSUME RemoveManifest
         PROVE  TypeOK'
    BY <1>18, ForgetType, ManifestType DEF RemoveManifest
  <1>19. ASSUME Crash
         PROVE  TypeOK'
    BY <1>19, ForgetType, SpendType DEF Crash, Events
  <1>20. ASSUME NEW a \in Assets, Vanish(a)
         PROVE  TypeOK'
    BY <1>20, SpendType DEF Vanish, Events
  <1>21. ASSUME NEW a \in Assets, RemoveReplica(a)
         PROVE  TypeOK'
    <2>1. target' \in [Assets -> Seq(Nat)]
      BY <1>21 DEF RemoveReplica
    <2> QED
      BY <1>21, <2>1, SpendType DEF RemoveReplica, Events
  <1>22. CASE UNCHANGED vars
    BY <1>22 DEF vars
  <1> QED
    BY <1>1, <1>2, <1>3, <1>4, <1>5, <1>6, <1>7, <1>8, <1>9, <1>10, <1>11,
       <1>12, <1>13, <1>14, <1>15, <1>16, <1>17, <1>18, <1>19, <1>20, <1>21,
       <1>22
    DEF Next, Step, Environment, ForFile

\* The executor's variables always have their types.
THEOREM TypeCorrect == Spec => []TypeOK
  <1>1. ASSUME Init
        PROVE  TypeOK
    <2>1. target \in [Assets -> Seq(Nat)] /\ used \in [Events -> Nat]
      BY <1>1 DEF Init
    <2>2. disk \in Manifests /\ mem \in Manifests
      BY <1>1, ManifestType DEF Init
    <2>3. pc = "idle" /\ pc \notin Copying \union {"mark"} /\ pc \in Pcs
      BY <1>1 DEF Init, Pcs, Copying
    <2> QED
      BY <1>1, <2>1, <2>2, <2>3 DEF Init, TypeOK
  <1> QED
    BY <1>1, TypeStep, PTL DEF Spec

----------------------------------------------------------------------------
\* A target file is a prefix of its source.

\* Appending to the file being copied the units that follow what it holds,
\* within the size of the asset, keeps every file a prefix of its source.
LEMMA GrowPrefix ==
  ASSUME TypeOK, TargetIsPrefix, cur \in Assets, written = Len(target[cur]),
         NEW n \in Nat, written + n <= Size[cur],
         target' = [target EXCEPT ![cur] = @ \o Units(written, n)]
  PROVE  /\ TargetIsPrefix'
         /\ Len(target'[cur]) = written + n
  <1>1. target[cur] \in Seq(Nat) /\ target'[cur] = target[cur] \o Units(written, n)
    BY DEF TypeOK
  <1>2. /\ Len(target'[cur]) = written + n
        /\ \A i \in 1..Len(target'[cur]) : target'[cur][i] = i
    BY <1>1, AppendUnits DEF TargetIsPrefix
  <1>3. \A a \in Assets : a # cur => target'[a] = target[a]
    BY DEF TypeOK
  <1> QED
    BY <1>2, <1>3 DEF TargetIsPrefix

\* Emptying some files keeps the others as they are.
LEMMA EmptyPrefix ==
  ASSUME TypeOK, TargetIsPrefix,
         \A a \in Assets : target'[a] = <<>> \/ target'[a] = target[a]
  PROVE  TargetIsPrefix'
  <1> SUFFICES ASSUME NEW a \in Assets
               PROVE  /\ Len(target'[a]) <= Size[a]
                      /\ \A i \in 1..Len(target'[a]) : target'[a][i] = i
    BY DEF TargetIsPrefix
  <1>1. CASE target'[a] = <<>>
    <2>1. Len(target'[a]) = 0 /\ Size[a] \in Nat
      BY <1>1, SizeAssumption
    <2> QED
      BY <2>1
  <1>2. CASE target'[a] = target[a]
    BY <1>2 DEF TargetIsPrefix
  <1> QED
    BY <1>1, <1>2

LEMMA PrefixStep == TypeOK /\ PrefixInv /\ [Next]_vars => PrefixInv'
  <1> SUFFICES ASSUME TypeOK, PrefixInv, [Next]_vars
               PROVE  PrefixInv'
    OBVIOUS
  <1> USE DEF PrefixInv, Copying
  <1>a. ASSUME UNCHANGED target
        PROVE  TargetIsPrefix'
    BY <1>a DEF TargetIsPrefix
  <1>1. ASSUME NEW S \in Jobs, Begin(S)
        PROVE  PrefixInv'
    BY <1>1, <1>a DEF Begin
  <1>2. ASSUME WriteManifest
        PROVE  PrefixInv'
    BY <1>2, <1>a DEF WriteManifest, AfterSave, Saving
  <1>3. ASSUME WriteManifestFails
        PROVE  PrefixInv'
    BY <1>3, <1>a DEF WriteManifestFails, AfterSave, Saving
  <1>4. ASSUME NEW a \in Assets, Skip(a)
        PROVE  PrefixInv'
    BY <1>4, <1>a DEF Skip
  <1>5. ASSUME NEW a \in Assets, SourceMissing(a)
        PROVE  PrefixInv'
    BY <1>5, <1>a DEF SourceMissing, Abort
  <1>6. ASSUME NEW a \in Assets, OpenAppend(a)
        PROVE  PrefixInv'
    BY <1>6, <1>a DEF OpenAppend, ResumeOffset
  <1>7. ASSUME NEW a \in Assets, CreateTarget(a)
        PROVE  PrefixInv'
    <2>1. target' = [target EXCEPT ![a] = <<>>] /\ target \in [Assets -> Seq(Nat)]
      BY <1>7 DEF CreateTarget, TypeOK
    <2>2. TargetIsPrefix'
      BY <2>1, EmptyPrefix
    <2>3. cur' = a /\ written' = 0 /\ target'[a] = <<>>
      BY <1>7, <2>1 DEF CreateTarget
    <2> QED
      BY <2>2, <2>3
  <1>8. ASSUME OpenSource
        PROVE  PrefixInv'
    BY <1>8, <1>a DEF OpenSource
  <1>9. ASSUME OpenSourceRefused
        PROVE  PrefixInv'
    BY <1>9, <1>a DEF OpenSourceRefused, Abort
  <1>10. ASSUME CopyChunk
         PROVE  PrefixInv'
    <2>1. PICK n \in 1..Chunk :
            /\ written + n <= Size[cur]
            /\ target' = [target EXCEPT ![cur] = @ \o Units(written, n)]
            /\ written' = written + n
      BY <1>10 DEF CopyChunk
    <2>2. /\ cur \in Assets
          /\ written = Len(target[cur])
          /\ n \in Nat
          /\ cur' = cur
      BY <1>10, <2>1, ChunkAssumption DEF CopyChunk, TypeOK
    <2> QED
      BY <2>1, <2>2, GrowPrefix
  <1>11. ASSUME EndOfFile
         PROVE  PrefixInv'
    BY <1>11, <1>a DEF EndOfFile, Abort
  <1>12. ASSUME IOError
         PROVE  PrefixInv'
    <2>1. CASE UNCHANGED target
      BY <1>12, <1>a, <2>1 DEF IOError, Abort
    <2>2. ASSUME pc = "read",
                 NEW n \in 1..(Chunk - 1),
                 written + n <= Size[cur],
                 target' = [target EXCEPT ![cur] = @ \o Units(written, n)]
          PROVE  TargetIsPrefix'
      <3>1. /\ cur \in Assets
            /\ written = Len(target[cur])
            /\ n \in Nat
        BY <2>2, ChunkAssumption DEF TypeOK
      <3> QED
        BY <2>2, <3>1, GrowPrefix
    <2> QED
      BY <1>12, <2>1, <2>2 DEF IOError, Abort
  <1>13. ASSUME Conclude
         PROVE  PrefixInv'
    BY <1>13, <1>a DEF Conclude
  <1>14. ASSUME Return
         PROVE  PrefixInv'
    BY <1>14, <1>a DEF Return, Forget
  <1>15. ASSUME Finish
         PROVE  PrefixInv'
    BY <1>15, EmptyPrefix DEF Finish
  <1>16. ASSUME FinishRefused
         PROVE  PrefixInv'
    BY <1>16, <1>a DEF FinishRefused, Forget
  <1>17. ASSUME Rollback
         PROVE  PrefixInv'
    BY <1>17, EmptyPrefix DEF Rollback
  <1>18. ASSUME RemoveManifest
         PROVE  PrefixInv'
    BY <1>18, <1>a DEF RemoveManifest, Forget
  <1>19. ASSUME Crash
         PROVE  PrefixInv'
    BY <1>19, <1>a DEF Crash, Forget
  <1>20. ASSUME NEW a \in Assets, Vanish(a)
         PROVE  PrefixInv'
    BY <1>20, <1>a DEF Vanish
  <1>21. ASSUME NEW a \in Assets, RemoveReplica(a)
         PROVE  PrefixInv'
    <2>1. target' = [target EXCEPT ![a] = <<>>] /\ target \in [Assets -> Seq(Nat)]
      BY <1>21 DEF RemoveReplica, TypeOK
    <2>2. TargetIsPrefix'
      BY <2>1, EmptyPrefix
    <2>3. pc' = pc /\ cur' = cur /\ written' = written /\ a # cur
      BY <1>21 DEF RemoveReplica
    <2>4. pc \in Copying => cur \in Assets /\ target'[cur] = target[cur]
      BY <2>1, <2>3 DEF TypeOK
    <2> QED
      BY <2>2, <2>3, <2>4
  <1>22. CASE UNCHANGED vars
    BY <1>22, <1>a DEF vars
  <1> QED
    BY <1>1, <1>2, <1>3, <1>4, <1>5, <1>6, <1>7, <1>8, <1>9, <1>10, <1>11,
       <1>12, <1>13, <1>14, <1>15, <1>16, <1>17, <1>18, <1>19, <1>20, <1>21,
       <1>22
    DEF Next, Step, Environment, ForFile

LEMMA PrefixAlways == Spec => []PrefixInv
  <1>1. ASSUME Init
        PROVE  PrefixInv
    <2>1. \A a \in Assets : Len(target[a]) = 0 /\ Size[a] \in Nat
      BY <1>1, SizeAssumption DEF Init
    <2> QED
      BY <1>1, <2>1 DEF Init, PrefixInv, TargetIsPrefix, Copying
  <1> QED
    BY <1>1, TypeCorrect, PrefixStep, PTL DEF Spec

\* However a copy is cut off, resumed, rolled back or its result removed,
\* each target file is a prefix of its source.
THEOREM ResumedCopyIsPrefix == Spec => []TargetIsPrefix
  <1>1. PrefixInv => TargetIsPrefix
    BY DEF PrefixInv
  <1> QED
    BY <1>1, PrefixAlways, PTL

----------------------------------------------------------------------------
\* What the manifest and a VERIFIED answer say of the files.  The caller is
\* the worker (no Finish, no Rollback), and nobody removes registered
\* replicas behind the manifest: MCExecSkipMissing and MCExecRollbackCrash
\* show what happens otherwise.

\* A step that changes neither files, manifests nor the place in the job,
\* except to a place outside copying, keeps the invariant.
LEMMA QuietStep ==
  ASSUME ManifestInv,
         UNCHANGED <<target, disk, mem, job>>,
         pc' \in Copying => pc \in Copying /\ cur' = cur,
         pc' # "idle" => pc # "idle",
         mem.state = "VERIFIED" => pc' \in {"verified", "done"}
  PROVE  ManifestInv'
  BY DEF ManifestInv, Complete

\* The error path, with the files and the saved manifest as they were.
LEMMA AbortStep ==
  ASSUME TypeOK, ManifestInv, Abort, pc # "idle", UNCHANGED <<target, disk, job>>
  PROVE  ManifestInv'
  <1>1. /\ mem'.completed = mem.completed
        /\ mem'.partial = mem.partial
        /\ mem'.found = mem.found
        /\ mem'.state = "ROLLBACK"
        /\ pc' = "abort"
    BY DEF Abort, TypeOK, Manifests
  <1> QED
    BY <1>1 DEF ManifestInv, Complete, Copying

\* The end of a job, with the files and the saved manifest as they were.
LEMMA ForgetStep ==
  ASSUME TypeOK, ManifestInv, Forget, UNCHANGED <<target, disk, job>>
  PROVE  ManifestInv'
  <1>1. /\ mem'.completed = {}
        /\ mem'.state = "PLANNED"
        /\ \A a \in Assets : mem'.partial[a] = -1
        /\ pc' = "idle"
    BY DEF Forget, NoManifest, Absent
  <1>2. \A a \in Assets : -1 <= Len(target[a])
    BY DEF TypeOK
  <1> QED
    BY <1>1, <1>2 DEF ManifestInv, Complete, Copying

\* Writing units to the file being copied moves no other file, makes none
\* listed as completed longer, and moves no progress past its file.
LEMMA GrowFile ==
  ASSUME TypeOK, PrefixInv, ManifestInv, pc = "read",
         NEW n \in Nat, written + n <= Size[cur],
         target' = [target EXCEPT ![cur] = @ \o Units(written, n)]
  PROVE  /\ cur \in Assets
         /\ cur \notin mem.completed
         /\ cur \notin disk.completed
         /\ \A a \in Assets : a # cur => target'[a] = target[a]
         /\ Len(target'[cur]) = written + n
         /\ Len(target'[cur]) >= Len(target[cur])
  <1>1. cur \in Assets /\ written = Len(target[cur]) /\ written \in Nat
    BY DEF TypeOK, PrefixInv, Copying
  <1>2. Len(target'[cur]) = written + n
    BY <1>1, GrowPrefix DEF PrefixInv
  <1>3. \A a \in Assets : a # cur => target'[a] = target[a]
    BY DEF TypeOK
  <1>4. cur \notin mem.completed /\ cur \notin disk.completed
    BY DEF ManifestInv, Copying
  <1> QED
    BY <1>1, <1>2, <1>3, <1>4

LEMMA ManifestStep ==
  ASSUME Cleanup = FALSE, Max["removal"] = 0
  PROVE  TypeOK /\ PrefixInv /\ ManifestInv /\ [Next]_vars => ManifestInv'
  <1> SUFFICES ASSUME TypeOK, PrefixInv, ManifestInv, [Next]_vars
               PROVE  ManifestInv'
    OBVIOUS
  <1>a. \A a \in Assets : Len(target[a]) \in Nat
    BY DEF TypeOK
  <1>1. ASSUME NEW S \in Jobs, Begin(S)
        PROVE  ManifestInv'
    <2>1. /\ mem'.completed = disk.completed
          /\ mem'.partial = disk.partial
          /\ mem'.state = "IN_PROGRESS"
          /\ mem'.found
      <3>1. CASE disk.found
        BY <1>1, <3>1 DEF Begin, Adopt, TypeOK, Manifests
      <3>2. CASE ~disk.found
        BY <1>1, <3>2 DEF Begin, Adopt, NewManifest, NoManifest, ManifestInv
      <3> QED
        BY <3>1, <3>2
    <2>2. \A a \in Assets : disk.partial[a] \in Int
      BY DEF TypeOK, Manifests, Absent
    <2> QED
      BY <1>1, <2>1, <2>2 DEF Begin, ManifestInv, Complete, Copying
  <1>2. ASSUME WriteManifest
        PROVE  ManifestInv'
    <2>1. \A a \in Assets : mem.partial[a] \in Int
      BY DEF TypeOK, Manifests, Absent
    <2>2. pc # "idle" /\ (pc' \in Copying => pc \in Copying)
      BY <1>2 DEF WriteManifest, AfterSave, Saving, Copying
    <2>3. mem.state = "VERIFIED" => pc' \in {"verified", "done"}
      BY <1>2 DEF WriteManifest, AfterSave, ManifestInv, Saving
    <2> QED
      BY <1>2, <2>1, <2>2, <2>3 DEF WriteManifest, ManifestInv, Complete
  <1>3. ASSUME WriteManifestFails
        PROVE  ManifestInv'
    <2>1. disk' = disk \/ disk' = NoManifest
      BY <1>3 DEF WriteManifestFails
    <2>2. pc # "idle" /\ (pc' \in Copying => pc \in Copying)
      BY <1>3 DEF WriteManifestFails, AfterSave, Saving, Copying
    <2>3. mem.state = "VERIFIED" => pc' \in {"verified", "done"}
      BY <1>3 DEF WriteManifestFails, AfterSave, ManifestInv, Saving
    <2>4. CASE disk' = disk
      BY <1>3, <2>2, <2>3, <2>4 DEF WriteManifestFails, ManifestInv, Complete
    <2>5. CASE disk' = NoManifest
      <3>1. /\ disk'.completed = {}
            /\ \A a \in Assets : disk'.partial[a] = -1
        BY <2>5 DEF NoManifest, Absent
      <3> QED
        BY <1>3, <1>a, <2>2, <2>3, <2>5, <3>1
        DEF WriteManifestFails, ManifestInv, Complete
    <2> QED
      BY <2>1, <2>4, <2>5
  <1>4. ASSUME NEW a \in Assets, Skip(a)
        PROVE  ManifestInv'
    BY <1>4, QuietStep DEF Skip, ManifestInv
  <1>5. ASSUME NEW a \in Assets, SourceMissing(a)
        PROVE  ManifestInv'
    BY <1>5, AbortStep DEF SourceMissing
  <1>6. ASSUME NEW a \in Assets, OpenAppend(a)
        PROVE  ManifestInv'
    <2>1. a \notin mem.completed /\ mem.state # "VERIFIED" /\ pc # "idle"
      BY <1>6 DEF OpenAppend, ModeRange, ManifestInv
    <2> QED
      BY <1>6, <2>1 DEF OpenAppend, ManifestInv, Complete
  <1>7. ASSUME NEW a \in Assets, CreateTarget(a)
        PROVE  ManifestInv'
    <2>1. /\ a \notin mem.completed
          /\ a \notin disk.completed
          /\ mem.partial[a] <= 0
          /\ mem.state # "VERIFIED"
          /\ pc # "idle"
      BY <1>7 DEF CreateTarget, ModeWhole, ManifestInv
    <2>2. /\ target'[a] = <<>>
          /\ \A x \in Assets : x # a => target'[x] = target[x]
      BY <1>7 DEF CreateTarget, TypeOK
    <2>3. /\ mem'.completed = mem.completed
          /\ mem'.state = mem.state
          /\ mem'.found = mem.found
          /\ mem'.partial[a] = 0
          /\ \A x \in Assets : x # a => mem'.partial[x] = mem.partial[x]
      BY <1>7 DEF CreateTarget, SetPartial, TypeOK, Manifests
    <2>4. disk.partial[a] <= 0
      <3>1. disk.partial[a] \in Int /\ mem.partial[a] \in Int
        BY DEF TypeOK, Manifests, Absent
      <3> QED
        BY <2>1, <3>1 DEF ManifestInv
    <2>5. disk' = disk /\ job' = job /\ pc' = "source" /\ cur' = a
      BY <1>7 DEF CreateTarget
    <2>6. Len(target'[a]) = 0
      BY <2>2
    <2>7. /\ \A x \in mem'.completed : x \in Assets /\ x # a
          /\ \A x \in disk'.completed : x \in Assets /\ x # a
      BY <2>1, <2>3, <2>5 DEF TypeOK, Manifests
    <2>8. /\ \A x \in mem'.completed : Len(target'[x]) = Size[x]
          /\ \A x \in disk'.completed : Len(target'[x]) = Size[x]
      BY <2>2, <2>3, <2>5, <2>7 DEF ManifestInv, Complete
    <2>9. /\ \A x \in Assets : mem'.partial[x] <= Len(target'[x])
          /\ \A x \in Assets : disk'.partial[x] <= Len(target'[x])
      BY <2>2, <2>3, <2>4, <2>5, <2>6 DEF ManifestInv
    <2>10. \A x \in Assets \ mem'.completed :
             disk'.partial[x] <= mem'.partial[x] \/ disk'.partial[x] <= 0
      BY <2>1, <2>3, <2>4, <2>5 DEF ManifestInv
    <2> QED
      BY <2>1, <2>3, <2>5, <2>8, <2>9, <2>10 DEF ManifestInv, Complete, Copying
  <1>8. ASSUME OpenSource
        PROVE  ManifestInv'
    <2>1. mem.state # "VERIFIED" /\ pc \in Copying
      BY <1>8 DEF OpenSource, ManifestInv, Copying
    <2> QED
      BY <1>8, <2>1, QuietStep DEF OpenSource
  <1>9. ASSUME OpenSourceRefused
        PROVE  ManifestInv'
    BY <1>9, AbortStep DEF OpenSourceRefused
  <1>10. ASSUME CopyChunk
         PROVE  ManifestInv'
    <2>1. PICK n \in 1..Chunk :
            /\ written + n <= Size[cur]
            /\ target' = [target EXCEPT ![cur] = @ \o Units(written, n)]
            /\ mem' = SetPartial(mem, cur, written + n)
      BY <1>10 DEF CopyChunk
    <2>2. pc = "read" /\ n \in Nat /\ n > 0
      BY <1>10, <2>1, ChunkAssumption DEF CopyChunk
    <2>3. /\ cur \in Assets
          /\ cur \notin mem.completed
          /\ cur \notin disk.completed
          /\ \A a \in Assets : a # cur => target'[a] = target[a]
          /\ Len(target'[cur]) = written + n
          /\ Len(target'[cur]) >= Len(target[cur])
      BY <2>1, <2>2, GrowFile
    <2>4. /\ mem'.completed = mem.completed
          /\ mem'.state = mem.state
          /\ mem'.found = mem.found
          /\ mem'.partial[cur] = written + n
          /\ \A x \in Assets : x # cur => mem'.partial[x] = mem.partial[x]
      BY <2>1, <2>3 DEF SetPartial, TypeOK, Manifests
    <2>5. disk' = disk /\ job' = job /\ pc' = "save" /\ cur' = cur
      BY <1>10 DEF CopyChunk
    <2>6. disk.partial[cur] <= written + n
      <3>1. disk.partial[cur] \in Int /\ written = Len(target[cur]) /\ written \in Nat
        BY <2>2, <2>3 DEF TypeOK, Manifests, Absent, PrefixInv, Copying
      <3> QED
        BY <2>2, <2>3, <3>1 DEF ManifestInv
    <2>7. mem.state # "VERIFIED"
      BY <2>2 DEF ManifestInv
    <2>8. /\ \A a \in Assets : mem'.partial[a] <= Len(target'[a])
          /\ \A a \in Assets : disk'.partial[a] <= Len(target'[a])
      <3>1. written + n \in Nat
        BY <2>2, <2>3, <1>a DEF TypeOK
      <3> QED
        BY <2>3, <2>4, <2>5, <2>6, <3>1 DEF ManifestInv
    <2>9. \A a \in Assets \ mem'.completed :
            disk'.partial[a] <= mem'.partial[a] \/ disk'.partial[a] <= 0
      BY <2>2, <2>3, <2>4, <2>5, <2>6 DEF ManifestInv
    <2>10. /\ \A x \in mem'.completed : x \in Assets /\ x # cur
           /\ \A x \in disk'.completed : x \in Assets /\ x # cur
      BY <2>3, <2>4, <2>5 DEF TypeOK, Manifests
    <2>11. /\ \A x \in mem'.completed : Len(target'[x]) = Size[x]
           /\ \A x \in disk'.completed : Len(target'[x]) = Size[x]
      BY <2>3, <2>4, <2>5, <2>10 DEF ManifestInv, Complete
    <2> QED
      BY <2>2, <2>3, <2>4, <2>5, <2>7, <2>8, <2>9, <2>11
      DEF ManifestInv, Complete, Copying
  <1>11. ASSUME EndOfFile
         PROVE  ManifestInv'
    <2>1. CASE written = Size[cur]
      <3>1. cur \in Assets /\ Complete(cur) /\ pc # "idle" /\ mem.state # "VERIFIED"
        BY <1>11, <2>1 DEF EndOfFile, PrefixInv, ManifestInv, TypeOK, Copying,
                           Complete
      <3>2. /\ mem'.completed = mem.completed \union {cur}
            /\ mem'.state = mem.state
            /\ mem'.found = mem.found
            /\ mem'.partial[cur] = -1
            /\ \A x \in Assets : x # cur => mem'.partial[x] = mem.partial[x]
        BY <1>11, <2>1, <3>1 DEF EndOfFile, MarkCompleted, TypeOK, Manifests, Absent
      <3>3. target' = target /\ disk' = disk /\ job' = job /\ pc' = "mark"
        BY <1>11, <2>1 DEF EndOfFile
      <3> QED
        BY <3>1, <3>2, <3>3, <1>a DEF ManifestInv, Complete, Copying
    <2>2. CASE written # Size[cur]
      BY <1>11, <2>2, AbortStep DEF EndOfFile
    <2> QED
      BY <2>1, <2>2
  <1>12. ASSUME IOError
         PROVE  ManifestInv'
    <2>1. CASE UNCHANGED target
      BY <1>12, <2>1, AbortStep DEF IOError
    <2>2. ASSUME pc = "read",
                 NEW n \in 1..(Chunk - 1),
                 written + n <= Size[cur],
                 target' = [target EXCEPT ![cur] = @ \o Units(written, n)]
          PROVE  ManifestInv'
      <3>1. n \in Nat
        BY ChunkAssumption
      <3>2. /\ cur \in Assets
            /\ cur \notin mem.completed
            /\ cur \notin disk.completed
            /\ \A a \in Assets : a # cur => target'[a] = target[a]
            /\ Len(target'[cur]) >= Len(target[cur])
            /\ Len(target'[cur]) = written + n
        BY <2>2, <3>1, GrowFile
      <3>3. /\ mem'.completed = mem.completed
            /\ mem'.partial = mem.partial
            /\ mem'.found = mem.found
            /\ mem'.state = "ROLLBACK"
            /\ pc' = "abort"
            /\ disk' = disk
        BY <1>12 DEF IOError, Abort, TypeOK, Manifests
      <3>4. \A a \in Assets : /\ mem.partial[a] \in Int
                             /\ disk.partial[a] \in Int
        BY DEF TypeOK, Manifests, Absent
      <3>5. written + n \in Nat
        BY <3>1 DEF TypeOK
      <3>6. /\ \A a \in Assets : mem'.partial[a] <= Len(target'[a])
            /\ \A a \in Assets : disk'.partial[a] <= Len(target'[a])
        BY <1>a, <3>2, <3>3, <3>4, <3>5 DEF ManifestInv
      <3> QED
        BY <2>2, <3>2, <3>3, <3>6 DEF ManifestInv, Complete, Copying
    <2> QED
      BY <1>12, <2>1, <2>2 DEF IOError
  <1>13. ASSUME Conclude
         PROVE  ManifestInv'
    <2>1. CASE AllCopied(mem, job)
      <3>1. /\ mem'.completed = mem.completed
            /\ mem'.partial = mem.partial
            /\ mem'.found = mem.found
            /\ pc' = "verified"
            /\ pc # "idle"
        BY <1>13, <2>1 DEF Conclude, TypeOK, Manifests
      <3> QED
        BY <1>13, <2>1, <3>1
        DEF Conclude, ManifestInv, Complete, Copying, AllCopied
    <2>2. CASE ~AllCopied(mem, job)
      <3>1. pc' = "done" /\ mem' = mem /\ pc # "idle"
        BY <1>13, <2>2 DEF Conclude
      <3> QED
        BY <1>13, <3>1, QuietStep DEF Conclude, Copying
    <2> QED
      BY <2>1, <2>2
  <1>14. ASSUME Return
         PROVE  ManifestInv'
    BY <1>14, ForgetStep DEF Return
  <1>15. Cleanup = FALSE =>
           ~Finish /\ ~FinishRefused /\ ~Rollback
    BY DEF Finish, FinishRefused, Rollback
  <1>16. ASSUME RemoveManifest
         PROVE  ManifestInv'
    <2>1. /\ disk'.completed = {}
          /\ \A a \in Assets : disk'.partial[a] = -1 /\ mem'.partial[a] = -1
          /\ disk' = NoManifest
          /\ mem'.completed = {}
          /\ mem'.state = "PLANNED"
          /\ pc' = "idle"
          /\ target' = target
      BY <1>16 DEF RemoveManifest, Forget, NoManifest, Absent
    <2> QED
      BY <1>a, <2>1 DEF ManifestInv, Complete, Copying
  <1>17. ASSUME Crash
         PROVE  ManifestInv'
    BY <1>17, ForgetStep DEF Crash
  <1>18. ASSUME NEW a \in Assets, Vanish(a)
         PROVE  ManifestInv'
    BY <1>18, QuietStep DEF Vanish, ManifestInv
  <1>19. ASSUME NEW a \in Assets, RemoveReplica(a)
         PROVE  FALSE
    <2>1. used["removal"] < 0 /\ used["removal"] \in Nat
      BY <1>19 DEF RemoveReplica, Spend, TypeOK, Events
    <2> QED
      BY <2>1
  <1>20. CASE UNCHANGED vars
    BY <1>20, QuietStep DEF vars, ManifestInv
  <1> QED
    BY <1>1, <1>2, <1>3, <1>4, <1>5, <1>6, <1>7, <1>8, <1>9, <1>10, <1>11,
       <1>12, <1>13, <1>14, <1>15, <1>16, <1>17, <1>18, <1>19, <1>20
    DEF Next, Step, Environment, ForFile

LEMMA ManifestAlways ==
  ASSUME Cleanup = FALSE, Max["removal"] = 0
  PROVE  Spec => [](TypeOK /\ PrefixInv /\ ManifestInv)
  <1>1. ASSUME Init
        PROVE  ManifestInv
    <2>1. \A a \in Assets : Len(target[a]) = 0
      BY <1>1 DEF Init
    <2> QED
      BY <1>1, <2>1 DEF Init, ManifestInv, NoManifest, Absent, Copying
  <1>2. TypeOK /\ PrefixInv /\ ManifestInv /\ [Next]_vars => ManifestInv'
    BY ManifestStep
  <1> QED
    BY <1>1, <1>2, TypeCorrect, PrefixAlways, PTL DEF Spec

\* A VERIFIED answer: every file of the job is whole at the target.
THEOREM VerifiedIsComplete ==
  ASSUME Cleanup = FALSE, Max["removal"] = 0
  PROVE  Spec => []VerifiedComplete
  <1>1. ManifestInv => VerifiedComplete
    BY DEF ManifestInv, VerifiedComplete
  <1> QED
    BY <1>1, ManifestAlways, PTL

\* The saved manifest never claims more than the files hold.
THEOREM ManifestTellsTheTruth ==
  ASSUME Cleanup = FALSE, Max["removal"] = 0
  PROVE  Spec => []ManifestNotAhead
  <1>1. TypeOK /\ ManifestInv => ManifestNotAhead
    BY DEF ManifestInv, ManifestNotAhead
  <1> QED
    BY <1>1, ManifestAlways, PTL

\* A file the saved manifest lists is never opened for writing again: every
\* action that writes writes a file the memory does not list, and the memory
\* lists whatever the disk does.
THEOREM CompletedStaysUntouched ==
  ASSUME Cleanup = FALSE, Max["removal"] = 0
  PROVE  Spec => CompletedUntouched
  <1> DEFINE Untouched == \A a \in disk.completed : target'[a] = target[a]
  <1>1. ASSUME TypeOK, PrefixInv, ManifestInv, [Next]_vars
        PROVE  [Untouched]_vars
    <2>a. disk.completed \subseteq Assets /\ target \in [Assets -> Seq(Nat)]
      BY <1>1 DEF TypeOK, Manifests
    <2>1. CASE UNCHANGED target
      BY <2>1
    <2>2. ASSUME NEW a \in Assets, CreateTarget(a)
          PROVE  Untouched
      <3>1. a \notin disk.completed
        BY <1>1, <2>2 DEF CreateTarget, ModeWhole, ManifestInv
      <3>2. target' = [target EXCEPT ![a] = <<>>]
        BY <2>2 DEF CreateTarget
      <3> QED
        BY <2>a, <3>1, <3>2
    <2>3. ASSUME CopyChunk \/ IOError
          PROVE  Untouched \/ UNCHANGED target
      <3>1. CASE UNCHANGED target
        BY <3>1
      <3>2. CASE /\ pc = "read"
                 /\ \E n \in Nat :
                      target' = [target EXCEPT ![cur] = @ \o Units(written, n)]
        <4>1. cur \notin disk.completed
          BY <1>1, <3>2 DEF ManifestInv, Copying
        <4>2. PICK n \in Nat :
                target' = [target EXCEPT ![cur] = @ \o Units(written, n)]
          BY <3>2
        <4> QED
          BY <2>a, <4>1, <4>2
      <3> QED
        BY <2>3, <3>1, <3>2, ChunkAssumption DEF CopyChunk, IOError
    <2>4. ASSUME NEW a \in Assets, RemoveReplica(a)
          PROVE  FALSE
      <3>1. used["removal"] < 0 /\ used["removal"] \in Nat
        BY <1>1, <2>4 DEF RemoveReplica, Spend, TypeOK, Events
      <3> QED
        BY <3>1
    <2>5. ~Finish /\ ~Rollback
      BY DEF Finish, Rollback
    <2>6. \/ UNCHANGED target
          \/ \E a \in Assets : CreateTarget(a) \/ RemoveReplica(a)
          \/ CopyChunk \/ IOError \/ Finish \/ Rollback
      <3> USE DEF Next, Step, Environment, ForFile, vars
      <3> QED
        BY <1>1 DEF Begin, WriteManifest, WriteManifestFails, Skip,
          SourceMissing, OpenAppend, OpenSource, OpenSourceRefused, EndOfFile,
          Conclude, Return, FinishRefused, RemoveManifest, Crash, Vanish
    <2>7. Untouched \/ UNCHANGED target
      BY <2>1, <2>2, <2>3, <2>4, <2>5, <2>6
    <2> QED
      BY <2>7
  <1>2. TypeOK /\ PrefixInv /\ ManifestInv /\ [Next]_vars => [Untouched]_vars
    BY <1>1
  <1>3. Spec => [][Untouched]_vars
    BY <1>2, ManifestAlways, PTL DEF Spec
  <1> QED
    BY <1>3 DEF CompletedUntouched

----------------------------------------------------------------------------
\* The executor implements DirCopy.

LEMMA OwnFileAlways == Spec => []OwnFile
  <1>1. Init => OwnFile
    BY DEF Init, OwnFile, Copying
  <1>2. TypeOK /\ OwnFile /\ [Next]_vars => OwnFile'
    <2> SUFFICES ASSUME TypeOK, OwnFile, [Next]_vars
                 PROVE  OwnFile'
      OBVIOUS
    <2>1. ASSUME NEW a \in Assets, ForFile(a)
          PROVE  OwnFile'
      BY <2>1 DEF ForFile, Skip, SourceMissing, Abort, OpenAppend, CreateTarget,
                  OwnFile, Copying, TypeOK
    <2>2. ASSUME WriteManifest \/ WriteManifestFails
          PROVE  OwnFile'
      BY <2>2 DEF WriteManifest, WriteManifestFails, AfterSave, OwnFile, Copying,
                  Saving
    <2>3. CASE OpenSource \/ OpenSourceRefused \/ CopyChunk \/ EndOfFile \/ IOError
      BY <2>3 DEF OpenSource, OpenSourceRefused, CopyChunk, EndOfFile, IOError,
                  Abort, OwnFile, Copying
    <2>4. CASE Conclude \/ Return \/ Finish \/ Rollback \/ RemoveManifest
      BY <2>4 DEF Conclude, Return, Finish, Rollback, RemoveManifest, Forget,
                  OwnFile, Copying
    <2>5. CASE FinishRefused \/ Crash \/ \E S \in Jobs : Begin(S)
      BY <2>5 DEF FinishRefused, Crash, Begin, Forget, OwnFile, Copying
    <2>6. CASE \E a \in Assets : Vanish(a) \/ RemoveReplica(a)
      BY <2>6 DEF Vanish, RemoveReplica, OwnFile
    <2>7. CASE UNCHANGED vars
      BY <2>7 DEF vars, OwnFile
    <2> QED
      BY <2>1, <2>2, <2>3, <2>4, <2>5, <2>6, <2>7 DEF Next, Step, Environment
  <1> QED
    BY <1>1, <1>2, TypeCorrect, PTL DEF Spec

\* What a place in the job means for the caller.
LEMMA VerdictAt ==
  /\ pc = "idle" => Verdict = "none"
  /\ pc = "failed" => Verdict = "failed"
  /\ pc = "done" /\ mem.state = "VERIFIED" => Verdict = "verified"
  /\ pc = "done" /\ mem.state # "VERIFIED" => Verdict = "failed"
  /\ pc \notin Ended \union {"idle"} => Verdict = "open"
  BY DEF Verdict, Ended

LEMMA VerdictNext ==
  /\ pc' = "idle" => Verdict' = "none"
  /\ pc' = "failed" => Verdict' = "failed"
  /\ pc' = "done" /\ mem'.state = "VERIFIED" => Verdict' = "verified"
  /\ pc' = "done" /\ mem'.state # "VERIFIED" => Verdict' = "failed"
  /\ pc' \notin Ended \union {"idle"} => Verdict' = "open"
  BY DEF Verdict, Ended

LEMMA SameFiles ==
  ASSUME UNCHANGED target
  PROVE  Copied' = Copied
  BY DEF Copied, Complete

\* One file grows: what was complete stays so, and the file may become so.
LEMMA MoreOfOneFile ==
  ASSUME TypeOK, PrefixInv, ManifestInv, pc = "read",
         NEW n \in Nat, written + n <= Size[cur],
         target' = [target EXCEPT ![cur] = @ \o Units(written, n)]
  PROVE  cur \in Assets /\ Copied' \in {Copied, Copied \union {cur}}
  <1>1. /\ cur \in Assets
        /\ \A a \in Assets : a # cur => target'[a] = target[a]
        /\ Len(target'[cur]) = written + n
        /\ Len(target'[cur]) >= Len(target[cur])
    BY GrowFile
  <1>2. Len(target[cur]) \in Nat /\ Size[cur] \in Nat /\ written \in Nat
    <2>1. target \in [Assets -> Seq(Nat)] /\ written \in Nat
      BY DEF TypeOK
    <2> QED
      BY <1>1, <2>1, SizeAssumption
  <1>3. \A a \in Assets : a # cur => (a \in Copied' <=> a \in Copied)
    BY <1>1 DEF Copied, Complete
  <1>4. cur \in Copied => cur \in Copied'
    BY <1>1, <1>2 DEF Copied, Complete
  <1>5. Copied \subseteq Assets /\ Copied' \subseteq Assets
    BY DEF Copied
  <1>6. CASE cur \in Copied'
    BY <1>1, <1>3, <1>5, <1>6
  <1>7. CASE cur \notin Copied'
    <2>1. \A a \in Assets : a \in Copied' <=> a \in Copied
      BY <1>1, <1>3, <1>4, <1>7
    <2>2. Copied' = Copied
      BY <1>5, <2>1
    <2> QED
      BY <1>1, <2>2
  <1> QED
    BY <1>1, <1>6, <1>7

\* A step within the job that completes at most one of its files, or empties it.
LEMMA WithinJob ==
  ASSUME pc \notin Ended \union {"idle"},
         pc' \notin Ended \union {"idle"},
         job' = job,
         NEW a \in Assets, a \in job,
         Copied' \in {Copied, Copied \union {a}, Copied \ {a}}
  PROVE  [Abstract!Next]_(Abstract!vars)
  <1>1. Verdict = "open" /\ Verdict' = "open"
    BY VerdictAt, VerdictNext
  <1>2. CASE Copied' = Copied
    BY <1>1, <1>2 DEF Abstract!vars
  <1>3. CASE Copied' = Copied \union {a}
    BY <1>1, <1>3 DEF Abstract!Next, Abstract!Place
  <1>4. CASE Copied' = Copied \ {a}
    BY <1>1, <1>4 DEF Abstract!Next, Abstract!StartOver
  <1> QED
    BY <1>2, <1>3, <1>4

\* A step within the job that leaves the files alone.
LEMMA QuietWithinJob ==
  ASSUME pc \notin Ended \union {"idle"},
         pc' \notin Ended \union {"idle"},
         UNCHANGED <<target, job>>
  PROVE  UNCHANGED Abstract!vars
  BY VerdictAt, VerdictNext, SameFiles DEF Abstract!vars

\* The end of the process, with or without an answer.
LEMMA CloseStep ==
  ASSUME pc \in Pcs, pc # "idle", Forget, UNCHANGED <<target, job>>
  PROVE  Abstract!Next
  <1>1. Verdict # "none"
    <2>1. CASE pc \in Ended
      BY <2>1, VerdictAt DEF Ended
    <2>2. CASE pc \notin Ended
      BY <2>2, VerdictAt
    <2> QED
      BY <2>1, <2>2
  <1>2. Verdict' = "none"
    BY VerdictNext DEF Forget
  <1> QED
    BY <1>1, <1>2, SameFiles DEF Abstract!Next, Abstract!Close

\* The manifest write at the end of a Run decides its answer, whether or not it
\* succeeds; every other write of the manifest is invisible to the caller.
LEMMA SaveStep ==
  ASSUME TypeOK, ManifestInv, pc \in Saving,
         pc' = AfterSave \/ (pc = "start" /\ pc' = "failed"),
         UNCHANGED <<target, job, mem>>
  PROVE  [Abstract!Next]_(Abstract!vars)
  <1>1. Verdict = "open" /\ Copied' = Copied
    BY VerdictAt, SameFiles DEF Saving, Ended
  <1>2. CASE pc' = "failed" \/ (pc' = "done" /\ mem.state # "VERIFIED")
    BY <1>1, <1>2, VerdictNext DEF Abstract!Next, Abstract!GiveUp
  <1>3. CASE pc' = "done" /\ mem.state = "VERIFIED"
    <2>1. job \subseteq Copied
      BY <1>3 DEF ManifestInv, TypeOK, Copied
    <2> QED
      BY <1>1, <1>3, <2>1, VerdictNext DEF Abstract!Next, Abstract!Vouch
  <1>4. CASE pc' \in {"read", "next"}
    BY <1>4, QuietWithinJob DEF Saving, Ended
  <1> QED
    BY <1>2, <1>3, <1>4 DEF AfterSave, Saving

LEMMA RefinementStep ==
  ASSUME Cleanup = FALSE, Max["removal"] = 0
  PROVE  TypeOK /\ PrefixInv /\ ManifestInv /\ OwnFile /\ [Next]_vars
           => [Abstract!Next]_(Abstract!vars)
  <1> SUFFICES ASSUME TypeOK, PrefixInv, ManifestInv, OwnFile, [Next]_vars
               PROVE  [Abstract!Next]_(Abstract!vars)
    OBVIOUS
  <1>1. ASSUME NEW S \in Jobs, Begin(S)
        PROVE  Abstract!Next
    <2>1. Verdict = "none" /\ Verdict' = "open" /\ Copied' = Copied
      BY <1>1, VerdictAt, VerdictNext, SameFiles DEF Begin, Ended
    <2> QED
      BY <1>1, <2>1 DEF Begin, Abstract!Next, Abstract!Open
  <1>2. CASE WriteManifest
    BY <1>2, SaveStep DEF WriteManifest
  <1>3. CASE WriteManifestFails
    BY <1>3, SaveStep DEF WriteManifestFails
  <1>4. ASSUME NEW a \in Assets, Skip(a) \/ SourceMissing(a) \/ OpenAppend(a)
        PROVE  UNCHANGED Abstract!vars
    BY <1>4, QuietWithinJob DEF Skip, SourceMissing, Abort, OpenAppend, Ended
  <1>5. ASSUME NEW a \in Assets, CreateTarget(a)
        PROVE  [Abstract!Next]_(Abstract!vars)
    <2>1. a \in job
      BY <1>5 DEF CreateTarget, TypeOK
    <2>2. /\ target'[a] = <<>>
          /\ \A x \in Assets : x # a => target'[x] = target[x]
      BY <1>5 DEF CreateTarget, TypeOK
    <2>3. \A x \in Assets : x # a => (x \in Copied' <=> x \in Copied)
      BY <2>2 DEF Copied, Complete
    <2>4. Len(target[a]) \in Nat /\ Len(target'[a]) = 0
      BY <2>2 DEF TypeOK
    <2>5. CASE a \in Copied'
      <3>1. Size[a] = 0
        BY <2>4, <2>5 DEF Copied, Complete
      <3>2. a \in Copied
        BY <2>4, <3>1 DEF TypeOK, PrefixInv, TargetIsPrefix, Copied, Complete
      <3>3. Copied' = Copied
        BY <2>3, <2>5, <3>2 DEF Copied
      <3> QED
        BY <1>5, <2>1, <3>3, WithinJob DEF CreateTarget, Ended
    <2>6. CASE a \notin Copied'
      <3>1. Copied' = Copied \ {a}
        BY <2>3, <2>6 DEF Copied
      <3> QED
        BY <1>5, <2>1, <3>1, WithinJob DEF CreateTarget, Ended
    <2> QED
      BY <2>5, <2>6
  <1>6. CASE OpenSource \/ OpenSourceRefused \/ EndOfFile
    BY <1>6, QuietWithinJob
    DEF OpenSource, OpenSourceRefused, EndOfFile, Abort, Ended
  <1>7. CASE CopyChunk
    <2>1. PICK n \in 1..Chunk :
            /\ written + n <= Size[cur]
            /\ target' = [target EXCEPT ![cur] = @ \o Units(written, n)]
      BY <1>7 DEF CopyChunk
    <2>2. pc = "read" /\ pc' = "save" /\ job' = job /\ n \in Nat
      BY <1>7, ChunkAssumption DEF CopyChunk
    <2>3. cur \in Assets /\ Copied' \in {Copied, Copied \union {cur}}
      BY <2>1, <2>2, MoreOfOneFile
    <2>4. cur \in job
      BY <2>2 DEF OwnFile, Copying
    <2> QED
      BY <2>2, <2>3, <2>4, WithinJob DEF Ended
  <1>8. CASE IOError
    <2>1. pc \notin Ended \union {"idle"} /\ pc' = "abort" /\ job' = job
      BY <1>8 DEF IOError, Abort, Ended
    <2>2. CASE UNCHANGED target
      BY <2>1, <2>2, QuietWithinJob DEF Ended
    <2>3. ASSUME pc = "read",
                 NEW n \in 1..(Chunk - 1),
                 written + n <= Size[cur],
                 target' = [target EXCEPT ![cur] = @ \o Units(written, n)]
          PROVE  [Abstract!Next]_(Abstract!vars)
      <3>1. n \in Nat
        BY ChunkAssumption
      <3>2. cur \in Assets /\ Copied' \in {Copied, Copied \union {cur}}
        BY <2>3, <3>1, MoreOfOneFile
      <3>3. cur \in job
        BY <2>3 DEF OwnFile, Copying
      <3> QED
        BY <2>1, <3>2, <3>3, WithinJob DEF Ended
    <2> QED
      BY <1>8, <2>2, <2>3 DEF IOError
  <1>9. CASE Conclude
    <2>1. CASE AllCopied(mem, job)
      BY <1>9, <2>1, QuietWithinJob DEF Conclude, Ended
    <2>2. CASE ~AllCopied(mem, job)
      <3>1. mem'.state # "VERIFIED" /\ pc' = "done"
        BY <1>9, <2>2 DEF Conclude, ManifestInv
      <3>2. Verdict = "open" /\ Verdict' = "failed" /\ Copied' = Copied
        BY <1>9, <3>1, VerdictAt, VerdictNext, SameFiles DEF Conclude, Ended
      <3> QED
        BY <1>9, <3>2 DEF Conclude, Abstract!Next, Abstract!GiveUp
    <2> QED
      BY <2>1, <2>2
  <1>10. CASE Return \/ RemoveManifest \/ Crash
    BY <1>10, CloseStep DEF Return, RemoveManifest, Crash, Ended, TypeOK
  <1>11. ~Finish /\ ~FinishRefused /\ ~Rollback
    BY DEF Finish, FinishRefused, Rollback
  <1>12. ASSUME NEW a \in Assets, Vanish(a)
         PROVE  UNCHANGED Abstract!vars
    BY <1>12, SameFiles DEF Vanish, Verdict, Abstract!vars
  <1>13. ASSUME NEW a \in Assets, RemoveReplica(a)
         PROVE  FALSE
    <2>1. used["removal"] < 0 /\ used["removal"] \in Nat
      BY <1>13 DEF RemoveReplica, Spend, TypeOK, Events
    <2> QED
      BY <2>1
  <1>14. CASE UNCHANGED vars
    BY <1>14, SameFiles DEF vars, Verdict, Abstract!vars
  <1> QED
    BY <1>1, <1>2, <1>3, <1>4, <1>5, <1>6, <1>7, <1>8, <1>9, <1>10, <1>11,
       <1>12, <1>13, <1>14
    DEF Next, Step, Environment, ForFile

\* Every behaviour of the executor is one of DirCopy: between the chunks, the
\* manifest writes, the failures and the crashes, files of a job become complete
\* or are started over one at a time, nothing changes between jobs, and VERIFIED
\* is answered only when the whole job is at the target.
THEOREM ImplementsDirCopy ==
  ASSUME Cleanup = FALSE, Max["removal"] = 0
  PROVE  Spec => CopiesDirectory
  <1>1. Init => Abstract!Init
    BY VerdictAt DEF Init, Abstract!Init, Copied
  <1>2. TypeOK /\ PrefixInv /\ ManifestInv /\ OwnFile /\ [Next]_vars
          => [Abstract!Next]_(Abstract!vars)
    BY RefinementStep
  <1>3. Spec => Abstract!Spec
    BY <1>1, <1>2, ManifestAlways, OwnFileAlways, PTL DEF Spec, Abstract!Spec
  <1> QED
    BY <1>3 DEF CopiesDirectory

----------------------------------------------------------------------------
\* What is registered.

LEMMA RegisteredStep ==
  ASSUME Cleanup = FALSE, Max["removal"] = 0
  PROVE  TypeOK /\ ManifestInv /\ RegisteredInv /\ [Next]_vars => RegisteredInv'
  <1>p. ASSUME TypeOK, RegisteredInv, [Next]_vars
        PROVE  pc' # "purge"
    <2>1. pc # "purge" /\ ~Finish /\ ~Rollback
      BY <1>p DEF RegisteredInv, Finish, Rollback
    <2> QED
      BY <1>p, <2>1 DEF Next, Step, Environment, vars, Begin, WriteManifest,
        WriteManifestFails, AfterSave, ForFile, Skip, SourceMissing, Abort,
        OpenAppend, CreateTarget, OpenSource, OpenSourceRefused, CopyChunk,
        EndOfFile, IOError, Conclude, Return, Forget, FinishRefused,
        RemoveManifest, Crash, Vanish, RemoveReplica
  <1> SUFFICES ASSUME TypeOK, ManifestInv, RegisteredInv, [Next]_vars,
                      used'["torn"] = 0
               PROVE  /\ registered' \subseteq disk'.completed
                      /\ pc' = "done" /\ mem'.state = "VERIFIED" =>
                           mem'.completed = disk'.completed
    BY <1>p DEF RegisteredInv
  <1>a. used["torn"] \in Nat /\ "torn" \in DOMAIN used
    BY DEF TypeOK, Events
  <1>b. ~WriteManifestFails
    BY <1>a DEF WriteManifestFails, Spend
  <1>c. used["torn"] = 0
    <2>1. CASE UNCHANGED used
      BY <2>1
    <2>2. ASSUME NEW e \in Events \ {"torn"}, Spend(e)
          PROVE  used["torn"] = 0
      BY <1>a, <2>2 DEF Spend, TypeOK
    <2>3. UNCHANGED used \/ \E e \in Events \ {"torn"} : Spend(e)
      BY <1>b DEF Next, Step, Environment, vars, Begin, WriteManifest, ForFile,
        Skip, SourceMissing, OpenAppend, CreateTarget, OpenSource,
        OpenSourceRefused, CopyChunk, EndOfFile, IOError, Conclude, Return,
        Finish, FinishRefused, Rollback, RemoveManifest, Crash, Vanish,
        RemoveReplica, Events
    <2> QED
      BY <2>1, <2>2, <2>3
  <1>d. /\ registered \subseteq disk.completed
        /\ pc = "done" /\ mem.state = "VERIFIED" => mem.completed = disk.completed
    BY <1>c DEF RegisteredInv
  <1>1. CASE WriteManifest
    <2>1. disk.completed \subseteq mem.completed
      BY <1>1 DEF WriteManifest, ManifestInv, Saving
    <2> QED
      BY <1>1, <1>d, <2>1 DEF WriteManifest
  <1>2. CASE Return
    <2>1. registered' \subseteq disk.completed
      BY <1>2, <1>d DEF Return, ManifestInv
    <2> QED
      BY <1>2, <2>1 DEF Return, Forget
  <1>3. ~RemoveManifest
    BY DEF RemoveManifest, RegisteredInv
  <1>4. ASSUME UNCHANGED <<registered, disk>>, pc' # "done" \/ mem'.state # "VERIFIED"
        PROVE  /\ registered' \subseteq disk'.completed
               /\ pc' = "done" /\ mem'.state = "VERIFIED" =>
                    mem'.completed = disk'.completed
    BY <1>4, <1>d
  <1>5. ASSUME NEW a \in Assets, ForFile(a)
        PROVE  UNCHANGED <<registered, disk>> /\ pc' # "done"
    BY <1>5 DEF ForFile, Skip, SourceMissing, Abort, OpenAppend, CreateTarget
  <1>6. CASE OpenSource \/ OpenSourceRefused \/ CopyChunk \/ EndOfFile \/ IOError
    BY <1>4, <1>6
    DEF OpenSource, OpenSourceRefused, CopyChunk, EndOfFile, IOError, Abort
  <1>7. CASE Conclude
    <2>1. AllCopied(mem, job) \/ mem'.state # "VERIFIED"
      BY <1>7 DEF Conclude, ManifestInv
    <2> QED
      BY <1>4, <1>7, <2>1 DEF Conclude
  <1>8. CASE Crash \/ \E S \in Jobs : Begin(S)
    BY <1>4, <1>8 DEF Crash, Forget, Begin
  <1>9. ~Finish /\ ~FinishRefused /\ ~Rollback
    BY DEF Finish, FinishRefused, Rollback
  <1>10. ASSUME NEW a \in Assets, Vanish(a)
         PROVE  UNCHANGED <<registered, disk, pc, mem>>
    BY <1>10 DEF Vanish
  <1>11. ASSUME NEW a \in Assets, RemoveReplica(a)
         PROVE  FALSE
    <2>1. used["removal"] < 0 /\ used["removal"] \in Nat
      BY <1>11 DEF RemoveReplica, Spend, TypeOK, Events
    <2> QED
      BY <2>1
  <1>12. CASE UNCHANGED vars
    BY <1>12, <1>d DEF vars
  <1> QED
    BY <1>b, <1>d, <1>1, <1>2, <1>3, <1>4, <1>5, <1>6, <1>7, <1>8, <1>9, <1>10, <1>11,
       <1>12
    DEF Next, Step, Environment

\* A registered replica stays whole through every later job, failure and crash:
\* the manifest lists it, later jobs adopt the list, and what is listed is not
\* written again.
THEOREM RegisteredStaysComplete ==
  ASSUME Cleanup = FALSE, Max["removal"] = 0
  PROVE  Spec => []RegisteredComplete
  <1>1. Init => RegisteredInv
    BY DEF Init, RegisteredInv
  <1>2. TypeOK /\ ManifestInv /\ RegisteredInv /\ [Next]_vars => RegisteredInv'
    BY RegisteredStep
  <1>3. ManifestInv /\ RegisteredInv => RegisteredComplete
    BY DEF ManifestInv, RegisteredInv, RegisteredComplete
  <1> QED
    BY <1>1, <1>2, <1>3, ManifestAlways, PTL DEF Spec

----------------------------------------------------------------------------
\* Why a job fails, and when a Run returns unverified: for every caller.

\* A step that leaves the job with the manifests and files it had.
LEMMA CauseQuiet ==
  ASSUME CauseInv,
         UNCHANGED <<disk, mem>>,
         pc' # "idle" => pc # "idle",
         pc' \in Copying => pc \in Copying /\ cur' = cur,
         pc' \notin {"abort", "failed"}
  PROVE  CauseInv'
  BY DEF CauseInv

LEMMA CauseForget ==
  ASSUME CauseInv, Forget, disk' \in {disk, NoManifest}
  PROVE  CauseInv'
  BY DEF CauseInv, Forget, Copying

\* Giving up, for a reason.
LEMMA CauseAbort ==
  ASSUME TypeOK, CauseInv, Abort, pc # "idle", UNCHANGED <<disk, job>>,
         \/ faulty'
         \/ ~(job \subseteq source')
         \/ \E a \in job : Len(target'[a]) = Size[a] /\ a \notin mem.completed
  PROVE  CauseInv'
  <1>1. mem'.completed = mem.completed /\ mem'.found = mem.found /\ pc' = "abort"
    BY DEF Abort, TypeOK, Manifests
  <1>2. disk' = disk /\ job' = job
    OBVIOUS
  <1>3. \/ faulty'
        \/ ~(job' \subseteq source')
        \/ \E a \in job' : Len(target'[a]) = Size[a] /\ a \notin mem'.completed
    BY <1>1, <1>2
  <1> QED
    BY <1>1, <1>2, <1>3 DEF CauseInv, Complete, Copying

LEMMA CauseStep ==
  TypeOK /\ PrefixInv /\ OwnFile /\ CauseInv /\ [Next]_vars => CauseInv'
  <1> SUFFICES ASSUME TypeOK, PrefixInv, OwnFile, CauseInv, [Next]_vars
               PROVE  CauseInv'
    OBVIOUS
  <1>1. ASSUME NEW S \in Jobs, Begin(S)
        PROVE  CauseInv'
    <2>1. mem'.completed = disk.completed /\ mem'.found
      <3>1. CASE disk.found
        BY <1>1, <3>1 DEF Begin, Adopt, TypeOK, Manifests
      <3>2. CASE ~disk.found
        BY <1>1, <3>2 DEF Begin, Adopt, NewManifest, NoManifest, CauseInv
      <3> QED
        BY <3>1, <3>2
    <2> QED
      BY <1>1, <2>1 DEF Begin, CauseInv, Copying
  <1>2. CASE WriteManifest
    <2>1. pc # "idle" /\ (pc' \in Copying => pc \in Copying)
      BY <1>2 DEF WriteManifest, AfterSave, Saving, Copying
    <2>2. pc' \in {"abort", "failed"} => pc = "abort"
      BY <1>2 DEF WriteManifest, AfterSave, Saving
    <2> QED
      BY <1>2, <2>1, <2>2 DEF WriteManifest, CauseInv, Complete
  <1>3. CASE WriteManifestFails
    <2>1. pc # "idle" /\ (pc' \in Copying => pc \in Copying)
      BY <1>3 DEF WriteManifestFails, AfterSave, Saving, Copying
    <2>2. disk' \in {disk, NoManifest} /\ UNCHANGED <<mem, cur>> /\ faulty'
      BY <1>3 DEF WriteManifestFails
    <2>3. disk'.completed \subseteq mem.completed /\ (~disk'.found => disk' = NoManifest)
      BY <2>1, <2>2 DEF CauseInv, NoManifest
    <2> QED
      BY <2>1, <2>2, <2>3 DEF CauseInv
  <1>4. ASSUME NEW a \in Assets, Skip(a)
        PROVE  CauseInv'
    BY <1>4, CauseQuiet DEF Skip, Copying
  <1>5. ASSUME NEW a \in Assets, SourceMissing(a)
        PROVE  CauseInv'
    <2>1. a \in job
      BY <1>5 DEF SourceMissing, TypeOK
    <2>2. CASE a \notin source
      BY <1>5, <2>1, <2>2, CauseAbort DEF SourceMissing
    <2>3. CASE a \in source
      <3>1. Size[a] = 0
        BY <1>5, <2>3, SizeAssumption DEF SourceMissing, StatSource, SatisfiableRange
      <3>2. Len(target[a]) = 0
        <4>1. Len(target[a]) \in Nat /\ Len(target[a]) <= Size[a]
          BY DEF TypeOK, PrefixInv, TargetIsPrefix
        <4> QED
          BY <3>1, <4>1
      <3>3. Len(target'[a]) = Size[a] /\ a \notin mem.completed
        BY <1>5, <3>1, <3>2 DEF SourceMissing, ModeSkip
      <3> QED
        BY <1>5, <2>1, <3>3, CauseAbort DEF SourceMissing
    <2> QED
      BY <2>2, <2>3
  <1>6. ASSUME NEW a \in Assets, OpenAppend(a)
        PROVE  CauseInv'
    BY <1>6 DEF OpenAppend, ModeRange, CauseInv
  <1>7. ASSUME NEW a \in Assets, CreateTarget(a)
        PROVE  CauseInv'
    <2>1. mem'.completed = mem.completed /\ mem'.found = mem.found
      BY <1>7 DEF CreateTarget, SetPartial, TypeOK, Manifests
    <2> QED
      BY <1>7, <2>1 DEF CreateTarget, ModeWhole, CauseInv
  <1>8. CASE OpenSource
    BY <1>8, CauseQuiet DEF OpenSource, Copying
  <1>9. CASE OpenSourceRefused
    <2>1. cur \in job /\ cur \notin mem.completed /\ cur \in Assets
      BY <1>9 DEF OpenSourceRefused, OwnFile, CauseInv, Copying, TypeOK
    <2>2. CASE cur \notin source
      BY <1>9, <2>1, <2>2, CauseAbort DEF OpenSourceRefused
    <2>3. CASE cur \in source
      <3>1. ~(written < Size[cur])
        BY <1>9, <2>3 DEF OpenSourceRefused, OpensSource, SatisfiableRange
      <3>2. /\ written = Len(target[cur])
            /\ Len(target[cur]) <= Size[cur]
        BY <1>9, <2>1 DEF OpenSourceRefused, PrefixInv, TargetIsPrefix, Copying
      <3>3. written \in Nat /\ Size[cur] \in Nat
        BY <2>1, SizeAssumption DEF TypeOK
      <3>4. Len(target'[cur]) = Size[cur]
        BY <1>9, <3>1, <3>2, <3>3 DEF OpenSourceRefused
      <3> QED
        BY <1>9, <2>1, <3>4, CauseAbort DEF OpenSourceRefused
    <2> QED
      BY <2>2, <2>3
  <1>10. CASE CopyChunk
    <2>1. PICK n \in 1..Chunk : mem' = SetPartial(mem, cur, written + n)
      BY <1>10 DEF CopyChunk
    <2>2. mem'.completed = mem.completed /\ mem'.found = mem.found
      BY <2>1 DEF SetPartial, TypeOK, Manifests
    <2> QED
      BY <1>10, <2>2 DEF CopyChunk, CauseInv, Copying
  <1>11. CASE EndOfFile
    <2>1. written = Size[cur]
      <3>1. cur \in Assets /\ written = Len(target[cur])
        BY <1>11 DEF EndOfFile, PrefixInv, Copying, TypeOK
      <3>2. Len(target[cur]) <= Size[cur] /\ written >= Size[cur]
        BY <1>11, <3>1 DEF EndOfFile, AtEnd, PrefixInv, TargetIsPrefix
      <3>3. written \in Nat /\ Size[cur] \in Nat
        BY <3>1, SizeAssumption DEF TypeOK
      <3> QED
        BY <3>1, <3>2, <3>3
    <2>2. mem'.completed = mem.completed \union {cur} /\ mem'.found = mem.found
      BY <1>11, <2>1 DEF EndOfFile, MarkCompleted, TypeOK, Manifests
    <2> QED
      BY <1>11, <2>1, <2>2 DEF EndOfFile, CauseInv, Copying
  <1>12. CASE IOError
    BY <1>12, CauseAbort DEF IOError
  <1>13. CASE Conclude
    <2>1. mem'.completed = mem.completed /\ mem'.found = mem.found
      BY <1>13 DEF Conclude, TypeOK, Manifests
    <2> QED
      BY <1>13, <2>1 DEF Conclude, CauseInv, Copying
  <1>14. CASE Return \/ FinishRefused \/ Crash \/ RemoveManifest
    BY <1>14, CauseForget DEF Return, FinishRefused, Crash, RemoveManifest
  <1>15. CASE Finish \/ Rollback
    BY <1>15, CauseQuiet DEF Finish, Rollback, Copying
  <1>16. ASSUME NEW a \in Assets, Vanish(a)
         PROVE  CauseInv'
    <2>1. UNCHANGED <<disk, mem, pc, job, target, cur, faulty>> /\ source' \subseteq source
      BY <1>16 DEF Vanish
    <2>2. used["removal"] > 0 => used'["removal"] > 0
      BY <1>16 DEF Vanish, Spend, TypeOK, Events
    <2> QED
      BY <2>1, <2>2 DEF CauseInv, Complete
  <1>17. ASSUME NEW a \in Assets, RemoveReplica(a)
         PROVE  CauseInv'
    <2>1. UNCHANGED <<disk, mem, pc, cur>>
      BY <1>17 DEF RemoveReplica
    <2>2. used'["removal"] > 0
      BY <1>17 DEF RemoveReplica, Spend, TypeOK, Events
    <2> QED
      BY <2>1, <2>2 DEF CauseInv
  <1>18. CASE UNCHANGED vars
    BY <1>18 DEF vars, CauseInv, Complete
  <1> QED
    BY <1>1, <1>2, <1>3, <1>4, <1>5, <1>6, <1>7, <1>8, <1>9, <1>10, <1>11,
       <1>12, <1>13, <1>14, <1>15, <1>16, <1>17, <1>18
    DEF Next, Step, Environment, ForFile

\* Whoever calls the executor, and whatever else befalls the directory: a job
\* that fails had an injected failure, a source file that is gone, or a file
\* whole at the target that no manifest lists.
THEOREM FailureHasCause == Spec => []RemoteFailureHasCause
  <1>1. Init => CauseInv
    BY DEF Init, CauseInv, Copying
  <1>2. TypeOK /\ PrefixInv /\ OwnFile /\ CauseInv /\ [Next]_vars => CauseInv'
    BY CauseStep
  <1>3. CauseInv => RemoteFailureHasCause
    BY DEF CauseInv, RemoteFailureHasCause
  <1> QED
    BY <1>1, <1>2, <1>3, TypeCorrect, PrefixAlways, OwnFileAlways, PTL DEF Spec

\* The counts of refused Finish calls and of crashes only grow.
LEMMA CountsGrow ==
  TypeOK /\ [Next]_vars =>
    /\ used["refusal"] # 0 => used'["refusal"] # 0
    /\ used["crash"] # 0 => used'["crash"] # 0
  <1> SUFFICES ASSUME TypeOK, [Next]_vars
               PROVE  /\ used["refusal"] # 0 => used'["refusal"] # 0
                      /\ used["crash"] # 0 => used'["crash"] # 0
    OBVIOUS
  <1>1. CASE UNCHANGED used
    BY <1>1
  <1>2. ASSUME NEW e \in Events, Spend(e)
        PROVE  /\ used["refusal"] # 0 => used'["refusal"] # 0
               /\ used["crash"] # 0 => used'["crash"] # 0
    BY <1>2 DEF Spend, TypeOK, Events
  <1>3. UNCHANGED used \/ \E e \in Events : Spend(e)
    BY DEF Next, Step, Environment, vars, Begin, WriteManifest,
      WriteManifestFails, ForFile, Skip, SourceMissing, OpenAppend,
      CreateTarget, OpenSource, OpenSourceRefused, CopyChunk, EndOfFile,
      IOError, Conclude, Return, Finish, FinishRefused, Rollback,
      RemoveManifest, Crash, Vanish, RemoveReplica, Events
  <1> QED
    BY <1>1, <1>2, <1>3

LEMMA CleanStep ==
  ASSUME Cleanup = TRUE
  PROVE  TypeOK /\ OwnFile /\ CleanInv /\ [Next]_vars => CleanInv'
  <1> DEFINE Clean ==
        /\ pc = "idle" => disk = NoManifest
        /\ pc # "idle" => mem.completed \subseteq job
        /\ pc \in {"start", "next", "mark"} => job \subseteq todo \union mem.completed
        /\ pc \in Copying => job \subseteq todo \union mem.completed \union {cur}
        /\ pc \in {"verified", "done"} => mem.state = "VERIFIED"
  <1> SUFFICES ASSUME TypeOK, OwnFile, CleanInv, [Next]_vars,
                      used'["refusal"] = 0, used'["crash"] = 0
               PROVE  Clean'
    BY DEF CleanInv
  <1>a. Clean
    BY CountsGrow DEF CleanInv
  <1>b. ~FinishRefused /\ ~Crash
    BY DEF FinishRefused, Crash, Spend, TypeOK, Events
  <1>1. ASSUME NEW S \in Jobs, Begin(S)
        PROVE  Clean'
    <2>1. mem'.completed = {}
      BY <1>1, <1>a DEF Begin, Adopt, NoManifest, NewManifest
    <2> QED
      BY <1>1, <2>1 DEF Begin, Copying
  <1>2. CASE WriteManifest \/ WriteManifestFails
    <2>1. /\ UNCHANGED <<mem, job, todo, cur>>
          /\ pc \in Saving
          /\ pc' \in {"failed", AfterSave}
      BY <1>2 DEF WriteManifest, WriteManifestFails
    <2> QED
      BY <1>a, <2>1 DEF AfterSave, Saving, Copying
  <1>3. ASSUME NEW a \in Assets, Skip(a)
        PROVE  Clean'
    BY <1>a, <1>3 DEF Skip, ModeSkip, Copying
  <1>4. ASSUME Abort, pc # "idle", UNCHANGED job
        PROVE  Clean'
    <2>1. mem'.completed = mem.completed
      BY <1>4 DEF Abort, TypeOK, Manifests
    <2> QED
      BY <1>a, <1>4, <2>1 DEF Abort, Copying
  <1>5. ASSUME NEW a \in Assets, SourceMissing(a)
        PROVE  Clean'
    BY <1>4, <1>5 DEF SourceMissing
  <1>6. ASSUME NEW a \in Assets, OpenAppend(a) \/ CreateTarget(a)
        PROVE  Clean'
    <2>1. /\ pc = "next"
          /\ pc' = "source"
          /\ cur' = a
          /\ todo' = todo \ {a}
          /\ job' = job
          /\ mem'.completed = mem.completed
      BY <1>6 DEF OpenAppend, CreateTarget, SetPartial, TypeOK, Manifests
    <2> QED
      BY <1>a, <2>1 DEF Copying
  <1>7. CASE OpenSource
    BY <1>a, <1>7 DEF OpenSource, Copying
  <1>8. CASE OpenSourceRefused \/ IOError
    BY <1>4, <1>8 DEF OpenSourceRefused, IOError
  <1>9. CASE CopyChunk
    <2>1. PICK n \in 1..Chunk : mem' = SetPartial(mem, cur, written + n)
      BY <1>9 DEF CopyChunk
    <2>2. mem'.completed = mem.completed
      BY <2>1 DEF SetPartial, TypeOK, Manifests
    <2> QED
      BY <1>a, <1>9, <2>2 DEF CopyChunk, Copying
  <1>10. CASE EndOfFile
    <2>1. CASE written = Size[cur]
      <3>1. mem'.completed = mem.completed \union {cur}
        BY <1>10, <2>1 DEF EndOfFile, MarkCompleted, TypeOK, Manifests
      <3>2. cur \in job
        BY <1>10 DEF EndOfFile, OwnFile, Copying
      <3> QED
        BY <1>a, <1>10, <2>1, <3>1, <3>2 DEF EndOfFile, Copying
    <2>2. CASE written # Size[cur]
      BY <1>4, <1>10, <2>2 DEF EndOfFile
    <2> QED
      BY <2>1, <2>2
  <1>11. CASE Conclude
    <2>1. AllCopied(mem, job)
      BY <1>a, <1>11 DEF Conclude, AllCopied
    <2>2. mem'.completed = mem.completed /\ mem'.state = "VERIFIED"
      BY <1>11, <2>1 DEF Conclude, TypeOK, Manifests
    <2> QED
      BY <1>a, <1>11, <2>1, <2>2 DEF Conclude, Copying
  <1>12. ~Return
    BY <1>a DEF Return, Ended
  <1>13. CASE Finish \/ Rollback
    BY <1>a, <1>13 DEF Finish, Rollback, Copying
  <1>14. CASE RemoveManifest
    BY <1>14 DEF RemoveManifest, Forget, Copying
  <1>15. CASE \E a \in Assets : Vanish(a) \/ RemoveReplica(a)
    BY <1>a, <1>15 DEF Vanish, RemoveReplica
  <1>16. CASE UNCHANGED vars
    BY <1>a, <1>16 DEF vars
  <1> QED
    BY <1>b, <1>1, <1>2, <1>3, <1>5, <1>6, <1>7, <1>8, <1>9, <1>10, <1>11,
       <1>12, <1>13, <1>14, <1>15, <1>16
    DEF Next, Step, Environment, ForFile

\* When the caller ends its jobs with Finish or Rollback, a Run that returns
\* without an error is VERIFIED, until a refused Finish or a crash leaves a
\* manifest behind.
THEOREM CleanCallerVerifies ==
  ASSUME Cleanup = TRUE
  PROVE  Spec => []CleanRunVerifies
  <1>1. Init => CleanInv
    BY DEF Init, CleanInv, Copying
  <1>2. TypeOK /\ OwnFile /\ CleanInv /\ [Next]_vars => CleanInv'
    BY CleanStep
  <1>3. TypeOK /\ CleanInv => CleanRunVerifies
    BY DEF TypeOK, CleanInv, CleanRunVerifies, Events
  <1> QED
    BY <1>1, <1>2, <1>3, TypeCorrect, OwnFileAlways, PTL DEF Spec
=============================================================================
