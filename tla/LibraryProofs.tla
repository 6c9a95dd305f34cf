--------------------------- MODULE LibraryProofs ---------------------------
(***************************************************************************)
(* What holds of Library for all assets and handlers, however often files, *)
(* flushes and processes fail.                                             *)
(***************************************************************************)
EXTENDS Library, TLAPS

----------------------------------------------------------------------------
\* What a step makes of the jobs.

\* Only x moves on, to pc.
Moves(x, pc) ==
  /\ job' \in [Actors -> Job]
  /\ \A y \in Actors \ {x} : job'[y] = job[y]
  /\ job'[x].pc = pc

Jobs == job \in [Actors -> Job]

LEMMA IdleIsJob ==
  /\ Idle \in Job /\ Idle.pc = "idle" /\ Idle.asset = NoAsset
  /\ Idle.todo = {} /\ Idle.batch = {} /\ Idle.seen = {}
  BY DEF Idle, Job, Pcs

LEMMA GotoFacts ==
  ASSUME Jobs, NEW x \in Actors, NEW pc \in Pcs, Goto(x, pc)
  PROVE  /\ Moves(x, pc)
         /\ pc = "idle" => job'[x] = Idle
         /\ pc # "idle" => /\ job'[x].asset = job[x].asset /\ job'[x].todo = job[x].todo
                           /\ job'[x].batch = job[x].batch /\ job'[x].seen = job[x].seen
  <1>1. CASE pc = "idle"
    BY <1>1, IdleIsJob DEF Jobs, Goto, Moves
  <1>2. CASE pc # "idle"
    <2>1. job' = [job EXCEPT ![x] = [job[x] EXCEPT !.pc = pc]]
      BY <1>2 DEF Goto, Jobs
    <2>2. [job[x] EXCEPT !.pc = pc] \in Job
      BY DEF Jobs, Job
    <2> QED BY <1>2, <2>1, <2>2 DEF Jobs, Job, Moves
  <1> QED BY <1>1, <1>2

LEMMA EntriesAreAssets ==
  ASSUME sidecar \in (SUBSET Assets) \union {Torn}
  PROVE  Entries \subseteq Assets
  <1>1. CASE sidecar = Torn
    BY <1>1 DEF Entries
  <1>2. CASE sidecar # Torn
    <2>1. sidecar \in SUBSET Assets
      BY <1>2, Zenon
    <2> QED BY <1>2, <2>1 DEF Entries
  <1> QED BY <1>1, <1>2

\* A flush that cannot read the sidecar loses what it lists.
LEMMA ReadFacts ==
  ASSUME Jobs, sidecar \in (SUBSET Assets) \union {Torn}, NEW x \in Actors, ReadSidecar(x)
  PROVE  /\ Moves(x, "truncate")
         /\ job'[x].asset = job[x].asset /\ job'[x].batch = job[x].batch
         /\ job[x].batch \subseteq job'[x].seen /\ job'[x].seen \subseteq Merged(x)
         /\ lost \subseteq lost' /\ lost' \subseteq lost \union Assets
         /\ Entries \subseteq lost' \union job'[x].seen
  <1>1. PICK seen \in {Merged(x), job[x].batch} :
          /\ job' = [job EXCEPT ![x] = [job[x] EXCEPT !.pc = "truncate", !.seen = seen]]
          /\ \/ seen = Merged(x) /\ lost' = lost
             \/ seen = job[x].batch /\ lost' = lost \union (Entries \ job[x].batch)
    BY DEF ReadSidecar, Jobs
  <1>2. Merged(x) \subseteq Assets /\ Entries \subseteq Assets /\ seen \subseteq Merged(x)
        /\ job[x].batch \subseteq seen
    BY EntriesAreAssets DEF Merged, Jobs, Job
  <1>3. [job[x] EXCEPT !.pc = "truncate", !.seen = seen] \in Job
    BY <1>2 DEF Jobs, Job, Pcs
  <1>4. Moves(x, "truncate") /\ job'[x].asset = job[x].asset
        /\ job'[x].batch = job[x].batch /\ job'[x].seen = seen
    BY <1>1, <1>3 DEF Jobs, Job, Moves
  <1>5. /\ lost \subseteq lost' /\ lost' \subseteq lost \union Assets
        /\ Entries \subseteq lost' \union seen
    BY <1>1, <1>2 DEF Merged
  <1> QED BY <1>2, <1>4, <1>5

LEMMA PutFacts ==
  ASSUME Jobs, NEW x \in Actors, Put(x)
  PROVE  /\ Moves(x, AfterFlush(x)) /\ job'[x].todo = {}
         /\ job'[x].batch = {} /\ job'[x].seen = {}
         /\ job'[x].asset = IF AfterFlush(x) = "idle" THEN NoAsset ELSE job[x].asset
  <1>1. AfterFlush(x) \in Pcs
    BY DEF AfterFlush, Pcs
  <1>2. CASE AfterFlush(x) = "idle"
    BY <1>2, IdleIsJob DEF Put, Jobs, Moves
  <1>3. CASE AfterFlush(x) # "idle"
    <2>1. job' = [job EXCEPT ![x] = [Idle EXCEPT !.pc = AfterFlush(x),
                                                 !.asset = job[x].asset]]
      BY <1>3 DEF Put
    <2>2. [Idle EXCEPT !.pc = AfterFlush(x), !.asset = job[x].asset] \in Job
      BY <1>1, IdleIsJob DEF Jobs, Job
    <2> QED BY <1>3, <2>1, <2>2, IdleIsJob DEF Jobs, Job, Moves
  <1> QED BY <1>2, <1>3

\* A deletion ends without a look at the sidecar, or writes it anew.
UnlistEnds(x) == Goto(x, "idle") /\ UNCHANGED clash /\ (UNCHANGED used \/ Spend("io"))
UnlistWrites(x) ==
  /\ Entries # {}
  /\ LET kept == Entries \ {job[x].asset}
     IN  job' = [job EXCEPT ![x].seen = kept,
                            ![x].pc = IF kept = {} THEN "drop" ELSE "truncate"]
  /\ clash' = (clash \/ Flushing # {})
  /\ UNCHANGED used

LEMMA UnlistIs ==
  ASSUME NEW x, Unlist(x)
  PROVE  /\ job[x].pc = "unlist"
         /\ UNCHANGED <<inbox, way, file, writer, sidecar, rows, accepted, deleted, lost>>
         /\ UnlistEnds(x) \/ UnlistWrites(x)
  BY DEF Unlist, UnlistEnds, UnlistWrites

LEMMA UnlistFacts ==
  ASSUME Jobs, sidecar \in (SUBSET Assets) \union {Torn}, NEW x \in Actors,
         UnlistWrites(x)
  PROVE  /\ Moves(x, IF Entries \ {job[x].asset} = {} THEN "drop" ELSE "truncate")
         /\ job'[x].asset = job[x].asset /\ job'[x].batch = job[x].batch
         /\ job'[x].seen = Entries \ {job[x].asset}
  <1> DEFINE kept == Entries \ {job[x].asset}
             pc == IF kept = {} THEN "drop" ELSE "truncate"
  <1>1. job' = [job EXCEPT ![x] = [job[x] EXCEPT !.seen = kept, !.pc = pc]]
    BY DEF UnlistWrites, Jobs
  <1>2. kept \subseteq Assets
    BY EntriesAreAssets
  <1>3. [job[x] EXCEPT !.seen = kept, !.pc = pc] \in Job
    BY <1>2 DEF Jobs, Job, Pcs
  <1> QED BY <1>1, <1>3 DEF Jobs, Job, Moves

LEMMA UploadFacts ==
  ASSUME Jobs, NEW x \in Actors, NEW a \in Assets, Upload(x, a)
  PROVE  /\ Moves(x, "writing") /\ job'[x].asset = a /\ job'[x].batch = {a}
         /\ job'[x].todo = {} /\ job'[x].seen = {}
  <1>1. job' = [job EXCEPT ![x] = [Idle EXCEPT !.pc = "writing", !.asset = a,
                                               !.batch = {a}]]
    BY DEF Upload
  <1>2. [Idle EXCEPT !.pc = "writing", !.asset = a, !.batch = {a}] \in Job
    BY IdleIsJob DEF Job, Pcs
  <1> QED BY <1>1, <1>2, IdleIsJob DEF Jobs, Job, Moves

LEMMA DeleteFacts ==
  ASSUME Jobs, NEW x \in Actors, NEW a \in Assets, Delete(x, a)
  PROVE  /\ Moves(x, "unlink") /\ job'[x].asset = a /\ job'[x].batch = {}
         /\ job'[x].todo = {} /\ job'[x].seen = {}
  <1>1. job' = [job EXCEPT ![x] = [Idle EXCEPT !.pc = "unlink", !.asset = a]]
    BY DEF Delete
  <1>2. [Idle EXCEPT !.pc = "unlink", !.asset = a] \in Job
    BY IdleIsJob DEF Job, Pcs
  <1> QED BY <1>1, <1>2, IdleIsJob DEF Jobs, Job, Moves

LEMMA StartImportFacts ==
  ASSUME Jobs, inbox \subseteq Assets, StartImport
  PROVE  /\ Moves(Importer, "walk") /\ job'[Importer].todo = inbox
         /\ job'[Importer].batch = {} /\ job'[Importer].seen = {}
  <1>0. Importer \in Actors
    BY DEF Actors
  <1>1. job' = [job EXCEPT ![Importer] = [Idle EXCEPT !.pc = "walk", !.todo = inbox]]
    BY DEF StartImport
  <1>2. [Idle EXCEPT !.pc = "walk", !.todo = inbox] \in Job
    BY IdleIsJob DEF Job, Pcs
  <1> QED BY <1>0, <1>1, <1>2, IdleIsJob DEF Jobs, Job, Moves

LEMMA ExamineFacts ==
  ASSUME Jobs, NEW a \in Assets, Examine(a)
  PROVE  /\ Moves(Importer, IF file[a] = "none" THEN "place" ELSE "walk")
         /\ file[a] = "none" => job'[Importer].asset = a
         /\ job'[Importer].todo = job[Importer].todo \ {a}
         /\ job'[Importer].batch = job[Importer].batch
         /\ job'[Importer].seen = job[Importer].seen
  <1>0. Importer \in Actors
    BY DEF Actors
  <1>1. CASE file[a] = "none"
    <2> DEFINE j == [job[Importer] EXCEPT !.pc = "place", !.asset = a,
                                          !.todo = job[Importer].todo \ {a}]
    <2>1. job' = [job EXCEPT ![Importer] = j]
      BY <1>0, <1>1 DEF Examine, Jobs
    <2>2. j \in Job
      BY <1>0 DEF Jobs, Job, Pcs
    <2> QED BY <1>0, <1>1, <2>1, <2>2 DEF Jobs, Job, Moves
  <1>2. CASE file[a] # "none"
    <2> DEFINE j == [job[Importer] EXCEPT !.todo = job[Importer].todo \ {a}]
    <2>1. job' = [job EXCEPT ![Importer] = j]
      BY <1>0, <1>2 DEF Examine, Jobs
    <2>2. j \in Job
      BY <1>0 DEF Jobs, Job, Pcs
    <2> QED BY <1>0, <1>2, <2>1, <2>2 DEF Jobs, Job, Moves, Examine
  <1> QED BY <1>1, <1>2

\* After a file, taken or not, the walk goes on.
LEMMA BatchFacts ==
  ASSUME Jobs, NEW B \in SUBSET Assets,
         job' = [job EXCEPT ![Importer].pc = "walk", ![Importer].batch = @ \union B]
  PROVE  /\ Moves(Importer, "walk") /\ job'[Importer].todo = job[Importer].todo
         /\ job'[Importer].batch = job[Importer].batch \union B
         /\ job'[Importer].seen = job[Importer].seen
  <1>0. Importer \in Actors
    BY DEF Actors
  <1> DEFINE j == [job[Importer] EXCEPT !.pc = "walk",
                                        !.batch = job[Importer].batch \union B]
  <1>1. job' = [job EXCEPT ![Importer] = j]
    BY <1>0 DEF Jobs
  <1>2. j \in Job
    BY <1>0 DEF Jobs, Job, Pcs
  <1> QED BY <1>0, <1>1, <1>2 DEF Jobs, Job, Moves

LEMMA ScanFacts ==
  ASSUME Jobs, sidecar \in (SUBSET Assets) \union {Torn}, NEW x \in Actors, Scan(x)
  PROVE  /\ Moves(x, IF Entries = {} THEN "idle" ELSE "rows")
         /\ job'[x].batch = {} /\ job'[x].seen = {}
  <1>1. CASE Entries = {}
    BY <1>1, IdleIsJob DEF Scan, Jobs, Moves
  <1>2. CASE Entries # {}
    <2>1. job' = [job EXCEPT ![x] = [Idle EXCEPT !.pc = "rows", !.todo = Entries]]
      BY <1>2 DEF Scan
    <2>2. [Idle EXCEPT !.pc = "rows", !.todo = Entries] \in Job
      BY IdleIsJob, EntriesAreAssets DEF Job, Pcs
    <2> QED BY <1>2, <2>1, <2>2, IdleIsJob DEF Jobs, Job, Moves
  <1> QED BY <1>1, <1>2

LEMMA ScanEntryFacts ==
  ASSUME Jobs, NEW x \in Actors, NEW a \in Assets, ScanEntry(x, a)
  PROVE  /\ Moves(x, IF job[x].todo = {a} THEN "idle" ELSE "rows")
         /\ job[x].todo = {a} => job'[x] = Idle
         /\ job[x].todo # {a} => /\ job'[x].asset = job[x].asset
                                 /\ job'[x].batch = job[x].batch
                                 /\ job'[x].seen = job[x].seen
  <1>1. CASE job[x].todo = {a}
    BY <1>1, IdleIsJob DEF ScanEntry, Jobs, Moves
  <1>2. CASE job[x].todo # {a}
    <2> DEFINE j == [job[x] EXCEPT !.todo = job[x].todo \ {a}]
    <2>1. job' = [job EXCEPT ![x] = j]
      BY <1>2 DEF ScanEntry, Jobs
    <2>2. j \in Job
      BY DEF Jobs, Job
    <2> QED BY <1>2, <2>1, <2>2 DEF Jobs, Job, Moves, ScanEntry
  <1> QED BY <1>1, <1>2

LEMMA DieFacts ==
  ASSUME Jobs, NEW X \in SUBSET Actors, Die(X)
  PROVE  /\ job' \in [Actors -> Job]
         /\ \A x \in X : job'[x] = Idle /\ job'[x].pc = "idle" /\ job'[x].batch = {}
                         /\ job'[x].seen = {} /\ job'[x].todo = {}
         /\ \A x \in Actors \ X : job'[x] = job[x]
  BY IdleIsJob DEF Die, Jobs

----------------------------------------------------------------------------
\* Who does what.

HandlerPcs == {"idle", "writing", "read", "truncate", "put", "record", "unlink",
               "unlist", "drop"}
ImporterPcs == {"idle", "walk", "place", "writing", "remove", "read", "truncate",
                "put", "scan", "rows"}

\* A flush of a handler that has something to add adds its asset.
Shape ==
  /\ job[Scanner].pc \in {"idle", "rows"}
  /\ job[Importer].pc \in ImporterPcs
  /\ \A x \in Handlers :
       /\ job[x].pc \in HandlerPcs
       /\ job[x].pc = "writing" => job[x].asset \in Uploadable
       /\ job[x].pc \in {"writing", "read"} => job[x].batch = {job[x].asset}
       /\ job[x].pc \in {"writing", "read", "truncate", "put"} =>
            job[x].batch \in {{}, {job[x].asset}} /\ job[x].asset \in Assets
       /\ job[x].pc \in {"unlink", "unlist", "drop"} => job[x].batch = {}
       /\ job[x].pc \in {"truncate", "put"} => job[x].batch \subseteq job[x].seen

Typed == TypeOK /\ Shape

LEMMA ActorFacts ==
  /\ Importer \in Actors /\ Scanner \in Actors /\ Handlers \subseteq Actors
  /\ Importer # Scanner /\ Importer \notin Handlers /\ Scanner \notin Handlers
  /\ \A x \in Actors : x \in Handlers \/ x = Importer \/ x = Scanner
  BY ActorAssumption DEF Actors

\* A step of one actor keeps the shape if it keeps that actor's.
LEMMA ShapeOf ==
  ASSUME Shape, NEW x \in Actors, NEW pc, Moves(x, pc),
         x = Scanner => pc \in {"idle", "rows"},
         x = Importer => pc \in ImporterPcs,
         x \in Handlers =>
           /\ pc \in HandlerPcs
           /\ pc = "writing" => job'[x].asset \in Uploadable
           /\ pc \in {"writing", "read"} => job'[x].batch = {job'[x].asset}
           /\ pc \in {"writing", "read", "truncate", "put"} =>
                job'[x].batch \in {{}, {job'[x].asset}} /\ job'[x].asset \in Assets
           /\ pc \in {"unlink", "unlist", "drop"} => job'[x].batch = {}
           /\ pc \in {"truncate", "put"} => job'[x].batch \subseteq job'[x].seen
  PROVE  Shape'
  BY ActorFacts DEF Shape, Moves

\* What is no actor's.
Data ==
  /\ inbox \subseteq Assets
  /\ way \in {"copy", "rename", "move"}
  /\ file \in [Assets -> {"none", "part", "whole"}]
  /\ writer \in [Assets -> Actors \union {Nobody}]
  /\ sidecar \in (SUBSET Assets) \union {Torn}
  /\ rows \subseteq Assets
  /\ accepted \subseteq Assets /\ deleted \subseteq Assets /\ lost \subseteq Assets
  /\ clash \in BOOLEAN
  /\ used \in [Events -> Nat]

Holding == {"writing", "record", "unlink", "unlist", "drop", "place", "remove"}

LEMMA TypeOf ==
  ASSUME TypeOK, NEW x \in Actors, NEW pc, Moves(x, pc), Data',
         pc \in Holding => job'[x].asset \in Assets
  PROVE  TypeOK'
  BY DEF TypeOK, Data, Moves, Holding

LEMMA InitTyped == Init => Typed
  <1> SUFFICES ASSUME Init PROVE Typed
    OBVIOUS
  <1>1. \A x \in Actors : job[x] = Idle
    BY DEF Init
  <1>2. /\ job \in [Actors -> Job]
        /\ \A x \in Actors : job[x].pc = "idle" /\ job[x].pc \notin Holding
    BY <1>1, IdleIsJob DEF Init, Holding
  <1>3. Data
    <2>1. sidecar \in (SUBSET Assets) \union {Torn}
      BY DEF Init
    <2> QED BY <2>1, OfferedAssumption DEF Init, Data
  <1>4. TypeOK
    BY <1>2, <1>3 DEF TypeOK, Data, Holding
  <1>5. Shape
    BY <1>2, ActorFacts DEF Shape, HandlerPcs, ImporterPcs
  <1> QED BY <1>4, <1>5 DEF Typed

LEMMA SpendFacts ==
  ASSUME used \in [Events -> Nat], NEW e \in Events, Spend(e)
  PROVE  used' \in [Events -> Nat] /\ used'[e] = used[e] + 1 /\ used'[e] <= Max[e]
         /\ \A i \in Events \ {e} : used'[i] = used[i]
  <1>1. /\ used[e] \in Nat /\ Max[e] \in Nat /\ used[e] < Max[e]
        /\ used' = [used EXCEPT ![e] = used[e] + 1]
    BY MaxAssumption DEF Spend
  <1>2. used[e] + 1 \in Nat /\ used[e] + 1 <= Max[e]
    BY <1>1
  <1> QED BY <1>1, <1>2

\* The steps of a flush and of a scan, which anybody may take.
FlushStep(x) == ReadSidecar(x) \/ Truncate(x) \/ Put(x) \/ FlushFails(x)
ScanStep(x) == Scan(x) \/ \E a \in Assets : ScanEntry(x, a)
HandlerStep(x) ==
  \/ \E a \in Assets : Upload(x, a) \/ Delete(x, a)
  \/ UploadWrites(x) \/ UploadFails(x) \/ Record(x) \/ RecordFails(x)
  \/ Unlink(x) \/ Unlist(x) \/ Drop(x)
ImportStep ==
  \/ StartImport \/ \E a \in Assets : Examine(a)
  \/ Rename \/ StartCopy \/ EndCopy \/ RemoveSource \/ CopyFails \/ EndWalk

LEMMA StepIs ==
  ASSUME [Next]_vars
  PROVE  \/ \E x \in Actors : FlushStep(x) \/ ScanStep(x)
         \/ \E x \in Handlers : HandlerStep(x)
         \/ ImportStep \/ Crash \/ Kill \/ UNCHANGED vars
  BY DEF Next, FlushStep, ScanStep, HandlerStep, ImportStep

LEMMA FlushTyped ==
  ASSUME Typed, NEW x \in Actors, FlushStep(x)
  PROVE  Typed'
  <1>0. Jobs /\ Data /\ job[x] \in Job
    BY DEF Typed, TypeOK, Jobs, Data
  <1>1. CASE ReadSidecar(x)
    <2>1. /\ Moves(x, "truncate") /\ job'[x].asset = job[x].asset
          /\ job'[x].batch = job[x].batch /\ job[x].batch \subseteq job'[x].seen
          /\ lost' \subseteq lost \union Assets
      BY <1>0, <1>1, ReadFacts DEF Data
    <2>2. Data'
      <3>1. used' \in [Events -> Nat]
        BY <1>0, <1>1, SpendFacts DEF ReadSidecar, Data, Events
      <3>2. clash' \in BOOLEAN
        <4>1. clash' = (clash \/ sidecar = Torn \/ Flushing # {})
          BY <1>1 DEF ReadSidecar
        <4> QED BY <4>1, Zenon
      <3> QED BY <1>0, <1>1, <2>1, <3>1, <3>2 DEF ReadSidecar, Data
    <2>3. Shape'
      BY <1>1, <2>1, ShapeOf, ActorFacts
      DEF Typed, Shape, ReadSidecar, HandlerPcs, ImporterPcs
    <2> QED BY <2>1, <2>2, <2>3, TypeOf DEF Typed, Holding
  <1>2. CASE Truncate(x)
    <2>1. /\ Moves(x, "put") /\ job'[x].asset = job[x].asset
          /\ job'[x].batch = job[x].batch /\ job'[x].seen = job[x].seen
      BY <1>0, <1>2, GotoFacts DEF Truncate, Pcs
    <2>2. Data'
      BY <1>0, <1>2 DEF Truncate, Data
    <2>3. Shape'
      BY <1>2, <2>1, ShapeOf, ActorFacts
      DEF Typed, Shape, Truncate, HandlerPcs, ImporterPcs
    <2> QED BY <2>1, <2>2, <2>3, TypeOf DEF Typed, Holding
  <1>3. CASE Put(x)
    <2>1. /\ Moves(x, AfterFlush(x)) /\ job'[x].batch = {}
          /\ job'[x].asset = IF AfterFlush(x) = "idle" THEN NoAsset ELSE job[x].asset
      BY <1>0, <1>3, PutFacts
    <2>2. job[x].seen \subseteq Assets
      BY <1>0 DEF Job
    <2>3. Data'
      <3>1. sidecar' \in (SUBSET Assets) \union {Torn}
        BY <1>3, <2>2 DEF Put
      <3> QED BY <3>1, <1>0, <1>3 DEF Put, Data
    <2>4. AfterFlush(x) \in {"idle", "record", "scan"} /\ x # Scanner
          /\ (x = Importer => AfterFlush(x) = "scan")
          /\ (x \in Handlers => AfterFlush(x) \in {"idle", "record"})
      BY <1>3, ActorFacts DEF AfterFlush, Typed, Shape, Put
    <2>5. Shape'
      BY <2>1, <2>4, ShapeOf DEF Typed, HandlerPcs, ImporterPcs
    <2>6. AfterFlush(x) = "record" => job'[x].asset \in Assets
      BY <1>3, <2>1, <2>4, ActorFacts DEF AfterFlush, Typed, Shape, Put
    <2> QED BY <2>1, <2>3, <2>4, <2>5, <2>6, TypeOf DEF Typed, Holding
  <1>4. CASE FlushFails(x)
    <2> DEFINE pc == IF x = Importer THEN "scan" ELSE "idle"
    <2>1. Moves(x, pc)
      BY <1>0, <1>4, GotoFacts DEF FlushFails, Pcs
    <2>2. Data'
      BY <1>0, <1>4, SpendFacts DEF FlushFails, Data, Events
    <2>3. Shape'
      BY <1>4, <2>1, ShapeOf, ActorFacts
      DEF Typed, Shape, FlushFails, HandlerPcs, ImporterPcs
    <2> QED BY <2>1, <2>2, <2>3, TypeOf DEF Typed, Holding
  <1> QED BY <1>1, <1>2, <1>3, <1>4 DEF FlushStep

LEMMA ScanTyped ==
  ASSUME Typed, NEW x \in Actors, ScanStep(x)
  PROVE  Typed'
  <1>0. Jobs /\ Data /\ job[x] \in Job
    BY DEF Typed, TypeOK, Jobs, Data
  <1>1. CASE Scan(x)
    <2>1. Moves(x, IF Entries = {} THEN "idle" ELSE "rows")
      BY <1>0, <1>1, ScanFacts DEF Data
    <2>2. Data'
      BY <1>0, <1>1 DEF Scan, Data
    <2>3. x \in {Scanner, Importer}
      BY <1>1 DEF Scan
    <2>4. Shape'
      BY <2>1, <2>3, ShapeOf, ActorFacts DEF Typed, ImporterPcs
    <2> QED BY <2>1, <2>2, <2>4, TypeOf DEF Typed, Holding
  <1>2. CASE \E a \in Assets : ScanEntry(x, a)
    <2>1. PICK a \in Assets : ScanEntry(x, a)
      BY <1>2
    <2>2. Moves(x, IF job[x].todo = {a} THEN "idle" ELSE "rows")
      BY <1>0, <2>1, ScanEntryFacts
    <2>3. Data'
      BY <1>0, <2>1 DEF ScanEntry, Data
    <2>4. Shape'
      BY <2>1, <2>2, ShapeOf, ActorFacts
      DEF Typed, Shape, ScanEntry, ImporterPcs, HandlerPcs
    <2> QED BY <2>2, <2>3, <2>4, TypeOf DEF Typed, Holding
  <1> QED BY <1>1, <1>2 DEF ScanStep

LEMMA HandlerTyped ==
  ASSUME Typed, NEW x \in Handlers, HandlerStep(x)
  PROVE  Typed'
  <1>0. Jobs /\ Data /\ x \in Actors /\ job[x] \in Job /\ x # Importer /\ x # Scanner
    BY ActorFacts DEF Typed, TypeOK, Jobs, Data
  <1>1. CASE \E a \in Assets : Upload(x, a)
    <2>1. PICK a \in Assets : Upload(x, a)
      BY <1>1
    <2>2. /\ Moves(x, "writing") /\ job'[x].asset = a /\ job'[x].batch = {a}
          /\ a \in Uploadable
      BY <1>0, <2>1, UploadFacts DEF Upload
    <2>3. Data'
      BY <1>0, <2>1, SpendFacts DEF Upload, Empty, Data, Events
    <2>4. Shape'
      BY <1>0, <2>2, ShapeOf DEF Typed, HandlerPcs
    <2> QED BY <1>0, <2>2, <2>3, <2>4, TypeOf DEF Typed
  <1>2. CASE \E a \in Assets : Delete(x, a)
    <2>1. PICK a \in Assets : Delete(x, a)
      BY <1>2
    <2>2. Moves(x, "unlink") /\ job'[x].asset = a /\ job'[x].batch = {}
      BY <1>0, <2>1, DeleteFacts
    <2>3. Data'
      BY <1>0, <2>1, SpendFacts DEF Delete, Data, Events
    <2>4. Shape'
      BY <1>0, <2>2, ShapeOf DEF Typed, HandlerPcs
    <2> QED BY <1>0, <2>2, <2>3, <2>4, TypeOf DEF Typed
  <1>3. CASE UploadWrites(x)
    <2>1. /\ Moves(x, "read") /\ job'[x].asset = job[x].asset
          /\ job'[x].batch = job[x].batch /\ job[x].asset \in Assets
      BY <1>0, <1>3, GotoFacts DEF UploadWrites, Pcs, Typed, Shape
    <2>2. Data'
      BY <1>0, <1>3, <2>1 DEF UploadWrites, Fill, Data
    <2>3. Shape'
      BY <1>0, <1>3, <2>1, ShapeOf DEF Typed, Shape, UploadWrites, HandlerPcs
    <2> QED BY <1>0, <2>1, <2>2, <2>3, TypeOf DEF Typed, Holding
  <1>4. CASE UploadFails(x) \/ Record(x) \/ RecordFails(x)
    <2>1. Moves(x, "idle")
      BY <1>0, <1>4, GotoFacts DEF UploadFails, Record, RecordFails, Pcs
    <2>2. Data'
      <3>1. CASE UploadFails(x)
        BY <1>0, <3>1, SpendFacts DEF UploadFails, Abandon, Data, Events
      <3>2. CASE Record(x) \/ RecordFails(x)
        <4>1. job[x].asset \in Assets
          BY <3>2 DEF Record, RecordFails, Typed, TypeOK, Actors
        <4>2. used' \in [Events -> Nat]
          BY <3>2, <1>0, SpendFacts DEF Record, RecordFails, Data, Events
        <4> QED BY <1>0, <3>2, <4>1, <4>2 DEF Record, RecordFails, Data
      <3> QED BY <1>4, <3>1, <3>2
    <2>3. Shape'
      BY <1>0, <2>1, ShapeOf DEF Typed, HandlerPcs
    <2> QED BY <1>0, <2>1, <2>2, <2>3, TypeOf DEF Typed, Holding
  <1>5. CASE Unlink(x)
    <2>1. /\ Moves(x, "unlist") /\ job'[x].asset = job[x].asset
          /\ job'[x].batch = job[x].batch /\ job[x].batch = {}
          /\ job[x].asset \in Assets
      BY <1>0, <1>5, GotoFacts DEF Unlink, Pcs, Typed, TypeOK, Shape
    <2>2. Data'
      <3>1. used' \in [Events -> Nat]
        BY <1>0, <1>5, SpendFacts DEF Unlink, Data, Events
      <3> QED BY <1>0, <1>5, <2>1, <3>1 DEF Unlink, Data
    <2>3. Shape'
      BY <1>0, <2>1, ShapeOf DEF Typed, HandlerPcs
    <2> QED BY <1>0, <2>1, <2>2, <2>3, TypeOf DEF Typed
  <1>6. CASE Unlist(x)
    <2>1. CASE UnlistEnds(x)
      <3>1. Moves(x, "idle")
        BY <1>0, <2>1, GotoFacts DEF UnlistEnds, Pcs
      <3>2. Data'
        <4>1. used' \in [Events -> Nat]
          BY <1>0, <2>1, SpendFacts DEF UnlistEnds, Data, Events
        <4> QED BY <1>0, <1>6, <2>1, <4>1, UnlistIs DEF UnlistEnds, Data
      <3>3. Shape'
        BY <1>0, <3>1, ShapeOf DEF Typed, HandlerPcs
      <3> QED BY <1>0, <3>1, <3>2, <3>3, TypeOf DEF Typed, Holding
    <2>2. CASE UnlistWrites(x)
      <3> DEFINE pc == IF Entries \ {job[x].asset} = {} THEN "drop" ELSE "truncate"
      <3>1. Moves(x, pc) /\ job'[x].asset = job[x].asset /\ job'[x].batch = job[x].batch
        BY <1>0, <2>2, UnlistFacts DEF Data
      <3>2. job[x].asset \in Assets
        BY <1>0, <1>6, UnlistIs DEF Typed, TypeOK
      <3>3. Data'
        <4>1. clash' \in BOOLEAN
          <5>1. clash' = (clash \/ Flushing # {})
            BY <2>2 DEF UnlistWrites
          <5> QED BY <5>1, Zenon
        <4> QED BY <1>0, <1>6, <2>2, <4>1, UnlistIs DEF UnlistWrites, Data
      <3>4. job[x].batch = {}
        BY <1>6, UnlistIs DEF Typed, Shape
      <3>5. Shape'
        BY <1>0, <3>1, <3>2, <3>4, ShapeOf DEF Typed, HandlerPcs
      <3> QED BY <1>0, <3>1, <3>2, <3>3, <3>5, TypeOf DEF Typed
    <2> QED BY <1>6, <2>1, <2>2, UnlistIs
  <1>7. CASE Drop(x)
    <2>1. Moves(x, "idle")
      BY <1>0, <1>7, GotoFacts DEF Drop, Pcs
    <2>2. Data'
      <3>1. sidecar' \in (SUBSET Assets) \union {Torn}
        BY <1>7 DEF Drop
      <3> QED BY <3>1, <1>0, <1>7 DEF Drop, Data
    <2>3. Shape'
      BY <1>0, <2>1, ShapeOf DEF Typed, HandlerPcs
    <2> QED BY <1>0, <2>1, <2>2, <2>3, TypeOf DEF Typed, Holding
  <1> QED BY <1>1, <1>2, <1>3, <1>4, <1>5, <1>6, <1>7 DEF HandlerStep

LEMMA ImportTyped ==
  ASSUME Typed, ImportStep
  PROVE  Typed'
  <1> DEFINE x == Importer
             a == job[Importer].asset
  <1>0. /\ Jobs /\ Data /\ x \in Actors /\ job[x] \in Job
        /\ x \notin Handlers /\ x # Scanner
    BY ActorFacts DEF Typed, TypeOK, Jobs, Data
  <1>1. ASSUME NEW pc \in ImporterPcs, Moves(x, pc) PROVE Shape'
    BY <1>0, <1>1, ShapeOf DEF Typed
  <1>2. job[x].pc \in {"writing", "place", "remove"} => a \in Assets
    BY <1>0 DEF Typed, TypeOK
  <1>3. CASE StartImport
    <2>1. Moves(x, "walk")
      BY <1>0, <1>3, StartImportFacts DEF Data
    <2>2. Data'
      <3>1. way' \in {"copy", "rename", "move"}
        BY <1>3, WayAssumption DEF StartImport
      <3> QED BY <3>1, <1>0, <1>3, SpendFacts DEF StartImport, Data, Events
    <2> QED BY <1>0, <1>1, <2>1, <2>2, TypeOf DEF Typed, Holding, ImporterPcs
  <1>4. CASE \E b \in Assets : Examine(b)
    <2>1. PICK b \in Assets : Examine(b)
      BY <1>4
    <2>2. /\ Moves(x, IF file[b] = "none" THEN "place" ELSE "walk")
          /\ file[b] = "none" => job'[x].asset = b
      BY <1>0, <2>1, ExamineFacts
    <2>3. Data'
      BY <1>0, <2>1 DEF Examine, Data
    <2> QED BY <1>0, <1>1, <2>2, <2>3, TypeOf DEF Typed, Holding, ImporterPcs
  <1>5. CASE StartCopy
    <2>1. Moves(x, "writing") /\ job'[x].asset = a /\ a \in Assets
      BY <1>0, <1>2, <1>5, GotoFacts DEF StartCopy, Pcs
    <2>2. Data'
      BY <1>0, <1>5, <2>1 DEF StartCopy, Empty, Data
    <2> QED BY <1>0, <1>1, <2>1, <2>2, TypeOf DEF Typed, ImporterPcs
  <1>6. CASE EndWalk
    <2>1. Moves(x, IF job[x].batch = {} THEN "scan" ELSE "read")
      BY <1>0, <1>6, GotoFacts DEF EndWalk, Pcs
    <2>2. Data'
      BY <1>0, <1>6 DEF EndWalk, Data
    <2> QED BY <1>0, <1>1, <2>1, <2>2, TypeOf DEF Typed, Holding, ImporterPcs
  <1>7. CASE Rename \/ RemoveSource
    <2>1. a \in Assets
      BY <1>2, <1>7 DEF Rename, RemoveSource
    <2>2. Moves(x, "walk")
      BY <1>0, <1>7, <2>1, BatchFacts DEF Rename, RemoveSource, Taken
    <2>3. Data'
      BY <1>0, <1>7, <2>1 DEF Rename, RemoveSource, Data
    <2> QED BY <1>0, <1>1, <2>2, <2>3, TypeOf DEF Typed, Holding, ImporterPcs
  <1>8. CASE EndCopy
    <2>1. a \in Assets
      BY <1>2, <1>8 DEF EndCopy
    <2>2. Data'
      BY <1>0, <1>8, <2>1 DEF EndCopy, Fill, Data
    <2>3. CASE way = "move"
      <3>1. Moves(x, "remove") /\ job'[x].asset = a
        BY <1>0, <1>8, <2>3, GotoFacts DEF EndCopy, Pcs
      <3> QED BY <1>0, <1>1, <2>1, <2>2, <3>1, TypeOf DEF Typed, ImporterPcs
    <2>4. CASE way # "move"
      <3>1. Taken
        BY <1>8, <2>4 DEF EndCopy
      <3>2. Moves(x, "walk")
        BY <1>0, <2>1, <3>1, BatchFacts DEF Taken
      <3> QED BY <1>0, <1>1, <2>2, <3>2, TypeOf DEF Typed, Holding, ImporterPcs
    <2> QED BY <2>3, <2>4
  <1>9. CASE CopyFails
    <2>1. Moves(x, "walk")
      <3>1. job' = [job EXCEPT ![Importer].pc = "walk",
                               ![Importer].batch = @ \union {}]
        BY <1>9 DEF CopyFails, NotTaken, EntryOfFailed
      <3>2. {} \in SUBSET Assets
        OBVIOUS
      <3> QED BY <1>0, <3>1, <3>2, BatchFacts
    <2>2. Data'
      BY <1>0, <1>9, SpendFacts DEF CopyFails, Abandon, SourceStays, Data, Events
    <2> QED BY <1>0, <1>1, <2>1, <2>2, TypeOf DEF Typed, Holding, ImporterPcs
  <1> QED BY <1>3, <1>4, <1>5, <1>6, <1>7, <1>8, <1>9 DEF ImportStep

LEMMA DieTyped ==
  ASSUME Typed, NEW X \in SUBSET Actors, Die(X), used' \in [Events -> Nat]
  PROVE  Typed'
  <1>0. Jobs /\ Data
    BY DEF Typed, TypeOK, Jobs, Data
  <1>1. Data'
    BY <1>0 DEF Die, Abandon, Data
  <1>2. job' \in [Actors -> Job]
        /\ \A x \in Actors : job'[x].pc = "idle" \/ job'[x] = job[x]
    BY <1>0, DieFacts
  <1>3. TypeOK'
    BY <1>1, <1>2 DEF Data, Typed, TypeOK
  <1>4. Shape'
    BY <1>2, ActorFacts DEF Typed, Shape, HandlerPcs, ImporterPcs
  <1> QED BY <1>3, <1>4 DEF Typed

LEMMA TypedStep == Typed /\ [Next]_vars => Typed'
  <1> SUFFICES ASSUME Typed, [Next]_vars PROVE Typed'
    OBVIOUS
  <1>0. used \in [Events -> Nat]
    BY DEF Typed, TypeOK
  <1>1. CASE Crash
    BY <1>0, <1>1, DieTyped, SpendFacts, ActorFacts DEF Crash, Events
  <1>2. CASE Kill
    BY <1>0, <1>2, DieTyped, SpendFacts, ActorFacts DEF Kill, Events
  <1>3. CASE UNCHANGED vars
    BY <1>3 DEF vars, Typed, TypeOK, Shape
  <1> QED BY <1>1, <1>2, <1>3, StepIs, FlushTyped, ScanTyped, HandlerTyped, ImportTyped

LEMMA TypedAlways == Spec => []Typed
  BY InitTyped, TypedStep, PTL DEF Spec

\* No step leaves the sets its variables belong to.
THEOREM TypeCorrect == Spec => []TypeOK
  <1>1. Typed => TypeOK
    BY DEF Typed
  <1> QED BY <1>1, TypedAlways, PTL

----------------------------------------------------------------------------
\* What is listed, known, or about to be, has a file or is being deleted.

Backing == deleted \union {a \in Assets : file[a] # "none"}

Backed ==
  /\ Entries \subseteq Backing /\ rows \subseteq Backing
  /\ \A x \in Actors :
       /\ job[x].batch \subseteq Backing /\ job[x].seen \subseteq Backing
       /\ job[x].pc \in {"writing", "remove", "record"} => job[x].asset \in Backing
  /\ \A x \in Handlers : job[x].pc \in {"unlink", "unlist"} => job[x].asset \in deleted

\* A step of one actor keeps this if it keeps what is common and that actor's.
LEMMA BackedOf ==
  ASSUME Backed, NEW x \in Actors, NEW pc, Moves(x, pc),
         Backing \subseteq Backing', deleted \subseteq deleted',
         Entries' \subseteq Backing', rows' \subseteq Backing',
         job'[x].batch \subseteq Backing', job'[x].seen \subseteq Backing',
         pc \in {"writing", "remove", "record"} => job'[x].asset \in Backing',
         x \in Handlers /\ pc \in {"unlink", "unlist"} => job'[x].asset \in deleted'
  PROVE  Backed'
  BY ActorFacts DEF Backed, Moves

LEMMA TypedFacts ==
  ASSUME Typed
  PROVE  /\ Jobs /\ Data /\ \A x \in Actors : job[x] \in Job
         /\ \A x \in Actors : job[x].pc \in Holding => job[x].asset \in Assets
  BY DEF Typed, TypeOK, Jobs, Data, Holding

LEMMA FlushBacked ==
  ASSUME Typed, Backed, NEW x \in Actors, FlushStep(x)
  PROVE  Backed'
  <1>0. Jobs /\ Data /\ job[x] \in Job
    BY TypedFacts
  <1>1. Backing' = Backing /\ deleted' = deleted /\ rows' = rows
    BY DEF FlushStep, ReadSidecar, Truncate, Put, FlushFails, Backing
  <1>2. /\ Entries \subseteq Backing /\ rows \subseteq Backing
        /\ job[x].batch \subseteq Backing /\ job[x].seen \subseteq Backing
    BY DEF Backed
  <1>3. CASE ReadSidecar(x)
    <2>1. /\ Moves(x, "truncate") /\ job'[x].batch = job[x].batch
          /\ job'[x].seen \subseteq Merged(x)
      BY <1>0, <1>3, ReadFacts DEF Data
    <2>2. Entries' = Entries /\ Merged(x) \subseteq Backing
      BY <1>2, <1>3 DEF ReadSidecar, Merged, Entries
    <2> QED BY <1>1, <1>2, <2>1, <2>2, BackedOf
  <1>4. CASE Truncate(x)
    <2>1. /\ Moves(x, "put") /\ job'[x].batch = job[x].batch /\ job'[x].seen = job[x].seen
      BY <1>0, <1>4, GotoFacts DEF Truncate, Pcs
    <2>2. Entries' = {}
      BY <1>4 DEF Truncate, Entries
    <2> QED BY <1>1, <1>2, <2>1, <2>2, BackedOf
  <1>5. CASE Put(x)
    <2>1. /\ Moves(x, AfterFlush(x)) /\ job'[x].batch = {} /\ job'[x].seen = {}
          /\ job'[x].asset = IF AfterFlush(x) = "idle" THEN NoAsset ELSE job[x].asset
      BY <1>0, <1>5, PutFacts
    <2>2. Entries' \subseteq job[x].seen
      BY <1>5 DEF Put, Entries
    <2>3. AfterFlush(x) \in {"idle", "record", "scan"}
      BY DEF AfterFlush
    <2>4. AfterFlush(x) = "record" => job'[x].asset \in Backing'
      <3> SUFFICES ASSUME AfterFlush(x) = "record" PROVE job[x].asset \in Backing
        BY <1>1, <2>1
      <3>1. x \in Handlers /\ job[x].batch # {} /\ job[x].pc = "put"
        BY <1>5, ActorFacts DEF AfterFlush, Put, Typed, Shape
      <3>2. job[x].batch = {job[x].asset}
        BY <3>1 DEF Typed, Shape
      <3> QED BY <3>2, <1>2
    <2> QED BY <1>1, <1>2, <2>1, <2>2, <2>3, <2>4, BackedOf
  <1>6. CASE FlushFails(x)
    <2> DEFINE pc == IF x = Importer THEN "scan" ELSE "idle"
    <2>1. /\ Moves(x, pc)
          /\ job'[x].batch \in {{}, job[x].batch} /\ job'[x].seen \in {{}, job[x].seen}
      BY <1>0, <1>6, GotoFacts, IdleIsJob DEF FlushFails, Pcs
    <2>2. Entries' = Entries
      BY <1>6 DEF FlushFails, Entries
    <2> QED BY <1>1, <1>2, <2>1, <2>2, BackedOf
  <1> QED BY <1>3, <1>4, <1>5, <1>6 DEF FlushStep

LEMMA ScanBacked ==
  ASSUME Typed, Backed, NEW x \in Actors, ScanStep(x)
  PROVE  Backed'
  <1>0. Jobs /\ Data /\ job[x] \in Job
    BY TypedFacts
  <1>1. Backing' = Backing /\ deleted' = deleted /\ Entries' = Entries
    BY DEF ScanStep, Scan, ScanEntry, Backing, Entries
  <1>2. /\ Entries \subseteq Backing /\ rows \subseteq Backing
        /\ job[x].batch \subseteq Backing /\ job[x].seen \subseteq Backing
    BY DEF Backed
  <1>3. CASE Scan(x)
    <2>1. /\ Moves(x, IF Entries = {} THEN "idle" ELSE "rows")
          /\ job'[x].batch = {} /\ job'[x].seen = {} /\ rows' = rows
      BY <1>0, <1>3, ScanFacts DEF Data, Scan
    <2> QED BY <1>1, <1>2, <2>1, BackedOf
  <1>4. CASE \E a \in Assets : ScanEntry(x, a)
    <2>1. PICK a \in Assets : ScanEntry(x, a)
      BY <1>4
    <2>2. /\ Moves(x, IF job[x].todo = {a} THEN "idle" ELSE "rows")
          /\ job'[x].batch \in {{}, job[x].batch} /\ job'[x].seen \in {{}, job[x].seen}
      BY <1>0, <2>1, ScanEntryFacts, IdleIsJob
    <2>3. rows' \subseteq Backing
      BY <1>2, <2>1 DEF ScanEntry, Backing
    <2> QED BY <1>1, <1>2, <2>2, <2>3, BackedOf
  <1> QED BY <1>3, <1>4 DEF ScanStep

LEMMA HandlerBacked ==
  ASSUME Typed, Backed, NEW x \in Handlers, HandlerStep(x)
  PROVE  Backed'
  <1>0. Jobs /\ Data /\ x \in Actors /\ job[x] \in Job
    BY TypedFacts, ActorFacts
  <1>1. /\ Entries \subseteq Backing /\ rows \subseteq Backing
        /\ job[x].batch \subseteq Backing /\ job[x].seen \subseteq Backing
    BY <1>0 DEF Backed
  <1>2. CASE \E a \in Assets : Upload(x, a)
    <2>1. PICK a \in Assets : Upload(x, a)
      BY <1>2
    <2>2. /\ Moves(x, "writing") /\ job'[x].asset = a /\ job'[x].batch = {a}
          /\ job'[x].seen = {}
      BY <1>0, <2>1, UploadFacts
    <2>3. Backing \subseteq Backing' /\ a \in Backing'
      BY <1>0, <2>1 DEF Upload, Empty, Backing, Data
    <2>4. Entries' = Entries /\ rows' = rows /\ deleted' = deleted
      BY <2>1 DEF Upload, Entries
    <2> QED BY <1>0, <1>1, <2>2, <2>3, <2>4, BackedOf
  <1>3. CASE \E a \in Assets : Delete(x, a)
    <2>1. PICK a \in Assets : Delete(x, a)
      BY <1>3
    <2>2. /\ Moves(x, "unlink") /\ job'[x].asset = a /\ job'[x].batch = {}
          /\ job'[x].seen = {}
      BY <1>0, <2>1, DeleteFacts
    <2>3. /\ Backing \subseteq Backing' /\ a \in deleted' /\ deleted \subseteq deleted'
          /\ Entries' = Entries /\ rows' \subseteq rows
      BY <2>1 DEF Delete, Backing, Entries
    <2> QED BY <1>0, <1>1, <2>2, <2>3, BackedOf
  <1>4. CASE UploadWrites(x)
    <2>1. /\ Moves(x, "read") /\ job'[x].batch = job[x].batch /\ job'[x].seen = job[x].seen
      BY <1>0, <1>4, GotoFacts DEF UploadWrites, Pcs
    <2>2. /\ Backing \subseteq Backing' /\ deleted' = deleted /\ rows' = rows
          /\ Entries' = Entries
      BY <1>0, <1>4 DEF UploadWrites, Fill, Backing, Entries, Data
    <2> QED BY <1>0, <1>1, <2>1, <2>2, BackedOf
  <1>5. CASE UploadFails(x) \/ Record(x) \/ RecordFails(x)
    <2>1. Moves(x, "idle") /\ job'[x].batch = {} /\ job'[x].seen = {}
      BY <1>0, <1>5, GotoFacts, IdleIsJob DEF UploadFails, Record, RecordFails, Pcs
    <2>2. Backing' = Backing /\ deleted' = deleted /\ Entries' = Entries
      BY <1>5 DEF UploadFails, Record, RecordFails, Backing, Entries
    <2>3. rows' \subseteq Backing
      <3>1. CASE UploadFails(x)
        BY <1>1, <3>1 DEF UploadFails
      <3>2. CASE Record(x) \/ RecordFails(x)
        <4>1. job[x].asset \in Backing
          BY <1>0, <3>2 DEF Record, RecordFails, Backed
        <4> QED BY <1>1, <3>2, <4>1 DEF Record, RecordFails
      <3> QED BY <1>5, <3>1, <3>2
    <2> QED BY <1>0, <1>1, <2>1, <2>2, <2>3, BackedOf
  <1>6. CASE Unlink(x)
    <2>1. /\ Moves(x, "unlist") /\ job'[x].asset = job[x].asset
          /\ job'[x].batch = job[x].batch /\ job'[x].seen = job[x].seen
      BY <1>0, <1>6, GotoFacts DEF Unlink, Pcs
    <2>2. job[x].asset \in deleted
      BY <1>6 DEF Backed, Unlink
    <2>3. Backing' = Backing /\ deleted' = deleted /\ rows' = rows /\ Entries' = Entries
      BY <1>0, <1>6, <2>2 DEF Unlink, Backing, Entries, Data
    <2> QED BY <1>0, <1>1, <2>1, <2>2, <2>3, BackedOf
  <1>7. CASE Unlist(x)
    <2>1. Backing' = Backing /\ deleted' = deleted /\ rows' = rows /\ Entries' = Entries
      BY <1>7, UnlistIs DEF Backing, Entries
    <2>2. CASE UnlistEnds(x)
      <3>1. Moves(x, "idle") /\ job'[x].batch = {} /\ job'[x].seen = {}
        BY <1>0, <2>2, GotoFacts, IdleIsJob DEF UnlistEnds, Pcs
      <3> QED BY <1>0, <1>1, <2>1, <3>1, BackedOf
    <2>3. CASE UnlistWrites(x)
      <3>1. /\ Moves(x, IF Entries \ {job[x].asset} = {} THEN "drop" ELSE "truncate")
            /\ job'[x].batch = job[x].batch
            /\ job'[x].seen = Entries \ {job[x].asset}
        BY <1>0, <2>3, UnlistFacts DEF Data
      <3> QED BY <1>0, <1>1, <2>1, <3>1, BackedOf
    <2> QED BY <1>7, <2>2, <2>3, UnlistIs
  <1>8. CASE Drop(x)
    <2>1. Moves(x, "idle") /\ job'[x].batch = {} /\ job'[x].seen = {}
      BY <1>0, <1>8, GotoFacts, IdleIsJob DEF Drop, Pcs
    <2>2. Backing' = Backing /\ deleted' = deleted /\ rows' = rows /\ Entries' = {}
      BY <1>8 DEF Drop, Backing, Entries
    <2> QED BY <1>0, <1>1, <2>1, <2>2, BackedOf
  <1> QED BY <1>2, <1>3, <1>4, <1>5, <1>6, <1>7, <1>8 DEF HandlerStep

LEMMA ImportBacked ==
  ASSUME Typed, Backed, ImportStep
  PROVE  Backed'
  <1> DEFINE x == Importer
             a == job[Importer].asset
  <1>0. /\ Jobs /\ Data /\ x \in Actors /\ x \notin Handlers /\ job[x] \in Job
        /\ job[x].pc \in Holding => a \in Assets
    BY TypedFacts, ActorFacts
  <1>1. /\ Entries \subseteq Backing /\ rows \subseteq Backing
        /\ job[x].batch \subseteq Backing /\ job[x].seen \subseteq Backing
    BY <1>0 DEF Backed
  <1>2. rows' = rows /\ deleted' = deleted /\ Entries' = Entries
    BY DEF ImportStep, StartImport, Examine, Rename, StartCopy, EndCopy, RemoveSource,
           CopyFails, EndWalk, Entries
  <1>3. /\ Backing \subseteq Backing'
        /\ StartCopy \/ Rename => a \in Backing'
    BY <1>0
    DEF ImportStep, StartImport, Examine, Rename, StartCopy, EndCopy, RemoveSource,
        CopyFails, EndWalk, Backing, Empty, Fill, Data, Holding
  <1>4. CASE StartImport
    <2>1. Moves(x, "walk") /\ job'[x].batch = {} /\ job'[x].seen = {}
      BY <1>0, <1>4, StartImportFacts DEF Data
    <2> QED BY <1>0, <1>1, <1>2, <1>3, <2>1, BackedOf
  <1>5. CASE \E b \in Assets : Examine(b)
    <2>1. PICK b \in Assets : Examine(b)
      BY <1>5
    <2>2. /\ Moves(x, IF file[b] = "none" THEN "place" ELSE "walk")
          /\ job'[x].batch = job[x].batch /\ job'[x].seen = job[x].seen
      BY <1>0, <2>1, ExamineFacts
    <2> QED BY <1>0, <1>1, <1>2, <1>3, <2>2, BackedOf
  <1>6. CASE StartCopy
    <2>1. /\ Moves(x, "writing") /\ job'[x].asset = a
          /\ job'[x].batch = job[x].batch /\ job'[x].seen = job[x].seen
      BY <1>0, <1>6, GotoFacts DEF StartCopy, Pcs
    <2> QED BY <1>0, <1>1, <1>2, <1>3, <1>6, <2>1, BackedOf
  <1>7. CASE EndWalk
    <2>1. /\ Moves(x, IF job[x].batch = {} THEN "scan" ELSE "read")
          /\ job'[x].batch = job[x].batch /\ job'[x].seen = job[x].seen
      BY <1>0, <1>7, GotoFacts DEF EndWalk, Pcs
    <2> QED BY <1>0, <1>1, <1>2, <1>3, <2>1, BackedOf
  <1>8. ASSUME NEW B \in SUBSET Assets, B \subseteq Backing',
               job' = [job EXCEPT ![Importer].pc = "walk", ![Importer].batch = @ \union B]
        PROVE  Backed'
    <2>1. /\ Moves(x, "walk") /\ job'[x].batch = job[x].batch \union B
          /\ job'[x].seen = job[x].seen
      BY <1>0, <1>8, BatchFacts
    <2> QED BY <1>0, <1>1, <1>2, <1>3, <1>8, <2>1, BackedOf
  <1>9. CASE Taken /\ (Rename \/ RemoveSource \/ EndCopy)
    <2>1. a \in Assets /\ a \in Backing'
      BY <1>0, <1>3, <1>9 DEF Rename, RemoveSource, EndCopy, Backed, Holding
    <2>2. {a} \in SUBSET Assets /\ {a} \subseteq Backing'
      BY <2>1
    <2>3. job' = [job EXCEPT ![Importer].pc = "walk", ![Importer].batch = @ \union {a}]
      BY <1>9 DEF Taken
    <2> HIDE DEF a
    <2> QED BY <1>8, <2>2, <2>3
  <1>10. CASE EndCopy /\ ~Taken
    <2>1. /\ Moves(x, "remove") /\ job'[x].asset = a /\ a \in Backing
          /\ job'[x].batch = job[x].batch /\ job'[x].seen = job[x].seen
      BY <1>0, <1>10, GotoFacts DEF EndCopy, Pcs, Backed
    <2> QED BY <1>0, <1>1, <1>2, <1>3, <2>1, BackedOf
  <1>11. CASE CopyFails
    <2>1. job' = [job EXCEPT ![Importer].pc = "walk",
                             ![Importer].batch = @ \union {}]
      BY <1>11 DEF CopyFails, NotTaken, EntryOfFailed
    <2>2. {} \in SUBSET Assets /\ {} \subseteq Backing'
      OBVIOUS
    <2> QED BY <1>8, <2>1, <2>2
  <1> QED BY <1>4, <1>5, <1>6, <1>7, <1>9, <1>10, <1>11
          DEF ImportStep, Rename, RemoveSource

LEMMA DieBacked ==
  ASSUME Typed, Backed, NEW X \in SUBSET Actors, Die(X)
  PROVE  Backed'
  <1>1. Backing' = Backing /\ deleted' = deleted /\ rows' = rows /\ Entries' = Entries
    BY DEF Die, Backing, Entries
  <1>2. /\ \A x \in X : job'[x].pc = "idle" /\ job'[x].batch = {} /\ job'[x].seen = {}
        /\ \A x \in Actors \ X : job'[x] = job[x]
    BY TypedFacts, DieFacts
  <1> QED BY <1>1, <1>2, ActorFacts DEF Backed

LEMMA BackedStep ==
  ASSUME Typed, Backed, [Next]_vars
  PROVE  Backed'
  <1>1. CASE Crash \/ Kill
    BY <1>1, DieBacked, ActorFacts DEF Crash, Kill
  <1>2. CASE UNCHANGED vars
    BY <1>2 DEF vars, Backed, Backing, Entries
  <1> QED BY <1>1, <1>2, StepIs, FlushBacked, ScanBacked, HandlerBacked, ImportBacked

LEMMA InitBacked == Init => Backed
  <1> SUFFICES ASSUME Init PROVE Backed
    OBVIOUS
  <1>1. \A x \in Actors : job[x] = Idle
    BY DEF Init
  <1>2. Entries = {}
    BY DEF Init, Entries
  <1> QED BY <1>1, <1>2, IdleIsJob, ActorFacts DEF Init, Backed

LEMMA BackedAlways == Spec => [](Typed /\ Backed)
  <1>1. Init => Typed /\ Backed
    BY InitTyped, InitBacked
  <1>2. (Typed /\ Backed) /\ [Next]_vars => (Typed /\ Backed)'
    BY TypedStep, BackedStep
  <1> QED BY <1>1, <1>2, PTL DEF Spec

\* Whatever fails, what .meta.json lists or the database knows has a file, unless
\* its deletion has begun.
THEOREM ListedHaveFiles == Spec => []ListedExists
  <1>1. Typed /\ Backed => ListedExists
    <2> SUFFICES ASSUME Typed, Backed PROVE ListedExists
      OBVIOUS
    <2>1. rows \subseteq Backing
      BY DEF Backed
    <2>2. sidecar # Torn => sidecar \subseteq Backing
      BY DEF Backed, Entries
    <2> QED BY <2>1, <2>2 DEF ListedExists, Backing
  <1> QED BY <1>1, BackedAlways, PTL

----------------------------------------------------------------------------
\* One import of files that nobody uploads.

OneImport == Max["import"] <= 1 /\ Offered \intersect Uploadable = {}

Walking == {"walk", "place", "writing", "remove"}

\* What is still to be taken is untouched, and a source goes after its copy is whole.
Imports ==
  /\ used["import"] = 0 =>
       /\ job[Importer].pc = "idle" /\ inbox = Offered
       /\ \A a \in Offered : file[a] = "none"
  /\ \A a \in Offered \ deleted : a \in inbox \/ file[a] = "whole"
  /\ job[Importer].pc \in Walking =>
       /\ job[Importer].todo \subseteq Offered
       /\ \A a \in job[Importer].todo : file[a] = "none"
  /\ job[Importer].pc \in {"place", "writing", "remove"} =>
       job[Importer].asset \in Offered \ job[Importer].todo
  /\ job[Importer].pc = "place" => file[job[Importer].asset] = "none"
  /\ job[Importer].pc = "writing" =>
       job[Importer].asset \in deleted \/ writer[job[Importer].asset] = Importer
  /\ job[Importer].pc = "remove" =>
       job[Importer].asset \in deleted \/ file[job[Importer].asset] = "whole"

\* A step of anybody but the importer leaves the offered files as they are, but for
\* those it deletes.
LEMMA ImportsOf ==
  ASSUME Typed, Backed, Imports,
         job'[Importer] = job[Importer], inbox' = inbox,
         used'["import"] = used["import"], deleted \subseteq deleted',
         \A a \in Offered :
           \/ file'[a] = file[a] /\ writer'[a] = writer[a]
           \/ file'[a] = file[a] /\ writer[a] # Importer
           \/ file'[a] = "none" /\ a \in deleted
  PROVE  Imports'
  <1>1. \A a \in Offered : file[a] = "none" => file'[a] = "none"
    OBVIOUS
  <1>2. \A a \in Offered \ deleted' : file[a] = "whole" => file'[a] = "whole"
    OBVIOUS
  <1>3. \A a \in Offered \ deleted' : writer[a] = Importer => writer'[a] = Importer
    OBVIOUS
  <1>4. used["import"] = 0 =>
          /\ job'[Importer].pc = "idle" /\ inbox' = Offered
          /\ \A a \in Offered : file'[a] = "none"
    BY <1>1 DEF Imports
  <1>5. job[Importer].pc \in Walking =>
          /\ job[Importer].todo \subseteq Offered
          /\ \A a \in job[Importer].todo : file'[a] = "none"
    BY <1>1 DEF Imports
  <1>6. job[Importer].pc \in {"place", "writing", "remove"} =>
          job[Importer].asset \in Offered \ job[Importer].todo
    BY DEF Imports
  <1>7. /\ job[Importer].pc = "place" => file'[job[Importer].asset] = "none"
        /\ job[Importer].pc = "writing" =>
             job[Importer].asset \in deleted' \/ writer'[job[Importer].asset] = Importer
        /\ job[Importer].pc = "remove" =>
             job[Importer].asset \in deleted' \/ file'[job[Importer].asset] = "whole"
    BY <1>1, <1>2, <1>3, <1>6 DEF Imports
  <1>8. \A a \in Offered \ deleted' : a \in inbox \/ file'[a] = "whole"
    BY <1>2 DEF Imports
  <1> QED BY <1>4, <1>5, <1>6, <1>7, <1>8 DEF Imports

LEMMA HandlerImports ==
  ASSUME Typed, Backed, Imports, OneImport, NEW x \in Handlers, HandlerStep(x)
  PROVE  Imports'
  <1>0. /\ Jobs /\ Data /\ x \in Actors /\ x # Importer /\ Importer \in Actors
        /\ Importer # Nobody
    BY TypedFacts, ActorFacts, NobodyAssumption
  <1>1. inbox' = inbox /\ deleted \subseteq deleted'
    BY DEF HandlerStep, Upload, Delete, UploadWrites, UploadFails, Record, RecordFails,
           Unlink, Unlist, Drop
  <1>2. used'["import"] = used["import"]
    <2>1. "import" \in Events /\ "upload" \in Events /\ "delete" \in Events
          /\ "io" \in Events
      BY DEF Events
    <2> QED BY <1>0, <2>1, SpendFacts
            DEF HandlerStep, Upload, Delete, UploadWrites, UploadFails, Record,
                RecordFails, Unlink, Unlist, Drop, Data
  <1>3. job'[Importer] = job[Importer]
    <2>1. CASE \E a \in Assets : Upload(x, a) \/ Delete(x, a)
      BY <1>0, <2>1, UploadFacts, DeleteFacts DEF Moves
    <2>2. CASE UploadWrites(x) \/ UploadFails(x) \/ Record(x) \/ RecordFails(x)
               \/ Unlink(x) \/ Drop(x)
      BY <1>0, <2>2, GotoFacts
      DEF Moves, UploadWrites, UploadFails, Record, RecordFails, Unlink, Drop, Pcs
    <2>3. CASE Unlist(x)
      BY <1>0, <2>3, UnlistIs, UnlistFacts, GotoFacts DEF UnlistEnds, Moves, Pcs, Data
    <2> QED BY <2>1, <2>2, <2>3 DEF HandlerStep
  <1>4. ASSUME NEW a \in Offered
        PROVE  \/ file'[a] = file[a] /\ writer'[a] = writer[a]
               \/ file'[a] = file[a] /\ writer[a] # Importer
               \/ file'[a] = "none" /\ a \in deleted
    <2>0. a \in Assets /\ a \notin Uploadable
      BY OfferedAssumption DEF OneImport
    <2>1. CASE \E b \in Assets : Upload(x, b) \/ Delete(x, b)
      BY <1>0, <2>0, <2>1 DEF Upload, Delete, Empty, Data
    <2>2. CASE UploadWrites(x)
      <3>1. job[x].asset # a
        BY <2>0, <2>2 DEF Typed, Shape, UploadWrites
      <3> QED BY <1>0, <2>0, <2>2, <3>1 DEF UploadWrites, Fill, Data
    <2>3. CASE UploadFails(x)
      BY <1>0, <2>0, <2>3 DEF UploadFails, Abandon
    <2>4. CASE Record(x) \/ RecordFails(x) \/ Unlist(x) \/ Drop(x)
      BY <2>4 DEF Record, RecordFails, Unlist, Drop
    <2>5. CASE Unlink(x)
      BY <1>0, <2>0, <2>5 DEF Unlink, Backed, Data
    <2> QED BY <2>1, <2>2, <2>3, <2>4, <2>5 DEF HandlerStep
  <1> QED BY <1>1, <1>2, <1>3, <1>4, ImportsOf

\* Steps that leave the importer outside its walk.
LEMMA OutsideWalk ==
  ASSUME Imports, used["import"] # 0, job'[Importer].pc \notin Walking,
         UNCHANGED <<inbox, file, deleted>>, used'["import"] = used["import"]
  PROVE  Imports'
  BY DEF Imports, Walking

LEMMA CommonImports ==
  ASSUME Typed, Backed, Imports, NEW x \in Actors, FlushStep(x) \/ ScanStep(x)
  PROVE  Imports'
  <1>0. Jobs /\ Data /\ Importer \in Actors
    BY TypedFacts, ActorFacts
  <1>1. /\ UNCHANGED <<inbox, file, writer, deleted>>
        /\ used'["import"] = used["import"]
    <2>1. UNCHANGED <<inbox, file, writer, deleted>>
      BY DEF FlushStep, ScanStep, ReadSidecar, Truncate, Put, FlushFails, Scan, ScanEntry
    <2>2. "import" \in Events /\ "io" \in Events
      BY DEF Events
    <2>3. used'["import"] = used["import"]
      BY <1>0, <2>2, SpendFacts
      DEF FlushStep, ScanStep, ReadSidecar, Truncate, Put, FlushFails, Scan, ScanEntry,
          Data
    <2> QED BY <2>1, <2>3
  <1>2. CASE x = Importer
    <2>1. job'[x].pc \in {"truncate", "put", "scan", "idle", "rows"}
      <3>1. CASE ReadSidecar(x) \/ Truncate(x) \/ Put(x) \/ FlushFails(x)
        BY <1>0, <1>2, <3>1, ReadFacts, GotoFacts, PutFacts
        DEF Truncate, FlushFails, AfterFlush, Moves, Pcs, Data
      <3>2. CASE ScanStep(x)
        BY <1>0, <3>2, ScanFacts, ScanEntryFacts DEF ScanStep, Moves, Data
      <3> QED BY <3>1, <3>2 DEF FlushStep
    <2>2. job[x].pc # "idle"
      BY <1>2, ActorFacts
      DEF FlushStep, ScanStep, ReadSidecar, Truncate, Put, FlushFails, Scan, ScanEntry
    <2> QED BY <1>1, <1>2, <2>1, <2>2, OutsideWalk DEF Imports, Walking
  <1>3. CASE x # Importer
    <2>1. job'[Importer] = job[Importer]
      <3>1. CASE ReadSidecar(x) \/ Truncate(x) \/ Put(x) \/ FlushFails(x)
        BY <1>0, <1>3, <3>1, ReadFacts, GotoFacts, PutFacts
        DEF Truncate, FlushFails, Moves, Pcs, Data
      <3>2. CASE ScanStep(x)
        BY <1>0, <1>3, <3>2, ScanFacts, ScanEntryFacts DEF ScanStep, Moves, Data
      <3> QED BY <3>1, <3>2 DEF FlushStep
    <2> QED BY <1>1, <2>1, ImportsOf
  <1> QED BY <1>2, <1>3

LEMMA DieImports ==
  ASSUME Typed, Imports, Crash \/ Kill
  PROVE  Imports'
  <1>0. /\ Jobs /\ Data /\ Importer \in Actors /\ Importer # Scanner
        /\ Importer \notin Handlers /\ Importer # Nobody
        /\ {"import", "crash", "kill"} \subseteq Events
    BY TypedFacts, ActorFacts, NobodyAssumption DEF Events
  <1>1. /\ UNCHANGED <<inbox, file, deleted>> /\ used'["import"] = used["import"]
    BY <1>0, SpendFacts DEF Crash, Kill, Die, Data
  <1>2. CASE Crash
    <2>1. job'[Importer] = job[Importer]
      BY <1>0, <1>2, DieFacts, ActorFacts DEF Crash
    <2>2. \A a \in Assets : writer[a] = Importer => writer'[a] = Importer
      BY <1>0, <1>2 DEF Crash, Die, Abandon
    <2>3. job[Importer].pc = "writing" => job[Importer].asset \in Assets
      BY <1>0, TypedFacts DEF Holding
    <2> QED BY <1>1, <2>1, <2>2, <2>3 DEF Imports
  <1>3. CASE Kill
    <2>1. job'[Importer].pc = "idle"
      BY <1>0, <1>3, DieFacts DEF Kill
    <2>2. job[Importer].pc # "idle"
      BY <1>3 DEF Kill, Die
    <2> QED BY <1>1, <2>1, <2>2, OutsideWalk DEF Imports, Walking
  <1> QED BY <1>2, <1>3

LEMMA ImporterImports ==
  ASSUME Typed, Backed, Imports, OneImport, ImportStep
  PROVE  Imports'
  <1> DEFINE x == Importer
             a == job[Importer].asset
  <1>0. /\ Jobs /\ Data /\ x \in Actors /\ job[x] \in Job /\ x # Nobody
        /\ {"import", "io"} \subseteq Events /\ used \in [Events -> Nat]
        /\ Offered \subseteq Assets
    BY TypedFacts, ActorFacts, NobodyAssumption, OfferedAssumption DEF Events, Data
  <1>1. deleted' = deleted
    BY DEF ImportStep, StartImport, Examine, Rename, StartCopy, EndCopy, RemoveSource,
           CopyFails, EndWalk
  <1>2. CASE StartImport
    <2>1. used["import"] = 0 /\ used'["import"] = 1
      <3>1. /\ used["import"] \in Nat /\ used["import"] < Max["import"]
            /\ used'["import"] = used["import"] + 1 /\ Max["import"] \in Nat
        BY <1>0, <1>2, SpendFacts, MaxAssumption DEF StartImport, Spend
      <3> QED BY <3>1 DEF OneImport
    <2>2. Moves(x, "walk") /\ job'[x].todo = inbox
      BY <1>0, <1>2, StartImportFacts DEF Data
    <2>3. UNCHANGED <<inbox, file>>
      BY <1>2 DEF StartImport
    <2> QED BY <1>1, <2>1, <2>2, <2>3 DEF Imports, Moves
  <1> SUFFICES ASSUME ~StartImport PROVE Imports'
    BY <1>2
  <1>3. used'["import"] = used["import"] /\ used["import"] # 0
    <2>1. used'["import"] = used["import"]
      BY <1>0, SpendFacts
      DEF ImportStep, Examine, Rename, StartCopy, EndCopy, RemoveSource, CopyFails,
          EndWalk
    <2>2. job[Importer].pc # "idle"
      BY DEF ImportStep, Examine, Rename, StartCopy, EndCopy, RemoveSource, CopyFails,
             EndWalk
    <2> QED BY <2>1, <2>2 DEF Imports
  <1> USE <1>0, <1>1, <1>3 DEF Imports, Walking
  <1>4. CASE \E b \in Assets : Examine(b)
    <2>1. PICK b \in Assets : Examine(b)
      BY <1>4
    <2>2. b \in Offered /\ file[b] = "none"
      BY <2>1 DEF Examine
    <2>3. /\ Moves(x, "place") /\ job'[x].asset = b /\ job'[x].todo = job[x].todo \ {b}
      BY <2>1, <2>2, ExamineFacts
    <2>4. UNCHANGED <<inbox, file>>
      BY <2>1, <2>2 DEF Examine
    <2> QED BY <2>1, <2>2, <2>3, <2>4 DEF Moves, Examine
  <1>5. CASE EndWalk
    <2>1. Moves(x, IF job[x].batch = {} THEN "scan" ELSE "read")
      BY <1>5, GotoFacts DEF EndWalk, Pcs
    <2> QED BY <1>5, <2>1, OutsideWalk DEF Moves, EndWalk
  <1>6. CASE StartCopy
    <2>1. Moves(x, "writing") /\ job'[x].asset = a /\ job'[x].todo = job[x].todo
      BY <1>6, GotoFacts DEF StartCopy, Pcs
    <2>2. /\ a \in Offered \ job[x].todo /\ file[a] = "none" /\ a \in Assets
          /\ job[x].todo \subseteq Offered /\ \A b \in job[x].todo : file[b] = "none"
      BY <1>6 DEF StartCopy
    <2>3. /\ inbox' = inbox /\ file' = [file EXCEPT ![a] = "part"]
          /\ writer' = [writer EXCEPT ![a] = Importer]
      BY <1>6 DEF StartCopy, Empty
    <2>4. /\ writer'[a] = Importer /\ \A b \in Assets \ {a} : file'[b] = file[b]
      BY <2>2, <2>3 DEF Data
    <2>5. \A b \in Offered \ deleted : b \in inbox \/ file[b] = "whole"
      OBVIOUS
    <2>6. \A b \in Offered \ deleted : b \in inbox' \/ file'[b] = "whole"
      BY <2>2, <2>3, <2>4, <2>5
    <2>7. \A b \in job[x].todo : file'[b] = "none"
      BY <2>2, <2>4
    <2>8. job'[x].pc = "writing"
      BY <2>1 DEF Moves
    <2> HIDE DEF a, x
    <2> QED BY <2>1, <2>2, <2>4, <2>6, <2>7, <2>8 DEF x
  <1>7. ASSUME NEW B \in SUBSET Assets,
               job' = [job EXCEPT ![Importer].pc = "walk",
                                  ![Importer].batch = @ \union B],
               job[x].pc \in {"place", "writing", "remove"},
               \A b \in Offered \ {a} : file'[b] = file[b],
               \/ inbox' = inbox /\ file'[a] = file[a]
               \/ inbox' \in {inbox, inbox \ {a}} /\ (a \in deleted \/ file'[a] = "whole")
        PROVE  Imports'
    <2>1. Moves(x, "walk") /\ job'[x].todo = job[x].todo
      BY <1>7, BatchFacts
    <2>2. a \in Offered \ job[x].todo
      BY <1>7
    <2>3. \A b \in Offered \ deleted : b \in inbox' \/ file'[b] = "whole"
      BY <1>7
    <2> QED BY <1>7, <2>1, <2>2, <2>3 DEF Moves
  <1>8. a \in Assets => {a} \in SUBSET Assets
    OBVIOUS
  <1>9. ASSUME Taken, job[x].pc \in {"place", "writing", "remove"},
               \A b \in Offered \ {a} : file'[b] = file[b],
               inbox' \in {inbox, inbox \ {a}}, a \in deleted \/ file'[a] = "whole"
        PROVE  Imports'
    <2>1. job' = [job EXCEPT ![Importer].pc = "walk", ![Importer].batch = @ \union {a}]
      BY <1>9 DEF Taken
    <2>2. {a} \in SUBSET Assets
      BY <1>8, <1>9
    <2>3. \/ inbox' = inbox /\ file'[a] = file[a]
          \/ inbox' \in {inbox, inbox \ {a}} /\ (a \in deleted \/ file'[a] = "whole")
      BY <1>9
    <2> HIDE DEF a, x, Imports, Walking
    <2> QED BY <2>1, <2>2, <2>3, <1>7, <1>9
  <1>10. CASE Rename
    <2>1. /\ Taken /\ job[x].pc = "place" /\ a \in Assets
          /\ file' = [file EXCEPT ![a] = "whole"] /\ inbox' = inbox \ {a}
      BY <1>10 DEF Rename
    <2>2. file'[a] = "whole" /\ \A b \in Offered \ {a} : file'[b] = file[b]
      BY <2>1 DEF Data
    <2> HIDE DEF a, x, Imports, Walking
    <2> QED BY <2>1, <2>2, <1>9
  <1>11. CASE RemoveSource
    <2>1. /\ Taken /\ job[x].pc = "remove" /\ file' = file /\ inbox' = inbox \ {a}
          /\ a \in deleted \/ file[a] = "whole"
      BY <1>11 DEF RemoveSource
    <2> HIDE DEF a, x, Imports, Walking
    <2> QED BY <2>1, <1>9
  <1>12. CASE EndCopy
    <2>1. /\ job[x].pc = "writing" /\ inbox' = inbox /\ a \in Offered
          /\ a \in deleted \/ writer[a] = Importer
      BY <1>12 DEF EndCopy
    <2>2. /\ a \in deleted \/ file'[a] = "whole"
          /\ \A b \in Offered \ {a} : file'[b] = file[b]
      BY <1>12, <2>1 DEF EndCopy, Fill, Data
    <2>3. CASE way = "move"
      <3>1. Moves(x, "remove") /\ job'[x].asset = a /\ job'[x].todo = job[x].todo
        BY <1>12, <2>3, GotoFacts DEF EndCopy, Pcs
      <3>2. a \notin job[x].todo /\ job[x].todo \subseteq Offered
            /\ \A b \in job[x].todo : file[b] = "none"
        BY <2>1
      <3>3. \A b \in Offered \ deleted : b \in inbox' \/ file'[b] = "whole"
        BY <2>1, <2>2
      <3>4. \A b \in job[x].todo : file'[b] = "none"
        BY <2>2, <3>2
      <3>5. job'[x].pc = "remove"
        BY <3>1 DEF Moves
      <3> HIDE DEF a
      <3> QED BY <2>1, <2>2, <3>1, <3>2, <3>3, <3>4, <3>5
    <2>4. CASE way # "move"
      <3>1. Taken
        BY <1>12, <2>4 DEF EndCopy
      <3> HIDE DEF a, x, Imports, Walking
      <3> QED BY <2>1, <2>2, <3>1, <1>9
    <2> QED BY <2>3, <2>4
  <1>13. CASE CopyFails
    <2>1. /\ job' = [job EXCEPT ![Importer].pc = "walk", ![Importer].batch = @ \union {}]
          /\ job[x].pc \in {"place", "writing", "remove"}
          /\ inbox' = inbox /\ file' = file
      BY <1>13 DEF CopyFails, NotTaken, EntryOfFailed, SourceStays
    <2>2. {} \in SUBSET Assets
      OBVIOUS
    <2> HIDE DEF a, x, Imports, Walking
    <2> QED BY <2>1, <2>2, <1>7
  <1> QED BY <1>4, <1>5, <1>6, <1>10, <1>11, <1>12, <1>13 DEF ImportStep

LEMMA ImportsStep ==
  ASSUME Typed, Backed, Imports, OneImport, [Next]_vars
  PROVE  Imports'
  <1>1. CASE UNCHANGED vars
    BY <1>1 DEF vars, Imports, Walking
  <1> QED BY <1>1, StepIs, HandlerImports, CommonImports, ImporterImports, DieImports

LEMMA InitImports == Init => Imports
  <1> SUFFICES ASSUME Init PROVE Imports
    OBVIOUS
  <1>1. job[Importer].pc = "idle"
    BY ActorFacts, IdleIsJob DEF Init
  <1>2. /\ inbox = Offered
        /\ \A a \in Offered : file[a] = "none"
    BY OfferedAssumption DEF Init
  <1> QED BY <1>1, <1>2 DEF Imports, Walking

\* However an import ends, killed, or with files that could not be copied or removed,
\* a file of the inbox is there, or the repository has all of it: if the importer runs
\* once, and no client uploads the same files.
THEOREM ImportsKeepFiles ==
  ASSUME Max["import"] <= 1, Offered \intersect Uploadable = {}
  PROVE  Spec => []ImportKeeps
  <1> DEFINE IInv == Typed /\ Backed /\ Imports
  <1>1. OneImport
    BY DEF OneImport
  <1>2. Init => IInv
    BY InitTyped, InitBacked, InitImports
  <1>3. IInv /\ [Next]_vars => IInv'
    BY <1>1, TypedStep, BackedStep, ImportsStep
  <1>4. IInv => ImportKeeps
    BY DEF Imports, ImportKeeps
  <1> QED BY <1>2, <1>3, <1>4, PTL DEF Spec

----------------------------------------------------------------------------
\* An upload that was answered stays listed.

\* What the sidecar owes to be listed: what was answered, or is about to be, but for
\* what a flush could not read.
Recorded == {a \in Assets : \E x \in Handlers : job[x].pc = "record" /\ job[x].asset = a}
Owed == (accepted \union Recorded) \ (deleted \union lost)

\* As long as nothing has clashed, one actor at a time replaces the sidecar, with all
\* of what is owed.
Listing ==
  /\ \A x \in Actors : job[x].pc = "drop" => job[x].seen = {}
  /\ ~clash =>
       /\ \A x, y \in Flushing : x = y
       /\ \A x \in Flushing : Owed \subseteq job[x].seen
       /\ sidecar # Torn => Owed \subseteq sidecar

\* A step of an actor that neither begins nor ends a flush.
LEMMA ListingOf ==
  ASSUME Typed, Listing, NEW x \in Actors, NEW pc, Moves(x, pc),
         pc \notin {"record", "truncate", "put", "drop"},
         UNCHANGED <<sidecar, clash, lost>>, deleted \subseteq deleted',
         accepted' \subseteq accepted \union Recorded
  PROVE  Listing'
  <1>1. Recorded' \subseteq Recorded
    BY ActorFacts DEF Recorded, Moves
  <1>2. Owed' \subseteq Owed
    BY <1>1 DEF Owed
  <1>3. \A y \in Flushing' : y \in Flushing /\ job'[y] = job[y]
    BY DEF Flushing, Moves
  <1>4. \A y \in Actors : job'[y].pc = "drop" => job'[y].seen = {}
    BY DEF Listing, Moves
  <1>5. ASSUME ~clash'
        PROVE  /\ \A y, z \in Flushing' : y = z
               /\ \A y \in Flushing' : Owed' \subseteq job'[y].seen
               /\ sidecar' # Torn => Owed' \subseteq sidecar'
    BY <1>2, <1>3, <1>5 DEF Listing
  <1> QED BY <1>4, <1>5 DEF Listing, Torn

\* One that begins a flush with nobody else in one, or goes on with its own.
LEMMA FlushOf ==
  ASSUME Typed, Listing, NEW x \in Actors, NEW pc \in {"truncate", "put", "drop"},
         Moves(x, pc), UNCHANGED <<accepted, deleted>>, lost \subseteq lost',
         pc = "drop" => job'[x].seen = {},
         ~clash' => /\ ~clash /\ Flushing \subseteq {x}
                    /\ Owed \subseteq job'[x].seen \union lost'
                    /\ sidecar' # Torn => sidecar' = sidecar
  PROVE  Listing'
  <1>1. Recorded' \subseteq Recorded
    BY ActorFacts DEF Recorded, Moves
  <1>2. Owed' \subseteq Owed \ lost'
    BY <1>1 DEF Owed
  <1>3. \A y \in Flushing' : y \in Flushing \/ y = x
    BY DEF Flushing, Moves
  <1>4. \A y \in Actors : job'[y].pc = "drop" => job'[y].seen = {}
    BY DEF Listing, Moves
  <1>5. ASSUME ~clash'
        PROVE  /\ \A y, z \in Flushing' : y = z
               /\ \A y \in Flushing' : Owed' \subseteq job'[y].seen
               /\ sidecar' # Torn => Owed' \subseteq sidecar'
    BY <1>2, <1>3, <1>5 DEF Listing
  <1> QED BY <1>4, <1>5 DEF Listing, Torn

\* One that ends a flush.
LEMMA WriteOf ==
  ASSUME Typed, Listing, NEW x \in Actors, NEW pc, Moves(x, pc),
         pc \notin {"truncate", "put", "drop"}, x \in Flushing,
         UNCHANGED <<accepted, deleted, clash, lost>>,
         Owed \subseteq job[x].seen => Owed' \subseteq sidecar'
  PROVE  Listing'
  <1>1. \A y \in Flushing' : y \in Flushing /\ y # x
    BY DEF Flushing, Moves
  <1>2. \A y \in Actors : job'[y].pc = "drop" => job'[y].seen = {}
    BY DEF Listing, Moves
  <1>3. ASSUME ~clash'
        PROVE  Flushing' = {} /\ Owed' \subseteq sidecar'
    BY <1>1, <1>3 DEF Listing
  <1> QED BY <1>2, <1>3 DEF Listing, Torn

LEMMA FlushListing ==
  ASSUME Typed, Listing, NEW x \in Actors, FlushStep(x)
  PROVE  Listing'
  <1>0. Jobs /\ Data /\ job[x] \in Job
    BY TypedFacts
  <1>1. UNCHANGED <<accepted, deleted>>
    BY DEF FlushStep, ReadSidecar, Truncate, Put, FlushFails
  <1>2. CASE ReadSidecar(x)
    <2>1. /\ Moves(x, "truncate") /\ lost \subseteq lost'
          /\ Entries \subseteq lost' \union job'[x].seen
      BY <1>0, <1>2, ReadFacts DEF Data
    <2>2. /\ sidecar' = sidecar
          /\ clash' = (clash \/ sidecar = Torn \/ Flushing # {})
      BY <1>2 DEF ReadSidecar
    <2>3. ASSUME ~clash'
          PROVE  /\ ~clash /\ Flushing \subseteq {x}
                 /\ Owed \subseteq job'[x].seen \union lost'
      <3>1. ~clash /\ sidecar # Torn /\ Flushing = {}
        BY <2>2, <2>3
      <3>2. Owed \subseteq Entries
        BY <3>1 DEF Listing, Entries
      <3> QED BY <2>1, <3>1, <3>2
    <2> QED BY <1>1, <2>1, <2>2, <2>3, FlushOf
  <1>3. CASE Truncate(x)
    <2>1. Moves(x, "put") /\ job'[x].seen = job[x].seen
      BY <1>0, <1>3, GotoFacts DEF Truncate, Pcs
    <2>2. x \in Flushing /\ sidecar' = Torn /\ clash' = clash /\ lost' = lost
      BY <1>3 DEF Truncate, Flushing
    <2>3. ASSUME ~clash'
          PROVE  ~clash /\ Flushing \subseteq {x} /\ Owed \subseteq job'[x].seen
      BY <2>1, <2>2, <2>3 DEF Listing
    <2> QED BY <1>1, <2>1, <2>2, <2>3, FlushOf
  <1>4. CASE Put(x)
    <2>1. /\ Moves(x, AfterFlush(x))
          /\ job'[x].asset = IF AfterFlush(x) = "idle" THEN NoAsset ELSE job[x].asset
      BY <1>0, <1>4, PutFacts
    <2>2. /\ AfterFlush(x) \in {"idle", "record", "scan"} /\ x \in Flushing
          /\ sidecar' = job[x].seen /\ clash' = clash /\ lost' = lost
      BY <1>4 DEF AfterFlush, Put, Flushing
    <2>3. AfterFlush(x) = "record" => job'[x].asset \in job[x].seen
      <3> SUFFICES ASSUME AfterFlush(x) = "record" PROVE job[x].asset \in job[x].seen
        BY <2>1
      <3>1. x \in Handlers /\ job[x].batch # {} /\ job[x].pc = "put"
        BY <1>4, ActorFacts DEF AfterFlush, Put, Typed, Shape
      <3> QED BY <3>1 DEF Typed, Shape
    <2>4. Recorded' \subseteq Recorded \union job[x].seen
      <3> SUFFICES ASSUME NEW a \in Recorded' PROVE a \in Recorded \union job[x].seen
        OBVIOUS
      <3>1. PICK y \in Handlers : job'[y].pc = "record" /\ job'[y].asset = a
        BY DEF Recorded
      <3>2. CASE y = x
        BY <2>1, <2>3, <3>1, <3>2 DEF Moves
      <3>3. CASE y # x
        BY <2>1, <3>1, <3>3, ActorFacts DEF Moves, Recorded
      <3> QED BY <3>2, <3>3
    <2>5. Owed \subseteq job[x].seen => Owed' \subseteq sidecar'
      BY <1>1, <2>2, <2>4 DEF Owed
    <2> QED BY <1>1, <2>1, <2>2, <2>5, WriteOf
  <1>5. CASE FlushFails(x)
    <2> DEFINE pc == IF x = Importer THEN "scan" ELSE "idle"
    <2>1. Moves(x, pc)
      BY <1>0, <1>5, GotoFacts DEF FlushFails, Pcs
    <2>2. UNCHANGED <<sidecar, clash, lost>>
      BY <1>5 DEF FlushFails
    <2> QED BY <1>1, <2>1, <2>2, ListingOf
  <1> QED BY <1>2, <1>3, <1>4, <1>5 DEF FlushStep

LEMMA ScanListing ==
  ASSUME Typed, Listing, NEW x \in Actors, ScanStep(x)
  PROVE  Listing'
  <1>0. Jobs /\ Data /\ job[x] \in Job
    BY TypedFacts
  <1>1. UNCHANGED <<sidecar, clash, lost, deleted, accepted>>
    BY DEF ScanStep, Scan, ScanEntry
  <1>2. PICK pc \in {"idle", "rows"} : Moves(x, pc)
    <2>1. CASE Scan(x)
      BY <1>0, <2>1, ScanFacts DEF Data
    <2>2. CASE \E a \in Assets : ScanEntry(x, a)
      BY <1>0, <2>2, ScanEntryFacts
    <2> QED BY <2>1, <2>2 DEF ScanStep
  <1> QED BY <1>1, <1>2, ListingOf

LEMMA ImportListing ==
  ASSUME Typed, Listing, ImportStep
  PROVE  Listing'
  <1> DEFINE x == Importer
             a == job[Importer].asset
  <1>0. /\ Jobs /\ Data /\ x \in Actors
        /\ job[x].pc \in Holding => a \in Assets
    BY TypedFacts, ActorFacts
  <1>1. UNCHANGED <<sidecar, clash, lost, deleted, accepted>>
    BY DEF ImportStep, StartImport, Examine, Rename, StartCopy, EndCopy, RemoveSource,
           CopyFails, EndWalk
  <1>2. \E pc \in {"walk", "place", "writing", "remove", "scan", "read"} : Moves(x, pc)
    <2>1. CASE StartImport
      BY <1>0, <2>1, StartImportFacts DEF Data
    <2>2. CASE \E b \in Assets : Examine(b)
      BY <1>0, <2>2, ExamineFacts
    <2>3. CASE StartCopy \/ EndWalk \/ (EndCopy /\ ~Taken)
      BY <1>0, <2>3, GotoFacts DEF StartCopy, EndWalk, EndCopy, Pcs
    <2>4. CASE Taken /\ a \in Assets
      <3>1. {a} \in SUBSET Assets
        BY <2>4
      <3>2. job' = [job EXCEPT ![Importer].pc = "walk",
                               ![Importer].batch = @ \union {a}]
        BY <2>4 DEF Taken
      <3>3. Moves(x, "walk")
        <4> HIDE DEF a
        <4> QED BY <1>0, <3>1, <3>2, BatchFacts
      <3> QED BY <3>3
    <2>5. CASE CopyFails
      <3>1. job' = [job EXCEPT ![Importer].pc = "walk",
                               ![Importer].batch = @ \union {}]
        BY <2>5 DEF CopyFails, NotTaken, EntryOfFailed
      <3>2. {} \in SUBSET Assets
        OBVIOUS
      <3> QED BY <1>0, <3>1, <3>2, BatchFacts
    <2>6. Rename \/ RemoveSource \/ EndCopy => a \in Assets
      BY <1>0 DEF Rename, RemoveSource, EndCopy, Holding
    <2> QED BY <2>1, <2>2, <2>3, <2>4, <2>5, <2>6 DEF ImportStep, Rename, RemoveSource
  <1> QED BY <1>0, <1>1, <1>2, ListingOf

LEMMA HandlerListing ==
  ASSUME Typed, Backed, Listing, NEW x \in Handlers, HandlerStep(x)
  PROVE  Listing'
  <1>0. Jobs /\ Data /\ x \in Actors /\ job[x] \in Job
    BY TypedFacts, ActorFacts
  <1>1. CASE \E a \in Assets : Upload(x, a) \/ Delete(x, a)
    <2>1. PICK pc \in {"writing", "unlink"} : Moves(x, pc)
      BY <1>0, <1>1, UploadFacts, DeleteFacts
    <2>2. UNCHANGED <<sidecar, clash, lost, accepted>> /\ deleted \subseteq deleted'
      BY <1>1 DEF Upload, Delete
    <2> QED BY <1>0, <2>1, <2>2, ListingOf
  <1>2. CASE UploadWrites(x) \/ UploadFails(x) \/ Unlink(x) \/ RecordFails(x)
    <2>1. PICK pc \in {"read", "idle", "unlist"} : Moves(x, pc)
      BY <1>0, <1>2, GotoFacts DEF UploadWrites, UploadFails, Unlink, RecordFails, Pcs
    <2>2. UNCHANGED <<sidecar, clash, lost, accepted, deleted>>
      BY <1>2 DEF UploadWrites, UploadFails, Unlink, RecordFails
    <2> QED BY <1>0, <2>1, <2>2, ListingOf
  <1>3. CASE Record(x)
    <2>1. Moves(x, "idle")
      BY <1>0, <1>3, GotoFacts DEF Record, Pcs
    <2>2. job[x].asset \in Recorded
      <3>1. job[x].pc = "record" /\ job[x].asset \in Assets
        BY <1>0, <1>3, TypedFacts DEF Record, Holding
      <3> QED BY <3>1 DEF Recorded
    <2>3. /\ UNCHANGED <<sidecar, clash, lost, deleted>>
          /\ accepted' \subseteq accepted \union Recorded
      BY <1>3, <2>2 DEF Record
    <2> QED BY <1>0, <2>1, <2>3, ListingOf
  <1>4. CASE Unlist(x) /\ UnlistEnds(x)
    <2>1. Moves(x, "idle")
      BY <1>0, <1>4, GotoFacts DEF UnlistEnds, Pcs
    <2>2. UNCHANGED <<sidecar, clash, lost, accepted, deleted>>
      BY <1>4, UnlistIs DEF UnlistEnds
    <2> QED BY <1>0, <2>1, <2>2, ListingOf
  <1>5. CASE Unlist(x) /\ UnlistWrites(x)
    <2> DEFINE kept == Entries \ {job[x].asset}
               pc == IF kept = {} THEN "drop" ELSE "truncate"
    <2>1. Moves(x, pc) /\ job'[x].seen = kept
      BY <1>0, <1>5, UnlistFacts DEF Data
    <2>2. /\ UNCHANGED <<sidecar, accepted, deleted, lost>>
          /\ clash' = (clash \/ Flushing # {})
      BY <1>5, UnlistIs DEF UnlistWrites
    <2>3. job[x].asset \in deleted
      BY <1>5, UnlistIs DEF Backed
    <2>4. ASSUME ~clash'
          PROVE  ~clash /\ Flushing \subseteq {x} /\ Owed \subseteq job'[x].seen
      <3>1. ~clash /\ Flushing = {}
        BY <2>2, <2>4
      <3>2. Owed \subseteq Entries
        BY <1>5, <3>1 DEF Listing, Entries, UnlistWrites
      <3>3. job[x].asset \notin Owed
        BY <2>3 DEF Owed
      <3> QED BY <2>1, <3>1, <3>2, <3>3
    <2>5. pc \in {"truncate", "put", "drop"} /\ (pc = "drop" => kept = {})
      OBVIOUS
    <2> HIDE DEF pc, kept
    <2> QED BY <1>0, <2>1, <2>2, <2>4, <2>5, FlushOf
  <1>6. CASE Drop(x)
    <2>1. Moves(x, "idle")
      BY <1>0, <1>6, GotoFacts DEF Drop, Pcs
    <2>2. /\ UNCHANGED <<accepted, deleted, clash, lost>> /\ x \in Flushing
          /\ sidecar' = {} /\ job[x].seen = {}
      BY <1>0, <1>6 DEF Drop, Flushing, Listing
    <2>3. Owed' \subseteq Owed
      <3>1. Recorded' \subseteq Recorded
        BY <2>1, ActorFacts DEF Recorded, Moves
      <3> QED BY <2>2, <3>1 DEF Owed
    <2> QED BY <1>0, <2>1, <2>2, <2>3, WriteOf
  <1> QED BY <1>1, <1>2, <1>3, <1>4, <1>5, <1>6, UnlistIs DEF HandlerStep

LEMMA DieListing ==
  ASSUME Typed, Listing, NEW X \in SUBSET Actors, Die(X)
  PROVE  Listing'
  <1>1. UNCHANGED <<sidecar, clash, lost, deleted, accepted>>
    BY DEF Die
  <1>2. \A y \in Actors : job'[y] = job[y] \/ job'[y].pc = "idle"
    BY TypedFacts, DieFacts
  <1>3. Recorded' \subseteq Recorded
    BY <1>2, ActorFacts DEF Recorded
  <1>4. Owed' \subseteq Owed
    BY <1>1, <1>3 DEF Owed
  <1>5. \A y \in Flushing' : y \in Flushing /\ job'[y] = job[y]
    BY <1>2 DEF Flushing
  <1>6. \A y \in Actors : job'[y].pc = "drop" => job'[y].seen = {}
    BY <1>2 DEF Listing
  <1>7. ASSUME ~clash'
        PROVE  /\ \A y, z \in Flushing' : y = z
               /\ \A y \in Flushing' : Owed' \subseteq job'[y].seen
               /\ sidecar' # Torn => Owed' \subseteq sidecar'
    BY <1>1, <1>4, <1>5, <1>7 DEF Listing
  <1> QED BY <1>6, <1>7 DEF Listing, Torn

LEMMA ListingStep ==
  ASSUME Typed, Backed, Listing, [Next]_vars
  PROVE  Listing'
  <1>1. CASE Crash \/ Kill
    BY <1>1, DieListing, ActorFacts DEF Crash, Kill
  <1>2. CASE UNCHANGED vars
    BY <1>2 DEF vars, Listing, Owed, Recorded, Flushing, Torn
  <1> QED BY <1>1, <1>2, StepIs, FlushListing, ScanListing, HandlerListing, ImportListing

LEMMA InitListing == Init => Listing
  <1> SUFFICES ASSUME Init PROVE Listing
    OBVIOUS
  <1>1. \A x \in Actors : job[x].pc = "idle"
    BY IdleIsJob DEF Init
  <1>2. Flushing = {} /\ Recorded = {}
    BY <1>1, ActorFacts DEF Flushing, Recorded
  <1> QED BY <1>1, <1>2 DEF Init, Listing, Owed

\* Whatever fails, .meta.json lists every upload that was answered and not deleted
\* since, as long as no flush has read a sidecar that was torn or that another actor
\* was about to replace, and but for what it listed when a flush could not read it.
THEOREM AnsweredStayListed == Spec => []AcceptedListed
  <1> DEFINE IInv == Typed /\ Backed /\ Listing
  <1>1. Init => IInv
    BY InitTyped, InitBacked, InitListing
  <1>2. IInv /\ [Next]_vars => IInv'
    BY TypedStep, BackedStep, ListingStep
  <1>3. IInv => AcceptedListed
    BY DEF Listing, AcceptedListed, Owed
  <1> QED BY <1>1, <1>2, <1>3, PTL DEF Spec
=============================================================================
