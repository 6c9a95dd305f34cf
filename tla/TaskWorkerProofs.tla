-------------------------- MODULE TaskWorkerProofs --------------------------
(***************************************************************************)
(* Proofs about TaskWorker: type correctness, how often a task is          *)
(* executed, what a migration does to the files and the replica rows, and  *)
(* what the release of its source leaves.                                  *)
(***************************************************************************)
EXTENDS TaskWorker, FiniteSetTheorems, WellFoundedInduction, TLAPS

----------------------------------------------------------------------------
\* The time of a write.

\* A finite set of numbers has a greatest one.  (The library's induction over
\* finite sets is used in the form of a minimal counterexample.)
LEMMA FiniteHasMax ==
  ASSUME NEW S \in SUBSET Nat, IsFiniteSet(S), S # {}
  PROVE  \E m \in S : \A v \in S : v <= m
  <1> DEFINE HasMax(U) == \E m \in U : \A v \in U : v <= m
             Bad == {U \in FiniteSubsetsOf(Nat) : U # {} /\ ~HasMax(U)}
  <1>1. SUFFICES ASSUME ~HasMax(S)
                 PROVE  FALSE
    OBVIOUS
  <1>2. S \in Bad
    BY <1>1 DEF FiniteSubsetsOf
  <1>3. PICK U \in Bad : \A V \in Bad : <<V, U>> \notin StrictSubsetOrdering(Nat)
    <2> HIDE DEF Bad
    <2>1. IsWellFoundedOn(StrictSubsetOrdering(Nat), FiniteSubsetsOf(Nat))
      BY FS_StrictSubsetOrderingWellFounded
    <2>2. Bad \subseteq FiniteSubsetsOf(Nat)
      BY DEF Bad
    <2> QED
      BY <1>2, <2>1, <2>2, WFMin
  <1>4. U \in SUBSET Nat /\ IsFiniteSet(U) /\ U # {} /\ ~HasMax(U)
    BY <1>3 DEF FiniteSubsetsOf
  <1>5. PICK x \in U : TRUE
    BY <1>4
  <1>6. IsFiniteSet(U \ {x})
    BY <1>4, FS_RemoveElement
  <1>7. CASE U \ {x} = {}
    BY <1>4, <1>5, <1>7
  <1>8. CASE U \ {x} # {}
    <2>1. <<U \ {x}, U>> \in StrictSubsetOrdering(Nat)
      BY <1>4, <1>5 DEF StrictSubsetOrdering
    <2>2. U \ {x} \notin Bad
      BY <1>3, <2>1
    <2>3. HasMax(U \ {x})
      BY <1>4, <1>6, <1>8, <2>2 DEF FiniteSubsetsOf
    <2>4. PICK m \in U \ {x} : \A v \in U \ {x} : v <= m
      BY <2>3
    <2>5. m \in Nat /\ x \in Nat
      BY <1>4
    <2>6. CASE x <= m
      BY <1>4, <2>4, <2>6
    <2>7. CASE ~(x <= m)
      <3>1. \A v \in U : v <= x
        BY <1>4, <2>4, <2>5, <2>7
      <3> QED
        BY <1>4, <3>1
    <2> QED
      BY <2>6, <2>7
  <1> QED
    BY <1>7, <1>8

\* The time of a write is a number.
LEMMA NowIsNat ==
  ASSUME dir \in [Nodes -> Rows \union {NoDir}], view \in [Nodes -> Rows \union {NoDir}]
  PROVE  Now \in Nat
  <1> DEFINE A == {m \in Nodes : dir[m] # NoDir}
             B == {m \in Nodes : view[m] # NoDir}
             as == {dir[n].version : n \in A}
             bs == {view[n].version : n \in B}
             stamps == as \union bs
             f == [n \in A |-> dir[n].version]
             g == [n \in B |-> view[n].version]
  <1>1. stamps \in SUBSET Nat
    BY DEF Rows
  <1>2. IsFiniteSet(stamps)
    <2>1. IsFiniteSet(A) /\ IsFiniteSet(B)
      BY FiniteAssumption, FS_Subset
    <2>2. f \in Surjection(A, as) /\ g \in Surjection(B, bs)
      BY DEF Surjection
    <2> HIDE DEF f, g, A, B, as, bs
    <2>3. IsFiniteSet(as) /\ IsFiniteSet(bs)
      BY <2>1, <2>2, FS_Surjection
    <2> QED
      BY <2>3, FS_Union
  <1>3. \E t \in {0} \union {v + 1 : v \in stamps} : \A v \in stamps : v < t
    <2> HIDE DEF stamps
    <2>1. CASE stamps = {}
      BY <2>1
    <2>2. CASE stamps # {}
      <3>1. PICK m \in stamps : \A v \in stamps : v <= m
        BY <1>1, <1>2, <2>2, FiniteHasMax
      <3>2. \A v \in stamps : v < m + 1
        BY <1>1, <3>1
      <3> QED
        BY <3>1, <3>2
    <2> QED
      BY <2>1, <2>2
  <1>4. Now \in {0} \union {v + 1 : v \in stamps}
    <2>1. Now = CHOOSE t \in {0} \union {v + 1 : v \in stamps} : \A v \in stamps : v < t
      BY Zenon DEF Now
    <2> HIDE DEF stamps
    <2> QED
      BY <1>3, <2>1
  <1> QED
    <2> HIDE DEF stamps
    <2> QED
      BY <1>1, <1>4

----------------------------------------------------------------------------
\* What the steps of a worker change in it, and that they change no other.

\* The shapes of those steps that have several parameters.
PutQueue(n, p, q) == worker' = [worker EXCEPT ![n].pc = p, ![n].queue = q]
PutOpen(n, p, s, d, r) ==
  worker' = [worker EXCEPT ![n].pc = p, ![n].assets = s, ![n].todo = s,
                           ![n].src = d, ![n].remote = r]
PutIdle(n, p, i, q) ==
  worker' = [worker EXCEPT ![n] = [Idle EXCEPT !.pc = p, !.id = i, !.queue = q]]
PutNext(n, p, q) ==
  worker' = [worker EXCEPT ![n] = [Idle EXCEPT !.pc = p, !.queue = q]]
PutSafe(n, p, s) == worker' = [worker EXCEPT ![n].pc = p, ![n].safe = s, ![n].todo = s]
PutCur(n, p, s, c) ==
  worker' = [worker EXCEPT ![n].pc = p, ![n].todo = @ \ s, ![n].cur = c]
PutStatus(n, id, x) == task' = [task EXCEPT ![n][id].status = x]

\* A step that only moves on.
LEMMA GotoFacts ==
  ASSUME TypeOK, NEW n \in Nodes, NEW p \in Pcs,
         Goto(n, p)
  PROVE  /\ worker' \in [Nodes -> Workers]
         /\ \A m \in Nodes : m # n => worker'[m] = worker[m]
         /\ W(n)'.pc = p
         /\ W(n)'.id = W(n).id
         /\ W(n)'.queue = W(n).queue
         /\ W(n)'.assets = W(n).assets
         /\ W(n)'.todo = W(n).todo
         /\ W(n)'.src = W(n).src
         /\ W(n)'.remote = W(n).remote
         /\ W(n)'.safe = W(n).safe
         /\ W(n)'.cur = W(n).cur
  <1>1. W(n) \in Workers /\ worker \in [Nodes -> Workers]
    BY DEF TypeOK, W
  <1>2. worker' = [worker EXCEPT ![n] = [W(n) EXCEPT !.pc = p]]
    BY DEF W, Goto
  <1>3. [W(n) EXCEPT !.pc = p] \in Workers
    BY <1>1 DEF Workers
  <1> QED
    BY <1>1, <1>2, <1>3 DEF W, Workers

\* The list of a run.
LEMMA QueueFacts ==
  ASSUME TypeOK, NEW n \in Nodes, NEW p \in Pcs, NEW q \in SUBSET TaskIds,
         PutQueue(n, p, q)
  PROVE  /\ worker' \in [Nodes -> Workers]
         /\ \A m \in Nodes : m # n => worker'[m] = worker[m]
         /\ W(n)'.pc = p
         /\ W(n)'.id = W(n).id
         /\ W(n)'.queue = q
         /\ W(n)'.assets = W(n).assets
         /\ W(n)'.todo = W(n).todo
         /\ W(n)'.src = W(n).src
         /\ W(n)'.remote = W(n).remote
         /\ W(n)'.safe = W(n).safe
         /\ W(n)'.cur = W(n).cur
  <1>1. W(n) \in Workers /\ worker \in [Nodes -> Workers]
    BY DEF TypeOK, W
  <1>2. worker' = [worker EXCEPT ![n] = [W(n) EXCEPT !.pc = p, !.queue = q]]
    BY DEF W, PutQueue
  <1>3. [W(n) EXCEPT !.pc = p, !.queue = q] \in Workers
    BY <1>1 DEF Workers
  <1> QED
    BY <1>1, <1>2, <1>3 DEF W, Workers

\* The opening of a task.
LEMMA OpenFacts ==
  ASSUME TypeOK, NEW n \in Nodes, NEW p \in Pcs, NEW s \in SUBSET Assets,
         NEW d \in Disks \union {NoDisk}, NEW r \in BOOLEAN,
         PutOpen(n, p, s, d, r)
  PROVE  /\ worker' \in [Nodes -> Workers]
         /\ \A m \in Nodes : m # n => worker'[m] = worker[m]
         /\ W(n)'.pc = p
         /\ W(n)'.id = W(n).id
         /\ W(n)'.queue = W(n).queue
         /\ W(n)'.assets = s
         /\ W(n)'.todo = s
         /\ W(n)'.src = d
         /\ W(n)'.remote = r
         /\ W(n)'.safe = W(n).safe
         /\ W(n)'.cur = W(n).cur
  <1>1. W(n) \in Workers /\ worker \in [Nodes -> Workers]
    BY DEF TypeOK, W
  <1>2. worker' = [worker EXCEPT ![n] = [W(n) EXCEPT !.pc = p, !.assets = s, !.todo = s, !.src = d, !.remote = r]]
    BY DEF W, PutOpen
  <1>3. [W(n) EXCEPT !.pc = p, !.assets = s, !.todo = s, !.src = d, !.remote = r] \in Workers
    BY <1>1 DEF Workers
  <1> QED
    BY <1>1, <1>2, <1>3 DEF W, Workers

\* Progress through the assets.
LEMMA TodoFacts ==
  ASSUME TypeOK, NEW n \in Nodes, NEW s \in SUBSET Assets,
         worker' = [worker EXCEPT ![n].todo = @ \ s]
  PROVE  /\ worker' \in [Nodes -> Workers]
         /\ \A m \in Nodes : m # n => worker'[m] = worker[m]
         /\ W(n)'.pc = W(n).pc
         /\ W(n)'.id = W(n).id
         /\ W(n)'.queue = W(n).queue
         /\ W(n)'.assets = W(n).assets
         /\ W(n)'.todo = W(n).todo \ s
         /\ W(n)'.src = W(n).src
         /\ W(n)'.remote = W(n).remote
         /\ W(n)'.safe = W(n).safe
         /\ W(n)'.cur = W(n).cur
  <1>1. W(n) \in Workers /\ worker \in [Nodes -> Workers]
    BY DEF TypeOK, W
  <1>2. worker' = [worker EXCEPT ![n] = [W(n) EXCEPT !.todo = W(n).todo \ s]]
    BY DEF W
  <1>3. [W(n) EXCEPT !.todo = W(n).todo \ s] \in Workers
    BY <1>1 DEF Workers
  <1> QED
    BY <1>1, <1>2, <1>3 DEF W, Workers

\* Nothing left to do.
LEMMA EmptyTodoFacts ==
  ASSUME TypeOK, NEW n \in Nodes, NEW p \in Pcs,
         worker' = [worker EXCEPT ![n].pc = p, ![n].todo = {}]
  PROVE  /\ worker' \in [Nodes -> Workers]
         /\ \A m \in Nodes : m # n => worker'[m] = worker[m]
         /\ W(n)'.pc = p
         /\ W(n)'.id = W(n).id
         /\ W(n)'.queue = W(n).queue
         /\ W(n)'.assets = W(n).assets
         /\ W(n)'.todo = {}
         /\ W(n)'.src = W(n).src
         /\ W(n)'.remote = W(n).remote
         /\ W(n)'.safe = W(n).safe
         /\ W(n)'.cur = W(n).cur
  <1>1. W(n) \in Workers /\ worker \in [Nodes -> Workers]
    BY DEF TypeOK, W
  <1>2. worker' = [worker EXCEPT ![n] = [W(n) EXCEPT !.pc = p, !.todo = {}]]
    BY DEF W
  <1>3. [W(n) EXCEPT !.pc = p, !.todo = {}] \in Workers
    BY <1>1 DEF Workers
  <1> QED
    BY <1>1, <1>2, <1>3 DEF W, Workers

\* The verdicts of a release.
LEMMA JudgeFacts ==
  ASSUME TypeOK, NEW n \in Nodes, NEW p \in Pcs, NEW s \in SUBSET Assets,
         PutSafe(n, p, s)
  PROVE  /\ worker' \in [Nodes -> Workers]
         /\ \A m \in Nodes : m # n => worker'[m] = worker[m]
         /\ W(n)'.pc = p
         /\ W(n)'.id = W(n).id
         /\ W(n)'.queue = W(n).queue
         /\ W(n)'.assets = W(n).assets
         /\ W(n)'.todo = s
         /\ W(n)'.src = W(n).src
         /\ W(n)'.remote = W(n).remote
         /\ W(n)'.safe = s
         /\ W(n)'.cur = W(n).cur
  <1>1. W(n) \in Workers /\ worker \in [Nodes -> Workers]
    BY DEF TypeOK, W
  <1>2. worker' = [worker EXCEPT ![n] = [W(n) EXCEPT !.pc = p, !.safe = s, !.todo = s]]
    BY DEF W, PutSafe
  <1>3. [W(n) EXCEPT !.pc = p, !.safe = s, !.todo = s] \in Workers
    BY <1>1 DEF Workers
  <1> QED
    BY <1>1, <1>2, <1>3 DEF W, Workers

\* The release of one asset.
LEMMA ReleaseFacts ==
  ASSUME TypeOK, NEW n \in Nodes, NEW p \in Pcs, NEW s \in SUBSET Assets, NEW c \in SUBSET Assets,
         PutCur(n, p, s, c)
  PROVE  /\ worker' \in [Nodes -> Workers]
         /\ \A m \in Nodes : m # n => worker'[m] = worker[m]
         /\ W(n)'.pc = p
         /\ W(n)'.id = W(n).id
         /\ W(n)'.queue = W(n).queue
         /\ W(n)'.assets = W(n).assets
         /\ W(n)'.todo = W(n).todo \ s
         /\ W(n)'.src = W(n).src
         /\ W(n)'.remote = W(n).remote
         /\ W(n)'.safe = W(n).safe
         /\ W(n)'.cur = c
  <1>1. W(n) \in Workers /\ worker \in [Nodes -> Workers]
    BY DEF TypeOK, W
  <1>2. worker' = [worker EXCEPT ![n] = [W(n) EXCEPT !.pc = p, !.todo = W(n).todo \ s, !.cur = c]]
    BY DEF W, PutCur
  <1>3. [W(n) EXCEPT !.pc = p, !.todo = W(n).todo \ s, !.cur = c] \in Workers
    BY <1>1 DEF Workers
  <1> QED
    BY <1>1, <1>2, <1>3 DEF W, Workers

\* And of its file.
LEMMA CurFacts ==
  ASSUME TypeOK, NEW n \in Nodes, NEW p \in Pcs, NEW c \in SUBSET Assets,
         worker' = [worker EXCEPT ![n].pc = p, ![n].cur = c]
  PROVE  /\ worker' \in [Nodes -> Workers]
         /\ \A m \in Nodes : m # n => worker'[m] = worker[m]
         /\ W(n)'.pc = p
         /\ W(n)'.id = W(n).id
         /\ W(n)'.queue = W(n).queue
         /\ W(n)'.assets = W(n).assets
         /\ W(n)'.todo = W(n).todo
         /\ W(n)'.src = W(n).src
         /\ W(n)'.remote = W(n).remote
         /\ W(n)'.safe = W(n).safe
         /\ W(n)'.cur = c
  <1>1. W(n) \in Workers /\ worker \in [Nodes -> Workers]
    BY DEF TypeOK, W
  <1>2. worker' = [worker EXCEPT ![n] = [W(n) EXCEPT !.pc = p, !.cur = c]]
    BY DEF W
  <1>3. [W(n) EXCEPT !.pc = p, !.cur = c] \in Workers
    BY <1>1 DEF Workers
  <1> QED
    BY <1>1, <1>2, <1>3 DEF W, Workers

\* A fresh start, with a list.
LEMMA IdleFacts ==
  ASSUME TypeOK, NEW n \in Nodes, NEW p \in Pcs, NEW i \in TaskIds,
         NEW q \in SUBSET TaskIds,
         PutIdle(n, p, i, q)
  PROVE  /\ worker' \in [Nodes -> Workers]
         /\ \A m \in Nodes : m # n => worker'[m] = worker[m]
         /\ W(n)'.pc = p
         /\ W(n)'.id = i
         /\ W(n)'.queue = q
         /\ W(n)'.assets = {} /\ W(n)'.todo = {} /\ W(n)'.safe = {} /\ W(n)'.cur = {}
         /\ W(n)'.src = NoDisk
         /\ W(n)'.remote = FALSE
  <1>1. worker \in [Nodes -> Workers]
    BY DEF TypeOK
  <1>2. [Idle EXCEPT !.pc = p, !.id = i, !.queue = q] \in Workers
    BY DEF Workers, Idle
  <1> QED
    BY <1>1, <1>2 DEF W, Idle, Workers, PutIdle

\* The next of the list.
LEMMA NextFacts ==
  ASSUME TypeOK, NEW n \in Nodes, NEW p \in Pcs, NEW q \in SUBSET TaskIds,
         PutNext(n, p, q)
  PROVE  /\ worker' \in [Nodes -> Workers]
         /\ \A m \in Nodes : m # n => worker'[m] = worker[m]
         /\ W(n)'.pc = p /\ W(n)'.id = Mig /\ W(n)'.queue = q
  <1>1. worker \in [Nodes -> Workers]
    BY DEF TypeOK
  <1>2. [Idle EXCEPT !.pc = p, !.queue = q] \in Workers
    BY DEF Workers, Idle, TaskIds
  <1> QED
    BY <1>1, <1>2 DEF W, Idle, Workers, PutNext

\* The end of a list, or of the process.
LEMMA StopFacts ==
  ASSUME TypeOK, NEW n \in Nodes, worker' = [worker EXCEPT ![n] = Idle]
  PROVE  /\ worker' \in [Nodes -> Workers]
         /\ \A m \in Nodes : m # n => worker'[m] = worker[m]
         /\ W(n)' = Idle
  <1>1. worker \in [Nodes -> Workers]
    BY DEF TypeOK
  <1>2. Idle \in Workers
    BY DEF Workers, Idle, Pcs, TaskIds
  <1> QED
    BY <1>1, <1>2 DEF W

\* One task changes.
LEMMA TaskFacts ==
  ASSUME TypeOK, NEW n \in Nodes, NEW id \in TaskIds, NEW x \in Statuses,
         PutStatus(n, id, x)
  PROVE  /\ task' \in [Nodes -> [TaskIds -> Tasks]]
         /\ \A m \in Nodes, i \in TaskIds :
              /\ task'[m][i].src = task[m][i].src
              /\ task'[m][i].dst = task[m][i].dst
              /\ m # n \/ i # id => task'[m][i] = task[m][i]
         /\ task'[n][id].status = x
  <1>1. task \in [Nodes -> [TaskIds -> Tasks]] /\ task[n][id] \in Tasks
    BY DEF TypeOK
  <1>2. task' = [task EXCEPT ![n] = [task[n] EXCEPT ![id] = [task[n][id] EXCEPT !.status = x]]]
    BY DEF PutStatus
  <1>3. [task[n][id] EXCEPT !.status = x] \in Tasks
    BY <1>1 DEF Tasks
  <1>4. /\ task'[n][id] = [task[n][id] EXCEPT !.status = x]
        /\ \A m \in Nodes, i \in TaskIds : m # n \/ i # id => task'[m][i] = task[m][i]
        /\ task' \in [Nodes -> [TaskIds -> Tasks]]
    BY <1>1, <1>2, <1>3
  <1>5. /\ task'[n][id].status = x
        /\ task'[n][id].src = task[n][id].src
        /\ task'[n][id].dst = task[n][id].dst
    BY <1>1, <1>4 DEF Tasks
  <1> QED
    BY <1>4, <1>5

\* A new task is queued.
LEMMA SubmitFacts ==
  ASSUME TypeOK, NEW n \in Nodes, NEW id \in TaskIds,
         NEW s \in Disks \union {NoDisk}, NEW d \in Disks, SubmitTask(n, id, s, d)
  PROVE  /\ task' \in [Nodes -> [TaskIds -> Tasks]]
         /\ \A m \in Nodes, i \in TaskIds : m # n \/ i # id => task'[m][i] = task[m][i]
         /\ task'[n][id] = [status |-> "QUEUED", src |-> s, dst |-> d]
         /\ task[n][id].status = "none"
  BY DEF TypeOK, SubmitTask, Tasks, Statuses

----------------------------------------------------------------------------
\* Type correctness, and the tasks of the workers.

\* A status that is lost is one that was written to no effect.
LEMMA SameStatus ==
  ASSUME TypeOK, UNCHANGED task, NEW n \in Nodes, NEW id \in TaskIds
  PROVE  PutStatus(n, id, task[n][id].status) /\ task[n][id].status \in Statuses
  <1>1. task \in [Nodes -> [TaskIds -> Tasks]] /\ task[n] \in [TaskIds -> Tasks]
        /\ task[n][id] \in Tasks
    BY DEF TypeOK
  <1>2. [task[n][id] EXCEPT !.status = task[n][id].status] = task[n][id]
        /\ task[n][id].status \in Statuses
    BY <1>1 DEF Tasks
  <1>3. [task[n] EXCEPT ![id] = task[n][id]] = task[n]
    BY <1>1
  <1>4. [task EXCEPT ![n] = task[n]] = task
    BY <1>1
  <1>5. [task EXCEPT ![n][id].status = task[n][id].status]
          = [task EXCEPT ![n] = [task[n] EXCEPT ![id] =
                                   [task[n][id] EXCEPT !.status = task[n][id].status]]]
    OBVIOUS
  <1> QED
    BY <1>2, <1>3, <1>4, <1>5 DEF PutStatus

\* The target of the task that is being executed.
LEMMA RunningTask ==
  ASSUME TypeOK, WorkInv, NEW n \in Nodes, W(n).pc \notin Resting
  PROVE  /\ W(n).id \in TaskIds
         /\ task[n][W(n).id].status \in {"QUEUED", "RUNNING"}
         /\ W(n).id \notin W(n).queue
         /\ Dst(n) \in Disks /\ Host[Dst(n)] = n
         /\ Moves(n) => W(n).src = task[n][Mig].src /\ W(n).src # Dst(n)
  <1>1. W(n) \in Workers
    BY DEF TypeOK, W
  <1>2. /\ W(n).id \in TaskIds /\ task[n][W(n).id].status \in {"QUEUED", "RUNNING"}
        /\ W(n).id \notin W(n).queue
    BY <1>1 DEF WorkInv, Workers
  <1>3. Dst(n) \in Disks /\ Host[Dst(n)] = n
    BY <1>2 DEF WorkInv, Dst
  <1>4. Moves(n) => W(n).src = task[n][Mig].src /\ W(n).src # Dst(n)
    BY <1>2 DEF WorkInv, Moves, Dst
  <1> QED
    BY <1>2, <1>3, <1>4

\* A worker moves on within its task, or ends it.
LEMMA WorkMoved ==
  ASSUME WorkInv, NEW n \in Nodes, UNCHANGED task,
         \A m \in Nodes : m # n => worker'[m] = worker[m],
         W(n)'.queue \subseteq W(n).queue,
         W(n)'.pc \notin Resting =>
           W(n).pc \notin Resting /\ W(n)'.id = W(n).id,
         W(n)'.pc \in Opened => W(n)'.src \in Disks,
         W(n)'.pc \in Releasing => W(n).id = Mig,
         W(n)'.pc \in Opened /\ W(n).id = Mig => W(n)'.src = task[n][Mig].src
  PROVE  WorkInv'
  <1> SUFFICES ASSUME NEW k \in Nodes
               PROVE  /\ \A id \in TaskIds : task'[k][id].status # "none" =>
                           /\ task'[k][id].dst \in Disks /\ Host[task'[k][id].dst] = k
                           /\ id = Mig => task'[k][id].src \in Disks \ {task'[k][id].dst}
                      /\ W(k)'.pc \notin Resting =>
                           /\ task'[k][W(k)'.id].status \in {"QUEUED", "RUNNING"}
                           /\ W(k)'.id \notin W(k)'.queue
                      /\ \A id \in W(k)'.queue : task'[k][id].status = "QUEUED"
                      /\ W(k)'.pc \in Opened => W(k)'.src \in Disks
                      /\ W(k)'.pc \in Releasing => W(k)'.id = Mig
                      /\ W(k)'.pc \in Opened /\ W(k)'.id = Mig =>
                           W(k)'.src = task'[k][Mig].src
    BY DEF WorkInv, Moves
  <1>1. task' = task
    OBVIOUS
  <1>2. CASE k = n
    <2>1. Releasing \subseteq Opened /\ Opened \intersect Resting = {}
      BY DEF Releasing, Opened, Resting
    <2> QED
      BY <1>1, <1>2, <2>1 DEF WorkInv
  <1>3. CASE k # n
    <2>1. W(k)' = W(k)
      BY <1>3 DEF W
    <2> QED
      BY <1>1, <2>1 DEF WorkInv, Moves
  <1> QED
    BY <1>2, <1>3

LEMMA WorkQuiet ==
  ASSUME WorkInv, UNCHANGED <<task, worker>>
  PROVE  WorkInv'
  BY DEF WorkInv, W, Moves

\* A new task is nobody's yet.
LEMMA WorkSubmit ==
  ASSUME TypeOK, WorkInv, UNCHANGED worker,
         NEW id \in TaskIds, NEW s \in Disks \union {NoDisk}, NEW d \in Disks,
         id = Mig => s \in Disks \ {d},
         SubmitTask(Host[d], id, s, d)
  PROVE  WorkInv'
  <1> DEFINE n == Host[d]
  <1>1. n \in Nodes
    BY HostAssumption
  <1>2. /\ \A m \in Nodes, i \in TaskIds : m # n \/ i # id => task'[m][i] = task[m][i]
        /\ task'[n][id] = [status |-> "QUEUED", src |-> s, dst |-> d]
        /\ task[n][id].status = "none"
    BY <1>1, SubmitFacts
  <1>3. /\ task'[n][id].status = "QUEUED"
        /\ task'[n][id].src = s
        /\ task'[n][id].dst = d
    BY <1>2
  <1> SUFFICES ASSUME NEW k \in Nodes
               PROVE  /\ \A i \in TaskIds : task'[k][i].status # "none" =>
                           /\ task'[k][i].dst \in Disks /\ Host[task'[k][i].dst] = k
                           /\ i = Mig => task'[k][i].src \in Disks \ {task'[k][i].dst}
                      /\ W(k).pc \notin Resting =>
                           /\ task'[k][W(k).id].status \in {"QUEUED", "RUNNING"}
                           /\ W(k).id \notin W(k).queue
                      /\ \A i \in W(k).queue : task'[k][i].status = "QUEUED"
                      /\ W(k).pc \in Opened => W(k).src \in Disks
                      /\ W(k).pc \in Releasing => W(k).id = Mig
                      /\ Moves(k) => W(k).src = task'[k][Mig].src
    BY DEF WorkInv, W, Moves
  <1>4. W(k) \in Workers
    BY DEF TypeOK, W
  <1>5. \A i \in TaskIds : task[k][i].status # "none" => task'[k][i] = task[k][i]
    BY <1>2
  <1>6. \A i \in TaskIds : task'[k][i].status # "none" =>
          /\ task'[k][i].dst \in Disks /\ Host[task'[k][i].dst] = k
          /\ i = Mig => task'[k][i].src \in Disks \ {task'[k][i].dst}
    <2> SUFFICES ASSUME NEW i \in TaskIds, task'[k][i].status # "none"
                 PROVE  /\ task'[k][i].dst \in Disks /\ Host[task'[k][i].dst] = k
                        /\ i = Mig => task'[k][i].src \in Disks \ {task'[k][i].dst}
      OBVIOUS
    <2>1. CASE k = n /\ i = id
      BY <1>3, <2>1
    <2>2. CASE k # n \/ i # id
      <3>1. task'[k][i] = task[k][i]
        BY <1>2, <2>2
      <3> QED
        BY <3>1 DEF WorkInv
    <2> QED
      BY <2>1, <2>2
  <1>7. W(k).id \in TaskIds /\ W(k).queue \subseteq TaskIds /\ Mig \in TaskIds
    BY <1>4 DEF Workers, TaskIds
  <1>8. Moves(k) => task'[k][Mig] = task[k][Mig]
    <2>1. Moves(k) => task[k][Mig].status # "none"
      BY DEF WorkInv, Moves, Opened, Resting
    <2> QED
      BY <1>5, <1>7, <2>1
  <1> QED
    BY <1>5, <1>6, <1>7, <1>8 DEF WorkInv

\* A task is taken up or settled: the others of the node keep their status.
LEMMA WorkTask ==
  ASSUME TypeOK, WorkInv, NEW n \in Nodes, NEW id \in TaskIds, NEW x \in Statuses,
         PutStatus(n, id, x),
         \A m \in Nodes : m # n => worker'[m] = worker[m],
         task[n][id].status # "none",
         W(n)'.queue \subseteq W(n).queue \ {id},
         W(n)'.pc \in {"pick", "open"},
         W(n)'.pc = "open" => W(n)'.id = id /\ x \in {"QUEUED", "RUNNING"}
  PROVE  WorkInv'
  <1>1. /\ \A m \in Nodes, i \in TaskIds :
             /\ task'[m][i].src = task[m][i].src
             /\ task'[m][i].dst = task[m][i].dst
             /\ m # n \/ i # id => task'[m][i] = task[m][i]
        /\ task'[n][id].status = x
    BY TaskFacts
  <1> SUFFICES ASSUME NEW k \in Nodes
               PROVE  /\ \A i \in TaskIds : task'[k][i].status # "none" =>
                           /\ task'[k][i].dst \in Disks /\ Host[task'[k][i].dst] = k
                           /\ i = Mig => task'[k][i].src \in Disks \ {task'[k][i].dst}
                      /\ W(k)'.pc \notin Resting =>
                           /\ task'[k][W(k)'.id].status \in {"QUEUED", "RUNNING"}
                           /\ W(k)'.id \notin W(k)'.queue
                      /\ \A i \in W(k)'.queue : task'[k][i].status = "QUEUED"
                      /\ W(k)'.pc \in Opened => W(k)'.src \in Disks
                      /\ W(k)'.pc \in Releasing => W(k)'.id = Mig
                      /\ W(k)'.pc \in Opened /\ W(k)'.id = Mig =>
                           W(k)'.src = task'[k][Mig].src
    BY DEF WorkInv, Moves
  <1>2. \A i \in TaskIds : task'[k][i].status # "none" =>
          /\ task'[k][i].dst \in Disks /\ Host[task'[k][i].dst] = k
          /\ i = Mig => task'[k][i].src \in Disks \ {task'[k][i].dst}
    <2> SUFFICES ASSUME NEW i \in TaskIds, task'[k][i].status # "none"
                 PROVE  /\ task'[k][i].dst \in Disks /\ Host[task'[k][i].dst] = k
                        /\ i = Mig => task'[k][i].src \in Disks \ {task'[k][i].dst}
      OBVIOUS
    <2>1. task[k][i].status # "none"
      BY <1>1
    <2>2. task'[k][i].src = task[k][i].src /\ task'[k][i].dst = task[k][i].dst
      BY <1>1
    <2> QED
      BY <2>1, <2>2 DEF WorkInv
  <1>3. W(k) \in Workers /\ Mig \in TaskIds
    BY DEF TypeOK, W, TaskIds
  <1>4. CASE k = n
    <2>1. W(k)'.pc \notin Opened /\ W(k)'.pc \notin Releasing
      BY <1>4 DEF Opened, Releasing
    <2>2. \A i \in W(k)'.queue : task'[k][i].status = "QUEUED"
      BY <1>1, <1>3, <1>4 DEF WorkInv, Workers
    <2>3. W(k)'.pc \notin Resting =>
            /\ task'[k][W(k)'.id].status \in {"QUEUED", "RUNNING"}
            /\ W(k)'.id \notin W(k)'.queue
      BY <1>1, <1>4 DEF Resting
    <2> QED
      BY <1>2, <2>1, <2>2, <2>3
  <1>5. CASE k # n
    <2>1. W(k)' = W(k)
      BY <1>5 DEF W
    <2>2. \A i \in TaskIds : task'[k][i] = task[k][i]
      BY <1>1, <1>5
    <2>3. W(k).id \in TaskIds /\ W(k).queue \subseteq TaskIds
      BY <1>3 DEF Workers
    <2> QED
      BY <1>2, <1>3, <2>1, <2>2, <2>3 DEF WorkInv, Moves
  <1> QED
    BY <1>4, <1>5

LEMMA TypeInit == Init => TypeOK /\ WorkInv
  <1> SUFFICES ASSUME Init
               PROVE  TypeOK /\ WorkInv
    OBVIOUS
  <1>1. Idle \in Workers /\ NoTask \in Tasks
    BY DEF Idle, Workers, Pcs, TaskIds, NoTask, Tasks, Statuses
  <1>2. \A n \in Nodes : W(n).pc = "idle" /\ W(n).queue = {}
    BY DEF Init, W, Idle
  <1>3. \A n \in Nodes, id \in TaskIds : task[n][id].status = "none"
    BY DEF Init, NoTask
  <1>4. dir \in [Nodes -> Rows \union {NoDir}]
    BY HostAssumption DEF Init, Rows
  <1>5. replica \in [Nodes -> SUBSET (Assets \X Disks)]
    BY PlacedAssumption DEF Init
  <1>6. sidecar \in [Disks -> SUBSET Assets]
    BY DEF Init
  <1>8. TypeOK
    BY <1>1, <1>4, <1>5, <1>6, PlacedAssumption DEF TypeOK, Init, Lists
  <1>7. WorkInv
    BY <1>2, <1>3 DEF WorkInv, Moves, Opened, Releasing, Resting
  <1> QED
    BY <1>7, <1>8

LEMMA TypeSpend ==
  ASSUME TypeOK, NEW e \in Events, Spend(e)
  PROVE  used' \in [Events -> Nat]
  BY DEF TypeOK, Spend

\* A row is written.
LEMMA TypeRow ==
  ASSUME TypeOK, NEW n \in Nodes, NEW d \in Disks
  PROVE  /\ [node |-> n, disk |-> d, version |-> Now] \in Rows
         /\ [dir EXCEPT ![n] = [node |-> n, disk |-> d, version |-> Now]]
              \in [Nodes -> Rows \union {NoDir}]
         /\ WriteOwn(n, d) => dir' \in [Nodes -> Rows \union {NoDir}]
  <1>1. Now \in Nat
    BY NowIsNat DEF TypeOK
  <1>2. [node |-> n, disk |-> d, version |-> Now] \in Rows
    BY <1>1 DEF Rows
  <1>3. dir \in [Nodes -> Rows \union {NoDir}]
    BY DEF TypeOK
  <1> QED
    BY <1>2, <1>3 DEF WriteOwn

\* What a worker step does to its own record, with what the invariants need of it.
LEMMA WorkerStep ==
  ASSUME TypeOK, WorkInv, NEW n \in Nodes, Work(n)
  PROVE  worker' \in [Nodes -> Workers] /\ WorkInv'
  <1>a. /\ W(n) \in Workers
        /\ W(n).pc \in Pcs
        /\ W(n).queue \in SUBSET TaskIds
        /\ W(n).todo \in SUBSET Assets
        /\ W(n).assets \in SUBSET Assets
        /\ Mig \in TaskIds
    BY DEF TypeOK, W, Workers, TaskIds
  <1>b. known[n] \in SUBSET Assets
    BY DEF TypeOK
  <1> USE DEF Opened, Releasing, Resting
  <1>1. CASE ListPending(n)
    <2>1. Pending(n) \in SUBSET TaskIds /\ "pick" \in Pcs
      BY DEF Pending, Pcs
    <2>2. PutQueue(n, "pick", Pending(n))
      BY <1>1 DEF ListPending, PutQueue
    <2>3. /\ worker' \in [Nodes -> Workers]
          /\ \A m \in Nodes : m # n => worker'[m] = worker[m]
          /\ W(n)'.pc = "pick" /\ W(n)'.queue = Pending(n)
      BY <2>1, <2>2, QueueFacts
    <2>4. task' = task
      BY <1>1 DEF ListPending
    <2>5. \A k \in Nodes : k # n => W(k)' = W(k)
      BY <2>3 DEF W
    <2> QED
      BY <2>3, <2>4, <2>5 DEF WorkInv, Pending, Moves
  <1>2. ASSUME NEW id \in TaskIds, Pick(n, id)
        PROVE  worker' \in [Nodes -> Workers] /\ WorkInv'
    <2>1. "open" \in Pcs /\ "RUNNING" \in Statuses /\ W(n).queue \ {id} \in SUBSET TaskIds
      BY <1>a DEF Pcs, Statuses
    <2>2. /\ worker' \in [Nodes -> Workers]
          /\ \A m \in Nodes : m # n => worker'[m] = worker[m]
          /\ W(n)'.pc = "open" /\ W(n)'.id = id /\ W(n)'.queue = W(n).queue \ {id}
      <3> DEFINE q == W(n).queue \ {id}
      <3>1. PutIdle(n, "open", id, q) /\ q \in SUBSET TaskIds /\ "open" \in Pcs
        BY <1>2, <2>1 DEF Pick, PutIdle
      <3> HIDE DEF q
      <3>2. /\ worker' \in [Nodes -> Workers]
            /\ \A m \in Nodes : m # n => worker'[m] = worker[m]
            /\ W(n)'.pc = "open" /\ W(n)'.id = id /\ W(n)'.queue = q
        BY <3>1, IdleFacts
      <3> QED
        BY <3>2 DEF q
    <2>3. task[n][id].status = "QUEUED"
      BY <1>2 DEF Pick, WorkInv
    <2>4. PutStatus(n, id, "RUNNING") \/ PutStatus(n, id, "QUEUED")
      BY <1>2, <2>3, SameStatus DEF Pick, PutStatus
    <2>5. "QUEUED" \in Statuses
      BY DEF Statuses
    <2> QED
      BY <2>1, <2>2, <2>3, <2>4, <2>5, WorkTask
  <1>3. CASE EndOfTick(n)
    <2>1. /\ worker' \in [Nodes -> Workers]
          /\ \A m \in Nodes : m # n => worker'[m] = worker[m]
          /\ W(n)' = Idle /\ UNCHANGED task
      BY <1>3, StopFacts DEF EndOfTick
    <2> QED
      BY <2>1, WorkMoved DEF Idle
  <1>18. CASE Collect(n) \/ SaveView(n)
    <2>1. /\ Goto(n, "federate") \/ Goto(n, "plan")
          /\ {"federate", "plan"} \subseteq Pcs /\ UNCHANGED task
      BY <1>18 DEF Collect, SaveView, Pcs
    <2>2. /\ worker' \in [Nodes -> Workers]
          /\ \A m \in Nodes : m # n => worker'[m] = worker[m]
          /\ W(n)'.pc \in {"federate", "plan"} /\ W(n)'.queue = W(n).queue
      BY <2>1, GotoFacts
    <2> QED
      BY <2>1, <2>2, WorkMoved
  <1>19. ASSUME NEW m \in Nodes, Fetch(n, m)
         PROVE  worker' \in [Nodes -> Workers] /\ WorkInv'
    BY <1>19, WorkQuiet DEF Fetch, TypeOK
  <1>4. ASSUME NEW p \in Pcs, Goto(n, p), UNCHANGED task,
               p \in {"err", "ok"} \union Opened, W(n).pc \in {"open"} \union Opened,
               p \in Opened => W(n).pc \in Opened,
               p \in Releasing => W(n).id = Mig
        PROVE  worker' \in [Nodes -> Workers] /\ WorkInv'
    <2>1. /\ worker' \in [Nodes -> Workers]
          /\ \A m \in Nodes : m # n => worker'[m] = worker[m]
          /\ W(n)'.pc = p /\ W(n)'.id = W(n).id /\ W(n)'.queue = W(n).queue
          /\ W(n)'.src = W(n).src
      BY <1>4, GotoFacts
    <2>2. p \in Opened => W(n).src \in Disks /\ (W(n).id = Mig => W(n).src = task[n][Mig].src)
      BY <1>4 DEF WorkInv, Moves
    <2> QED
      BY <1>4, <2>1, <2>2, WorkMoved
  <1>5. ASSUME NEW p \in Pcs, NEW s \in SUBSET Assets, NEW d \in Disks, NEW r \in BOOLEAN,
               PutOpen(n, p, s, d, r), W(n).pc = "open", p \in Opened, UNCHANGED task,
               p \in Releasing => W(n).id = Mig,
               W(n).id = Mig => d = task[n][Mig].src
        PROVE  worker' \in [Nodes -> Workers] /\ WorkInv'
    <2>1. /\ worker' \in [Nodes -> Workers]
          /\ \A m \in Nodes : m # n => worker'[m] = worker[m]
          /\ W(n)'.pc = p /\ W(n)'.id = W(n).id /\ W(n)'.queue = W(n).queue
          /\ W(n)'.src = d
      <3>1. d \in Disks \union {NoDisk}
        OBVIOUS
      <3> QED
        BY <1>5, <3>1, OpenFacts
    <2> QED
      BY <1>5, <2>1, WorkMoved
  <1>6. CASE OpenMigration(n)
    <2>1. /\ W(n).pc = "open" /\ W(n).id = Mig /\ UNCHANGED task
          /\ "err" \in Pcs /\ AfterOpen(n) \in {"judge", "copy"}
          /\ {"judge", "copy"} \subseteq Pcs
      BY <1>6 DEF OpenMigration, Pcs, AfterOpen
    <2>2. task[n][Mig].src \in Disks
      BY <2>1, RunningTask DEF WorkInv
    <2> DEFINE p == AfterOpen(n)
               s == Host[task[n][Mig].src]
               r == s # n /\ s \in heard[n]
    <2>3. Goto(n, "err") \/ PutOpen(n, p, known[n], task[n][Mig].src, r)
      BY <1>6 DEF OpenMigration, PutOpen
    <2>4. p \in Pcs /\ p \in Opened /\ r \in BOOLEAN
      BY <2>1
    <2> HIDE DEF p, r
    <2> QED
      BY <1>4, <1>5, <1>b, <2>1, <2>2, <2>3, <2>4
  <1>7. CASE OpenReplica(n)
    <2>1. /\ W(n).pc = "open" /\ W(n).id \in Assets /\ W(n).id # Mig /\ UNCHANGED task
          /\ "err" \in Pcs /\ "copy" \in Pcs
      BY <1>7, IdAssumption DEF OpenReplica, Pcs
    <2>2. \/ Goto(n, "err")
          \/ \E d \in Disks :
               PutOpen(n, "copy", {W(n).id}, d, Host[d] # n /\ Host[d] \in heard[n])
      BY <1>7 DEF OpenReplica, PutOpen
    <2>3. CASE Goto(n, "err")
      BY <1>4, <2>1, <2>3
    <2>4. ASSUME NEW d \in Disks,
                 PutOpen(n, "copy", {W(n).id}, d, Host[d] # n /\ Host[d] \in heard[n])
          PROVE  worker' \in [Nodes -> Workers] /\ WorkInv'
      <3> DEFINE r == Host[d] # n /\ Host[d] \in heard[n]
                 s == {W(n).id}
      <3>1. r \in BOOLEAN /\ s \in SUBSET Assets
        BY <2>1
      <3>2. PutOpen(n, "copy", s, d, r)
        BY <2>4
      <3> HIDE DEF r, s
      <3> QED
        BY <1>5, <2>1, <3>1, <3>2
    <2> QED
      BY <2>2, <2>3, <2>4
  <1>8. CASE SameDisk(n)
    <2>1. "register" \in Pcs /\ W(n).pc = "copy" /\ UNCHANGED task
      BY <1>8 DEF SameDisk, Pcs
    <2>2. /\ worker' \in [Nodes -> Workers]
          /\ \A m \in Nodes : m # n => worker'[m] = worker[m]
          /\ W(n)'.pc = "register" /\ W(n)'.id = W(n).id /\ W(n)'.queue = W(n).queue
          /\ W(n)'.src = W(n).src
      BY <1>8, <2>1, EmptyTodoFacts DEF SameDisk
    <2>3. W(n).src \in Disks /\ (W(n).id = Mig => W(n).src = task[n][Mig].src)
      BY <2>1 DEF WorkInv, Moves
    <2> QED
      BY <2>1, <2>2, <2>3, WorkMoved
  <1>9. ASSUME NEW a \in Assets, CopyAsset(n, a) \/ SkipAsset(n, a)
        PROVE  worker' \in [Nodes -> Workers] /\ WorkInv'
    <2>1. /\ worker' = [worker EXCEPT ![n].todo = @ \ {a}]
          /\ W(n).pc = "copy" /\ UNCHANGED task /\ {a} \in SUBSET Assets
      BY <1>9 DEF CopyAsset, SkipAsset
    <2>2. /\ worker' \in [Nodes -> Workers]
          /\ \A m \in Nodes : m # n => worker'[m] = worker[m]
          /\ W(n)'.pc = W(n).pc /\ W(n)'.id = W(n).id /\ W(n)'.queue = W(n).queue
          /\ W(n)'.src = W(n).src
      BY <2>1, TodoFacts
    <2>3. W(n).src \in Disks /\ (W(n).id = Mig => W(n).src = task[n][Mig].src)
      BY <2>1 DEF WorkInv, Moves
    <2> QED
      BY <2>1, <2>2, <2>3, WorkMoved
  <1>10. ASSUME NEW a \in Assets, ReleaseRow(n, a)
         PROVE  worker' \in [Nodes -> Workers] /\ WorkInv'
    <2>1. /\ PutCur(n, "wipe", {a}, {a})
          /\ W(n).pc = "release" /\ UNCHANGED task /\ {a} \in SUBSET Assets
          /\ "wipe" \in Pcs
      BY <1>10 DEF ReleaseRow, Pcs, PutCur
    <2>2. /\ worker' \in [Nodes -> Workers]
          /\ \A m \in Nodes : m # n => worker'[m] = worker[m]
          /\ W(n)'.pc = "wipe" /\ W(n)'.id = W(n).id /\ W(n)'.queue = W(n).queue
          /\ W(n)'.src = W(n).src
      BY <2>1, ReleaseFacts
    <2>3. W(n).src \in Disks /\ W(n).id = Mig /\ W(n).src = task[n][Mig].src
      BY <2>1 DEF WorkInv, Moves
    <2> QED
      BY <2>1, <2>2, <2>3, WorkMoved
  <1>11. CASE CopyFails(n) \/ CopyDone(n)
    <2>1. /\ W(n).pc = "copy" /\ UNCHANGED task
          /\ Goto(n, "err") \/ Goto(n, "register")
          /\ "err" \in Pcs /\ "register" \in Pcs
      BY <1>11 DEF CopyFails, CopyDone, AfterCopy, Pcs
    <2> QED
      BY <1>4, <2>1
  <1>12. CASE Register(n)
    <2>1. /\ W(n).pc = "register" /\ UNCHANGED task
          /\ (Goto(n, "judge") /\ W(n).id = Mig) \/ Goto(n, "ok")
          /\ "judge" \in Pcs /\ "ok" \in Pcs
      BY <1>12 DEF Register, Pcs
    <2> QED
      BY <1>4, <2>1
  <1>13. CASE Judge(n)
    <2>1. PICK s \in SUBSET Assets : PutSafe(n, "release", s)
      <3> DEFINE s == {a \in W(n).assets : SafeToRelease(n, a, W(n).src)}
      <3>1. s \in SUBSET Assets
        BY <1>a
      <3>2. PutSafe(n, "release", s)
        BY <1>13 DEF Judge, PutSafe
      <3> HIDE DEF s
      <3> QED
        BY <3>1, <3>2
    <2>2. W(n).pc = "judge" /\ UNCHANGED task /\ "release" \in Pcs
      BY <1>13 DEF Judge, Pcs
    <2>3. /\ worker' \in [Nodes -> Workers]
          /\ \A m \in Nodes : m # n => worker'[m] = worker[m]
          /\ W(n)'.pc = "release" /\ W(n)'.id = W(n).id /\ W(n)'.queue = W(n).queue
          /\ W(n)'.src = W(n).src
      BY <2>1, <2>2, JudgeFacts
    <2>4. W(n).src \in Disks /\ W(n).id = Mig /\ W(n).src = task[n][Mig].src
      BY <2>2 DEF WorkInv, Moves
    <2> QED
      BY <2>2, <2>3, <2>4, WorkMoved
  <1>14. CASE WipeFile(n)
    <2>1. /\ worker' = [worker EXCEPT ![n].pc = "release", ![n].cur = {}]
          /\ W(n).pc = "wipe" /\ UNCHANGED task /\ {} \in SUBSET Assets
          /\ "release" \in Pcs
      BY <1>14 DEF WipeFile, Pcs
    <2>2. /\ worker' \in [Nodes -> Workers]
          /\ \A m \in Nodes : m # n => worker'[m] = worker[m]
          /\ W(n)'.pc = "release" /\ W(n)'.id = W(n).id /\ W(n)'.queue = W(n).queue
          /\ W(n)'.src = W(n).src
      BY <2>1, CurFacts
    <2>3. W(n).src \in Disks /\ W(n).id = Mig /\ W(n).src = task[n][Mig].src
      BY <2>1 DEF WorkInv, Moves
    <2> QED
      BY <2>1, <2>2, <2>3, WorkMoved
  <1>15. CASE LocalReleased(n) \/ ReleaseRemote(n)
    <2>1. /\ W(n).pc = "release" /\ UNCHANGED task /\ W(n).id = Mig
          /\ Goto(n, "rehost") \/ Goto(n, "err")
          /\ "rehost" \in Pcs /\ "err" \in Pcs
      BY <1>15 DEF LocalReleased, ReleaseRemote, Pcs, WorkInv
    <2> QED
      BY <1>4, <2>1
  <1>16. CASE SaveRow(n) \/ Relinquish(n)
    <2>1. /\ W(n).pc \in {"rehost", "relinquish"} /\ UNCHANGED task /\ W(n).id = Mig
          /\ Goto(n, "relinquish") \/ Goto(n, "ok") \/ Goto(n, "err")
          /\ "relinquish" \in Pcs /\ "ok" \in Pcs /\ "err" \in Pcs
      BY <1>16 DEF SaveRow, Relinquish, Pcs, WorkInv
    <2> QED
      BY <1>4, <2>1
  <1>17. CASE Settle(n)
    <2>1. /\ W(n).pc \in {"ok", "err"}
          /\ W(n).id \in TaskIds /\ task[n][W(n).id].status \in {"QUEUED", "RUNNING"}
          /\ W(n).id \notin W(n).queue
      BY <1>17, RunningTask DEF Settle
    <2>2. PICK x \in Statuses : PutStatus(n, W(n).id, x)
      <3>1. CASE UNCHANGED task
        BY <2>1, <3>1, SameStatus
      <3>2. CASE task' = [task EXCEPT ![n][W(n).id].status = Outcome(n)]
        BY <3>2 DEF PutStatus, Outcome, Statuses
      <3> QED
        BY <1>17, <3>1, <3>2 DEF Settle
    <2>3. /\ worker' \in [Nodes -> Workers]
          /\ \A m \in Nodes : m # n => worker'[m] = worker[m]
          /\ W(n)'.pc = "pick" /\ W(n)'.queue = W(n).queue
      <3>1. "pick" \in Pcs /\ W(n).queue \in SUBSET TaskIds
        BY <1>a DEF Pcs
      <3>2. PutNext(n, "pick", W(n).queue)
        BY <1>17 DEF Settle, PutNext
      <3> QED
        BY <3>1, <3>2, NextFacts
    <2> QED
      BY <2>1, <2>2, <2>3, WorkTask
  <1> QED
    BY <1>1, <1>2, <1>3, <1>6, <1>7, <1>8, <1>9, <1>10, <1>11, <1>12, <1>13,
       <1>14, <1>15, <1>16, <1>17, <1>18, <1>19 DEF Work

\* What only few steps of a worker write.
LEMMA WorkFrame ==
  ASSUME NEW n \in Nodes, Work(n)
  PROVE  /\ UNCHANGED sidecar
         /\ UNCHANGED view \/ Collect(n) \/ SaveView(n) \/ \E m \in Nodes : Fetch(n, m)
         /\ UNCHANGED heard \/ Collect(n) \/ EndOfTick(n) \/ \E m \in Nodes : Fetch(n, m)
         /\ UNCHANGED begun \/ \E id \in TaskIds : Pick(n, id)
         /\ UNCHANGED used \/ \E e \in {"fail", "write"} : Spend(e)
  <1> DEFINE Held == /\ UNCHANGED sidecar
                     /\ UNCHANGED view \/ Collect(n) \/ SaveView(n) \/ \E m \in Nodes : Fetch(n, m)
                     /\ UNCHANGED heard \/ Collect(n) \/ EndOfTick(n) \/ \E m \in Nodes : Fetch(n, m)
                     /\ UNCHANGED begun \/ \E id \in TaskIds : Pick(n, id)
                     /\ UNCHANGED used \/ \E e \in {"fail", "write"} : Spend(e)
  <1>1. Collect(n) \/ SaveView(n) \/ (\E m \in Nodes : Fetch(n, m)) => Held
    BY DEF Collect, SaveView, Fetch
  <1>2. ListPending(n) \/ EndOfTick(n) \/ (\E id \in TaskIds : Pick(n, id)) => Held
    BY DEF ListPending, EndOfTick, Pick
  <1>3. OpenMigration(n) => Held
    BY DEF OpenMigration
  <1>4. OpenReplica(n) \/ SameDisk(n) => Held
    BY DEF OpenReplica, SameDisk
  <1>5. (\E a \in Assets : CopyAsset(n, a) \/ SkipAsset(n, a) \/ ReleaseRow(n, a)) => Held
    BY DEF CopyAsset, SkipAsset, ReleaseRow
  <1>6. CopyFails(n) \/ CopyDone(n) \/ Register(n) \/ Judge(n) => Held
    BY DEF CopyFails, CopyDone, Register, Judge
  <1>7. WipeFile(n) \/ LocalReleased(n) \/ ReleaseRemote(n) => Held
    BY DEF WipeFile, LocalReleased, ReleaseRemote
  <1>8. SaveRow(n) \/ Relinquish(n) \/ Settle(n) => Held
    BY DEF SaveRow, Relinquish, Settle
  <1> HIDE DEF Held
  <1>9. Held
    BY <1>1, <1>2, <1>3, <1>4, <1>5, <1>6, <1>7, <1>8 DEF Work
  <1> QED
    BY <1>9 DEF Held

\* The rest of the state, in a step of a worker.
LEMMA WorkTypes ==
  ASSUME TypeOK, WorkInv, NEW n \in Nodes, Work(n)
  PROVE  TypeOK'
  <1>a. worker' \in [Nodes -> Workers]
    BY WorkerStep
  <1>b. W(n).src \in Disks \union {NoDisk} /\ Mig \in TaskIds
    BY DEF TypeOK, W, Workers, TaskIds
  <1>c. W(n).pc \notin Resting => Dst(n) \in Disks /\ W(n).id \in TaskIds
    BY RunningTask
  <1>d. {"fail", "write"} \subseteq Events
    BY DEF Events
  <1>e. /\ bytes \subseteq Assets \X Disks
        /\ sidecar \in [Disks -> SUBSET Assets]
        /\ known \in [Nodes -> SUBSET Assets]
        /\ replica \in [Nodes -> SUBSET (Assets \X Disks)]
        /\ manifest \in [Disks -> SUBSET Assets]
        /\ dir \in [Nodes -> Rows \union {NoDir}]
        /\ task \in [Nodes -> [TaskIds -> Tasks]]
        /\ view \in [Nodes -> Rows \union {NoDir}]
        /\ heard \in [Nodes -> SUBSET Nodes]
        /\ begun \in [Nodes -> SUBSET TaskIds]
        /\ used \in [Events -> Nat]
    BY DEF TypeOK
  <1>f. sidecar' \in [Disks -> SUBSET Assets]
    BY <1>e, WorkFrame
  <1>g. view' \in [Nodes -> Rows \union {NoDir}]
    <2>1. Collect(n) \/ SaveView(n) \/ (\E m \in Nodes : Fetch(n, m)) => view' \in [Nodes -> Rows \union {NoDir}]
      BY <1>e DEF Collect, SaveView, Fetch
    <2>2. UNCHANGED view \/ Collect(n) \/ SaveView(n) \/ (\E m \in Nodes : Fetch(n, m))
      BY WorkFrame
    <2>3. view \in [Nodes -> Rows \union {NoDir}]
      BY <1>e
    <2> QED
      BY <2>1, <2>2, <2>3
  <1>h. heard' \in [Nodes -> SUBSET Nodes]
    <2>1. Collect(n) \/ EndOfTick(n) \/ (\E m \in Nodes : Fetch(n, m)) => heard' \in [Nodes -> SUBSET Nodes]
      <3>1. heard \in [Nodes -> SUBSET Nodes]
        BY <1>e
      <3>2. ASSUME NEW m \in Nodes, Fetch(n, m)
            PROVE  heard' \in [Nodes -> SUBSET Nodes]
        <4>1. heard' = [heard EXCEPT ![n] = heard[n] \union {m}]
          BY <3>2 DEF Fetch
        <4>2. heard[n] \union {m} \in SUBSET Nodes
          BY <3>1
        <4> QED
          BY <3>1, <4>1, <4>2
      <3>3. Collect(n) => heard' = [heard EXCEPT ![n] = {n}]
        BY DEF Collect
      <3>4. EndOfTick(n) => heard' = [heard EXCEPT ![n] = {}]
        BY DEF EndOfTick
      <3>5. {n} \in SUBSET Nodes /\ {} \in SUBSET Nodes
        OBVIOUS
      <3> QED
        BY <3>1, <3>2, <3>3, <3>4, <3>5
    <2>2. UNCHANGED heard \/ Collect(n) \/ EndOfTick(n) \/ (\E m \in Nodes : Fetch(n, m))
      BY WorkFrame
    <2>3. heard \in [Nodes -> SUBSET Nodes]
      BY <1>e
    <2> QED
      BY <2>1, <2>2, <2>3
  <1>i. begun' \in [Nodes -> SUBSET TaskIds]
    <2>1. (\E id \in TaskIds : Pick(n, id)) => begun' \in [Nodes -> SUBSET TaskIds]
      BY <1>e DEF Pick
    <2>2. UNCHANGED begun \/ (\E id \in TaskIds : Pick(n, id))
      BY WorkFrame
    <2>3. begun \in [Nodes -> SUBSET TaskIds]
      BY <1>e
    <2> QED
      BY <2>1, <2>2, <2>3
  <1>1. used' \in [Events -> Nat]
    BY <1>d, <1>e, WorkFrame, TypeSpend
  <1> DEFINE Held == /\ worker' \in [Nodes -> Workers] /\ used' \in [Events -> Nat]
                     /\ sidecar' \in [Disks -> SUBSET Assets]
                     /\ view' \in [Nodes -> Rows \union {NoDir}]
                     /\ heard' \in [Nodes -> SUBSET Nodes]
                     /\ begun' \in [Nodes -> SUBSET TaskIds]
  <1>j. Held
    BY <1>a, <1>1, <1>f, <1>g, <1>h, <1>i
  <1>2. CASE UNCHANGED <<bytes, known, replica, manifest, dir, task>>
    BY <1>e, <1>j, <1>2 DEF TypeOK
  <1>3. ASSUME NEW id \in TaskIds, Pick(n, id)
        PROVE  TypeOK'
    <2>1. UNCHANGED task \/ PutStatus(n, id, "RUNNING")
      BY <1>3 DEF Pick, PutStatus
    <2>2. task' \in [Nodes -> [TaskIds -> Tasks]]
      BY <1>e, <2>1, TaskFacts DEF Statuses
    <2> QED
      BY <1>e, <1>j, <1>3, <2>2 DEF TypeOK, Pick
  <1>4. CASE Settle(n)
    <2>1. UNCHANGED task \/ PutStatus(n, W(n).id, Outcome(n))
      BY <1>4 DEF Settle, PutStatus
    <2>2. Outcome(n) \in Statuses
      BY DEF Outcome, Statuses
    <2>3. W(n).id \in TaskIds
      BY <1>4, <1>c DEF Settle, Resting
    <2>4. task' \in [Nodes -> [TaskIds -> Tasks]]
      BY <1>e, <2>1, <2>2, <2>3, TaskFacts
    <2> QED
      BY <1>e, <1>j, <1>4, <2>4 DEF TypeOK, Settle
  <1>5. ASSUME NEW a \in Assets, CopyAsset(n, a)
        PROVE  TypeOK'
    <2>1. Dst(n) \in Disks
      BY <1>5, <1>c DEF CopyAsset, Resting
    <2>2. bytes' \subseteq Assets \X Disks /\ manifest' \in [Disks -> SUBSET Assets]
      BY <1>5, <1>e, <2>1 DEF CopyAsset
    <2> QED
      BY <1>e, <1>j, <1>5, <2>2 DEF TypeOK, CopyAsset
  <1>6. CASE Register(n)
    <2>1. Dst(n) \in Disks /\ W(n).assets \subseteq Assets
      BY <1>6, <1>c DEF Register, Resting, TypeOK, W, Workers
    <2>2. replica' \in [Nodes -> SUBSET (Assets \X Disks)]
      BY <1>6, <1>e, <2>1 DEF Register
    <2> QED
      BY <1>e, <1>j, <1>6, <2>2 DEF TypeOK, Register
  <1>7. ASSUME NEW a \in Assets, ReleaseRow(n, a)
        PROVE  TypeOK'
    <2>1. replica' \in [Nodes -> SUBSET (Assets \X Disks)]
      BY <1>7, <1>e DEF ReleaseRow
    <2> QED
      BY <1>e, <1>j, <1>7, <2>1 DEF TypeOK, ReleaseRow
  <1>8. CASE WipeFile(n)
    <2>1. bytes' \subseteq Assets \X Disks
      BY <1>8, <1>e DEF WipeFile
    <2> QED
      BY <1>e, <1>j, <1>8, <2>1 DEF TypeOK, WipeFile
  <1>9. CASE ReleaseRemote(n)
    <2>1. /\ bytes' \subseteq Assets \X Disks
          /\ replica' \in [Nodes -> SUBSET (Assets \X Disks)]
      BY <1>9, <1>e DEF ReleaseRemote, ReleasedAt
    <2> QED
      BY <1>e, <1>j, <1>9, <2>1 DEF TypeOK, ReleaseRemote
  <1>10. CASE SaveRow(n)
    <2>1. Dst(n) \in Disks
      BY <1>10, <1>c DEF SaveRow, Resting
    <2>2. dir' \in [Nodes -> Rows \union {NoDir}]
      BY <1>10, <2>1, TypeRow DEF SaveRow
    <2> QED
      BY <1>e, <1>j, <1>10, <2>2 DEF TypeOK, SaveRow
  <1>11. CASE Relinquish(n)
    <2>1. dir' \in [Nodes -> Rows \union {NoDir}]
      BY <1>11, <1>e DEF Relinquish, Relinquished
    <2> QED
      BY <1>e, <1>j, <1>11, <2>1 DEF TypeOK, Relinquish
  <1>12. CASE SaveView(n)
    <2>1. dir' \in [Nodes -> Rows \union {NoDir}]
      BY <1>12, <1>e DEF SaveView
    <2> QED
      BY <1>e, <1>j, <1>12, <2>1 DEF TypeOK, SaveView
  <1>13. \/ ListPending(n) \/ EndOfTick(n) \/ Collect(n) \/ (\E m \in Nodes : Fetch(n, m))
         \/ OpenReplica(n) \/ SameDisk(n) \/ Judge(n) \/ LocalReleased(n)
         \/ (\E a \in Assets : SkipAsset(n, a))
         => UNCHANGED <<bytes, known, replica, manifest, dir, task>>
    BY DEF ListPending, EndOfTick, Collect, Fetch, OpenReplica, SameDisk, SkipAsset,
        Judge, LocalReleased
  <1>14. OpenMigration(n) \/ CopyFails(n) \/ CopyDone(n)
         => UNCHANGED <<bytes, known, replica, manifest, dir, task>>
    BY DEF OpenMigration, CopyFails, CopyDone
  <1> QED
    BY <1>2, <1>3, <1>4, <1>5, <1>6, <1>7, <1>8, <1>9, <1>10, <1>11, <1>12, <1>13,
       <1>14 DEF Work

LEMMA TypeStep == TypeOK /\ WorkInv /\ [Next]_vars => TypeOK' /\ WorkInv'
  <1> SUFFICES ASSUME TypeOK, WorkInv, [Next]_vars
               PROVE  TypeOK' /\ WorkInv'
    OBVIOUS
  <1>e. /\ bytes \subseteq Assets \X Disks
        /\ sidecar \in [Disks -> SUBSET Assets]
        /\ known \in [Nodes -> SUBSET Assets]
        /\ replica \in [Nodes -> SUBSET (Assets \X Disks)]
        /\ manifest \in [Disks -> SUBSET Assets]
        /\ dir \in [Nodes -> Rows \union {NoDir}]
        /\ task \in [Nodes -> [TaskIds -> Tasks]]
        /\ worker \in [Nodes -> Workers]
        /\ view \in [Nodes -> Rows \union {NoDir}]
        /\ heard \in [Nodes -> SUBSET Nodes]
        /\ begun \in [Nodes -> SUBSET TaskIds]
        /\ used \in [Events -> Nat]
    BY DEF TypeOK
  <1>1. ASSUME NEW n \in Nodes, Work(n)
        PROVE  TypeOK' /\ WorkInv'
    BY <1>1, WorkerStep, WorkTypes
  <1>2. ASSUME NEW c \in Nodes, NEW dst \in Disks, EmitMigration(c, dst)
        PROVE  TypeOK' /\ WorkInv'
    <2>1. dir[c].disk \in Disks \ {dst} /\ Mig \in TaskIds /\ Host[dst] \in Nodes
      BY <1>2, HostAssumption DEF EmitMigration, TypeOK, Rows, TaskIds
    <2>2. SubmitTask(Host[dst], Mig, dir[c].disk, dst)
      BY <1>2 DEF EmitMigration
    <2>3. task' \in [Nodes -> [TaskIds -> Tasks]]
      BY <2>1, <2>2, SubmitFacts
    <2>4. TypeOK'
      BY <1>2, <1>e, <2>3 DEF TypeOK, EmitMigration
    <2>5. UNCHANGED worker
      BY <1>2 DEF EmitMigration
    <2>6. WorkInv'
      BY <2>1, <2>2, <2>5, WorkSubmit
    <2> QED
      BY <2>4, <2>6
  <1>3. ASSUME NEW c \in Nodes, NEW a \in Assets, NEW dst \in Disks, EmitReplica(c, a, dst)
        PROVE  TypeOK' /\ WorkInv'
    <2>1. a \in TaskIds /\ a # Mig /\ Host[dst] \in Nodes /\ NoDisk \in Disks \union {NoDisk}
      BY HostAssumption, IdAssumption DEF TaskIds
    <2>2. SubmitTask(Host[dst], a, NoDisk, dst)
      BY <1>3 DEF EmitReplica
    <2>3. task' \in [Nodes -> [TaskIds -> Tasks]]
      BY <2>1, <2>2, SubmitFacts
    <2>4. TypeOK'
      BY <1>3, <1>e, <2>3 DEF TypeOK, EmitReplica
    <2>5. UNCHANGED worker
      BY <1>3 DEF EmitReplica
    <2>6. WorkInv'
      BY <2>1, <2>2, <2>5, WorkSubmit
    <2> QED
      BY <2>4, <2>6
  <1>4. ASSUME NEW n \in Nodes, Crash(n)
        PROVE  TypeOK' /\ WorkInv'
    <2>1. /\ worker' \in [Nodes -> Workers]
          /\ \A m \in Nodes : m # n => worker'[m] = worker[m]
          /\ W(n)' = Idle /\ UNCHANGED task
      BY <1>4, StopFacts DEF Crash
    <2>2. used' \in [Events -> Nat]
      BY <1>4, TypeSpend DEF Crash, Events
    <2>3. TypeOK'
      BY <1>4, <1>e, <2>1, <2>2 DEF TypeOK, Crash
    <2>4. WorkInv'
      BY <2>1, WorkMoved DEF Idle, Opened, Releasing, Resting
    <2> QED
      BY <2>3, <2>4
  <1>5. ASSUME NEW n \in Nodes, FetchFails(n)
        PROVE  TypeOK' /\ WorkInv'
    <2>1. /\ worker' \in [Nodes -> Workers]
          /\ \A m \in Nodes : m # n => worker'[m] = worker[m]
          /\ W(n)'.pc = "list" /\ W(n)'.queue = W(n).queue /\ UNCHANGED task
      BY <1>5, GotoFacts DEF FetchFails, Pcs
    <2>2. used' \in [Events -> Nat]
      BY <1>5, TypeSpend DEF FetchFails, Events
    <2>3. TypeOK'
      BY <1>5, <1>e, <2>1, <2>2 DEF TypeOK, FetchFails
    <2>4. WorkInv'
      BY <2>1, WorkMoved DEF Opened, Releasing, Resting
    <2> QED
      BY <2>3, <2>4
  <1>9. ASSUME NEW n \in Nodes, NEW d \in Disks, Scan(n, d)
        PROVE  TypeOK' /\ WorkInv'
    <2> DEFINE found == {a \in sidecar[d] : <<a, d>> \in bytes}
    <2>1. dir' \in [Nodes -> Rows \union {NoDir}]
      BY <1>9, TypeRow DEF Scan
    <2>2. found \subseteq Assets
      BY <1>e
    <2>3. /\ known' = [known EXCEPT ![n] = @ \union found]
          /\ replica' = [replica EXCEPT ![n] = @ \union (found \X {d})]
      BY <1>9 DEF Scan
    <2> HIDE DEF found
    <2>4. /\ known' \in [Nodes -> SUBSET Assets]
          /\ replica' \in [Nodes -> SUBSET (Assets \X Disks)]
      BY <1>e, <2>2, <2>3
    <2>5. used' \in [Events -> Nat]
      BY <1>9, TypeSpend DEF Scan, Events
    <2>6. TypeOK'
      BY <1>9, <1>e, <2>1, <2>4, <2>5 DEF TypeOK, Scan
    <2> QED
      BY <1>9, <2>6, WorkQuiet DEF Scan
  <1>6. ASSUME NEW a \in Assets, NEW d \in Disks, Upload(a, d)
        PROVE  TypeOK' /\ WorkInv'
    <2>1. Host[d] \in Nodes
      BY HostAssumption
    <2>2. dir' \in [Nodes -> Rows \union {NoDir}]
      BY <1>6, <2>1, TypeRow DEF Upload
    <2>3. /\ bytes' \subseteq Assets \X Disks
          /\ sidecar' \in [Disks -> SUBSET Assets]
          /\ known' \in [Nodes -> SUBSET Assets]
          /\ replica' \in [Nodes -> SUBSET (Assets \X Disks)]
      BY <1>6, <1>e, <2>1 DEF Upload
    <2>4. used' \in [Events -> Nat]
      BY <1>6, TypeSpend DEF Upload, Events
    <2>5. TypeOK'
      BY <1>6, <1>e, <2>2, <2>3, <2>4 DEF TypeOK, Upload
    <2> QED
      BY <1>6, <2>5, WorkQuiet DEF Upload
  <1>7. ASSUME NEW n \in Nodes, NEW a \in Assets, Delete(n, a)
        PROVE  TypeOK' /\ WorkInv'
    <2>1. dir' \in [Nodes -> Rows \union {NoDir}]
      BY <1>7, <1>e DEF Delete
    <2>2. /\ known' \in [Nodes -> SUBSET Assets]
          /\ replica' \in [Nodes -> SUBSET (Assets \X Disks)]
      BY <1>7, <1>e DEF Delete
    <2>3. bytes' \subseteq Assets \X Disks /\ sidecar' \in [Disks -> SUBSET Assets]
      <3>1. bytes' \subseteq bytes
        BY <1>7 DEF Delete
      <3>2. UNCHANGED sidecar \/ \E d \in Disks, e \in {{}, {a}} :
                                   sidecar' = [sidecar EXCEPT ![d] = @ \ e]
        BY <1>7 DEF Delete
      <3> QED
        BY <1>e, <3>1, <3>2
    <2>4. used' \in [Events -> Nat]
      BY <1>7, TypeSpend DEF Delete, Events
    <2>5. TypeOK'
      BY <1>7, <1>e, <2>1, <2>2, <2>3, <2>4 DEF TypeOK, Delete
    <2> QED
      BY <1>7, <2>5, WorkQuiet DEF Delete
  <1>8. CASE UNCHANGED vars
    <2>1. TypeOK'
      BY <1>8 DEF vars, TypeOK
    <2> QED
      BY <1>8, <2>1, WorkQuiet DEF vars
  <1> QED
    BY <1>1, <1>2, <1>3, <1>4, <1>5, <1>6, <1>7, <1>8, <1>9
    DEF Next, Coordinate, Environment

\* Type correctness; and the task a worker executes is RUNNING (QUEUED if its
\* status was lost), off its list, names a disk of its node, and a migration's
\* source is another disk than its target.
THEOREM TypeCorrect == Spec => [](TypeOK /\ WorkInv)
  BY TypeInit, TypeStep, PTL DEF Spec

----------------------------------------------------------------------------
\* What a step does to a task.

\* Only picking a task and settling it write the worker's task table.
LEMMA StepWrites ==
  ASSUME NEW n \in Nodes, Work(n)
  PROVE  UNCHANGED task \/ Settle(n) \/ \E id \in TaskIds : Pick(n, id)
  <1>1. \/ \E id \in TaskIds : Pick(n, id)
        \/ Settle(n)
        \/ ListPending(n) \/ EndOfTick(n) \/ OpenMigration(n) \/ OpenReplica(n)
        \/ SameDisk(n) \/ CopyFails(n) \/ CopyDone(n) \/ Register(n) \/ Judge(n)
        \/ WipeFile(n) \/ LocalReleased(n) \/ ReleaseRemote(n) \/ SaveRow(n)
        \/ Relinquish(n) \/ Collect(n) \/ SaveView(n) \/ \E m \in Nodes : Fetch(n, m)
        \/ \E a \in Assets : CopyAsset(n, a) \/ SkipAsset(n, a) \/ ReleaseRow(n, a)
    BY DEF Work
  <1>2. \/ ListPending(n) \/ EndOfTick(n) \/ OpenReplica(n) \/ SameDisk(n)
        \/ Collect(n) \/ SaveView(n) \/ \E m \in Nodes : Fetch(n, m)
        => UNCHANGED task
    BY DEF ListPending, EndOfTick, OpenReplica, SameDisk, Collect, SaveView, Fetch
  <1>3. OpenMigration(n) => UNCHANGED task
    BY DEF OpenMigration
  <1>4. CopyFails(n) \/ CopyDone(n) \/ Register(n) \/ Judge(n) => UNCHANGED task
    BY DEF CopyFails, CopyDone, Register, Judge
  <1>5. WipeFile(n) \/ LocalReleased(n) \/ ReleaseRemote(n) => UNCHANGED task
    BY DEF WipeFile, LocalReleased, ReleaseRemote
  <1>6. SaveRow(n) \/ Relinquish(n) => UNCHANGED task
    BY DEF SaveRow, Relinquish
  <1>7. \A a \in Assets : CopyAsset(n, a) \/ SkipAsset(n, a) \/ ReleaseRow(n, a)
                         => UNCHANGED task
    BY DEF CopyAsset, SkipAsset, ReleaseRow
  <1> QED
    BY <1>1, <1>2, <1>3, <1>4, <1>5, <1>6, <1>7

\* What a step does to a task: nothing, or a coordinator emits it, or the
\* worker takes it up, or settles it.
LEMMA TaskStep ==
  ASSUME TypeOK, WorkInv, [Next]_vars, NEW n \in Nodes, NEW id \in TaskIds
  PROVE  \/ task'[n][id] = task[n][id]
         \/ /\ task[n][id].status = "none" /\ task'[n][id].status = "QUEUED"
            /\ \E c \in Nodes, dst \in Disks :
                 /\ Host[dst] = n
                 /\ \/ id = Mig /\ EmitMigration(c, dst)
                    \/ id \in Assets /\ EmitReplica(c, id, dst)
         \/ /\ task[n][id].status = "QUEUED" /\ task'[n][id].status = "RUNNING"
            /\ task'[n][id].src = task[n][id].src /\ task'[n][id].dst = task[n][id].dst
         \/ /\ task[n][id].status \in {"QUEUED", "RUNNING"}
            /\ task'[n][id].status = Outcome(n)
            /\ task'[n][id].src = task[n][id].src /\ task'[n][id].dst = task[n][id].dst
            /\ Settle(n) /\ W(n).id = id
  <1> DEFINE Same == task'[n][id] = task[n][id]
             Emitted == /\ task[n][id].status = "none" /\ task'[n][id].status = "QUEUED"
                        /\ \E c \in Nodes, dst \in Disks :
                             /\ Host[dst] = n
                             /\ \/ id = Mig /\ EmitMigration(c, dst)
                                \/ id \in Assets /\ EmitReplica(c, id, dst)
             Picked == /\ task[n][id].status = "QUEUED" /\ task'[n][id].status = "RUNNING"
                       /\ task'[n][id].src = task[n][id].src
                       /\ task'[n][id].dst = task[n][id].dst
             Settled == /\ task[n][id].status \in {"QUEUED", "RUNNING"}
                        /\ task'[n][id].status = Outcome(n)
                        /\ task'[n][id].src = task[n][id].src
                        /\ task'[n][id].dst = task[n][id].dst
                        /\ Settle(n) /\ W(n).id = id
  <1>1. ASSUME NEW m \in Nodes, NEW i \in TaskIds, NEW x \in Statuses, PutStatus(m, i, x)
        PROVE  Same \/ /\ m = n /\ i = id /\ task'[n][id].status = x
                       /\ task'[n][id].src = task[n][id].src
                       /\ task'[n][id].dst = task[n][id].dst
    <2>1. /\ \A k \in Nodes, j \in TaskIds :
               /\ task'[k][j].src = task[k][j].src
               /\ task'[k][j].dst = task[k][j].dst
               /\ k # m \/ j # i => task'[k][j] = task[k][j]
          /\ task'[m][i].status = x
      BY <1>1, TaskFacts
    <2> QED
      BY <2>1
  <1>2. ASSUME NEW m \in Nodes, NEW i \in TaskIds, NEW s \in Disks \union {NoDisk},
               NEW d \in Disks, SubmitTask(m, i, s, d)
        PROVE  Same \/ /\ m = n /\ i = id
                       /\ task[n][id].status = "none" /\ task'[n][id].status = "QUEUED"
    <2>1. /\ \A k \in Nodes, j \in TaskIds : k # m \/ j # i => task'[k][j] = task[k][j]
          /\ task'[m][i] = [status |-> "QUEUED", src |-> s, dst |-> d]
          /\ task[m][i].status = "none"
      BY <1>2, SubmitFacts
    <2>2. task'[m][i].status = "QUEUED"
      BY <2>1
    <2> QED
      BY <2>1, <2>2
  <1>3. ASSUME NEW m \in Nodes, Settle(m)
        PROVE  Same \/ Settled
    <2>1. UNCHANGED task \/ PutStatus(m, W(m).id, Outcome(m))
      BY <1>3 DEF Settle, PutStatus
    <2>2. /\ W(m).id \in TaskIds /\ task[m][W(m).id].status \in {"QUEUED", "RUNNING"}
          /\ Outcome(m) \in Statuses
      BY <1>3, RunningTask DEF Settle, Resting, Outcome, Statuses
    <2>3. Same \/ /\ m = n /\ W(m).id = id /\ task'[n][id].status = Outcome(m)
                  /\ task'[n][id].src = task[n][id].src
                  /\ task'[n][id].dst = task[n][id].dst
      BY <1>1, <2>1, <2>2
    <2> QED
      BY <1>3, <2>2, <2>3
  <1>4. ASSUME NEW m \in Nodes, NEW i \in TaskIds, Pick(m, i)
        PROVE  Same \/ Picked
    <2>1. (UNCHANGED task \/ PutStatus(m, i, "RUNNING")) /\ "RUNNING" \in Statuses
      BY <1>4 DEF Pick, PutStatus, Statuses
    <2>2. task[m][i].status = "QUEUED"
      BY <1>4 DEF Pick, WorkInv
    <2> QED
      BY <1>1, <2>1, <2>2
  <1>5. ASSUME NEW c \in Nodes, NEW dst \in Disks, EmitMigration(c, dst)
        PROVE  Same \/ Emitted
    <2>1. /\ dir[c].disk \in Disks \union {NoDisk} /\ Mig \in TaskIds /\ Host[dst] \in Nodes
          /\ SubmitTask(Host[dst], Mig, dir[c].disk, dst)
      BY <1>5, HostAssumption DEF EmitMigration, TypeOK, Rows, TaskIds
    <2> QED
      BY <1>2, <1>5, <2>1
  <1>6. ASSUME NEW c \in Nodes, NEW a \in Assets, NEW dst \in Disks, EmitReplica(c, a, dst)
        PROVE  Same \/ Emitted
    <2>1. /\ a \in TaskIds /\ Host[dst] \in Nodes /\ NoDisk \in Disks \union {NoDisk}
          /\ SubmitTask(Host[dst], a, NoDisk, dst)
      BY <1>6, HostAssumption DEF EmitReplica, TaskIds
    <2> QED
      BY <1>2, <1>6, <2>1
  <1>7. UNCHANGED task => Same
    OBVIOUS
  <1>8. Environment => UNCHANGED task
    BY DEF Environment, Crash, FetchFails, Scan, Upload, Delete
  <1> HIDE DEF Same, Emitted, Picked, Settled
  <1>9. ASSUME NEW m \in Nodes, Work(m)
        PROVE  Same \/ Picked \/ Settled
    BY <1>3, <1>4, <1>7, <1>9, StepWrites
  <1>10. (\E c \in Nodes : Coordinate(c)) => Same \/ Emitted
    BY <1>5, <1>6 DEF Coordinate
  <1>11. Same \/ Emitted \/ Picked \/ Settled
    BY <1>7, <1>8, <1>9, <1>10 DEF Next, vars
  <1> QED
    BY <1>11 DEF Same, Emitted, Picked, Settled

\* A task that exists keeps what it says.
LEMMA TaskStays ==
  ASSUME TypeOK, WorkInv, [Next]_vars, NEW n \in Nodes, NEW id \in TaskIds,
         task[n][id].status # "none"
  PROVE  /\ task'[n][id].status # "none"
         /\ task'[n][id].src = task[n][id].src
         /\ task'[n][id].dst = task[n][id].dst
  BY TaskStep DEF Outcome

----------------------------------------------------------------------------
\* Where a worker is after a step, and how it came there.

Keeps(n) == /\ W(n)'.id = W(n).id
            /\ W(n)'.assets = W(n).assets
            /\ W(n)'.src = W(n).src
            /\ W(n)'.remote = W(n).remote

OpensMigration(n) ==
  /\ W(n).pc = "open" /\ W(n).id = Mig /\ W(n)'.id = Mig
  /\ W(n)'.assets = known[n]
  /\ W(n)'.src = task[n][Mig].src
  /\ W(n)'.remote = (Host[task[n][Mig].src] # n /\ Host[task[n][Mig].src] \in heard[n])

OpensReplica(n) ==
  /\ W(n).pc = "open" /\ W(n).id \in Assets /\ W(n)'.id = W(n).id
  /\ W(n)'.assets = {W(n).id}
  /\ W(n)'.src \in Disks /\ <<W(n).id, W(n)'.src>> \in replica[n]
  /\ W(n)'.remote = (Host[W(n)'.src] # n /\ Host[W(n)'.src] \in heard[n])

\* A task is gone through without a break; it ends where it is settled.
Continues(n) ==
  W(n).pc \notin Resting =>
    \/ Settle(n)
    \/ W(n)'.pc \notin Resting /\ W(n)'.id = W(n).id

Entered(n) ==
  /\ Continues(n)
  /\ W(n)'.pc = "copy" => \/ W(n).pc = "copy" /\ Keeps(n)
                          \/ OpensMigration(n)
                          \/ OpensReplica(n)
  /\ W(n)'.pc = "register" => /\ W(n).pc = "copy" /\ Keeps(n)
                              /\ W(n).src = Dst(n) \/ Verified(n)
  /\ W(n)'.pc = "judge" => \/ W(n).pc = "register" /\ Keeps(n) /\ W(n).id = Mig
                           \/ OpensMigration(n) /\ known[n] = {}
  /\ W(n)'.pc = "release" =>
       \/ /\ W(n).pc = "judge" /\ Keeps(n)
          /\ W(n)'.safe = {a \in W(n).assets : SafeToRelease(n, a, W(n).src)}
          /\ W(n)'.todo = W(n)'.safe
       \/ /\ W(n).pc = "wipe" /\ Keeps(n)
          /\ W(n)'.safe = W(n).safe /\ W(n)'.todo = W(n).todo
  /\ W(n)'.pc = "wipe" =>
       /\ W(n).pc = "release" /\ Keeps(n) /\ ~W(n).remote
       /\ W(n)'.safe = W(n).safe
       /\ \E a \in W(n).todo : W(n)'.todo = W(n).todo \ {a} /\ W(n)'.cur = {a}
  /\ W(n)'.pc = "rehost" => W(n).pc = "release" /\ Keeps(n)
  /\ W(n)'.pc = "relinquish" => Keeps(n) /\ SaveRow(n)
  /\ W(n)'.pc = "ok" /\ W(n)'.id = Mig =>
       /\ Keeps(n)
       /\ \/ SaveRow(n) /\ ~W(n).remote
          \/ W(n).pc = "relinquish" /\ Relinquished(Host[W(n).src])

LEMMA WorkEnters ==
  ASSUME TypeOK, WorkInv, NEW n \in Nodes, Work(n)
  PROVE  /\ \A m \in Nodes : m # n => W(m)' = W(m)
         /\ Entered(n)
  <1>a. /\ W(n) \in Workers
        /\ W(n).pc \in Pcs
        /\ W(n).queue \in SUBSET TaskIds
        /\ W(n).todo \in SUBSET Assets
        /\ W(n).assets \in SUBSET Assets
        /\ Mig \in TaskIds
    BY DEF TypeOK, W, Workers, TaskIds
  <1>b. known[n] \in SUBSET Assets
    BY DEF TypeOK
  <1>c. Pcs = Resting \union {"open", "copy", "register", "judge", "release", "wipe",
                             "rehost", "relinquish", "ok", "err"}
    BY DEF Pcs, Resting
  <1> DEFINE Goal == (\A m \in Nodes : m # n => W(m)' = W(m)) /\ Entered(n)
             Untouched(m) == m # n => worker'[m] = worker[m]
  <1>d. ASSUME \A m \in Nodes : Untouched(m)
        PROVE  \A m \in Nodes : m # n => W(m)' = W(m)
    BY <1>d DEF W
  <1> USE DEF Continues, Resting
  <1>e. ASSUME \A m \in Nodes : Untouched(m), W(n)'.pc \in Resting \union {"open"},
               W(n).pc \in Resting \/ Settle(n)
        PROVE  Goal
    BY <1>d, <1>e DEF Entered
  <1>1. CASE ListPending(n)
    <2>1. Pending(n) \in SUBSET TaskIds /\ "pick" \in Pcs
      BY DEF Pending, Pcs
    <2>2. PutQueue(n, "pick", Pending(n))
      BY <1>1 DEF ListPending, PutQueue
    <2> QED
      BY <1>1, <1>e, <2>1, <2>2, QueueFacts DEF ListPending
  <1>2. ASSUME NEW id \in TaskIds, Pick(n, id)
        PROVE  Goal
    <2> DEFINE q == W(n).queue \ {id}
    <2>1. PutIdle(n, "open", id, q) /\ q \in SUBSET TaskIds /\ "open" \in Pcs
      BY <1>2, <1>a DEF Pick, PutIdle, Pcs
    <2> HIDE DEF q
    <2>2. W(n).pc \in Resting
      BY <1>2 DEF Pick
    <2> QED
      BY <1>e, <2>1, <2>2, IdleFacts
  <1>3. CASE EndOfTick(n)
    <2>1. (\A m \in Nodes : m # n => worker'[m] = worker[m]) /\ W(n)' = Idle
      BY <1>3, StopFacts DEF EndOfTick
    <2>2. W(n).pc \in Resting
      BY <1>3 DEF EndOfTick
    <2> QED
      BY <1>e, <2>1, <2>2 DEF Idle
  <1>4. ASSUME NEW p \in Pcs, Goto(n, p)
        PROVE  /\ \A m \in Nodes : Untouched(m)
               /\ W(n)'.pc = p /\ Keeps(n)
               /\ W(n)'.safe = W(n).safe /\ W(n)'.todo = W(n).todo
    BY <1>4, GotoFacts DEF Keeps
  <1>f. ASSUME Goto(n, "err"), W(n).pc \notin Resting
        PROVE  Goal
    <2>1. (\A m \in Nodes : Untouched(m)) /\ W(n)'.pc = "err" /\ Keeps(n)
      BY <1>4, <1>c, <1>f
    <2>2. Entered(n)
      BY <2>1 DEF Entered, Keeps
    <2> QED
      BY <1>d, <2>1, <2>2
  <1>20. CASE Collect(n) \/ SaveView(n)
    <2>1. /\ Goto(n, "federate") \/ Goto(n, "plan")
          /\ W(n).pc \in Resting /\ {"federate", "plan"} \subseteq Pcs
      BY <1>20 DEF Collect, SaveView, Pcs
    <2>2. (\A m \in Nodes : Untouched(m)) /\ W(n)'.pc \in Resting
      BY <1>4, <2>1
    <2> QED
      BY <1>e, <2>1, <2>2
  <1>21. ASSUME NEW m \in Nodes, Fetch(n, m)
         PROVE  Goal
    <2>1. UNCHANGED worker /\ W(n).pc = "federate"
      BY <1>21 DEF Fetch
    <2>2. W(n)'.pc \in Resting
      BY <2>1 DEF W
    <2> QED
      BY <1>e, <2>1, <2>2
  <1>g. ASSUME NEW p \in Pcs, NEW s \in SUBSET Assets, NEW d \in Disks \union {NoDisk},
               NEW r \in BOOLEAN, PutOpen(n, p, s, d, r)
        PROVE  /\ \A m \in Nodes : Untouched(m)
               /\ W(n)'.pc = p /\ W(n)'.id = W(n).id /\ W(n)'.assets = s
               /\ W(n)'.src = d /\ W(n)'.remote = r
    BY <1>g, OpenFacts
  <1>h. ASSUME NEW s \in SUBSET Assets, "release" \in Pcs, PutSafe(n, "release", s)
        PROVE  /\ \A m \in Nodes : Untouched(m)
               /\ W(n)'.pc = "release" /\ Keeps(n) /\ W(n)'.safe = s /\ W(n)'.todo = s
    <2>1. /\ \A m \in Nodes : Untouched(m)
          /\ W(n)'.pc = "release" /\ W(n)'.safe = s /\ W(n)'.todo = s
          /\ W(n)'.id = W(n).id /\ W(n)'.assets = W(n).assets
          /\ W(n)'.src = W(n).src /\ W(n)'.remote = W(n).remote
      BY <1>h, JudgeFacts
    <2> QED
      BY <2>1 DEF Keeps
  <1>5. CASE OpenMigration(n)
    <2> DEFINE s == known[n]
               d == task[n][Mig].src
               p == AfterOpen(n)
               r == Host[d] # n /\ Host[d] \in heard[n]
    <2>1. /\ W(n).pc = "open" /\ W(n).id = Mig
          /\ Goto(n, "err") \/ PutOpen(n, p, s, d, r)
      BY <1>5 DEF OpenMigration, PutOpen
    <2>2. ASSUME PutOpen(n, p, s, d, r)
          PROVE  Goal
      <3>1. r \in BOOLEAN /\ s \in SUBSET Assets /\ p \in Pcs /\ d \in Disks \union {NoDisk}
        <4>1. r \in BOOLEAN
          OBVIOUS
        <4>2. p \in Pcs
          BY DEF AfterOpen, Pcs
        <4>3. d \in Disks \union {NoDisk}
          BY <1>a DEF TypeOK, Tasks
        <4> QED
          BY <1>b, <4>1, <4>2, <4>3
      <3>2. (p = "judge" /\ s = {}) \/ p = "copy"
        BY DEF AfterOpen
      <3> HIDE DEF s, p, r
      <3>3. /\ \A m \in Nodes : m # n => worker'[m] = worker[m]
            /\ W(n)'.pc = p /\ W(n)'.id = W(n).id /\ W(n)'.assets = s
            /\ W(n)'.src = d /\ W(n)'.remote = r
        BY <1>g, <2>2, <3>1
      <3>4. OpensMigration(n)
        BY <2>1, <3>3 DEF OpensMigration, s, r
      <3>5. Entered(n)
        BY <2>1, <3>2, <3>3, <3>4 DEF Entered, s
      <3> QED
        BY <1>d, <3>3, <3>5
    <2> QED
      BY <1>f, <2>1, <2>2
  <1>6. CASE OpenReplica(n)
    <2>1. W(n).id \in Assets /\ W(n).pc = "open" /\ "copy" \in Pcs
      BY <1>6 DEF OpenReplica, Pcs
    <2>2. \/ Goto(n, "err")
          \/ \E d \in Disks :
               /\ <<W(n).id, d>> \in replica[n]
               /\ PutOpen(n, "copy", {W(n).id}, d, Host[d] # n /\ Host[d] \in heard[n])
      BY <1>6 DEF OpenReplica, PutOpen
    <2>3. ASSUME NEW d \in Disks, <<W(n).id, d>> \in replica[n],
                 PutOpen(n, "copy", {W(n).id}, d, Host[d] # n /\ Host[d] \in heard[n])
          PROVE  Goal
      <3> DEFINE r == Host[d] # n /\ Host[d] \in heard[n]
                 s == {W(n).id}
      <3>1. r \in BOOLEAN /\ s \in SUBSET Assets /\ d \in Disks \union {NoDisk}
        BY <2>1
      <3>2. PutOpen(n, "copy", s, d, r)
        BY <2>3
      <3> HIDE DEF r, s
      <3>3. /\ \A m \in Nodes : m # n => worker'[m] = worker[m]
            /\ W(n)'.pc = "copy" /\ W(n)'.id = W(n).id /\ W(n)'.assets = s
            /\ W(n)'.src = d /\ W(n)'.remote = r
        BY <1>g, <2>1, <3>1, <3>2
      <3>4. OpensReplica(n)
        BY <2>1, <2>3, <3>3 DEF OpensReplica, r, s
      <3>5. Entered(n)
        BY <3>3, <3>4 DEF Entered
      <3> QED
        BY <1>d, <3>3, <3>5
    <2> QED
      BY <1>f, <2>1, <2>2, <2>3
  <1>7. CASE SameDisk(n)
    <2>1. "register" \in Pcs /\ W(n).pc = "copy" /\ W(n).src = Dst(n)
      BY <1>7 DEF SameDisk, Pcs
    <2>2. /\ \A m \in Nodes : m # n => worker'[m] = worker[m]
          /\ W(n)'.pc = "register" /\ Keeps(n)
      BY <1>7, <2>1, EmptyTodoFacts DEF SameDisk, Keeps
    <2>3. Entered(n)
      BY <2>1, <2>2 DEF Entered, Keeps
    <2> QED
      BY <1>d, <2>2, <2>3
  <1>8. ASSUME NEW a \in Assets, CopyAsset(n, a) \/ SkipAsset(n, a)
        PROVE  Goal
    <2>1. /\ worker' = [worker EXCEPT ![n].todo = @ \ {a}]
          /\ W(n).pc = "copy" /\ {a} \in SUBSET Assets
      BY <1>8 DEF CopyAsset, SkipAsset
    <2>2. /\ \A m \in Nodes : m # n => worker'[m] = worker[m]
          /\ W(n)'.pc = "copy" /\ Keeps(n)
      BY <2>1, TodoFacts DEF Keeps
    <2>3. Entered(n)
      BY <2>1, <2>2 DEF Entered, Keeps
    <2> QED
      BY <1>d, <2>2, <2>3
  <1>9. ASSUME NEW a \in Assets, ReleaseRow(n, a)
        PROVE  Goal
    <2>1. /\ PutCur(n, "wipe", {a}, {a})
          /\ W(n).pc = "release" /\ ~W(n).remote /\ a \in W(n).todo
          /\ {a} \in SUBSET Assets /\ "wipe" \in Pcs
      BY <1>9 DEF ReleaseRow, Pcs, PutCur
    <2>2. /\ \A m \in Nodes : m # n => worker'[m] = worker[m]
          /\ W(n)'.pc = "wipe" /\ Keeps(n)
          /\ W(n)'.safe = W(n).safe /\ W(n)'.todo = W(n).todo \ {a} /\ W(n)'.cur = {a}
      <3>1. /\ \A m \in Nodes : m # n => worker'[m] = worker[m]
            /\ W(n)'.pc = "wipe" /\ W(n)'.id = W(n).id /\ W(n)'.assets = W(n).assets
            /\ W(n)'.src = W(n).src /\ W(n)'.remote = W(n).remote
            /\ W(n)'.safe = W(n).safe /\ W(n)'.todo = W(n).todo \ {a} /\ W(n)'.cur = {a}
        BY <2>1, ReleaseFacts
      <3> QED
        BY <3>1 DEF Keeps
    <2>3. Entered(n)
      BY <2>1, <2>2 DEF Entered, Keeps
    <2> QED
      BY <1>d, <2>2, <2>3
  <1>10. CASE CopyFails(n)
    BY <1>10, <1>f DEF CopyFails, AfterCopy
  <1>11. CASE CopyDone(n)
    <2>1. W(n).pc = "copy" /\ (Goto(n, "err") \/ (Verified(n) /\ Goto(n, "register")))
      BY <1>11 DEF CopyDone, AfterCopy
    <2>2. ASSUME Verified(n), Goto(n, "register")
          PROVE  Goal
      <3>1. (\A m \in Nodes : Untouched(m)) /\ W(n)'.pc = "register" /\ Keeps(n)
        BY <1>4, <1>c, <2>2
      <3>2. Entered(n)
        BY <2>1, <2>2, <3>1 DEF Entered, Keeps
      <3> QED
        BY <1>d, <3>1, <3>2
    <2> QED
      BY <1>f, <2>1, <2>2
  <1>12. CASE Register(n)
    <2>1. W(n).pc = "register" /\ Goto(n, IF W(n).id = Mig THEN "judge" ELSE "ok")
      BY <1>12 DEF Register
    <2>2. CASE W(n).id = Mig
      <3>1. (\A m \in Nodes : Untouched(m)) /\ W(n)'.pc = "judge" /\ Keeps(n)
        BY <1>4, <1>c, <2>1, <2>2
      <3>2. Entered(n)
        BY <2>1, <2>2, <3>1 DEF Entered, Keeps
      <3> QED
        BY <1>d, <3>1, <3>2
    <2>3. CASE W(n).id # Mig
      <3>1. (\A m \in Nodes : Untouched(m)) /\ W(n)'.pc = "ok" /\ Keeps(n)
        BY <1>4, <1>c, <2>1, <2>3
      <3>2. Entered(n)
        BY <2>3, <3>1 DEF Entered, Keeps
      <3> QED
        BY <1>d, <3>1, <3>2
    <2> QED
      BY <2>2, <2>3
  <1>13. CASE Judge(n)
    <2> DEFINE s == {a \in W(n).assets : SafeToRelease(n, a, W(n).src)}
    <2>1. s \in SUBSET Assets /\ "release" \in Pcs /\ W(n).pc = "judge"
      BY <1>13, <1>a DEF Judge, Pcs
    <2>2. PutSafe(n, "release", s)
      BY <1>13 DEF Judge, PutSafe
    <2> HIDE DEF s
    <2>3. /\ \A m \in Nodes : m # n => worker'[m] = worker[m]
          /\ W(n)'.pc = "release" /\ Keeps(n) /\ W(n)'.safe = s /\ W(n)'.todo = s
      BY <1>h, <2>1, <2>2
    <2>4. Entered(n)
      BY <2>1, <2>3 DEF Entered, Keeps, s
    <2> QED
      BY <1>d, <2>3, <2>4
  <1>14. CASE WipeFile(n)
    <2>1. /\ worker' = [worker EXCEPT ![n].pc = "release", ![n].cur = {}]
          /\ W(n).pc = "wipe" /\ {} \in SUBSET Assets /\ "release" \in Pcs
      BY <1>14 DEF WipeFile, Pcs
    <2>2. /\ \A m \in Nodes : m # n => worker'[m] = worker[m]
          /\ W(n)'.pc = "release" /\ Keeps(n)
          /\ W(n)'.safe = W(n).safe /\ W(n)'.todo = W(n).todo
      BY <2>1, CurFacts DEF Keeps
    <2>3. Entered(n)
      BY <2>1, <2>2 DEF Entered, Keeps
    <2> QED
      BY <1>d, <2>2, <2>3
  <1>15. CASE LocalReleased(n) \/ ReleaseRemote(n)
    <2>1. W(n).pc = "release" /\ (Goto(n, "rehost") \/ Goto(n, "err"))
      BY <1>15 DEF LocalReleased, ReleaseRemote
    <2>2. ASSUME Goto(n, "rehost")
          PROVE  Goal
      <3>1. (\A m \in Nodes : Untouched(m)) /\ W(n)'.pc = "rehost" /\ Keeps(n)
        BY <1>4, <1>c, <2>2
      <3>2. Entered(n)
        BY <2>1, <3>1 DEF Entered, Keeps
      <3> QED
        BY <1>d, <3>1, <3>2
    <2> QED
      BY <1>f, <2>1, <2>2
  <1>16. CASE SaveRow(n)
    <2> DEFINE p == IF W(n).remote THEN "relinquish" ELSE "ok"
    <2>1. Goto(n, p) /\ p \in Pcs
      BY <1>16 DEF SaveRow, Pcs
    <2> HIDE DEF p
    <2>2. (\A m \in Nodes : Untouched(m)) /\ W(n)'.pc = p /\ Keeps(n)
      BY <1>4, <2>1
    <2>3. Entered(n)
      BY <1>16, <2>2 DEF Entered, Keeps, p
    <2> QED
      BY <1>d, <2>2, <2>3
  <1>17. CASE Relinquish(n)
    <2>1. \/ /\ Goto(n, "ok") /\ W(n).pc = "relinquish"
             /\ Relinquished(Host[W(n).src])
          \/ Goto(n, "err") /\ W(n).pc = "relinquish"
      BY <1>17 DEF Relinquish
    <2>2. ASSUME Goto(n, "ok"), W(n).pc = "relinquish", Relinquished(Host[W(n).src])
          PROVE  Goal
      <3>1. (\A m \in Nodes : Untouched(m)) /\ W(n)'.pc = "ok" /\ Keeps(n)
        BY <1>4, <1>c, <2>2
      <3>2. Entered(n)
        BY <2>2, <3>1 DEF Entered, Keeps
      <3> QED
        BY <1>d, <3>1, <3>2
    <2> QED
      BY <1>f, <2>1, <2>2
  <1>18. CASE Settle(n)
    <2>1. PutNext(n, "pick", W(n).queue) /\ "pick" \in Pcs /\ W(n).queue \in SUBSET TaskIds
      BY <1>18, <1>a DEF Settle, PutNext, Pcs
    <2> QED
      BY <1>18, <1>e, <2>1, NextFacts
  <1> HIDE DEF Goal
  <1>19. Goal
    <2>1. CASE \/ ListPending(n) \/ EndOfTick(n) \/ OpenMigration(n) \/ OpenReplica(n)
               \/ SameDisk(n) \/ CopyFails(n) \/ CopyDone(n) \/ Register(n) \/ Judge(n)
               \/ WipeFile(n) \/ LocalReleased(n) \/ ReleaseRemote(n) \/ SaveRow(n)
               \/ Relinquish(n) \/ Settle(n) \/ Collect(n) \/ SaveView(n)
      BY <2>1, <1>1, <1>3, <1>5, <1>6, <1>7, <1>10, <1>11, <1>12, <1>13, <1>14, <1>15,
         <1>16, <1>17, <1>18, <1>20 DEF Goal
    <2>2. CASE \/ \E id \in TaskIds : Pick(n, id)
               \/ \E a \in Assets : CopyAsset(n, a) \/ SkipAsset(n, a) \/ ReleaseRow(n, a)
               \/ \E m \in Nodes : Fetch(n, m)
      BY <2>2, <1>2, <1>8, <1>9, <1>21
    <2> QED
      BY <2>1, <2>2 DEF Work
  <1> QED
    BY <1>19 DEF Goal

\* A worker stands still, rests or starts again, or takes a step of its own.
LEMMA WhoMoves ==
  ASSUME TypeOK, WorkInv, [Next]_vars, NEW n \in Nodes
  PROVE  \/ W(n)' = W(n)
         \/ W(n)'.pc \in Resting /\ (W(n).pc \in Resting \/ Spend("crash"))
         \/ Work(n) /\ Entered(n)
  <1>1. ASSUME NEW m \in Nodes, Work(m)
        PROVE  W(n)' = W(n) \/ (Work(n) /\ Entered(n))
    BY <1>1, WorkEnters
  <1>2. ASSUME NEW m \in Nodes, Crash(m)
        PROVE  W(n)' = W(n) \/ (W(n)'.pc \in Resting /\ Spend("crash"))
    <2>1. /\ \A k \in Nodes : k # m => worker'[k] = worker[k]
          /\ W(m)' = Idle /\ Spend("crash")
      BY <1>2, StopFacts DEF Crash
    <2> QED
      BY <2>1 DEF W, Idle, Resting
  <1>3. ASSUME NEW m \in Nodes, FetchFails(m)
        PROVE  W(n)' = W(n) \/ (W(n)'.pc \in Resting /\ W(n).pc \in Resting)
    <2>1. /\ \A k \in Nodes : k # m => worker'[k] = worker[k]
          /\ W(m)'.pc = "list" /\ W(m).pc = "federate"
      BY <1>3, GotoFacts DEF FetchFails, Pcs
    <2> QED
      BY <2>1 DEF W, Resting
  <1>4. CASE UNCHANGED worker
    BY <1>4 DEF W
  <1>5. (\E c \in Nodes : Coordinate(c)) => UNCHANGED worker
    BY DEF Coordinate, EmitMigration, EmitReplica
  <1>6. Environment => \/ UNCHANGED worker
                       \/ \E m \in Nodes : Crash(m) \/ FetchFails(m)
    BY DEF Environment, Scan, Upload, Delete
  <1> QED
    BY <1>1, <1>2, <1>3, <1>4, <1>5, <1>6 DEF Next, vars

----------------------------------------------------------------------------
\* What a step does to the tables that several steps write.

\* An event that is not allowed does not happen.
LEMMA NeverSpent ==
  ASSUME TypeOK, NEW e \in Events, Max[e] = 0
  PROVE  ~Spend(e)
  BY DEF TypeOK, Spend

\* The counts of the events only grow.
LEMMA UsedStep ==
  ASSUME TypeOK, [Next]_vars
  PROVE  /\ UNCHANGED used \/ \E e \in Events : Spend(e)
         /\ \A e \in Events : /\ used[e] \in Nat /\ used'[e] \in Nat
                              /\ used[e] <= used'[e]
                              /\ Spend(e) => used'[e] = used[e] + 1
  <1>a. used \in [Events -> Nat] /\ Events = {"crash", "fail", "write", "scan", "upload", "delete"}
    BY DEF TypeOK, Events
  <1>1. (\E n \in Nodes : Work(n)) => UNCHANGED used \/ \E e \in Events : Spend(e)
    BY <1>a, WorkFrame
  <1>2. (\E c \in Nodes : Coordinate(c)) => UNCHANGED used
    BY DEF Coordinate, EmitMigration, EmitReplica
  <1>3. Environment => \E e \in Events : Spend(e)
    BY <1>a DEF Environment, Crash, FetchFails, Scan, Upload, Delete
  <1>4. UNCHANGED used \/ \E e \in Events : Spend(e)
    BY <1>1, <1>2, <1>3 DEF Next, vars
  <1>5. ASSUME NEW e \in Events, Spend(e)
        PROVE  \A f \in Events : used'[f] = IF f = e THEN used[f] + 1 ELSE used[f]
    BY <1>a, <1>5 DEF Spend
  <1> QED
    BY <1>a, <1>4, <1>5

\* A directory row is written when the directory is rehosted, scanned, or a file
\* uploaded; else it comes from a federation, or is gone.
LEMMA DirStep ==
  ASSUME [Next]_vars, NEW n \in Nodes, TypeOK
  PROVE  \/ dir'[n] = dir[n]
         \/ dir'[n] = NoDir
         \/ view[n] # NoDir /\ dir'[n] = view[n]
         \/ SaveRow(n)
         \/ \E d \in Disks : Scan(n, d) /\ dir'[n].disk = d
         \/ Spend("upload")
  <1> DEFINE Shown == \/ dir'[n] = dir[n]
                      \/ dir'[n] = NoDir
                      \/ view[n] # NoDir /\ dir'[n] = view[n]
                      \/ SaveRow(n)
                      \/ \E d \in Disks : Scan(n, d) /\ dir'[n].disk = d
                      \/ Spend("upload")
  <1>a. dir \in [Nodes -> Rows \union {NoDir}] /\ \A d \in Disks : Host[d] \in Nodes
    BY HostAssumption DEF TypeOK
  <1>1. CASE UNCHANGED dir
    BY <1>1
  <1>2. ASSUME NEW k \in Nodes, SaveRow(k)
        PROVE  Shown
    BY <1>2, <1>a DEF SaveRow
  <1>3. ASSUME NEW k \in Nodes, Relinquish(k)
        PROVE  Shown
    BY <1>3, <1>a DEF Relinquish, Relinquished
  <1>4. ASSUME NEW k \in Nodes, SaveView(k)
        PROVE  Shown
    <2>1. \/ UNCHANGED dir
          \/ dir' = [dir EXCEPT ![k] = view[k]] /\ view[k] # NoDir
      BY <1>4 DEF SaveView, Newer
    <2> QED
      BY <1>a, <2>1
  <1>5. ASSUME NEW a \in Assets, NEW d \in Disks, Upload(a, d)
        PROVE  Shown
    BY <1>5 DEF Upload
  <1>6. ASSUME NEW k \in Nodes, NEW a \in Assets, Delete(k, a)
        PROVE  Shown
    BY <1>6, <1>a DEF Delete
  <1>11. ASSUME NEW k \in Nodes, NEW d \in Disks, Scan(k, d)
         PROVE  Shown
    <2>1. \/ UNCHANGED dir
          \/ dir' = [dir EXCEPT ![k] = [node |-> k, disk |-> d, version |-> Now]]
      BY <1>11 DEF Scan, WriteOwn
    <2> QED
      BY <1>11, <1>a, <2>1
  <1>7. ASSUME NEW k \in Nodes, Work(k)
        PROVE  UNCHANGED dir \/ SaveRow(k) \/ Relinquish(k) \/ SaveView(k)
    <2>1. \/ ListPending(k) \/ EndOfTick(k) \/ OpenReplica(k) \/ SameDisk(k)
          \/ \E id \in TaskIds : Pick(k, id)
          \/ Collect(k) \/ \E m \in Nodes : Fetch(k, m)
          => UNCHANGED dir
      BY DEF ListPending, EndOfTick, OpenReplica, SameDisk, Pick, Collect, Fetch
    <2>2. OpenMigration(k) => UNCHANGED dir
      BY DEF OpenMigration
    <2>3. CopyFails(k) \/ CopyDone(k) \/ Register(k) \/ Judge(k) \/ Settle(k) => UNCHANGED dir
      BY DEF CopyFails, CopyDone, Register, Judge, Settle
    <2>4. WipeFile(k) \/ LocalReleased(k) \/ ReleaseRemote(k) => UNCHANGED dir
      BY DEF WipeFile, LocalReleased, ReleaseRemote
    <2>5. \A a \in Assets : CopyAsset(k, a) \/ SkipAsset(k, a) \/ ReleaseRow(k, a)
                            => UNCHANGED dir
      BY DEF CopyAsset, SkipAsset, ReleaseRow
    <2> QED
      BY <1>7, <2>1, <2>2, <2>3, <2>4, <2>5 DEF Work
  <1>8. ASSUME NEW k \in Nodes, Coordinate(k)
        PROVE  UNCHANGED dir
    BY <1>8 DEF Coordinate, EmitMigration, EmitReplica
  <1>9. ASSUME NEW k \in Nodes, Crash(k) \/ FetchFails(k)
        PROVE  UNCHANGED dir
    BY <1>9 DEF Crash, FetchFails
  <1> HIDE DEF Shown
  <1>10. Shown
    BY <1>1, <1>2, <1>3, <1>4, <1>5, <1>6, <1>7, <1>8, <1>9, <1>11
    DEF Next, Environment, vars, Shown
  <1> QED
    BY <1>10 DEF Shown

\* What a federation has collected are rows of nodes.
LEMMA ViewStep ==
  ASSUME [Next]_vars, NEW n \in Nodes, TypeOK
  PROVE  \/ view'[n] = view[n]
         \/ view'[n] = NoDir
         \/ \E m \in Nodes : view'[n] = dir[m]
  <1> DEFINE Shown == \/ view'[n] = view[n]
                      \/ view'[n] = NoDir
                      \/ \E m \in Nodes : view'[n] = dir[m]
  <1>a. view \in [Nodes -> Rows \union {NoDir}]
    BY DEF TypeOK
  <1>1. CASE UNCHANGED view
    BY <1>1
  <1>2. ASSUME NEW k \in Nodes, Collect(k)
        PROVE  Shown
    BY <1>2, <1>a DEF Collect
  <1>3. ASSUME NEW k \in Nodes, NEW m \in Nodes, Fetch(k, m)
        PROVE  Shown
    <2>1. UNCHANGED view \/ view' = [view EXCEPT ![k] = dir[m]]
      BY <1>3 DEF Fetch
    <2> QED
      BY <1>a, <2>1
  <1>4. ASSUME NEW k \in Nodes, SaveView(k) \/ FetchFails(k) \/ Crash(k)
        PROVE  Shown
    <2>1. view' = [view EXCEPT ![k] = NoDir]
      BY <1>4 DEF SaveView, FetchFails, Crash
    <2> QED
      BY <1>a, <2>1
  <1>5. (\E c \in Nodes : Coordinate(c)) => UNCHANGED view
    BY DEF Coordinate, EmitMigration, EmitReplica
  <1>6. Environment => UNCHANGED view \/ \E k \in Nodes : Crash(k) \/ FetchFails(k)
    BY DEF Environment, Scan, Upload, Delete
  <1>7. ASSUME NEW k \in Nodes, Work(k)
        PROVE  UNCHANGED view \/ Collect(k) \/ SaveView(k) \/ \E m \in Nodes : Fetch(k, m)
    BY <1>7, WorkFrame
  <1>8. (\E k \in Nodes : Work(k)) => Shown
    BY <1>1, <1>2, <1>3, <1>4, <1>7
  <1>9. (\E c \in Nodes : Coordinate(c)) => Shown
    BY <1>5
  <1>10. Environment => Shown
    BY <1>4, <1>6
  <1>11. UNCHANGED vars => Shown
    BY DEF vars
  <1> HIDE DEF Shown
  <1>12. Shown
    BY <1>8, <1>9, <1>10, <1>11 DEF Next
  <1> QED
    BY <1>12 DEF Shown

\* The sidecars name more assets only after an upload.
LEMMA SidecarStep ==
  ASSUME [Next]_vars, TypeOK
  PROVE  Spend("upload") \/ \A d \in Disks : sidecar'[d] \subseteq sidecar[d]
  <1>a. sidecar \in [Disks -> SUBSET Assets]
    BY DEF TypeOK
  <1>1. ASSUME NEW n \in Nodes, NEW a \in Assets, Delete(n, a)
        PROVE  \A d \in Disks : sidecar'[d] \subseteq sidecar[d]
    <2>1. UNCHANGED sidecar \/ \E d \in Disks, e \in {{}, {a}} :
                                 sidecar' = [sidecar EXCEPT ![d] = @ \ e]
      BY <1>1 DEF Delete
    <2> QED
      BY <1>a, <2>1
  <1>2. (\E n \in Nodes : Work(n)) => UNCHANGED sidecar
    BY WorkFrame
  <1>3. (\E c \in Nodes : Coordinate(c)) => UNCHANGED sidecar
    BY DEF Coordinate, EmitMigration, EmitReplica
  <1>4. Environment => \/ UNCHANGED sidecar \/ Spend("upload")
                       \/ \E n \in Nodes, a \in Assets : Delete(n, a)
    BY DEF Environment, Crash, FetchFails, Scan, Upload
  <1> QED
    BY <1>1, <1>2, <1>3, <1>4 DEF Next, vars

----------------------------------------------------------------------------
\* How often a task is executed.

LEMMA BegunInit == Init => BegunInv
  BY DEF Init, BegunInv

\* Taking a task up leaves the worker executing it.
LEMMA PickFacts ==
  ASSUME TypeOK, WorkInv, NEW n \in Nodes, NEW id \in TaskIds, Pick(n, id)
  PROVE  /\ Executes(n, id)' /\ W(n)'.id = id
         /\ task[n][id].status = "QUEUED"
         /\ begun' = [begun EXCEPT ![n] = @ \union {id}]
         /\ task'[n][id].status = "RUNNING" \/ Spend("write")
  <1>1. W(n)'.pc = "open" /\ W(n)'.id = id
    <2> DEFINE q == W(n).queue \ {id}
    <2>1. PutIdle(n, "open", id, q) /\ q \in SUBSET TaskIds /\ "open" \in Pcs
      BY DEF Pick, PutIdle, Pcs, TypeOK, W, Workers
    <2> HIDE DEF q
    <2> QED
      BY <2>1, IdleFacts
  <1>2. task[n][id].status = "QUEUED"
    BY DEF Pick, WorkInv
  <1>3. PutStatus(n, id, "RUNNING") => task'[n][id].status = "RUNNING"
    BY TaskFacts DEF Statuses
  <1> QED
    BY <1>1, <1>2, <1>3 DEF Pick, PutStatus, Executes, Resting

\* Between two tasks a worker takes up the next, or is done.
LEMMA TakesUp ==
  ASSUME TypeOK, WorkInv, NEW n \in Nodes, Work(n), W(n).pc = "pick", W(n)'.pc = "open"
  PROVE  \E id \in TaskIds : Pick(n, id) /\ W(n)'.id = id
  <1>1. ~OpenMigration(n) /\ ~OpenReplica(n) /\ ~SameDisk(n)
    BY DEF OpenMigration, OpenReplica, SameDisk
  <1>2. ~Collect(n) /\ ~SaveView(n) /\ ~ListPending(n) /\ ~(\E m \in Nodes : Fetch(n, m))
    BY DEF Collect, SaveView, ListPending, Fetch
  <1>3. ~(\E a \in Assets : CopyAsset(n, a) \/ SkipAsset(n, a) \/ ReleaseRow(n, a))
    BY DEF CopyAsset, SkipAsset, ReleaseRow
  <1>4. ~CopyFails(n) /\ ~CopyDone(n) /\ ~Register(n) /\ ~Judge(n) /\ ~Settle(n)
    BY DEF CopyFails, CopyDone, Register, Judge, Settle
  <1>5. ~WipeFile(n) /\ ~LocalReleased(n) /\ ~ReleaseRemote(n) /\ ~SaveRow(n) /\ ~Relinquish(n)
    BY DEF WipeFile, LocalReleased, ReleaseRemote, SaveRow, Relinquish
  <1>6. ~EndOfTick(n)
    <2>1. EndOfTick(n) => W(n)' = Idle
      BY StopFacts DEF EndOfTick
    <2> QED
      BY <2>1 DEF Idle
  <1>7. PICK id \in TaskIds : Pick(n, id)
    BY <1>1, <1>2, <1>3, <1>4, <1>5, <1>6 DEF Work
  <1> QED
    BY <1>7, PickFacts

LEMMA BegunStep ==
  ASSUME TypeOK, WorkInv, BegunInv, [Next]_vars
  PROVE  BegunInv'
  <1> SUFFICES ASSUME NEW n \in Nodes, NEW id \in begun'[n]
               PROVE  /\ task'[n][id].status # "none"
                      /\ task'[n][id].status = "QUEUED" =>
                           used'["write"] >= 1 /\ (Executes(n, id)' \/ Excused')
    BY DEF BegunInv
  <1>a. /\ begun \in [Nodes -> SUBSET TaskIds]
        /\ {"crash", "write"} \subseteq Events
    BY DEF TypeOK, Events
  <1>b. /\ used["write"] \in Nat /\ used["crash"] \in Nat
        /\ used'["write"] \in Nat /\ used'["crash"] \in Nat
        /\ used["write"] <= used'["write"] /\ used["crash"] <= used'["crash"]
        /\ Spend("write") => used'["write"] = used["write"] + 1
        /\ Spend("crash") => used'["crash"] = used["crash"] + 1
    BY <1>a, UsedStep
  <1>1. begun' = begun \/ \E m \in Nodes, i \in TaskIds : Pick(m, i)
    <2>1. (\E m \in Nodes : Work(m)) => begun' = begun \/ \E m \in Nodes, i \in TaskIds : Pick(m, i)
      BY WorkFrame
    <2>2. (\E c \in Nodes : Coordinate(c)) => begun' = begun
      BY DEF Coordinate, EmitMigration, EmitReplica
    <2>3. Environment => begun' = begun
      BY DEF Environment, Crash, FetchFails, Scan, Upload, Delete
    <2> QED
      BY <2>1, <2>2, <2>3 DEF Next, vars
  <1>2. id \in begun[n] \/ (id \in TaskIds /\ Pick(n, id))
    <2>1. ASSUME NEW m \in Nodes, NEW i \in TaskIds, Pick(m, i)
          PROVE  id \in begun[n] \/ (m = n /\ i = id)
      BY <1>a, <2>1, PickFacts
    <2> QED
      BY <1>1, <2>1
  <1>3. CASE id \in TaskIds /\ Pick(n, id)
    <2>1. /\ Executes(n, id)' /\ task[n][id].status = "QUEUED"
          /\ task'[n][id].status = "RUNNING" \/ Spend("write")
      BY <1>3, PickFacts
    <2>2. task'[n][id].status # "none"
      BY <1>3, <2>1, TaskStays
    <2> QED
      BY <1>b, <2>1, <2>2
  <1>4. CASE id \in begun[n]
    <2>1. id \in TaskIds /\ task[n][id].status # "none"
      BY <1>4, <1>a DEF BegunInv
    <2>2. task'[n][id].status # "none"
      BY <2>1, TaskStays
    <2>3. ASSUME task'[n][id].status = "QUEUED"
          PROVE  used'["write"] >= 1 /\ (Executes(n, id)' \/ Excused')
      <3>1. task[n][id].status = "QUEUED"
        BY <2>1, <2>3, TaskStep DEF Outcome
      <3>2. used["write"] >= 1 /\ (Executes(n, id) \/ Excused)
        BY <1>4, <3>1 DEF BegunInv
      <3>3. CASE Excused
        BY <1>b, <3>2, <3>3 DEF Excused
      <3>4. CASE Executes(n, id)
        <4>1. W(n).pc \notin Resting /\ W(n).id = id
          BY <3>4 DEF Executes
        <4>2. CASE W(n)' = W(n)
          BY <1>b, <3>2, <4>1, <4>2 DEF Executes
        <4>3. CASE Spend("crash")
          BY <1>b, <3>2, <4>3 DEF Excused
        <4>4. CASE Continues(n)
          <5>1. CASE Settle(n)
            <6>1. Spend("write")
              <7>1. task' = [task EXCEPT ![n][id].status = Outcome(n)]
                    => task'[n][id].status = Outcome(n)
                BY <2>1, TaskFacts DEF PutStatus, Outcome, Statuses
              <7> QED
                BY <2>3, <4>1, <5>1, <7>1 DEF Settle, Outcome
            <6> QED
              BY <1>b, <3>2, <6>1 DEF Excused
          <5>2. CASE W(n)'.pc \notin Resting /\ W(n)'.id = W(n).id
            BY <1>b, <3>2, <4>1, <5>2 DEF Executes
          <5> QED
            BY <4>1, <4>4, <5>1, <5>2 DEF Continues
        <4> QED
          BY <4>1, <4>2, <4>3, <4>4, WhoMoves DEF Entered
      <3> QED
        BY <3>2, <3>3, <3>4
    <2> QED
      BY <2>2, <2>3
  <1> QED
    BY <1>2, <1>3, <1>4

\* However often the coordinators emit it and processes die, a task is executed
\* again only after two lost updates of its status, or one and a crash.
THEOREM TaskRunsOnce == Spec => ExecutedOnce
  <1> DEFINE Once == \A n \in Nodes :
               /\ W(n).pc = "pick" /\ W(n)'.pc = "open"
               /\ W(n)'.id \in begun[n]
               => Excused
  <1>1. ASSUME TypeOK, WorkInv, BegunInv, [Next]_vars
        PROVE  Once
    <2> SUFFICES ASSUME NEW n \in Nodes, W(n).pc = "pick", W(n)'.pc = "open",
                        W(n)'.id \in begun[n]
                 PROVE  Excused
      OBVIOUS
    <2>1. Work(n)
      BY <1>1, WhoMoves DEF Resting
    <2>2. PICK id \in TaskIds : Pick(n, id) /\ W(n)'.id = id
      BY <1>1, <2>1, TakesUp
    <2>3. task[n][id].status = "QUEUED"
      BY <1>1, <2>2, PickFacts
    <2>4. ~Executes(n, id)
      BY DEF Executes, Resting
    <2> QED
      BY <1>1, <2>2, <2>3, <2>4 DEF BegunInv
  <1>2. Init => TypeOK /\ WorkInv /\ BegunInv
    BY TypeInit, BegunInit
  <1>3. TypeOK /\ WorkInv /\ BegunInv /\ [Next]_vars => TypeOK' /\ WorkInv' /\ BegunInv'
    BY TypeStep, BegunStep
  <1>4. TypeOK /\ WorkInv /\ BegunInv /\ [Next]_vars => [Once]_vars
    BY <1>1
  <1>5. Spec => [][Once]_vars
    BY <1>2, <1>3, <1>4, PTL DEF Spec
  <1> QED
    BY <1>5 DEF ExecutedOnce

----------------------------------------------------------------------------
\* A directory with one target node, which nobody uploads to, is moved once.

SingleTarget == \A d, e \in Targets : Host[d] = Host[e]

\* Only the sidecar of its home lists anything, so that no other disk is scanned.
SidecarAtHome == \A p \in Listed : p[2] = Home

LEMMA HomeInit == Init => HomeInv
  <1> SUFFICES ASSUME Init
               PROVE  HomeInv
    OBVIOUS
  <1>1. \A n \in Nodes : task[n][Mig].status = "none"
    BY DEF Init, NoTask, TaskIds
  <1>2. \A n \in Nodes : /\ dir[n] # NoDir => dir[n].disk = Home
                         /\ view[n] # NoDir => view[n].disk = Home
    BY DEF Init
  <1>3. \A d \in Disks : sidecar[d] \X {d} \subseteq Listed
    BY DEF Init
  <1> QED
    BY <1>1, <1>2, <1>3 DEF HomeInv

LEMMA HomeStep ==
  ASSUME SingleTarget, SidecarAtHome, Max["upload"] = 0,
         TypeOK, WorkInv, HomeInv, [Next]_vars
  PROVE  HomeInv'
  <1>a. Mig \in TaskIds
    BY DEF TaskIds
  <1>b. ~Spend("upload")
    BY NeverSpent DEF Events
  <1>c. \A d \in Disks : sidecar'[d] \X {d} \subseteq Listed
    BY <1>b, SidecarStep DEF HomeInv
  <1>1. ASSUME NEW c \in Nodes, NEW dst \in Disks, EmitMigration(c, dst)
        PROVE  HomeInv'
    <2>1. /\ dir[c] # NoDir /\ dst \in Targets /\ Host[dst] \in Nodes
          /\ dir[c].disk \in Disks \union {NoDisk}
          /\ SubmitTask(Host[dst], Mig, dir[c].disk, dst)
      BY <1>1, HostAssumption DEF EmitMigration, TypeOK, Rows
    <2>2. /\ \A m \in Nodes, i \in TaskIds :
               m # Host[dst] \/ i # Mig => task'[m][i] = task[m][i]
          /\ task'[Host[dst]][Mig] = [status |-> "QUEUED", src |-> dir[c].disk, dst |-> dst]
          /\ task[Host[dst]][Mig].status = "none"
      BY <1>a, <2>1, SubmitFacts
    <2>3. \A n \in Nodes : task[n][Mig].status = "none"
      <3> SUFFICES ASSUME NEW n \in Nodes, task[n][Mig].status # "none"
                   PROVE  FALSE
        OBVIOUS
      <3>1. task[n][Mig].dst \in Targets /\ Host[task[n][Mig].dst] = n
        BY <1>a DEF HomeInv, WorkInv
      <3> QED
        BY <2>1, <2>2, <3>1 DEF SingleTarget
    <2>4. dir[c].disk = Home
      BY <2>1, <2>3 DEF HomeInv
    <2>5. \A n \in Nodes : task'[n][Mig].status # "none" =>
            task'[n][Mig].src = Home /\ task'[n][Mig].dst \in Targets
      BY <1>a, <2>1, <2>2, <2>3, <2>4
    <2>6. task'[Host[dst]][Mig].status # "none"
      BY <2>2
    <2> QED
      BY <1>c, <2>1, <2>5, <2>6 DEF HomeInv
  <1>2. ASSUME ~\E c \in Nodes, dst \in Disks : EmitMigration(c, dst)
        PROVE  HomeInv'
    <2>a. \A n \in Nodes :
                 /\ task'[n][Mig].src = task[n][Mig].src
                 /\ task'[n][Mig].dst = task[n][Mig].dst
                 /\ task'[n][Mig].status = "none" <=> task[n][Mig].status = "none"
      BY <1>2, <1>a, TaskStep, IdAssumption DEF Outcome
    <2>b. ASSUME \A n \in Nodes : task[n][Mig].status = "none"
          PROVE  \A n \in Nodes : /\ dir[n] # NoDir => dir[n].disk = Home
                                  /\ view[n] # NoDir => view[n].disk = Home
      BY <2>b DEF HomeInv
    <2>1. ASSUME \A n \in Nodes : task[n][Mig].status = "none",
                 NEW n \in Nodes, dir'[n] # NoDir
          PROVE  dir'[n].disk = Home
      <3>2. ~SaveRow(n)
        <4>1. ASSUME SaveRow(n)
              PROVE  FALSE
          <5>1. W(n).pc = "rehost"
            BY <4>1 DEF SaveRow
          <5>2. W(n).id = Mig /\ task[n][W(n).id].status # "none"
            BY <5>1, RunningTask DEF WorkInv, Releasing, Resting
          <5> QED
            BY <2>1, <5>2
        <4> QED
          BY <4>1
      <3>3. ASSUME NEW d \in Disks, Scan(n, d)
            PROVE  d = Home
        <4>1. PICK a \in Assets : <<a, d>> \in Listed
          BY <3>3 DEF Scan, HomeInv, TypeOK
        <4>2. <<a, d>>[2] = Home
          BY <4>1 DEF SidecarAtHome
        <4> QED
          BY <4>2
      <3> QED
        BY <1>b, <2>1, <2>b, <3>2, <3>3, DirStep
    <2>2. ASSUME \A n \in Nodes : task[n][Mig].status = "none",
                 NEW n \in Nodes, view'[n] # NoDir
          PROVE  view'[n].disk = Home
      BY <2>2, <2>b, ViewStep
    <2> QED
      BY <1>c, <2>a, <2>1, <2>2 DEF HomeInv
  <1> QED
    BY <1>1, <1>2

\* A migration under way is the one of before, or has just been opened.
LEMMA MovesFrom ==
  ASSUME TypeOK, WorkInv, [Next]_vars, NEW n \in Nodes, Moves(n)'
  PROVE  /\ task[n][Mig].status # "none"
         /\ task'[n][Mig].src = task[n][Mig].src
         /\ task'[n][Mig].dst = task[n][Mig].dst
         /\ Dst(n)' = task[n][Mig].dst
         /\ \/ Moves(n) /\ Keeps(n)
            \/ /\ OpensMigration(n)
               /\ W(n)'.pc = "copy" \/ (W(n)'.pc = "judge" /\ known[n] = {})
  <1>a. Mig \in TaskIds /\ Mig \notin Assets
    BY IdAssumption DEF TaskIds
  <1>1. W(n)'.pc \in Opened /\ W(n)'.id = Mig
    BY DEF Moves
  <1>2. \/ Moves(n) /\ Keeps(n)
        \/ /\ OpensMigration(n)
           /\ W(n)'.pc = "copy" \/ (W(n)'.pc = "judge" /\ known[n] = {})
    <2>1. CASE W(n)' = W(n)
      BY <1>1, <2>1 DEF Moves, Keeps
    <2>2. CASE W(n)'.pc \in Resting
      BY <1>1, <2>2 DEF Resting, Opened
    <2>3. CASE Work(n) /\ Entered(n)
      <3>1. CASE W(n)'.pc = "copy"
        BY <1>1, <1>a, <2>3, <3>1 DEF Entered, Moves, Keeps, OpensReplica, Opened
      <3>2. CASE W(n)'.pc \in {"register", "judge", "release", "wipe", "rehost"}
        BY <1>1, <2>3, <3>2 DEF Entered, Moves, Keeps, Opened
      <3>3. CASE W(n)'.pc = "relinquish"
        BY <1>1, <2>3, <3>3 DEF Entered, Moves, Keeps, Opened, SaveRow
      <3> QED
        BY <1>1, <3>1, <3>2, <3>3 DEF Opened
    <2> QED
      BY <2>1, <2>2, <2>3, WhoMoves
  <1>3. task[n][Mig].status # "none"
    <2>1. W(n).id = Mig /\ W(n).pc \notin Resting
      BY <1>2 DEF Moves, Opened, OpensMigration, Resting
    <2>2. task[n][W(n).id].status # "none"
      BY <2>1 DEF WorkInv
    <2> QED
      BY <2>1, <2>2
  <1> QED
    BY <1>1, <1>2, <1>3, <1>a, TaskStays DEF Dst

\* Asset rows come with uploads and scans, and go with deletions.
LEMMA KnownStep ==
  ASSUME [Next]_vars
  PROVE  \/ known' = known
         \/ Spend("upload") \/ Spend("delete")
         \/ \E n \in Nodes, d \in Disks : Scan(n, d)
  <1>1. ASSUME NEW n \in Nodes, Work(n)
        PROVE  UNCHANGED known
    <2>1. \/ ListPending(n) \/ EndOfTick(n) \/ OpenReplica(n) \/ SameDisk(n)
          \/ \E id \in TaskIds : Pick(n, id)
          \/ Collect(n) \/ SaveView(n) \/ \E m \in Nodes : Fetch(n, m)
          => UNCHANGED known
      BY DEF ListPending, EndOfTick, OpenReplica, SameDisk, Pick, Collect, SaveView, Fetch
    <2>2. OpenMigration(n) => UNCHANGED known
      BY DEF OpenMigration
    <2>3. CopyFails(n) \/ CopyDone(n) \/ Register(n) \/ Judge(n) \/ Settle(n) => UNCHANGED known
      BY DEF CopyFails, CopyDone, Register, Judge, Settle
    <2>4. WipeFile(n) \/ LocalReleased(n) \/ ReleaseRemote(n) => UNCHANGED known
      BY DEF WipeFile, LocalReleased, ReleaseRemote
    <2>5. SaveRow(n) \/ Relinquish(n) => UNCHANGED known
      BY DEF SaveRow, Relinquish
    <2>6. \A a \in Assets : CopyAsset(n, a) \/ SkipAsset(n, a) \/ ReleaseRow(n, a)
                            => UNCHANGED known
      BY DEF CopyAsset, SkipAsset, ReleaseRow
    <2> QED
      BY <1>1, <2>1, <2>2, <2>3, <2>4, <2>5, <2>6 DEF Work
  <1>2. (\E c \in Nodes : Coordinate(c)) => UNCHANGED known
    BY DEF Coordinate, EmitMigration, EmitReplica
  <1>3. Environment => \/ UNCHANGED known \/ Spend("upload") \/ Spend("delete")
                       \/ \E n \in Nodes, d \in Disks : Scan(n, d)
    BY DEF Environment, FetchFails, Crash, Upload, Delete
  <1> QED
    BY <1>1, <1>2, <1>3 DEF Next, vars

\* Files go with the release of a source, and with a deletion.
LEMMA BytesStep ==
  ASSUME [Next]_vars
  PROVE  \/ bytes \subseteq bytes'
         \/ Spend("delete")
         \/ \E n \in Nodes : Work(n) /\ (WipeFile(n) \/ ReleaseRemote(n))
  <1>1. ASSUME NEW n \in Nodes, Work(n)
        PROVE  bytes \subseteq bytes' \/ WipeFile(n) \/ ReleaseRemote(n)
    <2>1. \/ ListPending(n) \/ EndOfTick(n) \/ OpenReplica(n) \/ SameDisk(n)
          \/ \E id \in TaskIds : Pick(n, id)
          \/ Collect(n) \/ SaveView(n) \/ \E m \in Nodes : Fetch(n, m)
          => UNCHANGED bytes
      BY DEF ListPending, EndOfTick, OpenReplica, SameDisk, Pick, Collect, SaveView, Fetch
    <2>2. OpenMigration(n) => UNCHANGED bytes
      BY DEF OpenMigration
    <2>3. CopyFails(n) \/ CopyDone(n) \/ Register(n) \/ Judge(n) \/ Settle(n) => UNCHANGED bytes
      BY DEF CopyFails, CopyDone, Register, Judge, Settle
    <2>4. SaveRow(n) \/ Relinquish(n) \/ LocalReleased(n) => UNCHANGED bytes
      BY DEF SaveRow, Relinquish, LocalReleased
    <2>5. \A a \in Assets : CopyAsset(n, a) \/ SkipAsset(n, a) \/ ReleaseRow(n, a)
                            => bytes \subseteq bytes'
      BY DEF CopyAsset, SkipAsset, ReleaseRow
    <2> QED
      BY <1>1, <2>1, <2>2, <2>3, <2>4, <2>5 DEF Work
  <1>2. (\E c \in Nodes : Coordinate(c)) => UNCHANGED bytes
    BY DEF Coordinate, EmitMigration, EmitReplica
  <1>3. Environment => bytes \subseteq bytes' \/ Spend("delete")
    BY DEF Environment, FetchFails, Scan, Crash, Upload, Delete
  <1> QED
    BY <1>1, <1>2, <1>3 DEF Next, vars

\* Files come with a copy, and with an upload.
LEMMA BytesGrow ==
  ASSUME [Next]_vars
  PROVE  \/ bytes' \subseteq bytes
         \/ Spend("upload")
         \/ \E n \in Nodes, a \in Assets : CopyAsset(n, a)
  <1>1. ASSUME NEW n \in Nodes, Work(n)
        PROVE  bytes' \subseteq bytes \/ \E a \in Assets : CopyAsset(n, a)
    <2>1. \/ ListPending(n) \/ EndOfTick(n) \/ OpenReplica(n) \/ SameDisk(n)
          \/ \E id \in TaskIds : Pick(n, id)
          \/ Collect(n) \/ SaveView(n) \/ \E m \in Nodes : Fetch(n, m)
          => bytes' = bytes
      BY DEF ListPending, EndOfTick, OpenReplica, SameDisk, Pick, Collect, SaveView, Fetch
    <2>2. OpenMigration(n) => bytes' = bytes
      BY DEF OpenMigration
    <2>3. CopyFails(n) \/ CopyDone(n) \/ Register(n) \/ Judge(n) \/ Settle(n) => bytes' = bytes
      BY DEF CopyFails, CopyDone, Register, Judge, Settle
    <2>4. SaveRow(n) \/ Relinquish(n) \/ LocalReleased(n) => bytes' = bytes
      BY DEF SaveRow, Relinquish, LocalReleased
    <2>5. WipeFile(n) \/ ReleaseRemote(n) => bytes' \subseteq bytes
      BY DEF WipeFile, ReleaseRemote, ReleasedAt
    <2>6. \A a \in Assets : SkipAsset(n, a) \/ ReleaseRow(n, a) => bytes' = bytes
      BY DEF SkipAsset, ReleaseRow
    <2> QED
      BY <1>1, <2>1, <2>2, <2>3, <2>4, <2>5, <2>6 DEF Work
  <1>2. (\E c \in Nodes : Coordinate(c)) => bytes' = bytes
    BY DEF Coordinate, EmitMigration, EmitReplica
  <1>3. Environment => bytes' \subseteq bytes \/ Spend("upload")
    BY DEF Environment, FetchFails, Scan, Crash, Upload, Delete
  <1> QED
    BY <1>1, <1>2, <1>3 DEF Next, vars

\* Only a copy adds to a manifest.
LEMMA ManifestStep ==
  ASSUME [Next]_vars
  PROVE  manifest' = manifest \/ \E n \in Nodes, a \in Assets : CopyAsset(n, a)
  <1>1. ASSUME NEW n \in Nodes, Work(n)
        PROVE  UNCHANGED manifest \/ \E a \in Assets : CopyAsset(n, a)
    <2>1. \/ ListPending(n) \/ EndOfTick(n) \/ OpenReplica(n) \/ SameDisk(n)
          \/ \E id \in TaskIds : Pick(n, id)
          \/ Collect(n) \/ SaveView(n) \/ \E m \in Nodes : Fetch(n, m)
          => UNCHANGED manifest
      BY DEF ListPending, EndOfTick, OpenReplica, SameDisk, Pick, Collect, SaveView, Fetch
    <2>2. OpenMigration(n) => UNCHANGED manifest
      BY DEF OpenMigration
    <2>3. CopyFails(n) \/ CopyDone(n) \/ Register(n) \/ Judge(n) \/ Settle(n)
          => UNCHANGED manifest
      BY DEF CopyFails, CopyDone, Register, Judge, Settle
    <2>4. SaveRow(n) \/ Relinquish(n) \/ LocalReleased(n) => UNCHANGED manifest
      BY DEF SaveRow, Relinquish, LocalReleased
    <2>5. WipeFile(n) \/ ReleaseRemote(n) => UNCHANGED manifest
      BY DEF WipeFile, ReleaseRemote
    <2>6. \A a \in Assets : SkipAsset(n, a) \/ ReleaseRow(n, a) => UNCHANGED manifest
      BY DEF SkipAsset, ReleaseRow
    <2> QED
      BY <1>1, <2>1, <2>2, <2>3, <2>4, <2>5, <2>6 DEF Work
  <1>2. (\E c \in Nodes : Coordinate(c)) => UNCHANGED manifest
    BY DEF Coordinate, EmitMigration, EmitReplica
  <1>3. Environment => UNCHANGED manifest
    BY DEF Environment, FetchFails, Scan, Crash, Upload, Delete
  <1> QED
    BY <1>1, <1>2, <1>3 DEF Next, vars

\* What the release of a source takes away.
LEMMA Released ==
  ASSUME TypeOK, WorkInv, NEW n \in Nodes, WipeFile(n) \/ ReleaseRemote(n)
  PROVE  /\ Moves(n) /\ W(n).pc \in {"release", "wipe"}
         /\ W(n).src = task[n][Mig].src /\ W(n).src # Dst(n)
         /\ Dst(n) = task[n][Mig].dst
         /\ bytes' \subseteq bytes
         /\ \A p \in bytes : p \in bytes' \/ p[2] = W(n).src
  <1>1. W(n).pc \in {"release", "wipe"}
    BY DEF WipeFile, ReleaseRemote
  <1>2. Moves(n)
    BY <1>1 DEF Moves, WorkInv, Releasing, Opened
  <1>3. W(n).src = task[n][Mig].src /\ W(n).src # Dst(n)
    BY <1>1, <1>2, RunningTask DEF Resting
  <1>4. bytes' \subseteq bytes /\ \A p \in bytes : p \in bytes' \/ p[2] = W(n).src
    BY DEF WipeFile, ReleaseRemote, ReleasedAt
  <1> QED
    BY <1>1, <1>2, <1>3, <1>4 DEF Dst, Moves

\* Files stay on every disk but the home of the directory.
LEMMA BytesStay ==
  ASSUME Max["delete"] = 0, TypeOK, WorkInv, HomeInv, [Next]_vars
  PROVE  \A p \in bytes : p[2] # Home => p \in bytes'
  <1>1. ~Spend("delete")
    BY NeverSpent DEF Events
  <1>2. ASSUME NEW n \in Nodes, WipeFile(n) \/ ReleaseRemote(n)
        PROVE  \A p \in bytes : p[2] # Home => p \in bytes'
    <2>1. /\ Moves(n)
          /\ W(n).src = task[n][Mig].src
          /\ \A p \in bytes : p \in bytes' \/ p[2] = W(n).src
      BY <1>2, Released
    <2>2. task[n][Mig].status # "none"
      BY <2>1 DEF Moves, Opened, Resting, WorkInv
    <2> QED
      BY <2>1, <2>2 DEF HomeInv
  <1> QED
    BY <1>1, <1>2, BytesStep

LEMMA MoveInit == Init => MoveInv
  <1> SUFFICES ASSUME Init
               PROVE  MoveInv
    OBVIOUS
  <1>1. \A n \in Nodes : ~Moves(n)
    BY DEF Init, Idle, Moves, W, Opened
  <1> QED
    BY <1>1 DEF Init, MoveInv

\* A scan of the home finds what is listed already.
LEMMA KnownStays ==
  ASSUME Max["upload"] = 0, Max["delete"] = 0, TypeOK, HomeInv, MoveInv, [Next]_vars
  PROVE  known' = known
  <1>1. ~Spend("upload") /\ ~Spend("delete")
    BY NeverSpent DEF Events
  <1>2. ASSUME NEW n \in Nodes, NEW d \in Disks, Scan(n, d)
        PROVE  known' = known
    <2> DEFINE found == {a \in sidecar[d] : <<a, d>> \in bytes}
    <2>1. known' = [known EXCEPT ![n] = @ \union found] /\ Host[d] = n
      BY <1>2 DEF Scan
    <2>2. found \subseteq Lists(n)
      <3>1. \A a \in sidecar[d] : a \in Assets /\ <<a, d>> \in Placed
        BY ListedAssumption DEF HomeInv, TypeOK
      <3> QED
        BY <2>1, <3>1 DEF Lists
    <2> HIDE DEF found
    <2>3. known[n] \union found = known[n]
      BY <2>2 DEF MoveInv
    <2> QED
      BY <2>1, <2>3 DEF TypeOK
  <1> QED
    BY <1>1, <1>2, KnownStep

LEMMA MoveStep ==
  ASSUME Max["upload"] = 0, Max["delete"] = 0,
         TypeOK, WorkInv, HomeInv, MoveInv, [Next]_vars
  PROVE  MoveInv'
  <1>1. known' = known
    BY KnownStays
  <1>2. \A p \in bytes : p[2] # Home => p \in bytes'
    BY BytesStay
  <1>3. \A d \in Disks \ {Home} : manifest'[d] \X {d} \subseteq bytes'
    <2>1. \A d \in Disks \ {Home} : manifest[d] \X {d} \subseteq bytes'
      BY <1>2 DEF MoveInv
    <2>2. ASSUME NEW n \in Nodes, NEW a \in Assets, CopyAsset(n, a)
          PROVE  \A d \in Disks \ {Home} : manifest'[d] \X {d} \subseteq bytes'
      <3>1. /\ <<a, Dst(n)>> \in bytes'
            /\ \A d \in Disks : \A x \in manifest'[d] :
                 x \in manifest[d] \/ (d = Dst(n) /\ x = a)
        BY <2>2 DEF CopyAsset, TypeOK
      <3> QED
        BY <2>1, <3>1
    <2> QED
      BY <2>1, <2>2, ManifestStep
  <1>4. ASSUME NEW n \in Nodes, Moves(n)'
        PROVE  /\ W(n)'.assets = Lists(n)
               /\ W(n)'.pc \in {"release", "wipe"} =>
                    W(n)'.todo \union W(n)'.safe \subseteq Lists(n)
               /\ W(n)'.pc = "wipe" => W(n)'.cur \subseteq Lists(n)
               /\ W(n)'.pc # "copy" => Lists(n) \X {Dst(n)'} \subseteq bytes'
    <2> DEFINE t == task[n][Mig].dst
    <2>1. /\ task[n][Mig].status # "none"
          /\ Dst(n)' = t
          /\ \/ Moves(n) /\ Keeps(n)
             \/ /\ OpensMigration(n)
                /\ W(n)'.pc = "copy" \/ (W(n)'.pc = "judge" /\ known[n] = {})
      BY <1>4, MovesFrom
    <2>2. task[n][Mig].src = Home /\ task[n][Mig].dst \in Disks \ {Home}
      <3>1. task[n][Mig].src \in Disks \ {task[n][Mig].dst} /\ task[n][Mig].dst \in Disks
        BY <2>1 DEF WorkInv, TaskIds
      <3> QED
        BY <2>1, <3>1 DEF HomeInv
    <2>3. W(n)'.pc \in Opened /\ W(n)'.id = Mig
      BY <1>4 DEF Moves
    <2>4. Moves(n) => Dst(n) = t
      BY DEF Moves, Dst
    <2>5. W(n)'.assets = Lists(n)
      BY <2>1 DEF MoveInv, Keeps, OpensMigration
    <2>6. Lists(n) \X {t} \subseteq bytes => Lists(n) \X {t} \subseteq bytes'
      BY <1>2, <2>2
    <2>7. CASE W(n)' = W(n)
      <3>1. Moves(n)
        BY <2>3, <2>7 DEF Moves
      <3> QED
        BY <2>1, <2>4, <2>5, <2>6, <2>7, <3>1 DEF MoveInv
    <2>8. CASE W(n)'.pc \in Resting
      BY <2>3, <2>8 DEF Resting, Opened
    <2>9. CASE Entered(n)
      <3>1. CASE W(n)'.pc = "copy"
        BY <2>5, <3>1
      <3>2. CASE W(n)'.pc = "register"
        <4>1. W(n).pc = "copy" /\ Keeps(n) /\ (W(n).src = Dst(n) \/ Verified(n))
          BY <2>9, <3>2 DEF Entered
        <4>2. Moves(n)
          BY <2>3, <4>1 DEF Keeps, Moves, Opened
        <4>3. W(n).src # Dst(n)
          BY <4>1, <4>2, RunningTask DEF Resting
        <4>4. manifest[t] = Lists(n)
          BY <2>4, <4>1, <4>2, <4>3 DEF Verified, MoveInv
        <4>5. manifest[t] \X {t} \subseteq bytes
          BY <2>2 DEF MoveInv
        <4> QED
          BY <2>1, <2>5, <2>6, <3>2, <4>4, <4>5
      <3>3. CASE W(n)'.pc \in {"judge", "rehost", "relinquish"}
        <4>1. CASE OpensMigration(n) /\ known[n] = {}
          <5>1. Lists(n) = {}
            BY <4>1 DEF MoveInv
          <5> QED
            BY <2>5, <3>3, <5>1
        <4>2. CASE Moves(n) /\ W(n).pc # "copy"
          BY <2>1, <2>4, <2>5, <2>6, <3>3, <4>2 DEF MoveInv
        <4>3. W(n).pc = "copy" => ~Moves(n)
          BY <2>9, <3>3 DEF Entered, OpensMigration, SaveRow
        <4> QED
          BY <2>1, <3>3, <4>1, <4>2, <4>3
      <3>4. CASE W(n)'.pc = "release"
        <4>1. \/ /\ W(n).pc = "judge" /\ Keeps(n)
                 /\ W(n)'.safe = {a \in W(n).assets : SafeToRelease(n, a, W(n).src)}
                 /\ W(n)'.todo = W(n)'.safe
              \/ /\ W(n).pc = "wipe" /\ Keeps(n)
                 /\ W(n)'.safe = W(n).safe /\ W(n)'.todo = W(n).todo
          BY <2>9, <3>4 DEF Entered
        <4>2. Moves(n) /\ W(n).pc # "copy"
          BY <2>3, <4>1 DEF Keeps, Moves, Opened
        <4>3. W(n)'.todo \union W(n)'.safe \subseteq Lists(n)
          <5>1. CASE W(n).pc = "judge"
            <6>1. W(n)'.safe \subseteq W(n).assets /\ W(n)'.todo = W(n)'.safe
              BY <4>1, <5>1
            <6> QED
              BY <4>2, <6>1 DEF MoveInv
          <5>2. CASE W(n).pc = "wipe"
            BY <4>1, <4>2, <5>2 DEF MoveInv
          <5> QED
            BY <4>1, <5>1, <5>2
        <4> QED
          BY <2>1, <2>4, <2>5, <2>6, <3>4, <4>2, <4>3 DEF MoveInv
      <3>5. CASE W(n)'.pc = "wipe"
        <4>1. /\ W(n).pc = "release" /\ Keeps(n)
              /\ W(n)'.safe = W(n).safe
              /\ \E a \in W(n).todo : W(n)'.todo = W(n).todo \ {a} /\ W(n)'.cur = {a}
          BY <2>9, <3>5 DEF Entered
        <4>2. Moves(n) /\ W(n).pc # "copy"
          BY <2>3, <4>1 DEF Keeps, Moves, Opened
        <4>3. W(n).todo \union W(n).safe \subseteq Lists(n)
          BY <4>1, <4>2 DEF MoveInv
        <4>4. W(n)'.todo \union W(n)'.safe \subseteq Lists(n) /\ W(n)'.cur \subseteq Lists(n)
          BY <4>1, <4>3
        <4> QED
          BY <2>1, <2>4, <2>5, <2>6, <3>5, <4>2, <4>4 DEF MoveInv
      <3> QED
        BY <2>3, <3>1, <3>2, <3>3, <3>4, <3>5 DEF Opened
    <2> QED
      BY <2>7, <2>8, <2>9, WhoMoves
  <1> QED
    BY <1>1, <1>3, <1>4 DEF MoveInv

\* A copy of every asset is at the target before the source is given up: with
\* one target node, no uploads and no deletions, nothing is lost whatever fails.
LEMMA MoveHolds ==
  ASSUME SingleTarget, SidecarAtHome, Max["upload"] = 0, Max["delete"] = 0
  PROVE  Spec => [](TypeOK /\ WorkInv /\ HomeInv /\ MoveInv)
  <1>1. Init => TypeOK /\ WorkInv /\ HomeInv /\ MoveInv
    BY TypeInit, HomeInit, MoveInit
  <1>2. TypeOK /\ WorkInv /\ HomeInv /\ MoveInv /\ [Next]_vars
        => TypeOK' /\ WorkInv' /\ HomeInv' /\ MoveInv'
    BY TypeStep, HomeStep, MoveStep
  <1> QED
    BY <1>1, <1>2, PTL DEF Spec

\* When the directory's row is rehosted, all that the target lists is at the target.
THEOREM MovesAllFiles ==
  ASSUME SingleTarget, SidecarAtHome, Max["upload"] = 0, Max["delete"] = 0
  PROVE  Spec => MovesWhole
  <1> DEFINE Whole == \A n \in Nodes :
               W(n).pc = "rehost" /\ W(n)'.pc # "rehost" /\ dir'[n] # dir[n] =>
                 known[n] \X {Dst(n)} \subseteq bytes
  <1>1. ASSUME TypeOK, WorkInv, MoveInv
        PROVE  \A n \in Nodes : W(n).pc = "rehost" => known[n] \X {Dst(n)} \subseteq bytes
    <2> SUFFICES ASSUME NEW n \in Nodes, W(n).pc = "rehost"
                 PROVE  known[n] \X {Dst(n)} \subseteq bytes
      OBVIOUS
    <2>1. Moves(n)
      BY <1>1 DEF Moves, Opened, Releasing, WorkInv
    <2>2. Lists(n) \X {Dst(n)} \subseteq bytes /\ known[n] = Lists(n)
      BY <1>1, <2>1 DEF MoveInv
    <2> QED
      BY <2>2
  <1>2. TypeOK /\ WorkInv /\ MoveInv /\ [Next]_vars => [Whole]_vars
    BY <1>1
  <1>3. Spec => [][Whole]_vars
    BY <1>2, MoveHolds, PTL DEF Spec
  <1> QED
    BY <1>3 DEF MovesWhole

----------------------------------------------------------------------------
\* No asset is lost.

\* Every asset some node lists has a file in the beginning, and a node the
\* directory may be moved to lists all that its home lists: a release of
\* nothing is taken for a release of all that the source lists.
AllPlaced == \A p \in KnownToo : \E d \in Disks : <<p[2], d>> \in Placed
TargetListsAll == \A d \in Targets : Lists(Host[Home]) \subseteq Lists(Host[d])

LEMMA SurviveStep ==
  ASSUME TargetListsAll, Max["upload"] = 0, Max["delete"] = 0,
         TypeOK, WorkInv, HomeInv, MoveInv, AssetSurvives, [Next]_vars
  PROVE  AssetSurvives'
  <1>1. known' = known /\ ~Spend("delete")
    BY KnownStays, NeverSpent DEF Events
  <1>2. \A p \in bytes : p[2] # Home => p \in bytes'
    BY BytesStay
  <1>3. ASSUME NEW n \in Nodes, WipeFile(n) \/ ReleaseRemote(n),
               NEW a \in Assets, NEW d \in Disks, <<a, d>> \in bytes
        PROVE  \E e \in Disks : <<a, e>> \in bytes'
    <2>1. /\ Moves(n) /\ W(n).pc \in {"release", "wipe"}
          /\ W(n).src = task[n][Mig].src
          /\ Dst(n) = task[n][Mig].dst
          /\ \A p \in bytes : p \in bytes' \/ p[2] = W(n).src
      BY <1>3, Released
    <2>2. /\ task[n][Mig].status # "none" /\ Mig \in TaskIds
          /\ W(n).src = Home /\ Dst(n) \in Targets
          /\ Dst(n) \in Disks \ {Home} /\ Host[Dst(n)] = n
      <3>1. task[n][Mig].status # "none" /\ Mig \in TaskIds
        BY <2>1 DEF Moves, Opened, Resting, WorkInv, TaskIds
      <3> QED
        BY <2>1, <3>1 DEF HomeInv, WorkInv
    <2>3. CASE <<a, d>> \in bytes'
      BY <2>3
    <2>4. CASE <<a, d>> \notin bytes'
      <3>1. d = Home
        BY <1>3, <2>1, <2>2, <2>4
      <3>2. a \in Lists(n)
        <4>1. CASE WipeFile(n)
          <5>1. a \in W(n).cur /\ W(n).pc = "wipe"
            BY <1>3, <2>4, <4>1 DEF WipeFile
          <5> QED
            BY <2>1, <5>1 DEF MoveInv
        <4>2. CASE ReleaseRemote(n)
          <5>1. a \in Allowed(Host[Home], W(n).safe)
            BY <1>3, <2>2, <2>4, <4>2 DEF ReleaseRemote, ReleasedAt
          <5>2. W(n).safe \subseteq Lists(n)
            BY <2>1 DEF MoveInv
          <5>3. known[Host[Home]] \subseteq Lists(n)
            BY <2>2, HostAssumption DEF MoveInv, TargetListsAll
          <5> QED
            BY <5>1, <5>2, <5>3 DEF Allowed
        <4> QED
          BY <1>3, <4>1, <4>2
      <3>3. <<a, Dst(n)>> \in bytes
        BY <2>1, <3>2 DEF MoveInv
      <3> QED
        BY <1>2, <2>2, <3>3
    <2> QED
      BY <2>3, <2>4
  <1>4. ASSUME NEW a \in Assets, NEW d \in Disks, <<a, d>> \in bytes
        PROVE  \E e \in Disks : <<a, e>> \in bytes'
    BY <1>1, <1>3, <1>4, BytesStep
  <1> QED
    BY <1>1, <1>4 DEF AssetSurvives

\* Whatever fails and whenever a process dies, every asset that is listed
\* somewhere has a file somewhere.
THEOREM NoAssetLost ==
  ASSUME SingleTarget, SidecarAtHome, AllPlaced, TargetListsAll,
         Max["upload"] = 0, Max["delete"] = 0
  PROVE  Spec => []AssetSurvives
  <1>1. Init => AssetSurvives
    <2> SUFFICES ASSUME Init, NEW a \in Assets, NEW n \in Nodes, a \in known[n]
                 PROVE  \E d \in Disks : <<a, d>> \in bytes
      BY DEF AssetSurvives
    <2>1. bytes = Placed /\ a \in Lists(n)
      BY DEF Init
    <2>2. CASE \E d \in Disks : <<a, d>> \in Placed
      BY <2>1, <2>2
    <2>3. CASE <<n, a>> \in KnownToo
      <3>1. \E d \in Disks : << <<n, a>>[2], d>> \in Placed
        BY <2>3 DEF AllPlaced
      <3> QED
        BY <2>1, <3>1
    <2> QED
      BY <2>1, <2>2, <2>3 DEF Lists
  <1>2. ASSUME TypeOK, WorkInv, HomeInv, MoveInv, AssetSurvives, [Next]_vars
        PROVE  AssetSurvives'
    BY <1>2, SurviveStep
  <1> QED
    BY <1>1, <1>2, MoveHolds, PTL DEF Spec

----------------------------------------------------------------------------
\* A HEALTHY row means a file.

\* What a step does to the replica rows.
LEMMA ReplicaStep ==
  ASSUME [Next]_vars
  PROVE  \/ replica' = replica
         \/ \E a \in Assets, d \in Disks : Upload(a, d)
         \/ \E n \in Nodes, a \in Assets : Delete(n, a)
         \/ \E n \in Nodes, d \in Disks : Scan(n, d)
         \/ \E n \in Nodes : Register(n) \/ ReleaseRemote(n)
         \/ \E n \in Nodes, a \in Assets : ReleaseRow(n, a)
  <1>1. ASSUME NEW n \in Nodes, Work(n)
        PROVE  \/ UNCHANGED replica \/ Register(n) \/ ReleaseRemote(n)
               \/ \E a \in Assets : ReleaseRow(n, a)
    <2>1. \/ ListPending(n) \/ EndOfTick(n) \/ OpenReplica(n) \/ SameDisk(n)
          \/ \E id \in TaskIds : Pick(n, id)
          \/ Collect(n) \/ SaveView(n) \/ \E m \in Nodes : Fetch(n, m)
          => UNCHANGED replica
      BY DEF ListPending, EndOfTick, OpenReplica, SameDisk, Pick, Collect, SaveView, Fetch
    <2>2. OpenMigration(n) => UNCHANGED replica
      BY DEF OpenMigration
    <2>3. CopyFails(n) \/ CopyDone(n) \/ Judge(n) \/ Settle(n) => UNCHANGED replica
      BY DEF CopyFails, CopyDone, Judge, Settle
    <2>4. SaveRow(n) \/ Relinquish(n) \/ LocalReleased(n) \/ WipeFile(n) => UNCHANGED replica
      BY DEF SaveRow, Relinquish, LocalReleased, WipeFile
    <2>5. \A a \in Assets : CopyAsset(n, a) \/ SkipAsset(n, a) => UNCHANGED replica
      BY DEF CopyAsset, SkipAsset
    <2> QED
      BY <1>1, <2>1, <2>2, <2>3, <2>4, <2>5 DEF Work
  <1>2. (\E c \in Nodes : Coordinate(c)) => UNCHANGED replica
    BY DEF Coordinate, EmitMigration, EmitReplica
  <1>3. Environment => \/ UNCHANGED replica
                       \/ \E a \in Assets, d \in Disks : Upload(a, d)
                       \/ \E n \in Nodes, a \in Assets : Delete(n, a)
                       \/ \E n \in Nodes, d \in Disks : Scan(n, d)
    BY DEF Environment, FetchFails, Crash
  <1> QED
    BY <1>1, <1>2, <1>3 DEF Next, vars

\* The targets are at another node than the directory, and only that node's
\* coordinator emits tasks.
RemoteTarget == \A d \in Targets : Host[d] # Host[Home]
HomeCoordinates == Coordinators \subseteq {Host[Home]}

LEMMA RowInit == Init => RowInv
  <1> SUFFICES ASSUME Init
               PROVE  RowInv
    OBVIOUS
  <1>a. Host[Home] \in Nodes
    BY HostAssumption
  <1>1. \A n \in Nodes : W(n).pc = "idle"
    BY DEF Init, W, Idle
  <1>2. \A a \in Assets : task[Host[Home]][a].status = "none"
    BY <1>a DEF Init, NoTask, TaskIds
  <1>3. /\ HealthyRowHasFile
        /\ \A n \in Nodes : \A p \in replica[n] : Host[p[2]] = n
        /\ \A p \in bytes : Host[p[2]] = Host[Home] => p \in replica[Host[Home]]
    BY <1>a DEF Init, HealthyRowHasFile
  <1> QED
    BY <1>a, <1>1, <1>2, <1>3 DEF RowInv, Opened

\* The worker of the home node opens nothing.
LEMMA HomeWorker ==
  ASSUME RemoteTarget, TypeOK, WorkInv, HomeInv, RowInv, [Next]_vars
  PROVE  /\ Host[Home] \in Nodes
         /\ ~OpensMigration(Host[Home]) /\ ~OpensReplica(Host[Home])
         /\ W(Host[Home])'.pc \notin Opened
  <1> DEFINE H == Host[Home]
  <1>a. H \in Nodes /\ Mig \in TaskIds
    BY HostAssumption DEF TaskIds
  <1> HIDE DEF H
  <1>1. ~OpensMigration(H)
    <2>1. ASSUME OpensMigration(H)
          PROVE  FALSE
      <3>1. task[H][Mig].status # "none"
        BY <1>a, <2>1 DEF OpensMigration, WorkInv, Resting
      <3>2. task[H][Mig].dst \in Targets /\ Host[task[H][Mig].dst] = H
        BY <1>a, <3>1 DEF WorkInv, HomeInv
      <3> QED
        BY <3>2 DEF RemoteTarget, H
    <2> QED
      BY <2>1
  <1>2. ~OpensReplica(H)
    <2>1. ASSUME OpensReplica(H)
          PROVE  FALSE
      <3>1. task[H][W(H).id].status # "none" /\ W(H).id \in Assets
        BY <1>a, <2>1 DEF OpensReplica, WorkInv, Resting
      <3>2. \A d \in Disks : <<W(H).id, d>> \notin replica[H]
        BY <3>1 DEF RowInv, H
      <3> QED
        BY <2>1, <3>2 DEF OpensReplica
    <2> QED
      BY <2>1
  <1>3. W(H).pc \notin Opened
    BY DEF RowInv, H
  <1>4. W(H)'.pc \notin Opened
    <2>1. W(H)'.pc \in Resting => W(H)'.pc \notin Opened
      BY DEF Resting, Opened
    <2>2. Entered(H) => W(H)'.pc \notin Opened
      BY <1>1, <1>2, <1>3 DEF Entered, Opened, SaveRow
    <2> QED
      BY <1>a, <1>3, <2>1, <2>2, WhoMoves
  <1> QED
    BY <1>a, <1>1, <1>2, <1>4 DEF H

LEMMA RowStep ==
  ASSUME RemoteTarget, HomeCoordinates, SidecarAtHome, Max["upload"] = 0, Max["delete"] = 0,
         TypeOK, WorkInv, HomeInv, MoveInv, RowInv, [Next]_vars
  PROVE  RowInv'
  <1> DEFINE H == Host[Home]
  <1>a. /\ H \in Nodes /\ Mig \in TaskIds /\ Assets \subseteq TaskIds
        /\ ~OpensMigration(H) /\ ~OpensReplica(H) /\ W(H)'.pc \notin Opened
    BY HomeWorker DEF TaskIds
  <1>b. ~Spend("upload") /\ ~Spend("delete")
    BY NeverSpent DEF Events
  <1>c. /\ W(H).pc \notin Opened
        /\ \A n \in Nodes : replica[n] \subseteq bytes
        /\ \A n \in Nodes : \A p \in replica[n] : Host[p[2]] = n
        /\ \A p \in bytes : Host[p[2]] = H => p \in replica[H]
        /\ \A a \in Assets : task[H][a].status # "none" =>
             \A d \in Disks : <<a, d>> \notin replica[H]
    BY DEF RowInv, HealthyRowHasFile
  <1>d. replica \in [Nodes -> SUBSET (Assets \X Disks)]
    BY DEF TypeOK
  <1>e. Host[Home] = H
    OBVIOUS
  <1>f. \A n \in Nodes : W(n).pc \notin Resting => Dst(n) \in Disks /\ Host[Dst(n)] = n
    BY RunningTask
  <1>g. ASSUME NEW m \in Nodes, WipeFile(m) \/ ReleaseRemote(m)
        PROVE  W(m).src = Home
    <2>1. Moves(m) /\ W(m).src = task[m][Mig].src
      BY <1>g, Released
    <2>2. task[m][Mig].status # "none"
      BY <2>1 DEF Moves, Opened, Resting, WorkInv
    <2> QED
      BY <2>1, <2>2 DEF HomeInv
  <1> HIDE DEF H
  <1>1. \A p \in bytes : p[2] # Home => p \in bytes'
    BY BytesStay
  <1>2. \A n \in Nodes : \A p \in replica'[n] :
          \/ p \in replica[n]
          \/ Register(n) /\ n # H /\ p \in W(n).assets \X {Dst(n)}
    <2>1. ASSUME NEW n \in Nodes, Register(n)
          PROVE  /\ n # H
                 /\ \A m \in Nodes : \A p \in replica'[m] :
                      p \in replica[m] \/ (m = n /\ p \in W(n).assets \X {Dst(n)})
      <3>1. n # H
        BY <1>c, <2>1 DEF Register, Opened
      <3>2. replica' = [replica EXCEPT ![n] = @ \union (W(n).assets \X {Dst(n)})]
        BY <2>1 DEF Register
      <3> QED
        BY <1>d, <3>1, <3>2
    <2>2. ASSUME NEW n \in Nodes, NEW a \in Assets, ReleaseRow(n, a)
          PROVE  \A m \in Nodes : replica'[m] \subseteq replica[m]
      BY <1>d, <2>2 DEF ReleaseRow
    <2>3. ASSUME NEW n \in Nodes, ReleaseRemote(n)
          PROVE  \A m \in Nodes : replica'[m] \subseteq replica[m]
      BY <1>d, <2>3 DEF ReleaseRemote, ReleasedAt
    <2>4. ASSUME NEW n \in Nodes, NEW d \in Disks, Scan(n, d)
          PROVE  \A m \in Nodes : replica'[m] \subseteq replica[m]
      <3> DEFINE found == {a \in sidecar[d] : <<a, d>> \in bytes} \X {d}
      <3>1. replica' = [replica EXCEPT ![n] = @ \union found] /\ Host[d] = n
        BY <2>4 DEF Scan
      <3>2. n = H
        <4>1. PICK a : <<a, d>> \in Listed
          BY <2>4 DEF Scan, HomeInv, TypeOK
        <4>2. <<a, d>>[2] = Home
          BY <4>1 DEF SidecarAtHome
        <4> QED
          BY <1>e, <3>1, <4>2
      <3>3. found \subseteq replica[n]
        <4>1. \A p \in found : p \in bytes /\ p[2] = d
          OBVIOUS
        <4> QED
          BY <1>c, <3>1, <3>2, <4>1
      <3> HIDE DEF found
      <3> QED
        BY <1>d, <3>1, <3>3
    <2> QED
      BY <1>b, <2>1, <2>2, <2>3, <2>4, ReplicaStep DEF Upload, Delete
  <1>3. replica'[H] \subseteq replica[H]
    BY <1>a, <1>2
  <1>4. \A n \in Nodes : \A p \in replica'[n] : Host[p[2]] = n
    <2> SUFFICES ASSUME NEW n \in Nodes, NEW p \in replica'[n]
                 PROVE  Host[p[2]] = n
      OBVIOUS
    <2>1. CASE p \in replica[n]
      BY <1>c, <2>1
    <2>2. CASE Register(n) /\ p \in W(n).assets \X {Dst(n)}
      <3>1. Host[Dst(n)] = n
        BY <1>f, <2>2 DEF Register, Resting
      <3> QED
        BY <2>2, <3>1
    <2> QED
      BY <1>2, <2>1, <2>2
  <1>5. \A n \in Nodes : replica'[n] \subseteq bytes'
    <2> SUFFICES ASSUME NEW n \in Nodes, NEW p \in replica'[n]
                 PROVE  p \in bytes'
      OBVIOUS
    <2>1. CASE p \in replica[n]
      <3>1. p \in bytes
        BY <1>c, <2>1
      <3>2. CASE p[2] # Home
        BY <1>1, <3>1, <3>2
      <3>3. CASE p[2] = Home
        <4>1. n = H
          BY <1>c, <1>e, <2>1, <3>3
        <4>2. ASSUME NEW m \in Nodes, WipeFile(m)
              PROVE  p \in bytes'
          <5>1. W(m).pc = "wipe"
            BY <4>2 DEF WipeFile
          <5>2. m # H
            BY <1>c, <5>1 DEF Opened
          <5>3. W(m).src = Home
            BY <1>g, <4>2
          <5> QED
            BY <1>e, <3>1, <4>2, <5>2, <5>3 DEF WipeFile
        <4>3. ASSUME NEW m \in Nodes, ReleaseRemote(m)
              PROVE  p \in bytes'
          <5>1. W(m).src = Home
            BY <1>g, <4>3
          <5>2. CASE UNCHANGED bytes
            BY <3>1, <5>2
          <5>3. CASE ReleasedAt(H, W(m).safe, Home)
            <6> DEFINE gone == Allowed(H, W(m).safe) \X {Home}
            <6>1. replica' = [replica EXCEPT ![H] = @ \ gone] /\ bytes' = bytes \ gone
              BY <5>3 DEF ReleasedAt
            <6> HIDE DEF gone
            <6>2. p \notin gone
              BY <1>a, <1>d, <4>1, <6>1
            <6> QED
              BY <3>1, <6>1, <6>2
          <5> QED
            BY <1>e, <4>3, <5>1, <5>2, <5>3 DEF ReleaseRemote
        <4> QED
          BY <1>b, <3>1, <4>2, <4>3, BytesStep
      <3> QED
        BY <3>2, <3>3
    <2>2. CASE Register(n) /\ p \in W(n).assets \X {Dst(n)}
      <3>1. bytes' = bytes /\ W(n).pc = "register"
        BY <2>2 DEF Register
      <3>2. CASE W(n).id = Mig
        <4>1. Moves(n)
          BY <3>1, <3>2 DEF Moves, Opened
        <4> QED
          BY <2>2, <3>1, <4>1 DEF MoveInv
      <3>3. CASE W(n).id # Mig
        BY <2>2, <3>1, <3>3 DEF RowInv
      <3> QED
        BY <3>2, <3>3
    <2> QED
      BY <1>2, <2>1, <2>2
  <1>6. ASSUME NEW a \in Assets, task'[H][a].status # "none", NEW d \in Disks
        PROVE  <<a, d>> \notin replica'[H]
    <2>1. CASE task[H][a].status # "none"
      BY <1>3, <1>c, <2>1
    <2>2. CASE task[H][a].status = "none"
      <3>1. PICK c \in Nodes, dst \in Disks : Host[dst] = H /\ EmitReplica(c, a, dst)
        <4>1. a \in TaskIds /\ a # Mig /\ Outcome(H) # "none"
          BY <1>a, IdAssumption DEF Outcome
        <4> QED
          BY <1>6, <1>a, <2>2, <4>1, TaskStep
      <3>2. c = H
        BY <1>e, <3>1 DEF EmitReplica, HomeCoordinates
      <3>3. \A e \in Disks : <<a, e>> \notin replica[H]
        BY <3>1, <3>2 DEF EmitReplica, ReplicaTarget
      <3> QED
        BY <1>3, <3>3
    <2> QED
      BY <2>1, <2>2
  <1>7. ASSUME NEW n \in Nodes, W(n)'.id # Mig
        PROVE  /\ W(n)'.pc = "copy" => /\ Host[W(n)'.src] = n
                                       /\ W(n)'.assets \X {W(n)'.src} \subseteq bytes'
               /\ W(n)'.pc = "register" => W(n)'.assets \X {Dst(n)'} \subseteq bytes'
    <2>1. ASSUME W(n)'.pc \in {"copy", "register"}
          PROVE  n # H
      BY <1>a, <2>1 DEF Opened
    <2>2. ASSUME NEW d \in Disks, Host[d] = n, NEW s \in SUBSET Assets,
                 s \X {d} \subseteq bytes, n # H
          PROVE  s \X {d} \subseteq bytes'
      BY <1>1, <1>e, <2>2
    <2>3. ASSUME W(n)'.pc = "copy"
          PROVE  /\ Host[W(n)'.src] = n
                 /\ W(n)'.assets \X {W(n)'.src} \subseteq bytes'
      <3>1. CASE W(n).pc = "copy" /\ Keeps(n)
        <4>1. /\ W(n).id # Mig /\ W(n).src \in Disks /\ W(n).assets \in SUBSET Assets
              /\ n # H
          BY <1>7, <2>1, <2>3, <3>1 DEF Keeps, WorkInv, Opened, TypeOK, Workers, W
        <4>2. Host[W(n).src] = n /\ W(n).assets \X {W(n).src} \subseteq bytes
          BY <3>1, <4>1 DEF RowInv
        <4>3. W(n).assets \X {W(n).src} \subseteq bytes'
          BY <2>2, <4>1, <4>2
        <4> QED
          BY <3>1, <4>2, <4>3 DEF Keeps
      <3>2. CASE OpensReplica(n)
        <4> DEFINE d == W(n)'.src
                   s == W(n)'.assets
        <4>1. d \in Disks /\ s = {W(n).id} /\ W(n).id \in Assets /\ n # H
          BY <2>1, <2>3, <3>2 DEF OpensReplica
        <4>2. Host[d] = n /\ <<W(n).id, d>> \in bytes
          <5>1. <<W(n).id, d>> \in replica[n]
            BY <3>2 DEF OpensReplica
          <5> QED
            BY <1>c, <5>1
        <4>3. s \in SUBSET Assets /\ s \X {d} \subseteq bytes
          BY <4>1, <4>2
        <4>4. s \X {d} \subseteq bytes'
          BY <2>2, <4>1, <4>2, <4>3
        <4> QED
          BY <4>2, <4>4
      <3>3. \/ W(n).pc = "copy" /\ Keeps(n)
            \/ OpensReplica(n)
        <4>1. W(n)' = W(n) => W(n).pc = "copy" /\ Keeps(n)
          BY <2>3 DEF Keeps
        <4>2. W(n)'.pc \notin Resting
          BY <2>3 DEF Resting
        <4>3. ~OpensMigration(n)
          BY <1>7 DEF OpensMigration
        <4> QED
          BY <2>3, <4>1, <4>2, <4>3, WhoMoves DEF Entered
      <3> QED
        BY <3>1, <3>2, <3>3
    <2>4. ASSUME W(n)'.pc = "register"
          PROVE  W(n)'.assets \X {Dst(n)'} \subseteq bytes'
      <3>1. \/ W(n).pc = "register" /\ Keeps(n)
            \/ W(n).pc = "copy" /\ Keeps(n) /\ (W(n).src = Dst(n) \/ Verified(n))
        <4>1. W(n)' = W(n) => W(n).pc = "register" /\ Keeps(n)
          BY <2>4 DEF Keeps
        <4>2. W(n)'.pc \notin Resting
          BY <2>4 DEF Resting
        <4> QED
          BY <2>4, <4>1, <4>2, WhoMoves DEF Entered
      <3>2. /\ W(n)'.id = W(n).id /\ W(n)'.assets = W(n).assets /\ W(n).id # Mig
            /\ W(n).id \in TaskIds /\ W(n).assets \in SUBSET Assets
            /\ W(n).pc \notin Resting /\ n # H
        BY <1>7, <2>1, <2>4, <3>1 DEF Keeps, TypeOK, Workers, W, Resting
      <3>3. /\ Dst(n) \in Disks /\ Host[Dst(n)] = n
            /\ task[n][W(n).id].status # "none"
        BY <3>2, RunningTask
      <3>4. Dst(n)' = Dst(n)
        BY <3>2, <3>3, TaskStays DEF Dst
      <3>5. W(n).assets \X {Dst(n)} \subseteq bytes
        <4>1. CASE W(n).pc = "register"
          BY <3>2, <4>1 DEF RowInv
        <4>2. CASE W(n).pc = "copy" /\ W(n).src = Dst(n)
          BY <3>2, <4>2 DEF RowInv
        <4>3. CASE Verified(n)
          <5>1. Dst(n) # Home
            BY <1>e, <3>2, <3>3
          <5> QED
            BY <3>3, <4>3, <5>1 DEF Verified, MoveInv
        <4> QED
          BY <3>1, <4>1, <4>2, <4>3
      <3>6. W(n).assets \X {Dst(n)} \subseteq bytes'
        BY <2>2, <3>2, <3>3, <3>5
      <3> QED
        BY <3>2, <3>4, <3>6
    <2> QED
      BY <2>3, <2>4
  <1>8. \A p \in bytes' : Host[p[2]] = H => p \in replica'[H]
    <2> SUFFICES ASSUME NEW p \in bytes', Host[p[2]] = H
                 PROVE  p \in replica'[H]
      OBVIOUS
    <2>1. p \in bytes
      <3>1. ASSUME NEW n \in Nodes, NEW a \in Assets, CopyAsset(n, a)
            PROVE  p \in bytes
        <4>1. bytes' = bytes \union {<<a, Dst(n)>>} /\ W(n).pc = "copy"
          BY <3>1 DEF CopyAsset
        <4>2. Host[Dst(n)] = n /\ n # H
          BY <1>c, <1>f, <4>1 DEF Resting, Opened
        <4> QED
          BY <4>1, <4>2
      <3> QED
        BY <1>b, <3>1, BytesGrow
    <2>2. p \in replica[H]
      BY <1>c, <2>1
    <2>3. CASE UNCHANGED replica
      BY <2>2, <2>3
    <2>4. ASSUME NEW n \in Nodes, Register(n)
          PROVE  p \in replica'[H]
      BY <1>a, <1>d, <2>2, <2>4 DEF Register
    <2>5. ASSUME NEW n \in Nodes, NEW d \in Disks, Scan(n, d)
          PROVE  p \in replica'[H]
      BY <1>a, <1>d, <2>2, <2>5 DEF Scan
    <2>6. ASSUME NEW n \in Nodes, NEW a \in Assets, ReleaseRow(n, a)
          PROVE  p \in replica'[H]
      <3>1. n # H
        BY <1>c, <2>6 DEF ReleaseRow, Opened
      <3> QED
        BY <1>a, <1>d, <2>2, <2>6, <3>1 DEF ReleaseRow
    <2>7. ASSUME NEW n \in Nodes, ReleaseRemote(n)
          PROVE  p \in replica'[H]
      <3>1. W(n).src = Home
        BY <1>g, <2>7
      <3>2. CASE UNCHANGED replica
        BY <2>2, <3>2
      <3>3. CASE ReleasedAt(H, W(n).safe, Home)
        <4> DEFINE gone == Allowed(H, W(n).safe) \X {Home}
        <4>1. replica' = [replica EXCEPT ![H] = @ \ gone] /\ bytes' = bytes \ gone
          BY <3>3 DEF ReleasedAt
        <4> HIDE DEF gone
        <4> QED
          BY <1>a, <1>d, <2>2, <4>1
      <3> QED
        BY <1>e, <2>7, <3>1, <3>2, <3>3 DEF ReleaseRemote
    <2> QED
      BY <1>b, <2>3, <2>4, <2>5, <2>6, <2>7, ReplicaStep DEF Upload, Delete
  <1> QED
    BY <1>a, <1>4, <1>5, <1>6, <1>7, <1>8 DEF RowInv, HealthyRowHasFile, H

\* The replica rows of every node stand for files it has, in every state.
THEOREM RowsHaveFiles ==
  ASSUME SingleTarget, SidecarAtHome, RemoteTarget, HomeCoordinates,
         Max["upload"] = 0, Max["delete"] = 0
  PROVE  Spec => []HealthyRowHasFile
  <1>1. Init => RowInv
    BY RowInit
  <1>2. ASSUME TypeOK, WorkInv, HomeInv, MoveInv, RowInv, [Next]_vars
        PROVE  RowInv'
    BY <1>2, RowStep
  <1>3. RowInv => HealthyRowHasFile
    BY DEF RowInv
  <1> QED
    BY <1>1, <1>2, <1>3, MoveHolds, PTL DEF Spec

----------------------------------------------------------------------------
\* What the release of a source leaves, on one node.

OneNode == \A m, n \in Nodes : m = n

\* The history only grows, and a deletion counts.
LEMMA UsedGrows ==
  ASSUME TypeOK, [Next]_vars, used'["delete"] = 0
  PROVE  /\ used["delete"] = 0
         /\ \A n \in Nodes, a \in Assets : ~Delete(n, a)
         /\ ~Spend("delete")
  <1>1. /\ used["delete"] \in Nat
        /\ used["delete"] <= 0
        /\ Spend("delete") => 0 = used["delete"] + 1
    BY UsedStep DEF Events
  <1> QED
    BY <1>1 DEF Delete

\* More rows on other disks keep a release safe.
LEMMA SafeStays ==
  ASSUME NEW n \in Nodes, NEW a \in Assets, NEW R, SafeToRelease(n, a, R),
         Others(n, a, R) \subseteq Others(n, a, R)'
  PROVE  SafeToRelease(n, a, R)'
  <1>1. IsFiniteSet(Disks)
    BY FiniteAssumption
  <1>2. IsFiniteSet(Others(n, a, R)')
    BY <1>1, FS_Subset DEF Others
  <1>3. /\ Cardinality(Others(n, a, R)) <= Cardinality(Others(n, a, R)')
        /\ IsFiniteSet(Others(n, a, R))
    BY <1>2, FS_Subset
  <1>4. Cardinality(Others(n, a, R)) \in Nat /\ Cardinality(Others(n, a, R)') \in Nat
    BY <1>2, <1>3, FS_CardinalityType
  <1>5. CASE MinReplicas <= 1
    BY <1>5 DEF SafeToRelease
  <1>6. CASE Cardinality(Others(n, a, R)) >= MinReplicas
    <2>1. Cardinality(Others(n, a, R)') >= MinReplicas
      BY <1>3, <1>4, <1>6, MinAssumption
    <2> QED
      BY <2>1 DEF SafeToRelease
  <1> QED
    BY <1>5, <1>6 DEF SafeToRelease

LEMMA KeepInit == Init => KeepInv
  <1> SUFFICES ASSUME Init, NEW n \in Nodes
               PROVE  /\ W(n).pc = "idle"
                      /\ task[n][Mig].src = NoDisk
                      /\ \A d \in Disks : manifest[d] = {}
                      /\ replica[n] \subseteq bytes
    BY DEF KeepInv, Opened
  <1> QED
    BY DEF Init, W, Idle, NoTask, TaskIds

LEMMA KeepStep ==
  ASSUME OneNode, TypeOK, WorkInv, KeepInv, [Next]_vars
  PROVE  KeepInv'
  <1> SUFFICES ASSUME NEW n \in Nodes
               PROVE  /\ W(n)'.pc \in Opened => ~W(n)'.remote
                      /\ task'[n][Mig].status = "none" => task'[n][Mig].src = NoDisk
                      /\ used'["delete"] = 0 =>
                           /\ \A d \in Disks \ {task'[n][Mig].src} :
                                manifest'[d] \X {d} \subseteq bytes'
                           /\ \A p \in replica'[n] : p[2] # task'[n][Mig].src => p \in bytes'
                           /\ /\ W(n)'.pc = "copy" /\ W(n)'.id # Mig
                              /\ W(n)'.src # task'[n][Mig].src
                              => W(n)'.assets \X {W(n)'.src} \subseteq bytes'
                           /\ W(n)'.pc = "register" /\ Dst(n)' # task'[n][Mig].src =>
                                W(n)'.assets \X {Dst(n)'} \subseteq bytes'
                           /\ W(n)'.pc \in {"release", "wipe"} =>
                                /\ W(n)'.todo \subseteq W(n)'.safe
                                /\ W(n)'.pc = "wipe" => W(n)'.cur \subseteq W(n)'.safe
                                /\ \A a \in W(n)'.safe :
                                     SafeToRelease(n, a, task[n][Mig].src)'
    BY DEF KeepInv
  <1> DEFINE R == task[n][Mig].src
  <1>a. /\ Mig \in TaskIds
        /\ \A m \in Nodes : m = n
        /\ \A d \in Disks : Host[d] = n
        /\ replica \in [Nodes -> SUBSET (Assets \X Disks)]
    BY HostAssumption DEF OneNode, TypeOK, TaskIds
  <1>b. /\ W(n) \in Workers /\ W(n).assets \in SUBSET Assets
    BY DEF TypeOK, W, Workers
  <1>c. \A d \in Disks : Host[d] # n => FALSE
    BY <1>a
  <1>1. W(n)'.pc \in Opened => ~W(n)'.remote
    <2> SUFFICES ASSUME W(n)'.pc \in Opened
                 PROVE  ~W(n)'.remote
      OBVIOUS
    <2>1. CASE W(n)' = W(n)
      BY <2>1 DEF KeepInv
    <2>2. W(n)'.pc \notin Resting
      BY DEF Resting, Opened
    <2>3. CASE W(n).pc \in Opened /\ Keeps(n)
      BY <2>3 DEF KeepInv, Keeps
    <2>4. CASE OpensMigration(n)
      <3>1. Host[task[n][Mig].src] = n
        <4>1. task[n][Mig].src \in Disks
          BY <2>4, <1>a DEF OpensMigration, WorkInv, Resting
        <4> QED
          BY <1>a, <4>1
      <3> QED
        BY <2>4, <3>1 DEF OpensMigration
    <2>5. CASE OpensReplica(n)
      BY <1>a, <2>5 DEF OpensReplica
    <2>6. Entered(n) => \/ W(n).pc \in Opened /\ Keeps(n)
                        \/ OpensMigration(n)
                        \/ OpensReplica(n)
      BY DEF Entered, Opened, SaveRow
    <2> QED
      BY <2>1, <2>2, <2>3, <2>4, <2>5, <2>6, WhoMoves
  <1>2. task'[n][Mig].status = "none" => task'[n][Mig].src = NoDisk
    BY <1>a, TaskStep DEF KeepInv, Outcome
  <1>3. \A d \in Disks : d # task'[n][Mig].src => d # R
    <2>1. CASE task[n][Mig].status = "none"
      <3>1. R = NoDisk
        BY <2>1 DEF KeepInv
      <3> QED
        BY <3>1, NoDiskAssumption
    <2>2. CASE task[n][Mig].status # "none"
      BY <1>a, <2>2, TaskStays
    <2> QED
      BY <2>1, <2>2
  <1>4. ASSUME used'["delete"] = 0
        PROVE  /\ \A d \in Disks \ {task'[n][Mig].src} : manifest'[d] \X {d} \subseteq bytes'
               /\ \A p \in replica'[n] : p[2] # task'[n][Mig].src => p \in bytes'
               /\ /\ W(n)'.pc = "copy" /\ W(n)'.id # Mig
                  /\ W(n)'.src # task'[n][Mig].src
                  => W(n)'.assets \X {W(n)'.src} \subseteq bytes'
               /\ W(n)'.pc = "register" /\ Dst(n)' # task'[n][Mig].src =>
                    W(n)'.assets \X {Dst(n)'} \subseteq bytes'
               /\ W(n)'.pc \in {"release", "wipe"} =>
                    /\ W(n)'.todo \subseteq W(n)'.safe
                    /\ W(n)'.pc = "wipe" => W(n)'.cur \subseteq W(n)'.safe
                    /\ \A a \in W(n)'.safe : SafeToRelease(n, a, task[n][Mig].src)'
    <2>a. /\ used["delete"] = 0 /\ ~Spend("delete")
          /\ \A m \in Nodes, a \in Assets : ~Delete(m, a)
      BY <1>4, UsedGrows
    <2>b. /\ \A d \in Disks \ {R} : manifest[d] \X {d} \subseteq bytes
          /\ \A p \in replica[n] : p[2] # R => p \in bytes
          /\ W(n).pc = "copy" /\ W(n).id # Mig /\ W(n).src # R =>
               W(n).assets \X {W(n).src} \subseteq bytes
          /\ W(n).pc = "register" /\ Dst(n) # R => W(n).assets \X {Dst(n)} \subseteq bytes
          /\ W(n).pc \in {"release", "wipe"} =>
               /\ W(n).todo \subseteq W(n).safe
               /\ W(n).pc = "wipe" => W(n).cur \subseteq W(n).safe
               /\ \A a \in W(n).safe : SafeToRelease(n, a, R)
      BY <2>a DEF KeepInv
    <2>c. ~ReleaseRemote(n)
      BY DEF KeepInv, ReleaseRemote, Opened
    <2>1. \A p \in bytes : p[2] # R => p \in bytes'
      <3>1. ASSUME WipeFile(n)
            PROVE  \A p \in bytes : p[2] # R => p \in bytes'
        BY <3>1, Released
      <3> QED
        BY <1>a, <2>a, <2>c, <3>1, BytesStep
    <2>2. \A d \in Disks \ {R} : manifest'[d] \X {d} \subseteq bytes'
      <3>1. \A d \in Disks \ {R} : manifest[d] \X {d} \subseteq bytes'
        BY <2>1, <2>b
      <3>2. ASSUME NEW a \in Assets, CopyAsset(n, a)
            PROVE  \A d \in Disks \ {R} : manifest'[d] \X {d} \subseteq bytes'
        <4>1. /\ <<a, Dst(n)>> \in bytes'
              /\ \A d \in Disks : \A x \in manifest'[d] :
                   x \in manifest[d] \/ (d = Dst(n) /\ x = a)
          BY <3>2 DEF CopyAsset, TypeOK
        <4> QED
          BY <3>1, <4>1
      <3> QED
        BY <1>a, <3>1, <3>2, ManifestStep
    <2>3. /\ \A p \in replica'[n] : p[2] # R => p \in bytes'
          /\ \A p \in replica[n] : p[2] # R => p \in replica'[n]
      <3>1. CASE replica' = replica
        BY <2>1, <2>b, <3>1
      <3>2. ASSUME NEW a \in Assets, NEW d \in Disks, Upload(a, d)
            PROVE  /\ \A p \in replica'[n] : p[2] # R => p \in bytes'
                   /\ \A p \in replica[n] : p[2] # R => p \in replica'[n]
        <4>1. /\ replica'[n] = replica[n] \union {<<a, d>>}
              /\ bytes' = bytes \union {<<a, d>>}
          BY <1>a, <3>2 DEF Upload
        <4> QED
          BY <2>b, <4>1
      <3>3. ASSUME NEW d \in Disks, Scan(n, d)
            PROVE  /\ \A p \in replica'[n] : p[2] # R => p \in bytes'
                   /\ \A p \in replica[n] : p[2] # R => p \in replica'[n]
        <4> DEFINE found == {a \in sidecar[d] : <<a, d>> \in bytes}
        <4>1. /\ replica'[n] = replica[n] \union (found \X {d})
              /\ bytes' = bytes
          BY <1>a, <3>3 DEF Scan
        <4>2. found \X {d} \subseteq bytes
          OBVIOUS
        <4> QED
          BY <2>b, <4>1, <4>2
      <3>4. CASE Register(n)
        <4>1. /\ replica'[n] = replica[n] \union (W(n).assets \X {Dst(n)})
              /\ bytes' = bytes /\ W(n).pc = "register"
          BY <1>a, <3>4 DEF Register
        <4>2. Dst(n) # R => W(n).assets \X {Dst(n)} \subseteq bytes
          BY <2>b, <4>1
        <4> QED
          BY <2>b, <4>1, <4>2
      <3>5. ASSUME NEW a \in Assets, ReleaseRow(n, a)
            PROVE  /\ \A p \in replica'[n] : p[2] # R => p \in bytes'
                   /\ \A p \in replica[n] : p[2] # R => p \in replica'[n]
        <4>1. /\ replica'[n] = replica[n] \ {<<a, W(n).src>>}
              /\ bytes' = bytes /\ W(n).pc = "release"
          BY <1>a, <3>5 DEF ReleaseRow
        <4>2. W(n).src = R
          BY <4>1 DEF WorkInv, Moves, Opened, Releasing
        <4> QED
          BY <2>b, <4>1, <4>2
      <3> QED
        BY <1>a, <2>a, <2>c, <3>1, <3>2, <3>3, <3>4, <3>5, ReplicaStep
    <2>4. ASSUME W(n)'.pc = "copy", W(n)'.id # Mig, W(n)'.src # task'[n][Mig].src
          PROVE  W(n)'.assets \X {W(n)'.src} \subseteq bytes'
      <3>1. \/ W(n).pc = "copy" /\ Keeps(n)
            \/ OpensReplica(n)
        <4>1. W(n)' = W(n) => W(n).pc = "copy" /\ Keeps(n)
          BY <2>4 DEF Keeps
        <4>2. W(n)'.pc \notin Resting /\ ~OpensMigration(n)
          BY <2>4 DEF Resting, OpensMigration
        <4> QED
          BY <2>4, <4>1, <4>2, WhoMoves DEF Entered
      <3>2. CASE W(n).pc = "copy" /\ Keeps(n)
        <4>1. W(n).src \in Disks
          BY <3>2 DEF WorkInv, Opened
        <4>2. W(n).src # R
          BY <1>3, <2>4, <3>2, <4>1 DEF Keeps
        <4>3. W(n).assets \X {W(n).src} \subseteq bytes
          BY <2>4, <2>b, <3>2, <4>2 DEF Keeps
        <4>4. W(n).assets \X {W(n).src} \subseteq bytes'
          BY <2>1, <4>2, <4>3
        <4> QED
          BY <3>2, <4>4 DEF Keeps
      <3>3. CASE OpensReplica(n)
        <4> DEFINE d == W(n)'.src
        <4>1. d \in Disks /\ W(n)'.assets = {W(n).id} /\ <<W(n).id, d>> \in replica[n]
          BY <3>3 DEF OpensReplica
        <4>2. d # R
          BY <1>3, <2>4, <4>1
        <4>3. <<W(n).id, d>> \in bytes'
          BY <2>1, <2>b, <4>1, <4>2
        <4> QED
          BY <4>1, <4>3
      <3> QED
        BY <3>1, <3>2, <3>3
    <2>5. ASSUME W(n)'.pc = "register", Dst(n)' # task'[n][Mig].src
          PROVE  W(n)'.assets \X {Dst(n)'} \subseteq bytes'
      <3>1. \/ W(n).pc = "register" /\ Keeps(n)
            \/ W(n).pc = "copy" /\ Keeps(n) /\ (W(n).src = Dst(n) \/ Verified(n))
        <4>1. W(n)' = W(n) => W(n).pc = "register" /\ Keeps(n)
          BY <2>5 DEF Keeps
        <4>2. W(n)'.pc \notin Resting
          BY <2>5 DEF Resting
        <4> QED
          BY <2>5, <4>1, <4>2, WhoMoves DEF Entered
      <3>2. /\ W(n)'.id = W(n).id /\ W(n)'.assets = W(n).assets
            /\ W(n).id \in TaskIds /\ W(n).pc \notin Resting
        BY <3>1, <1>b DEF Keeps, Workers, Resting
      <3>3. Dst(n) \in Disks /\ task[n][W(n).id].status # "none"
        <4>1. Dst(n) \in Disks /\ task[n][W(n).id].status \in {"QUEUED", "RUNNING"}
          BY <3>2, RunningTask
        <4> QED
          BY <4>1
      <3>4. Dst(n)' = Dst(n)
        BY <3>2, <3>3, TaskStays DEF Dst
      <3>5. Dst(n) # R
        BY <1>3, <2>5, <3>3, <3>4
      <3>6. W(n).assets \X {Dst(n)} \subseteq bytes
        <4>1. CASE W(n).pc = "register"
          BY <2>b, <3>5, <4>1
        <4>2. CASE W(n).pc = "copy" /\ W(n).src = Dst(n)
          <5>1. W(n).id # Mig
            BY <4>2, RunningTask DEF Moves, Opened, Resting
          <5> QED
            BY <2>b, <3>5, <4>2, <5>1
        <4>3. CASE Verified(n)
          BY <2>b, <3>3, <3>5, <4>3 DEF Verified
        <4> QED
          BY <3>1, <4>1, <4>2, <4>3
      <3>7. W(n).assets \X {Dst(n)} \subseteq bytes'
        BY <2>1, <3>5, <3>6
      <3> QED
        BY <3>2, <3>4, <3>7
    <2>6. ASSUME W(n)'.pc \in {"release", "wipe"}
          PROVE  /\ W(n)'.todo \subseteq W(n)'.safe
                 /\ W(n)'.pc = "wipe" => W(n)'.cur \subseteq W(n)'.safe
                 /\ \A a \in W(n)'.safe : SafeToRelease(n, a, task[n][Mig].src)'
      <3>1. W(n)'.id = Mig /\ W(n)'.pc \notin Resting
        <4>1. WorkInv'
          BY TypeStep
        <4> QED
          BY <2>6, <4>1 DEF WorkInv, Releasing, Resting
      <3>2. Moves(n)' /\ ~OpensMigration(n)
        <4>1. Moves(n)'
          BY <2>6, <3>1 DEF Moves, Opened
        <4>2. ~OpensMigration(n) \/ W(n)' = W(n)
          BY <2>6, <3>1, WhoMoves DEF Entered, OpensMigration
        <4> QED
          BY <2>6, <4>1, <4>2 DEF OpensMigration
      <3>3. task'[n][Mig].src = R /\ Moves(n) /\ Keeps(n) /\ W(n).src = R
        <4>1. task'[n][Mig].src = R /\ Moves(n) /\ Keeps(n)
          BY <3>2, MovesFrom
        <4> QED
          BY <4>1 DEF WorkInv
      <3>4. \/ W(n)' = W(n)
            \/ /\ W(n)'.safe = {a \in W(n).assets : SafeToRelease(n, a, R)}
               /\ W(n)'.todo = W(n)'.safe /\ W(n)'.pc = "release"
            \/ /\ W(n).pc = "wipe" /\ W(n)'.pc = "release"
               /\ W(n)'.safe = W(n).safe /\ W(n)'.todo = W(n).todo
            \/ /\ W(n).pc = "release"
               /\ W(n)'.safe = W(n).safe
               /\ \E a \in W(n).todo : W(n)'.todo = W(n).todo \ {a} /\ W(n)'.cur = {a}
        BY <2>6, <3>1, <3>3, WhoMoves DEF Entered
      <3>5. /\ W(n)'.todo \subseteq W(n)'.safe
            /\ W(n)'.pc = "wipe" => W(n)'.cur \subseteq W(n)'.safe
            /\ \A a \in W(n)'.safe : SafeToRelease(n, a, R)
        BY <2>6, <2>b, <3>4
      <3>6. W(n)'.safe \subseteq Assets
        <4>1. TypeOK'
          BY TypeStep
        <4> QED
          BY <4>1 DEF TypeOK, W, Workers
      <3>7. ASSUME NEW a \in Assets, SafeToRelease(n, a, R)
            PROVE  SafeToRelease(n, a, task[n][Mig].src)'
        <4>1. PICK r : r = R
          OBVIOUS
        <4>2. \A d \in Disks \ {r} : <<a, d>> \in replica[n] => <<a, d>> \in replica'[n]
          BY <2>3, <4>1
        <4>3. Others(n, a, r) \subseteq Others(n, a, r)'
          BY <4>2 DEF Others
        <4>4. SafeToRelease(n, a, r)'
          BY <3>7, <4>1, <4>3, SafeStays
        <4>5. task'[n][Mig].src = r
          BY <3>3, <4>1
        <4> QED
          BY <4>4, <4>5 DEF SafeToRelease, Others
      <3> QED
        BY <3>3, <3>5, <3>6, <3>7
    <2>7. \A d \in Disks \ {task'[n][Mig].src} : manifest'[d] \X {d} \subseteq bytes'
      BY <1>3, <2>2
    <2>8. \A p \in replica'[n] : p[2] # task'[n][Mig].src => p \in bytes'
      <3>1. replica'[n] \subseteq Assets \X Disks
        BY TypeStep DEF TypeOK
      <3> QED
        BY <1>3, <2>3, <3>1
    <2> QED
      BY <2>4, <2>5, <2>6, <2>7, <2>8
  <1> QED
    BY <1>1, <1>2, <1>4

\* On one node the release of a source leaves enough replicas, whatever is
\* uploaded, fails or restarts meanwhile, as long as nothing is deleted.
THEOREM EnoughRemain ==
  ASSUME OneNode
  PROVE  Spec => ReleaseKeepsEnough
  <1> DEFINE Enough ==
        \A a \in Assets :
          /\ Copies(a) \ Copies(a)' # {}
          /\ \E n \in Nodes : a \in known[n]
          /\ used'["delete"] = 0
          => MinReplicas <= 1 \/ Cardinality(Copies(a)') >= MinReplicas
  <1>1. Init => TypeOK /\ WorkInv /\ KeepInv
    BY TypeInit, KeepInit
  <1>2. ASSUME TypeOK, WorkInv, KeepInv, [Next]_vars
        PROVE  TypeOK' /\ WorkInv' /\ KeepInv'
    BY <1>2, TypeStep, KeepStep
  <1>3. ASSUME TypeOK, WorkInv, KeepInv, [Next]_vars
        PROVE  Enough
    <2> SUFFICES ASSUME NEW a \in Assets, NEW d \in Copies(a), d \notin Copies(a)',
                        used'["delete"] = 0
                 PROVE  MinReplicas <= 1 \/ Cardinality(Copies(a)') >= MinReplicas
      OBVIOUS
    <2>1. used["delete"] = 0 /\ ~Spend("delete")
      BY <1>3, UsedGrows
    <2>2. <<a, d>> \in bytes /\ <<a, d>> \notin bytes'
      BY DEF Copies
    <2>3. PICK n \in Nodes : WipeFile(n) \/ ReleaseRemote(n)
      BY <1>3, <2>1, <2>2, BytesStep
    <2>4. /\ Moves(n) /\ W(n).src = task[n][Mig].src
          /\ \A p \in bytes : p \in bytes' \/ p[2] = W(n).src
      BY <1>3, <2>3, Released
    <2>5. WipeFile(n)
      <3>1. ~W(n).remote
        BY <1>3, <2>4 DEF KeepInv, Moves
      <3> QED
        BY <2>3, <3>1 DEF ReleaseRemote
    <2>6. a \in W(n).cur /\ W(n).pc = "wipe"
      BY <2>2, <2>5 DEF WipeFile
    <2>7. SafeToRelease(n, a, task[n][Mig].src)
      BY <1>3, <2>1, <2>6 DEF KeepInv
    <2>8. CASE MinReplicas <= 1
      BY <2>8
    <2>9. CASE Cardinality(Others(n, a, task[n][Mig].src)) >= MinReplicas
      <3> DEFINE others == Others(n, a, task[n][Mig].src)
                 left == Copies(a)'
      <3>1. others \subseteq left
        <4> SUFFICES ASSUME NEW e \in others
                     PROVE  <<a, e>> \in bytes' /\ e \in Disks
          BY DEF Copies
        <4>1. e \in Disks /\ e # task[n][Mig].src /\ <<a, e>> \in replica[n]
          BY DEF Others
        <4>2. <<a, e>> \in bytes
          BY <1>3, <2>1, <4>1 DEF KeepInv
        <4> QED
          BY <2>4, <4>1, <4>2
      <3>2. left \subseteq Disks /\ IsFiniteSet(Disks)
        BY FiniteAssumption DEF Copies
      <3>3. Cardinality(others) >= MinReplicas
        BY <2>9
      <3> HIDE DEF others, left
      <3>4. IsFiniteSet(left)
        BY <3>2, FS_Subset
      <3>5. IsFiniteSet(others) /\ Cardinality(others) <= Cardinality(left)
        BY <3>1, <3>4, FS_Subset
      <3>6. Cardinality(others) \in Nat /\ Cardinality(left) \in Nat
        BY <3>4, <3>5, FS_CardinalityType
      <3>7. Cardinality(left) >= MinReplicas
        BY <3>3, <3>5, <3>6, MinAssumption
      <3> QED
        BY <3>7 DEF left
    <2> QED
      BY <2>7, <2>8, <2>9 DEF SafeToRelease
  <1>4. TypeOK /\ WorkInv /\ KeepInv /\ [Next]_vars => [Enough]_vars
    BY <1>3
  <1>5. Spec => [][Enough]_vars
    BY <1>1, <1>2, <1>4, PTL DEF Spec
  <1> QED
    BY <1>5 DEF ReleaseKeepsEnough

=============================================================================
