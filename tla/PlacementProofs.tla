-------------------------- MODULE PlacementProofs --------------------------
(***************************************************************************)
(* What holds of Placement for every number of nodes and disks, whatever   *)
(* their clocks show and however many calls and processes fail.            *)
(***************************************************************************)
EXTENDS Placement, TLAPS

----------------------------------------------------------------------------
\* Facts about the table.

\* The row a node writes about itself is a row.
LEMMA OwnRowType ==
  ASSUME TypeOK, NEW n \in Nodes, NEW d \in Disks
  PROVE  OwnRow(n, d) \in Rows
  BY DEF TypeOK, OwnRow, Rows

\* SaveDirectory touches one node's table, never empties it, and replaces a
\* row by a newer one only.
LEMMA SaveFacts ==
  ASSUME row \in [Nodes -> MaybeRow], NEW n \in Nodes, NEW r \in Rows,
         SaveDirectory(n, r)
  PROVE  /\ row' \in [Nodes -> MaybeRow]
         /\ \A m \in Nodes \ {n} : row'[m] = row[m]
         /\ row'[n] \in {row[n], r}
         /\ row'[n] # NoRow
         /\ row[n] # NoRow /\ row'[n] # row[n] => row'[n].stamp > row[n].stamp
  BY NoRowAssumption DEF SaveDirectory, MaybeRow

\* DeleteOwn touches one node's table and leaves what it does not delete.
LEMMA DeleteFacts ==
  ASSUME row \in [Nodes -> MaybeRow], NEW n \in Nodes, DeleteOwn(n)
  PROVE  /\ row' \in [Nodes -> MaybeRow]
         /\ \A m \in Nodes \ {n} : row'[m] = row[m]
         /\ row'[n] \in {row[n], NoRow}
  BY DEF DeleteOwn, MaybeRow

LEMMA SpendType ==
  ASSUME used \in [Events -> Nat], NEW e \in Events, Spend(e)
  PROVE  used' \in [Events -> Nat]
  BY DEF Spend

\* What a table or a federation holds, where it holds one, is a row.
LEMMA RowsAreRows ==
  ASSUME TypeOK, NEW n \in Nodes
  PROVE  /\ row[n] # NoRow => row[n] \in Rows
         /\ view[n] # NoRow => view[n] \in Rows
  BY DEF TypeOK, MaybeRow

----------------------------------------------------------------------------
\* Type correctness.

\* The part of TypeOK that relates a task to where its worker is.
TasksAt(t, pc) ==
  \A m \in Nodes :
    /\ pc[m] \in {"adopt", "notify"} => t[m].status # "none"
    /\ t[m].status # "none" => t[m].src \in Disks /\ t[m].dst \in Disks

\* Every step keeps every variable in its type.
LEMMA TypeStep == TypeOK /\ [Next]_vars => TypeOK'
  <1> SUFFICES ASSUME TypeOK, [Next]_vars
               PROVE  TypeOK'
    OBVIOUS
  <1> USE DEF TypeOK
  <1>1. ASSUME NEW d \in Disks, Scan(d)
        PROVE  TypeOK'
    <2>1. Host[d] \in Nodes
      BY HostAssumption
    <2>2. row' \in [Nodes -> MaybeRow]
      BY <1>1, <2>1, OwnRowType, SaveFacts DEF Scan
    <2> QED
      BY <1>1, <2>2 DEF Scan
  <1>2. ASSUME NEW d \in Disks, UploadReads(d)
        PROVE  TypeOK'
    <2>1. Host[d] \in Nodes
      BY HostAssumption
    <2>2. used' \in [Events -> Nat]
      BY <1>2, SpendType DEF UploadReads, Events
    <2>3. [disk |-> d, seen |-> row[Host[d]]] \in Uploads
      BY <2>1 DEF Uploads
    <2>4. upload' \in [Nodes -> Uploads]
      BY <1>2, <2>3 DEF UploadReads
    <2>5. listed' \subseteq Disks
      BY <1>2 DEF UploadReads
    <2> QED
      BY <1>2, <2>2, <2>4, <2>5 DEF UploadReads
  <1>3. ASSUME NEW n \in Nodes, UploadSaves(n)
        PROVE  TypeOK'
    <2>1. upload[n].disk \in Disks
      BY <1>3 DEF UploadSaves, Uploads
    <2>2. row' \in [Nodes -> MaybeRow]
      BY <1>3, <2>1, OwnRowType, SaveFacts DEF UploadSaves
    <2>3. NoUpload \in Uploads
      BY DEF Uploads
    <2> QED
      BY <1>3, <2>2, <2>3 DEF UploadSaves
  <1>4. ASSUME NEW d \in Disks, Discard(d)
        PROVE  TypeOK'
    <2>1. Host[d] \in Nodes
      BY HostAssumption
    <2>2. row' \in [Nodes -> MaybeRow]
      BY <1>4, <2>1, DeleteFacts DEF Discard
    <2>3. used' \in [Events -> Nat]
      BY <1>4, SpendType DEF Discard, Events
    <2> QED
      BY <1>4, <2>2, <2>3 DEF Discard
  <1>5. ASSUME NEW n \in Nodes, Federate(n)
        PROVE  TypeOK'
    BY <1>5 DEF Federate
  <1>6. ASSUME NEW n \in Nodes, NEW m \in Nodes, FetchState(n, m)
        PROVE  TypeOK'
    <2>1. Merge(view[n], row[m]) \in MaybeRow
      BY DEF Merge
    <2> QED
      BY <1>6, <2>1 DEF FetchState
  <1>7. ASSUME NEW n \in Nodes, FetchFails(n)
        PROVE  TypeOK'
    <2>1. used' \in [Events -> Nat]
      BY <1>7, SpendType DEF FetchFails, Events
    <2> QED
      BY <1>7, <2>1 DEF FetchFails, MaybeRow
  <1>8. ASSUME NEW n \in Nodes, SaveView(n)
        PROVE  TypeOK'
    <2>1. row' \in [Nodes -> MaybeRow]
      BY <1>8, RowsAreRows, SaveFacts DEF SaveView, Learned
    <2> QED
      BY <1>8, <2>1 DEF SaveView, MaybeRow
  <1>9. ASSUME NEW c \in Nodes, NEW d \in Disks, Emit(c, d)
        PROVE  TypeOK'
    <2>1. row[c].disk \in Disks
      BY <1>9, RowsAreRows DEF Emit, Rows
    <2>2. Host[d] \in Nodes
      BY HostAssumption
    <2>3. task' \in [Nodes -> Tasks]
      BY <1>9, <2>1, <2>2 DEF Emit, Tasks
    <2> QED
      BY <1>9, <2>1, <2>2, <2>3 DEF Emit, Tasks
  <1>10. ASSUME NEW n \in Nodes, StartMigration(n)
         PROVE  TypeOK'
    <2>1. PICK b \in BOOLEAN :
            \/ /\ at' = [at EXCEPT ![n] = "adopt"]
               /\ task' = [task EXCEPT ![n].status = "RUNNING", ![n].remote = b]
            \/ /\ at' = at
               /\ task' = [task EXCEPT ![n].status = "FAILED"]
      BY <1>10 DEF StartMigration, AfterCopy
    <2>2. task[n].status # "none"
      BY <1>10 DEF StartMigration
    <2> DEFINE begun == [task EXCEPT ![n].status = "RUNNING"]
    <2>3. begun \in [Nodes -> Tasks]
      BY DEF Tasks
    <2>4. [begun EXCEPT ![n].remote = b] \in [Nodes -> Tasks]
      <3> HIDE DEF begun
      <3> QED
        BY <2>3 DEF Tasks
    <2>5. [task EXCEPT ![n].status = "FAILED"] \in [Nodes -> Tasks]
      BY DEF Tasks
    <2>6. task' \in [Nodes -> Tasks]
      BY <2>1, <2>4, <2>5
    <2>7. TasksAt(task', at')
      BY <2>1, <2>2 DEF Tasks, TasksAt
    <2> QED
      BY <1>10, <2>1, <2>6, <2>7 DEF StartMigration, TasksAt
  <1>11. ASSUME NEW n \in Nodes, MigrationFails(n)
         PROVE  TypeOK'
    <2>1. used' \in [Events -> Nat]
      BY <1>11, SpendType DEF MigrationFails, Events
    <2> QED
      BY <1>11, <2>1 DEF MigrationFails, Tasks
  <1>12. ASSUME NEW n \in Nodes, Adopt(n)
         PROVE  TypeOK'
    <2>1. task[n].dst \in Disks
      BY <1>12 DEF Adopt
    <2>2. row' \in [Nodes -> MaybeRow]
      BY <1>12, <2>1, OwnRowType, SaveFacts DEF Adopt
    <2>3. task' \in [Nodes -> Tasks]
      BY <1>12 DEF Adopt, Tasks
    <2>4. TasksAt(task', at')
      BY <1>12 DEF Adopt, Tasks, TasksAt
    <2> QED
      BY <1>12, <2>2, <2>3, <2>4 DEF Adopt, TasksAt
  <1>13. ASSUME NEW n \in Nodes, Notify(n)
         PROVE  TypeOK'
    <2>1. Host[task[n].src] \in Nodes
      BY <1>13, HostAssumption DEF Notify
    <2>2. row' \in [Nodes -> MaybeRow]
      BY <1>13, <2>1, DeleteFacts DEF Notify
    <2>3. used' \in [Events -> Nat]
      BY <1>13, SpendType DEF Notify, Events
    <2>4. task' \in [Nodes -> Tasks]
      BY <1>13 DEF Notify, Tasks
    <2>5. TasksAt(task', at')
      BY <1>13 DEF Notify, Tasks, TasksAt
    <2> QED
      BY <1>13, <2>2, <2>3, <2>4, <2>5 DEF Notify, TasksAt
  <1>14. ASSUME NEW n \in Nodes, Tick(n)
         PROVE  TypeOK'
    <2>1. Times[n] \subseteq Nat
      BY TimesAssumption
    <2> QED
      BY <1>14, <2>1 DEF Tick
  <1>15. ASSUME NEW n \in Nodes, Crash(n)
         PROVE  TypeOK'
    <2>1. used' \in [Events -> Nat]
      BY <1>15, SpendType DEF Crash, Events
    <2>2. NoUpload \in Uploads
      BY DEF Uploads
    <2> QED
      BY <1>15, <2>1, <2>2 DEF Crash, MaybeRow
  <1>16. CASE UNCHANGED vars
    BY <1>16 DEF vars
  <1> QED
    BY <1>1, <1>2, <1>3, <1>4, <1>5, <1>6, <1>7, <1>8, <1>9, <1>10, <1>11,
       <1>12, <1>13, <1>14, <1>15, <1>16 DEF Next, Federation, Migration

\* Every reachable state has the types TypeOK lists.
THEOREM TypeCorrect == Spec => []TypeOK
  <1>1. Init => TypeOK
    <2> SUFFICES ASSUME Init
                 PROVE  TypeOK
      OBVIOUS
    <2>1. row \in [Nodes -> MaybeRow]
      BY HostAssumption, TimesAssumption DEF Init, MaybeRow, Rows
    <2> QED
      BY <2>1, HostAssumption, TimesAssumption
         DEF Init, TypeOK, MaybeRow, Tasks, NoTask, Uploads, Events
  <1> QED
    BY <1>1, TypeStep, PTL DEF Spec

----------------------------------------------------------------------------
\* Stamps and clocks.

\* A copy of a row is not newer than the clock of the node it names.
Old(r, c) == r # NoRow => r.stamp <= c[r.owner]

\* No clock goes back.
LEMMA ClocksAdvance ==
  ASSUME TypeOK, [Next]_vars
  PROVE  /\ clock' \in [Nodes -> Nat]
         /\ \A n \in Nodes : clock[n] <= clock'[n]
  <1>1. ASSUME NEW n \in Nodes, Tick(n)
        PROVE  \A m \in Nodes : clock[m] <= clock'[m]
    <2>1. Times[n] \subseteq Nat
      BY TimesAssumption
    <2> QED
      BY <1>1, <2>1 DEF Tick, TypeOK
  <1>2. (\E n \in Nodes : Tick(n)) \/ clock' = clock
    BY DEF Next, Federation, Migration, Scan, UploadReads, UploadSaves,
           Discard, Federate, FetchState, FetchFails, SaveView, Emit,
           StartMigration, MigrationFails, Adopt, Notify, Crash, vars
  <1> QED
    BY <1>1, <1>2, TypeStep DEF TypeOK

\* What is old stays old.
LEMMA OldStaysOld ==
  ASSUME TypeOK, [Next]_vars, NEW r \in MaybeRow, Old(r, clock)
  PROVE  Old(r, clock')
  <1> SUFFICES ASSUME r # NoRow
               PROVE  r.stamp <= clock'[r.owner]
    BY DEF Old
  <1>1. r.owner \in Nodes /\ r.stamp \in Nat /\ r.stamp <= clock[r.owner]
    BY DEF MaybeRow, Rows, Old
  <1>2. clock[r.owner] \in Nat /\ clock'[r.owner] \in Nat
    BY <1>1, ClocksAdvance DEF TypeOK
  <1> QED
    BY <1>1, <1>2, ClocksAdvance

\* What a node writes about itself carries its clock.
LEMMA OwnRowOld ==
  ASSUME TypeOK, NEW n \in Nodes, NEW d \in Disks
  PROVE  Old(OwnRow(n, d), clock)
  BY DEF TypeOK, OwnRow, Old

\* Every row a step puts into a table was old before the step.
LEMMA RowsOld ==
  ASSUME TypeOK, StampsOfOwner, [Next]_vars, NEW m \in Nodes
  PROVE  Old(row'[m], clock)
  <1> USE DEF TypeOK
  <1>0. Old(row[m], clock) /\ Old(NoRow, clock)
    BY DEF StampsOfOwner, Old
  <1>1. ASSUME NEW d \in Disks, Scan(d)
        PROVE  Old(row'[m], clock)
    <2>1. Host[d] \in Nodes
      BY HostAssumption
    <2>2. row'[m] \in {row[m], OwnRow(Host[d], d)}
      BY <1>1, <2>1, OwnRowType, SaveFacts DEF Scan
    <2> QED
      BY <1>0, <2>1, <2>2, OwnRowOld
  <1>2. ASSUME NEW n \in Nodes, UploadSaves(n)
        PROVE  Old(row'[m], clock)
    <2>1. upload[n].disk \in Disks
      BY <1>2 DEF UploadSaves, Uploads
    <2>2. row'[m] \in {row[m], OwnRow(n, upload[n].disk)}
      BY <1>2, <2>1, OwnRowType, SaveFacts DEF UploadSaves
    <2> QED
      BY <1>0, <2>1, <2>2, OwnRowOld
  <1>3. ASSUME NEW d \in Disks, Discard(d)
        PROVE  Old(row'[m], clock)
    <2>1. row'[m] \in {row[m], NoRow}
      BY <1>3, HostAssumption, DeleteFacts DEF Discard
    <2> QED
      BY <1>0, <2>1
  <1>4. ASSUME NEW n \in Nodes, SaveView(n)
        PROVE  Old(row'[m], clock)
    <2>1. row'[m] \in {row[m], view[n]}
      BY <1>4, RowsAreRows, SaveFacts DEF SaveView, Learned
    <2>2. Old(view[n], clock)
      BY DEF StampsOfOwner, Old
    <2> QED
      BY <1>0, <2>1, <2>2
  <1>5. ASSUME NEW n \in Nodes, Adopt(n)
        PROVE  Old(row'[m], clock)
    <2>1. task[n].dst \in Disks
      BY <1>5 DEF Adopt
    <2>2. row'[m] \in {row[m], OwnRow(n, task[n].dst)}
      BY <1>5, <2>1, OwnRowType, SaveFacts DEF Adopt
    <2> QED
      BY <1>0, <2>1, <2>2, OwnRowOld
  <1>6. ASSUME NEW n \in Nodes, Notify(n)
        PROVE  Old(row'[m], clock)
    <2>1. Host[task[n].src] \in Nodes
      BY <1>6, HostAssumption DEF Notify
    <2>2. row'[m] \in {row[m], NoRow}
      BY <1>6, <2>1, DeleteFacts DEF Notify
    <2> QED
      BY <1>0, <2>2
  <1>7. ASSUME row' = row
        PROVE  Old(row'[m], clock)
    BY <1>0, <1>7
  <1> QED
    BY <1>1, <1>2, <1>3, <1>4, <1>5, <1>6, <1>7
       DEF Next, Federation, Migration, UploadReads, Emit, Federate,
           FetchState, FetchFails, StartMigration, MigrationFails, Tick, Crash,
           vars

\* So was every row a federation under way holds after it.
LEMMA ViewsOld ==
  ASSUME TypeOK, StampsOfOwner, [Next]_vars, NEW m \in Nodes
  PROVE  Old(view'[m], clock)
  <1> USE DEF TypeOK
  <1>0. /\ \A n \in Nodes : Old(row[n], clock) /\ Old(view[n], clock)
        /\ Old(NoRow, clock)
    BY DEF StampsOfOwner, Old
  <1>1. ASSUME NEW n \in Nodes, Federate(n)
        PROVE  Old(view'[m], clock)
    BY <1>0, <1>1 DEF Federate
  <1>2. ASSUME NEW n \in Nodes, NEW p \in Nodes, FetchState(n, p)
        PROVE  Old(view'[m], clock)
    BY <1>0, <1>2 DEF FetchState, Merge
  <1>3. ASSUME NEW n \in Nodes, FetchFails(n) \/ SaveView(n) \/ Crash(n)
        PROVE  Old(view'[m], clock)
    BY <1>0, <1>3 DEF FetchFails, SaveView, Crash
  <1>4. ASSUME view' = view
        PROVE  Old(view'[m], clock)
    BY <1>0, <1>4
  <1> QED
    BY <1>1, <1>2, <1>3, <1>4
       DEF Next, Federation, Migration, Scan, UploadReads, UploadSaves, Discard,
           Emit, StartMigration, MigrationFails, Adopt, Notify, Tick, vars

\* No copy of a row is newer than the clock of the node it names, so that what
\* this node writes in a later second replaces every copy.
THEOREM CopiesAreOld == Spec => []StampsOfOwner
  <1>1. Init => StampsOfOwner
    <2> SUFFICES ASSUME Init, NEW n \in Nodes
                 PROVE  Old(row[n], clock) /\ Old(view[n], clock)
      BY DEF StampsOfOwner, Old
    <2>1. view[n] = NoRow /\ clock = Start /\ Start[n] \in Nat
      BY TimesAssumption DEF Init
    <2>2. row[n] \in {NoRow, [owner |-> n, disk |-> Home, stamp |-> Start[n]]}
      BY DEF Init
    <2> QED
      BY <2>1, <2>2 DEF Old
  <1>2. TypeOK /\ StampsOfOwner /\ [Next]_vars => StampsOfOwner'
    <2> SUFFICES ASSUME TypeOK, StampsOfOwner, [Next]_vars
                 PROVE  StampsOfOwner'
      OBVIOUS
    <2>1. ASSUME NEW n \in Nodes
          PROVE  Old(row'[n], clock') /\ Old(view'[n], clock')
      <3>1. row'[n] \in MaybeRow /\ view'[n] \in MaybeRow
        BY TypeStep DEF TypeOK
      <3> QED
        BY <3>1, RowsOld, ViewsOld, OldStaysOld
    <2> QED
      BY <2>1 DEF StampsOfOwner, Old
  <1> QED
    BY <1>1, <1>2, TypeCorrect, PTL DEF Spec

----------------------------------------------------------------------------
\* A directory is not forgotten.

\* A task is at the node that migrates, t, and remote only if the source is
\* another node.
TasksOf(t) ==
  \A n \in Nodes :
    /\ task[n].status # "none" => n = t
    /\ task[n].remote => Host[task[n].src] # n

\* As long as nothing is deleted some node has a row, and a node about to make
\* the source give its row up has one itself.
Held(t) ==
  used["discard"] = 0 =>
    /\ \E n \in Nodes : row[n] # NoRow
    /\ \A n \in Nodes :
         at[n] = "notify" => n = t /\ row[n] # NoRow /\ task[n].remote

\* Tasks are created at the node of their target disk only.
LEMMA TasksStep ==
  ASSUME TypeOK, NEW t \in Nodes, \A d \in Targets : Host[d] = t,
         TasksOf(t), [Next]_vars
  PROVE  TasksOf(t)'
  <1> USE DEF TypeOK
  <1>1. ASSUME NEW c \in Nodes, NEW d \in Disks, Emit(c, d)
        PROVE  TasksOf(t)'
    <2>1. Host[d] = t
      BY <1>1 DEF Emit
    <2> QED
      BY <1>1, <2>1 DEF Emit, TasksOf
  <1>2. ASSUME NEW n \in Nodes, StartMigration(n)
        PROVE  TasksOf(t)'
    <2>1. PICK sees \in BOOLEAN :
            \/ task' = [task EXCEPT ![n].status = "RUNNING",
                                    ![n].remote = sees /\ Host[task[n].src] # n]
            \/ task' = [task EXCEPT ![n].status = "FAILED"]
      BY <1>2 DEF StartMigration
    <2>2. task[n].status # "none"
      BY <1>2 DEF StartMigration
    <2> QED
      BY <2>1, <2>2 DEF TasksOf, Tasks
  <1>3. ASSUME NEW n \in Nodes, MigrationFails(n) \/ Adopt(n) \/ Notify(n)
        PROVE  TasksOf(t)'
    <2>1. /\ at[n] \in {"adopt", "notify"}
          /\ task[n].status # "none"
      BY <1>3 DEF MigrationFails, Adopt, Notify
    <2>2. \/ task' = task
          \/ task' = [task EXCEPT ![n].status = "DONE"]
          \/ task' = [task EXCEPT ![n].status = "FAILED"]
      BY <1>3 DEF MigrationFails, Adopt, Notify
    <2> QED
      BY <2>1, <2>2 DEF TasksOf, Tasks
  <1>4. ASSUME task' = task
        PROVE  TasksOf(t)'
    BY <1>4 DEF TasksOf
  <1> QED
    BY <1>1, <1>2, <1>3, <1>4
       DEF Next, Federation, Migration, Scan, UploadReads, UploadSaves, Discard,
           Federate, FetchState, FetchFails, SaveView, Tick, Crash, vars

\* The row goes at the source only, after the target has got its own.
LEMMA HeldStep ==
  ASSUME TypeOK, NEW t \in Nodes, TasksOf(t), Held(t), [Next]_vars
  PROVE  Held(t)'
  <1> USE DEF TypeOK
  <1>0. used' = used => used'["discard"] = used["discard"]
    OBVIOUS
  <1> SUFFICES ASSUME used'["discard"] = 0
               PROVE  /\ \E n \in Nodes : row'[n] # NoRow
                      /\ \A n \in Nodes :
                           at'[n] = "notify" =>
                             n = t /\ row'[n] # NoRow /\ task'[n].remote
    BY DEF Held
  <1>1. \A d \in Disks : ~ Discard(d)
    BY DEF Discard, Spend, Events
  <1>2. used["discard"] = 0
    BY <1>1 DEF Next, Federation, Migration, Scan, UploadReads, UploadSaves,
                Federate, FetchState, FetchFails, SaveView, Emit,
                StartMigration, MigrationFails, Adopt, Notify, Tick, Crash,
                Spend, Events, vars
  <1>3. /\ \E n \in Nodes : row[n] # NoRow
        /\ \A n \in Nodes :
             at[n] = "notify" => n = t /\ row[n] # NoRow /\ task[n].remote
    BY <1>2 DEF Held
  <1>4. ASSUME NEW d \in Disks, Scan(d)
        PROVE  /\ \A m \in Nodes : row[m] # NoRow => row'[m] # NoRow
               /\ at' = at /\ task' = task
    BY <1>4, HostAssumption, OwnRowType, SaveFacts DEF Scan
  <1>5. ASSUME NEW n \in Nodes, UploadSaves(n)
        PROVE  /\ \A m \in Nodes : row[m] # NoRow => row'[m] # NoRow
               /\ at' = at /\ task' = task
    <2>1. upload[n].disk \in Disks
      BY <1>5 DEF UploadSaves, Uploads
    <2> QED
      BY <1>5, <2>1, OwnRowType, SaveFacts DEF UploadSaves
  <1>6. ASSUME NEW n \in Nodes, SaveView(n)
        PROVE  /\ \A m \in Nodes : row[m] # NoRow => row'[m] # NoRow
               /\ at' = [at EXCEPT ![n] = "idle"] /\ task' = task
    BY <1>6, RowsAreRows, SaveFacts DEF SaveView, Learned
  <1>7. ASSUME NEW n \in Nodes, Adopt(n)
        PROVE  /\ \A m \in Nodes : row[m] # NoRow => row'[m] # NoRow
               /\ at'[n] = "notify" => n = t /\ row'[n] # NoRow /\ task'[n].remote
               /\ \A m \in Nodes \ {n} : at'[m] = at[m] /\ task'[m] = task[m]
    <2>1. task[n].dst \in Disks /\ n = t
      BY <1>7 DEF Adopt, TasksOf
    <2> QED
      BY <1>7, <2>1, OwnRowType, SaveFacts DEF Adopt
  <1>8. ASSUME NEW n \in Nodes, Notify(n)
        PROVE  /\ n = t /\ row'[n] # NoRow
               /\ \A m \in Nodes : at'[m] # "notify"
    <2>1. n = t /\ row[n] # NoRow /\ Host[task[n].src] # n
      BY <1>3, <1>8 DEF Notify, TasksOf
    <2>2. Host[task[n].src] \in Nodes
      BY <1>8, HostAssumption DEF Notify
    <2>3. row'[n] = row[n]
      BY <1>8, <2>1, <2>2, DeleteFacts DEF Notify
    <2> QED
      BY <1>3, <1>8, <2>1, <2>3 DEF Notify
  <1>9. ASSUME NEW c \in Nodes, NEW d \in Disks, Emit(c, d)
        PROVE  /\ row' = row /\ at' = at
               /\ \A m \in Nodes : at[m] = "notify" => task'[m] = task[m]
    BY <1>9 DEF Emit
  <1>10. ASSUME NEW n \in Nodes, StartMigration(n)
         PROVE  /\ row' = row
                /\ at'[n] # "notify"
                /\ \A m \in Nodes \ {n} : at'[m] = at[m] /\ task'[m] = task[m]
    BY <1>10 DEF StartMigration, AfterCopy
  <1>11. ASSUME NEW n \in Nodes, MigrationFails(n)
         PROVE  /\ row' = row
                /\ at'[n] # "notify"
                /\ \A m \in Nodes \ {n} : at'[m] = at[m] /\ task'[m] = task[m]
    BY <1>11 DEF MigrationFails
  <1>12. ASSUME NEW n \in Nodes, Federate(n) \/ FetchFails(n) \/ Crash(n)
         PROVE  /\ row' = row /\ task' = task
                /\ at'[n] # "notify"
                /\ \A m \in Nodes \ {n} : at'[m] = at[m]
    BY <1>12 DEF Federate, FetchFails, Crash
  <1>13. ASSUME row' = row /\ at' = at /\ task' = task
         PROVE  /\ \E n \in Nodes : row'[n] # NoRow
                /\ \A n \in Nodes :
                     at'[n] = "notify" =>
                       n = t /\ row'[n] # NoRow /\ task'[n].remote
    BY <1>3, <1>13
  <1>14. CASE \/ \E d \in Disks : Scan(d) \/ UploadReads(d)
              \/ \E n \in Nodes : \/ UploadSaves(n)
                                  \/ SaveView(n)
                                  \/ \E m \in Nodes : FetchState(n, m)
                                  \/ Tick(n)
              \/ UNCHANGED vars
    BY <1>3, <1>4, <1>5, <1>6, <1>13, <1>14
       DEF UploadReads, FetchState, Tick, vars
  <1>15. CASE \/ \E c \in Nodes, d \in Disks : Emit(c, d)
              \/ \E n \in Nodes : \/ Federate(n)
                                  \/ FetchFails(n)
                                  \/ Crash(n)
                                  \/ StartMigration(n)
                                  \/ MigrationFails(n)
    BY <1>3, <1>9, <1>10, <1>11, <1>12, <1>15
  <1>16. CASE \E n \in Nodes : Adopt(n) \/ Notify(n)
    BY <1>3, <1>7, <1>8, <1>16
  <1> QED
    BY <1>1, <1>14, <1>15, <1>16 DEF Next, Federation, Migration

\* If all disks a migration may choose are at one node, the directory keeps a
\* row whatever calls are lost and processes die: worker.rehost writes the new
\* row before it makes the source give up the old one.
THEOREM HandingOverKeepsARow ==
  ASSUME NEW t \in Nodes, \A d \in Targets : Host[d] = t
  PROVE  Spec => []NeverForgotten
  <1>1. Init => TasksOf(t) /\ Held(t)
    BY HostAssumption, NoRowAssumption, TimesAssumption
       DEF Init, TasksOf, Held, NoTask, Rows
  <1>2. TypeOK /\ TasksOf(t) /\ Held(t) /\ [Next]_vars
          => TasksOf(t)' /\ Held(t)'
    BY TasksStep, HeldStep
  <1>3. Held(t) => NeverForgotten
    BY DEF Held, NeverForgotten
  <1> QED
    BY <1>1, <1>2, <1>3, TypeCorrect, PTL DEF Spec
=============================================================================
