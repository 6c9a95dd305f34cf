---------------------------- MODULE MCTaskWorker ----------------------------
(***************************************************************************)
(* Small instances of TaskWorker: one node with three disks, and two nodes *)
(* of which n1 has the directory on d1 and n2 has the disks d2 and d3.     *)
(***************************************************************************)
EXTENDS TaskWorker

CONSTANTS n1, n2, d1, d2, d3, a, b

OneNode == {n1}
TwoNodes == {n1, n2}
TwoDisks == {d1, d2}
ThreeDisks == {d1, d2, d3}
OneAsset == {a}
TwoAssets == {a, b}

OnOneNode == [d \in Disks |-> n1]
OnTwoNodes == [d \in Disks |-> IF d = d1 THEN n1 ELSE n2]

\* a has a second replica already, b has not.
OneReplicated == {<<a, d1>>, <<a, d3>>, <<b, d1>>}
OnlyOnFirst == Assets \X {d1}
Nothing == {}
TargetKnows == {n2} \X Assets
First == {n1}
OnlySecond == {d2}
OnlyThird == {d3}

Budget(crash, fail, write, scan, upload, delete) ==
  [crash |-> crash, fail |-> fail, write |-> write, scan |-> scan,
   upload |-> upload, delete |-> delete]

Calm == Budget(0, 0, 0, 0, 0, 0)
FailureBudget == Budget(1, 1, 2, 1, 0, 0)
ChurnBudget == Budget(1, 1, 1, 1, 1, 1)
=============================================================================
