---------------------------- MODULE MCPlacement ----------------------------
(***************************************************************************)
(* Small instances of Placement: n1 has the directory on d1, n2 has d2.    *)
(***************************************************************************)
EXTENDS Placement

CONSTANTS n1, n2, d1, d2

TwoNodes == {n1, n2}
TwoDisks == {d1, d2}

OnTwoNodes == [d \in Disks |-> IF d = d1 THEN n1 ELSE n2]
OnOneNode == [d \in Disks |-> n1]
ByNumber == [n \in Nodes |-> IF n = n1 THEN 1 ELSE 2]

\* No two nodes write in the same second; n2 starts behind n1.
StartApart == [n \in Nodes |-> IF n = n1 THEN 2 ELSE 1]
Apart == [n \in Nodes |-> IF n = n1 THEN {4} ELSE {3, 5}]
StartTogether == [n \in Nodes |-> 1]
Together == [n \in Nodes |-> {2, 3}]

OnlySecond == {d2}
First == {n1}

Budget(rpc, crash, uploads, discards) ==
  [rpc |-> rpc, crash |-> crash, upload |-> uploads, discard |-> discards]

FailureBudget == Budget(1, 1, 1, 1)
Calm == Budget(0, 0, 0, 0)
=============================================================================
