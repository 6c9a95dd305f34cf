---------------------------- MODULE MCDiskClaim ----------------------------
(***************************************************************************)
(* Small instances of DiskClaim: a disk that moves between two nodes.      *)
(***************************************************************************)
EXTENDS DiskClaim

CONSTANTS d1, k1, k2

TwoNodes == {1, 2}
OneDisk == {d1}
TwoNames == {k1, k2}
\* The node that is not the coordinator has the disk first.
AtSecond == [d \in Disks |-> 2]

\* A disk moves once, a process dies once, a write and a read fail once.
FailureBudget == [crash |-> 1, plug |-> 1, io |-> 0, unread |-> 1]
=============================================================================
