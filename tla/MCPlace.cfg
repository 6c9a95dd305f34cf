SPECIFICATION FairSpec
CONSTANTS
  n1 = n1
  n2 = n2
  d1 = d1
  d2 = d2
  NoRow = NoRow
  NoDisk = NoDisk
  Nodes <- TwoNodes
  Disks <- TwoDisks
  Host <- OnTwoNodes
  Home = d1
  Id <- ByNumber
  Start <- StartApart
  Times <- Apart
  Targets <- OnlySecond
  Coordinators <- First
  Max <- FailureBudget
INVARIANT TypeOK
INVARIANT StampsOfOwner
INVARIANT NeverForgotten
PROPERTY Converges
CHECK_DEADLOCK FALSE
