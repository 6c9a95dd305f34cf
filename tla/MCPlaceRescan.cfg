SPECIFICATION Spec
CONSTANTS
  n1 = n1
  n2 = n2
  d1 = d1
  d2 = d2
  NoRow = NoRow
  NoDisk = NoDisk
  Nodes <- TwoNodes
  Disks <- TwoDisks
  Host <- OnOneNode
  Home = d1
  Id <- ByNumber
  Start <- StartTogether
  Times <- Together
  Targets <- OnlySecond
  Coordinators <- First
  Max <- Calm
PROPERTY MigrationSticks
CHECK_DEADLOCK FALSE
