SPECIFICATION Spec
CONSTANTS
  n1 = n1
  n2 = n2
  d1 = d1
  d2 = d2
  d3 = d3
  a = a
  b = b
  Mig = Mig
  NoDir = NoDir
  NoDisk = NoDisk
  Nodes <- TwoNodes
  Disks <- TwoDisks
  Assets <- OneAsset
  Host <- OnTwoNodes
  MinReplicas = 2
  Placed <- OnlyOnFirst
  Listed <- OnlyOnFirst
  KnownToo <- Nothing
  Home = d1
  Targets <- TwoDisks
  Roomy <- TwoDisks
  Coordinators <- First
  Max <- Calm
  MaxFaults = 0
INVARIANT AssetSurvives
CHECK_DEADLOCK FALSE
