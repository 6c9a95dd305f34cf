SPECIFICATION Spec
CONSTANTS
  n1 = n1
  n2 = n2
  d1 = d1
  d2 = d2
  d3 = d3
  a = a
  b = b
  Mig = Mig
  NoDir = NoDir
  NoDisk = NoDisk
  Nodes <- TwoNodes
  Disks <- ThreeDisks
  Assets <- TwoAssets
  Host <- OnTwoNodes
  MinReplicas = 2
  Placed <- OneReplicated
  Listed <- OnlyOnFirst
  KnownToo <- TargetKnows
  Home = d1
  Targets <- OnlySecond
  Roomy <- OnlyThird
  Coordinators <- First
  Max <- FailureBudget
  MaxFaults = 2
INVARIANT AssetSurvives
 
PROPERTY MovesWhole
PROPERTY ExecutedOnce
CHECK_DEADLOCK FALSE
