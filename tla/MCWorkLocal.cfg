SPECIFICATION FairSpec
CONSTANTS
  n1 = n1
  n2 = n2
  d1 = d1
  d2 = d2
  d3 = d3
  a = a
  b = b
  Mig = Mig
  NoDir = NoDir
  NoDisk = NoDisk
  Nodes <- OneNode
  Disks <- ThreeDisks
  Assets <- TwoAssets
  Host <- OnOneNode
  MinReplicas = 2
  Placed <- OneReplicated
  Listed <- OnlyOnFirst
  KnownToo <- Nothing
  Home = d1
  Targets <- OnlySecond
  Roomy <- OnlyThird
  Coordinators <- First
  Max <- ChurnBudget
  MaxFaults = 2
PROPERTY TaskSettles
PROPERTY ReleaseKeepsEnough
CHECK_DEADLOCK FALSE
