SPECIFICATION FairSpec
CONSTANTS
  d1 = d1
  k1 = k1
  k2 = k2
  NoName = NoName
  TornName = TornName
  Nobody = Nobody
  Nowhere = Nowhere
  Nodes <- TwoNodes
  Disks <- OneDisk
  Names <- TwoNames
  Home <- AtSecond
  LastTime = 1
  Grace = 1
  Max <- FailureBudget
INVARIANT NameSticks
INVARIANT OneCoordinator
INVARIANT TaskReachesDisk
PROPERTY StaysClaimed
CHECK_DEADLOCK FALSE
