SPECIFICATION Spec
CONSTANTS
  h1 = h1
  h2 = h2
  d1 = d1
  d2 = d2
  m1 = m1
  m2 = m2
  x1 = x1
  x2 = x2
  k1 = k1
  k2 = k2
  k3 = k3
  None = None
  Root = Root
  Scanner = Scanner
  Disks <- TwoDisks
  Dirs <- TwoDirs
  Names <- TwoNames
  Keys <- ThreeKeys
  Requests <- ThreeDevices
  Handlers <- TwoHandlers
  Max <- FailureBudget
SYMMETRY Alike
CONSTRAINT OneFailure
INVARIANT BackedUp
INVARIANT CheckTruthful
INVARIANT ListedCanBeServed
INVARIANT DeletionSticks
CHECK_DEADLOCK FALSE
