SPECIFICATION Spec
CONSTANTS
  h1 = h1
  h2 = h2
  a = a
  b = b
  c = c
  Importer = Importer
  Scanner = Scanner
  Nobody = Nobody
  NoAsset = NoAsset
  Assets <- ThreeAssets
  Offered <- JustA
  Uploadable <- TheOthers
  Handlers <- TwoHandlers
  Ways <- AnyWay
  Max <- FailureBudget
SYMMETRY Alike
CONSTRAINT OneFailure
INVARIANT ImportKeeps
INVARIANT ListedExists
INVARIANT AcceptedListed
CHECK_DEADLOCK FALSE
