SPECIFICATION Spec
CONSTANTS
  k1 = k1
  k2 = k2
  a = a
  b = b
  c = c
  NoRow = NoRow
  Disks <- ThreeDisks
  Dirs <- TwoDirs
  Assets <- ThreeAssets
  Room <- Rooms
  TierOf <- AllHot
  DirOf <- Grouped
  Size <- Sizes
  Age <- Months
  MinFree = 1
  MarginPercent = 10
  HotPercent = 80
  ColdPercent = 40
  MinReplicas = 2
  UploadBound = 3
  DeleteBound = 1
  CrashBound = 1
INVARIANT FloorKept
INVARIANT CopiedOnce
CONSTRAINT ThreeEvents
CHECK_DEADLOCK FALSE
