SPECIFICATION FairSpec
CONSTANTS
  a = a
  b = b
  c = c
  NoAsset = NoAsset
  Assets <- Two
  Size <- LongAndShort
  Jobs <- AnyJob
  Chunk = 2
  Remote = FALSE
  Cleanup = FALSE
  Max <- FailureBudget
INVARIANT TypeOK
INVARIANT TargetIsPrefix
INVARIANT VerifiedComplete
INVARIANT ManifestNotAhead
PROPERTY CompletedUntouched
PROPERTY JobEnds
PROPERTY CopiesDirectory
INVARIANT RegisteredComplete
CHECK_DEADLOCK FALSE
