SPECIFICATION Spec
CONSTANTS
  a = a
  b = b
  c = c
  NoAsset = NoAsset
  Assets <- Three
  Size <- AndEmpty
  Jobs <- SomeJobs
  Chunk = 2
  Remote = TRUE
  Cleanup = TRUE
  Max <- CleanupBudget
INVARIANT CleanRunVerifies
INVARIANT RemoteFailureHasCause
CHECK_DEADLOCK FALSE
