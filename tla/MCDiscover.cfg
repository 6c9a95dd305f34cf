SPECIFICATION StartupSpec
CONSTANTS
  n1 = n1
  n2 = n2
  a1 = a1
  a2 = a2
  Down = Down
  Unknown = Unknown
  Nodes <- TwoNodes
  Addresses <- TwoAddresses
  Hears <- OneBroadcasts
  Offset <- Apart
  Answering <- Asked
  MaxSkew = 1
  Old = 3
  QueueCap = 2
  SeenCap = 2
  FaultBound = 1
  MoveBound = 1
INVARIANT StartupTypeOK
INVARIANT IdentitySticks
PROPERTY AddressWasHeld
CHECK_DEADLOCK FALSE
