SPECIFICATION FairSpec
CONSTANTS
  Sessions = {1}
  NoSession = NoSession
  ChunkLens = {1, 2}
  READ_BUF_MAX_LEN = 1
  MaxReads <- BothWays
  SlowSpawn = FALSE
CHECK_DEADLOCK FALSE
INVARIANT TypeOK
INVARIANT CreditExact
INVARIANT BoundedInFlight
INVARIANT DisconnectLast
PROPERTY Teardown
PROPERTY FramesArrive
PROPERTY ImplementsStream
