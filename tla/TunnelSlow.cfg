SPECIFICATION Spec
CONSTANTS
  Sessions = {1}
  NoSession = NoSession
  ChunkLens = {1}
  READ_BUF_MAX_LEN = 1
  MaxReads <- UplinkOnly
  SlowSpawn = TRUE
CHECK_DEADLOCK FALSE
INVARIANT InOrder
INVARIANT CreditCovers
