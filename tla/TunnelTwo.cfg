SPECIFICATION Spec
CONSTANTS
  Sessions = {s1, s2}
  NoSession = NoSession
  ChunkLens = {1}
  READ_BUF_MAX_LEN = 0
  MaxReads <- OneUp
  SlowSpawn = FALSE
SYMMETRY Symmetry
CHECK_DEADLOCK FALSE
INVARIANT ClosedByPeer
INVARIANT GracefulClose
