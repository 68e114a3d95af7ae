CONSTANTS
  FileSize = 7
  BlockSize = 2
  OptimalDataFrameSize = 2
  MaxQueueSize = 1
  Readers = {r1, r2}
  Calculators = {c1, c2}
  Chunks = {m1, m2, m3}
  Attempts = 2
  None = None
SPECIFICATION Spec
CHECK_DEADLOCK FALSE
INVARIANTS TypeOK ChunksAccounted FramesIntact PoolOutlivesChunks NothingLeaks
