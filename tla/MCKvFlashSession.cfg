SPECIFICATION Spec
CONSTANTS
  Options <- Setups
  Generated = {"a", "b"}
  header = "h"
  pad = "i"
  chunk_tokens = 2
  pool_tokens = 6
  grid = 2
  stride = 4
  MaxRungs = 3
  MaxRejected = 1
  MaxLen = 8
  MaxTurns = 3
CHECK_DEADLOCK FALSE
INVARIANTS
  SessionExact
  SnapshotExact
