SPECIFICATION LoopFairSpec
CONSTANTS
  r1 = r1
  r2 = r2
  r3 = r3
  RequestIds = {r1, r2, r3}
  NumBlocks = 6
  NumSlots = 3
  BlockSize = 1
  MaxU32 = 8
  MaxCtx = 8
  MaxBurst = 2
  OffloadBudget = 1
  Prompts = {1, 2}
  Caps = {2, 8}
  Chunk = 1
  ImagePrompts = {2}
  Recovery = TRUE
INVARIANTS StepHasRoom FeasibleRestoreDoesNotThrash
PROPERTIES FailsOnlyAsLastResort  RequestsEnd
