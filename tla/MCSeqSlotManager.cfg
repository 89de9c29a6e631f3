CONSTANTS
  r1 = r1
  r2 = r2
  RequestIds = {r1, r2}
  NumBlocks = 3
  NumSlots = 2
  BlockSize = 2
  MaxU32 = 7
  MaxCtx = 7
  MaxBurst = 2
  OffloadBudget = 2
SPECIFICATION Spec
SYMMETRY RequestSymmetry
INVARIANTS BlocksConserved CacheMatchesHistory HistoryIsStream PrefillCannotStarve
