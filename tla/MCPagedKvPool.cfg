CONSTANTS
  NumBlocks = 3
  NumSlots = 2
  BlockSize = 2
  MaxU32 = 7
  RequestIds = {1, 2}
  GenerationBound = 2
SPECIFICATION Spec
INVARIANTS  BlocksPartitioned RowsNeverAlias ReservationKept HandleNamesOwner
PROPERTIES RetryReproducesRows ImplementsSlotKv
