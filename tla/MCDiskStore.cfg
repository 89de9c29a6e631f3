CONSTANTS
  k1 = k1
  k2 = k2
  k3 = k3
  m1 = m1
  Keys = {k1, k2, k3}
  Hash <- Colliding
  Owner <- OneModel
  Size <- Sizes
  Depth <- Depths
  Ancestors <- Chain
  BudgetBytes = 2
  MaxPendingBytes = 2
  Rooms = {1}
  TtlSeconds = 1
  MaxId = 2
  MaxTime = 2
  MaxEvents = 1
  None = None
SPECIFICATION Spec
INVARIANTS RestoreIsExact PublishedSurvives IndexExact NoWakeupLost
