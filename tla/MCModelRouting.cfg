CONSTANTS
  c1 = c1
  c2 = c2
  Clients = {c1, c2}
  capacity <- Slots
  Batched = {1}
  BusyWhenIdle = {}
  routing_queue_limit = 1
  MaxDisconnects = 1
  MayStop = TRUE
  Requests <- Mixed
SPECIFICATION FairSpec
INVARIANT AnsweredOnce
INVARIANT ReservationsCoverWork
PROPERTY ShutdownCompletes
CHECK_DEADLOCK FALSE
