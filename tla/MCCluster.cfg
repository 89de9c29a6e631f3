SPECIFICATION FairSpec
CONSTANTS
  Workers = {1}
  Slots = {"s"}
  Tokens = {1, 2}
  Eos = 2
  Chunks = 1
  Block = 2
  NGen = 2
  NumRequests = 2
  NumOps = 1
  Modes = {TRUE, FALSE}
  SaveTurns = TRUE
  Leaves = {"prefill", "decode"}
  MaxFaults = 1
  Faults = {"dies", "freezes", "fails", "late", "slow"}
INVARIANTS SameEnding ReplicasAgree
PROPERTIES RequestReturns GoesDownTogether
CHECK_DEADLOCK FALSE
