SPECIFICATION PlanSpec
CONSTANTS
  NumSlots = 3
  Limits <- MCLimits
  TimeShare = TRUE
  Lengths = {1, 3}
  Endless = 9
  Faulty = TRUE
INVARIANTS OldestPromptWaitsBounded InStep
