CONSTANTS
  j1 = j1
  j2 = j2
  j3 = j3
  s1 = s1
  s2 = s2
  Jobs = {j1, j2, j3}
  SlotIds = {s1, s2}
  PflashJobs = {j1, j3}
  RoutedJobs = {j2}
  Shares <- SharesOfJ1
  StagedJobs = {}
  EarlierPass = {}
  None = None
SPECIFICATION Spec
VIEW Projection
SYMMETRY SlotSymmetry
INVARIANTS HeldExactlyOnce  AnsweredOnce
PROPERTY NoOvertaking
