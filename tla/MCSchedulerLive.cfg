CONSTANTS
  j1 = j1
  j2 = j2
  j3 = j3
  s1 = s1
  s2 = s2
  Jobs = {j1, j2}
  SlotIds = {s1, s2}
  PflashJobs = {j2}
  RoutedJobs = {j1}
  Shares <- SharesOfJ1
  StagedJobs = {j1}
  EarlierPass = {s1}
  None = None
SPECIFICATION FairSpec
VIEW LiveProjection
PROPERTIES EveryJobEnds StopEnds
