SPECIFICATION Spec
CONSTANTS
  r1 = r1
  r2 = r2
  r3 = r3
  NoName = NoName
  Requests = {r1, r2, r3}
  Early = {r1, r2}
  Shape <- MCShape
  MaxTasks = 3
  MaxJobs = 2
CHECK_DEADLOCK FALSE
INVARIANTS
  CountsMatch
PROPERTIES
  OneTaskForGood
  BriefsNeverGoBack
