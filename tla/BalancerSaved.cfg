SPECIFICATION LiveSpec
CONSTANTS
  r1 = r1
  r2 = r2
  n1 = n1
  n2 = n2
  t1 = t1
  Requests = {r1, r2}
  Tasks = {t1}
  NoTask = NoTask
  Naming = {}
  Targets = {n1, n2}
  Compatible <- AllPairs
  MaySleep = {}
  Configs <- SavedConfigs
  MaxInc = 1
  MaxRev = 1
  MaxOps = 1
  MaxReloads = 1
INVARIANTS
  MovesKeepTheirPremises
PROPERTIES
  NothingWaitsForEver
CHECK_DEADLOCK FALSE
