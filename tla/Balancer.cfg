SPECIFICATION Spec
CONSTANTS
  r1 = r1
  r2 = r2
  n1 = n1
  n2 = n2
  t1 = t1
  Requests = {r1, r2}
  Tasks = {t1}
  NoTask = NoTask
  Naming = {t1}
  Targets = {n1, n2}
  Compatible <- AllPairs
  MaySleep = {n2}
  Configs <- StillConfigs
  MaxInc = 1
  MaxRev = 2
  MaxOps = 2
  MaxReloads = 0
SYMMETRY RequestSymmetry
INVARIANTS
  LedgerCountsHolders
PROPERTIES
  NoMoveUnderRequest
  ObservedIsProven
  FailoverOutranksMoves
CHECK_DEADLOCK FALSE
