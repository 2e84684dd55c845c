SPECIFICATION Spec
CONSTANTS
  a = a
  b = b
  NoSample = NoSample
  NoRead = NoRead
  Targets = {a, b}
  Engines = {"E", "F"}
  Configs <- MCConfigs
  Bindings = {1, 2}
  Home <- MCHome
  Cost <- MCCost
  Loads = {"queue", "idle"}
  MaxReading = 1
  FreshWindow = 1
  StableMin = 2
  Cooldown = 1
  AntiFlap = 2
  Budget = 2
  BudgetWindow = 2
  CommitmentCap = 1
  Retention = 1
  MaxStored = 2
  MaxTime = 2
  MaxReads = 2
  MaxRev = 2
CHECK_DEADLOCK FALSE
INVARIANTS
  PromisesAreKeptApart
  AdviceRestsOnDifferentReads
PROPERTIES
  LiveAdviceIsCurrent
