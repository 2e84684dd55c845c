SPECIFICATION EitherSpec
CONSTANTS
  rec1 = rec1
  rec2 = rec2
  None = None
  Records = {rec1, rec2}
  Bodies <- MCBodies
  ExpandedDepth = 1
  LazyLimit = 2
  Chunk = 1
  MaxSelects = 2
  MaxClicks = 2
  MaxLost = 1
  p1 = p1
  p2 = p2
  t1 = t1
  t2 = t2
  t3 = t3
  g1 = g1
  ProxyIds = {p1, p2}
  TargetIds = {t1, t2, t3}
  GroupIds = {g1}
  Urls = {"old", "padded", "typed"}
  Fresh = "old"
  Trimmed <- MCTrimmed
  Models = {"", "m"}
  Patterns = {"", "x"}
  Catalog <- MCCatalog
  Keys <- MCKeys
  Openings <- MCOpenings
  MaxActs = 4
  MaxCalls = 2
INVARIANTS
  RowsAreOfTheBody
  PaneIsOfTheSelection
  NothingTypedIsLost
  KeysStayWithTheirTarget
  SentIsWellFormed
PROPERTIES
  OnlyTheSwitchSwitches
CHECK_DEADLOCK FALSE
