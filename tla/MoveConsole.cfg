SPECIFICATION Spec
CONSTANTS
  Bindings = {1}
  Others = {2}
  Here = "a"
  Elsewhere = {"b"}
  None = None
  NoKey = 0
  PageRows = 1
  RowCap = 2
  MaxVersions = 3
  MaxRoute = 2
  MaxKeys = 2
  MaxWrites = 2
CHECK_DEADLOCK FALSE
INVARIANTS
  DecisionsWriteOnce
  RowsTellTheLastDecision
