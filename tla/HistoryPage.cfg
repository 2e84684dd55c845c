SPECIFICATION HistorySpec
CONSTANTS
  a = a
  b = b
  None = None
  Tasks = {a, b}
  Hits <- MCHits
  Starts <- MCStarts
  MaxRecords = 4
  MaxChanges = 2
  PageSize = 1
  PageMax = 1
  RowPage = 2
  MorePage = 1
  PreviewRows = 1
  Batch = 1
  MaxTries = 2
INVARIANT ListAnswersTheSearch
PROPERTY ListCatchesUp
PROPERTY RowsSettle
CHECK_DEADLOCK FALSE
