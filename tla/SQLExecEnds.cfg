\* Fair scheduling; writes fail, and there are fewer handles than files.
SPECIFICATION FairSpec
CONSTANTS
  t = t  u = u  v = v  w = w
  TABLES = TABLES
  COLUMNS = COLUMNS
  User <- OneTable
  Named <- AllNames
  ColumnLists <- GoodOrBad
  Garbage <- MCGarbage
  MAX_DBS = 2
  WRITES_FAIL = TRUE
  PAGE_ROWS = 3
  MAX_STATEMENTS = 2
  Free = Free
  NoObject = NoObject
  Deleted = Deleted
INVARIANTS
  ShowsAllTables
PROPERTIES
  UsesFilesAsAllowed
  StatementsEnd
CHECK_DEADLOCK FALSE
