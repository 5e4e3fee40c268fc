\* Two statements that create the same table.
SPECIFICATION Spec
CONSTANTS
  t = t  u = u  v = v  w = w
  TABLES = TABLES
  COLUMNS = COLUMNS
  User <- OneTable
  Named <- OneTable
  ColumnLists <- OneColumn
  Garbage <- MCGarbage
  MAX_DBS = 5
  WRITES_FAIL = FALSE
  PAGE_ROWS = 4
  MAX_STATEMENTS = 2
  Free = Free
  NoObject = NoObject
  Deleted = Deleted
INVARIANT
  TableNamesUnique
CHECK_DEADLOCK FALSE
