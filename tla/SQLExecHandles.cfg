\* The five handles of the code: the schema tables and three more.
SPECIFICATION Spec
CONSTANTS
  t = t  u = u  v = v  w = w
  TABLES = TABLES
  COLUMNS = COLUMNS
  User <- FourTables
  Named <- FourTables
  ColumnLists <- OneColumn
  Garbage <- MCGarbage
  MAX_DBS = 5
  WRITES_FAIL = FALSE
  PAGE_ROWS = 4
  MAX_STATEMENTS = 4
  Free = Free
  NoObject = NoObject
  Deleted = Deleted
INVARIANT
  AnsweredHasFile
CHECK_DEADLOCK FALSE
