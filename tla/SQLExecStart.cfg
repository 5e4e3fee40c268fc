\* A process that ends while it creates the schema tables.
SPECIFICATION Spec
CONSTANTS
  t = t  u = u  v = v  w = w
  TABLES = TABLES
  COLUMNS = COLUMNS
  User <- OneTable
  Named <- OneTable
  ColumnLists <- OneColumn
  Garbage <- MCGarbage
  MAX_DBS = 5
  WRITES_FAIL = FALSE
  PAGE_ROWS = 4
  MAX_STATEMENTS = 1
  Free = Free
  NoObject = NoObject
  Deleted = Deleted
INVARIANT
  SchemaTablesReady
CHECK_DEADLOCK FALSE
