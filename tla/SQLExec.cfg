\* Two names and those of the schema tables, a handle for each file, pages of
\* three rows, three statements.
SPECIFICATION Spec
CONSTANTS
  t = t  u = u  v = v  w = w
  TABLES = TABLES
  COLUMNS = COLUMNS
  User <- TwoTables
  Named <- AllNames
  ColumnLists <- MCColumnLists
  Garbage <- MCGarbage
  MAX_DBS = 4
  WRITES_FAIL = FALSE
  PAGE_ROWS = 3
  MAX_STATEMENTS = 3
  Free = Free
  NoObject = NoObject
  Deleted = Deleted
INVARIANTS
  TypeOK
  OneRowPerCreate
  AnsweredIsComplete
  ShowsAllTables
  
PROPERTIES
  UsesFilesAsAllowed
CHECK_DEADLOCK FALSE
