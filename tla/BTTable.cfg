\* Rows of three sizes and four, in a block that three of them nearly fill.
SPECIFICATION Spec
CONSTANTS
  ColumnLists <- MCColumnLists
  Inputs <- MCInputs
  Wheres <- MCWheres
  NoRow = NoRow
  BLOCK_SZ = 40
  NoByte = NoByte
  MAX_RECORDS = 4
INVARIANTS
  TypeOK
  SelectsMatches
  ReadsBack
PROPERTIES
  ImplementsRowStore
CHECK_DEADLOCK FALSE
