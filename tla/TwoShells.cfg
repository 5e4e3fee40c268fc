\* Two shells, at once or in turns; two user rows and those of CREATE TABLE
\* _tables, two to a block.
SPECIFICATION Spec
CONSTANTS
  p = p  q = q  r = r  s = s
  Shell <- TwoProcesses
  Row <- TwoRows
  TABLES = TABLES
  COLUMNS = COLUMNS
  Deleted = Deleted
  PAGE_ROWS = 2
  MAX_BLOCKS = 2
INVARIANTS
  TypeOK
  InsertedStored
  RemovedGone
PROPERTY
  LossOnlyWhenOvertaken
SYMMETRY ShellAndRowSymmetry
CHECK_DEADLOCK FALSE
