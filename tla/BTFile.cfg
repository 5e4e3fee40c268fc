\* Three names, two handles: opening a third file at once is refused by LMDB.
SPECIFICATION Spec
CONSTANTS
  a = a  b = b  c = c  f = f  g = g  page = page
  Name <- ThreeNames
  Object <- TwoObjects
  Content <- MCContent
  Garbage <- MCGarbage
  MAX_DBS = 2
  WRITES_FAIL = FALSE
  MAX_BLOCKS = 2
  Free = Free
  NewBlock = NewBlock
  NoObject = NoObject
INVARIANTS
  TypeOK
  HandleOwn
  LastAccurate
PROPERTIES
  ImplementsBlockStore
SYMMETRY NameAndObjectSymmetry
CHECK_DEADLOCK FALSE
