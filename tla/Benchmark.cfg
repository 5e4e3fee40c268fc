\* Two runs of two rounds; fewer handles than files, and writes fail.
SPECIFICATION Spec
CONSTANTS
  a = a  b = b
  BENCH = BENCH
  Others <- TwoOthers
  Rounds <- TwoRounds
  NewBlock = NewBlock
  MAX_BLOCKS = 1
  MAX_RUNS = 2
  MAX_DBS = 2
  WRITES_FAIL = TRUE
  Garbage <- MCGarbage
  Free = Free
  NoObject = NoObject
INVARIANT
  NoHandleLeft
PROPERTIES
  OthersUntouched
SYMMETRY FileSymmetry
CHECK_DEADLOCK FALSE
