\* A page that gets full: the room left is less than a slot.
SPECIFICATION Spec
CONSTANTS
  BLOCK_SZ = 25
  MAX_RECORDS = 4
  Byte <- MCByte
  Data <- ThreeSizes
  NoByte = NoByte
  NoRecord = NoRecord
INVARIANT
  NeverOverrun
CHECK_DEADLOCK FALSE
