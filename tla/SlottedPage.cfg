\* Three sizes of records, four ids, a block that three records nearly fill.
SPECIFICATION Spec
CONSTANTS
  BLOCK_SZ = 25
  MAX_RECORDS = 4
  Byte <- MCByte
  Data <- ThreeSizes
  NoByte = NoByte
  NoRecord = NoRecord
INVARIANTS
  TypeOK
  HeaderClear
  RecordsApart
  NoSpaceLeaks
PROPERTIES
  DeletedForGood
  OverrunOnlyWhenFull
  ImplementsRecordPage
CHECK_DEADLOCK FALSE
