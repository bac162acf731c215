SPECIFICATION ValidationSpec
CONSTANTS
  FileSizes = {1, 2, 3, 4, 5, 6, 7, 8, 49, 343}
  JobCounts = {1, 2, 3}
  SegmentSizes = {0, 1, 2, 3}
  IntMax = 5
  UShort = 8
  Base = 7
  HeaderMax = 5
  RowCounts = {0, 2, 5}
  Step = 2
  Garbage <- Texts
INVARIANTS
  TypesOK
  HeaderReadExactlyWhen
  RowsReadBack
  ResultExact
PROPERTIES
  ImplementsCopyFile
  TransferEnds
CHECK_DEADLOCK FALSE
