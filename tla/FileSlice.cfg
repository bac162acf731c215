SPECIFICATION Spec
CONSTANTS
  FileSizes = {1, 2, 3, 4, 5, 6, 7, 8, 9, 10, 11, 12, 13, 14, 15, 16, 17, 18, 19, 20}
  JobCounts = {1, 2, 3, 4, 5, 6, 7}
  SegmentSizes = {0, 1, 2, 3, 4, 5, 6, 7, 8, 9, 15}
  IntMax = 6
  UShort = 8
INVARIANTS
  TypeOK
  SlicesTileFile
  HeaderLenFits
  RestoredExactlyWhen
  DefaultIsSafe
PROPERTIES
  SplitEnds
CHECK_DEADLOCK FALSE
