SPECIFICATION Spec
CONSTANTS
  FileSizes = {1, 2, 3, 4, 5, 6, 7, 8, 9, 10, 11, 12, 13, 14, 15, 16, 17, 18, 19, 20}
  JobCounts = {1, 2, 3, 4}
  SegmentSizes = {0}
  IntMax = 6
  UShort = 65536
INVARIANT
  BigFileRestored
CHECK_DEADLOCK FALSE
