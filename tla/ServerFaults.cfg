SPECIFICATION Spec
CONSTANTS
  Slice = {s1}
  Header = Header
  Jobs = 2
  CLen = 3
  Small = 2
  Big = 3
  RcvBuf = 3
  Faults = TRUE
INVARIANTS
  NoStrandedBytes
  LossOnlyIfEarly
  UBExplained
  ReportComplete
CHECK_DEADLOCK FALSE
