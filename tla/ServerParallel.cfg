SPECIFICATION Spec
CONSTANTS
  Slice = {s1, s2}
  Header = Header
  Jobs = 2
  CLen = 1
  Small = 1
  Big = 2
  RcvBuf = 1
  Faults = FALSE
SYMMETRY Interchangeable
INVARIANTS
  TypeOK
  NoStrandedConnection
  LossOnlyIfEarly
  UBExplained
  ReportComplete
CHECK_DEADLOCK FALSE
