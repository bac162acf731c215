SPECIFICATION Spec
CONSTANTS
  Slice = {s1}
  Header = Header
  Jobs = 1
  CLen = 4
  Small = 1
  Big = 3
  RcvBuf = 3
  Faults = FALSE
INVARIANTS
  NoStrandedBytes
  UBExplained
  SingleJobNeverEarly
PROPERTIES
  SingleJobDelivers
CHECK_DEADLOCK FALSE
