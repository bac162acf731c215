SPECIFICATION Spec
CONSTANTS
  Slice = {s1}
  Header = Header
  Jobs = 1
  CLen = 2
  Small = 1
  Big = 2
  RcvBuf = 2
  Faults = FALSE
INVARIANT
  WaitPostcondition
CHECK_DEADLOCK FALSE
