SPECIFICATION Spec
CONSTANTS
  Slice = {s1}
  Header = Header
  Jobs = 1
  CLen = 1
  Small = 1
  Big = 2
  RcvBuf = 2
  Faults = FALSE
PROPERTY
  SupervisorReleased
CHECK_DEADLOCK FALSE
