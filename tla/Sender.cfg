SPECIFICATION Spec
CONSTANTS
  N = 2
  Jobs = 1
  CLen = 1
  Faults = TRUE
INVARIANTS
  TypeOK
  ReportUnderstood
PROPERTIES
  ImplementsWire
  SenderFinishes
CHECK_DEADLOCK FALSE
