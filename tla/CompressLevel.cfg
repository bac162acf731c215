SPECIFICATION Spec
CONSTANTS
  N = 1
  Jobs = 1
  CLen = 1
  Faults = FALSE
INVARIANT
  LevelAsSet
CHECK_DEADLOCK FALSE
