SPECIFICATION Spec
CONSTANTS
  Thread = {w1, w2, w3}
  Task = {t1, t2, t3}
  NoTask = NoTask
INVARIANTS
  TypeOK
  NoStrandedTask
  NobodySleepsThroughStop
  DrainedWhenGone
PROPERTIES
  ImplementsTaskPool
  JoinReturns
CHECK_DEADLOCK FALSE
