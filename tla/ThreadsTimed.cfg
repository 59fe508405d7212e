SPECIFICATION FairSpec
CONSTANTS
  Thread = {main, t1, t2}
  Main = main
  None = None
  ObjQueues = {}
  JoinLimits = {1, 2}
  SelfThreadControl = FALSE
  StopOnFirstError = FALSE
CONSTRAINT CountBound
INVARIANT ThreadJoinHasCause
PROPERTIES ReadyRuns
CHECK_DEADLOCK FALSE
