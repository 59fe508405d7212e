SPECIFICATION Spec
CONSTANTS
  Thread = {main, t1, t2}
  Main = main
  None = None
  ObjQueues = {}
  JoinLimits = {1, 2}
  SelfThreadControl = TRUE
  StopOnFirstError = FALSE
SYMMETRY Symmetry
INVARIANTS NoInternalError
CHECK_DEADLOCK FALSE
