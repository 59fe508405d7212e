SPECIFICATION Spec
CONSTANTS
  Thread = {main, t1, t2, t3}
  Main = main
  None = None
  ObjQueues = {}
  JoinLimits = {}
  SelfThreadControl = TRUE
  StopOnFirstError = TRUE
SYMMETRY Symmetry
INVARIANTS NoInternalError OnePlace BlockCounts TermTreeIsFamily NoDanglingThread
PROPERTIES BlockEnds ParallelResult TerminateIsExact ThreadJoinComplete
