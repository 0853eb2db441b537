SPECIFICATION Spec
CONSTANTS
  t1 = t1
  t2 = t2
  t3 = t3
  t4 = t4
  NoTask = NoTask
  Task = {t1, t2, t3, t4}
  Scheduled = {}
  Priority <- MCPriority
  Future = {t1}
  CleanUp = {}
  Spurious = TRUE
  NumThreads = 1
  Client = {c1}
  PriorityPooling = TRUE
INVARIANTS AtMostOnce StarvesWithoutPriority
 
SYMMETRY MCSymmetry
CHECK_DEADLOCK FALSE
