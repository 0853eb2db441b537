SPECIFICATION Spec
CONSTANTS
  t1 = t1
  t2 = t2
  t3 = t3
  t4 = t4
  NoTask = NoTask
  Task = {t1, t2, t3}
  Scheduled = {}
  Priority <- MCPriority
  Future = {t1}
  CleanUp = {t2}
  Spurious = FALSE
  NumThreads = 2
  Client = {c1}
  PriorityPooling = FALSE
INVARIANT FinishedFutureIsComplete
CHECK_DEADLOCK FALSE
