SPECIFICATION FairSpec
CONSTANTS
  t1 = t1
  t2 = t2
  t3 = t3
  t4 = t4
  NoTask = NoTask
  Task = {t2, t3}
  Scheduled = {t2, t3}
  Priority <- MCPriority
  Future = {}
  CleanUp = {t3}
  Spurious = FALSE
  NumThreads = 1
  Client = {c1}
  PriorityPooling = FALSE
INVARIANTS IndicesInRange NoUseAfterDelete
PROPERTIES ReadyTaskRuns DueTaskIsPromoted WorkersStop
CHECK_DEADLOCK FALSE
