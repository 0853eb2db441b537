SPECIFICATION Spec
CONSTANTS
  t1 = t1
  t2 = t2
  t3 = t3
  t4 = t4
  NoTask = NoTask
  Task = {t2, t3, t4}
  Scheduled = {t4}
  Priority <- MCPriority
  Future = {}
  CleanUp = {}
  Spurious = FALSE
  NumThreads = 2
  Client = {c1}
  PriorityPooling = FALSE
INVARIANTS TypeOK SlotMatchesIdle JoinLeavesAtMostOne
PROPERTY ImplementsWorkPool
SYMMETRY MCSymmetry
CHECK_DEADLOCK FALSE
