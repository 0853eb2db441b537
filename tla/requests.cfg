SPECIFICATION TaskSpec
CONSTANTS
  None = None
  Conn = {1, 2, 3}
  Fd = {3, 4}
  ChunkSize = 4
  MaxClock = 3
  Site <- MCSite
  Request <- MCRequest
  Scene <- MCScene
  Workload <- MCWorkload
INVARIANTS TaskTypeOK BodyIsWhole SessionsStayApart UpdatesSurvive AnswersOwn AnswersDelimited ProtectedNeedsLogin
PROPERTIES EveryRequestEnds
CHECK_DEADLOCK FALSE
