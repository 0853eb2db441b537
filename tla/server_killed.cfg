SPECIFICATION Spec
CONSTANTS
  Conn = {c1}
  Self = Self
  Listener = Listener
  NoConn = NoConn
  NumProc = 2
  QLen = 1
  MaxEdits = 1
  StartsInTime = TRUE
PROPERTIES AbandonedOnlyIfKilled
CHECK_DEADLOCK FALSE
