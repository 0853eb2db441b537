SPECIFICATION FairSpec
CONSTANTS
  Conn = {c1, c2}
  Self = Self
  Listener = Listener
  NoConn = NoConn
  NumProc = 2
  QLen = 1
  MaxEdits = 0
  StartsInTime = TRUE
INVARIANTS ClosedForAll NothingAbandoned
  
CHECK_DEADLOCK FALSE
