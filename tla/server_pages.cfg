SPECIFICATION Spec
CONSTANTS
  Conn = {c1, c2}
  Self = Self
  Listener = Listener
  NoConn = NoConn
  NumProc = 2
  QLen = 1
  MaxEdits = 1
  StartsInTime = TRUE
SYMMETRY MCSymmetry
INVARIANTS TypeOK OneHand SlotsAgree
CHECK_DEADLOCK FALSE
