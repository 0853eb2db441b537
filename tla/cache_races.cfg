SPECIFICATION FairSpec
CONSTANTS
  s1 = s1
  s2 = s2
  k1 = k1
  k2 = k2
  Nothing = Nothing
  Null = Null
  Session = {s1, s2}
  Key = {k1, k2}
  Obj = {1, 2}
  Request <- MCRaces
  MaxRequests <- MCBoth
INVARIANTS  ExclusiveWork QueueFIFO
PROPERTY Answered
CHECK_DEADLOCK FALSE
