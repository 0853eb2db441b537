SPECIFICATION Spec
CONSTANTS
  c1 = c1
  c2 = c2
  c3 = c3
  p1 = p1
  j1 = j1
  Peer <- MCPeer
  Pool = {p1}
  Caller = {c1, c2, c3}
  OwnsConnection = {c3}
  Killable = {c3}
  Process = {"first", "second"}
  ProcessOf <- MCProcessOf
  Method <- MCMethod
  NoOne = NoOne
  NoPeer = NoPeer
  Listener = Listener
  MaxFd = 2
  MessageCalls <- MCMessageCalls
  MethodCalls <- MCMethodCalls
  Destination = {"queue"}
  NaN = NaN
  Job = {j1}
  JobConfig <- MCJobConfig
  Evening <- MCEvening
  Horizon = 60
  LongestRun = 1
  NumLength = 3
  Patience = 20
  Precision = 4
  Operand <- MCOperand
  DayGiven <- MCDay
  DateSpec <- MCDateSpec
  Added = {0, 1, 31}
  Session = {"a", "b"}
  PoolSize = {1, 10}
  Table <- MCTable
  RowOf <- MCRowOf
  Program <- MCProgram
  MaxStatements <- MCMaxStatements
  Base = 97
  Class <- MCClass
  Samples <- MCSamples
INVARIANTS   JobsKeepTime CalculationsExact TransactionsHold  
PROPERTY CallsReturn
CHECK_DEADLOCK FALSE
