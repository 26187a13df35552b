CONSTANTS
  A = A
  B = B
  C = C
  Conns = {A, B}
  NoConn = NoConn
  Listener = Listener
  Topics <- MCTopics
  Exprs <- MCExprs
  Matches <- MCMatches
  DebugRoute = FALSE
  Sends <- ReuseSends
  MayDie = {A}
  SockBuf = 8
  MaxSend = 2
SPECIFICATION FairSpec
PROPERTIES
  NoRouteAnswered
CHECK_DEADLOCK FALSE
