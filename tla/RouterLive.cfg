CONSTANTS
  A = A
  B = B
  C = C
  Conns = {A, B}
  NoConn = NoConn
  Listener = Listener
  Topics <- MCTopics
  Exprs <- MCExprs
  Matches <- MCMatches
  DebugRoute = FALSE
  Sends <- LiveSends
  MayDie = {B}
  SockBuf = 1
  MaxSend = 2
SPECIFICATION FairSpec
PROPERTIES
  EveryFrameRead
  NoRouteAnswered
CHECK_DEADLOCK FALSE
