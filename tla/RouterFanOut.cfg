CONSTANTS
  A = A
  B = B
  C = C
  Conns = {A, B, C}
  NoConn = NoConn
  Listener = Listener
  Topics <- MCTopics
  Exprs <- MCExprs
  Matches <- MCMatches
  DebugRoute = FALSE
  Sends <- FanOutSends
  MayDie = {A, C}
  SockBuf = 2
  MaxSend = 1
SPECIFICATION Spec
INVARIANTS
  ServedExactlyOnce
CHECK_DEADLOCK FALSE
