CONSTANTS
  A = A
  B = B
  C = C
  Conns = {A, B}
  NoConn = NoConn
  Listener = Listener
  Topics <- MCTopics
  Exprs <- MCExprs
  Matches <- MCMatches
  DebugRoute = FALSE
  Sends <- ReuseSends
  MayDie = {A, B}
  SockBuf = 2
  MaxSend = 2
SPECIFICATION Spec
INVARIANTS
  TypeOK
  NoDanglingRoute
  ForwardedWasSubscribed
  InOrder
  StreamsInStep
  RecvNeverBlocks
  NoRouteOnlyIfUnmatched
PROPERTIES
  
  DroppedOnlyIfGone
CHECK_DEADLOCK FALSE
