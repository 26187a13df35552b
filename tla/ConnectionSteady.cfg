CONSTANTS
  Slots = 3
  Served = {TRUE, FALSE}
  MayLose = FALSE
  Timeouts = FALSE
  Signals = TRUE
  MaxCrash = 0
  MaxSeq = 3
  MaxEvents = 3
  MaxDepth = 1
SPECIFICATION FairSpec
INVARIANTS
  ResponseIsOurs
  HeardOnceInOrder
  OkMeansSent
PROPERTIES
  RequestReturns
CHECK_DEADLOCK FALSE
