CONSTANTS
  Base = 8
  TopicMax = 4
  BufSize = 35
  Messages <- MCMessages
  SubId = 9
  MaxSent = 3
SPECIFICATION Spec
INVARIANTS DeliveredAsSent BuffersHold NothingWaitedFor
CHECK_DEADLOCK FALSE
