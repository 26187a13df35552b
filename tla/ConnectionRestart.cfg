CONSTANTS
  Slots = 3
  Served = {TRUE}
  MayLose = TRUE
  Timeouts = TRUE
  Signals = FALSE
  MaxCrash = 2
  MaxSeq = 1
  MaxEvents = 1
  MaxDepth = 1
SPECIFICATION FairSpec
INVARIANTS
  TypeOK
  ListenersRegistered
  FramesWhole
PROPERTIES
  ComesBack
CHECK_DEADLOCK FALSE
