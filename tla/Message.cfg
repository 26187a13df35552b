CONSTANTS
  Threads = {t1, t2}
  Vals = {v1, v2}
  None = none
  Together = FALSE
  ReleaseItem = FALSE
  Retopic = FALSE
  MaxNodes = 5
  MaxMsgs = 2
SPECIFICATION Spec
SYMMETRY Symmetry
INVARIANTS TypeOK 
PROPERTY ImplementsDocuments
CHECK_DEADLOCK FALSE
