CONSTANTS
  Items = {a, b}
  Null = Null
  Garbage = Garbage
  BlockSize = 2
  MaxCount = 7
SPECIFICATION Spec
INVARIANTS SlackSlot OnlyItems
PROPERTY ImplementsList
CHECK_DEADLOCK FALSE
