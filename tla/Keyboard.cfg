SPECIFICATION Spec
CONSTANTS
  p1 = p1
  p2 = p2
  Processes = {p1, p2}
  Letters = {"a"}
  Size = 2
  WordSize = 4
  MaxUnread = 2
INVARIANTS
  CellsMatchCounters
PROPERTIES
  IsQueue
  WaiterGetsKey
