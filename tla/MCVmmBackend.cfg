SPECIFICATION BackendSpec
CONSTANTS
  Ids = {1, 2, 3, 4}
  CloseIds = {1, 2, 3}
  SlotCount = 4
  BufferCount = 1
  Vas = {1, 2, 3, 4, 5, 6}
  Values = {0}
  CloseValues = {0, 1}
  RawCharge = 2
  BoundCharge = 3
  Workspaces = {1}
  PhysicalCap = 7
  Closes = FALSE
  MaxContent = 0
  MaxFaults = 1
  None = None
INVARIANTS
  OwnershipKept
  ClosingSafe
PROPERTIES
  ImplementsContract
  ClosingEnds
CHECK_DEADLOCK FALSE
