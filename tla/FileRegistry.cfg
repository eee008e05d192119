SPECIFICATION Spec
CONSTANTS
  a1 = a1
  a2 = a2
  e1 = e1
  Goroutines = {g1, g2}
  Ids = {a1, a2}
  Endpoints = {e1}
  Values = {1, 2}
  Ops <- AllOps
  Capacity = 1
  MaxChanges = 3
  MaxCrashes = 1
  None = None
CHECK_DEADLOCK FALSE
SYMMETRY GoroutineSymmetry
INVARIANTS
  TypeOK
  Durable
  MemoryMatchesFile
  EventsInOrder
