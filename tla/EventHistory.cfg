SPECIFICATION Spec
CONSTANTS
  Admins = {a1, a2}
  Subscribers = {s1}
  Capacity = 3
  MaxMem = 2
  MaxChanges = 3
  MaxImports = 1
  MaxCrashes = 1
  MaxLeft = 1
  None = None
  Torn = Torn
CHECK_DEADLOCK FALSE
SYMMETRY ActorSymmetry
INVARIANTS
  CompleteUnlessDamaged
  MemoryIsTail
  EverySubscriberSees
