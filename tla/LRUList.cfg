SPECIFICATION ListSpec
CONSTANTS
  k1 = k1
  k2 = k2
  k3 = k3
  e1 = e1
  e2 = e2
  e3 = e3
  e4 = e4
  Keys = {k1, k2, k3}
  Entries = {e1, e2, e3, e4}
  Capacity = 2
  None = None
  Front = Front
  Back = Back
INVARIANTS
  WellLinked
PROPERTY
  ImplementsLRU
