SPECIFICATION FairSpec
CONSTANTS
  a1 = a1
  a2 = a2
  e1 = e1
  Goroutines = {g1, g2}
  Ids = {a1}
  Endpoints = {e1}
  Values = {1}
  Ops = {"register", "reload"}
  Capacity = 1
  MaxChanges = 2
  MaxCrashes = 0
  None = None
CHECK_DEADLOCK FALSE
PROPERTY ReloadReturns
