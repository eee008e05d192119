SPECIFICATION Spec
CONSTANTS
  g1 = g1
  g2 = g2
  k1 = k1
  k2 = k2
  None = None
  Goroutines = {g1}
  Keys = {k1}
  Serves <- ServeOne
  Ids = {i1, i2}
  Capacity = 1
  Limits = {1}
  Rps = 0
  Burst = 2
  WindowSize = 2
  BlockTicks = 2
  MaxTime = 3
PROPERTY
  AskedLimitKept
