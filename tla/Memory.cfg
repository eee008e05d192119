SPECIFICATION Spec
CONSTANTS
  g1 = g1
  g2 = g2
  k1 = k1
  k2 = k2
  None = None
  Goroutines = {g1, g2}
  Keys = {k1, k2}
  Serves <- ServeSome
  Ids = {i1, i2, i3}
  Capacity = 1
  Limits = {1}
  Rps = 0
  Burst = 1
  WindowSize = 1
  BlockTicks = 2
  MaxTime = 3
SYMMETRY IdSymmetry
INVARIANTS
  OverrunBounded
  BlockBounded
PROPERTY BlockHolds
