SPECIFICATION Spec
CONSTANTS
  Limit = 4
  WindowSize = 3
  MaxTime = 6
INVARIANTS
  Splits
  RateLimited
  DeniedOnlyWhenFull
  CountExact
PROPERTIES
  ImplementsSlidingWindow
  Terminates
CHECK_DEADLOCK FALSE
