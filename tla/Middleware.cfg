SPECIFICATION Spec
CONSTANTS
  Goroutines = {g1, g2}
  Keys = {k1}
  Modes = {TRUE, FALSE}
  Backends = {"memory", "redis"}
  GlobalLimit = 2
  KeyLimit = 1
  WindowSize = 2
  BlockDuration = 2
  RuleBlocks = {4}
  MaxBlockDuration = 3
  MaxDuration = 6
  BackoffBase = 2
  JitterMax = 50
  Before = {0, 1}
  MaxRequests = 3
  MaxTime = 3
  Global = Global
CHECK_DEADLOCK FALSE
SYMMETRY GoroutineSymmetry
INVARIANTS
  TypeOK
  Accounting
  StrictFailsClosed
  BlockCapped
PROPERTY
  BlocksEnforced
