SPECIFICATION Spec
CONSTANTS
  Calls = {c1, c2}
  Limit = 2
  Window = 3
  PerSecond = 2
  DefaultWindow = 2
  Workloads <- MCWorkloads
  MaxRetries = 1
  MaxDelay = 1
  Start = 20
  MaxTime = 24
VIEW View
SYMMETRY Symmetry
INVARIANTS
  WithinLimit
  RetryAdmits
  BlockHolds
CHECK_DEADLOCK FALSE
