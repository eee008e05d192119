SPECIFICATION FairSpec
CONSTANTS
  Callers = {c1, c2}
  Threshold = 2
  Timeout = 1
  MaxProbesConfig = 1
  Results = {"ok", "error", "miss", "errorThenOk"}
INVARIANTS
  IInv
  NoLeakedSlot
  HalfOpenAdmits
PROPERTIES
  EventuallyProbed
  Recovers
