SPECIFICATION FairSpec
CONSTANTS
  req1 = req1
  req2 = req2
  api1 = api1
  api2 = api2
  pathP = pathP
  pathQ = pathQ
  Nothing = Nothing
  NoFile = NoFile
  Unreadable = Unreadable
  Invalid = Invalid
  RateUnit = 2
  Requests = {req1, req2}
  Apis = {api1, api2}
  Contents <- MCContents
  Saved <- MCSaved
  Paths = {pathP, pathQ}
  Methods <- MCMethods
  Upper <- MCUpper
  Workloads <- MCWorkloads
  Starts <- MCStarts
INVARIANTS
  ForwardedWasRegistered
  LimitedAsRouted
  Usable
PROPERTIES
  Exits
  ForwardedIsRecorded
CHECK_DEADLOCK FALSE
