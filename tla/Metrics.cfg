SPECIFICATION Spec
CONSTANTS
  Savers = {"flusher", "closer"}
  HoursPerDay = 2
  Zones <- LocalZones
  Retention = 1
  MaxHours = 5
  MaxRequests = 2
  MaxRestarts = 2
  NoFile = NoFile
  Torn = Torn
CHECK_DEADLOCK FALSE
INVARIANTS
  NothingInvented
  NothingMissing
  TodayCounted
  SavedUnlessCut
