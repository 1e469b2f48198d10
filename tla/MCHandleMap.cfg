SPECIFICATION Spec
CONSTANTS
  Width = 4
  MaxSlots = 3
  MaxAdds = 6
INVARIANTS
  TypeOK
  LiveResolve
  StaleRejected
  FreeSlots
  SentinelStays
PROPERTIES
  EachVisitedOnce
CHECK_DEADLOCK FALSE
