SPECIFICATION FairDaemonSpec
CONSTANTS
  MaxChanges = 3
INVARIANTS
  ClosedSafely
PROPERTIES
  Exits
  RevokedStops
CHECK_DEADLOCK FALSE
