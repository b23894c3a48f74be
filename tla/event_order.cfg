SPECIFICATION Spec
CONSTANTS
  Workers = {w1}
  MaxLen = 3
  ReadCount = 2
  PendingCount = 3
  InFlight = 2
  Unreadable = {}
  MaxEvents = 2
  MaxCrashes = 0
  PublishFails = FALSE
INVARIANT HandledInCommitOrder
CHECK_DEADLOCK FALSE
