SPECIFICATION FairSpec
CONSTANTS
  Workers = {w1, w2}
  MaxLen = 3
  ReadCount = 2
  PendingCount = 3
  InFlight = 2
  Unreadable <- EntryTwo
  MaxEvents = 4
  MaxCrashes = 2
  PublishFails = TRUE
INVARIANT TypeOK
INVARIANT NothingForgotten
PROPERTY ImplementsDelivery
PROPERTY AtLeastOnce
CHECK_DEADLOCK FALSE
