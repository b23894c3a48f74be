SPECIFICATION Spec
CONSTANTS
  Account = {1, 2, 3, 4}
  PageSize = 2
  MaxTime = 1
  MaxLeft = 2
INVARIANT TypeOK
INVARIANT PassesOverOnlyWhatMoved
INVARIANT CompleteWalkMeetsEveryone
INVARIANT CountedWalkMissesOnlyTheLate
