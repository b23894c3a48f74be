SPECIFICATION SerialSpec
CONSTANTS
  alice = alice
  root = root
  eve = eve
  nobody = nobody
  Users = {alice, root, eve}
  Nobody = nobody
  Names <- MCNames
  NoName = "-"
  Requests = {r1, r2}
  Calls <- AllCalls
  MaxCalls = 6
  MaxAttempts = 1
  InitRows <- FreshAccount
  InitOtps <- TwoOtps
  InitTokens <- None
  CrashesHappen = FALSE
  RedisFails = FALSE
INVARIANT TypeOK
INVARIANT RegisteredOnce
INVARIANT EventsMatchCommits
INVARIANT SuspendedHasNoSession
INVARIANT OtpOpensOneSession
INVARIANT RotationYieldsOneSuccessor
INVARIANT CacheIsFresh
PROPERTY StatusFollowsTable
PROPERTY AuditTrailIsExact
PROPERTY BurnedCodeOpensNothing
PROPERTY CommandsAreAtomic
CHECK_DEADLOCK FALSE
