SPECIFICATION FairSpec
CONSTANTS
  alice = alice
  root = root
  eve = eve
  nobody = nobody
  Users = {alice, root, eve}
  Nobody = nobody
  Names <- MCNames
  NoName = "-"
  Requests = {r1, r2}
  Calls <- SessionCalls
  MaxCalls = 4
  MaxAttempts = 2
  InitRows <- UserAndAdmin
  InitOtps <- TwoOtps
  InitTokens <- OneToken
  CrashesHappen = TRUE
  RedisFails = FALSE
INVARIANT AccessTokensAreEarned
INVARIANT SpentCredentialsStaySpent
INVARIANT BurnedAtTheCeiling
PROPERTY EveryRequestEnds
CHECK_DEADLOCK FALSE
