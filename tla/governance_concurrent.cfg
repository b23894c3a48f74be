SPECIFICATION Spec
CONSTANTS
  alice = alice
  root = root
  eve = eve
  nobody = nobody
  Users = {alice, root, eve}
  Nobody = nobody
  Names <- MCNames
  NoName = "-"
  Requests = {r1, r2}
  Calls <- GovernanceCalls
  MaxCalls = 4
  MaxAttempts = 2
  InitRows <- TwoPeople
  InitOtps <- None
  InitTokens <- OneToken
  CrashesHappen = TRUE
  RedisFails = TRUE
INVARIANT ProvenanceInv
INVARIANT RolesAreGranted
INVARIANT AuthorityIsGranted
INVARIANT EventsMatchCommits
CHECK_DEADLOCK FALSE
