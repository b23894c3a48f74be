SPECIFICATION Spec
CONSTANTS
  alice = alice
  root = root
  eve = eve
  nobody = nobody
  Users = {alice, root, eve}
  Nobody = nobody
  Names <- MCNames
  NoName = "-"
  Requests = {r1}
  Calls <- OnboardingCalls
  MaxCalls = 2
  MaxAttempts = 1
  InitRows <- ApplicantAccount
  InitOtps <- OneOtp
  InitTokens <- None
  CrashesHappen = FALSE
  RedisFails = FALSE
INVARIANT PendingKycHasRequest
CHECK_DEADLOCK FALSE
