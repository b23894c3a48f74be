SPECIFICATION Spec
CONSTANTS
  alice = alice
  root = root
  eve = eve
  nobody = nobody
  Users = {alice, root, eve}
  Nobody = nobody
  Names <- MCNames
  NoName = "-"
  Requests = {r1, r2}
  Calls <- VerifyCalls
  MaxCalls = 2
  MaxAttempts = 2
  InitRows <- FreshAccount
  InitOtps <- OneOtp
  InitTokens <- None
  CrashesHappen = FALSE
  RedisFails = FALSE
INVARIANT OtpOpensOneSession
CHECK_DEADLOCK FALSE
