SPECIFICATION FairSpec
CONSTANTS
  Phones = {alice}
  Known = {alice}
  Ips = {ip1}
  NoIp = none
  Requests = {r1, r2}
  IpAllowance = 1
  MaxCalls = 3
  CrashesHappen = TRUE
  RedisFails = FALSE
PROPERTY EveryWindowCloses
CHECK_DEADLOCK FALSE
