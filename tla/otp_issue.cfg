SPECIFICATION Spec
CONSTANTS
  Phones = {alice, stranger}
  Known = {alice}
  Ips = {ip1}
  NoIp = none
  Requests = {r1, r2}
  IpAllowance = 2
  MaxCalls = 5
  CrashesHappen = TRUE
  RedisFails = TRUE
SYMMETRY RequestSymmetry
INVARIANT TypeOK
INVARIANT AllowancePerWindow
INVARIANT CodesWhileCooling
CHECK_DEADLOCK FALSE
