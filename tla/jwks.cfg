SPECIFICATION Spec
CONSTANTS
  p1 = p1
  p2 = p2
  t1 = t1
  t2 = t2
  Proc <- MCProc
  Task <- MCTask
  TTL = 1
  MaxFetch = 1
  AccessLifetime = 2
  MaxKid = 3
SYMMETRY Alike
INVARIANT TypeOK
INVARIANT LiveKeysPublished
INVARIANT RefusedOnlyByTheLagging
INVARIANT WithdrawnKeysForgotten
