SPECIFICATION Spec
CONSTANTS
  d1 = d1
  d2 = d2
  d3 = d3
  p1 = p1
  p2 = p2
  DiddiGo = {d1, d2, d3}
  Registrant = {r1, r2}
  Phone = {p1, p2}
  NoId = none
  NoPhone = none
  FirstRows <- MCFirstRows
  MaxChanges = 1
  MaxCrashes = 1
INVARIANT TypeOK
INVARIANT EveryRowAccounted
INVARIANT PhonesAreExclusive
PROPERTY AllOrNothing
PROPERTY SimulationForetells
PROPERTY EverybodyEnds
