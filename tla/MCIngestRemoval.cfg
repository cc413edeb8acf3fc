SPECIFICATION Spec
CONSTANTS
  s1 = s1
  s2 = s2
  k1 = k1
  k2 = k2
  None = None
  Actors = {a1, a2}
  Sources <- MCSources
  Keys <- MCKeys
  Docs <- PlainDocs
  MaxObs = 3
  MaxReadds = 0
  MaxAborts = 0
INVARIANTS KeptIfCarried
CHECK_DEADLOCK FALSE
