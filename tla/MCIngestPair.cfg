SPECIFICATION Spec
CONSTANTS
  s1 = s1
  s2 = s2
  k1 = k1
  k2 = k2
  None = None
  Actors = {a1, a2}
  Sources <- MCSources
  Keys <- MCKeys
  Docs <- PlainDocs
  MaxObs = 4
  MaxReadds = 1
  MaxAborts = 1
INVARIANTS WinnerStands EvidenceKept
CHECK_DEADLOCK FALSE
SYMMETRY Symmetry
