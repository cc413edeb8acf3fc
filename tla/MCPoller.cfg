SPECIFICATION Spec
CONSTANTS
  MaxId = 1
  Feeds = {f1}
  MaxVersion = 1
  Broken = {1}
  IngestFails = TRUE
  Workers = {w1, w2}
  Handlers = {h1}
  Batch = 2
  MinInterval = 3
  MaxInterval = 5
  Patience = 2
  Cadences = {0, 2}
  MaxJitter = 1
  FetchLimit = 1
  MaxLate = 5
  MaxFaults = 2
  MaxCrashes = 0
  MaxSubscriptions = 1
  MaxPushes = 1
  None = None
INVARIANTS TypeOK OneReader Polite BacksOff
SYMMETRY WorkerSymmetry
CHECK_DEADLOCK FALSE
