SPECIFICATION Spec
CONSTANTS
  MaxId = 1
  Feeds = {f1}
  MaxVersion = 1
  Broken = {}
  IngestFails = FALSE
  Workers = {w1}
  Handlers = {h1}
  Batch = 2
  MinInterval = 2
  MaxInterval = 4
  Patience = 2
  Cadences = {0, 2}
  MaxJitter = 1
  FetchLimit = 1
  MaxLate = 5
  MaxFaults = 2
  MaxCrashes = 0
  MaxSubscriptions = 1
  MaxPushes = 0
  None = None
INVARIANTS FailureShows
CHECK_DEADLOCK FALSE
