SPECIFICATION FairSpec
CONSTANTS
  MaxId = 1
  Feeds = {f1}
  MaxVersion = 1
  Broken = {}
  IngestFails = FALSE
  Workers = {w1}
  Handlers = {h1}
  Batch = 2
  MinInterval = 2
  MaxInterval = 2
  Patience = 2
  Cadences = {0}
  MaxJitter = 1
  FetchLimit = 1
  MaxLate = 5
  MaxFaults = 1
  MaxCrashes = 1
  MaxSubscriptions = 1
  MaxPushes = 0
  None = None
PROPERTIES CatchesUp
CHECK_DEADLOCK FALSE
