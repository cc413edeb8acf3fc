SPECIFICATION FairSpec
CONSTANTS
  MaxId = 2
  Feeds = {f1, f2}
  MaxVersion = 0
  Broken = {}
  IngestFails = FALSE
  Workers = {w1}
  Handlers = {h1}
  Batch = 1
  MinInterval = 1
  MaxInterval = 1
  Patience = 2
  Cadences = {0}
  MaxJitter = 0
  FetchLimit = 0
  MaxLate = 5
  MaxFaults = 1
  MaxCrashes = 0
  MaxSubscriptions = 1
  MaxPushes = 0
  None = None
PROPERTIES EventuallyPolled
CHECK_DEADLOCK FALSE
