SPECIFICATION FairSpec
CONSTANTS
  MaxJobs = 2
  Workers = {w1, w2}
  Keys = {k1}
  NoKey = NoKey
  MaxAttempts = 2
  Lease = 2
  HandlerLimit = 1
  BaseBackoff = 1
  MaxBackoff = 2
  PurgeAge = 1
  MaxTime = 22
  LastArrival = 5
  MaxAbandons = 1
  MaxRetries = 1
INVARIANTS TypeOK NeverShared CopyCurrent OneLivePerKey AttemptsBounded
PROPERTIES ImplementsBoard EventuallySettled
CHECK_DEADLOCK FALSE
