SPECIFICATION Spec
CONSTANTS
  r1 = r1
  r2 = r2
  i1 = i1
  i2 = i2
  web = web
  a1 = a1
  Requests = {r1, r2}
  MaxAttempts = 2
  MaxCuts = 1
  Posts = {1}
  Inboxes = {i1, i2}
  Abroad = i1
  Web = web
  Visibilities = {"public", "followers", "private"}
  Answers = {"abroad"}
  Ceiling = 1
  MaxStamp = 2
  MaxOps = 3
  MaxFollows = 1
  MaxClaims = 3
  MaxEvents = 4
  Offers <- Offered
  Lease = 4
  RenewAt = 3
  MaxTime = 5
  MaxAsks = 3
  MaxOpen = 2
  MaxLost = 1
  MaxNews = 1
  Actors = {a1}
  Types = {"Follow", "Unfollow", "Like", "Unlike", "Create"}
  TTL = 0
  ClockSkew = 1
  Drifts = {0}
  MaxIssued = 2
  MaxRotations = 1
  MaxBlocks = 1
  MaxWait = 1
CONSTRAINT OneEvent
SYMMETRY Symmetry
INVARIANTS Confined PublishingOpen Carried JourneyTells Agreed NothingMissed LeaseKept Acknowledged MatchesWish NotWronged
CHECK_DEADLOCK FALSE
