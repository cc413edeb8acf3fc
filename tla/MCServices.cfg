SPECIFICATION MCSpec
CONSTANTS
  t1 = t1
  t2 = t2
  o1 = o1
  o2 = o2
  b1 = b1
  k1 = k1
  k2 = k2
  d1 = d1
  d2 = d2
  m1 = m1
  m2 = m2
  None = None
  NoMention = None
  Tabs = {t1, t2}
  Owners = {o1, o2}
  Contents = {k1, k2}
  Size <- Sizes
  MaxCuts = 1
  Browsers = {b1}
  Links = {k1}
  Life = 2
  LinkLife = 1
  Window = 1
  MaxTime = 2
  MaxSessions = 2
  MaxPasswords = 2
  MaxFaults = 1
  Screens = {t1, t2}
  TOTPWindow = 1
  RecoveryCodes = 2
  MaxStep = 2
  MaxSecrets = 2
  Emails = {o1, o2}
  InviteCodes = {k1, k2}
  MaxRestarts = 2
  Calls = {t1, t2, k1}
  People = {m1, m2, b1}
  Names = {"al", "al2", "al22"}
  MaxTries = 2
  Candidate <- Tried
  Hosts = {k1, k2}
  MaxEdits = 2
  MaxRows = 2
  MaxRequests = 5
  Quota = 2
  MaxUploads = 4
  MaxBreaks = 1
  Uploaders = {m1}
  BackupQuota = 3
  BackupUploads = 2
  Takers = {d1, d2}
  MaxTakes = 2
  Insiders = {m1, m2}
  Moderators = {m1}
  Values = {k1}
  Reports = {k2}
  MaxActs = 4
  MaxLost = 1
  Items = {1, 2, 3}
  Feeds = {t1, t2}
  Page = 2
  Dates = 3
  MaxMeanwhile = 1
  Incoming = {k1}
  Outgoing = {k2}
  Requests = {t1, t2}
  MaxAttempts = 2
  MaxReceived = 3
  MaxChanges = 1
  MaxDecisions = 2
  MaxRetries = 1
CONSTRAINT Uncrossed
SYMMETRY Symmetry
INVARIANTS Accounts SecondStep Claims Files Audited SeesAll Unforgotten DecisionStands JourneyAgrees
PROPERTIES OwnHands
CHECK_DEADLOCK FALSE
