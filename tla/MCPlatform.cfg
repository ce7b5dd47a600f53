SPECIFICATION Spec
CONSTANTS
  Requests = {r1, r2}
  NoRow = NoRow
  Procs = {p1, p2}
  Size = 2
  ChunkLimit = 2
  MaxPatches = 3
  MaxCrashes = 1
  NoFile = NoFile
  NoObject = NoObject
  s1 = s1
  s2 = s2
  s3 = s3
  o1 = o1
  o2 = o2
  o3 = o3
  i1 = i1
  i2 = i2
  d1 = d1
  d2 = d2
  k1 = k1
  k2 = k2
  k3 = k3
  k4 = k4
  k5 = k5
  x = x
  y = y
  Sessions = {s1, s2, s3}
  ObjectsOf <- MCObjectsOf
  Images = {i1, i2, d1, d2}
  References = {d1, d2}
  Key <- MCKey
  Declared <- MCDeclared
  Contents = {x, y}
  Trusted = {s2}
  LegacySessions = {s3}
  Finalizers = {f1, f2}
  MaxSessions = 1
  Policies <- MCPolicies
  MaxAccounts = 2
  MaxCodes = 2
  MaxIssued = 2
  Users = {a, b, e}
  Owner = a
  Seeds = {e}
  MaxComments = 2
  MaxRequests = 3
  People = {a, b}
  SeedPeople = {b}
  MaxBegun = 4
  a = a
  b = b
  h1 = h1
  h2 = h2
  h3 = h3
  Creators = {a, b}
  Legacy = {a}
  Handles = {h1, h2, h3}
  AutoHandles <- MCAuto
  Works = {v1, v2}
  Author <- MCAuthor
  Topics = {t1, t2}
  MaxTopics = 2
  MaxParts = 1
  MaxWrites = 4
  Gone = Gone
  Same = Same
  Videos = {v1, v2}
  Accounts = {e}
  Runs = {c1, c2}
  HoursOfDay = 2
  Elapsed <- MCElapsed
  MaxHour = 3
  DailyTotalMax = 1
  PerRun = 2
  LikesPerHour = 1
  LikesPerDay = 2
  CommentsPerHour = 1
  CommentsPerDay = 1
  CommentsPerVideo = 1
  MaxRuns = 3
INVARIANTS
  TypeOK
  StagingIsPrefix
  UploadIsWhole
  ReadyIsStored
  ReferralPaysWhatItPromised
  
  KeyedCommentIsOne
  BlockedDoNotFollow
  ReportIsHeard
  ArchivedIsUnused
  CeilingsHold
PROPERTIES
  ReadyIsKept
  AddressesLast
CHECK_DEADLOCK FALSE
