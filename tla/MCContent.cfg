SPECIFICATION Spec
CONSTANTS
  Requests = {r1, r2}
  NoRow = NoRow
  Builders = {w1, w2}
  MaxItems = 3
  MaxTime = 1
  Limit = 1
  Window = 2
  RecentLimit = 2
  Levels = 2
  Quotas <- MCQuotas
  Target = 1
  MaxChanges = 5
  x = x
  y = y
  en = en
  fr = fr
  Texts = {x, y}
  NonEnglish = {y}
  Locales = {en, fr}
  SourceOf <- MCSourceOf
  MaxAttempts = 2
  MaxEdits = 2
  u1 = "u1"
  u2 = "u2"
  u3 = "u3"
  u4 = "u4"
  Urls = {"u1", "u2", "u3", "u4"}
  Approved = {"u1", "u2", "u3"}
  Paths = {"p", "q"}
  Present = {"q"}
  Home <- MCHome
  Kinds <- MCKinds
  Redirects <- MCRedirects
  MaxMentions = 1
  MaxTexts = 3
  c0 = c0
  c1 = c1
  c2 = c2
  m = m
  CycleItems = 2
  CycleChanges = 3
  PoolItems = 2
  PoolChanges = 4
  Attempts = {a1, a2}
  Copies = {c0, c1, c2}
  Uses <- MCUses
  Verdicts <- MCVerdicts
  Capabilities = {m}
  Asked = {}
  MaxBuilds = 3
  Earlier <- MCEarlier
  Titles = {"t1", "t2"}
  MaxPublished = 3
INVARIANTS
  TypeOK
  ScrollIsExact
  PoolsAreWhole
  CountedOnce
  
  AuditIsRight
  PackageIsClosed
  RefusalHasReason
  PreviewIsChecked

  
  
CHECK_DEADLOCK FALSE
