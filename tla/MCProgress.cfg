SPECIFICATION Spec
CONSTANTS
  NoRow = NoRow
  Requests = {r1}
  Gens = {g1}
  Drafts = {k1}
  Clients = {c1}
  Cost = 5
  InitialCredits = 5
  MaxCrashes = 1
  None = None
  MaxUploads = 3
  StoryCuts = {2}
  OssMode = TRUE
  Builders = {w1}
  MaxItems = 2
  MaxTime = 1
  Limit = 1
  Window = 2
  RecentLimit = 2
  Levels = 1
  Quotas <- MCQuotas
  Target = 1
  MaxChanges = 3
  x = x
  y = y
  en = en
  fr = fr
  Texts = {x, y}
  NonEnglish = {y}
  Locales = {en, fr}
  SourceOf <- MCSourceOf
  MaxAttempts = 2
  MaxEdits = 2
PROPERTIES
  HoldResolves
  NormalizationEnds
  EveryItemComesRound
  TextSettles
CHECK_DEADLOCK FALSE
