\* One publication of a creator, who deletes and restores it while it warms.
SPECIFICATION LiveSpec
CONSTANTS
  v1 = v1
  Pubs = {c}
  Apks = {}
  Privates = {}
  Refreshes = {}
  Videos = {v1}
  VideoOf <- OneVideo
  CreatorPubs = {c}
  Workers = {w1}
  MaxAttempts = 2
  RoutineBudget = 1
  PriorityReserve = 0
  MaxEvents = 0
  None = None
PROPERTIES
  RestoredIsReleased
CHECK_DEADLOCK FALSE
