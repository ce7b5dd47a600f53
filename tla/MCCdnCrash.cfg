\* One publication, a worker that may die once.
SPECIFICATION LiveSpec
CONSTANTS
  v1 = v1
  Pubs = {a}
  Apks = {}
  Privates = {}
  Refreshes = {}
  Videos = {v1}
  VideoOf <- OneVideo
  CreatorPubs = {}
  Workers = {w1}
  MaxAttempts = 2
  RoutineBudget = 1
  PriorityReserve = 0
  MaxEvents = 1
  None = None
PROPERTIES
  JobsEnd
CHECK_DEADLOCK FALSE
