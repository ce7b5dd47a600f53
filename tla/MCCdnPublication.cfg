\* Two overlapping workers, publications of a creator and of an operator that
\* compete for one video and for the budget of a day.
SPECIFICATION Spec
CONSTANTS
  v1 = v1
  Pubs = {c, a}
  Apks = {}
  Privates = {}
  Refreshes = {}
  Videos = {v1}
  VideoOf <- OneVideo
  CreatorPubs = {c}
  Workers = {w1, w2}
  MaxAttempts = 1
  RoutineBudget = 1
  PriorityReserve = 1
  MaxEvents = 0
  None = None
INVARIANTS
  TypeOK
  OneWarmingGate
PROPERTIES
  GateRefinement
CHECK_DEADLOCK FALSE
