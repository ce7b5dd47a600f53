\* One worker, one publication and every other kind of outbox row, with two of
\* the events: other enqueues, operator commands, a crash, the next day.
SPECIFICATION LiveSpec
CONSTANTS
  v1 = v1
  Pubs = {a}
  Apks = {k}
  Privates = {r}
  Refreshes = {f}
  Videos = {v1}
  VideoOf <- OneVideo
  CreatorPubs = {}
  Workers = {w1}
  MaxAttempts = 2
  RoutineBudget = 1
  PriorityReserve = 1
  MaxEvents = 2
  None = None
INVARIANTS
  ReleasedIsWarm
PROPERTIES
  GateResolves
CHECK_DEADLOCK FALSE
