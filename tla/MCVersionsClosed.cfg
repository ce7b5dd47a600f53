\* A version is published while a later one is queued.
SPECIFICATION MCSpec
CONSTANTS
  MaxVersions = 2
  MaxRetries = 0
  MaxCrashes = 0
  Clients = {c1}
  None = None
  NoRow = NoRow
  Requests = {}
  RequestIds = {}
  PlanValues = {}
  Presets = {}
  MaxRevisions = 1
  MaxEdits = 0
  MaxHandled = 0
INVARIANTS
  PublishedIsClosed
CHECK_DEADLOCK FALSE
