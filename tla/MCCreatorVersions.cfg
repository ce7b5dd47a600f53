\* One request at a time against a coordinator that may crash once, over two
\* versions and one retry; and four requests about a Story, of three plans, beside
\* the ticks of its endings.
SPECIFICATION MCSpec
CONSTANTS
  MaxVersions = 2
  MaxRetries = 1
  MaxCrashes = 1
  Clients = {c1}
  None = None
  NoRow = NoRow
  Requests = {r1}
  RequestIds = {q1, q2}
  PlanValues <- MCPlanValues
  Presets = {"tap"}
  MaxRevisions = 2
  MaxEdits = 1
  MaxHandled = 4
INVARIANTS
  PublishedOnce
  StoryIsWhole
SYMMETRY RequestIdsAreNames
CHECK_DEADLOCK FALSE
