\* Two overlapping requests of one creator who can pay for one generation.
SPECIFICATION Spec
CONSTANTS
  Gens = {g1, g2, g3}
  Drafts = {k1, k2}
  Clients = {c1, c2}
  Cost = 5
  InitialCredits = 5
  MaxCrashes = 1
  None = None
INVARIANTS
  OverdraftBounded
  OneHoldPerDraft
SYMMETRY Symmetry
CONSTRAINT RequestsOnly
CHECK_DEADLOCK FALSE
