\* One request of the creator at a time against the coordinator: regeneration,
\* acceptance, cancellation, expiry of the first of two generations of a draft.
SPECIFICATION Spec
CONSTANTS
  Gens = {g1, g2}
  Drafts = {k1}
  Clients = {c1}
  Cost = 5
  InitialCredits = 10
  MaxCrashes = 0
  None = None
INVARIANTS
  TypeOK
  NoLeakedHold
PROPERTIES
  OutcomeIsFinal
SYMMETRY Symmetry
CHECK_DEADLOCK FALSE
