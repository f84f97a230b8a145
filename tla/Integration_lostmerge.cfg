SPECIFICATION Spec
CONSTANTS
  Tickets = {t1}
  MaxRev = 1
  MaxTarget = 2
  MaxCrashes = 0
  Dependencies = FALSE
  Reviews = FALSE
INVARIANT MergeOutcomeLands
