SPECIFICATION LiveSpec
CONSTANTS
  t1 = t1
  t2 = t2
  w1 = w1
  w2 = w2
  Tickets = {t1}
  Workers = {w1, w2}
  MaxAttempts = 2
  MaxCapacity = 1
  MayReusePid = TRUE
INVARIANTS OwnershipConsistent HolderUndisturbed
PROPERTIES ImplementsTicketRuns RunEventuallyEnds ResourceEventuallyFreed
CHECK_DEADLOCK FALSE
