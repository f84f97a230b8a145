SPECIFICATION Spec
CONSTANTS
  t1 = t1
  t2 = t2
  w1 = w1
  w2 = w2
  Tickets = {t1, t2}
  Workers = {w1, w2}
  MaxAttempts = 1
  MaxCapacity = 2
  MayReusePid = FALSE
INVARIANTS TypeOK
PROPERTIES CapacityRespected
SYMMETRY Symmetry
CHECK_DEADLOCK FALSE
