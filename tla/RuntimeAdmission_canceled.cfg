SPECIFICATION Spec
CONSTANTS
  t1 = t1
  t2 = t2
  w1 = w1
  w2 = w2
  Tickets = {t1}
  Workers = {w1}
  MaxAttempts = 1
  MaxCapacity = 1
  MayReusePid = FALSE
PROPERTIES CanceledIsFinal
CHECK_DEADLOCK FALSE
