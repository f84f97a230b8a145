SPECIFICATION Spec
CONSTANTS
  r1 = r1
  r2 = r2
  q1 = q1
  q2 = q2
  Runners = {r1, r2}
  Requests = {q1, q2}
  MaxAttempts = 2
  MaxFaults = 1
  EvidenceRequired = TRUE
INVARIANTS TypeOK LineageConsistent WaitingApprovalEarned LedgerMatchesAttempt ProgressHonest
SYMMETRY Symmetry
CHECK_DEADLOCK FALSE
