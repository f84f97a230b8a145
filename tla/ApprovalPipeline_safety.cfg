SPECIFICATION Spec
CONSTANTS
  Stages = {1, 6}
  MaxCalls = 3
  MaxOpen = 2
  MaxRecords = 1
INVARIANTS TypeOK ProposalFollowsEvidence NoRepeatConfirmation AcceptedResultIsOwn HermesToldAfterCleanup
CHECK_DEADLOCK FALSE
