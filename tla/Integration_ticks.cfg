SPECIFICATION FairSpec
CONSTANTS
  Tickets = {t1}
  MaxRev = 1
  MaxTarget = 2
  MaxCrashes = 1
  Dependencies = FALSE
  Reviews = TRUE
INVARIANTS TypeOK
PROPERTIES IntegratingEnds RecordedMergeIsRetried TerminalIsFinal
