SPECIFICATION Spec
CONSTANTS
  Tickets = {t1}
  MaxRev = 2
  MaxTarget = 2
  MaxCrashes = 1
  Dependencies = TRUE
  Reviews = FALSE
INVARIANTS PublishedWasValidated NoCommitLost ReviewIsPublished
PROPERTIES CrashIsReconciled
