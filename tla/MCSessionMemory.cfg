\* Six messages, a compaction, and an unwind, a crash or a failed write.  A
\* session may rest for ever.
CONSTANTS
  MaxMessages = 6
  MaxCompactions = 1
  MaxUnwinds = 1
  MaxRestarts = 1
  MaxFailures = 1
  MaxIncidents = 1
  CallsMayBeCut = TRUE
SPECIFICATION FairSpec
INVARIANT
  FirstCompactionIsSafe
PROPERTY
  RefreshSettles
CHECK_DEADLOCK FALSE
