\* A refresh after a compaction.
CONSTANTS
  MaxMessages = 4
  MaxCompactions = 1
  MaxUnwinds = 0
  MaxRestarts = 0
  MaxFailures = 0
  MaxIncidents = 0
  CallsMayBeCut = FALSE
SPECIFICATION Spec
INVARIANT
  SummaryIsCumulative
CHECK_DEADLOCK FALSE
