\* Two compactions.
CONSTANTS
  MaxMessages = 5
  MaxCompactions = 2
  MaxUnwinds = 0
  MaxRestarts = 0
  MaxFailures = 0
  MaxIncidents = 0
  CallsMayBeCut = FALSE
SPECIFICATION Spec
INVARIANT
  CompactionLosesNothing
CHECK_DEADLOCK FALSE
