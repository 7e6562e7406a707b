\* An unwind while a refresh runs.
CONSTANTS
  MaxMessages = 4
  MaxCompactions = 1
  MaxUnwinds = 1
  MaxRestarts = 0
  MaxFailures = 0
  MaxIncidents = 1
  CallsMayBeCut = FALSE
SPECIFICATION Spec
INVARIANT
  NothingComesBack
CHECK_DEADLOCK FALSE
