\* A batch cut by a wait (the shortest way) or an interrupt, and the next model
\* request.  Every result can be archived.
CONSTANTS
  MaxCalls = 2
  MaxBatch = 2
  MaxPrompts = 2
  ArchiveFails = FALSE
  MaxInputs = 1
SPECIFICATION Spec
INVARIANT
  UnansweredNeverReachesProvider
CHECK_DEADLOCK FALSE
