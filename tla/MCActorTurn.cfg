\* Three calls in batches of up to three, two prompts and two other
\* inputs.  A turn may never come again: the system may stop.
CONSTANTS
  MaxCalls = 3
  MaxBatch = 3
  MaxPrompts = 2
  ArchiveFails = TRUE
  MaxInputs = 2
SPECIFICATION Spec
INVARIANTS
  HistoryIsPaired
  ApprovedRunsOnce
CHECK_DEADLOCK FALSE
