\* One root and up to two spawned sessions (siblings or a chain).
CONSTANTS
  s1 = s1
  s2 = s2
  s3 = s3
  Sessions = {s1, s2, s3}
  Roots = {s1}
  NoSession = NoSession
  AnySource = AnySource
  Waiters = {}
  ExitStatuses = {"Success", "Failed", "Cancelled"}
  Running = "Running"
  Interrupts = {"Cancel"}
  Deadlines = {TRUE}
  CommandCap = 2
  MaxInputs = 1
  MaxRounds = 2
SYMMETRY SpawnableSymmetry
SPECIFICATION Spec
INVARIANT NobodyIsStuck
CHECK_DEADLOCK FALSE
