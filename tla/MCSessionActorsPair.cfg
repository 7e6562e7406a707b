\* A root and one child, waits with and without a deadline; without one only the
\* exit, a message or an input can end the wait.
CONSTANTS
  s1 = s1
  s2 = s2
  Sessions = {s1, s2}
  Roots = {s1}
  NoSession = NoSession
  AnySource = AnySource
  Waiters = {}
  ExitStatuses = {"Success", "Failed", "Cancelled"}
  Running = "Running"
  Interrupts = {"Cancel"}
  Deadlines = {TRUE, FALSE}
  CommandCap = 2
  MaxInputs = 2
  MaxRounds = 3
SPECIFICATION FairSpec
INVARIANTS
  GraphIsTrue
  WakeupsArrive
  InterruptedIsAtRest
  ChildNeverVanishes
PROPERTIES
  WaitChildReturns
  DeferredAreHandled
  ImplementsTree
CHECK_DEADLOCK FALSE
