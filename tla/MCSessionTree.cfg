\* One waiter and three sessions: chains of two waits, all exits and restores.
CONSTANTS
  s1 = s1
  s2 = s2
  s3 = s3
  w1 = w1
  Sessions = {s1, s2, s3}
  NoSession = NoSession
  Waiters = {w1}
  ExitStatuses = {"Success", "Cancelled"}
  Running = "Running"
SPECIFICATION TreeSpec
INVARIANTS
  TreeTypeOK
  WaitsAcyclic
  NoWaiterLeftBehind
  ParentsAcyclic
  LoopAgrees
PROPERTY
  NotifiedOnce
