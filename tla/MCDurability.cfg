SPECIFICATION LayersSpec
CONSTANTS
  Sessions = {s1, s2}
  Facts = {f1}
  Clients = {r1}
  MaxHistory = 2
  OutputCap = 1
  MaxTurns = 2
  MaxRequests = 1
  MaxFaults = 1
  Checkpoints = {c1, c2, c3}
  NoCheckpoint = NoCheckpoint
  Torn = Torn
  MaxGeneration = 4
SYMMETRY SessionSymmetry
INVARIANT DiskFollowsSessions
PROPERTIES BoundaryNeverRegresses ImplementsStore
CHECK_DEADLOCK FALSE
