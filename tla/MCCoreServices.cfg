SPECIFICATION CoreServicesSpec
CONSTANTS
  Messages = {m1, m2}
  Requests = {r1}
  Targets = {t1}
  Delays = {1}
  Cadences = {Once, 1}
  Once = Once
  InputCap = 2
  MaxTime = 2
  Root = root
  Children = {c1, c2}
  NoChild = NoChild
  MaxAsks = 2
  MaxStops = 1
INVARIANTS AskIsNeverLost KeepsItsBeat
PROPERTY SchedulerServes
CHECK_DEADLOCK FALSE
