\* Two sessions in each part; a part rests when its bound is reached.
INIT MCInit
NEXT MCNext
CONSTANTS
  Parts = {"providers", "permissions", "plans", "files", "delegation", "memory", "setup"}
  Scripts <- MCScripts
  Fragments = 2
  Sessions = {s1, s2}
  NoSession = NoSession
  Dirs <- MCDirs
  DaemonDir <- MCDaemonDir
  RuleFiles <- MCRuleFiles
  Calls <- MCCalls
  Behaviours = {"interactive", "headless"}
  Cases <- MCCases
  Workers = {w1, w2}
  Scenes <- MCScenes
  Root = root
  Kids = {c1, c2}
  CoreRoom = 2
  Holders = {h1, h2}
  Uses <- MCUses
  MaxEntries = 2
  CharBudget = 12
  Parent = p
  Child = c
  Layouts <- MCLayouts
  AskedFor <- MCAskedFor
  Profiles = {"fast"}
  WebConfigured = TRUE
SYMMETRY Interchangeable
INVARIANTS
  StreamIsFaithful
  RulesAreKept
  PlansAdvance
  ToolsAreWhole
  NoSubagentIsForgotten
  MemoryIsKept
  SetupAgrees
CHECK_DEADLOCK FALSE
