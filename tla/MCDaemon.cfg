INIT MCInit
NEXT MCNext
CONSTANTS
  Focuses = {"harness", "ipc", "process", "python"}
  Sessions = {s1, s2}
  NoSession = NoSession
  Nobody = Nobody
  Groups = {g}
  NoGroup = NoGroup
  Models = {m}
  NoModel = NoModel
  Callers = {c1}
  MaxTurns = 1
  MaxCrashes = 1
  Clients = {k1, k2}
  LongLived = {k1}
  Programs <- MCPrograms
  Libraries = {"cli", "sdk"}
  SubscriberRoom = 2
  NotifyRoom = 2
  MaxTimeouts = 1
  Daemons = {d1, d2, d3}
  NoDaemon = NoDaemon
  Launchers = {run, chat}
  Chats = {chat}
  DefaultPath = DefaultPath
  AlreadyRunning = {d1}
  MaxCommands = 2
  MaxVersion = 1
  MaxHangs = 2
  MaxDeaths = 2
  PyCallers = {p1, p2, p3}
  NoCaller = NoCaller
  MaxCancels = 1
  MaxExits = 1
  MaxPrints = 2
  FunctionsRestore = FALSE
SYMMETRY SessionSymmetry
INVARIANTS ListingsAgree RequestsAreAnswered OwnsWhatItSpawned AnswersAreOwn
CHECK_DEADLOCK FALSE
