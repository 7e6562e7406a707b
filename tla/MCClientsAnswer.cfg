INIT MCInit
NEXT MCNext
CONSTANTS
  Clients = {"tui"}
  BotSessions = {s1, s2}
  NoBotSession = NoBotSession
  Tasks = {t1, t2}
  MaxUpdates = 3
  TelegramBudgets <- MCTelegramBudgets
  TuiSessions = {a, b}
  FirstSession = a
  TuiBudgets <- MCTuiBudgets
  ChatSessions = {a, b}
  ChatBudgets <- MCChatBudgets
  Sizes <- MCSizes
  MaxEntries = 3
  MaxTextSize = 2
  MaxEvents = 5
  Chars = {"/", "x", "wide"}
  Commands <- MCCommands
  Layouts <- MCLayouts
  ModelCommand <- MCModelCommand
  Profiles <- MCProfiles
  SwitchCommand <- MCSwitchCommand
  SessionIds <- MCSessionIds
  Popups = {"context", "ps", "unwind"}
  Counts <- MCCounts
  DetailSize = 5
  Label = 2
  Options <- MCOptions
  MaxLine = 4
  MaxPresses = 6
SYMMETRY Interchangeable
INVARIANT QuestionsTakeText
CHECK_DEADLOCK FALSE
