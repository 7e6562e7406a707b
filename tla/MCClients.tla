------------------------------ MODULE MCClients ------------------------------
(* Instances for TLC of the clients that people talk to: the Telegram       *)
(* plugin (TelegramBridge), the terminal interface (Tui, and what it draws: *)
(* TuiScreen, TuiPanels) and the chat prompt (ChatRepl). Each has a daemon  *)
(* of its own in these models, so a behaviour is one of a single client,    *)
(* chosen at the start.                                                     *)
EXTENDS TelegramBridge, ChatRepl, TLC

CONSTANTS Clients, TuiSessions, FirstSession, TuiBudgets,
    Sizes, MaxEntries, MaxTextSize, MaxEvents,
    Chars, Commands, ModelCommand, Profiles, SwitchCommand, SessionIds, Layouts, Popups, Counts, DetailSize, Label, Options, MaxLine, MaxPresses

VARIABLES
    focus,
    app, agent, wire, answered, offered, refused, hurried, connected, spent, limits,
    view, terminal, mouse, copied, reading, disturbed, events,
    line, past, select, completing, asked, known, popup, window, draft, presses

Terminal == INSTANCE Tui
Screen == INSTANCE TuiScreen WITH app <- view
Panels == INSTANCE TuiPanels

terminalVars == <<app, agent, wire, answered, offered, refused, hurried, connected, spent, limits>>
screenVars == <<view, terminal, mouse, copied, reading, disturbed, events>>
panelVars == <<line, past, select, completing, asked, known, popup, window, draft, presses>>
drawnVars == <<screenVars, panelVars>>

MCInit ==
    /\ focus \in Clients
    /\ TelegramInit /\ Terminal!TuiInit /\ ChatInit /\ Screen!ScreenInit /\ Panels!PanelsInit
    /\ focus # "telegram" => budget = CHOOSE b \in TelegramBudgets : TRUE
    /\ focus # "tui" => limits = CHOOSE b \in TuiBudgets : TRUE
    /\ focus # "chat" => bound = (CHOOSE b \in ChatBudgets : TRUE) /\ chat.session = FirstSession /\ ~chat.plan
    /\ focus # "screen" => terminal = CHOOSE size \in Sizes : TRUE
    /\ focus # "panels" => window = CHOOSE layout \in Layouts : TRUE

MCNext ==
    /\ UNCHANGED focus
    /\ \/ focus = "telegram" /\ TelegramNext /\ UNCHANGED <<terminalVars, chatVars, drawnVars>>
       \/ focus = "tui" /\ Terminal!TuiNext /\ UNCHANGED <<telegramVars, chatVars, drawnVars>>
       \/ focus = "chat" /\ ChatNext /\ UNCHANGED <<telegramVars, terminalVars, drawnVars>>
       \/ focus = "screen" /\ Screen!ScreenNext /\ UNCHANGED <<telegramVars, terminalVars, chatVars, panelVars>>
       \/ focus = "panels" /\ Panels!PanelsNext /\ UNCHANGED <<telegramVars, terminalVars, chatVars, screenVars>>

(* The interface shows no text twice, gives a question one of its options,  *)
(* offers the plan that was just written, and rests when nothing is under   *)
(* way (Tui).                                                               *)
TerminalFollowsSession ==
    Terminal!TextShownOnce /\ Terminal!AnswersFit /\ Terminal!OfferedPlanIsFresh /\ Terminal!PhaseSettles

(* A question without options takes what is typed (Tui). *)
QuestionsTakeText == Terminal!QuestionsTakeText

(* The screen shows the conversation as it is, and what is copied is what   *)
(* was highlighted (TuiScreen).                                             *)
ScreenIsTrue == Screen!ScreenIsCurrent /\ Screen!CopiedWasShown

(* The cursor is where the text goes, what Enter takes is on the screen,    *)
(* and the history gives back what was being typed (TuiPanels).             *)
PanelsAreTrue == Panels!CursorFollowsText /\ Panels!HighlightIsShown /\ Panels!DraftSurvivesHistory

(* What features/007 says of scrolling, and what one would expect of the    *)
(* input box; the code keeps neither, and no run checks them.               *)
ReadingIsNotDisturbed == Screen!ReadingIsNotDisturbed
CursorRowIsDrawn == Panels!CursorRowIsDrawn

----------------------------------------------------------------------------
(* Bounds: the cases of each client, each in a small instance.              *)
Telegrams(sends, questions, failures, restarts) ==
    [updates |-> sends, questions |-> questions, failures |-> failures, restarts |-> restarts]

MCTelegramBudgets == {Telegrams(3, 2, 0, 0), Telegrams(2, 2, 1, 0), Telegrams(2, 0, 0, 1)}

Keys(typed, asks, keys, turns, texts, tools, losses) ==
    [typed |-> typed, asks |-> asks, keys |-> keys, turns |-> turns, texts |-> texts, tools |-> tools,
     losses |-> losses, approves |-> FALSE]

MCTuiBudgets ==
    {Keys({"message"}, {"none", "other"}, 4, 2, 2, 1, 0),
     Keys({"message"}, {"permission", "free"}, 4, 1, 1, 2, 0),
     [Keys({"message"}, {"permission"}, 3, 1, 1, 2, 1) EXCEPT !.approves = TRUE],
     Keys({"/plan x", "message", "yes", "no"}, {}, 4, 2, 1, 0, 0),
     Keys({"message", "/clear", "/switch"}, {"free"}, 5, 1, 1, 0, 0),
     Keys({"message", "/state", "/ps", "/context", "/model x"}, {"none"}, 3, 1, 1, 1, 0),
     Keys({"message", "/plan x", "/skill x", "/clear"}, {"other"}, 2, 1, 1, 1, 1),
     Keys({"/plan x", "/skill x", "yes", "no"}, {"free"}, 4, 1, 1, 0, 0)}

Lines(typed, lines, questions, foreign, approves) ==
    [typed |-> typed, lines |-> lines, questions |-> questions, foreign |-> foreign,
     losses |-> 1, approves |-> approves]

MCChatBudgets ==
    {Lines({"message", "/plan x", "/skill x", "yes", "no", "command"}, 4, 1, 0, FALSE),
     Lines({"message"}, 3, 2, 1, TRUE)}

MCSizes == {[width |-> 1, height |-> 3], [width |-> 2, height |-> 2]}

MCCommands == <<<<"/", "x">>, <<"/", "x", "x">>, <<"/", "/">>>>
MCModelCommand == <<"/", "/">>
MCProfiles == <<<<"x">>, <<"x", "x">>>>
MCSwitchCommand == <<"/", "x">>
MCSessionIds == <<<<"x">>, <<"wide">>>>
MCLayouts == {[width |-> 3, height |-> 8, rows |-> 2], [width |-> 4, height |-> 14, rows |-> 3]}
MCCounts == [history |-> 4, tools |-> 3, skills |-> 1, unwind |-> 4]
MCOptions == <<<<"x">>, <<"x">>, <<"x">>>>

Interchangeable == Permutations(Tasks) \cup Permutations(BotSessions)
=============================================================================
