-------------------------------- MODULE Tui --------------------------------
(* The terminal interface (quine-cli tui/app.rs, tui/mod.rs): one event     *)
(* loop that applies, one at a time, the keys of its user and the           *)
(* notifications of the daemon, which wait in a queue (wire) while a key's  *)
(* call to the daemon is under way. What is drawn is left out; of the       *)
(* conversation the assistant's texts are kept. A daemon session is seen by *)
(* what its turns send.                                                     *)
EXTENDS Naturals, Sequences, FiniteSets

CONSTANTS
    TuiSessions, FirstSession,
    TuiBudgets          \* bounds, one of which a behaviour keeps to: what the user
                        \* types, what tools ask, keys (Enter and Esc), turns,
                        \* texts, tool calls, losses of the daemon; and whether
                        \* it runs with --auto-approve (approves)

VARIABLES
    app,
    agent,      \* per session: [made, plan, inbox, turn, text, doing, question, history]
    wire,       \* notifications that the TUI has not applied
    answered,   \* answers given: [asked, picked, got]
    offered,    \* turns whose end offered a plan: [turn, of]
    refused,    \* answers Enter did not take: kinds of the question
    hurried,    \* what the user or the daemon did at a bad moment
    connected,
    spent, limits

tuiVars == <<app, agent, wire, answered, offered, refused, hurried, connected, spent, limits>>

Never == 0
NoAsk == [id |-> Never, kind |-> "none"]
NoText == [id |-> Never, turn |-> Never]
Completions == [id |-> Never, kind |-> "completions"]

(* App::new, reset_for_new_session (which keeps what is typed).             *)
Reset(s, plan, input) ==
    [session |-> s, plan |-> plan, phase |-> "idle", buffer |-> NoText, shown |-> <<>>,
     queue |-> <<>>, select |-> NoAsk, completing |-> "no", input |-> input,
     exit |-> <<>>, said |-> NoText, popup |-> "none", quit |-> FALSE]

NewAgent == [made |-> FALSE, plan |-> FALSE, inbox |-> 0, turn |-> Never, text |-> Never,
             doing |-> "rest", question |-> Never, history |-> <<>>]

TuiInit ==
    /\ agent = [s \in TuiSessions |-> [NewAgent EXCEPT !.made = (s = FirstSession)]]
    /\ app = Reset(FirstSession, FALSE, "")
    /\ wire = <<>> /\ answered = {} /\ offered = {} /\ refused = {} /\ hurried = {}
    /\ connected = TRUE
    /\ limits \in TuiBudgets
    /\ spent = [keys |-> 0, turns |-> 0, texts |-> 0, tools |-> 0, losses |-> 0]

Spend(what) == spent[what] < limits[what] /\ spent' = [spent EXCEPT ![what] = @ + 1]

----------------------------------------------------------------------------
(* The sessions: what a turn sends, in the order of handle_turn.            *)
Notice(s, kind) == [session |-> s, kind |-> kind, text |-> NoText, ask |-> NoAsk, turn |-> agent[s].turn]
TextNotice(s, kind, id) == [Notice(s, kind) EXCEPT !.text = [id |-> id, turn |-> agent[s].turn]]
AskNotice(s, ask) == [Notice(s, "ask") EXCEPT !.ask = ask]

daemonLeaves == <<app, answered, offered, refused, hurried, connected, limits>>

AgentStarts(s) ==
    /\ agent[s].turn = Never /\ agent[s].inbox > 0 /\ Spend("turns")
    /\ agent' = [agent EXCEPT ![s].inbox = @ - 1, ![s].turn = spent'.turns, ![s].doing = "think"]
    /\ wire' = Append(wire, [Notice(s, "streaming") EXCEPT !.turn = spent'.turns])
    /\ UNCHANGED daemonLeaves

AgentStreams(s) ==
    /\ agent[s].doing = "think" /\ agent[s].text = Never /\ Spend("texts")
    /\ agent' = [agent EXCEPT ![s].text = spent'.texts]
    /\ wire' = Append(wire, TextNotice(s, "delta", spent'.texts))
    /\ UNCHANGED daemonLeaves

AtRest(a) == [a EXCEPT !.turn = Never, !.text = Never, !.doing = "rest", !.question = Never]

AgentFinishes(s) ==
    /\ agent[s].doing = "think" /\ agent[s].text # Never
    /\ agent' = [agent EXCEPT ![s] = [AtRest(@) EXCEPT !.history = Append(@, agent[s].text)]]
    /\ wire' = wire \o <<TextNotice(s, "text", agent[s].text), Notice(s, "complete"), Notice(s, "idle")>>
    /\ UNCHANGED <<daemonLeaves, spent>>

(* A failed turn tells of the error and of its end; a text it streamed is   *)
(* not in the history.                                                      *)
AgentFails(s) ==
    /\ agent[s].doing = "think"
    /\ agent' = [agent EXCEPT ![s] = AtRest(@)]
    /\ wire' = wire \o <<Notice(s, "idle"), Notice(s, "error"), Notice(s, "complete")>>
    /\ UNCHANGED <<daemonLeaves, spent>>

Said(s) == IF agent[s].text = Never THEN <<>> ELSE <<agent[s].text>>

AgentCallsTool(s, kind) ==
    /\ agent[s].doing = "think" /\ Spend("tools")
    /\ LET asks == kind # "none"
           id == spent'.tools
           text == IF agent[s].text = Never THEN <<>> ELSE <<TextNotice(s, "text", agent[s].text)>>
           ask == IF asks THEN <<AskNotice(s, [id |-> id, kind |-> kind])>> ELSE <<>>
       IN /\ agent' = [agent EXCEPT ![s].doing = IF asks THEN "ask" ELSE "tool", ![s].text = Never,
                                    ![s].history = @ \o Said(s), ![s].question = IF asks THEN id ELSE Never]
          /\ wire' = wire \o text \o <<Notice(s, "tool")>> \o ask
    /\ UNCHANGED daemonLeaves

AgentToolReturns(s) ==
    /\ agent[s].doing = "tool"
    /\ agent' = [agent EXCEPT ![s].doing = "think"]
    /\ wire' = Append(wire, Notice(s, "result"))
    /\ UNCHANGED <<daemonLeaves, spent>>

AgentCancelled(s) ==
    /\ agent[s].doing = "cancel"
    /\ agent' = [agent EXCEPT ![s] = AtRest(@)]
    /\ wire' = wire \o <<Notice(s, "idle"), Notice(s, "complete")>>
    /\ UNCHANGED <<daemonLeaves, spent>>

LoseDaemon ==
    /\ connected /\ Spend("losses")
    /\ connected' = FALSE
    /\ agent' = [s \in TuiSessions |-> AtRest(agent[s])]
    /\ UNCHANGED <<app, wire, answered, offered, refused, hurried, limits>>

----------------------------------------------------------------------------
(* App::apply_notification. *)
Flush(a) ==
    IF a.buffer = NoText THEN a
    ELSE [a EXCEPT !.shown = Append(@, a.buffer.id), !.said = a.buffer, !.buffer = NoText]

\* Mutant: the streamed text stays in the buffer when the whole text arrives.
TextCompleteKeepsBuffer(a, text) == [a EXCEPT !.shown = Append(@, text.id), !.said = text]

TextComplete(a, text) == [a EXCEPT !.shown = Append(@, text.id), !.said = text, !.buffer = NoText]

InteractionNeeded(a, ask) ==
    [a EXCEPT !.queue = Append(@, ask), !.select = IF ask.kind = "free" THEN NoAsk ELSE ask]

ToolRequested(a) == [Flush(a) EXCEPT !.phase = "tool"]
ToolReturned(a) == [a EXCEPT !.phase = IF @ = "tool" THEN "thinking" ELSE @]
TurnOver(a) == [Flush(a) EXCEPT !.phase = "idle"]
Failed(a) == TurnOver(a)

StateTold(a, state) ==
    [a EXCEPT !.phase = IF state = "idle" THEN "idle" ELSE IF a.buffer = NoText THEN "thinking" ELSE "streaming"]

Apply(a, n) ==
    CASE n.kind = "delta" -> [a EXCEPT !.phase = "streaming", !.buffer = n.text]
      [] n.kind = "text" -> TextComplete(a, n.text)
      [] n.kind = "tool" -> ToolRequested(a)
      [] n.kind = "result" -> ToolReturned(a)
      [] n.kind = "complete" -> TurnOver(a)
      [] n.kind = "error" -> Failed(a)
      [] n.kind \in {"streaming", "idle"} -> StateTold(a, n.kind)
      [] n.kind = "ask" -> InteractionNeeded(a, n.ask)

(* A turn that ended in plan mode with a text offers it as the final plan.  *)
RequestPlanExit(a) == IF a.said = NoText THEN a ELSE [a EXCEPT !.exit = <<a.said>>]

RecvNotification ==
    /\ ~app.quit /\ wire # <<>>
    /\ LET n == Head(wire)
           own == n.session = app.session
           approves == own /\ n.kind = "ask" /\ limits.approves /\ n.ask.kind = "permission"
           ends == app.plan /\ n.kind = "complete"
           next == Apply(app, n)
       IN /\ app' = IF approves /\ ~connected THEN [app EXCEPT !.quit = TRUE]
                    ELSE IF ~own \/ approves THEN app ELSE IF ends THEN RequestPlanExit(next) ELSE next
          /\ offered' = IF own /\ ends /\ next.said # NoText
                        THEN offered \cup {[turn |-> n.turn, of |-> next.said.turn]} ELSE offered
          /\ agent' = IF approves /\ agent[n.session].doing = "ask"
                      THEN [agent EXCEPT ![n.session].doing = "think", ![n.session].question = Never] ELSE agent
          /\ hurried' = hurried \cup
                (IF own /\ ~approves /\ n.kind = "ask" /\ app.completing # "no" THEN {"crowded"} ELSE {})
    /\ wire' = Tail(wire)
    /\ UNCHANGED <<answered, refused, connected, spent, limits>>

ConnectionLost ==
    /\ ~app.quit /\ ~connected /\ wire = <<>> /\ app.phase # "idle"
    /\ app' = [app EXCEPT !.phase = "idle"]
    /\ UNCHANGED <<agent, wire, answered, offered, refused, hurried, connected, spent, limits>>

----------------------------------------------------------------------------
(* The keys. *)
Selecting == app.select # NoAsk /\ app.completing = "no"
Editing == ~app.quit /\ app.popup = "none" /\ ~Selecting

(* A completion takes the place of the options of a question, and those of *)
(* a question that of a completion's.                                       *)
CompletionOf(text) ==
    CASE text = "/switch" -> "target"
      [] text \in {"/context", "/ps", "/clear", "/state"} -> "slash"
      [] OTHER -> "no"

TypeText(text) ==
    /\ Editing /\ app.input = ""
    /\ LET kind == CompletionOf(text)
       IN app' = [app EXCEPT !.input = text, !.completing = kind,
                             !.select = IF kind = "no" THEN NoAsk ELSE Completions]
    /\ UNCHANGED <<agent, wire, answered, offered, refused, hurried, connected, spent, limits>>

keyLeaves == <<offered, connected, limits>>
Stays == UNCHANGED <<agent, wire, answered, refused, hurried>>

(* Enter first takes what is completed. *)
AcceptCompletion ==
    /\ Editing /\ app.completing # "no" /\ app.select # NoAsk /\ Spend("keys")
    /\ app' = [app EXCEPT !.completing = "no", !.select = NoAsk]
    /\ Stays /\ UNCHANGED keyLeaves

Submits ==
    /\ ~app.quit /\ app.popup = "none" /\ Spend("keys")
    /\ app.completing = "no" \/ (app.completing = "slash" /\ app.select = NoAsk)

(* submit_input, a question pending: only options that are shown are taken. *)
FrontQuestion == Head(app.queue)
Answered(a) == [a EXCEPT !.queue = Tail(@), !.select = NoAsk]

SubmitOption ==
    /\ Submits /\ app.queue # <<>> /\ app.select # NoAsk
    /\ app' = Answered(app)
    /\ LET s == app.session
       IN /\ answered' = IF connected
                         THEN answered \cup {[asked |-> FrontQuestion.id, picked |-> app.select.id, got |-> agent[s].question]}
                         ELSE answered
          /\ agent' = IF connected /\ agent[s].doing = "ask"
                      THEN [agent EXCEPT ![s].question = Never, ![s].doing = "think"] ELSE agent
    /\ UNCHANGED <<wire, refused, hurried, keyLeaves>>

(* "Other...", which closes the options; and Enter with none shown.         *)
SubmitNothing ==
    /\ Submits /\ app.queue # <<>>
    /\ app.select = NoAsk \/ app.select.kind = "other"
    /\ app' = [app EXCEPT !.select = NoAsk]
    /\ refused' = IF app.select = NoAsk /\ app.input # "" THEN refused \cup {FrontQuestion.kind} ELSE refused
    /\ UNCHANGED <<agent, wire, answered, hurried, keyLeaves>>

Composing == Submits /\ app.queue = <<>> /\ app.input # ""
Cleared == [app EXCEPT !.input = "", !.select = NoAsk, !.completing = "no"]

ConfirmPlanExit ==
    /\ Composing /\ app.exit # <<>>
    /\ app.input = "yes" => Head(app.exit) # NoText
    /\ app' = CASE app.input = "yes" -> IF connected THEN [Cleared EXCEPT !.exit = <<>>, !.plan = FALSE, !.phase = "idle"]
                                                     ELSE [Cleared EXCEPT !.exit = <<>>, !.phase = "idle"]
                [] app.input = "no" -> [Cleared EXCEPT !.exit = <<>>]
                [] OTHER -> Cleared
    /\ agent' = IF connected /\ app.input = "yes" THEN [agent EXCEPT ![app.session].plan = FALSE] ELSE agent
    /\ UNCHANGED <<wire, answered, refused, hurried, keyLeaves>>

(* execute_action. A call that fails on a lost connection settles the phase. *)
Settled(a) == [a EXCEPT !.phase = "idle"]
BeginTurn(a) == [a EXCEPT !.said = NoText]
Sent(a) == IF connected THEN [BeginTurn(a) EXCEPT !.phase = "thinking"] ELSE Settled(BeginTurn(a))

Busy(s) == agent[s].doing # "rest" \/ agent[s].inbox > 0 \/ \E i \in 1..Len(wire) : wire[i].session = s

SendMessage ==
    /\ Composing /\ app.exit = <<>>
    /\ app.input \in {"message", "yes", "no"} \/ (app.input = "/plan x" /\ app.plan)
    /\ app' = Sent(Cleared)
    /\ agent' = IF connected THEN [agent EXCEPT ![app.session].inbox = @ + 1] ELSE agent
    /\ hurried' = hurried \cup (IF Busy(app.session) THEN {"overtyped"} ELSE {})
    /\ UNCHANGED <<wire, answered, refused, keyLeaves>>

Runs(command) ==
    /\ Composing
    /\ \/ app.exit = <<>> /\ app.input = command
       \/ app.exit = <<NoText>> /\ app.input = "yes" /\ command = "/skill x"

(* /plan and /skill create a session and send its first message.            *)
StartSession(s, command) ==
    /\ ~app.plan \/ (command = "/skill x" /\ app.exit # <<>>)
    /\ Runs(command) /\ connected /\ ~agent[s].made
    /\ LET plan == command = "/plan x"
       IN /\ app' = Sent(Reset(s, plan, ""))
          /\ agent' = [agent EXCEPT ![s].made = TRUE, ![s].plan = plan, ![s].inbox = 1]
    /\ UNCHANGED <<wire, answered, refused, hurried, keyLeaves>>

UnknownSkill == Settled(Cleared)

(* A skill the daemon did not list, or a session that is not created.       *)
StartFails ==
    /\ Runs("/skill x") \/ (Runs("/plan x") /\ ~app.plan /\ ~connected)
    /\ app.input = "/skill x" => ~app.plan
    /\ app' = [UnknownSkill EXCEPT !.exit = <<>>]
    /\ Stays /\ UNCHANGED keyLeaves

AskBeforeSkill ==
    /\ Runs("/skill x") /\ app.plan /\ app.exit = <<>>
    /\ app' = [Cleared EXCEPT !.exit = <<NoText>>]
    /\ Stays /\ UNCHANGED keyLeaves

ClearSession(s) ==
    /\ Runs("/clear") /\ connected /\ ~agent[s].made
    /\ app' = Reset(s, FALSE, "")
    /\ agent' = [agent EXCEPT ![s].made = TRUE]
    /\ UNCHANGED <<wire, answered, refused, hurried, keyLeaves>>

(* The TUI leaves with the error. *)
ClearFails ==
    /\ Runs("/clear") /\ ~connected
    /\ app' = [Cleared EXCEPT !.quit = TRUE]
    /\ Stays /\ UNCHANGED keyLeaves

PhaseOf(s) ==
    CASE agent[s].doing \in {"think", "cancel"} -> "streaming"
      [] agent[s].doing \in {"tool", "ask"} -> "thinking"
      [] OTHER -> "idle"

(* load_session_context: the snapshot's history is the conversation now.    *)
(* Notifications from before it may still be on their way.                  *)
LoadSessionContext(a, s) ==
    [a EXCEPT !.session = s, !.plan = agent[s].plan, !.shown = agent[s].history, !.popup = "none", !.phase = PhaseOf(s)]

LoadedEarly(s) == IF \E i \in 1..Len(wire) : wire[i].session = s /\ wire[i].text # NoText THEN {"reloaded"} ELSE {}

SwitchSession(s) ==
    /\ Runs("/switch") /\ agent[s].made
    /\ IF connected
       THEN /\ app' = LoadSessionContext(Reset(s, agent[s].plan, ""), s)
            /\ hurried' = hurried \cup LoadedEarly(s)
       ELSE app' = Cleared /\ UNCHANGED hurried
    /\ UNCHANGED <<agent, wire, answered, refused, keyLeaves>>

OpenPopup(a, popup) == IF connected THEN [a EXCEPT !.popup = popup] ELSE a

(* They settle the phase, whatever the session does; /compact and /loop do  *)
(* as /model does.                                                          *)
ShowSomething ==
    /\ \/ Runs("/context") /\ app' = Settled(OpenPopup(Cleared, "context"))
       \/ Runs("/ps") /\ app' = Settled(OpenPopup(Cleared, "ps"))
       \/ Runs("/state") /\ app' = Settled(OpenPopup(Cleared, IF PhaseOf(app.session) = "idle" THEN "context" ELSE "live"))
       \/ Runs("/model x") /\ app' = Settled(Cleared)
    /\ Stays /\ UNCHANGED keyLeaves

CancelActiveTurn(a) ==
    [a EXCEPT !.phase = "idle", !.buffer = NoText, !.said = NoText, !.queue = <<>>, !.select = NoAsk,
              !.completing = "no", !.exit = <<>>, !.popup = "none"]

PressEsc ==
    /\ ~app.quit /\ Spend("keys")
    /\ \/ /\ app.popup # "none"
          /\ app' = [app EXCEPT !.popup = "none"]
          /\ UNCHANGED <<agent, hurried>>
       \/ /\ app.popup = "none" /\ Selecting
          /\ app' = [app EXCEPT !.select = NoAsk]
          /\ UNCHANGED <<agent, hurried>>
       \/ /\ Editing /\ app.phase = "idle"
          /\ app' = Settled(OpenPopup(app, "unwind"))
          /\ UNCHANGED <<agent, hurried>>
       \/ /\ Editing /\ app.phase # "idle"
          /\ app' = CancelActiveTurn(app)
          /\ agent' = IF connected /\ agent[app.session].doing # "rest"
                      THEN [agent EXCEPT ![app.session].doing = "cancel", ![app.session].question = Never] ELSE agent
          /\ hurried' = hurried \cup (IF \E i \in 1..Len(wire) : wire[i].kind = "ask" THEN {"crossed"} ELSE {})
    /\ UNCHANGED <<wire, answered, refused, keyLeaves>>

(* Unwinding is refused while the phase is not idle.                        *)
UnwindSession(keep) ==
    /\ ~app.quit /\ app.popup = "unwind" /\ Spend("keys")
    /\ LET s == app.session
           done == connected /\ agent[s].doing = "rest" /\ keep < Len(agent[s].history)
       IN IF app.phase = "idle" /\ done
          THEN /\ agent' = [agent EXCEPT ![s].history = SubSeq(@, 1, keep)]
               /\ app' = [app EXCEPT !.plan = agent[s].plan, !.shown = agent'[s].history, !.popup = "none"]
               /\ hurried' = hurried \cup LoadedEarly(s)
          ELSE /\ app' = [app EXCEPT !.popup = "none"]
               /\ UNCHANGED <<agent, hurried>>
    /\ UNCHANGED <<wire, answered, refused, keyLeaves>>

Quit ==
    /\ Editing /\ Spend("keys")
    /\ app' = [app EXCEPT !.quit = TRUE]
    /\ Stays /\ UNCHANGED keyLeaves

TuiNext ==
    \/ \E s \in TuiSessions :
         \/ AgentStarts(s) \/ AgentStreams(s) \/ AgentFinishes(s) \/ AgentFails(s)
         \/ AgentToolReturns(s) \/ AgentCancelled(s)
         \/ \E kind \in limits.asks : AgentCallsTool(s, kind)
         \/ \E command \in {"/plan x", "/skill x"} : StartSession(s, command)
         \/ ClearSession(s) \/ SwitchSession(s)
    \/ LoseDaemon \/ RecvNotification \/ ConnectionLost
    \/ \E text \in limits.typed : TypeText(text)
    \/ AcceptCompletion \/ SubmitOption \/ SubmitNothing \/ ConfirmPlanExit \/ SendMessage
    \/ StartFails \/ AskBeforeSkill \/ ClearFails \/ ShowSomething \/ PressEsc \/ Quit
    \/ \E keep \in 0..1 : UnwindSession(keep)

TuiSpec == TuiInit /\ [][TuiNext]_tuiVars

(***************************************************************************)
(* A text of the assistant is shown once, whether it was streamed, came in  *)
(* one piece, or was cut off; unless a snapshot was loaded while            *)
(* notifications that it already contains were waiting (apply_notification, *)
(* load_session_context).                                                   *)
TextShownOnce ==
    "reloaded" \notin hurried =>
        \A i, j \in 1..Len(app.shown) : app.shown[i] = app.shown[j] => i = j

(***************************************************************************)
(* An answer is one of the options of the question it is given to, and the  *)
(* session is asking that question; unless a completion shared the options, *)
(* or a cancellation crossed a question (submit_input, cancel_active_turn). *)
AnswersFit ==
    hurried \cap {"crowded", "crossed"} = {} =>
        \A a \in answered : a.asked = a.picked /\ a.got = a.asked

(***************************************************************************)
(* The plan that is offered for confirmation was written by the turn that   *)
(* ended, unless messages were sent while a turn was running (begin_turn,   *)
(* request_plan_exit_confirmation_after_turn_complete).                     *)
OfferedPlanIsFresh == "overtyped" \notin hurried => \A plan \in offered : plan.turn = plan.of

(***************************************************************************)
(* When nothing is under way, the TUI does not look busy (set_phase in      *)
(* apply_notification and execute_action).                                  *)
PhaseSettles ==
    (connected /\ ~Busy(app.session) /\ ~app.quit) => app.phase = "idle"

(***************************************************************************)
(* features/010 and the prompt "[ask_user] >" of input_label: a question    *)
(* without options, or one whose "Other..." was chosen, takes what is typed *)
(* (submit_input).                                                          *)
QuestionsTakeText == refused \cap {"free", "other"} = {}
=============================================================================
