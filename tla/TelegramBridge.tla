--------------------------- MODULE TelegramBridge ---------------------------
(* The Telegram plugin (quine-cli plugins/telegram.rs) and one of its       *)
(* chats. Updates are polled in batches and each is handled by a task of    *)
(* its own, so two of them can interleave wherever they await; what a chat  *)
(* is at (its session, the question it shows) is kept in a map behind a     *)
(* lock that is taken anew for each access. A daemon session is a queue of  *)
(* turns that may ask a question; what a reply looks like is left out.      *)
EXTENDS Naturals, Sequences, FiniteSets

CONSTANTS
    BotSessions, NoBotSession,
    Tasks,          \* bound: updates that are handled at the same time
    MaxUpdates,     \* bound: updates that the user sends
    TelegramBudgets \* bounds, one of which a behaviour keeps to: updates,
                    \* questions, failures (of the daemon) and restarts

VARIABLES
    updates,    \* every update so far, [kind, button]; its place is its update_id
    confirmed,  \* those up to here are forgotten by Telegram
    batch,      \* update ids of the last poll that have no task yet
    offset,     \* of the next poll
    handled,    \* per update id: how many tasks it got
    updateTask, \* per task: <<>> or what it is at
    chatState,  \* <<>> or the chat's [session, plan, pending]
    shown,      \* the questions whose buttons the chat got, in that order
    session,    \* per session: [made, plan, queue, running, question]
    answers,    \* what became of answers: [meant, read, got, late]
    overlapped, \* two updates were handled at the same time
    count,      \* [turns, questions, failures, restarts]
    budget

telegramVars == <<updates, confirmed, batch, offset, handled, updateTask, chatState, shown, session,
                  answers, overlapped, count, budget>>

Nothing == 0
NoQuestion == [id |-> Nothing, session |-> NoBotSession, turn |-> Nothing]

Messages == {"text", "clear", "quit", "plan", "skill", "context", "switch", "command", "ignored"}
Callbacks == {"toggle", "select", "submit"}

TelegramInit ==
    /\ updates = <<>> /\ confirmed = 0 /\ batch = <<>> /\ offset = 1
    /\ handled = [u \in 1..MaxUpdates |-> 0]
    /\ updateTask = [t \in Tasks |-> <<>>]
    /\ chatState = <<>> /\ shown = <<>>
    /\ session = [s \in BotSessions |-> [made |-> FALSE, plan |-> FALSE, queue |-> <<>>,
                                      running |-> Nothing, question |-> Nothing]]
    /\ answers = {} /\ overlapped = FALSE
    /\ budget \in TelegramBudgets
    /\ count = [turns |-> 0, questions |-> 0, failures |-> 0, restarts |-> 0]

pollVars == <<updates, confirmed, batch, offset, handled, overlapped, budget>>

(* A button belongs to the message that showed its question; the messages   *)
(* keep their buttons when the question is answered or replaced.            *)
UserSends(kind, button) ==
    /\ Len(updates) < budget.updates
    /\ updates' = Append(updates, [kind |-> kind, button |-> button])
    /\ UNCHANGED <<confirmed, batch, offset, handled, updateTask, chatState, shown, session, answers, overlapped, count, budget>>

Buttons == {shown[i] : i \in DOMAIN shown}
Newest == IF shown = <<>> THEN Nothing ELSE shown[Len(shown)]

(* getUpdates: what is below the offset is forgotten, the rest is returned. *)
(* An error leaves the offset; Telegram may have seen the request.          *)
PollUpdates ==
    /\ batch = <<>>
    /\ LET seen == IF offset - 1 > confirmed THEN offset - 1 ELSE confirmed
       IN /\ seen < Len(updates)
          /\ confirmed' = seen
          /\ \/ batch' = [i \in 1..(Len(updates) - seen) |-> seen + i]
             \/ batch' = <<>> /\ confirmed' # confirmed
    /\ UNCHANGED <<updates, offset, handled, updateTask, chatState, shown, session, answers, overlapped, count, budget>>

Busy == {t \in Tasks : updateTask[t] # <<>>}

\* Mutant: the next poll asks for the last update again.
OffsetKept(id) == id

Offset(id) == id + 1

SpawnUpdateTask(t) ==
    /\ batch # <<>> /\ t \notin Busy
    /\ offset' = Offset(Head(batch))
    /\ batch' = Tail(batch)
    /\ handled' = [handled EXCEPT ![Head(batch)] = @ + 1]
    /\ updateTask' = [updateTask EXCEPT ![t] = [kind |-> updates[Head(batch)].kind, button |-> updates[Head(batch)].button,
                                    at |-> "start", session |-> NoBotSession, turn |-> Nothing, pending |-> NoQuestion, output |-> NoQuestion]]
    /\ overlapped' = (overlapped \/ Busy # {})
    /\ UNCHANGED <<updates, confirmed, chatState, shown, session, answers, count, budget>>

----------------------------------------------------------------------------
(* A task's own steps. *)
At(t, place) == t \in Busy /\ updateTask[t].at = place
Goes(t, change) == updateTask' = [updateTask EXCEPT ![t] = change]
Ends(t) == Goes(t, <<>>)

HasPending == chatState # <<>> /\ chatState.pending # NoQuestion
FreshChat(s, plan) == [session |-> s, plan |-> plan, pending |-> NoQuestion]
Current == IF chatState = <<>> THEN NoBotSession ELSE chatState.session
ToSession(t, s, place) ==
    Goes(t, [updateTask[t] EXCEPT !.at = IF s = NoBotSession THEN "create" ELSE place, !.session = s])

(* handle_message: a text answers the chat's pending question, if it has    *)
(* one, and is a message otherwise.                                         *)
HandleMessage(t) ==
    /\ At(t, "start")
    /\ \/ /\ updateTask[t].kind = "text" /\ HasPending
          /\ Goes(t, [updateTask[t] EXCEPT !.at = "answer", !.pending = chatState.pending])
       \/ /\ updateTask[t].kind = "text" /\ ~HasPending
          /\ Goes(t, [updateTask[t] EXCEPT !.at = "load"])
       \/ /\ updateTask[t].kind = "plan"
          /\ ToSession(t, IF chatState # <<>> /\ chatState.plan THEN Current ELSE NoBotSession, "send")
       \/ updateTask[t].kind \in {"clear", "skill"} /\ Goes(t, [updateTask[t] EXCEPT !.at = "create"])
       \/ updateTask[t].kind = "context" /\ ToSession(t, Current, "show")
       \/ /\ updateTask[t].kind = "switch"
          /\ \E s \in BotSessions : session[s].made /\ ToSession(t, s, "show")
    /\ UNCHANGED <<pollVars, shown, chatState, session, answers, count>>

(* Not from an allowed user, no text; a command that needs a session and    *)
(* changes nothing of the chat (/compact, /model, /loop); an unknown skill  *)
(* or session.                                                              *)
LeaveMessage(t) ==
    /\ At(t, "start")
    /\ updateTask[t].kind \in {"ignored", "command", "skill", "switch"}
    /\ Ends(t)
    /\ UNCHANGED <<pollVars, shown, chatState, session, answers, count>>

Quit(t) ==
    /\ At(t, "start") /\ updateTask[t].kind = "quit"
    /\ chatState' = <<>>
    /\ Ends(t)
    /\ UNCHANGED <<pollVars, shown, session, answers, count>>

(* handle_callback_query: what is read is the question that is pending now; *)
(* the button's message is not looked at, only which option it was, which   *)
(* another question may not have. Toggling an option awaits and writes the  *)
(* pending question back.                                                   *)
HandleCallback(t) ==
    /\ At(t, "start") /\ updateTask[t].kind \in Callbacks
    /\ \/ /\ HasPending
          /\ Goes(t, [updateTask[t] EXCEPT !.pending = chatState.pending,
                         !.at = IF updateTask[t].kind = "toggle" THEN "write" ELSE "answer"])
       \/ /\ HasPending => updateTask[t].kind # "submit" /\ updateTask[t].button # chatState.pending.id
          /\ Ends(t)
    /\ UNCHANGED <<pollVars, shown, chatState, session, answers, count>>

SetPending(pending) == chatState' = IF chatState = <<>> THEN chatState ELSE [chatState EXCEPT !.pending = pending]

WriteSelection(t) ==
    /\ At(t, "write")
    /\ SetPending(updateTask[t].pending)
    /\ Ends(t)
    /\ UNCHANGED <<pollVars, shown, session, answers, count>>

LoadSession(t) ==
    /\ At(t, "load")
    /\ ToSession(t, Current, "send")
    /\ UNCHANGED <<pollVars, shown, chatState, session, answers, count>>

(* A skill's session becomes the chat's only after its first turn. *)
CreateChatSession(t, s) ==
    /\ At(t, "create")
    /\ ~session[s].made
    /\ LET plan == updateTask[t].kind = "plan"
       IN /\ session' = [session EXCEPT ![s].made = TRUE, ![s].plan = plan]
          /\ chatState' = IF updateTask[t].kind = "skill" THEN chatState ELSE FreshChat(s, plan)
    /\ \/ updateTask[t].kind = "clear" /\ Ends(t)
       \/ updateTask[t].kind = "context" /\ ToSession(t, s, "show")
       \/ updateTask[t].kind \notin {"clear", "context"} /\ ToSession(t, s, "send")
    /\ UNCHANGED <<pollVars, shown, answers, count>>

(* The daemon refuses, or cannot be reached. *)
Fails(t) ==
    /\ \E place \in {"create", "send", "show"} : At(t, place)
    /\ count.failures < budget.failures
    /\ count' = [count EXCEPT !.failures = @ + 1]
    /\ Ends(t)
    /\ UNCHANGED <<pollVars, shown, chatState, session, answers>>

(* /context and /switch put a fresh state in place of the chat's, whatever  *)
(* it was waiting for.                                                      *)
ShowSession(t) ==
    /\ At(t, "show")
    /\ chatState' = FreshChat(updateTask[t].session, session[updateTask[t].session].plan)
    /\ Ends(t)
    /\ UNCHANGED <<pollVars, shown, session, answers, count>>

SendMessage(t) ==
    /\ At(t, "send")
    /\ LET turn == count.turns + 1
       IN /\ count' = [count EXCEPT !.turns = turn]
          /\ session' = [session EXCEPT ![updateTask[t].session].queue = Append(@, turn)]
          /\ Goes(t, [updateTask[t] EXCEPT !.at = "collect", !.turn = turn])
    /\ UNCHANGED <<pollVars, shown, chatState, answers>>

(* submit_pending_interaction: nothing in the answer says which question it *)
(* is for, and the session drops one that it did not ask for.               *)
SubmitAnswer(t) ==
    /\ At(t, "answer")
    /\ LET pending == updateTask[t].pending
           s == pending.session
           button == updateTask[t].button
       IN /\ answers' = answers \cup {[meant |-> IF button = Nothing THEN pending.id ELSE button,
                                      read |-> pending.id, got |-> session[s].question,
                                      late |-> button \notin {Nothing, Newest}]}
          /\ session' = [session EXCEPT ![s].question = Nothing]
          /\ Goes(t, [updateTask[t] EXCEPT !.at = "collect", !.session = s, !.turn = pending.turn])
    /\ UNCHANGED <<pollVars, shown, chatState, count>>

CollectFails(t) ==
    /\ At(t, "collect")
    /\ count.failures < budget.failures
    /\ count' = [count EXCEPT !.failures = @ + 1]
    /\ IF updateTask[t].pending # NoQuestion THEN SetPending(updateTask[t].pending) ELSE UNCHANGED chatState
    /\ Ends(t)
    /\ UNCHANGED <<pollVars, shown, session, answers>>

InsertSkillSession(t) ==
    /\ At(t, "insert")
    /\ chatState' = FreshChat(updateTask[t].session, FALSE)
    /\ Goes(t, [updateTask[t] EXCEPT !.at = "prepare"])
    /\ UNCHANGED <<pollVars, shown, session, answers, count>>

(* prepare_oneshot_output: the output's question, or none, is pending now,  *)
(* and its buttons go to the chat.                                          *)
PrepareOutput(t) ==
    /\ At(t, "prepare")
    /\ SetPending(updateTask[t].output)
    /\ shown' = IF updateTask[t].output = NoQuestion THEN shown ELSE Append(shown, updateTask[t].output.id)
    /\ Ends(t)
    /\ UNCHANGED <<pollVars, session, answers, count>>

----------------------------------------------------------------------------
(* The daemon's sessions. What a turn broadcasts reaches the tasks that     *)
(* collect it then; its first question or its end is their output.          *)
Collected(s, turn, output) ==
    [t \in Tasks |->
        IF At(t, "collect") /\ updateTask[t].session = s /\ updateTask[t].turn = turn
        THEN [updateTask[t] EXCEPT !.output = output, !.at = IF updateTask[t].kind = "skill" THEN "insert" ELSE "prepare"]
        ELSE updateTask[t]]

StartTurn(s) ==
    /\ session[s].running = Nothing /\ session[s].queue # <<>>
    /\ session' = [session EXCEPT ![s].running = Head(session[s].queue), ![s].queue = Tail(@)]
    /\ UNCHANGED <<pollVars, shown, updateTask, chatState, answers, count>>

Working(s) == session[s].running # Nothing /\ session[s].question = Nothing

TurnAsks(s) ==
    /\ Working(s) /\ count.questions < budget.questions
    /\ LET id == count.questions + 1
       IN /\ count' = [count EXCEPT !.questions = id]
          /\ session' = [session EXCEPT ![s].question = id]
          /\ updateTask' = Collected(s, session[s].running, [id |-> id, session |-> s, turn |-> session[s].running])
    /\ UNCHANGED <<pollVars, shown, chatState, answers>>

TurnEnds(s) ==
    /\ Working(s)
    /\ session' = [session EXCEPT ![s].running = Nothing]
    /\ updateTask' = Collected(s, session[s].running, NoQuestion)
    /\ UNCHANGED <<pollVars, shown, chatState, answers, count>>

(* The chats and the offset are only in memory. *)
RestartPlugin ==
    /\ count.restarts < budget.restarts
    /\ count' = [count EXCEPT !.restarts = @ + 1]
    /\ updateTask' = [t \in Tasks |-> <<>>]
    /\ chatState' = <<>> /\ batch' = <<>> /\ offset' = 1
    /\ UNCHANGED <<updates, confirmed, handled, shown, session, answers, overlapped, budget>>

TelegramNext ==
    \/ \E kind \in Messages : UserSends(kind, Nothing)
    \/ \E kind \in Callbacks, button \in Buttons : UserSends(kind, button)
    \/ PollUpdates \/ RestartPlugin
    \/ \E t \in Tasks :
         \/ SpawnUpdateTask(t)
         \/ HandleMessage(t) \/ LeaveMessage(t) \/ Quit(t) \/ HandleCallback(t)
         \/ WriteSelection(t) \/ LoadSession(t) \/ Fails(t) \/ ShowSession(t)
         \/ SendMessage(t) \/ SubmitAnswer(t) \/ CollectFails(t)
         \/ InsertSkillSession(t) \/ PrepareOutput(t)
         \/ \E s \in BotSessions : CreateChatSession(t, s)
    \/ \E s \in BotSessions : StartTurn(s) \/ TurnAsks(s) \/ TurnEnds(s)

TelegramSpec == TelegramInit /\ [][TelegramNext]_telegramVars

(***************************************************************************)
(* Polling: an update that Telegram has forgotten was given to a task, and  *)
(* one is handled again only after a restart (run_foreground,               *)
(* run_background: the offset is advanced before the task has done          *)
(* anything, and confirmed by the next poll).                               *)
UpdatesHandledOnce ==
    \A u \in DOMAIN handled :
        /\ u <= confirmed => handled[u] > 0
        /\ handled[u] <= 1 + count.restarts

(***************************************************************************)
(* As long as one update is handled after the other and none fails half     *)
(* way, an answer is taken by the question that the chat showed as pending; *)
(* in particular no text is taken for an answer when nothing is asked any   *)
(* more. A tap answers the question of its button, unless a newer question  *)
(* was shown (submit_pending_interaction against prepare_oneshot_output).   *)
Meets(a) == a.got = a.read /\ (a.read = a.meant \/ a.late)

AnswersMeetTheirQuestion ==
    overlapped \/ count.failures > 0 \/ \A a \in answers : Meets(a)

(* Every message of a chat is handled once, and an answer is given to the   *)
(* question it was meant for, where the code can tell.                      *)
MessagesAreHandled == UpdatesHandledOnce /\ AnswersMeetTheirQuestion

(* What one would expect and the code does not keep: an old button answers  *)
(* no other question than its own.                                          *)
TapsReachTheirQuestion ==
    overlapped \/ count.failures > 0 \/ \A a \in answers : a.got = a.meant
=============================================================================
