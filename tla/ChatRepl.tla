------------------------------ MODULE ChatRepl ------------------------------
(* `quine chat` (quine-cli chat.rs, session.rs): a prompt that sends one    *)
(* line at a time and then reads notifications, which are told apart by     *)
(* their session and not by their turn, until a turn is over.               *)
EXTENDS Naturals, Sequences

CONSTANTS
    ChatSessions,
    ChatBudgets     \* bounds, one of which a behaviour keeps to: what is typed,
                    \* lines, questions, turns that other clients or jobs start
                    \* (foreign), losses of the daemon; and --auto-approve (approves)

VARIABLES
    chat,           \* [at, session, plan, waits, text]
    daemonSession,  \* [made, plan, inbox, turn, wrote, asks]
    unread,         \* notifications that the chat has not read
    ends,           \* prompts that came back: [waited, by, text]
    used, bound     \* what was spent of the budget

chatVars == <<chat, daemonSession, unread, ends, used, bound>>

Foreign == 0        \* the turn of a message that this chat did not send
NoTurn == 1000

Uses(what) == used[what] < bound[what] /\ used' = [used EXCEPT ![what] = @ + 1]

(* A new session, or one that is resumed and may be in the middle of a turn. *)
NewChatSession == [made |-> FALSE, plan |-> FALSE, inbox |-> <<>>, turn |-> NoTurn, wrote |-> FALSE, asks |-> FALSE]

ChatInit ==
    /\ bound \in ChatBudgets
    /\ used = [lines |-> 0, questions |-> 0, foreign |-> 0, losses |-> 0]
    /\ \E s \in ChatSessions, plan \in BOOLEAN :
         /\ chat = [at |-> "prompt", session |-> s, plan |-> plan, waits |-> NoTurn, text |-> NoTurn]
         /\ daemonSession = [t \in ChatSessions |->
                [NewChatSession EXCEPT !.made = (t = s), !.plan = plan /\ t = s]]
    /\ unread = <<>> /\ ends = {}

----------------------------------------------------------------------------
(* The daemon. *)
Tells(s, kind) == [session |-> s, kind |-> kind, turn |-> daemonSession[s].turn]
Up == used.losses = 0

ForeignMessage(s) ==
    /\ Up /\ daemonSession[s].made /\ Uses("foreign")
    /\ daemonSession' = [daemonSession EXCEPT ![s].inbox = Append(@, Foreign)]
    /\ UNCHANGED <<chat, unread, ends, bound>>

BeginsTurn(s) ==
    /\ Up /\ daemonSession[s].turn = NoTurn /\ daemonSession[s].inbox # <<>>
    /\ daemonSession' = [daemonSession EXCEPT ![s].turn = Head(daemonSession[s].inbox), ![s].inbox = Tail(@), ![s].wrote = FALSE]
    /\ UNCHANGED <<chat, unread, ends, used, bound>>

WritesText(s) ==
    /\ Up /\ daemonSession[s].turn # NoTurn /\ ~daemonSession[s].asks /\ ~daemonSession[s].wrote
    /\ daemonSession' = [daemonSession EXCEPT ![s].wrote = TRUE]
    /\ unread' = Append(unread, Tells(s, "text"))
    /\ UNCHANGED <<chat, ends, used, bound>>

AsksUser(s) ==
    /\ Up /\ daemonSession[s].turn # NoTurn /\ ~daemonSession[s].asks /\ Uses("questions")
    /\ daemonSession' = [daemonSession EXCEPT ![s].asks = TRUE]
    /\ \E kind \in {"question", "permission"} : unread' = Append(unread, Tells(s, kind))
    /\ UNCHANGED <<chat, ends, bound>>

(* A failed turn tells of its error before its end. *)
FinishesTurn(s, failed) ==
    /\ Up /\ daemonSession[s].turn # NoTurn /\ ~daemonSession[s].asks
    /\ daemonSession' = [daemonSession EXCEPT ![s].turn = NoTurn]
    /\ unread' = unread \o (IF failed THEN <<Tells(s, "error")>> ELSE <<>>) \o <<Tells(s, "complete")>>
    /\ UNCHANGED <<chat, ends, used, bound>>

DaemonLost ==
    /\ Up /\ Uses("losses")
    /\ UNCHANGED <<chat, daemonSession, unread, ends, bound>>

----------------------------------------------------------------------------
(* run_chat. Every line takes one of the chat's lines; a call that fails on *)
(* a lost connection ends the chat.                                         *)
Types(at, line) == chat.at = at /\ line \in bound.typed /\ Uses("lines")
Leaves == chat' = [chat EXCEPT !.at = "gone"]
IfUp(do) == IF Up THEN do ELSE Leaves /\ UNCHANGED daemonSession

Sends(s, plan) ==
    /\ chat' = [chat EXCEPT !.at = "turn", !.session = s, !.plan = plan, !.waits = used'.lines, !.text = NoTurn]
    /\ daemonSession' = [daemonSession EXCEPT ![s].made = TRUE, ![s].plan = plan, ![s].inbox = Append(@, used'.lines)]

SendLine ==
    /\ Types("prompt", "message") \/ (Types("prompt", "/plan x") /\ chat.plan)
    /\ IfUp(Sends(chat.session, chat.plan))
    /\ UNCHANGED <<unread, ends, bound>>

(* /context, /compact, /model: a call and what it answered. An error of     *)
(* /model, and of creating a session, ends the chat too.                    *)
RunCommand ==
    /\ Types("prompt", "command")
    /\ chat' = chat \/ Leaves
    /\ ~Up => chat' # chat
    /\ UNCHANGED <<daemonSession, unread, ends, bound>>

EnterPlanMode(s) ==
    /\ Types("prompt", "/plan x") /\ ~chat.plan /\ ~daemonSession[s].made
    /\ IfUp(Sends(s, TRUE))
    /\ UNCHANGED <<unread, ends, bound>>

(* Without a request the session is only created. *)
CreateSkillSession(s) ==
    \/ Sends(s, FALSE)
    \/ /\ chat' = [chat EXCEPT !.at = "prompt", !.session = s, !.plan = FALSE]
       /\ daemonSession' = [daemonSession EXCEPT ![s].made = TRUE]

StartSkill(s) ==
    /\ Types("prompt", "/skill x") \/ Types("leaveForSkill", "yes")
    /\ chat.at = "prompt" => ~chat.plan
    /\ ~daemonSession[s].made
    /\ IfUp(CreateSkillSession(s))
    /\ UNCHANGED <<unread, ends, bound>>

AskToLeavePlan ==
    /\ Types("prompt", "/skill x") /\ chat.plan
    /\ chat' = [chat EXCEPT !.at = "leaveForSkill"]
    /\ UNCHANGED <<daemonSession, unread, ends, bound>>

(* confirm_plan_exit asks until it is told yes or no. *)
StayInPlanMode ==
    /\ Types("leaveForSkill", "no") \/ Types("leavePlan", "no")
    /\ chat' = [chat EXCEPT !.at = "prompt"]
    /\ UNCHANGED <<daemonSession, unread, ends, bound>>

LeavePlanMode ==
    /\ Types("leavePlan", "yes")
    /\ IfUp(/\ chat' = [chat EXCEPT !.at = "prompt", !.plan = FALSE]
            /\ daemonSession' = [daemonSession EXCEPT ![chat.session].plan = FALSE])
    /\ UNCHANGED <<unread, ends, bound>>

(* /quit, the end of the input, or Ctrl-C, which is not seen while a line   *)
(* is read for a question or a confirmation.                                *)
QuitChat ==
    /\ chat.at \in {"prompt", "turn"}
    /\ Leaves
    /\ UNCHANGED <<daemonSession, unread, ends, used, bound>>

\* Mutant: an error ends the prompt before its turn is complete.
EndsTurnOnError(n) == n.kind \in {"complete", "error"}

EndsTurn(n) == n.kind = "complete"

Approves(n) == n.kind = "permission" /\ bound.approves
Concerns(n) == n.session = chat.session
Continues(s) == [daemonSession EXCEPT ![s].asks = FALSE]

(* The inner loop of run_chat, handle_interaction and handle_notification.  *)
ReadNotification ==
    /\ chat.at = "turn" /\ unread # <<>>
    /\ LET n == Head(unread)
           own == Concerns(n)
           over == own /\ EndsTurn(n)
       IN /\ \/ own /\ Approves(n) /\ IfUp(daemonSession' = Continues(n.session) /\ UNCHANGED chat)
             \/ /\ own /\ n.kind \in {"question", "permission"} /\ ~Approves(n)
                /\ chat' = [chat EXCEPT !.at = "answer"] /\ UNCHANGED daemonSession
             \/ /\ own /\ n.kind = "text"
                /\ chat' = [chat EXCEPT !.text = n.turn] /\ UNCHANGED daemonSession
             \/ /\ over
                /\ chat' = [chat EXCEPT !.at = IF chat.plan /\ chat.text # NoTurn THEN "leavePlan" ELSE "prompt"]
                /\ UNCHANGED daemonSession
             \/ /\ ~own \/ (n.kind = "error" /\ ~over)
                /\ UNCHANGED <<chat, daemonSession>>
          /\ ends' = IF over THEN ends \cup {[waited |-> chat.waits, by |-> n.turn, text |-> chat.text]} ELSE ends
    /\ unread' = Tail(unread)
    /\ UNCHANGED <<used, bound>>

(* Any line answers a question; that the daemon refuses it is only shown.   *)
AnswerQuestion ==
    /\ chat.at = "answer" /\ Uses("lines")
    /\ IfUp(/\ chat' = [chat EXCEPT !.at = "turn"]
            /\ daemonSession' = Continues(chat.session))
    /\ UNCHANGED <<unread, ends, bound>>

NoticeLoss ==
    /\ ~Up /\ unread = <<>> /\ chat.at = "turn"
    /\ Leaves
    /\ UNCHANGED <<daemonSession, unread, ends, used, bound>>

ChatNext ==
    \/ \E s \in ChatSessions :
         \/ ForeignMessage(s) \/ BeginsTurn(s) \/ WritesText(s) \/ AsksUser(s)
         \/ \E failed \in BOOLEAN : FinishesTurn(s, failed)
         \/ EnterPlanMode(s) \/ StartSkill(s)
    \/ DaemonLost \/ SendLine \/ RunCommand \/ AskToLeavePlan \/ StayInPlanMode \/ LeavePlanMode
    \/ QuitChat \/ ReadNotification \/ AnswerQuestion \/ NoticeLoss

ChatSpec == ChatInit /\ [][ChatNext]_chatVars

(***************************************************************************)
(* The prompt comes back when the turn of the line that was sent is over,   *)
(* and the plan it offers to leave with was written by that turn, unless a  *)
(* job or another client started turns of the session (run_chat reads until *)
(* any TurnComplete of its session).                                        *)
PromptEndsWithItsTurn ==
    used.foreign = 0 => \A e \in ends : e.by = e.waited /\ e.text \in {NoTurn, e.waited}
=============================================================================
