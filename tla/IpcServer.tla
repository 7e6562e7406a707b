----------------------------- MODULE IpcServer -----------------------------
(* The daemon's JSON-RPC server (quine-harness server.rs) and its clients:  *)
(* the CLI's IpcClient (client.rs) with the one-shot commands that collect  *)
(* a turn from notifications (run.rs), and the SDK's QuineClient. One       *)
(* session; its turns are numbered in the order their messages are queued.  *)
EXTENDS Naturals, Sequences

CONSTANTS
    Clients,
    Programs,       \* the request sequences that the clients may run, one each
    LongLived,      \* clients that go on after a call has failed
    Libraries,      \* "cli"; "sdk" has one queue for every line it reads
    SubscriberRoom, \* the broadcast channel's capacity (256)
    NotifyRoom,     \* the forwarder's channel to the writer (256)
    MaxTimeouts     \* bound: calls that give up waiting (300 s)

(* What a client of this repository writes is a line with a method and      *)
(* parameters, each of which is there and can be read or not.               *)
Parameters == {"session_id", "content", "target", "source", "name", "payload", "history_index", "response",
               "model_profile", "signal", "parent_id", "task", "delay_secs"}

Methods == {"unknown", "ping", "list_sessions", "list_skills", "shutdown", "create_session",
            "exit_plan_mode", "set_session_model_profile", "send_message", "compact_session",
            "unwind_session", "get_session_context", "cancel", "submit_interaction_response",
            "get_session_log", "spawn_session", "signal_session", "send_ipc_message", "recv_ipc_message",
            "python_exec", "python_list_globals", "python_inspect_global", "schedule_agent", "get_skill"}

RequestLines == [method : Methods, id : Nat, params : [Parameters -> {"good", "absent", "unparsable"}]]

ASSUME IpcAssumption ==
    /\ SubscriberRoom \in Nat \ {0} /\ NotifyRoom \in Nat \ {0}
    /\ Programs \subseteq [Clients -> Seq(RequestLines)]

VARIABLES
    turns,          \* [queued, running, paused, next]: the session's turns
    sent,           \* every event the core has broadcast
    active_turns,   \* the session's entry in the map the connections share
    connection,     \* per client: "none", "open" or "closed"
    forwarder,      \* per connection: [at, next, held], and of what it did: [lagged, foreign]
    notify,         \* per connection: notify_rx
    requests,       \* per connection: request lines not read yet
    wire,           \* per connection: lines written to the client
    response_rx,    \* per client
    notification_rx,\* per client
    client,         \* per client: [library, program, next_id, waiting, turn, end, own]
    timeouts

coreVars == <<turns, sent>>
serverVars == <<active_turns, connection, forwarder, notify, wire>>
clientVars == <<response_rx, notification_rx, client, timeouts>>
ipcVars == <<coreVars, serverVars, clientVars, requests>>

NoTurn == 0

----------------------------------------------------------------------------
(* handle_request. A parameter is "good", "absent" (or of another type) or  *)
(* "unparsable": a string that is no session id, signal or payload.         *)

Lacks(p, names) == \E n \in names : p[n] = "absent"
Unparsable(p, names) == \E n \in names : p[n] = "unparsable"

Checked(p, required, ids) ==
    IF Lacks(p, required) \/ Unparsable(p, ids) THEN "invalid_params" ELSE "call"

SendMessageRequest(p) == Checked(p, {"session_id", "content"}, {"session_id"})
SetModelProfileRequest(p) == Checked(p, {"session_id", "model_profile"}, {"session_id"})
UnwindRequest(p) == Checked(p, {"session_id", "history_index"}, {"session_id"})
InteractionRequest(p) == Checked(p, {"session_id", "response"}, {"session_id"})
ExitPlanModeRequest(p) == Checked(p, {"session_id"}, {"session_id"})
CompactRequest(p) == Checked(p, {"session_id"}, {"session_id"})
ContextRequest(p) == Checked(p, {"session_id"}, {"session_id"})
CancelRequest(p) == Checked(p, {"session_id"}, {"session_id"})
SignalRequest(p) == Checked(p, {"session_id", "signal"}, {"session_id", "signal"})
LogRequest(p) == Checked(p, {"session_id"}, {})
SendIpcRequest(p) == Checked(p, {"target", "content"}, {})
RecvIpcRequest(p) == Checked(p, {"source"}, {})
GetSkillRequest(p) == Checked(p, {"name"}, {})

(* Nothing is required, and what cannot be read falls back to a default. *)
CreateSessionRequest(p) == "call"
SpawnRequest(p) == "call"
PythonExecRequest(p) == Checked(p, {"payload"}, {"payload", "session_id"})
PythonListRequest(p) == Checked(p, {}, {"session_id"})
PythonInspectRequest(p) == Checked(p, {"name"}, {"session_id"})

(* content falls back to task and session_id to parent_id. *)
ScheduleRequest(p) ==
    IF \/ p.session_id # "good" /\ p.parent_id # "good"
       \/ p.content = "absent" /\ p.task = "absent"
       \/ p.delay_secs = "absent"
    THEN "invalid_params" ELSE "call"

Handled(p) ==
    [ping |-> "call", list_sessions |-> "call", list_skills |-> "call", shutdown |-> "call",
     create_session |-> CreateSessionRequest(p), exit_plan_mode |-> ExitPlanModeRequest(p),
     set_session_model_profile |-> SetModelProfileRequest(p), send_message |-> SendMessageRequest(p),
     compact_session |-> CompactRequest(p), unwind_session |-> UnwindRequest(p),
     get_session_context |-> ContextRequest(p), cancel |-> CancelRequest(p),
     submit_interaction_response |-> InteractionRequest(p), get_session_log |-> LogRequest(p),
     spawn_session |-> SpawnRequest(p), signal_session |-> SignalRequest(p),
     send_ipc_message |-> SendIpcRequest(p), recv_ipc_message |-> RecvIpcRequest(p),
     python_exec |-> PythonExecRequest(p), python_list_globals |-> PythonListRequest(p),
     python_inspect_global |-> PythonInspectRequest(p), schedule_agent |-> ScheduleRequest(p),
     get_skill |-> GetSkillRequest(p)]

Decision(request) ==
    IF request.method = "garbled" THEN "parse_error"
    ELSE IF request.method \in DOMAIN Handled(request.params) THEN Handled(request.params)[request.method]
    ELSE "method_not_found"

(* A line that is no request is answered with a null id, here 0. *)
Response(request, outcome, turn) ==
    [kind |-> "response", id |-> IF request.method = "garbled" THEN 0 ELSE request.id,
     outcome |-> outcome, turn |-> turn]

(* What the call does to the turns of the session. A cancel or a signal     *)
(* ends the running turn, as an answer to it does resume a paused one.      *)
Effect(request) ==
    turns' = IF request.method = "send_message"
             THEN [turns EXCEPT !.queued = Append(@, turns.next), !.next = @ + 1]
             ELSE IF request.method \in {"submit_interaction_response", "cancel", "signal_session"}
             THEN [turns EXCEPT !.paused = FALSE]
             ELSE turns

----------------------------------------------------------------------------
IpcInit ==
    /\ turns = [queued |-> <<>>, running |-> NoTurn, paused |-> FALSE, next |-> 1]
    /\ sent = <<>>
    /\ active_turns = NoTurn
    /\ connection = [c \in Clients |-> "none"]
    /\ forwarder = [c \in Clients |-> [at |-> "ended", next |-> 1, held |-> <<>>, lagged |-> FALSE, foreign |-> FALSE]]
    /\ notify = [c \in Clients |-> <<>>]
    /\ requests = [c \in Clients |-> <<>>]
    /\ wire = [c \in Clients |-> <<>>]
    /\ response_rx = [c \in Clients |-> <<>>]
    /\ notification_rx = [c \in Clients |-> <<>>]
    /\ \E library \in [Clients -> Libraries], program \in Programs :
         client = [c \in Clients |-> [library |-> library[c], program |-> program[c], next_id |-> 1, waiting |-> 0,
                                     turn |-> NoTurn, end |-> "running", own |-> TRUE]]
    /\ timeouts = 0

(* The turn of the oldest message starts when no other runs; it may ask its *)
(* user once, and it ends with its TurnComplete.                            *)
Event(kind) == [kind |-> kind, turn |-> turns.running]

TurnStarts ==
    /\ turns.running = NoTurn /\ turns.queued # <<>>
    /\ turns' = [turns EXCEPT !.running = Head(turns.queued), !.queued = Tail(@)]
    /\ sent' = Append(sent, [kind |-> "turn_started", turn |-> Head(turns.queued)])
    /\ UNCHANGED <<serverVars, clientVars, requests>>

SaysMore == \A i \in DOMAIN sent : sent[i].turn = turns.running => sent[i].kind = "turn_started"

TurnGoesOn ==
    /\ turns.running # NoTurn /\ ~turns.paused
    /\ SaysMore
    /\ \E kind \in {"text_complete", "interaction_needed"} :
         /\ sent' = Append(sent, Event(kind))
         /\ turns' = [turns EXCEPT !.paused = (kind = "interaction_needed")]
    /\ UNCHANGED <<serverVars, clientVars, requests>>

TurnEnds ==
    /\ turns.running # NoTurn /\ ~turns.paused
    /\ sent' = Append(sent, Event("turn_complete"))
    /\ turns' = [turns EXCEPT !.running = NoTurn]
    /\ UNCHANGED <<serverVars, clientVars, requests>>

----------------------------------------------------------------------------
(* handle_connection: subscribe, then one task that forwards events and a   *)
(* loop that handles one request at a time.                                 *)
Accept(c) ==
    /\ connection[c] = "none"
    /\ connection' = [connection EXCEPT ![c] = "open"]
    /\ forwarder' = [forwarder EXCEPT ![c].at = "receiving", ![c].next = Len(sent) + 1]
    /\ UNCHANGED <<coreVars, clientVars, requests, active_turns, notify, wire>>

(* A subscriber that fell behind goes on with the oldest event kept. The    *)
(* event is logged before anything else looks at it.                        *)
Oldest(next) == IF Len(sent) + 1 - next > SubscriberRoom THEN Len(sent) + 1 - SubscriberRoom ELSE next

(* core_output_to_notification_with_turn_tracking *)
LabelOf(event) == IF event.kind = "turn_started" THEN event.turn ELSE active_turns
ActiveAfter(event) ==
    IF event.kind = "turn_started" THEN event.turn
    ELSE IF event.kind = "turn_complete" THEN NoTurn ELSE active_turns

Notification(event) == [kind |-> event.kind, id |-> NoTurn, turn |-> LabelOf(event)]

(* (It is noted whether events were skipped, and whether the entry in the   *)
(* map was that of another turn.)                                           *)
TrackTurn(c) ==
    /\ forwarder[c].at = "receiving"
    /\ forwarder[c].next <= Len(sent)
    /\ LET i == Oldest(forwarder[c].next)
       IN /\ forwarder' = [forwarder EXCEPT ![c] =
                [at |-> "sending", next |-> i + 1, held |-> <<Notification(sent[i])>>,
                 lagged |-> forwarder[c].lagged \/ i # forwarder[c].next,
                 foreign |-> forwarder[c].foreign \/ LabelOf(sent[i]) # sent[i].turn]]
          /\ active_turns' = ActiveAfter(sent[i])
    /\ UNCHANGED <<coreVars, clientVars, requests, connection, notify, wire>>

(* The task ends when it finds that the connection is gone. *)
ForwardEvent(c) ==
    /\ forwarder[c].at = "sending"
    /\ connection[c] = "closed" \/ Len(notify[c]) < NotifyRoom
    /\ forwarder' = [forwarder EXCEPT ![c].held = <<>>,
           ![c].at = IF connection[c] = "closed" THEN "ended" ELSE "receiving"]
    /\ notify' = [notify EXCEPT ![c] = IF connection[c] = "closed" THEN @ ELSE @ \o forwarder[c].held]
    /\ UNCHANGED <<coreVars, clientVars, requests, active_turns, connection, wire>>

\* Mutant: each request is handled by a task of its own, so any may be answered first.
ServeRequestInAnyOrder(c) ==
    /\ connection[c] = "open" /\ requests[c] # <<>>
    /\ \E i \in DOMAIN requests[c] :
         /\ wire' = [wire EXCEPT ![c] = Append(@, Response(requests[c][i], "result", NoTurn))]
         /\ requests' = [requests EXCEPT ![c] = SubSeq(@, 1, i - 1) \o SubSeq(@, i + 1, Len(@))]
    /\ UNCHANGED <<turns, sent, clientVars, active_turns, connection, forwarder, notify>>

(* One request at a time, and no notification is written meanwhile. A call  *)
(* may be refused by the service or fail in it.                             *)
ServeRequest(c) ==
    /\ connection[c] = "open" /\ requests[c] # <<>>
    /\ LET request == Head(requests[c])
           Answers(outcome, turn) == wire' = [wire EXCEPT ![c] = Append(@, Response(request, outcome, turn))]
       IN \/ /\ Decision(request) = "call"
             /\ Answers("result", IF request.method = "send_message" THEN turns.next ELSE NoTurn)
             /\ Effect(request)
          \/ /\ Decision(request) = "call"
             /\ Answers("internal_error", NoTurn)
             /\ UNCHANGED turns
          \/ /\ Decision(request) # "call"
             /\ Answers(Decision(request), NoTurn)
             /\ UNCHANGED turns
    /\ requests' = [requests EXCEPT ![c] = Tail(@)]
    /\ UNCHANGED <<sent, clientVars, active_turns, connection, forwarder, notify>>

WriteNotification(c) ==
    /\ connection[c] = "open" /\ notify[c] # <<>>
    /\ wire' = [wire EXCEPT ![c] = Append(@, Head(notify[c]))]
    /\ notify' = [notify EXCEPT ![c] = Tail(@)]
    /\ UNCHANGED <<coreVars, clientVars, requests, active_turns, connection, forwarder>>

----------------------------------------------------------------------------
(* The client's reader task: a line with an id is a response, a line with a *)
(* null id is dropped, the rest are notifications. The SDK keeps them all   *)
(* in one queue.                                                            *)
ReadLine(c) ==
    /\ wire[c] # <<>>
    /\ wire' = [wire EXCEPT ![c] = Tail(@)]
    /\ LET line == Head(wire[c])
       IN /\ response_rx' = IF client[c].library = "sdk" \/ (line.kind = "response" /\ line.id # 0)
                            THEN [response_rx EXCEPT ![c] = Append(@, line)] ELSE response_rx
          /\ notification_rx' = IF client[c].library = "cli" /\ line.kind # "response"
                                THEN [notification_rx EXCEPT ![c] = Append(@, line)] ELSE notification_rx
    /\ UNCHANGED <<coreVars, active_turns, connection, forwarder, notify, requests, client, timeouts>>

Running(c) == connection[c] = "open" /\ client[c].end = "running"

Call(c) ==
    /\ Running(c) /\ client[c].waiting = 0 /\ client[c].program # <<>>
    /\ LET id == client[c].next_id
       IN /\ requests' = [requests EXCEPT ![c] = Append(@, [Head(client[c].program) EXCEPT !.id = id])]
          /\ client' = [client EXCEPT ![c].next_id = id + 1, ![c].waiting = id]
    /\ UNCHANGED <<coreVars, serverVars, response_rx, notification_rx, timeouts>>

(* The next response is taken for the answer. The SDK compares its id. *)
Accepted(c, line) ==
    /\ line.kind = "response" /\ line.outcome = "result"
    /\ client[c].library = "sdk" => line.id = client[c].waiting

Failed(c) == IF c \in LongLived THEN "running" ELSE "failed"

TakeResponse(c) ==
    /\ Running(c) /\ client[c].waiting # 0 /\ response_rx[c] # <<>>
    /\ response_rx' = [response_rx EXCEPT ![c] = Tail(@)]
    /\ LET line == Head(response_rx[c])
       IN client' = [client EXCEPT ![c] =
            [client[c] EXCEPT !.waiting = 0, !.program = Tail(client[c].program),
                      !.turn = IF Accepted(c, line) THEN line.turn ELSE client[c].turn,
                      !.own = client[c].own /\ (Accepted(c, line) => line.id = client[c].waiting),
                      !.end = IF Accepted(c, line) THEN client[c].end ELSE Failed(c)]]
    /\ UNCHANGED <<coreVars, serverVars, requests, notification_rx, timeouts>>

CallTimesOut(c) ==
    /\ Running(c) /\ client[c].waiting # 0
    /\ timeouts < MaxTimeouts
    /\ timeouts' = timeouts + 1
    /\ client' = [client EXCEPT ![c] =
         [client[c] EXCEPT !.waiting = 0, !.program = Tail(client[c].program), !.end = Failed(c)]]
    /\ UNCHANGED <<coreVars, serverVars, requests, response_rx, notification_rx>>

(* A notification without a turn id is of no turn.                          *)
MatchesTurn(c, line) == line.turn = client[c].turn

(* The loop ends at the turn's end, at an error or at a question.           *)
CollectNotification(c) ==
    /\ Running(c) /\ client[c].library = "cli" /\ client[c].program = <<>>
    /\ client[c].turn # NoTurn
    /\ notification_rx[c] # <<>>
    /\ notification_rx' = [notification_rx EXCEPT ![c] = Tail(@)]
    /\ LET line == Head(notification_rx[c])
       IN client' = [client EXCEPT ![c].end =
            IF MatchesTurn(c, line) /\ line.kind = "turn_complete" THEN "collected"
            ELSE IF MatchesTurn(c, line) /\ line.kind = "interaction_needed" THEN "asked"
            ELSE @]
    /\ UNCHANGED <<coreVars, serverVars, requests, response_rx, timeouts>>

(* The command is over: its connection closes. *)
Leave(c) ==
    /\ connection[c] = "open"
    /\ \/ client[c].end # "running"
       \/ client[c].program = <<>> /\ client[c].turn = NoTurn
    /\ connection' = [connection EXCEPT ![c] = "closed"]
    /\ UNCHANGED <<coreVars, clientVars, requests, active_turns, forwarder, notify, wire>>

IpcNext ==
    \/ TurnStarts \/ TurnGoesOn \/ TurnEnds
    \/ \E c \in Clients :
         \/ Accept(c) \/ TrackTurn(c) \/ ForwardEvent(c)
         \/ ServeRequest(c) \/ WriteNotification(c)
         \/ ReadLine(c) \/ Call(c) \/ TakeResponse(c) \/ CallTimesOut(c)
         \/ CollectNotification(c) \/ Leave(c)

IpcSpec == IpcInit /\ [][IpcNext]_ipcVars

----------------------------------------------------------------------------
(* A call that returns a result returns the result of its own request.      *)
(* client.rs call_with_timeout takes the next response for its own.         *)
ResultsAreOwn == \A c \in Clients : client[c].own

(***************************************************************************)
(* Every request is answered, once and in order: of the request lines and   *)
(* the responses to them that are still under way, those further on have    *)
(* the lower ids, no id is missing up to the client's last, and the call    *)
(* that waits made that one (handle_connection against IpcClient). A line   *)
(* that has no id, as a notification, is 0 here.                            *)
Ids(lines) == {lines[i].id : i \in DOMAIN lines} \ {0}
Rising(lines) ==
    \A i, j \in DOMAIN lines : i < j /\ lines[i].id # 0 /\ lines[j].id # 0 => lines[i].id < lines[j].id
AllBelow(lower, upper) == \A m \in lower, n \in upper : m < n
PendingIds(c) == Ids(response_rx[c]) \cup Ids(wire[c]) \cup Ids(requests[c])

AnsweredInOrder ==
    \A c \in Clients : connection[c] = "open" =>
        /\ Rising(response_rx[c]) /\ Rising(wire[c]) /\ Rising(requests[c])
        /\ AllBelow(Ids(response_rx[c]), Ids(wire[c]) \cup Ids(requests[c]))
        /\ AllBelow(Ids(wire[c]), Ids(requests[c]))
        /\ \A id \in PendingIds(c) : id..(client[c].next_id - 1) \subseteq PendingIds(c)
        /\ client[c].waiting # 0 => client[c].waiting = client[c].next_id - 1 /\ client[c].waiting \in PendingIds(c)

(***************************************************************************)
(* A one-shot command does not wait for a turn that is over: when all that  *)
(* was broadcast has been handled, a client that still collects has a turn  *)
(* that has not ended. The turn ids that the connections attach from the    *)
(* map they share (server.rs) are what it goes by; so this needs that the   *)
(* forwarder skipped no event, and found no other turn's entry in the map.  *)
AllHandled(c) ==
    /\ forwarder[c].at = "receiving" /\ forwarder[c].next > Len(sent)
    /\ notify[c] = <<>> /\ wire[c] = <<>> /\ notification_rx[c] = <<>>

Collects(c) ==
    Running(c) /\ client[c].library = "cli" /\ client[c].turn # NoTurn /\ client[c].program = <<>>

EndIsSeen(c) ==
    Collects(c) /\ AllHandled(c) =>
        \A i \in DOMAIN sent : ~(sent[i].kind = "turn_complete" /\ sent[i].turn = client[c].turn)

TurnEndIsSeen == \A c \in Clients : forwarder[c].lagged \/ forwarder[c].foreign \/ EndIsSeen(c)

(* It finds another turn's entry only when there is a second connection, or *)
(* after it has skipped an event.                                           *)
TracksAlone(c) == (\A d \in Clients \ {c} : connection[d] = "none") /\ ~forwarder[c].lagged
LabelsAreOwn == \A c \in Clients : TracksAlone(c) => ~forwarder[c].foreign

(* Not kept: with a second connection, or after a lag, the label may be     *)
(* another one and the end is passed over.                                  *)
EveryEndIsSeen == \A c \in Clients : EndIsSeen(c)

(***************************************************************************)
(* A client gets an answer to each request it sent, and the end of the turn *)
(* it asked for (handle_connection, execute_oneshot).                       *)
RequestsAreAnswered == AnsweredInOrder /\ TurnEndIsSeen /\ LabelsAreOwn
=============================================================================
