-------------------------- MODULE InteractionRouting --------------------------
(***************************************************************************)
(* Questions and permission approvals of a root session and its            *)
(* descendants, from the tool that asks to the client and back             *)
(* (engine.rs:4777-4806, 6059-6103, 6294-6344, 6734-6747, 6920-6944,       *)
(* 7157-7168).                                                             *)
(*                                                                         *)
(* A descendant asks through the core loop, which shows its request under  *)
(* the root session and remembers ONE asking descendant for each root.     *)
(* The client's answer names the root only.  An answer carries, as         *)
(* history, the request it was given to.                                   *)
(***************************************************************************)
EXTENDS Integers, SequencesExt

CONSTANTS
  Root,         \* the root session
  Children,     \* sessions whose chain of parents ends in Root
  NoChild,      \* no entry in pending_child_interactions
  MaxAsks,      \* bound on the requests of all sessions
  MaxStops      \* bound on Cancel and the signals Stop, Term and Kill

ASSUME RoutingAssumption ==
  /\ Root \notin Children /\ NoChild \notin Children \cup {Root}
  /\ MaxAsks \in Nat /\ MaxStops \in Nat

Tree == Children \cup {Root}

VARIABLES
  doing,          \* what each session's actor does
  asks,           \* number of each session's latest request, or 0
  made,           \* requests made so far
  runtime_events, \* ChildInteractionNeeded events, oldest first
  core_input,     \* the core's input channel, oldest first
  pending_child_interactions,  \* the entry of Root
  command_rx,     \* the sessions' command channels
  shown,          \* requests a client shows and has not answered
  stops,          \* Cancels and signals so far
  overlapped,     \* a request was made before another one was settled
  misanswered     \* an approval got an answer that is no choice

channel_vars == <<runtime_events, core_input, command_rx>>
client_vars == <<shown, stops>>
routing_history == <<overlapped, misanswered>>
routing_vars == <<doing, asks, made, pending_child_interactions, channel_vars,
                  client_vars, routing_history>>

\* A request is known by the session that made it and its number.
Interactions == Tree \X (1 .. MaxAsks)

Response(request, valid) ==
  [kind |-> "InteractionResponse", request |-> request, valid |-> valid]

Stop(session) == [kind |-> "Stop", session |-> session]

Answers == {Response(r, v) : r \in Interactions, v \in BOOLEAN}
Commands == Answers \cup {Stop(s) : s \in Tree}

RoutingTypeOK ==
  /\ doing \in [Tree -> {"working", "approval", "question", "idle", "exited"}]
  /\ asks \in [Tree -> 0 .. MaxAsks] /\ made \in 0 .. MaxAsks
  /\ runtime_events \in Seq(Children \X (1 .. MaxAsks))
  /\ core_input \in Seq(Commands)
  /\ pending_child_interactions \in Children \cup {NoChild}
  /\ command_rx \in [Tree -> Seq(Commands)]
  /\ shown \subseteq Interactions
  /\ stops \in 0 .. MaxStops
  /\ overlapped \in BOOLEAN /\ misanswered \in BOOLEAN

RoutingInit ==
  /\ doing = [s \in Tree |-> "working"]
  /\ asks = [s \in Tree |-> 0] /\ made = 0
  /\ runtime_events = <<>> /\ core_input = <<>>
  /\ pending_child_interactions = NoChild
  /\ command_rx = [s \in Tree |-> <<>>]
  /\ shown = {} /\ stops = 0
  /\ overlapped = FALSE /\ misanswered = FALSE

\* InteractionChannel::ask waits for the answer or the cancellation.
Asking(s) == doing[s] \in {"approval", "question"}
Current(s) == <<s, asks[s]>>

\* The answers that are on their way to s, or to the core.
Underway == {i \in DOMAIN core_input :
               core_input[i].kind = "InteractionResponse"}

InFlight(s) == {i \in DOMAIN command_rx[s] :
                  command_rx[s][i].kind = "InteractionResponse"}

\* No request is open, shown or being answered.
Settled ==
  /\ \A s \in Tree : ~ Asking(s) /\ InFlight(s) = {}
  /\ shown = {} /\ runtime_events = <<>> /\ Underway = {}

--------------------------------------------------------------------------------
(* Actors.                                                                 *)

\* emit_interaction_needed, for an approval or for a tool's question.
Ask(s, kind) ==
  /\ doing[s] = "working" /\ made < MaxAsks
  /\ made' = made + 1
  /\ doing' = [doing EXCEPT ![s] = kind]
  /\ asks' = [asks EXCEPT ![s] = made + 1]
  /\ LET request == <<s, made + 1>>
     IN IF s = Root
        THEN shown' = shown \cup {request} /\ UNCHANGED runtime_events
        ELSE /\ runtime_events' = Append(runtime_events, request)
             /\ UNCHANGED shown
  /\ overlapped' = (overlapped \/ ~ Settled)
  /\ UNCHANGED <<core_input, pending_child_interactions, command_rx, stops,
                 misanswered>>

\* A tool call that needs an approval, and the tool ask_user.
AskApproval(s) == Ask(s, "approval")
AskUser(s) == Ask(s, "question")

Received(s, kind) ==
  /\ command_rx[s] # <<>> /\ Head(command_rx[s]).kind = kind
  /\ command_rx' = [command_rx EXCEPT ![s] = Tail(@)]

\* An approval that gets another text than its two choices keeps waiting; a
\* question takes any text.  While a tool runs the answer is put aside, and
\* between turns it is dropped: either way no request gets it.
TakeResponse(s) ==
  /\ Received(s, "InteractionResponse")
  /\ LET response == Head(command_rx[s])
         refused == doing[s] = "approval" /\ ~ response.valid
         accepted == Asking(s) /\ ~ refused
     IN /\ doing' = IF accepted THEN [doing EXCEPT ![s] = "working"] ELSE doing
        /\ misanswered' = (misanswered \/ refused)
  /\ UNCHANGED <<asks, made, runtime_events, core_input,
                 pending_child_interactions,
                 client_vars, overlapped>>

\* Cancel, Stop, Term and Kill end a request with the turn.
TakeStop(s) ==
  /\ Received(s, "Stop")
  /\ doing' = [doing EXCEPT ![s] = IF @ = "exited" THEN @ ELSE "idle"]
  /\ UNCHANGED <<asks, made, runtime_events, core_input,
                 pending_child_interactions,
                 client_vars, routing_history>>

\* A turn ends; a child with nothing to wait for exits, and the core loop
\* forgets its channel.
EndTurn(s) ==
  /\ doing[s] = "working"
  /\ doing' = [doing EXCEPT ![s] = IF s = Root THEN "idle" ELSE "exited"]
  /\ UNCHANGED <<asks, made, pending_child_interactions, channel_vars,
                 client_vars,
                 routing_history>>

\* A user message or a Continue starts another turn.
StartTurn(s) ==
  /\ doing[s] = "idle" /\ command_rx[s] = <<>>
  /\ doing' = [doing EXCEPT ![s] = "working"]
  /\ UNCHANGED <<asks, made, pending_child_interactions, channel_vars,
                 client_vars,
                 routing_history>>

--------------------------------------------------------------------------------
(* Clients.                                                                *)

Answer(request, valid) ==
  /\ request \in shown
  /\ shown' = shown \ {request}
  /\ core_input' = Append(core_input, Response(request, valid))
  /\ UNCHANGED <<doing, asks, made, runtime_events, pending_child_interactions,
                 command_rx, stops, routing_history>>

StopSession(s) ==
  /\ stops < MaxStops
  /\ stops' = stops + 1
  /\ core_input' = Append(core_input, Stop(s))
  /\ UNCHANGED <<doing, asks, made, runtime_events, pending_child_interactions,
                 command_rx, shown, routing_history>>

--------------------------------------------------------------------------------
(* The core loop.                                                          *)

\* The child that asked last is the one that is pending for the root.
Bubble ==
  /\ runtime_events # <<>>
  /\ runtime_events' = Tail(runtime_events)
  /\ pending_child_interactions' = Head(runtime_events)[1]
  /\ shown' = shown \cup {Head(runtime_events)}
  /\ UNCHANGED <<doing, asks, made, core_input, command_rx, stops,
                 routing_history>>

Registered(s) == s # NoChild /\ doing[s] # "exited"

\* The command sent to each session that gets one.
SendTo(targets, command) ==
  command_rx' = [s \in Tree |->
    IF s \in targets /\ Registered(s) THEN Append(command_rx[s], command)
    ELSE command_rx[s]]

\* Mutant: the answer goes to the session it names.
ResponseToNamed == Root

\* Where an answer that names the root goes.
ResponseTarget ==
  IF pending_child_interactions = NoChild THEN Root
  ELSE pending_child_interactions

RouteResponse ==
  /\ core_input # <<>> /\ Head(core_input).kind = "InteractionResponse"
  /\ core_input' = Tail(core_input)
  /\ pending_child_interactions' = NoChild
  /\ SendTo({ResponseTarget}, Head(core_input))
  /\ UNCHANGED <<doing, asks, made, runtime_events, client_vars,
                 routing_history>>

\* A Cancel or signal of the root also ends the remembered request.
RouteStop ==
  /\ core_input # <<>> /\ Head(core_input).kind = "Stop"
  /\ core_input' = Tail(core_input)
  /\ LET target == Head(core_input).session
         child == IF target = Root THEN pending_child_interactions ELSE NoChild
     IN /\ SendTo({target, child}, Head(core_input))
        /\ pending_child_interactions' =
             IF target = Root THEN NoChild ELSE pending_child_interactions
  /\ UNCHANGED <<doing, asks, made, runtime_events, client_vars,
                 routing_history>>

RoutingNext ==
  \/ \E s \in Tree : \/ AskApproval(s) \/ AskUser(s)
                     \/ TakeResponse(s) \/ TakeStop(s)
                     \/ EndTurn(s) \/ StartTurn(s)
                     \/ StopSession(s)
  \/ \E r \in Interactions, v \in BOOLEAN : Answer(r, v)
  \/ Bubble \/ RouteResponse \/ RouteStop

RoutingSpec == RoutingInit /\ [][RoutingNext]_routing_vars

--------------------------------------------------------------------------------
Exists(queue, Is(_)) == \E i \in DOMAIN queue : Is(queue[i])

(* Properties.                                                             *)

\* The way of a request and its answer (emit_interaction_needed, :4786, and
\* the loop's InteractionResponse, :6920): while requests do not overlap and
\* approvals get one of their choices, a session that asks has its request or
\* its answer somewhere on a way that ends at that session, unless a Cancel
\* or signal for it is underway.
AskIsNeverLost ==
  overlapped \/ misanswered \/
  \A s \in Tree : Asking(s) =>
    LET request == Current(s)
        routed == s = Root \/ pending_child_interactions = s
        IsStop(command) == command.kind = "Stop"
        stopping == Exists(command_rx[s], IsStop) \/ Exists(core_input, IsStop)
    IN \/ \E i \in DOMAIN runtime_events : runtime_events[i] = request
       \/ request \in shown /\ (routed \/ stopping)
       \/ routed /\ \E i \in Underway : core_input[i].request = request
       \/ \E i \in InFlight(s) : command_rx[s][i].request = request
       \/ stopping
================================================================================
