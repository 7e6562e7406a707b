----------------------------- MODULE SessionActors -----------------------------
(***************************************************************************)
(* crates/quine-core/src/engine.rs: the session actors (SessionActor,      *)
(* lines 4758-6442) and the part of the core event loop that routes        *)
(* commands to them, spawns children and announces their exits             *)
(* (run_core_loop, lines 6708-7263).                                       *)
(*                                                                         *)
(* Concurrency.  Each actor is a task that owns its SessionContext, a      *)
(* bounded command channel and a queue of deferred commands; the core loop *)
(* is another task.  They share the session tree (SessionTree, one write   *)
(* lock per call) and the runtime-event channel.  A step of this module is *)
(* what a task does between two points where another task can affect it:   *)
(* its reads and writes of the tree, its channel receives, and its sends   *)
(* that may block.                                                         *)
(*                                                                         *)
(* A model's answer is a choice: text, an error, or a round of one tool    *)
(* call.  The history a turn builds, batches of several calls, approvals   *)
(* and checkpoints are the business of other modules; here a tool result   *)
(* is only the fact that the turn goes on.                                 *)
(***************************************************************************)
EXTENDS SessionTree, SequencesExt

CONSTANTS
  Roots,        \* sessions created by CreateSession, without a parent
  AnySource,    \* MessageSource::Any of recv_message
  Interrupts,   \* the interrupting inputs a run issues
  Deadlines,    \* may a wait have a timeout_ms: {TRUE}, {FALSE} or both
  CommandCap,   \* capacity of a session's command channel (256 in the code)
  MaxInputs,    \* bound on the inputs the clients and tools issue
  MaxRounds     \* bound on the tool rounds of one session

ASSUME ActorsAssumption ==
  /\ Roots \subseteq Sessions
  /\ AnySource \notin Sessions \cup {NoSession}
  /\ Interrupts \subseteq {"Cancel", "Stop", "Term", "Kill"}
  /\ {"Success", "Failed", "Cancelled"} \subseteq ExitStatuses
  /\ Deadlines \subseteq BOOLEAN /\ Deadlines # {}
  /\ CommandCap \in Nat \ {0}
  /\ MaxInputs \in Nat
  /\ MaxRounds \in Nat

VARIABLES
  registry,           \* sessions whose command sender the core loop holds
  runtime_events,     \* ChildSessionFinished events, oldest first
  announcing,         \* the exit the core loop is broadcasting, and to whom
  command_rx,         \* command channel of each session
  deferred_commands,  \* commands put aside while a turn is in flight
  pc,                 \* where each actor's task is
  state,              \* session.state
  interrupted,        \* session.interrupted
  suspended_wait,     \* session.suspended_wait
  mailbox,            \* senders of the messages in session.mailbox
  checking,           \* the child wait_child found still running
  resumed,            \* the turn was entered by resume_from_wait or ToolResult
  rounds,             \* tool rounds used so far (bounded by MaxRounds)
  inputs              \* inputs issued so far (bounded by MaxInputs)

core_vars == <<registry, runtime_events, announcing>>
turn_vars == <<pc, state, interrupted, suspended_wait, checking, resumed>>
vars == <<tree_vars, core_vars, turn_vars, command_rx, deferred_commands,
          mailbox, rounds, inputs>>

--------------------------------------------------------------------------------
(* Commands, waits and states.                                             *)

Command(kind, about) == [kind |-> kind, about |-> about]

Commands ==
  {Command(k, NoSession) :
     k \in {"UserMessage", "Continue", "ToolResult"} \cup Interrupts}
  \cup {Command(k, s) : k \in {"MailboxMessage", "ChildExited"}, s \in Sessions}

IsInterrupt(command) == command.kind \in Interrupts

NoWait == [kind |-> "none", on |-> NoSession, timed |-> FALSE]

Waits ==
  {NoWait}
  \cup [kind : {"ChildExit"}, on : Sessions, timed : BOOLEAN]
  \cup [kind : {"Mailbox"}, on : Sessions \cup {AnySource}, timed : BOOLEAN]

Places == {"unborn", "ready", "turn", "checked", "tool", "stopped"}

SessionStates == {"Idle", "Streaming", "Waiting", "Destroyed"}

\* Nothing is being announced.
Quiet == [child |-> NoSession, to |-> {}]

TypeOK ==
  /\ TreeTypeOK
  /\ registry \subseteq Sessions
  /\ runtime_events \in Seq([session : Sessions, status : ExitStatuses])
  /\ announcing \in [child : Sessions \cup {NoSession}, to : SUBSET Sessions]
  /\ command_rx \in [Sessions -> Seq(Commands)]
  /\ \A s \in Sessions : Len(command_rx[s]) <= CommandCap
  /\ deferred_commands \in [Sessions -> Seq(Commands)]
  /\ pc \in [Sessions -> Places]
  /\ state \in [Sessions -> SessionStates]
  /\ interrupted \in [Sessions -> BOOLEAN]
  /\ suspended_wait \in [Sessions -> Waits]
  /\ mailbox \in [Sessions -> Seq(Sessions)]
  /\ checking \in [Sessions -> Sessions \cup {NoSession}]
  /\ resumed \in [Sessions -> BOOLEAN]
  /\ rounds \in [Sessions -> 0 .. MaxRounds]
  /\ inputs \in 0 .. MaxInputs

Init ==
  /\ TreeInit
  /\ registry = Roots
  /\ runtime_events = <<>>
  /\ announcing = Quiet
  /\ command_rx = [s \in Sessions |-> <<>>]
  /\ deferred_commands = [s \in Sessions |-> <<>>]
  /\ pc = [s \in Sessions |-> IF s \in Roots THEN "ready" ELSE "unborn"]
  /\ state = [s \in Sessions |-> "Idle"]
  /\ interrupted = [s \in Sessions |-> FALSE]
  /\ suspended_wait = [s \in Sessions |-> NoWait]
  /\ mailbox = [s \in Sessions |-> <<>>]
  /\ checking = [s \in Sessions |-> NoSession]
  /\ resumed = [s \in Sessions |-> FALSE]
  /\ rounds = [s \in Sessions |-> 0]
  /\ inputs = 0

Suspended(s) == suspended_wait[s] # NoWait

WaitsForChild(s, child) ==
  suspended_wait[s].kind = "ChildExit" /\ suspended_wait[s].on = child

\* mailbox_matches_source
MatchesSource(from, source) == source \in {AnySource, from}

\* pop_mailbox_message finds something
HasMessage(s, source) ==
  \E i \in DOMAIN mailbox[s] : MatchesSource(mailbox[s][i], source)

\* what pop_mailbox_message leaves: the first match is removed
PopMessage(messages, source) ==
  RemoveFirstMatch(messages, LAMBDA from : MatchesSource(from, source))

--------------------------------------------------------------------------------
(* Pieces of the handlers.                                                 *)

\* next_command: deferred commands first, then the channel.
HasCommand(s) ==
  pc[s] = "ready" /\ (deferred_commands[s] # <<>> \/ command_rx[s] # <<>>)

NextCommand(s) ==
  IF deferred_commands[s] # <<>> THEN Head(deferred_commands[s])
                                 ELSE Head(command_rx[s])

\* What next_command leaves in the deferred queue and in the channel.
DeferredRest(s) ==
  IF deferred_commands[s] # <<>> THEN Tail(deferred_commands[s]) ELSE <<>>

ChannelRest(s) ==
  IF deferred_commands[s] # <<>> THEN command_rx[s] ELSE Tail(command_rx[s])

TakeCommand(s) ==
  /\ deferred_commands' = [deferred_commands EXCEPT ![s] = DeferredRest(s)]
  /\ command_rx' = [command_rx EXCEPT ![s] = ChannelRest(s)]

\* discard_deferred_user_messages
WithoutUserMessages(commands) ==
  SelectSeq(commands, LAMBDA c : c.kind # "UserMessage")

\* append_suspended_wait_result: the wait is answered and its edge cleared.
\* (The code clears the field and then takes the tree's lock; nobody else
\* reads the field, so the two are one step.)
AppendSuspendedWaitResult(s) ==
  /\ suspended_wait' = [suspended_wait EXCEPT ![s] = NoWait]
  /\ ClearActiveWait(s)

\* resume_from_wait: answer the wait and go on with the turn.
ResumeFromWait(s) ==
  /\ AppendSuspendedWaitResult(s)
  /\ pc' = [pc EXCEPT ![s] = "turn"]
  /\ state' = [state EXCEPT ![s] = "Streaming"]
  /\ resumed' = [resumed EXCEPT ![s] = TRUE]
  /\ UNCHANGED <<interrupted, checking>>

\* Mutant: a child whose turn failed ends without telling the core loop.
FinishTurnQuietly(s, status, channel, deferred) ==
  LET child == parents[s] # NoSession
      stops == child /\ ~ resumed[s]
  IN /\ state' = [state EXCEPT ![s] = IF child THEN "Destroyed" ELSE "Idle"]
     /\ runtime_events' =
          IF child /\ status # "Failed"
          THEN Append(runtime_events, [session |-> s, status |-> status])
          ELSE runtime_events
     /\ pc' = [pc EXCEPT ![s] = IF stops THEN "stopped" ELSE "ready"]
     /\ resumed' = [resumed EXCEPT ![s] = FALSE]
     /\ command_rx' = [command_rx EXCEPT ![s] = IF stops THEN <<>> ELSE channel]
     /\ deferred_commands' =
          [deferred_commands EXCEPT ![s] = IF stops THEN <<>> ELSE deferred]
     /\ UNCHANGED <<registry, announcing, checking>>

\* The end of handle_turn followed by finish_turn.  A root session goes idle.
\* A child is destroyed and reports to the core loop; finish_turn's false
\* makes `run` drop the actor with its channel and deferred commands, except
\* that resume_from_wait and handle_external_tool_result ignore that false
\* and the actor goes back to next_command.
FinishTurn(s, status, channel, deferred) ==
  LET child == parents[s] # NoSession
      stops == child /\ ~ resumed[s]
  IN /\ state' = [state EXCEPT ![s] = IF child THEN "Destroyed" ELSE "Idle"]
     /\ runtime_events' =
          IF child THEN Append(runtime_events, [session |-> s, status |-> status])
                   ELSE runtime_events
     /\ pc' = [pc EXCEPT ![s] = IF stops THEN "stopped" ELSE "ready"]
     /\ resumed' = [resumed EXCEPT ![s] = FALSE]
     /\ command_rx' = [command_rx EXCEPT ![s] = IF stops THEN <<>> ELSE channel]
     /\ deferred_commands' =
          [deferred_commands EXCEPT ![s] = IF stops THEN <<>> ELSE deferred]
     /\ UNCHANGED <<registry, announcing, checking>>

\* TurnOutcome::Suspended: the turn ends with the session waiting.
Suspend(s, wait) ==
  /\ suspended_wait' = [suspended_wait EXCEPT ![s] = wait]
  /\ state' = [state EXCEPT ![s] = "Waiting"]
  /\ pc' = [pc EXCEPT ![s] = "ready"]
  /\ resumed' = [resumed EXCEPT ![s] = FALSE]
  /\ UNCHANGED interrupted

--------------------------------------------------------------------------------
(* An actor between turns: handle_command.                                 *)

\* Mutant: a new user message leaves the interrupt flag of the last turn set.
UserMessageKeepsInterrupt(s) ==
  /\ HasCommand(s)
  /\ NextCommand(s).kind = "UserMessage"
  /\ TakeCommand(s)
  /\ AppendSuspendedWaitResult(s)
  /\ state' = [state EXCEPT ![s] = "Streaming"]
  /\ pc' = [pc EXCEPT ![s] = "turn"]
  /\ UNCHANGED <<core_vars, interrupted, checking, resumed, mailbox, rounds,
                 inputs>>

\* handle_user_message: a suspended wait is answered as cancelled first.
UserMessage(s) ==
  /\ HasCommand(s)
  /\ NextCommand(s).kind = "UserMessage"
  /\ TakeCommand(s)
  /\ \/ Suspended(s) /\ AppendSuspendedWaitResult(s)
     \/ ~ Suspended(s) /\ UNCHANGED <<suspended_wait, tree_vars>>
  /\ interrupted' = [interrupted EXCEPT ![s] = FALSE]
  /\ state' = [state EXCEPT ![s] = "Streaming"]
  /\ pc' = [pc EXCEPT ![s] = "turn"]
  /\ UNCHANGED <<core_vars, checking, resumed, mailbox, rounds, inputs>>

\* interrupt, for Cancel and for the signals Stop, Term and Kill: whatever
\* the session was doing between turns, it ends up idle and marked
\* interrupted, and the prompts queued behind it are thrown away.
InterruptIdle(s) ==
  /\ HasCommand(s)
  /\ IsInterrupt(NextCommand(s))
  /\ AppendSuspendedWaitResult(s)
  /\ command_rx' = [command_rx EXCEPT ![s] = ChannelRest(s)]
  /\ deferred_commands' =
       [deferred_commands EXCEPT ![s] = WithoutUserMessages(DeferredRest(s))]
  /\ interrupted' = [interrupted EXCEPT ![s] = TRUE]
  /\ state' = [state EXCEPT ![s] = "Idle"]
  /\ UNCHANGED <<core_vars, pc, checking, resumed, mailbox, rounds, inputs>>

\* handle_signal(Continue): only the flag; no session is paused between turns.
Continue(s) ==
  /\ HasCommand(s)
  /\ NextCommand(s).kind = "Continue"
  /\ TakeCommand(s)
  /\ interrupted' = [interrupted EXCEPT ![s] = FALSE]
  /\ UNCHANGED <<tree_vars, core_vars, pc, state, suspended_wait, checking,
                 resumed, mailbox, rounds, inputs>>

\* handle_mailbox_message: push, and resume a wait the message matches.
MailboxMessage(s) ==
  LET from == NextCommand(s).about
      wait == suspended_wait[s]
      full == Append(mailbox[s], from)
  IN /\ HasCommand(s)
     /\ NextCommand(s).kind = "MailboxMessage"
     /\ TakeCommand(s)
     /\ \/ /\ wait.kind = "Mailbox" /\ MatchesSource(from, wait.on)
           /\ mailbox' = [mailbox EXCEPT ![s] = PopMessage(full, wait.on)]
           /\ ResumeFromWait(s)
        \/ /\ ~ (wait.kind = "Mailbox" /\ MatchesSource(from, wait.on))
           /\ mailbox' = [mailbox EXCEPT ![s] = full]
           /\ UNCHANGED <<tree_vars, turn_vars>>
     /\ UNCHANGED <<core_vars, rounds, inputs>>

\* handle_child_exited: resumes only the session waiting for that child.
ChildExited(s) ==
  /\ HasCommand(s)
  /\ NextCommand(s).kind = "ChildExited"
  /\ TakeCommand(s)
  /\ \/ /\ WaitsForChild(s, NextCommand(s).about)
        /\ ResumeFromWait(s)
     \/ /\ ~ WaitsForChild(s, NextCommand(s).about)
        /\ UNCHANGED <<tree_vars, turn_vars>>
  /\ UNCHANGED <<core_vars, mailbox, rounds, inputs>>

\* Mutant: a stale tool result is put aside again instead of being dropped.
ToolResultAgain(s) ==
  /\ HasCommand(s)
  /\ NextCommand(s).kind = "ToolResult"
  /\ command_rx' = [command_rx EXCEPT ![s] = ChannelRest(s)]
  /\ deferred_commands' =
       [deferred_commands EXCEPT ![s] = Append(DeferredRest(s), NextCommand(s))]
  /\ UNCHANGED <<tree_vars, core_vars, turn_vars, mailbox, rounds, inputs>>

\* handle_external_tool_result: answers the suspended wait whatever it is.
\* Without one it is stale: no actor is ever in AwaitingToolResult.
ToolResult(s) ==
  /\ HasCommand(s)
  /\ NextCommand(s).kind = "ToolResult"
  /\ TakeCommand(s)
  /\ \/ Suspended(s) /\ ResumeFromWait(s)
     \/ ~ Suspended(s) /\ UNCHANGED <<tree_vars, turn_vars>>
  /\ UNCHANGED <<core_vars, mailbox, rounds, inputs>>

\* next_command answers WaitTimeout when the deadline of the suspended wait
\* passes, and handle_command resumes the wait with the timeout error.
WaitTimeout(s) ==
  /\ pc[s] = "ready"
  /\ deferred_commands[s] = <<>>
  /\ Suspended(s) /\ suspended_wait[s].timed
  /\ ResumeFromWait(s)
  /\ UNCHANGED <<core_vars, command_rx, deferred_commands, mailbox, rounds,
                 inputs>>

--------------------------------------------------------------------------------
(* An actor inside a turn: handle_control_command, while a model request   *)
(* ("turn") or a tool ("tool") is awaited.  The deferred queue is only     *)
(* written here, never read.                                               *)

Busy(s) == pc[s] \in {"turn", "tool"}

Deferrable == {"UserMessage", "ToolResult"}

\* UserMessage and ToolResult are put aside until the turn is over.
DeferCommand(s) ==
  /\ Busy(s) /\ command_rx[s] # <<>>
  /\ Head(command_rx[s]).kind \in Deferrable
  /\ command_rx' = [command_rx EXCEPT ![s] = Tail(@)]
  /\ deferred_commands' =
       [deferred_commands EXCEPT ![s] = Append(@, Head(command_rx[s]))]
  /\ UNCHANGED <<tree_vars, core_vars, turn_vars, mailbox, rounds, inputs>>

\* A mailbox message is stored; the exit of a child and Continue are dropped
\* (wait_child reads the exit from the tree).
ControlMessage(s) ==
  LET command == Head(command_rx[s])
  IN /\ Busy(s) /\ command_rx[s] # <<>>
     /\ command.kind \in {"MailboxMessage", "ChildExited", "Continue"}
     /\ command_rx' = [command_rx EXCEPT ![s] = Tail(@)]
     /\ mailbox' = IF command.kind = "MailboxMessage"
                   THEN [mailbox EXCEPT ![s] = Append(@, command.about)]
                   ELSE mailbox
     /\ UNCHANGED <<tree_vars, core_vars, turn_vars, deferred_commands, rounds,
                    inputs>>

\* Cancel, Stop, Term and Kill abort the request or the tool and the turn
\* ends as cancelled.
InterruptTurn(s) ==
  /\ Busy(s) /\ command_rx[s] # <<>>
  /\ IsInterrupt(Head(command_rx[s]))
  /\ AppendSuspendedWaitResult(s)
  /\ interrupted' = [interrupted EXCEPT ![s] = TRUE]
  /\ FinishTurn(s, "Cancelled", Tail(command_rx[s]),
                WithoutUserMessages(deferred_commands[s]))
  /\ UNCHANGED <<mailbox, rounds, inputs>>

\* The model answers with text (Success) or the request fails (Failed); the
\* latter also when the core loop has dropped the session's command sender.
EndTurn(s) ==
  /\ pc[s] = "turn"
  /\ \E status \in {"Success", "Failed"} :
       FinishTurn(s, status, command_rx[s], deferred_commands[s])
  /\ UNCHANGED <<tree_vars, interrupted, suspended_wait, mailbox, rounds,
                 inputs>>

\* A round with a tool the actor only runs and awaits.
CallTool(s) ==
  /\ pc[s] = "turn" /\ rounds[s] < MaxRounds
  /\ rounds' = [rounds EXCEPT ![s] = @ + 1]
  /\ pc' = [pc EXCEPT ![s] = "tool"]
  /\ UNCHANGED <<tree_vars, core_vars, state, interrupted, suspended_wait,
                 checking,
                 resumed, command_rx, deferred_commands, mailbox, inputs>>

ToolDone(s) ==
  /\ pc[s] = "tool"
  /\ pc' = [pc EXCEPT ![s] = "turn"]
  /\ UNCHANGED <<tree_vars, core_vars, state, interrupted, suspended_wait,
                 checking,
                 resumed, command_rx, deferred_commands, mailbox, rounds, inputs>>

\* wait_child, first half: under the tree's read lock, is it a child and has
\* it exited?  A running child is waited for; the other answers (not a child,
\* the recorded status, null when non_blocking) let the turn go on.
CallWaitChild(s, child) ==
  /\ pc[s] = "turn" /\ rounds[s] < MaxRounds
  /\ parents[child] = s /\ exit_statuses[child] = Running
  /\ rounds' = [rounds EXCEPT ![s] = @ + 1]
  /\ pc' = [pc EXCEPT ![s] = "checked"]
  /\ checking' = [checking EXCEPT ![s] = child]
  /\ UNCHANGED <<tree_vars, core_vars, state, interrupted, suspended_wait,
                 resumed,
                 command_rx, deferred_commands, mailbox, inputs>>

AnsweredCall(s) ==
  /\ pc[s] = "turn" /\ rounds[s] < MaxRounds
  /\ rounds' = [rounds EXCEPT ![s] = @ + 1]
  /\ UNCHANGED <<tree_vars, core_vars, turn_vars, command_rx, deferred_commands,
                 mailbox, inputs>>

\* Mutant: wait_child suspends without registering the wait in the tree.
RegisterWaitUnrecorded(s) ==
  /\ pc[s] = "checked"
  /\ checking' = [checking EXCEPT ![s] = NoSession]
  /\ Suspend(s, [kind |-> "ChildExit", on |-> checking[s], timed |-> TRUE])
  /\ UNCHANGED <<tree_vars, core_vars, command_rx, deferred_commands, mailbox,
                 rounds, inputs>>

\* wait_child, second half: under the write lock, register the edge and
\* suspend, or report the cycle and go on.  The lock was released in between.
RegisterWait(s) ==
  LET child == checking[s]
  IN /\ pc[s] = "checked"
     /\ checking' = [checking EXCEPT ![s] = NoSession]
     /\ \/ /\ RegisterActiveWait(s, child)
           /\ \E timed \in Deadlines :
                Suspend(s, [kind |-> "ChildExit", on |-> child, timed |-> timed])
        \/ /\ WaitWouldCycle(s, child)
           /\ pc' = [pc EXCEPT ![s] = "turn"]
           /\ UNCHANGED <<tree_vars, state, interrupted, suspended_wait,
                          resumed>>
     /\ UNCHANGED <<core_vars, command_rx, deferred_commands, mailbox, rounds,
                    inputs>>

\* Mutant: recv_message suspends without looking into the mailbox.
ReceiveBlindly(s, source) ==
  /\ pc[s] = "turn" /\ rounds[s] < MaxRounds
  /\ rounds' = [rounds EXCEPT ![s] = @ + 1]
  /\ UNCHANGED <<tree_vars, mailbox>>
  /\ Suspend(s, [kind |-> "Mailbox", on |-> source, timed |-> FALSE])
  /\ UNCHANGED <<core_vars, checking, command_rx, deferred_commands, inputs>>

\* recv_message: take a stored message, or else register the edge to a named
\* source (waiting for any sender is no edge) and suspend.  A refused edge is
\* an error the turn goes on with, as is null when non_blocking.
CallRecvMessage(s, source) ==
  /\ pc[s] = "turn" /\ rounds[s] < MaxRounds
  /\ rounds' = [rounds EXCEPT ![s] = @ + 1]
  /\ \/ /\ HasMessage(s, source)
        /\ mailbox' = [mailbox EXCEPT ![s] = PopMessage(@, source)]
        /\ UNCHANGED <<tree_vars, turn_vars>>
     \/ /\ ~ HasMessage(s, source)
        /\ \/ source = AnySource /\ UNCHANGED tree_vars
           \/ source # AnySource /\ RegisterActiveWait(s, source)
        /\ \E timed \in Deadlines :
             Suspend(s, [kind |-> "Mailbox", on |-> source, timed |-> timed])
        /\ UNCHANGED <<mailbox, checking>>
  /\ UNCHANGED <<core_vars, command_rx, deferred_commands, inputs>>

\* The core loop has dropped the command sender (the child's exit is on
\* record) and the channel is empty: recv returns None and `run` ends.
ChannelClosed(s) ==
  /\ pc[s] = "ready" /\ s \notin registry
  /\ deferred_commands[s] = <<>> /\ command_rx[s] = <<>>
  /\ pc' = [pc EXCEPT ![s] = "stopped"]
  /\ UNCHANGED <<tree_vars, core_vars, state, interrupted, suspended_wait,
                 checking,
                 resumed, command_rx, deferred_commands, mailbox, rounds, inputs>>

--------------------------------------------------------------------------------
(* The core loop.                                                          *)

CoreFree == announcing = Quiet

\* registry.get(s) and command_tx.send(command).await: blocks while the
\* channel is full, and a dropped receiver makes it a no-op.
Deliver(s, command) ==
  /\ s \in registry
  /\ \/ pc[s] = "stopped" /\ UNCHANGED command_rx
     \/ /\ pc[s] # "stopped" /\ Len(command_rx[s]) < CommandCap
        /\ command_rx' = [command_rx EXCEPT ![s] = Append(@, command)]

Route(s, command) ==
  /\ CoreFree
  /\ inputs < MaxInputs
  /\ inputs' = inputs + 1
  /\ Deliver(s, command)
  /\ UNCHANGED <<tree_vars, core_vars, turn_vars, deferred_commands, mailbox,
                 rounds>>

\* CoreInput::UserMessage, ToolResult, Signal(Continue), Cancel and the
\* interrupting signals, SendMessage.
RouteUserMessage(s) == Route(s, Command("UserMessage", NoSession))
RouteToolResult(s) == Route(s, Command("ToolResult", NoSession))
RouteContinue(s) == Route(s, Command("Continue", NoSession))
RouteInterrupt(s) == \E kind \in Interrupts : Route(s, Command(kind, NoSession))
RouteMessage(from, to) ==
  pc[from] # "unborn" /\ Route(to, Command("MailboxMessage", from))

\* Mutant: a session identifier is spawned a second time.
SpawnSessionAgain(parent, child) ==
  /\ CoreFree
  /\ pc[parent] # "unborn" /\ pc[child] \in {"unborn", "stopped"}
  /\ AddChild(parent, child)
  /\ registry' = registry \cup {child}
  /\ pc' = [pc EXCEPT ![child] = "ready"]
  /\ UNCHANGED <<runtime_events, announcing, state, interrupted, suspended_wait,
                 checking, resumed, command_rx, deferred_commands, mailbox, rounds,
                 inputs>>

\* CoreInput::SpawnSession: record the child in the tree, start its actor, and
\* queue the task as its first message unless the task is empty.  The parent
\* need not be alive any more.
SpawnSession(parent, child) ==
  /\ CoreFree
  /\ pc[parent] # "unborn" /\ pc[child] = "unborn"
  /\ AddChild(parent, child)
  /\ registry' = registry \cup {child}
  /\ pc' = [pc EXCEPT ![child] = "ready"]
  /\ \E task \in {<<>>, <<Command("UserMessage", NoSession)>>} :
       command_rx' = [command_rx EXCEPT ![child] = task]
  /\ UNCHANGED <<runtime_events, announcing, state, interrupted, suspended_wait,
                 checking, resumed, deferred_commands, mailbox, rounds, inputs>>

\* Mutant: only the sessions waiting for the child at that moment are told.
ChildFinishedToWaiters ==
  /\ CoreFree /\ runtime_events # <<>>
  /\ LET event == Head(runtime_events)
         left == registry \ {event.session}
     IN /\ runtime_events' = Tail(runtime_events)
        /\ registry' = left
        /\ RecordExit(event.session, event.status)
        /\ announcing' =
             LET told == {s \in left : active_waits[s] = event.session}
             IN IF told = {} THEN Quiet ELSE [child |-> event.session, to |-> told]
  /\ UNCHANGED <<turn_vars, command_rx, deferred_commands, mailbox, rounds,
                 inputs>>

\* RuntimeEvent::ChildSessionFinished: drop the command sender, record the
\* exit in the tree, then tell every session still registered.
ChildFinished ==
  /\ CoreFree /\ runtime_events # <<>>
  /\ LET event == Head(runtime_events)
         left == registry \ {event.session}
     IN /\ runtime_events' = Tail(runtime_events)
        /\ registry' = left
        /\ RecordExit(event.session, event.status)
        /\ announcing' = IF left = {} THEN Quiet
                                      ELSE [child |-> event.session, to |-> left]
  /\ UNCHANGED <<turn_vars, command_rx, deferred_commands, mailbox, rounds,
                 inputs>>

\* One send of the broadcast; the loop is busy until the last one is done.
Announce(s) ==
  /\ s \in announcing.to
  /\ Deliver(s, Command("ChildExited", announcing.child))
  /\ announcing' = IF announcing.to = {s} THEN Quiet
                   ELSE [announcing EXCEPT !.to = @ \ {s}]
  /\ UNCHANGED <<tree_vars, registry, runtime_events, turn_vars,
                 deferred_commands,
                 mailbox, rounds, inputs>>

--------------------------------------------------------------------------------

\* The steps of a session's own task.
ActorStep(s) ==
  \/ UserMessage(s)
  \/ InterruptIdle(s)
  \/ Continue(s)
  \/ MailboxMessage(s)
  \/ ChildExited(s)
  \/ ToolResult(s)
  \/ WaitTimeout(s)
  \/ DeferCommand(s)
  \/ ControlMessage(s)
  \/ InterruptTurn(s)
  \/ EndTurn(s)
  \/ CallTool(s)
  \/ ToolDone(s)
  \/ AnsweredCall(s)
  \/ \E child \in Sessions : CallWaitChild(s, child)
  \/ RegisterWait(s)
  \/ \E source \in (Sessions \ {s}) \cup {AnySource} : CallRecvMessage(s, source)
  \/ ChannelClosed(s)

\* What the core loop does with its own events.
CoreStep ==
  \/ ChildFinished
  \/ \E s \in Sessions : Announce(s)

\* Inputs of the clients and of the tools.
InputStep ==
  \/ \E s \in Sessions :
       \/ RouteUserMessage(s)
       \/ RouteToolResult(s)
       \/ RouteContinue(s)
       \/ RouteInterrupt(s)
  \/ \E from, to \in Sessions : RouteMessage(from, to)
  \/ \E parent, child \in Sessions : SpawnSession(parent, child)

Next ==
  \/ \E s \in Sessions : ActorStep(s)
  \/ CoreStep
  \/ InputStep

Spec == Init /\ [][Next]_vars

\* The runtime polls every task that can run: an actor with a command handles
\* it, a model request or a tool ends in time (providers and tools have
\* timeouts of their own), a deadline passes, and the core loop drains its
\* events and finishes a broadcast.  Clients owe nothing.
Fairness ==
  /\ \A s \in Sessions :
       /\ WF_vars(UserMessage(s) \/ InterruptIdle(s) \/ Continue(s) \/ MailboxMessage(s)
                  \/ ChildExited(s) \/ ToolResult(s) \/ WaitTimeout(s) \/ ChannelClosed(s))
       /\ WF_vars(DeferCommand(s) \/ ControlMessage(s) \/ InterruptTurn(s))
       /\ WF_vars(EndTurn(s))
       /\ WF_vars(ToolDone(s))
       /\ WF_vars(RegisterWait(s))
       /\ WF_vars(Announce(s))
  /\ WF_vars(ChildFinished)

FairSpec == Spec /\ Fairness

--------------------------------------------------------------------------------
(* Properties.                                                             *)

Exited(s) == exit_statuses[s] # Running

\* A running session suspended on a named session has the edge in the
\* wait-for graph, unless that session's exit removed it: otherwise the cycle
\* test of register_active_wait (engine.rs, wait_child and recv_message)
\* works on a graph that misses a wait.
SuspendedHasEdge ==
  \A s \in Sessions :
    ~ Exited(s) /\ suspended_wait[s].on \in Sessions =>
      \/ active_waits[s] = suspended_wait[s].on
      \/ Exited(suspended_wait[s].on) /\ active_waits[s] = NoSession

\* The other direction: an edge of a running session is the wait it is
\* suspended on, so no later wait is refused because of a stale edge.
EdgeIsSuspended ==
  \A s \in Sessions :
    ~ Exited(s) /\ active_waits[s] # NoSession =>
      suspended_wait[s].on = active_waits[s]

\* The wait-for graph is true of the actors, both ways (register_active_wait and
\* clear_active_wait against suspended_wait, engine.rs:6159, 5340).
GraphIsTrue == SuspendedHasEdge /\ EdgeIsSuspended

\* No ring of running sessions each suspended on the next ("deadlock
\* detected", session_tree.rs:55), whatever the interleaving of waits, exits,
\* timeouts and interrupts.
NoWaitDeadlock ==
  \A S \in SUBSET {s \in Sessions : ~ Exited(s)} :
    S # {} => \E s \in S : suspended_wait[s].on \notin S

\* A session suspended on a child whose exit is recorded will be told: the
\* ChildExited command is in its channel or still to be sent to it.  wait_child
\* reads the exit and registers its wait under two separate locks, and the
\* exit may be recorded in between.
NoLostChildWakeup ==
  \A s \in registry : \A child \in Sessions :
    pc[s] # "stopped" /\ WaitsForChild(s, child) /\ Exited(child) =>
      \/ \E i \in DOMAIN command_rx[s] :
           command_rx[s][i] = Command("ChildExited", child)
      \/ announcing.child = child /\ s \in announcing.to

\* A session suspended in recv_message has no message it could take: one that
\* arrived while the turn was running is seen before it suspends.
NoLostMessageWakeup ==
  \A s \in Sessions :
    suspended_wait[s].kind = "Mailbox" => ~ HasMessage(s, suspended_wait[s].on)

\* A session is told of an exit only once the tree has it, so resuming never
\* reports "wait_child resumed before child exit was recorded" (engine.rs:5287).
ToldAfterRecorded ==
  \A s \in Sessions : \A i \in DOMAIN command_rx[s] :
    command_rx[s][i].kind = "ChildExited" => Exited(command_rx[s][i].about)

\* No wake-up is lost on its way to a suspended session, and none comes too early.
WakeupsArrive == NoLostChildWakeup /\ NoLostMessageWakeup /\ ToldAfterRecorded

\* No running session waits for what cannot come: neither in a ring of waits nor
\* for an exit that was announced without it.
NobodyIsStuck == NoWaitDeadlock /\ NoLostChildWakeup

\* An interrupted session never works: the flag is cleared before a turn
\* starts and a turn ends when it is set, and an interrupt answers the
\* suspended wait, so that no event resumes it.
InterruptedIsAtRest ==
  \A s \in Sessions : interrupted[s] =>
    pc[s] \in {"ready", "stopped"} /\ ~ Suspended(s)

\* A child's actor never disappears without a trace: when it has stopped, its
\* exit is on record or its ChildSessionFinished event is on the way.  A
\* parent waiting for it would otherwise wait for ever.
ChildNeverVanishes ==
  \A s \in Sessions \ Roots : pc[s] = "stopped" =>
    \/ Exited(s)
    \/ \E i \in DOMAIN runtime_events : runtime_events[i].session = s

\* SessionState::Destroyed is "Session has been destroyed." (session.rs:45):
\* a destroyed session changes state no more.
DestroyedIsFinal ==
  [][\A s \in Sessions : state[s] = "Destroyed" => state'[s] = "Destroyed"]_vars

\* A session suspended on a child that has exited is resumed (by the exit, or
\* earlier by a message, an interrupt or its deadline).
WaitChildReturns ==
  \A s, child \in Sessions :
    (s \in registry /\ WaitsForChild(s, child) /\ Exited(child))
      ~> ~ WaitsForChild(s, child)

\* Commands put aside during a turn are handled after it: a session does not
\* defer the same command for ever (engine.rs:4765).
DeferredAreHandled ==
  \A s \in Sessions :
    deferred_commands[s] # <<>> ~> deferred_commands[s] = <<>>

\* The signal tool promises "kill (immediate)" (tool/signal.rs:16): a child
\* that is sent Kill exits.
KillEnds ==
  \A s \in Sessions \ Roots :
    (s \in registry /\ \E i \in DOMAIN command_rx[s] : command_rx[s][i].kind = "Kill")
      ~> Exited(s)

\* Every step acts on the session tree as one of its methods or not at all.
ImplementsTree == TreeSpec
================================================================================
