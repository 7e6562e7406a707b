------------------------------- MODULE Scheduler -------------------------------
(***************************************************************************)
(* crates/quine-core/src/scheduler.rs, with the part of the core event     *)
(* loop that calls it (engine.rs:6854-6889, 6959-6964, 7191-7205, 7268).   *)
(*                                                                         *)
(* The scheduler is a task of its own.  It sends due messages into the     *)
(* core's bounded input channel, and the core awaits the scheduler's       *)
(* answer to an IPC request or to a shutdown, so each can wait for the     *)
(* other.  A step is what a task does between two awaits.                  *)
(*                                                                         *)
(* Time is a counter that stops at MaxTime.  The heap ordered by           *)
(* (execute_at, sequence) is a sequence kept in that order.  A message to  *)
(* a session is delivered once the core has taken it from its input.       *)
(***************************************************************************)
EXTENDS Integers, SequencesExt

CONSTANTS
  Messages,    \* messages clients schedule, each at most once
  Requests,    \* IPC requests of clients, each made at most once
  Targets,     \* names of IPC mailboxes
  Delays,      \* delays a message is scheduled with
  Cadences,    \* cadences of messages: Once or a period, which may be 0
  Once,        \* the cadence None
  InputCap,    \* capacity of the core's input channel (64 in the code)
  MaxTime      \* bound on the clock

ASSUME SchedulerAssumption ==
  /\ Delays \subseteq Nat /\ Cadences \subseteq Nat \cup {Once}
  /\ Once \notin Nat
  /\ InputCap \in Nat \ {0} /\ MaxTime \in Nat

VARIABLES
  clock,          \* tokio's clock
  input,          \* the core's input channel, oldest first
  core_at,        \* where the core loop is
  scheduler_rx,     \* the scheduler's command channel
  sched_at,       \* where the scheduler task is
  sched_now,      \* the time it read at the head of its loop
  sending,        \* the input it is sending to the core
  pending,        \* queued messages, earliest first
  channel_closed,
  ipc_mailboxes,
  asked,          \* what clients asked for: messages, requests, Shutdown
  answered,       \* the requests whose reply was sent
  first,          \* when a message is due for the first time
  dispatched,     \* how often a message was dispatched
  delivered       \* how often the core handed it to the session

sched_vars == <<sched_at, sched_now, sending, pending, channel_closed,
                ipc_mailboxes>>

core_call_vars == <<core_at, scheduler_rx>>
history_vars == <<asked, answered, first, dispatched, delivered>>
scheduler_vars == <<clock, input, core_call_vars, sched_vars, history_vars>>

\* SchedulerCommand
SchedulerCommands ==
  [kind : {"Schedule"}, message : Messages, delay : Delays, cadence : Cadences]
  \cup [kind : {"SendIpcMessage", "RecvIpcMessage"}, request : Requests,
        target : Targets]
  \cup [kind : {"Shutdown"}]

\* CoreInput, as far as the scheduler is concerned: the commands the core
\* passes on, and user messages.
SchedulerInputs ==
  SchedulerCommands \cup [kind : {"UserMessage"}, message : Messages]

Nothing == [kind |-> "None"]

Queued == [execute_at : Nat, message : Messages, cadence : Cadences]

SchedulerTypeOK ==
  /\ clock \in 0 .. MaxTime
  /\ input \in Seq(SchedulerInputs) /\ Len(input) <= InputCap
  /\ core_at \in {"select", "awaiting", "joining", "ended"}
  /\ scheduler_rx \in Seq(SchedulerCommands)
  /\ sched_at \in {"drain", "sending", "wait", "returned"}
  /\ sched_now \in 0 .. MaxTime
  /\ sending \in SchedulerInputs \cup {Nothing}
  /\ pending \in Seq(Queued)
  /\ channel_closed \in BOOLEAN
  /\ ipc_mailboxes \in [Targets -> Seq(Requests)]
  /\ asked \subseteq Messages \cup Requests \cup {"Shutdown"}
  /\ answered \subseteq Requests
  /\ first \in [Messages -> Nat]
  /\ dispatched \in [Messages -> 0 .. MaxTime + 1]
  /\ delivered \in [Messages -> 0 .. MaxTime + 1]

SchedulerInit ==
  /\ clock = 0 /\ input = <<>>
  /\ core_at = "select" /\ scheduler_rx = <<>>
  /\ sched_at = "drain" /\ sched_now = 0 /\ sending = Nothing
  /\ pending = <<>> /\ channel_closed = FALSE
  /\ ipc_mailboxes = [t \in Targets |-> <<>>]
  /\ asked = {} /\ answered = {}
  /\ first = [m \in Messages |-> 0]
  /\ dispatched = [m \in Messages |-> 0]
  /\ delivered = [m \in Messages |-> 0]

--------------------------------------------------------------------------------
(* Clients and time.                                                       *)

TimePasses ==
  /\ clock < MaxTime
  /\ clock' = clock + 1
  /\ UNCHANGED <<input, core_call_vars, sched_vars, history_vars>>

\* create_channels gives the input channel a capacity; who sends waits for it.
HasRoom == Len(input) < InputCap

\* A client puts an operation into the input channel once there is room.
Request(what, operation) ==
  /\ what \notin asked
  /\ HasRoom
  /\ input' = Append(input, operation)
  /\ asked' = asked \cup {what}
  /\ UNCHANGED <<clock, core_call_vars, sched_vars, answered, first, dispatched,
                 delivered>>

Client ==
  \E operation \in SchedulerCommands :
    LET what == CASE operation.kind = "Schedule" -> operation.message
                  [] operation.kind = "Shutdown" -> "Shutdown"
                  [] OTHER -> operation.request
    IN Request(what, operation)

--------------------------------------------------------------------------------
(* The core loop.                                                          *)

\* The core loop takes the next input.  After Shutdown it takes no more.
CoreTakes(kinds) ==
  /\ core_at = "select"
  /\ input # <<>> /\ Head(input).kind \in kinds
  /\ input' = Tail(input)

Saturated(n) == IF n > MaxTime THEN n ELSE n + 1

CoreUserMessage ==
  /\ CoreTakes({"UserMessage"})
  /\ delivered' = [delivered EXCEPT ![Head(input).message] = Saturated(@)]
  /\ UNCHANGED <<clock, core_call_vars, sched_vars, asked, answered, first,
                 dispatched>>

\* SchedulerHandle::send.  The channel of 256 has room: the core is its only
\* sender and waits for the answer to all but Schedule.
CorePassesOn ==
  /\ CoreTakes({"Schedule", "SendIpcMessage", "RecvIpcMessage", "Shutdown"})
  /\ scheduler_rx' = Append(scheduler_rx, Head(input))
  /\ core_at' = IF Head(input).kind = "Schedule" THEN "select" ELSE "awaiting"
  /\ UNCHANGED <<clock, sched_vars, history_vars>>

\* The loop ends and the core joins the scheduler's task.
CoreJoins ==
  /\ core_at = "joining" /\ sched_at = "returned"
  /\ core_at' = "ended"
  /\ UNCHANGED <<clock, input, scheduler_rx, sched_vars, history_vars>>

CoreCalls == CoreUserMessage \/ CorePassesOn \/ CoreJoins

--------------------------------------------------------------------------------
(* The scheduler task.                                                     *)

\* BinaryHeap::push with the order of QueuedCommand: behind all that are due no
\* later.
Push(queue, queued) ==
  LET before == Cardinality({i \in DOMAIN queue : queue[i].execute_at <= queued.execute_at})
  IN InsertAt(queue, before + 1, queued)

\* The head of the loop reads the clock once for all that is due.
LoopHead == sched_at' = "drain" /\ sched_now' = clock

Due == pending # <<>> /\ Head(pending).execute_at <= sched_now

\* Mutant: the next time counts from the time of the dispatch.
RequeuedFromNow(queue, queued) ==
  IF queued.cadence = Once THEN queue
  ELSE Push(queue, [queued EXCEPT !.execute_at = clock + queued.cadence])

\* The next time of a message that repeats counts from the time it was due.
Requeued(queue, queued) ==
  IF queued.cadence = Once THEN queue
  ELSE Push(queue, [queued EXCEPT !.execute_at = @ + queued.cadence])

\* dispatch_scheduled_action, up to its send.
Dispatch ==
  /\ sched_at = "drain" /\ Due
  /\ pending' = Requeued(Tail(pending), Head(pending))
  /\ sending' = [kind |-> "UserMessage", message |-> Head(pending).message]
  /\ sched_at' = "sending"
  /\ dispatched' = [dispatched EXCEPT ![Head(pending).message] = Saturated(@)]
  /\ UNCHANGED <<clock, input, core_call_vars, sched_now, channel_closed,
                 ipc_mailboxes, asked, answered, first, delivered>>

DispatchSends ==
  /\ sched_at = "sending"
  /\ HasRoom
  /\ input' = Append(input, sending)
  /\ sending' = Nothing
  /\ sched_at' = "drain"
  /\ UNCHANGED <<clock, core_call_vars, sched_now, pending, channel_closed,
                 ipc_mailboxes, history_vars>>

Drained ==
  /\ sched_at = "drain" /\ ~ Due
  /\ sched_at' = IF channel_closed /\ pending = <<>> THEN "returned" ELSE "wait"
  /\ UNCHANGED <<clock, input, core_call_vars, sched_now, sending, pending,
                 channel_closed, ipc_mailboxes, history_vars>>

\* sleep_until(next_deadline)
WakeUp ==
  /\ sched_at = "wait" /\ pending # <<>>
  /\ Head(pending).execute_at <= clock
  /\ LoopHead
  /\ UNCHANGED <<clock, input, core_call_vars, sending, pending,
                 channel_closed, ipc_mailboxes, history_vars>>

\* Mutant: what was scheduled before a Shutdown is kept.
PendingKept(queue) == queue

\* What Shutdown leaves in the heap.
PendingAfterShutdown(queue) == <<>>

\* The scheduler receives a command and, where one is awaited, replies.
Receive(kinds) ==
  /\ sched_at = "wait" /\ ~ channel_closed
  /\ scheduler_rx # <<>> /\ Head(scheduler_rx).kind \in kinds
  /\ scheduler_rx' = Tail(scheduler_rx)
  /\ LoopHead
  /\ UNCHANGED <<clock, input, sending, asked, dispatched,
                 delivered>>

HandleSchedule ==
  /\ Receive({"Schedule"})
  /\ LET command == Head(scheduler_rx)
         due == clock + command.delay
     IN /\ pending' = Push(pending, [execute_at |-> due,
                                     message |-> command.message,
                                     cadence |-> command.cadence])
        /\ first' = [first EXCEPT ![command.message] = due]
  /\ UNCHANGED <<core_at, channel_closed, ipc_mailboxes, answered>>

HandleSendIpc ==
  /\ Receive({"SendIpcMessage"})
  /\ LET command == Head(scheduler_rx)
     IN /\ ipc_mailboxes' =
             [ipc_mailboxes EXCEPT
                ![command.target] = Append(@, command.request)]
        /\ answered' = answered \cup {command.request}
  /\ core_at' = "select"
  /\ UNCHANGED <<pending, channel_closed, first>>

\* non_blocking is ignored: the reply says whether there was a message.
HandleRecvIpc ==
  /\ Receive({"RecvIpcMessage"})
  /\ LET command == Head(scheduler_rx)
     IN /\ ipc_mailboxes' =
             [ipc_mailboxes EXCEPT
                ![command.target] = IF @ = <<>> THEN @ ELSE Tail(@)]
        /\ answered' = answered \cup {command.request}
  /\ core_at' = "select"
  /\ UNCHANGED <<pending, channel_closed, first>>

HandleShutdown ==
  /\ Receive({"Shutdown"})
  /\ pending' = PendingAfterShutdown(pending)
  /\ channel_closed' = TRUE
  /\ core_at' = "joining"
  /\ UNCHANGED <<ipc_mailboxes, answered, first>>

SchedulerTask ==
  \/ Dispatch \/ DispatchSends \/ Drained \/ WakeUp
  \/ HandleSchedule \/ HandleSendIpc \/ HandleRecvIpc \/ HandleShutdown

SchedulerNext == TimePasses \/ Client \/ CoreCalls \/ SchedulerTask

\* tokio runs a task that can go on, and time passes.
SchedulerFairness ==
  /\ WF_scheduler_vars(TimePasses)
  /\ WF_scheduler_vars(CoreCalls)
  /\ WF_scheduler_vars(SchedulerTask)

SchedulerSpec ==
  SchedulerInit /\ [][SchedulerNext]_scheduler_vars /\ SchedulerFairness

--------------------------------------------------------------------------------
(* Properties.                                                             *)

\* A repeated message keeps its beat (dispatch_scheduled_action, :296): while
\* it is queued, the time it is due is the first one and one period for each
\* dispatch so far, however late the task came to send them, and none was
\* sent before its time.
KeepsItsBeat ==
  \A i \in DOMAIN pending :
    LET q == pending[i]
        n == dispatched[q.message]
    IN /\ q.cadence # Once => q.execute_at = first[q.message] + n * q.cadence
       /\ q.cadence = Once => n = 0

\* The scheduler sends a due message while the core awaits its reply, and the
\* core's input is full: neither can go on (engine.rs:7191-7205 and 7268 against
\* scheduler.rs:321).  It takes as many inputs as the channel has room for, from
\* clients or from the scheduler itself, behind the one that the core has taken.
Jammed ==
  /\ core_at = "awaiting" /\ sched_at = "sending"
  /\ ~ HasRoom

\* A request over the scheduler's mailboxes is answered (send_ipc_message and
\* recv_ipc_message, :34-62), unless the core has been shut down, or both jam.
IpcAnswered ==
  \A r \in Requests :
    (r \in asked) ~> (r \in answered \/ core_at \in {"joining", "ended"} \/ Jammed)

\* The core loop ends after a Shutdown (engine.rs:7268), whatever is scheduled,
\* unless both jam.
ShutdownCompletes == ("Shutdown" \in asked) ~> (core_at = "ended" \/ Jammed)

\* A message that is due reaches its session, unless the core was shut down
\* first, or both jam.
DueIsDelivered ==
  \A m \in Messages :
    (\E i \in DOMAIN pending :
        pending[i].message = m /\ pending[i].execute_at <= MaxTime)
      ~> (delivered[m] > 0 \/ "Shutdown" \in asked \/ Jammed)

\* The scheduler serves whoever depends on it: a call of it is answered, what is
\* due is delivered, and the core that shuts it down comes to its end.  That the
\* core's input is full is no reason to stop, however small it is, but for the one
\* ring of waits that Jammed describes: whoever else waits for room gets it.
SchedulerServes == IpcAnswered /\ DueIsDelivered /\ ShutdownCompletes

\* What one would expect and the code does not keep: core and scheduler never wait
\* for each other (README).
NeverJams == ~ Jammed
================================================================================
