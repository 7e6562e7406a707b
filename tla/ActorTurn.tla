------------------------------- MODULE ActorTurn -------------------------------
(***************************************************************************)
(* crates/quine-core/src/engine.rs: one turn loop (handle_turn and         *)
(* execute_tool_call) and the history it builds.  A model's answer is a    *)
(* batch of tool calls; the loop runs them one by one and only then puts   *)
(* their results into the history.  Between and during the calls the       *)
(* session can be interrupted, pause for an approval, suspend on a wait,   *)
(* be compacted, unwound, checkpointed and restarted.                      *)
(*                                                                         *)
(* SessionActors models several sessions, their channels and the tree;     *)
(* here one root session is alone, a command is handled when it arrives    *)
(* (one put aside during a turn is one that arrives after it), and what    *)
(* ends a wait is an input.  A message is reduced to the calls it makes or *)
(* answers, as a set; texts are not kept (a tool_use message without       *)
(* text).                                                                  *)
(***************************************************************************)
EXTENDS Naturals, SequencesExt

CONSTANTS
  MaxCalls,       \* bound on the tool calls of a behaviour
  MaxBatch,       \* bound on the calls of one answer
  MaxPrompts,     \* bound on the prompts
  ArchiveFails,   \* whether an oversized result may fail to be archived
  MaxInputs       \* bound on interrupts, unwinds, compactions, checkpoints and restarts

ASSUME TurnAssumption ==
  /\ MaxCalls \in Nat /\ MaxBatch \in Nat \ {0} /\ MaxPrompts \in Nat
  /\ MaxInputs \in Nat /\ ArchiveFails \in BOOLEAN

VARIABLES
  history,           \* session.history
  place,             \* where the actor's task is
  calls,             \* the batch of the current answer
  completed,         \* completed_calls: the calls so far, cancelled or done (ok or error)
  state,             \* session.state
  interrupted,       \* session.interrupted
  suspended_wait,    \* the call of session.suspended_wait
  pending_approval,  \* the call of session.pending_permission_approval
  answer,            \* the last answer to that approval, if it was not a choice
  next_call,         \* the next fresh tool_use_id
  runs,              \* how often the tool of each call was started
  asked, approved,   \* calls that needed an approval, and got it
  cut,               \* calls whose batch ended before their result was stored
  saved,             \* the committed checkpoint
  archive_failed,    \* archiving a result has failed while a wait was open
  prompts, inputs    \* prompts and other inputs so far

batch_vars == <<calls, completed, next_call, runs, asked, approved, cut>>
vars == <<history, place, state, interrupted, suspended_wait, pending_approval,
          answer, batch_vars, saved, archive_failed, prompts, inputs>>

--------------------------------------------------------------------------------
(* Messages and histories.                                                 *)

Calls == 1 .. MaxCalls
NoCall == 0

Message(kind, of) == [kind |-> kind, calls |-> of]

UserText == Message("user", {})
Text == Message("text", {})
Use(batch) == Message("use", ToSet(batch))
Result(call) == Message("result", {call})

\* Positions of the messages that make, and that answer, a call.
UsesOf(h, call) == {i \in DOMAIN h : h[i].kind = "use" /\ call \in h[i].calls}
ResultsOf(h, call) == {i \in DOMAIN h : h[i] = Result(call)}

\* A call with a result behind it.
Answered(h, call) ==
  \E i \in UsesOf(h, call), j \in ResultsOf(h, call) : i < j

CallsIn(h) == UNION {h[i].calls : i \in DOMAIN h}

\* The members of s at some of its positions, in their order: the n-th of them
\* is the one with n of the positions up to it.
At(s, positions) ==
  [n \in 1 .. Cardinality(positions) |->
     s[CHOOSE p \in positions : Cardinality({q \in positions : q <= p}) = n]]

\* sanitize_restored_history: keep the calls that are answered and their
\* results; a message whose calls are all gone disappears.
Sanitize(h) ==
  LET valid == {c \in CallsIn(h) : Answered(h, c)}
      kept == [i \in DOMAIN h |-> Message(h[i].kind, h[i].calls \cap valid)]
  IN At(kept, {i \in DOMAIN h : h[i].kind \in {"use", "result"} => kept[i].calls # {}})

\* Mutant: the kept tail is the trailing results without their calls.
TailStartAtResults(h) ==
  IF h = <<>> \/ h[Len(h)].kind = "text" THEN Len(h) + 1
  ELSE IF h[Len(h)].kind # "result" THEN Len(h)
  ELSE Min({i \in DOMAIN h : \A j \in i .. Len(h) : h[j].kind = "result"})

\* live_tail_start: the last user message, or the last calls with the results
\* that follow them; nothing when the history ends with text.
TailStart(h) ==
  IF h = <<>> \/ h[Len(h)].kind = "text" THEN Len(h) + 1
  ELSE IF h[Len(h)].kind # "result" THEN Len(h)
  ELSE LET first == Min({i \in DOMAIN h : \A j \in i .. Len(h) : h[j].kind = "result"})
       IN IF first > 1 /\ h[first - 1].kind = "use" THEN first - 1 ELSE first

\* compact_session_history with the generic summarizer: the messages before
\* the tail become one assistant text.
Compacted(h) == <<Text>> \o SubSeq(h, TailStart(h), Len(h))

--------------------------------------------------------------------------------

TypeOK ==
  /\ history \in Seq([kind : {"user", "text", "use", "result"}, calls : SUBSET Calls])
  /\ place \in {"ready", "model", "next", "approval", "tool"}
  /\ calls \in Seq(Calls) /\ Len(calls) <= MaxBatch
  /\ completed \in Seq([call : Calls, outcome : {"done", "cancelled"}])
  /\ state \in {"Idle", "Streaming", "Waiting", "Paused"}
  /\ interrupted \in BOOLEAN
  /\ suspended_wait \in Calls \cup {NoCall}
  /\ pending_approval \in Calls \cup {NoCall}
  /\ answer \in {"none", "invalid"}
  /\ next_call \in 1 .. MaxCalls + 1
  /\ runs \in [Calls -> Nat]
  /\ asked \subseteq Calls /\ approved \subseteq asked /\ cut \subseteq Calls
  /\ saved.state \in {"Idle", "Paused"} /\ saved.pending \in Calls \cup {NoCall}
  /\ archive_failed \in BOOLEAN
  /\ prompts \in 0 .. MaxPrompts /\ inputs \in 0 .. MaxInputs

Init ==
  /\ history = <<>> /\ place = "ready" /\ state = "Idle"
  /\ calls = <<>> /\ completed = <<>>
  /\ interrupted = FALSE
  /\ suspended_wait = NoCall /\ pending_approval = NoCall /\ answer = "none"
  /\ next_call = 1
  /\ runs = [c \in Calls |-> 0]
  /\ asked = {} /\ approved = {} /\ cut = {}
  /\ saved = [taken |-> FALSE, history |-> <<>>, state |-> "Idle", pending |-> NoCall]
  /\ archive_failed = FALSE
  /\ prompts = 0 /\ inputs = 0

outside == <<archive_failed, prompts, inputs>>

Input == inputs < MaxInputs /\ inputs' = inputs + 1
/\ UNCHANGED <<archive_failed, prompts>>

Suspended == suspended_wait # NoCall

\* The call the loop of handle_turn is at, and those it has not reached.
current == calls[Len(completed) + 1]
Rest(from) == {calls[i] : i \in from .. Len(calls)}

\* The turn ends and the task goes back to next_command.
BackToReady == place' = "ready" /\ calls' = <<>> /\ completed' = <<>>

--------------------------------------------------------------------------------
(* Between turns.                                                          *)

\* append_suspended_wait_result: what it adds to the history.
AnswerWait(h) == IF Suspended THEN Append(h, Result(suspended_wait)) ELSE h

\* handle_user_message.
UserMessage ==
  /\ place = "ready"
  /\ prompts < MaxPrompts /\ prompts' = prompts + 1
  /\ history' = Append(AnswerWait(history), UserText)
  /\ suspended_wait' = NoCall
  /\ interrupted' = FALSE
  /\ state' = "Streaming"
  /\ place' = "model"
  /\ UNCHANGED <<pending_approval, answer, batch_vars, saved, archive_failed,
                 inputs>>

\* resume_from_wait, for whatever ends the wait: a message, a child's exit, the
\* deadline or an external tool result.  (When archiving an oversized result
\* fails, the session stays suspended: nothing here changes.)
Resume ==
  /\ place = "ready" /\ Suspended
  /\ history' = AnswerWait(history)
  /\ suspended_wait' = NoCall
  /\ state' = "Streaming"
  /\ place' = "model"
  /\ UNCHANGED <<interrupted, pending_approval, answer, batch_vars, saved,
                 outside>>

\* interrupt: Cancel, Stop, Term or Kill.
InterruptIdle ==
  /\ place = "ready"
  /\ Input
  /\ history' = AnswerWait(history)
  /\ suspended_wait' = NoCall
  /\ interrupted' = TRUE
  /\ state' = "Idle"
  /\ pending_approval' = NoCall
  /\ UNCHANGED <<place, answer, batch_vars, saved>>

\* handle_signal(Continue).
Continue ==
  /\ place = "ready"
  /\ interrupted' = FALSE
  /\ state' = IF state = "Paused" THEN "Idle" ELSE state
  /\ UNCHANGED <<history, place, suspended_wait, pending_approval, answer,
                 batch_vars, saved, outside>>

\* unwind_history: cut the history at a message and sanitize what is left.
Unwind ==
  /\ place = "ready" /\ state = "Idle"
  /\ Input
  /\ \E i \in DOMAIN history : history' = Sanitize(SubSeq(history, 1, i - 1))
  /\ UNCHANGED <<place, state, interrupted, suspended_wait, pending_approval,
                 answer,
                 batch_vars, saved>>

\* compact_session_history, on request between turns or before a model call.
Compact ==
  /\ place \in {"ready", "model"}
  /\ Input
  /\ TailStart(history) > 1
  /\ history' = Compacted(history)
  /\ UNCHANGED <<place, state, interrupted, suspended_wait, pending_approval,
                 answer,
                 batch_vars, saved>>

--------------------------------------------------------------------------------
(* The turn loop.                                                          *)

\* The model answers with text, or the request fails.
EndTurn ==
  /\ place = "model"
  /\ \/ history' = Append(history, Text) \* LlmTurnResult::Text
     \/ UNCHANGED history                \* Err
  /\ state' = "Idle"
  /\ BackToReady
  /\ UNCHANGED <<interrupted, suspended_wait, pending_approval, answer,
                 next_call,
                 runs, asked, approved, cut, saved, outside>>

\* The model answers with a batch of fresh calls, which the history gets at once.
ModelCalls ==
  /\ place = "model"
  /\ \E n \in 1 .. MaxBatch :
       LET batch == [i \in 1 .. n |-> next_call + i - 1]
       IN /\ next_call + n - 1 <= MaxCalls
          /\ history' = Append(history, Use(batch))
          /\ calls' = batch
          /\ next_call' = next_call + n
  /\ completed' = <<>>
  /\ place' = "next"
  /\ UNCHANGED <<state, interrupted, suspended_wait, pending_approval, answer,
                 runs, asked, approved, cut, saved, outside>>

Complete(outcome) ==
  completed' = Append(completed, [call |-> current, outcome |-> outcome])

AtCall == place = "next" /\ Len(completed) < Len(calls) /\ ~ Suspended

\* The loop finds the session interrupted: the turn is over, and what the
\* batch has returned so far is dropped with the calls still to be made.
AbandonBatch ==
  /\ AtCall /\ interrupted
  /\ cut' = cut \cup Rest(1)
  /\ BackToReady
  /\ UNCHANGED <<history, state, interrupted, suspended_wait, pending_approval,
                 answer, next_call, runs, asked, approved, saved, outside>>

\* An unknown tool, a denied permission, a wait that is answered at once.
CallAnswered ==
  /\ AtCall /\ ~ interrupted
  /\ Complete("done")
  /\ UNCHANGED <<history, place, state, interrupted, suspended_wait,
                 pending_approval,
                 answer, calls, next_call, runs, asked, approved, cut, saved, outside>>

RunTool == runs' = [runs EXCEPT ![current] = @ + 1] /\ place' = "tool"

\* The permission outcome allows the call and the tool is started.
CallTool ==
  /\ AtCall /\ ~ interrupted
  /\ RunTool
  /\ UNCHANGED <<history, state, interrupted, suspended_wait, pending_approval,
                 answer,
                 calls, completed, next_call, asked, approved, cut, saved, outside>>

\* wait_child or recv_message suspends: the call returns Cancelled with the
\* wait set, which ends the loop over the batch.
SuspendAt ==
  /\ suspended_wait' = current
  /\ state' = "Waiting"
  /\ Complete("cancelled")
  /\ place' = "next"

CallWait ==
  /\ AtCall /\ ~ interrupted
  /\ SuspendAt
  /\ UNCHANGED <<history, interrupted, pending_approval, answer, calls,
                 next_call, runs,
                 asked, approved, cut, saved, outside>>

\* RequiresApproval: the actor asks and waits for the answer.
CallAsks ==
  /\ AtCall /\ ~ interrupted
  /\ asked' = asked \cup {current}
  /\ pending_approval' = current
  /\ answer' = "none"
  /\ state' = "Paused"
  /\ place' = "approval"
  /\ UNCHANGED <<history, interrupted, suspended_wait, calls, completed,
                 next_call, runs,
                 approved, cut, saved, outside>>

\* "approve once": the call goes on, to its tool or to a wait.
Approve ==
  /\ place = "approval"
  /\ approved' = approved \cup {current}
  /\ pending_approval' = NoCall
  /\ \/ /\ RunTool
        /\ state' = "Streaming"
        /\ UNCHANGED <<suspended_wait, completed>>
     \/ SuspendAt /\ UNCHANGED runs
  /\ UNCHANGED <<history, interrupted, answer, calls, next_call, asked, cut,
                 saved, outside>>

\* "deny once".
Deny ==
  /\ place = "approval"
  /\ pending_approval' = NoCall
  /\ state' = "Streaming"
  /\ Complete("done")
  /\ place' = "next"
  /\ UNCHANGED <<history, interrupted, suspended_wait, answer, calls,
                 next_call, runs,
                 asked, approved, cut, saved, outside>>

\* Any other text: the loop waits for the next command.
AnswerInvalid ==
  /\ place = "approval"
  /\ answer' = "invalid"
  /\ UNCHANGED <<history, place, state, interrupted, suspended_wait,
                 pending_approval,
                 batch_vars, saved, outside>>

\* The tool returns; it may report itself cancelled without an interrupt.
ToolDone ==
  /\ place = "tool"
  /\ \E outcome \in {"done", "cancelled"} : Complete(outcome)
  /\ place' = "next"
  /\ UNCHANGED <<history, state, interrupted, suspended_wait, pending_approval,
                 answer,
                 calls, next_call, runs, asked, approved, cut, saved, outside>>

\* Mutant: a cancelled approval falls through to the tool.
InterruptRunsTool ==
  /\ place = "approval"
  /\ Input
  /\ pending_approval' = NoCall
  /\ RunTool
  /\ UNCHANGED <<history, state, interrupted, suspended_wait, answer, calls,
                 completed,
                 next_call, asked, approved, cut, saved>>

\* handle_control_command, Cancel or an interrupting signal, while a model
\* request, a tool or an approval is awaited.
InterruptTurn ==
  /\ place \in {"model", "tool", "approval"}
  /\ Input
  /\ interrupted' = TRUE
  /\ state' = "Idle"
  /\ pending_approval' = NoCall
  /\ \/ place = "model" /\ BackToReady
     \/ place # "model" /\ Complete("cancelled") /\ place' = "next" /\ UNCHANGED calls
  /\ UNCHANGED <<history, suspended_wait, answer, next_call, runs, asked,
                 approved, cut,
                 saved>>

--------------------------------------------------------------------------------
(* After the loop: the results go into the history in order.               *)

BatchOver == place = "next" /\ (Len(completed) = Len(calls) \/ Suspended)

\* How many results are stored: all of them, or those before the first
\* cancelled call when the session is suspended.
StoredResults ==
  LET stops == {i \in DOMAIN completed :
                  Suspended /\ completed[i].outcome = "cancelled"}
  IN IF stops = {} THEN Len(completed) ELSE Min(stops) - 1

WithResults(n) == history \o [i \in 1 .. n |-> Result(completed[i].call)]

\* Suspended: end the turn; the calls after the wait are never made.
StoreAndSuspend ==
  /\ BatchOver /\ Suspended
  /\ history' = WithResults(StoredResults)
  /\ cut' = cut \cup (Rest(StoredResults + 1) \ {suspended_wait})
  /\ BackToReady
  /\ UNCHANGED <<state, interrupted, suspended_wait, pending_approval, answer,
                 next_call,
                 runs, asked, approved, saved, outside>>

\* A cancelled call ends the turn, otherwise the loop asks the model again.
StoreAndGoOn ==
  /\ BatchOver /\ ~ Suspended
  /\ history' = WithResults(Len(completed))
  /\ \/ /\ \E i \in DOMAIN completed : completed[i].outcome = "cancelled"
        /\ state' = "Idle"
        /\ BackToReady
     \/ /\ \A i \in DOMAIN completed : completed[i].outcome # "cancelled"
        /\ place' = "model" /\ calls' = <<>> /\ completed' = <<>>
        /\ UNCHANGED state
  /\ UNCHANGED <<interrupted, suspended_wait, pending_approval, answer,
                 next_call, runs,
                 asked, approved, cut, saved, outside>>

\* Archiving an oversized result fails: the turn fails in the middle.  After a
\* wait was set that leaves an Idle session with an open wait (archive_failed).
StoreFails ==
  /\ ArchiveFails /\ BatchOver
  /\ \E n \in 0 .. StoredResults - 1 :
       /\ history' = WithResults(n)
       /\ cut' = cut \cup (Rest(n + 1) \ {suspended_wait})
  /\ state' = "Idle"
  /\ archive_failed' = (archive_failed \/ Suspended)
  /\ BackToReady
  /\ UNCHANGED <<interrupted, suspended_wait, pending_approval, answer,
                 next_call, runs,
                 asked, approved, saved, prompts, inputs>>

--------------------------------------------------------------------------------
(* Checkpoints and restarts.                                               *)

\* A Snapshot command is answered between turns and while the actor awaits;
\* on disk every state but Paused (and Destroyed) is read back as Idle.
Checkpoint ==
  /\ place # "next"
  /\ Input /\ inputs' < MaxInputs  \* one more input is left, the restart
  /\ saved' = [taken |-> TRUE, history |-> history,
               state |-> IF state = "Paused" THEN "Paused" ELSE "Idle",
               pending |-> pending_approval]
  /\ UNCHANGED <<history, place, state, interrupted, suspended_wait,
                 pending_approval,
                 answer, batch_vars>>

\* The harness stops, or crashes, and restores the last checkpoint.
Restart ==
  /\ saved.taken
  /\ Input
  /\ history' = Sanitize(saved.history)
  /\ state' = saved.state
  /\ pending_approval' = saved.pending
  /\ answer' = "none"
  /\ interrupted' = FALSE
  /\ suspended_wait' = NoCall
  /\ BackToReady
  /\ UNCHANGED <<next_call, runs, asked, approved, cut, saved>>

--------------------------------------------------------------------------------

Next ==
  \/ UserMessage \/ Resume \/ InterruptIdle \/ Continue
  \/ Unwind \/ Compact
  \/ EndTurn \/ ModelCalls
  \/ AbandonBatch \/ CallAnswered \/ CallTool \/ CallWait \/ CallAsks
  \/ Approve \/ Deny \/ AnswerInvalid
  \/ ToolDone \/ InterruptTurn
  \/ StoreAndSuspend \/ StoreAndGoOn \/ StoreFails
  \/ Checkpoint \/ Restart

Spec == Init /\ [][Next]_vars

\* The actor's own steps are taken: model requests and tools end, the loop
\* over a batch goes on.  Users and clients owe nothing.
Fairness ==
  WF_vars(EndTurn \/ AbandonBatch \/ CallAnswered \/ ToolDone
          \/ StoreAndSuspend \/ StoreAndGoOn)

FairSpec == Spec /\ Fairness

--------------------------------------------------------------------------------
(* Properties.                                                             *)

\* "unanswered tool call reached provider" (engine.rs:7470) never happens:
\* when the model is asked, every call in the history has its result.
UnansweredNeverReachesProvider ==
  place = "model" => \A c \in CallsIn(history) : Answered(history, c)

\* A call without a result when the model is asked is one whose batch was cut
\* short: waits ended by a prompt, an interrupt or their event, denials and
\* refused calls all leave an answer.
UnansweredWereCut ==
  place = "model" /\ ~ archive_failed =>
    \A c \in CallsIn(history) \ cut : Answered(history, c)

\* A result in the history has its call before it and is the only one for
\* it, whatever was compacted, unwound, restored or resumed in between.
EachResultOnce ==
  ~ archive_failed => \A c \in CallsIn(history) :
    /\ Cardinality(UsesOf(history, c)) = 1
    /\ Cardinality(ResultsOf(history, c)) <= 1
    /\ \A i \in UsesOf(history, c), j \in ResultsOf(history, c) : i < j

\* A suspended wait is an open call of the history: what resumes it has a
\* question to answer, also after a compaction or an unwind.
WaitIsOpen ==
  place = "ready" /\ Suspended /\ ~ archive_failed =>
    /\ UsesOf(history, suspended_wait) # {}
    /\ ResultsOf(history, suspended_wait) = {}

\* The history stays one a provider accepts, but for the calls of a cut batch.
HistoryIsPaired == EachResultOnce /\ WaitIsOpen /\ UnansweredWereCut

\* "approve once resumes the paused tool exactly once" and a denied, cancelled
\* or unanswered approval runs nothing (features/046): no call is started
\* twice, and one that needed an approval is started only after it.
ApprovedRunsOnce ==
  \A c \in Calls : runs[c] <= 1 /\ (runs[c] = 1 /\ c \in asked => c \in approved)

\* "deny deterministically on explicit rejection or invalid approval input"
\* (features/046:15): an answer that is no choice ends the approval.
InvalidAnswerDenies == (place = "approval" /\ answer = "invalid") ~> place # "approval"
================================================================================
