----------------------------- MODULE SessionMemory -----------------------------
(***************************************************************************)
(* Session memory and compaction of one root session: the background       *)
(* refresh that writes summary.md and summary.meta.json                    *)
(* (schedule_session_memory_refresh in engine.rs, memory/summary.rs), the  *)
(* compaction that replaces a prefix of the history by that summary        *)
(* (compaction.rs, memory/session.rs), unwind, checkpoint and restart.     *)
(*                                                                         *)
(* A message is its kind and the set of original messages it stands for:   *)
(* {id} for a message as it was said, more for a compaction summary.       *)
(* Positions count from 1, so an index i of the code is i + 1 here, and 0  *)
(* stands for None.  A tool round has one call (ActorTurn has the batches).*)
(***************************************************************************)
EXTENDS Naturals, SequencesExt

CONSTANTS
  MaxMessages,     \* bound on the messages said
  MaxCompactions,  \* bound on the compactions
  MaxUnwinds,      \* bound on the unwinds
  MaxRestarts,     \* bound on the restarts, and on the checkpoints
  MaxFailures,     \* bound on the failed writes
  MaxIncidents,    \* bound on the unwinds, restarts and failed writes together
  CallsMayBeCut    \* may an interrupt leave a tool call without a result

ASSUME MemoryAssumption ==
  /\ MaxMessages \in Nat /\ MaxCompactions \in Nat
  /\ MaxUnwinds \in Nat /\ MaxRestarts \in Nat
  /\ MaxFailures \in Nat /\ MaxIncidents \in Nat /\ CallsMayBeCut \in BOOLEAN

VARIABLES
  history,      \* session.history
  place,        \* "ready" between turns, "model" before a model request
  loaded,       \* the summary file, as a compaction in progress has read it
  in_flight,    \* session_memory.refresh_in_flight
  last_index,   \* session_memory.last_summarized_message_index
  summary,      \* summary.md
  metadata,     \* the index in summary.meta.json
  tasks,        \* the spawned refresh tasks
  finished,     \* SessionMemoryRefreshFinished on their way to the actor
  live,         \* the original messages the session is still about
  said,         \* how many messages were said
  saved,        \* the committed checkpoint
  counts        \* how many compactions, unwinds, checkpoints, restarts, failures

memory_files == <<in_flight, last_index, summary, metadata>>
memory == <<memory_files, tasks, finished>>
vars == <<history, place, loaded, memory, live, said, saved, counts>>

--------------------------------------------------------------------------------
(* Messages.                                                               *)

Ids == 1 .. MaxMessages

Message(kind, id) == [kind |-> kind, covers |-> {id}]
CompactSummary(ids) == [kind |-> "summary", covers |-> ids]

\* A summary file: not there (or the empty template), or what it tells of.
NoSummary == [written |-> FALSE, covers |-> {}]
SummaryOf(ids) == [written |-> TRUE, covers |-> ids]

Covers(h) == UNION {h[i].covers : i \in DOMAIN h}
IsKind(h, i, kind) == i \in DOMAIN h /\ h[i].kind = kind

\* summarize_messages: one line of each message.  The first line of an earlier
\* compaction's message names its archive and nothing else.
Summarized(h) == UNION {h[i].covers : i \in {j \in DOMAIN h : h[j].kind # "summary"}}

\* sanitize_restored_history: a call without a result disappears.
Sanitize(h) ==
  LET answered == {i \in DOMAIN h : h[i].kind = "use" => IsKind(h, i + 1, "result")}
  IN [n \in 1 .. Cardinality(answered) |->
        h[CHOOSE i \in answered : Cardinality({j \in answered : j <= i}) = n]]

\* live_tail_start: where the last user message or tool round begins.
LiveTailStart(h) ==
  LET n == Len(h)
  IN IF IsKind(h, n, "result") THEN IF IsKind(h, n - 1, "use") THEN n - 1 ELSE n
     ELSE IF IsKind(h, n, "use") \/ IsKind(h, n, "user") THEN n
     ELSE n + 1

\* Mutant: the tail starts right after the boundary, wherever that is.
TailAsIs(h, candidate) == IF candidate > Len(h) + 1 THEN 0 ELSE candidate

\* provider_safe_tail_start: never between a call and its result; 0 when there
\* is no such position.
ProviderSafeTailStart(h, candidate) ==
  IF candidate > Len(h) + 1 THEN 0
  ELSE IF ~ IsKind(h, candidate, "result") THEN candidate
  ELSE IF IsKind(h, candidate - 1, "use") THEN candidate - 1 ELSE 0

\* should_refresh_summary
ShouldRefresh(h) == ~ in_flight /\ h # <<>> /\ Len(h) > last_index

--------------------------------------------------------------------------------

Histories == Seq([kind : {"user", "text", "use", "result", "summary"},
                  covers : SUBSET Ids])

Files == [written : BOOLEAN, covers : SUBSET Ids]

TypeOK ==
  /\ history \in Histories
  /\ place \in {"ready", "model"}
  /\ loaded = <<>> \/ \E file \in Files : loaded = <<file>>
  /\ in_flight \in BOOLEAN /\ last_index \in 0 .. 2 * MaxMessages
  /\ summary \in Files /\ metadata \in 0 .. 2 * MaxMessages
  /\ \A i \in DOMAIN tasks :
       /\ tasks[i].stage \in {"scheduled", "summary", "metadata"}
       /\ tasks[i].history \in Histories
  /\ Cardinality({i \in DOMAIN tasks : tasks[i].stage # "scheduled"}) <= 1
  /\ finished \in Seq(0 .. 2 * MaxMessages)
  /\ live \subseteq 1 .. said /\ said \in 0 .. MaxMessages
  /\ saved.history \in Histories

Init ==
  /\ history = <<>> /\ place = "ready" /\ loaded = <<>>
  /\ in_flight = FALSE /\ last_index = 0
  /\ summary = NoSummary /\ metadata = 0
  /\ tasks = <<>> /\ finished = <<>>
  /\ live = {} /\ said = 0
  /\ saved = [taken |-> FALSE, history |-> <<>>, last_index |-> 0]
  /\ counts = [compactions |-> 0, unwinds |-> 0, checkpoints |-> 0, restarts |-> 0,
               failures |-> 0]

Count(what, bound) ==
  /\ counts[what] < bound
  /\ counts' = [counts EXCEPT ![what] = @ + 1]

Incidents == counts.unwinds + counts.restarts + counts.failures
Incident(what, bound) == Incidents < MaxIncidents /\ Count(what, bound)

\* The actor takes its next step: no compaction is under way.
At(where) == place = where /\ loaded = <<>>

--------------------------------------------------------------------------------
(* Turns.                                                                  *)

Say(kinds) ==
  /\ said + Len(kinds) <= MaxMessages
  /\ history' = history \o [i \in DOMAIN kinds |-> Message(kinds[i], said + i)]
  /\ live' = live \cup (said + 1 .. said + Len(kinds))
  /\ said' = said + Len(kinds)

\* schedule_session_memory_refresh: a task with its own copy of the history.
ScheduleRefresh(h) ==
  IF ShouldRefresh(h)
  THEN /\ in_flight' = TRUE
       /\ tasks' = Append(tasks, [stage |-> "scheduled", history |-> h])
  ELSE UNCHANGED <<in_flight, tasks>>

UserMessage ==
  /\ At("ready")
  /\ Say(<<"user">>)
  /\ place' = "model"
  /\ UNCHANGED <<loaded, memory, saved, counts>>

\* The model answers with text and the turn is over.
ModelText ==
  /\ At("model")
  /\ Say(<<"text">>)
  /\ ScheduleRefresh(history')
  /\ place' = "ready"
  /\ UNCHANGED <<loaded, last_index, summary, metadata, finished, saved,
                 counts>>

\* The model calls a tool, and is asked again with the result.
ToolRound ==
  /\ At("model")
  /\ Say(<<"use", "result">>)
  /\ UNCHANGED <<place, loaded, memory, saved, counts>>

\* The tool is cancelled: the result says so and the turn is over.
ToolCancelled ==
  /\ At("model")
  /\ Say(<<"use", "result">>)
  /\ ScheduleRefresh(history')
  /\ place' = "ready"
  /\ UNCHANGED <<loaded, last_index, summary, metadata, finished, saved,
                 counts>>

\* The session is interrupted before the call: it stays without a result.
CallCut ==
  /\ CallsMayBeCut
  /\ At("model")
  /\ Say(<<"use">>)
  /\ place' = "ready"
  /\ UNCHANGED <<loaded, memory, saved, counts>>

\* The request fails or is interrupted.
ModelFails ==
  /\ At("model")
  /\ place' = "ready"
  /\ UNCHANGED <<history, loaded, memory, live, said, saved, counts>>

--------------------------------------------------------------------------------
(* The refresh task.  It holds the lock of refresh_handle from its first    *)
(* write until it has reported.                                             *)

LockHeld == \E i \in DOMAIN tasks : tasks[i].stage # "scheduled"

Advance(i, stage) == tasks' = [tasks EXCEPT ![i].stage = stage]

\* std::fs::write empties the file and then writes it: what a reader, a failed
\* write or a crash finds may be the empty file of the write under way, which
\* reads like none.
Found(text, index) ==
  \/ text = summary /\ index = metadata
  \/ text = NoSummary /\ index = metadata /\ tasks # <<>> /\ ~ LockHeld
  \/ text = summary /\ index = 0 /\ \E i \in DOMAIN tasks : tasks[i].stage = "summary"

\* refresh_summary_from_history writes summary.md ...
WriteSummary ==
  \E i \in DOMAIN tasks :
    /\ tasks[i].stage = "scheduled" /\ ~ LockHeld
    /\ summary' = SummaryOf(Summarized(tasks[i].history))
    /\ Advance(i, "summary")
    /\ UNCHANGED <<history, place, loaded, in_flight, last_index, metadata,
                   finished,
                   live, said, saved, counts>>

\* ... and then summary.meta.json.
WriteMetadata ==
  \E i \in DOMAIN tasks :
    /\ tasks[i].stage = "summary"
    /\ metadata' = Len(tasks[i].history)
    /\ Advance(i, "metadata")
    /\ UNCHANGED <<history, place, loaded, in_flight, last_index, summary,
                   finished,
                   live, said, saved, counts>>

\* The task reports the new boundary.
Report ==
  \E i \in DOMAIN tasks :
    /\ tasks[i].stage = "metadata"
    /\ tasks' = RemoveAt(tasks, i)
    /\ finished' = Append(finished, Len(tasks[i].history))
    /\ UNCHANGED <<history, place, loaded, in_flight, last_index, summary,
                   metadata,
                   live, said, saved, counts>>

\* Mutant: a task that failed does not report.
FailsSilently ==
  \E i \in DOMAIN tasks :
    /\ tasks[i].stage = "summary" \/ (tasks[i].stage = "scheduled" /\ ~ LockHeld)
    /\ Incident("failures", MaxFailures)
    /\ tasks' = RemoveAt(tasks, i)
    /\ Found(summary', metadata')
    /\ UNCHANGED <<history, place, loaded, in_flight, last_index, finished, live,
                   said, saved>>

\* Writing summary.md or summary.meta.json fails, before the file is emptied or
\* after: the task reports None.
ReportFailure ==
  \E i \in DOMAIN tasks :
    /\ tasks[i].stage = "summary" \/ (tasks[i].stage = "scheduled" /\ ~ LockHeld)
    /\ Incident("failures", MaxFailures)
    /\ tasks' = RemoveAt(tasks, i)
    /\ finished' = Append(finished, 0)
    /\ Found(summary', metadata')
    /\ UNCHANGED <<history, place, loaded, in_flight, last_index, live, said, saved>>

\* handle_command(SessionMemoryRefreshFinished), deferred during a turn.
RefreshFinished ==
  /\ At("ready")
  /\ finished # <<>>
  /\ finished' = Tail(finished)
  /\ in_flight' = FALSE
  /\ last_index' = IF Head(finished) # 0 THEN Head(finished) ELSE last_index
  /\ UNCHANGED <<history, place, loaded, summary, metadata, tasks, live, said,
                 saved,
                 counts>>

--------------------------------------------------------------------------------
(* compact_session_history, between turns or before a model request.        *)

\* apply_compaction_plan
ApplyPlan(ids, tail) ==
  history' = <<CompactSummary(ids)>> \o SubSeq(history, tail, Len(history))

\* summarize_history and legacy_compaction_plan: the model summarizes
\* everything before the tail.
LegacyPlan ==
  ApplyPlan(Covers(SubSeq(history, 1, LiveTailStart(history) - 1)),
            LiveTailStart(history))

CanCompact ==
  /\ loaded = <<>>
  /\ LiveTailStart(history) > 1
  /\ Count("compactions", MaxCompactions)

\* A refresh in flight holds the lock for longer than the 250 ms of
\* SESSION_MEMORY_REFRESH_WAIT.
CompactTimeout ==
  /\ CanCompact
  /\ in_flight /\ LockHeld
  /\ LegacyPlan
  /\ UNCHANGED <<place, loaded, memory, live, said, saved>>

\* load_compaction_snapshot: the lock was free, and is free again; summary.md
\* is read ...
CompactReads ==
  /\ CanCompact
  /\ ~ (in_flight /\ LockHeld)
  /\ \E text \in {summary, NoSummary} : Found(text, metadata) /\ loaded' = <<text>>
  /\ UNCHANGED <<history, place, memory, live, said, saved>>

\* The snapshot is there, and its boundary is the one the session knows.
SnapshotUsable(index) ==
  /\ loaded[1].written /\ index # 0
  /\ last_index # 0 => last_index = index

\* ... and then summary.meta.json.  compaction_plan_from_snapshot keeps what is
\* behind the boundary, and gives up when that is less than the live tail.
CompactPlans ==
  /\ loaded # <<>>
  /\ loaded' = <<>>
  /\ \E index \in {metadata, 0} :
       LET tail == ProviderSafeTailStart(history, index + 1)
       IN /\ Found(summary, index)
          /\ IF SnapshotUsable(index) /\ tail # 0 /\ tail <= LiveTailStart(history)
             THEN ApplyPlan(loaded[1].covers, tail)
             ELSE LegacyPlan
  /\ UNCHANGED <<place, memory, live, said, saved, counts>>

--------------------------------------------------------------------------------
(* Unwind, checkpoint, restart.                                             *)

\* unwind_history: the memory of the session is reset and its files removed,
\* but a refresh task that runs is not stopped.  What it is just writing goes
\* into the removed file.
Unwind ==
  /\ At("ready")
  /\ Incident("unwinds", MaxUnwinds)
  /\ \E i \in DOMAIN history : history' = Sanitize(SubSeq(history, 1, i - 1))
  /\ live' = live \cap Covers(history')
  /\ in_flight' = FALSE /\ last_index' = 0
  /\ summary' = NoSummary /\ metadata' = 0
  /\ \/ UNCHANGED tasks
     \/ \E i \in DOMAIN tasks :
          \/ tasks[i].stage = "scheduled" /\ ~ LockHeld /\ Advance(i, "summary")
          \/ tasks[i].stage = "summary" /\ Advance(i, "metadata")
  /\ UNCHANGED <<place, loaded, finished, said, saved>>

\* A Snapshot command is answered and the checkpoint committed.
Checkpoint ==
  /\ loaded = <<>>
  /\ Count("checkpoints", MaxRestarts)
  /\ saved' = [taken |-> TRUE, history |-> history, last_index |-> last_index]
  /\ UNCHANGED <<history, place, loaded, memory, live, said>>

\* The harness stops, or crashes, and restores the checkpoint; the files stay.
Restart ==
  /\ saved.taken
  /\ Incident("restarts", MaxRestarts)
  /\ history' = Sanitize(saved.history)
  /\ live' = Covers(history')
  /\ last_index' = saved.last_index
  /\ in_flight' = FALSE /\ tasks' = <<>> /\ finished' = <<>>
  /\ place' = "ready" /\ loaded' = <<>>
  /\ Found(summary', metadata')
  /\ UNCHANGED <<said, saved>>

--------------------------------------------------------------------------------

Next ==
  \/ UserMessage \/ ModelText \/ ToolRound \/ ToolCancelled \/ CallCut \/ ModelFails
  \/ WriteSummary \/ WriteMetadata \/ Report \/ ReportFailure \/ RefreshFinished
  \/ CompactTimeout \/ CompactReads \/ CompactPlans
  \/ Unwind \/ Checkpoint \/ Restart

Spec == Init /\ [][Next]_vars

\* Spawned tasks run, requests to the model end, a compaction goes on, and a
\* command in the actor's queue has its turn, whatever else arrives.
Fairness ==
  /\ WF_vars(WriteSummary \/ WriteMetadata \/ Report)
  /\ WF_vars(ModelText \/ ModelFails)
  /\ WF_vars(CompactPlans)
  /\ SF_vars(RefreshFinished)

FairSpec == Spec /\ Fairness

--------------------------------------------------------------------------------
(* Properties.                                                             *)

\* "preserve the live unsummarized tail after the recorded boundary"
\* (features/038:25): a compaction drops no message its summary does not tell
\* of, whichever refresh, failure or restart came between.
CompactionLosesNothing == live \subseteq Covers(history)

\* The same for the first compaction, without a failed write, an unwind or a
\* restart: whatever stage a refresh is at, whichever report is on its way.
FirstCompactionLosesNothing ==
  counts.compactions <= 1 /\ Incidents = 0 => CompactionLosesNothing

\* What was unwound, or lost with a crash, does not come back with a summary.
NothingComesBack == Covers(history) \subseteq live

\* "compaction protects tool-use/tool-result pair integrity"
\* (docs/design/002:751): every result is right behind its call.
PairsKept ==
  \A i \in DOMAIN history :
    history[i].kind = "result" => IsKind(history, i - 1, "use")

\* A first compaction keeps what the session is about, and the calls with their
\* results (compaction_plan_from_snapshot, provider_safe_tail_start).
FirstCompactionIsSafe == FirstCompactionLosesNothing /\ PairsKept

\* "Keep session memory cumulative across refreshes so compaction can preserve
\* continuity for the whole summarized prefix" (memory/summary.rs): the summary
\* a task has written tells of all the messages the task has seen.
SummaryIsCumulative ==
  \A i \in DOMAIN tasks :
    tasks[i].stage = "metadata" => Covers(tasks[i].history) \subseteq summary.covers

\* A refresh does not stay in flight for ever, which would stop all later ones.
RefreshSettles == in_flight ~> ~ in_flight
================================================================================
