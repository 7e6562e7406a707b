# A TLA+ model of quine

quine runs LLM agents: a *harness* (a daemon, or a library in the client's own
process) owns a *core*, and the core runs one task per session. A session turns
prompts into model requests, runs the tools the model calls, spawns child
sessions, waits for them and talks to them, and survives restarts through
checkpoints. Clients (terminal, chat, Telegram, one-shot commands) talk to the
daemon over JSON-RPC. This directory holds the specifications of that behaviour,
the TLC configurations that check them on small instances, and proofs that TLAPS
checks.

- [Inventory](#inventory)
- [What is modelled, and how it corresponds to the code](#what-is-modelled)
- [The runs](#the-runs)
- [The properties](#the-properties)
- [What the runs found](#what-the-runs-found)
- [Fairness](#fairness)
- [What is proved](#what-is-proved)
- [What is not modelled](#what-is-not-modelled)

Paths are relative to `src/`; `engine.rs`, `session_tree.rs`, `compaction.rs`
and so on are those of `crates/quine-core/src/`, `local.rs`, `server.rs` and
`storage.rs` those of `crates/quine-harness/src/`, `app.rs` and `chat.rs` those of
`crates/quine-cli/src/`.

## Inventory

| Part | State | Operations | Talks to | Hard |
|---|---|---|---|---|
| **Core loop** (`run_core_loop`, engine.rs:6644) | registry of sessions, `pending_child_interactions`, python groups | routes every `CoreInput`; spawns, restores and shuts down sessions; snapshots | actors (bounded command channels), their `RuntimeEvent`s, scheduler, harness | ordering of exits and messages; awaiting a reply from a task that may be blocked |
| **Session actor** (`SessionActor`, engine.rs:4758) | `SessionContext`, deferred commands | `next_command`, `handle_command`, `handle_turn`, `execute_tool_call`, `handle_control_command` | core loop, session tree, provider, tools | commands that arrive during a turn; waits; interrupts |
| **Session tree** (`session_tree.rs`) | parents, exit statuses, exit waiters, the wait-for graph | `add_child`, `record_exit`, `register_waiter`, `register_active_wait`, `wait_would_cycle`, `restore` | shared by core loop and actors under a lock | wait cycles; waiter against exit |
| **History and turn loop** (engine.rs:447, 5354) | messages, the batch of calls, suspended wait, pending approval | turn, compact, unwind, sanitize, checkpoint | provider, permission engine | calls and results stay paired through every cut |
| **Session memory** (`memory/session.rs`, `memory/summary.rs`, `compaction.rs`) | two files, an index, a flag, a lock | background refresh, compaction plan with fallback | turn loop, files | a refresh races compaction, unwind and crashes |
| **Persistent memory** (`memory/scopes.rs`, `memory/prompt.rs`, `memory_store.rs`) | entry files per scope, an index, tombstones, the extraction boundary | extract, sweep, recall into the prompt | harness | files and index change in steps; scopes of other holders |
| **Interaction routing** (engine.rs:4777, 6734, 6920) | one pending child per root | ask, show, answer, cancel | actors, harness, clients | an answer names the root only |
| **Scheduler** (`scheduler.rs`) | timed messages, recurring events, mailboxes | schedule, cancel, fire, send, receive, shut down | core loop through a bounded channel | waits in both directions; what is always due |
| **Permissions** (`permission/`) | rules, mode, behaviour, pending approval | evaluate, approve, plan mode, inherit | turn loop | precedence; inheritance along several paths |
| **Planner** (`planner/`, `tool/plan.rs`) | graph of actions with their status | validate, ready actions, skip dependents, progress | plan tool, history | failures deep in the graph |
| **Subagents** (`tool/subagent.rs`, `tool/spawn.rs`) | a cancel flag, a task of its own | spawn, wait, poll, cancel | core loop | a cancel crosses a creation or an exit |
| **Python runtime** (`python/runtime.rs`) | a worker process per group, persisted globals, staged restores | exec, snapshot, restore | actors, core loop | dropped calls leave answers in a pipe |
| **Files and tools** (`filesystem/`, `tool/`) | a rooted file system, process groups | patch, find, bash | actors | steps of several sessions on one file; timeouts |
| **Harness** (`local.rs`) | listing, subscribers, stored checkpoint, commit lock | create, spawn, send, checkpoint, restart, fan-out | core, server | two writers of the listing; stale snapshots |
| **Storage** (`storage.rs`) | checkpoint files, manifest | commit, load | harness | crashes between write, sync and rename |
| **Server, SDK** (`server.rs`, quine-sdk) | connections, active turns | requests, notifications | harness, clients | time-outs, lagging subscribers, labels of turns |
| **Daemon processes** (`client.rs`, `main.rs`) | sockets, processes | launch, health check, stop, take over | each other through files | two launchers; hung daemons |
| **Providers** (`crates/quine-llm`) | the state of a stream's parser | retry, parse deltas, assemble calls | turn loop | chunks cut anywhere |
| **Telegram bridge** (`plugins/telegram.rs`) | chats, offset | poll, handle, answer | server | tasks of one chat interleave; redelivery |
| **Terminal interface** (`tui/`) | `App`: phase, conversation, popups, input | keys, notifications, drawing | server | anything arrives between two keys |
| **Chat prompt** (`chat.rs`, `session.rs`) | a session, plan mode | send, read until the turn is over | server | notifications of other turns |
| **Session setup** (`skill.rs`, `model_profiles.rs`, engine.rs:552) | skills, tools, prompt, provider | create, spawn, fork, restore, rebuild | files, harness | built along several paths |
| **Configuration, metrics, logs, usage** | - | parse, write | everyone | I/O only |

What makes each part correct is what [its properties](#the-properties) say.
`PROJECT.json` lists every component with its status and every hazard, at the
line where it bites, with the properties that address it.

## What is modelled

The modules come in layers, and the system is composed in the places where its
parts share state: `SessionActors` extends `SessionTree`; `Durability` uses the
durable cell that `CheckpointFiles` implements; `InteractionRouting`, `Scheduler`
and `Subagents` each have the core loop's side of the exchange; `IpcServer`, `Tui`,
`ChatRepl` and `TelegramBridge` each have a daemon that is reduced to what it sends.
The MC modules `MCCoreServices`, `MCDurability`, `MCDaemon`, `MCClients` and
`MCServices` put modules that share no variables into one run: a variable chosen at
the start (`service`, `layer` or `focus`) says which of them a behaviour is of, and
the others rest. That is the union of their state spaces and not the product; nothing
is claimed about their interplay beyond what a module itself contains.

### Core: sessions, turns, memory

- **`SessionTree`** - session_tree.rs. `exit_statuses`, `exit_waiters`,
  `active_waits` and `parents` are the fields of the struct; one action per method.
  The loop of `wait_would_cycle` is written as the smallest set closed under waits
  (`Visited`), so that the module can be proved about; `MCSessionTree` has the loop
  itself (`Walk`) and checks that both agree.
- **`SessionActors`** - the actors and the core loop of engine.rs, extending
  `SessionTree`. `pc[s]` says where a task is: not spawned, between turns, awaiting a
  model or a tool, between the look for a child's exit and the registration of the
  wait (the two critical sections of `wait_child`), or stopped. Handlers come in two
  kinds, as in the code: `handle_command` between turns (`UserMessage`, `Continue`,
  `MailboxMessage`, `ChildExited`, `ToolResult`, `WaitTimeout`, `InterruptIdle`) and
  `handle_control_command` during one (`DeferCommand`, `ControlMessage`,
  `InterruptTurn`). The routing actions, `SpawnSession`, `ChildFinished` and `Announce`
  are the core loop, which does nothing else while it broadcasts an exit. A sender to a
  channel that holds `CommandCap` commands waits for room.
- **`ActorTurn`** - one turn loop and the history it builds, reduced to which calls
  a message makes or answers. The batch of an answer goes into the history at once,
  results after the loop; in between the session may be asked for an approval,
  interrupted, suspended, checkpointed or killed. `Sanitize` (with `At`, the messages at some
  positions in their order) and `TailStart` are
  translated as operators. A result that cannot be archived (`StoreFails`) ends the
  turn; after a wait in the same batch that leaves an idle session with a wait
  (`archive_failed`), which the history properties exclude by name.
- **`SessionMemory`** - refresh, compaction, unwind and restart. A message is its
  kind and the set of original messages it stands for, so "lost" and "came back" can
  be said. A refresh task has its own copy of the history and three steps (write
  `summary.md`, write `summary.meta.json`, report). A compaction reads the two files in
  two steps, because the code drops the guard before it reads them. A write empties its
  file first: while one is under way a reader, a failure or a crash may find the empty
  file (`Found`), and an unwind may let it go into the removed one.
- **`InteractionRouting`** - questions and approvals of a root and its children: the
  runtime-event channel, the core's input, one command channel per session, and
  `pending_child_interactions` with its single entry per root. An answer carries, as
  history, the request it was given to.
- **`Scheduler`** - commands, the queue ordered by time, recurring events that are
  requeued before they are sent, mailboxes, shutdown; the core loop awaits the reply of
  each command while the scheduler's dispatch waits for room in the core's input.
  With that input full, both wait for ever (`Jammed`).
- **`Subagents`** - the subagent tool is a task of its own that outlives its session's
  interrupt and has a cancel flag with a guard; `spawn` is polled by its session and
  stops with it. The core's queue is bounded (`CoreRoom`); children delegate again.

### What a turn uses

- **`ModelStream`** - a request to a provider: retries before the stream opens, then
  deltas cut into chunks at any place. Text is a sequence of words and halves of tags;
  a call's arguments arrive in `Fragments` pieces. Network chunks are decoded one by one,
  so one of them may garble the word or the piece it cuts (`sent.torn`, one in a stream).
  Four kinds of providers, with the places where they differ; calls without numbers share
  a slot in one of them.
- **`Permissions`** - `SessionActor::execute_tool_call` with what it asks of
  `permission/`: scope and resource of a call, the rooted boundary of paths,
  rule precedence over user and workspace files, risk of a command split into segments,
  plan mode, headless and interactive behaviour, grants that are remembered, children by
  spawn, fork and schedule, restore.
- **`Planner`** - validation, `ready_actions`, skipping of dependents, progress reports
  and the naming of plans by the call that created them.
- **`FileTools`** - `apply_patch` (read, edits in memory, write), `find` (a walk with an
  await per directory) and `bash` (a process group, background children, time-out and
  cancel) on one disk. Every await is a step. A write empties the file and then fills it,
  piece by piece at an offset of its own (`Truncate`, `Fill`), or fails on the way, so two
  writers can mix; `spoilt` marks the files to which that happened.
- **`PythonRuntime`** - the group's lock, a worker with an input and an output pipe
  without request ids, staged restores, one retry after a lost worker or an answer that
  does not parse, a call that is dropped at any await, and lines that executed code writes
  to the descriptor of the answers. `overdue` counts the lines in the pipes that nobody
  waits for.
- **`MemoryRecall`** - what users ask to remember, prefer or forget, its extraction
  into scopes by policy, entry files, sweep and index, and recall under a character
  budget. Words of an entry decide whether it is recalled.
- **`SessionSetup`** - skills found in the project's, its commands' and the home
  directory, tools and prompt built from them at create, spawn, fork, restore and
  rebuild, and the model's profile.

### Durability

- **`CheckpointStore`** - the abstract cell: a commit takes effect as a whole or not
  at all.
- **`CheckpointFiles`** - the steps of storage.rs: temporary file, sync, rename, manifest,
  any of which fails or is the daemon's last. `ImplementsStore` is the refinement, with
  `stored <- Latest` and `committing <- writing`.
- **`Durability`** - sessions change (messages, compactions), hints lead to snapshots on a bounded output
  channel, and the fan-out merges and commits them, while `unwind_session` and
  `get_session_context` commit snapshots of their own; crashes, failed writes, a previous
  checkpoint that does not load, the memory extraction and its boundary.

### The daemon and its clients

- **`HarnessService`** - the listing beside the core's registry, written when a call
  returns and when the fan-out reads an event; spawned and scheduled children, model
  profiles, checkpoints, and startup from one.
- **`IpcServer`** - connections with a request queue, a forwarder of broadcast events
  with limited room, the map of active turns that gives a notification its label, and
  two client libraries (`cli`, `sdk`).
- **`DaemonProcess`** - daemons that bind a socket, hang, answer late, die, are stopped
  or replaced; launchers that try the path, connect or give up, remove the socket file,
  spawn and poll, each step by itself; the checkpoint they share.
- **`TelegramBridge`** - polling in batches, one task per update that reads and writes
  the chat's state in separate critical sections, restarts. A tap carries the question whose
  button it was only as history: the code gets an index and compares no message.
- **`Tui`** - the session state of the terminal interface; **`TuiScreen`** - its rows,
  cache, scrolling and selection; **`TuiPanels`** - the input line in its box, history, the
  completions of commands, model profiles and sessions, the options of a question and the
  popups.
- **`ChatRepl`** - the prompt that sends a line and then reads notifications until a
  turn ends.

Definitions commented `Mutant:` are plausible bugs; each property is seen to fail when
one of them replaces the definition it mutates.

## The runs

Each run asks one question of a group of parts. The numbers are the bounds of its
configuration; a bound is a guard of the actions that bring something new into the
system, never of the ones that react to it.

| Run | Configuration | What it explores |
|---|---|---|
| `session_tree` | `MCSessionTree.cfg` | 3 sessions, 1 waiter, 2 statuses; every method in any order; deadlock is checked |
| `actors_three` | `MCSessionActors.cfg` | 3 sessions (a chain or siblings), 1 input, 2 tool rounds each, channels of 2; symmetric in the spawned ones |
| `actors_pair` | `MCSessionActorsPair.cfg` | a root and a child, 2 inputs, 3 tool rounds each, waits with and without a deadline; fair |
| `turn` | `MCActorTurn.cfg` | 3 calls in batches of up to 3, 2 prompts, 2 other inputs (interrupt, unwind, compaction, checkpoint, restart); any result may fail to be archived |
| `memory` | `MCSessionMemory.cfg` | 6 messages, a compaction (more of them are left to the proof), one of an unwind, a restart and a failed write; fair |
| `core_services` | `MCCoreServices.cfg` | *scheduler*: 2 messages, once and recurring, time up to 2, an input of 2 that fills, shutdown; *routing*: a root and 2 children, 2 requests, 1 cancel or signal; fair |
| `durability` | `MCDurability.cfg` | *harness*: 2 sessions, 2 messages each and a compaction, 1 fact, an output of 1, 2 turns, 1 request, 1 fault (a crash, a failed write or a failed load); *files*: 3 checkpoints, 4 generations |
| `daemon` | `MCDaemon.cfg` | *harness*: 2 sessions, 1 group, 1 profile, 1 request at a time, 1 turn, 1 restart; *ipc*: a client with each library that runs each call, or two calls around a turn, and goes on after a time-out, beside a second one that listens; 1 time-out, room for 2 in the broadcast and in the forwarder's channel; *process*: 3 daemons, a one-shot command and a chat, 2 hangs, 2 deaths, 1 checkpoint written; *python*: 3 callers, 1 dropped call, 1 death of the worker, 2 printed lines |
| `clients` | `MCClients.cfg` | *telegram*: 2 tasks; 3 updates and a question, 2 with two questions and a failure, or 2 with a restart; *tui*: 8 cases of 2 to 5 keys with what the daemon does meanwhile; *chat*: 2 cases of 3 or 4 lines with questions, other clients' turns and a lost daemon; *screen*: 2 sizes, 3 entries, 5 events; *panels*: lines of up to 4 characters of 3 kinds in a box with room for 2 or 5 rows, 6 keys, lists of up to 4 entries, 2 window sizes |
| `services` | `MCServices.cfg` | *providers*: 13 scripts, one torn character per stream; *permissions*: 2 sessions, 11 calls, 3 sets of rule files; *plans*: 22 drafts of up to three actions, valid or not, or two plans at once; *files*: pairs of 17 calls in 3 scenes; *delegation*: 2 children that may delegate, a queue of 2; *memory*: 2 holders, 12 policies, 2 or 3 messages; *setup*: 2 layouts of skill files, a parent and a child |
| `tui_answer` | `MCClientsAnswer.cfg` | violated, see below |
| `turn_unanswered` | `MCActorTurnOrder.cfg` | violated, see below |

Why the bounds are enough. A ring of waits needs two sessions and one that a one-hop test
misses needs three; the races of `wait_child` need one parent, one child and one exit. A wait
in the middle of a batch with calls before and after it needs three calls; a checkpoint and a
restart, or an interrupt and an unwind, are two inputs around two prompts. Two refreshes, a
compaction between or during them and a tool round at its edge are six messages. A question
that another one overtakes needs two children and two requests. An old snapshot committed
after a new one needs one request beside the fan-out and two turns; a boundary beyond the end of a history, one compaction of two messages. A commit over a commit
that failed, after a first one that did not, is three generations. An
answer in a Python pipe that belongs to nobody needs one dropped call and a second caller, or one
printed line; a line that is printed in a retry, two. A late answer in front of the next
one needs a client that goes on after a time-out; a notification that is skipped, one more event than the
broadcast has room for; a shared label, a second connection. A core that awaits a scheduler which waits for
room needs one recurring message, one call and a channel that the two fill. Two
Telegram tasks that interleave need two updates; a tap on a question that was replaced needs a
third. A cursor that leaves its window needs a list longer than the window: 4 entries in
2 or 3 rows. A plan in which a failure must reach an action through another one
needs three actions. Two sessions that edit one file, each with two edits, meet at every pair of
awaits, and a short text over a long one leaves the long one's tail. Two facts whose titles or identifiers collide are two messages.

Symmetry is used for sessions, tasks, children and holders in runs that check no liveness.
`CHECK_DEADLOCK FALSE` stands where the system may rest: nobody has to send another prompt,
press another key or start another command, and a part whose bound is reached stops. Only
`session_tree` never may, and deadlock is checked there.

`ActorTurn`, `SessionActors`, `SessionMemory`, `InteractionRouting`, `Scheduler`, `Durability`,
`CheckpointFiles` and `SessionTree` each state the type of their variables (`...TypeOK`); that of
`SessionTree` is checked and proved, that of `CheckpointFiles` proved, and the others document the
state (they hold under the configurations here; none is listed, being no news).

## The properties

Several properties are conjunctions of what one part promises; this is what they consist of.

| Property | Parts | What it says |
|---|---|---|
| `WaitsAcyclic`, `ParentsAcyclic`, `NoWaiterLeftBehind`, `NotifiedOnce`, `LoopAgrees` | - | no ring of waits or of parents; a queued waiter's session still runs and a waiter is told once; the loop of the code computes `Visited` |
| `NobodyIsStuck` | `NoWaitDeadlock`, `NoLostChildWakeup` | no running sessions wait in a ring, and none waits for an exit that was announced without it |
| `GraphIsTrue` | `SuspendedHasEdge`, `EdgeIsSuspended` | the wait-for graph and `suspended_wait` agree, both ways |
| `WakeupsArrive` | `NoLostChildWakeup`, `NoLostMessageWakeup`, `ToldAfterRecorded` | an exit or a message reaches the session that waits for it, not before it is recorded |
| `InterruptedIsAtRest`, `ChildNeverVanishes`, `WaitChildReturns`, `DeferredAreHandled`, `ImplementsTree` | - | an interrupted session works only after a new prompt; every stopped child is reported; a wait for a child that ended ends; deferred commands are handled; every step uses the tree as one of its methods |
| `HistoryIsPaired` | `EachResultOnce`, `WaitIsOpen`, `UnansweredWereCut` | a result has one call before it; a suspended wait is an open call; only a cut batch leaves calls open |
| `ApprovedRunsOnce` | - | a call that needs an approval runs once, and only after it |
| `FirstCompactionIsSafe` | `FirstCompactionLosesNothing`, `PairsKept` | the first compaction, with no unwind, crash or failed write before it, drops nothing that is not in a summary; no result is cut from its call |
| `RefreshSettles` | - | no refresh stays in flight |
| `AskIsNeverLost` | - | while requests do not overlap and approvals are answered with a choice, the request of a session that asks, or its answer, is on a way that ends at that session |
| `KeepsItsBeat` | - | a recurring event keeps its distance, whatever delays its sending |
| `SchedulerServes` | `IpcAnswered`, `DueIsDelivered`, `ShutdownCompletes` | with positive cadences a call of the scheduler is answered, what is due is delivered, and shutdown ends, unless core and scheduler wait for each other over the core's full input (`Jammed`) |
| `DiskFollowsSessions` | `StaleOnlyIfOvertaken`, `MemoryFollowsHistory` | the stored history is one the session has had since it last announced a change, unless a commit was overtaken or failed; memory is what was said last |
| `BoundaryNeverRegresses` | - | the extraction boundary never moves back, unless the previous checkpoint could not be loaded |
| `ImplementsStore` | - | the files are one durable cell |
| `ListingsAgree` | `ListingAgrees`, `TreeShowsEachOnce` | at rest the listing has every live session, with the state and group of the core for those a client created; trees show each once |
| `RequestsAreAnswered` | `AnsweredInOrder`, `TurnEndIsSeen`, `LabelsAreOwn` | each request is answered once and in order, late answers included; a client that collects a turn sees its end, if its forwarder skipped no event and found no entry of another turn in the shared map, and (`LabelsAreOwn`) it finds one only beside a second connection or after a skip |
| `OwnsWhatItSpawned` | - | a chat that will shut its daemon down is connected to the one it launched, unless another command launched one at the same path |
| `AnswersAreOwn` | - | in the pipes of a live worker there is one line more than the dropped calls and printed lines account for exactly when somebody reads, and it is the reader's own; with none of those, what a Python caller reads is its own answer, through crashes, answers that do not parse, restores and retries |
| `MessagesAreHandled` | `UpdatesHandledOnce`, `AnswersMeetTheirQuestion` | an update that Telegram forgot was handled, again only after a restart; while updates are handled one after the other and none fails half way, an answer is taken by the question that the chat showed as pending, which is the one whose button was tapped unless a newer one was shown |
| `TerminalFollowsSession` | `TextShownOnce`, `AnswersFit`, `OfferedPlanIsFresh`, `PhaseSettles` | no text twice (unless the session is reloaded with notifications waiting), a question gets one of its options (unless a completion is open or a cancel crosses it), the plan offered is the one just written (unless messages were sent during a turn), and the phase is idle when nothing runs |
| `PromptEndsWithItsTurn` | - | the prompt comes back when its turn is over, but for notifications of turns it did not start |
| `ScreenIsTrue` | `ScreenIsCurrent`, `CopiedWasShown` | cached rows are those of the entries; what is copied was highlighted |
| `PanelsAreTrue` | `CursorFollowsText`, `HighlightIsShown`, `DraftSurvivesHistory` | the cursor is where the next character is drawn, or on the last row of a full box when the line is taller than it; the selected entry is on the screen, the draft comes back |
| `StreamIsFaithful` | `ChunksDoNotMatter`, `CallsArriveWhole`, `RetriesArePaced`, `ResultsFollowTheirCalls` | the turn does not depend on where deltas are cut, unless that is within a think tag, and a cut of the network changes at most the word or the piece of an argument it goes through; calls are whole where the provider tells them apart; retries are bounded and spaced; results follow their calls |
| `RulesAreKept` | `HeadlessNeverWaits`, `FilesStayInside`, `DenialsAreInherited`, `PlanFlagAgrees` | a session nobody answers waits for no approval; no call reaches a file outside the root; a child that a tool spawned runs nothing that the rules of its parent deny, of a tool or of a file; plan mode and what it forbids agree |
| `PlansAdvance` | `PlansCanFinish`, `NothingWaitsForAFailure`, `ProgressIsOfItsPlan` | an accepted plan can be finished, nothing waits behind a failure, progress names its plan |
| `ToolsAreWhole` | `PatchesAreWhole`, `FindsWhatWasThere`, `NothingOutlivesATimeout` | a file that is not being written has the whole of a patch or none of it, unless somebody read or wrote it while another wrote it or its writing failed; a search reports nothing that was never there and, up to its limit, all that was there all the time; a command that timed out leaves nothing |
| `NoSubagentIsForgotten` | - | once its call has ended a subagent is at rest or about to be cancelled |
| `MemoryIsKept` | `MemoryBreaksNoTurn`, `RememberedIsKept`, `RecallStaysInScope` | memory fails a turn only while an extraction writes or after one was cut short; what was asked to be kept is on disk, unless another fact shares its id or title; no session is shown another holder's notes |
| `SetupAgrees` | `ReportMatchesSession`, `PromptListsItsTools`, `ModelIsItsProfile` | what is reported, what the prompt lists and the model used are the session's, as long as the files are those it was made from |

`PROJECT.json` names for every property a mutant that breaks it; for a conjunction that is a
mutant of one of its parts.

## What the runs found

Two runs are violated, and `findings` in `PROJECT.json` quotes what they contradict.

| Run | Property | What happens |
|---|---|---|
| `tui_answer` | `QuestionsTakeText` | a question without options, or whose "Other..." was chosen, takes no text: `submit_input` asks for the option list first (app.rs:1282) |
| `turn_unanswered` | `UnansweredNeverReachesProvider` | a wait in the middle of a batch suspends the session; the calls after it are never made nor answered, and the next prompt sends them to the provider (engine.rs:5650). An interrupt (5614) and a result that cannot be archived (5687) cut a batch too; the trace shows neither |

More statements of the repository, or of common sense, are stated in the modules and not kept by
the code. They are in no run; a configuration beside the modules, or a listed one with the constants
below and the property in place of its own (a liveness property needs the run's fair specification),
gives the counterexample.

| Property | To see it | What happens |
|---|---|---|
| `DaemonStarts` | `MCDaemon.cfg` with `Focuses = {"harness"}` | a checkpoint with a finished child that has a model profile stops the daemon from starting (local.rs:655) |
| `DestroyedIsFinal` | `MCSessionActorsPair.cfg` with `Deadlines = {FALSE}`, `MaxRounds = 1` | after a turn resumed from a wait a Destroyed child handles further commands (engine.rs:5293) |
| `KillEnds` | `MCSessionActorsPair.cfg` with `Interrupts = {"Kill"}`, `Deadlines = {FALSE}`, `MaxInputs = 1`, `MaxRounds = 1` | Kill between two turns never ends a child (engine.rs:5075) |
| `InvalidAnswerDenies` | `MCActorTurn.cfg` with `FairSpec`, one call and one prompt, `MaxInputs = 0`, `ArchiveFails = FALSE` | an approval answered with neither choice is not denied (engine.rs:6066) |
| `CompactionLosesNothing` | `MCSessionMemoryTwice.cfg` | the boundary is not reset by a compaction, the next one drops messages (engine.rs:2499) |
| `NothingComesBack` | `MCSessionMemoryUnwind.cfg` | a refresh that ran during an unwind brings the unwound messages back (engine.rs:1153) |
| `SummaryIsCumulative` | `MCSessionMemoryCumulative.cfg` | a refresh after a compaction forgets what was compacted (memory/summary.rs:219) |
| `ForgottenIsNotRevived` | `MCDurability.cfg` | tombstones are written and never read; an older snapshot revives what was forgotten (memory_store.rs:340) |
| `NeverJams` | `MCCoreServices.cfg` | the core awaits the scheduler's reply and takes no input meanwhile (engine.rs:7191); the scheduler waits for room in the core's input (scheduler.rs:321) and reads no command: neither goes on. It takes a full input; an event of cadence zero, which is always due, fills it by itself (scheduler.rs:196) |
| `BoundaryIsWithinHistory` | `MCDurability.cfg` | a compaction or an unwind shortens a history and the extraction boundary stays (local.rs:216): as many of the next messages are never extracted (memory_store.rs:197) |
| `EveryEndIsSeen` | `MCDaemon.cfg` | the connections share one map of active turns (server.rs:1810): the forwarder of one changes it before the other has labelled its event, or a subscriber skips events it was too slow for (server.rs:92); a one-shot command passes over its end and waits for ever |
| `ResultsAreOwn` | `MCDaemon.cfg` | after a time-out a client takes the late answer for that of its next call (client.rs `call_with_timeout`) |
| `StoredSurvives` | `MCDaemon.cfg`, as a PROPERTY | a chat's isolated daemon shares the state directory and writes over what the other one stored (client.rs:90) |
| `GlobalsSurvive` | `MCDaemon.cfg`, as a PROPERTY, with `Focuses = {"python"}`, `FunctionsRestore = TRUE`, `MaxExits = 0` | a snapshot reads the answer a dropped call left in the pipe and stores nothing over something (runtime.rs:370) |
| `EveryAnswerIsOwn` | `MCDaemon.cfg` | after a dropped call, or a line that executed code wrote to descriptor 1, a caller reads the answer of another (runtime.rs:370, 645) |
| `GroupsAgree` | `MCDaemon.cfg` | a child is listed in its parent's group and its tool runs in its own |
| `RunsItsModel` | `MCDaemon.cfg` | a child of a session whose model was changed is recorded with the new one and runs on the old |
| `NetworkCutsDoNotMatter` | `MCServices.cfg` | each chunk of the network is decoded alone: a cut within a character of several bytes garbles it, in a text or in a call's arguments (openai_compat.rs:862, anthropic.rs:461) |
| `UnnumberedCallsArrive` | `MCServices.cfg` | calls without an index are merged into the first one (openai_compat.rs:600) |
| `EveryChildInheritsDenials` | `MCServices.cfg` | a child that a client or a schedule makes has none of its parent's rules (local.rs:1201, 1357) |
| `PatchesStayWhole` | `MCServices.cfg` | a file is emptied and then written from the start by each writer (overlay.rs:96): of two at once the end of the longer text stays behind the shorter one, and one that fails leaves the beginning |
| `NothingOutlivesACancel` | `MCServices.cfg` | the future of a cancelled `bash` goes with its children alive |
| `SharesParentsFiles` | `MCServices.cfg` | "Share parent's filesystem ... Default true" (spawn.rs:57) is never read |
| `ScheduledRunsFailSafely` | `MCServices.cfg` | a scheduled child is interactive and waits for an approval nobody gives (features/050:7) |
| `TapsReachTheirQuestion` | `MCClients.cfg` | a button holds the number of an option and its message is not compared (telegram.rs:1652, 1705): one under an old question answers the newer one |
| `CursorRowIsDrawn` | `MCClients.cfg` | the input box does not scroll: of a longer text the rows with the cursor are not drawn, and the cursor is put on the last that is (ui.rs:2260, 2317) |
| `ReadingIsNotDisturbed` | `MCClients.cfg` | a notification takes the reader to the bottom (features/007) |

`CompactionLosesNothing` fails for
two more reasons, seen by giving `MCSessionMemoryTwice.cfg` one compaction and one of:

- `MaxFailures = 1`, `MaxIncidents = 1`: `load_compaction_snapshot` waits for the refresh lock
  but drops the guard before it reads the files (memory/session.rs:138). When no refresh has
  succeeded and an earlier one failed between its files, the compaction can read the old summary
  and then the new metadata.
- `MaxRestarts = 1`, `MaxIncidents = 1`: a restored session whose checkpoint has no index
  accepts whatever index `summary.meta.json` holds (memory/session.rs:165), and after a crash
  that can be the index of a longer history.

### Seen in the code while modelling

These came up while the modules were written; where a passing property has an exception, one of
them is the reason. Nothing is claimed to have been checked about those that no module contains.

- *Core.* An unwind and `get_session_context` can commit a snapshot that the fan-out has already
  replaced. A failed model turn sends no `CheckpointHint`. Scheduled jobs are in memory only, while
  features/033:80 says they "must survive harness restart". Completed children are restored as live
  actors. Shutdown replies before a final checkpoint. `SpawnSession` adds the edge of the tree before
  the actor's setup can fail (engine.rs:7110). Of two children that ask at once the first is
  forgotten. A pending approval is restored with no task that waits for it (engine.rs:1001).
- *Python.* A retry executes the code again; a restore that failed leaves an unrestored worker in use.
- *Providers.* A think tag that is split across deltas is not recognised by `openai_compat.rs:400`; a
  truncated stream that closes cleanly runs its calls with `{}`; the `error` event of Anthropic is skipped and its client has no time-out; tool
  identifiers that repeat across responses lose the later call (engine.rs:1894).
- *Permissions.* Children the harness spawns have no rules and are interactive (local.rs:1357); a
  child spawned in plan mode cannot leave it; a change of the rule files is not seen by restored
  sessions.
- *Files.* Two sessions that patch one file lose an update; a refused patch leaves directories; a
  cancelled write goes on.
- *Subagents.* An interrupted `spawn` leaves a child nobody knows; a Cancel of a child that is suspended
  makes it idle and no more; `WaitSession` adds no edge to the wait-for graph, so `NoWaitDeadlock` is
  about `wait_child`.
- *Memory.* A checkpoint that could not be loaded is merged with as if there were none (local.rs:731).
  Between sweep and index the index names a file that is gone, and the whole turn fails
  (engine.rs:5435); facts without ASCII letters share one identifier, long ones with a common title a
  file; what was shown in one turn is left out of the next.
- *Setup.* A session handle keeps the provider of the actor's start (engine.rs:1184); the report
  leaves out python tools and lists web tools always; spawned children have no web provider until they
  are rebuilt; a skill's tool with the name of a built-in one replaces it.
- *Telegram.* A double tap answers twice; `/context` and `/state` forget the pending question; two
  first messages make two sessions; a skill's session overwrites newer chat state; a restart handles
  the last batch again.
- *Terminal.* Esc in a question's options makes it unanswerable; a question pending in another session is
  not shown again; loading a session with notifications waiting shows texts twice; `/context` and
  others look idle while the session works; after an overscroll the view does not move for a while; the
  highlighted option is invisible when the input fills the box; the cursor is off after wide characters.
- *Chat.* The prompt ends on any end of a turn; two readers of the standard input lose what was typed
  ahead; `latest` may resume a child.

## Fairness

Only runs with a liveness property use it, and users owe nothing in any of them: no input is fair.
`FairSpec` of `SessionActors` assumes what the tokio runtime gives: a task that can run is polled (weak
fairness of each actor's handlers, each kind of await apart), model requests and tools end, deadlines
pass, and the core loop drains its events. `SessionMemory` adds strong fairness of `RefreshFinished`: the
command waits in a first-in-first-out queue, so it is reached however many prompts come, provided turns
end (weak fairness of the end of a turn). `CoreServicesSpec` has weak fairness of time, of the core
loop's drain of its input and of the scheduler's task, which are loops that do nothing else. `ActorTurn`'s
fairness serves `InvalidAnswerDenies` alone: its own steps are taken and tools return. Nothing is claimed of the
end of turns as a whole: nothing in the code bounds how often a model may call tools.

## What is proved

`SessionActors_proofs` begins with the session tree, for every set of sessions, waiters and statuses (only
`TreeAssumption`: `NoSession` is no session, `Running` is no exit status):

- `TreeTypeCorrect`: `TreeSpec => []TreeTypeOK`.
- `WaitsAcyclicCorrect`: no nonempty set of sessions is closed under waits. The property is inductive
  together with the types. `FewerWaitsStayAcyclic` covers the methods that remove edges.
  `CheckedWaitStaysAcyclic` is the heart: a cycle after the new edge would contain the waiter, and the
  sessions reachable from the dependency, cut with it, would be a cycle before, because
  `wait_would_cycle` did not find the waiter among them.
- `NoWaiterLeftBehindCorrect`: a queued waiter's session has no exit status.
- `ParentsAcyclicCorrect`: parent chains have no ring; `FreshChildStaysAcyclic` uses that a spawned
  session's id is new (`Fresh`), which `add_child` does not check itself.
- `NotifiedOnceCorrect`: `[][...]` on what waiters were told, from the strengthening `NotifiedInv` (a
  queued waiter was told nothing).

The actors are in the same module, for every set of sessions and of roots and every bound on channels,
inputs and rounds (only `TreeAssumption` and `ActorsAssumption`):

- `ActorsImplementTree`: `Spec => ImplementsTree`, the refinement of `SessionTree`. Each handler is one
  method of the tree or leaves it alone (`TreeStep`); the two obligations that are not immediate are that a
  spawned child is `Fresh` and that the second half of `wait_child` has a session in hand.
- `GraphIsTrueCorrect`: an edge of the wait-for graph and the wait of its actor come and go together
  (`OneWaitStep`, `GraphStep`). `NoWaitDeadlockCorrect` follows: a ring of suspended sessions would be a
  ring of the graph, which `WaitsAcyclicCorrect` excludes, carried over by the refinement.
- `NobodyIsStuckCorrect`: no such ring, and no lost exit. `AwaitedIsTold` is the inductive form: whoever
  waits for a child, *or stands between the two locks of `wait_child`*, has been told of a recorded exit
  (the command is in its channel or it is still among the receivers of the broadcast). Without the second
  case the invariant fails at `RegisterWait`. It is kept because the exit is recorded in the step that
  makes every registered session a receiver (`FinishedWakeStep`), only the core loop adds to a channel
  (`ActorChannel`), and an actor that takes the news is no longer waiting (`ActorKeepsNews`).
- `WakeupsArriveCorrect`: with it, `NoLostMessageWakeup` (a session suspends only over a mailbox without a
  match, and stores a message only when it is not waiting or the message does not match, `MessageStep`)
  and `ToldAfterRecorded`.
- `InterruptedIsAtRestCorrect` and `ChildNeverVanishesCorrect`.

All rest on `ActorInv`: types, and what none of the properties says but their steps need. A session not
yet spawned is known nowhere (`UnbornIsUnknown`, for freshness), a busy session is not suspended
(`BusyIsAwake`), and a session the registry forgot has its exit on record (`ForgottenHasExited`, for
`ChannelClosed`). The types of the deferred commands are left out, because `SelectSeq` in
`WithoutUserMessages` is recursive; nothing needs them.

`CoreServices_proofs` has three parts. Interaction routing, for every tree of one root and its children and
every bound:

- `RoutingTypeCorrect`, and `AskIsNeverLostCorrect`: while requests do not overlap, whoever waits for an
  answer is on record somewhere. The property by itself is not inductive: it counts any stop in
  the input of the core as a reason, and the stop of another session may be the last thing that holds it.
  `AskedIsAwaited` names the stop of *this* session, and says of each stage (the runtime event, the
  pending entry, the client's question, its answer in the input, the command in the actor's channel)
  which step comes next; `OneStage` says that a request is at one of them only, so that taking it from
  there is not hidden by a copy. One lemma for each of the actions moves the request one stage on.

The scheduler, for all messages, delays and cadences, zero included, every capacity of the core's input
and every bound on the clock (only `SchedulerAssumption`):

- `KeepsItsBeatCorrect`: an entry of the heap is due at the first time of its message and one period
  later for each dispatch. What could break it is a second entry of the same message, which would share
  the count: `InOnePlace` follows a message from its client through the core's input and the
  scheduler's channel into the heap, and says that it is at one of them, once, and was not dispatched before.
  `Pushed` is what the position in the heap does not change, and `NextBeat` that the model's
  bound on the count is never reached while a period is positive (nothing is dispatched before it is due).

The Python runtime, for every number of callers, dropped calls, printed lines and deaths of the worker (assuming
`NoCaller` is none of the callers):

- `AnswersAreOwnCorrect`: the pipes carry no request ids, so that an answer is the caller's own rests
  on how many lines are in them. `HolderWorks` says that only the holder of the runtime's mutex is
  between writing a line and reading its answer; `PipesInStep` that the two pipes together hold the line the
  holder waits for, as a request or as an answer, and besides it as many as `overdue` counts: one for each
  call that was dropped while it waited and for each line that was printed, since the worker started. A retry
  after an answer that does not parse (runtime.rs:409) writes a new line to the same worker and took the
  unreadable one out; a retry after a worker that is gone starts with empty pipes. With nothing overdue the
  line to be read is the caller's own; otherwise `EveryAnswerIsOwn` fails, as the table above says.

`Daemon_proofs` also has three parts. The harness, for every set of sessions, groups, models and callers and
every bound (only `HarnessAssumption`):

- `ListingsAgreeCorrect`: two writers keep the listing, the call that returns to its caller and the fan-out
  that reads the core's events, and at rest they must have agreed. What a step needs is what is under
  way: `CallsTrue` says what the core has answered and the caller has not noted yet,
  `ListedOrTold` that a live session is listed, or about to be by its call, or told of by an event that is
  still to be read, and `LastIsNow` that the last event about a session says what the core
  says now. That a tree shows each session once has nothing to do with timing: `OneRootAbove` follows
  the parents of the listing, and two ways up from a session that are equally long are the same (`AscentsAgree`).

The processes, for every set of daemons and launchers (only `DaemonAssumption`):

- `OwnsWhatItSpawnedCorrect`: a chat shuts down what it launched. It finds its daemon by the path
  of the socket, so the invariant is about paths: where a command has launched a daemon, the socket is free
  or bound by one that some command launched there (`ServedByLaunched`), and that is the one a launcher
  meets (`MetOneLaunched`). The path is cleared a step before the launch, so the invariant begins there
  (`Cleared`). Two launchers at one path are the exception that the property names.

The connections, for every set of clients, programs and capacities (only `IpcAssumption`):

- `NumberingInductive`, `AnsweredInOrderCorrect`: the numbers in the server's queue, on the wire and in the
  client's channel are consecutive and end with the last request sent (`NumberingInv`), so each is there once.
- `TurnEndsInductive`, `TurnEndIsSeenCorrect`, together `RequestsAreAnsweredCorrect`: the end of a turn is
  on its way from the broadcast to the client until the client has taken it (`Noted`), once it knows or is about to
  know the turn for its own (`Owns`), as long as its forwarder is `Exact`: it has skipped no event and
  has found no other turn's entry in the map of active turns, which all connections change (`foreign`). When that
  can happen is the third part, `LabelsAreOwn`: never to a connection that is alone and has not lagged,
  because then the map names the turn of the event it read last (`Labelled`), and the order of the broadcast
  (`Stream`) says whose the next event is. With a second connection, or a lag, `EveryEndIsSeen` fails.

`Services_proofs` has what a session uses and who talks to it. Permissions, for every set of sessions,
directories, rule files and calls:

- `RulesAreKeptCorrect`: what is asked and what runs was let through by the rules and the boundary *then*, and the
  property says what holds *now*. `AskedAreCleared` and `RanWasCleared` carry it over: a call that
  waits for its approval, and one that ran, would pass the boundary and the rules today, because
  nothing changes the root, the rules and the directory of a live session (`ClearedStays`, `RulesStay`);
  leaving plan mode changes only the mode. `LiveAreSound` says that a child of a tool has the rules it was
  given, for tools and for files (children that a client or a schedule makes inherit nothing, and the property does not speak of them), that a headless session has no behaviour that asks, and that plan flag and mode agree;
  `SavedAreSound` says the same of what a checkpoint keeps, which is what a restart brings back.

The chat prompt, for every set of sessions and all budgets:

- `PromptEndsWithItsTurnCorrect`: `run_chat` takes any end of a turn of its session for the end of its own. That this is
  right when nobody else uses the session needs two facts between the lines that are typed: at
  the prompt nothing is left to read and no session has a turn or a message (`PromptIsIdle`), and after a line its turn
  is the only one, its end being the last notification (`OnlyTurn`). A skill
  that moves the chat to another session, a question in the middle of a turn and an error before its end keep both.

Delegation, for every set of children, any nesting and any length of the core's queue (assuming that the
root session is none of the children):

- `NoSubagentIsForgottenCorrect`: the call of a child, its task and the core's queue decide together whether it is
  still wanted. `ChildInv` says that a spawn is in the queue once and only while its child is absent and its task waits for the
  acknowledgement, that from there to its end the task has a child, and that a call can be over only
  with its task told to stop or done; a task that is done leaves a child that is at rest, that a Cancel
  is on its way to, or that never comes. `CancelsReach` says that a Cancel
  in the queue names a session that is there, so that the core does not drop it. Without the step that
  looks at the flag only once the child is acknowledged, a task could be done with its spawn still queued.

The Telegram bridge, for every set of tasks and daemon sessions, and all budgets (`BridgeInv`, which nothing but
the actions has to support: no assumption on a constant is used):

- `MessagesAreHandledCorrect`, first half (`PollInv`): the updates of a poll are consecutive and begin with `Untaken`, the first
  that has had no task since the last restart; what Telegram has forgotten is below it, and so is what
  has had one task more than there were restarts. A restart moves `Untaken` back to the first update that Telegram still
  has, never further.
- Second half (`AnswerInv`): while no two updates are handled at once and none has failed, what a task has in hand
  (`InHand`) is still asked by the session it names and was shown last, and so is what the chat shows, except between an answer and its output,
  when the chat still shows the question that has been answered: that is why an overlapping or a failing
  update breaks it. It is kept by the daemon's side because a session asks again only when nothing is asked of it
  (`TurnMoves`), and by each task through one lemma (`TaskMoves`).

`ActorTurn_proofs`, for every number of calls and every size of batch (only `TurnAssumption`):

- `ApprovedRunsOnceCorrect`: the loop over a batch only moves forwards. `BatchIsFresh` (the calls of a
  batch are numbered upwards below the next fresh one) makes the call the loop is at different from those
  ahead of it, and `AheadIsUntouched` says that what is ahead was neither started nor asked about. The
  steps do one of five things to the loop (`LoopStays`, `LoopEnds`, `LoopAdvances`, `LoopRuns`, a new batch).
- `HistoryIsPairedCorrect`: the property counts messages; what is inductive is `Paired`: a call is made
  once and answered at most once, in the row of results right behind the message that makes it (`Follows`). It is that
  row which lets `live_tail_start` keep a call with its results, and what keeps the call of a wait open
  across a compaction (`OpenAt`). `BatchIsLast` says that the history ends with the batch the
  loop is over, `WaitIsLast` that a wait was set by the last call completed and that a session
  with one is not idle (so it is never unwound), and `OpenAreKnown` where every open call comes from. Two
  groups of lemmas say what is left of a paired history that is cut (`EmbeddedIsPaired`: a prefix,
  `sanitize_restored_history`, a compaction) and what additions at its end make of it
  (`TextKeepsPairs`, `UseKeepsPairs`, `ResultsKeepPairs`). All of it holds until archiving a result
  fails with a wait open (`archive_failed`), as the property says.

`SessionMemory_proofs`, for any number of messages, compactions, unwinds and restarts and any bound (only
`MemoryAssumption`, which gives the constants their types):

- `FirstCompactionIsSafeCorrect`: `MemoryInv` says of each stage of a refresh what the two files and the two
  copies of the boundary hold. There is one refresh at a time, from its task to its report
  (`OneRefresh`), and it has a beginning of the history beyond the last one's (`RefreshesGoOn`). The
  files tell of the same messages but for the time between their writes, and the session's index is the
  metadata's but for the time until the report (`FilesInStep`). Hence the summary that a compaction
  has read is that of one of the two boundaries it compares, or was found emptied by the write of a
  refresh, and then the compaction goes without it (`LoadedIsKnown`): that a refresh
  writes both files after the read is what the comparison catches. All of it is claimed while nothing
  has gone wrong and no compaction has replaced the history (`Uncompacted`); afterwards it is false, as
  the table of disagreements shows. That results follow their calls needs no such condition: it is kept by the
  three ways in which histories are cut (`PlanApplied` with `LiveTailIsSafe` and `SafeTailIsSafe`,
  `PrefixInRounds`, `SanitizeInRounds`).

`Positions_proofs` has what the last two modules need of a set of positions listed by `Cardinality`
(`PositionsInOrder`: the definition by which the modules keep the entries of a sequence that satisfy a condition lists
each position once and in order).

`Durability_proofs`, for every set of sessions, facts and requests and every bound (only
`ClientsAssumption`: the fan-out loop is none of the clients):

- `StaleOnlyIfOvertakenCorrect`: at rest the stored checkpoint has of each session a history that it has had
  since it was last announced (the first part of `DiskFollowsSessions`; a compaction announces nothing).
  `NewestIsComplete` is the inductive form: of the
  snapshots that are still to be committed, the one that will be committed last is complete for
  every session, or there is a hint or a request that will make a newer one (`AsksForAll`). A commit that is not
  the last one may be old; a request's snapshot that waits for the lock knows how many were emitted
  after it (`RequestsKnowTheirPlace`), which is when `spoiled` excuses it.
- `BoundaryNeverRegressesCorrect`: the action property, from `NoBoundaryBehind` (an update that holds the lock has
  merged with what is stored, unless that could not be loaded (`blind`), and nothing is stored while it holds it).

The files below them are at the beginning of the same module, for every set of checkpoints and every
number of generations (only `FilesAssumption`: "no checkpoint" and "torn" are not checkpoints):

- `FilesAlwaysWhole`: the file the manifest names is a whole checkpoint.
- `FilesImplementStore`: `FilesSpec => ImplementsStore`, the refinement of `CheckpointStore`. "Whole" is
  not inductive by itself: a rename is harmless only if the temporary file is whole, and naming a
  generation only if its file was renamed. `FilesInv` adds `WritingIffBusy` (a commit is under way exactly
  between its steps), `SyncedIsWhole` (what is about to be renamed is the checkpoint being written) and
  `NextIsWritten` (so is the file of the next generation when the manifest is about to name it).
  `StoreStarts` and `StoreSteps` then map each action: `BeginCommit` is `StoreBegin`, `PublishManifest` is `StoreCommit`,
  a failure or crash (`CommitCut`) is `StoreAbort`, and the steps between are stutters.

Only model-checked: all liveness, and `LoopAgrees` (fairness and recursively defined operators are out of
the provers' reach); `MemoryFollowsHistory`, the second half of `DiskFollowsSessions`;
`StreamIsFaithful`, `PlansAdvance` and `ToolsAreWhole`, which speak of the results of folds over sequences and of
walks through a graph and would need induction over data; `MemoryIsKept` and `SetupAgrees` of the services, and
`TerminalFollowsSession`, `ScreenIsTrue` and `PanelsAreTrue` of the clients, for
which no inductive invariant has been worked out.

## What is not modelled

- Metrics, logs and usage reports: they are written and never read back.
- Wire formats, framing and the fields of each request; styles, markup and wording of everything shown;
  the parsing of configuration files.
- In the terminal: the completion of `/state`, which works as that of `/switch` does, the live view of
  `/state`, and input of several lines, which no key reaches.
- engine.rs 1275-4757 but for the helpers that the actors still call: the loop of free functions there is
  compiled for tests only, and so are the `execute` methods of `wait_child` and `recv_message`.
- The shared-memory store of `ipc.rs`: nothing outside its tests calls it.
- `read`, `web_search` and `web_open`: single calls without shared state.
- A snapshot of the registry against a full runtime-event channel (engine.rs:6455), and failures of an
  actor's setup after its edge was added: the composition of the core loop's channels is that of
  `SessionActors`, `Scheduler` and `InteractionRouting`, each by itself.
- Failures to archive the result of a wait (engine.rs:5313): the step is in `ActorTurn`, the senders of
  what ended the wait are in `SessionActors`.
- Rows of a conversation beyond 65535, where the terminal cuts the scroll position to 16 bits (ui.rs:1330).
- A power cut: a rename is taken to be durable when the call returns.

The next things worth adding are a proof about the terminal (`TerminalFollowsSession`), and one module of the core loop with all its channels.
