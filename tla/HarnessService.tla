--------------------------- MODULE HarnessService ---------------------------
(* LocalHarness (quine-harness local.rs): the service behind the daemon's   *)
(* requests. It keeps a listing of the sessions beside the core's registry  *)
(* and updates it in two places: when a call returns from the core, and     *)
(* when the fan-out task reads the core's output. A restart builds both     *)
(* from the checkpoint. The order of checkpoint commits is Durability's.    *)
EXTENDS Naturals, Sequences, FiniteSets, Functions

CONSTANTS
    Sessions, NoSession,
    Nobody,                 \* the parent of a session that a client spawned alone
    Groups, NoGroup,        \* explicit session groups; their own id otherwise
    Models, NoModel,        \* model profiles; NoModel is the default provider
    Callers,                \* requests the daemon serves at the same time
    MaxTurns,               \* bound: turns of all sessions
    MaxCrashes              \* bound: restarts of the daemon

ASSUME HarnessAssumption ==
    /\ IsFiniteSet(Sessions)
    /\ NoSession \notin Sessions /\ Nobody \notin Sessions \cup {NoSession}
    /\ NoModel \notin Models
    /\ (Groups \cup {NoGroup}) \cap Sessions = {} /\ NoGroup \notin Groups

VARIABLES
    core,       \* live session -> [state, group, model, runs, handle, parent]
    completed,  \* finished child -> what is stored of it
    disk,       \* the latest checkpoint: session -> what is stored of it
    output,     \* SessionStateChanged events the fan-out has not read
    listing,    \* LocalHarness::sessions: [state, group, model, parent, jobs]
    jobs,       \* sessions a scheduled message will be sent to
    answered,   \* per caller: <<>>, or the call the core has answered
    daemon,     \* "up", "restoring" or "refused"
    updates,    \* restored sessions whose profile is still to be resolved
    budget      \* [turns, crashes] so far

harnessVars == <<core, completed, disk, output, listing, jobs, answered, daemon, updates, budget>>

EffectiveGroup(s, group) == IF group = NoGroup THEN s ELSE group

(* What a session handle in the registry keeps is what the actor had when   *)
(* it was spawned; a later change of model does not reach it.               *)
NewSession(group, model, runs, parent) ==
    [state |-> "idle", group |-> group, model |-> model, runs |-> runs,
     handle |-> [model |-> model, runs |-> runs, group |-> group], parent |-> parent]

Listed(state, group, model, parent) ==
    [state |-> state, group |-> group, model |-> model, parent |-> parent, jobs |-> 0]

Put(map, s, value) == [t \in DOMAIN map \cup {s} |-> IF t = s THEN value ELSE map[t]]
Over(map, below) == [s \in DOMAIN map \cup DOMAIN below |-> IF s \in DOMAIN map THEN map[s] ELSE below[s]]

Stored(s) == [state |-> core[s].state, group |-> core[s].group, model |-> core[s].model, parent |-> core[s].parent]
Snapshot == Over([s \in DOMAIN core |-> Stored(s)], Over(completed, disk))

Unused(s) == s \notin DOMAIN core \cup DOMAIN completed \cup DOMAIN disk \cup DOMAIN listing
Changed(s, state) == output' = Append(output, [session |-> s, state |-> state])

HarnessInit ==
    /\ core = <<>> /\ completed = <<>> /\ disk = <<>> /\ listing = <<>>
    /\ output = <<>>
    /\ jobs = {}
    /\ answered = [c \in Callers |-> <<>>]
    /\ daemon = "up"
    /\ updates = {}
    /\ budget = [turns |-> 0, crashes |-> 0]

Answered(c, op, s, arg) == answered' = [answered EXCEPT ![c] = <<[op |-> op, session |-> s, arg |-> arg]>>]
Free(c) == daemon = "up" /\ answered[c] = <<>>
Back(c, op) == answered[c] # <<>> /\ answered[c][1].op = op
Returns(c) == answered' = [answered EXCEPT ![c] = <<>>]

----------------------------------------------------------------------------
(* Calls. ProviderManager::resolve and the permission rules may fail before *)
(* anything was sent, which changes nothing.                                *)

CreateSession(c, s, group, model) ==
    /\ Free(c) /\ Unused(s)
    /\ core' = Put(core, s, NewSession(group, model, model, NoSession))
    /\ Changed(s, "idle")
    /\ Answered(c, "create", s, [group |-> group, model |-> model])
    /\ UNCHANGED <<completed, disk, listing, jobs, daemon, updates, budget>>

\* Mutant: an entry that an event has made already is left as it is.
InsertCreatedIfMissing(c) ==
    /\ Back(c, "create")
    /\ LET s == answered[c][1].session
           arg == answered[c][1].arg
       IN listing' = IF s \in DOMAIN listing THEN listing
                       ELSE Put(listing, s, Listed("idle", EffectiveGroup(s, arg.group), arg.model, NoSession))
    /\ Returns(c)
    /\ UNCHANGED <<core, completed, disk, output, jobs, daemon, updates, budget>>

InsertCreated(c) ==
    /\ Back(c, "create")
    /\ LET s == answered[c][1].session
           arg == answered[c][1].arg
       IN listing' = Put(listing, s, Listed("idle", EffectiveGroup(s, arg.group), arg.model, NoSession))
    /\ Returns(c)
    /\ UNCHANGED <<core, completed, disk, output, jobs, daemon, updates, budget>>

(* SpawnSession in the core. Without history a child of an unknown parent   *)
(* is created all the same; with history it starts from the parent's        *)
(* stored configuration. Either way it runs on what the handle has.         *)
Child(parent, history) ==
    IF parent \notin DOMAIN core
    THEN NewSession(NoGroup, NoModel, NoModel, parent)
    ELSE LET handle == core[parent].handle
         IN NewSession(handle.group, IF history THEN core[parent].model ELSE handle.model,
                       handle.runs, parent)

CoreSpawns(parent, s, history) ==
    /\ Unused(s)
    /\ history => parent \in DOMAIN core
    /\ parent # s
    /\ core' = Put(core, s, Child(parent, history))
    /\ Changed(s, "idle")

SpawnChild(c, parent, s) ==
    /\ Free(c)
    /\ parent \in DOMAIN listing \cup {Nobody}
    /\ CoreSpawns(parent, s, FALSE)
    /\ Answered(c, "spawn", s, parent)
    /\ UNCHANGED <<completed, disk, listing, jobs, daemon, updates, budget>>

InsertSpawned(c) ==
    /\ Back(c, "spawn")
    /\ LET s == answered[c][1].session
           parent == answered[c][1].arg
           Inherited == IF parent \in DOMAIN listing
                        THEN Listed("idle", listing[parent].group, listing[parent].model, parent)
                        ELSE Listed("idle", s, NoModel, NoSession)
       IN listing' = Put(listing, s, Inherited)
    /\ Returns(c)
    /\ UNCHANGED <<core, completed, disk, output, jobs, daemon, updates, budget>>

(* schedule_agent forks the session, then schedule_loop_message queues the  *)
(* job and notes it in the listing if the fork is listed by then.           *)
ScheduleAgent(c, parent, s) ==
    /\ Free(c) /\ parent \in DOMAIN listing
    /\ CoreSpawns(parent, s, TRUE)
    /\ Answered(c, "schedule", s, parent)
    /\ UNCHANGED <<completed, disk, listing, jobs, daemon, updates, budget>>

ScheduleLoopMessage(c) ==
    /\ Back(c, "schedule")
    /\ LET s == answered[c][1].session
       IN /\ jobs' = jobs \cup {s}
          /\ listing' = IF s \in DOMAIN listing THEN [listing EXCEPT ![s].jobs = @ + 1] ELSE listing
    /\ Returns(c)
    /\ UNCHANGED <<core, completed, disk, output, daemon, updates, budget>>

(* UpdateSessionLlm is refused by an actor that is neither idle nor paused. *)
TakesModel(s) == s \in DOMAIN core /\ core[s].state \in {"idle", "paused"}
WithModel(s, model) == [core EXCEPT ![s].model = model, ![s].runs = model]

SetModelProfile(c, s, model) ==
    /\ Free(c)
    /\ TakesModel(s)
    /\ core' = WithModel(s, model)
    /\ Answered(c, "model", s, model)
    /\ UNCHANGED <<completed, disk, output, listing, jobs, daemon, updates, budget>>

NoteModel(c) ==
    /\ Back(c, "model")
    /\ LET s == answered[c][1].session
       IN listing' = IF s \in DOMAIN listing THEN [listing EXCEPT ![s].model = answered[c][1].arg] ELSE listing
    /\ Returns(c)
    /\ UNCHANGED <<core, completed, disk, output, jobs, daemon, updates, budget>>

----------------------------------------------------------------------------
(* The core goes on: a tool spawns a child, a turn runs, a child ends. A    *)
(* session can ask its user and wait for the answer.                        *)

ToolSpawns(parent, s, history) ==
    /\ daemon = "up" /\ parent \in DOMAIN core /\ core[parent].state = "streaming"
    /\ CoreSpawns(parent, s, history)
    /\ UNCHANGED <<completed, disk, listing, jobs, answered, daemon, updates, budget>>

InState(s, state, next) ==
    /\ daemon = "up" /\ s \in DOMAIN core /\ core[s].state = state
    /\ core' = [core EXCEPT ![s].state = next]
    /\ Changed(s, next)

(* Nobody can send to a session that a call has not returned yet, except    *)
(* that a spawned child starts on its task.                                 *)
StartTurn(s) ==
    /\ budget.turns < MaxTurns
    /\ ~ \E c \in Callers : Back(c, "create") /\ answered[c][1].session = s
    /\ InState(s, "idle", "streaming")
    /\ budget' = [budget EXCEPT !.turns = @ + 1]
    /\ UNCHANGED <<completed, disk, listing, jobs, answered, daemon, updates>>

AsksClient(s) ==
    /\ InState(s, "streaming", "paused")
    /\ UNCHANGED <<completed, disk, listing, jobs, answered, daemon, updates, budget>>

EndTurn(s) ==
    /\ core[s].parent = NoSession
    /\ \E state \in {"streaming", "paused"} : InState(s, state, "idle")
    /\ UNCHANGED <<completed, disk, listing, jobs, answered, daemon, updates, budget>>

ChildEnds(s) ==
    /\ daemon = "up" /\ s \in DOMAIN core
    /\ core[s].state \in {"streaming", "paused"} /\ core[s].parent # NoSession
    /\ core' = Restrict(core, DOMAIN core \ {s})
    /\ completed' = Put(completed, s, [Stored(s) EXCEPT !.state = "destroyed"])
    /\ Changed(s, "destroyed")
    /\ UNCHANGED <<disk, listing, jobs, answered, daemon, updates, budget>>

CommitCheckpoint ==
    /\ disk # Snapshot
    /\ disk' = Snapshot
    /\ UNCHANGED <<core, completed, output, listing, jobs, answered, daemon, updates, budget>>

(* fanout_loop: a state change of a session nobody listed adds it, with its *)
(* own group, no parent and no profile.                                     *)
ListState(s, state) ==
    IF s \in DOMAIN listing THEN [listing EXCEPT ![s].state = state]
    ELSE Put(listing, s, Listed(state, s, NoModel, NoSession))

Fanout ==
    /\ output # <<>>
    /\ listing' = ListState(Head(output).session, Head(output).state)
    /\ output' = Tail(output)
    /\ UNCHANGED <<core, completed, disk, jobs, answered, daemon, updates, budget>>

----------------------------------------------------------------------------
(* with_storage. Runtime-only states are read back as idle. Everything that *)
(* can be restored becomes a live actor on the default provider; a session  *)
(* may fail to restore, which is only logged.                               *)
ReadBack(state) == IF state = "streaming" THEN "idle" ELSE state

Respawned(restored) ==
    [s \in restored |->
        [NewSession(disk[s].group, disk[s].model, NoModel, disk[s].parent)
            EXCEPT !.state = ReadBack(disk[s].state)]]

Restart ==
    /\ daemon = "up" /\ budget.crashes < MaxCrashes
    /\ budget' = [budget EXCEPT !.crashes = @ + 1]
    /\ \E restored \in SUBSET DOMAIN disk :
         /\ core' = Respawned(restored)
         /\ \E order \in [1..Cardinality(restored) -> restored] :
              /\ restored = {order[i] : i \in DOMAIN order}
              /\ output' = [i \in DOMAIN order |->
                              [session |-> order[i], state |-> ReadBack(disk[order[i]].state)]]
    /\ listing' = [s \in DOMAIN disk |->
         Listed(ReadBack(disk[s].state), EffectiveGroup(s, disk[s].group), disk[s].model, disk[s].parent)]
    /\ updates' = {s \in DOMAIN disk : disk[s].model # NoModel}
    /\ daemon' = "restoring"
    /\ completed' = <<>> /\ jobs' = {}
    /\ answered' = [c \in Callers |-> <<>>]
    /\ UNCHANGED disk

(* resolve_for_restore falls back to the default provider. A session the    *)
(* core does not know leaves the listing; any other refusal is an error of  *)
(* with_storage, and the daemon does not start.                             *)
Resolved(model) == {model, NoModel}

RestoreProfile(s) ==
    /\ daemon = "restoring" /\ s \in updates
    /\ updates' = updates \ {s}
    /\ \/ /\ s \notin DOMAIN core
          /\ listing' = Restrict(listing, DOMAIN listing \ {s})
          /\ UNCHANGED <<core, daemon>>
       \/ /\ TakesModel(s)
          /\ \E model \in Resolved(disk[s].model) :
               /\ core' = WithModel(s, model)
               /\ listing' = IF s \in DOMAIN listing THEN [listing EXCEPT ![s].model = model] ELSE listing
          /\ UNCHANGED daemon
       \/ /\ s \in DOMAIN core /\ ~TakesModel(s)
          /\ daemon' = "refused"
          /\ UNCHANGED <<core, listing>>
    /\ UNCHANGED <<completed, disk, output, jobs, answered, budget>>

Started ==
    /\ daemon = "restoring" /\ updates = {}
    /\ daemon' = "up"
    /\ UNCHANGED <<core, completed, disk, output, listing, jobs, answered, updates, budget>>

HarnessNext ==
    \/ \E c \in Callers, s \in Sessions :
         \/ \E g \in Groups \cup {NoGroup}, m \in Models \cup {NoModel} : CreateSession(c, s, g, m)
         \/ \E p \in Sessions \cup {Nobody} : SpawnChild(c, p, s)
         \/ \E p \in Sessions : ScheduleAgent(c, p, s)
         \/ \E m \in Models : SetModelProfile(c, s, m)
    \/ \E c \in Callers : InsertCreated(c) \/ InsertSpawned(c) \/ ScheduleLoopMessage(c) \/ NoteModel(c)
    \/ \E p, s \in Sessions, history \in BOOLEAN : ToolSpawns(p, s, history)
    \/ \E s \in DOMAIN core : StartTurn(s) \/ AsksClient(s) \/ EndTurn(s) \/ ChildEnds(s)
    \/ CommitCheckpoint \/ Fanout \/ Restart \/ Started
    \/ \E s \in updates : RestoreProfile(s)

HarnessSpec == HarnessInit /\ [][HarnessNext]_harnessVars

----------------------------------------------------------------------------
(* The sessions that a listed one descends from, itself first: each is the  *)
(* parent the listing has for the one before. As many steps are taken as    *)
(* there can be sessions.                                                   *)
Ascent(path, s) ==
    /\ path[0] = s
    /\ \A i \in DOMAIN path : i > 0 => path[i] = listing[path[i - 1]].parent

(* session_lineage: the root of a listed session and how far it is.         *)
Lineage(s, root, depth) ==
    /\ listing[root].parent = NoSession
    /\ \E path \in [0..depth -> DOMAIN listing] : Ascent(path, s) /\ path[depth] = root

(* The trees of `quine ps --tree`, of the TUI's /ps and of Telegram: from   *)
(* the sessions without a parent (`quine ps`: from all of them if there is  *)
(* none), each before its children. A session is shown once for every       *)
(* session at or above it that the tree starts from.                        *)
Roots == {s \in DOMAIN listing : listing[s].parent = NoSession}
CliRoots == IF Roots = {} THEN DOMAIN listing ELSE Roots

Above(s) ==
    {t \in DOMAIN listing : \E n \in 0..(Cardinality(Sessions) - 1) :
        \E path \in [0..n -> DOMAIN listing] : Ascent(path, s) /\ path[n] = t}

TimesShown(roots, s) == Cardinality(Above(s) \cap roots)

AtRest == daemon = "up" /\ output = <<>> /\ \A c \in Callers : answered[c] = <<>>

(***************************************************************************)
(* Whichever comes first, a call's return or the core's event, the listing  *)
(* ends up true: at rest every live session is listed, and one that was     *)
(* created by a client is listed in the state it is in and with the group   *)
(* its Python tool runs in (local.rs create_session against fanout_loop).   *)
ListingAgrees ==
    AtRest => \A s \in DOMAIN core :
        /\ s \in DOMAIN listing
        /\ core[s].parent = NoSession =>
             /\ listing[s].state = core[s].state
             /\ listing[s].group = EffectiveGroup(s, core[s].group)
             /\ Lineage(s, s, 0)

(***************************************************************************)
(* Every tree shows a listed session once, unless a session above it is not *)
(* listed: one that failed to be restored, or a parent that never existed   *)
(* (format_tree_lines, format_tui_ps_tree, render_session_tree).            *)
TreeShowsEachOnce ==
    \A s \in DOMAIN listing :
        Above(s) \cap Roots # {} => TimesShown(Roots, s) = 1 /\ TimesShown(CliRoots, s) = 1

(***************************************************************************)
(* What the listing says of a session, and what the trees drawn from it     *)
(* show, is what the core has.                                              *)
ListingsAgree == ListingAgrees /\ TreeShowsEachOnce

(***************************************************************************)
(* A daemon that stored a checkpoint starts from it (with_storage). It does *)
(* not when that holds a finished child with a profile, which takes no      *)
(* model: not kept.                                                         *)
DaemonStarts == daemon # "refused"

(***************************************************************************)
(* `quine py --session` runs in the group of the session: the group the     *)
(* harness lists is the one in which the session's own tool runs. A child   *)
(* is listed in its parent's group and runs in its own: not kept.           *)
GroupsAgree ==
    AtRest => \A s \in DOMAIN core \cap DOMAIN listing :
        listing[s].group = EffectiveGroup(s, core[s].group)

(***************************************************************************)
(* A session runs on the model its record names. A child of a session whose *)
(* model was changed is recorded with the new one and runs on what its      *)
(* parent was started with: not kept.                                       *)
RunsItsModel == AtRest => \A s \in DOMAIN core : core[s].runs = core[s].model
=============================================================================
