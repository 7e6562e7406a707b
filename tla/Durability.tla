------------------------------- MODULE Durability -------------------------------
(***************************************************************************)
(* What survives the daemon: checkpoints and persistent memory.            *)
(*                                                                         *)
(* Sessions change in the core.  After a change the session's actor sends  *)
(* a CheckpointHint; the core loop answers it with a snapshot of all       *)
(* sessions on the output channel, which the harness's fan-out task merges *)
(* into the stored checkpoint.  Two requests commit as well, each with a   *)
(* snapshot of its own: unwind_session (everything, replacing what is      *)
(* stored) and get_session_context (one session, merged).  All three hold  *)
(* checkpoint_commit_lock only from the load of the previous checkpoint    *)
(* on, after the snapshot was taken.                                       *)
(*                                                                         *)
(* Under the lock the messages that no earlier commit looked at are read   *)
(* for "remember:" and "forget:", the memory files of the project are      *)
(* written, and only then the checkpoint with the new boundary.  The       *)
(* boundary is a position in the history, and a compaction or an unwind    *)
(* that shortens the history leaves it where it is.                        *)
(*                                                                         *)
(* Abstracted: a message is text, or the wish to remember or to forget one *)
(* fact ("my preference is:" upserts a missing fact and is a remember);    *)
(* all sessions write to one memory scope and may do so.  A commit is one  *)
(* step here: CheckpointFiles shows that the storage makes it one.         *)
(***************************************************************************)
EXTENDS Naturals, Sequences, FiniteSets, TLC, SequencesExt

CONSTANTS Sessions,     \* the sessions that can be created
          Facts,        \* the facts users mention
          Clients,      \* the requests that can be under way at once
          MaxHistory,   \* bound: messages in a history
          OutputCap,    \* bound: events the output channel holds
          MaxTurns,     \* bound: turns over all sessions
          MaxRequests,  \* bound: requests made
          MaxFaults     \* bound: crashes of the daemon and failed commits

ASSUME ClientsAssumption == "fanout" \notin Clients

Remember(f) == <<"remember", f>>
Forget(f) == <<"forget", f>>
Text == <<"text">>
Messages == {Text} \cup {Remember(f) : f \in Facts} \cup {Forget(f) : f \in Facts}

Histories == UNION {[1 .. n -> Messages] : n \in 0 .. MaxHistory}

\* A PersistedSession: its history and last_extracted_message_index + 1, or 0.
Persisted == [history : Histories, extracted : 0 .. MaxHistory]

\* A CoreCheckpoint, a function of the sessions that it holds.
CoreCheckpoints == UNION {[S -> Persisted] : S \in SUBSET Sessions}
Empty == [s \in {} |-> Text]

\* One session's value, and the values of g unless f has the session too.
Only(s, value) == [x \in {s} |-> value]
Override(f, g) ==
  [s \in DOMAIN f \cup DOMAIN g |-> IF s \in DOMAIN f THEN f[s] ELSE g[s]]

VARIABLES
  core,          \* the registered sessions' histories
  restored_index,\* what each session's SessionMemoryState says was extracted
  hints,         \* CheckpointHint events the core loop has not taken
  output,        \* CheckpointRequested events the fan-out has not taken
  requests,      \* unwind and context requests
  lock,          \* the holder of checkpoint_commit_lock, if any
  stored,        \* the durable checkpoint
  entries,       \* the facts that have an entry file
  tombstones,    \* the facts that have a tombstone file
  torn,          \* an entry file was left half written
  turns, asked,  \* turns and requests so far
  faults,        \* crashes and failed commits so far
  \* What the properties look back at:
  announced,     \* the histories each session has had since its last hint
  spoiled,       \* an overtaken snapshot was committed, or a commit was lost
  shortened,     \* some history was unwound or compacted
  revived        \* facts written again although a tombstone says forgotten

core_vars == <<core, restored_index, announced>>
memory_vars == <<entries, tombstones, torn, revived>>
ghosts == <<spoiled, shortened>>
counts == <<turns, asked>>
durability_vars == <<core_vars, hints, output, requests, lock, stored,
                     memory_vars, counts, faults, ghosts>>

NoRequest == [phase |-> "none"]
Free == [by |-> "nobody", blind |-> FALSE]
Holder == Clients \cup {"fanout"}

DurabilityTypeOK ==
  /\ core \in UNION {[S -> Histories] : S \in SUBSET Sessions}
  /\ announced \in [DOMAIN core -> SUBSET Histories]
  /\ restored_index \in [DOMAIN core -> 0 .. MaxHistory]
  /\ hints \in 0 .. 2
  /\ output \in Seq(CoreCheckpoints) /\ Len(output) <= OutputCap
  /\ \A r \in Clients :
       /\ requests[r].phase \in {"none", "asks", "holds"}
       /\ requests[r].phase = "holds" =>
            requests[r].snapshot \in CoreCheckpoints
  /\ lock.by \in Holder \cup {"nobody"}
  /\ lock # Free => lock.checkpoint \in CoreCheckpoints
  /\ stored \in CoreCheckpoints
  /\ entries \subseteq Facts /\ tombstones \subseteq Facts

DurabilityInit ==
  /\ core = Empty /\ announced = Empty /\ restored_index = Empty
  /\ hints = 0 /\ output = <<>>
  /\ requests = [r \in Clients |-> NoRequest]
  /\ lock = Free /\ stored = Empty
  /\ entries = {} /\ tombstones = {} /\ torn = FALSE /\ revived = {}
  /\ turns = 0 /\ asked = 0 /\ faults = 0 /\ spoiled = FALSE /\ shortened = FALSE

-----------------------------------------------------------------------------
(***************************************************************************)
(* The core.                                                               *)
(***************************************************************************)
Snapshot(S) ==
  [s \in S \cap DOMAIN core |->
     [history |-> core[s], extracted |-> restored_index[s]]]

Hint == hints < 2 /\ hints' = hints + 1

\* What the properties remember of a change that a hint follows, or none.
Announce(s) == announced' = [announced EXCEPT ![s] = {core'[s]}]
KeepQuiet(s) == announced' = [announced EXCEPT ![s] = @ \cup {core'[s]}]

\* CreateSession: the checkpoint is asked for before the caller is answered.
CreateSession(s) ==
  /\ s \notin DOMAIN core \cup DOMAIN stored /\ Len(output) < OutputCap
  /\ core' = Override(core, Only(s, <<>>))
  /\ announced' = Override(announced, Only(s, {<<>>}))
  /\ restored_index' = Override(restored_index, Only(s, 0))
  /\ output' = Append(output,
       Override(Snapshot(DOMAIN core), Only(s, [history |-> <<>>, extracted |-> 0])))
  /\ UNCHANGED <<hints, requests, lock, stored, memory_vars, counts, faults,
                 ghosts>>

\* A turn ends: its message is history, and a checkpoint is due.
TurnEnds(s, m) ==
  /\ s \in DOMAIN core /\ Len(core[s]) < MaxHistory
  /\ turns < MaxTurns /\ turns' = turns + 1
  /\ core' = [core EXCEPT ![s] = Append(@, m)]
  /\ Announce(s)
  /\ Hint
  /\ UNCHANGED <<restored_index, output, requests, lock, stored, memory_vars,
                 asked, faults, ghosts>>

\* The model's call fails: the message stays in the history, no hint is sent.
TurnFails(s, m) ==
  /\ s \in DOMAIN core /\ Len(core[s]) < MaxHistory
  /\ turns < MaxTurns /\ turns' = turns + 1
  /\ core' = [core EXCEPT ![s] = Append(@, m)]
  /\ KeepQuiet(s)
  /\ UNCHANGED <<restored_index, hints, output, requests, lock, stored,
                 memory_vars, asked, faults, ghosts>>

\* compact_session_history, on request or within a turn: a summary takes the place
\* of all messages but the last ones.  It sends no hint, and the boundary stays.
Compact(s, n) ==
  /\ s \in DOMAIN core /\ n + 1 < Len(core[s])
  /\ core' = [core EXCEPT ![s] = <<Text>> \o SubSeq(@, Len(@) - n + 1, Len(@))]
  /\ KeepQuiet(s)
  /\ shortened' = TRUE
  /\ UNCHANGED <<restored_index, hints, output, requests, lock, stored,
                 memory_vars, counts, faults, spoiled>>

\* The core loop takes a hint and waits for room in the output channel.
EmitCheckpointRequest ==
  /\ hints > 0 /\ Len(output) < OutputCap
  /\ hints' = hints - 1
  /\ output' = Append(output, Snapshot(DOMAIN core))
  /\ UNCHANGED <<core_vars, requests, lock, stored, memory_vars, counts, faults,
                 ghosts>>

-----------------------------------------------------------------------------
(***************************************************************************)
(* Requests.                                                               *)
(***************************************************************************)
\* unwind_session: once the actor has cut its history (and sent a hint) the
\* harness asks for a snapshot of every session.
UnwindSession(r, s, n) ==
  /\ requests[r] = NoRequest
  /\ asked < MaxRequests /\ asked' = asked + 1
  /\ s \in DOMAIN core /\ n < Len(core[s])
  /\ core' = [core EXCEPT ![s] = SubSeq(@, 1, n)]
  /\ Announce(s)
  /\ Hint
  /\ requests' = [requests EXCEPT
       ![r] = [phase |-> "asks", of |-> Sessions, merge |-> FALSE]]
  /\ shortened' = TRUE
  /\ UNCHANGED <<restored_index, output, lock, stored, memory_vars, turns,
                 faults, spoiled>>

\* get_session_context of a session the harness lists as live.
GetSessionContext(r, s) ==
  /\ requests[r] = NoRequest
  /\ asked < MaxRequests /\ asked' = asked + 1
  /\ s \in DOMAIN core \cup DOMAIN stored
  /\ requests' = [requests EXCEPT
       ![r] = [phase |-> "asks", of |-> {s}, merge |-> TRUE]]
  /\ UNCHANGED <<core_vars, hints, output, lock, stored, memory_vars, turns,
                 faults, ghosts>>

\* The core loop answers with a snapshot; "behind" counts the older ones that
\* the fan-out has still to commit.
AnswerSnapshot(r) ==
  /\ requests[r].phase = "asks"
  /\ requests' = [requests EXCEPT
       ![r] = [phase |-> "holds", snapshot |-> Snapshot(requests[r].of),
               merge |-> requests[r].merge, overtaken |-> FALSE,
               behind |-> Len(output) + (IF lock.by = "fanout" THEN 1 ELSE 0)]]
  /\ UNCHANGED <<core_vars, hints, output, lock, stored, memory_vars, counts,
                 faults, ghosts>>

-----------------------------------------------------------------------------

\* Mutant: the boundary of the update replaces a later one.
ForgetPrevious(session, s, previous) == session

(***************************************************************************)
(* Under the lock: extraction, then the commit.                            *)
(***************************************************************************)
\* The boundary of the previous checkpoint counts when it is the later one.
WithPrevious(session, s, previous) ==
  IF s \in DOMAIN previous /\ previous[s].extracted > session.extracted
  THEN [session EXCEPT !.extracted = previous[s].extracted]
  ELSE session

\* decision_for_message: what one message does to the files.
Decide(files, m) ==
  CASE m[1] = "remember" ->
         [files EXCEPT !.entries = @ \cup {m[2]}]
    [] m[1] = "forget" /\ m[2] \in files.entries ->
         [files EXCEPT !.entries = @ \ {m[2]},
                       !.tombstones = @ \cup {m[2]}]
    [] OTHER -> files

\* extract_and_persist_for_session reads the messages from the boundary on.
NewMessages(session) == SubSeq(session.history, session.extracted + 1,
                               Len(session.history))

\* One session is enriched: its boundary moves to the end.  With a torn entry file
\* the extraction fails and the boundary stays.
Enrich(session, s, previous) ==
  LET known == WithPrevious(session, s, previous)
  IN IF NewMessages(known) = <<>> \/ torn THEN known
     ELSE [known EXCEPT !.extracted = Len(known.history)]

\* What its new messages do to the files, one after the other.
Extract(files, session, s, previous) ==
  IF torn THEN files
  ELSE FoldLeft(Decide, files, NewMessages(WithPrevious(session, s, previous)))

\* Mutant: the stored sessions stay where the update has newer ones.
KeepExisting(update, previous) == Override(previous, update)

\* merge_checkpoint_update: the update's sessions replace the stored ones.
Merge(update, previous) == Override(update, previous)

\* The lock is taken, every session of the update enriched (in the order of the
\* registry, which is any) with what was loaded of the previous checkpoint, and
\* the memory files are written.
LockAndExtract(holder, update, merge, overtaken, previous) ==
  /\ lock = Free
  /\ LET enriched == [s \in DOMAIN update |-> Enrich(update[s], s, previous)]
     IN lock' = [by |-> holder, overtaken |-> overtaken, blind |-> previous # stored,
          checkpoint |-> IF merge THEN Merge(enriched, previous) ELSE enriched]
  /\ \E order \in SetToSeqs(DOMAIN update) :
       LET files == FoldLeft(LAMBDA before, s : Extract(before, update[s], s, previous),
             [entries |-> entries, tombstones |-> tombstones], order)
       IN /\ entries' = files.entries
          /\ tombstones' = files.tombstones
          /\ revived' = revived \cup ((tombstones \ entries) \cap entries')
  /\ UNCHANGED torn

FanoutTakes(previous) ==
  /\ output # <<>>
  /\ LockAndExtract("fanout", Head(output), TRUE, FALSE, previous)
  /\ output' = Tail(output)
  /\ UNCHANGED <<core_vars, hints, requests, stored, counts, ghosts>>

FanoutLocks == FanoutTakes(stored) /\ UNCHANGED faults

\* The previous checkpoint cannot be loaded: the fan-out goes on as if there were
\* none (.ok().flatten()), a request replies with the error.
FanoutLoadFails ==
  /\ faults < MaxFaults /\ faults' = faults + 1
  /\ FanoutTakes(Empty)

RequestLoadFails(r) ==
  /\ requests[r].phase = "holds" /\ lock = Free
  /\ faults < MaxFaults /\ faults' = faults + 1
  /\ requests' = [requests EXCEPT ![r] = NoRequest]
  /\ UNCHANGED <<core_vars, hints, output, lock, stored, memory_vars, counts,
                 ghosts>>

RequestLocks(r) ==
  /\ requests[r].phase = "holds"
  /\ LockAndExtract(r, requests[r].snapshot, requests[r].merge,
                    requests[r].overtaken, stored)
  /\ requests' = [requests EXCEPT ![r] = NoRequest]
  /\ UNCHANGED <<core_vars, hints, output, stored, counts, faults, ghosts>>

\* The requests that hold a snapshot older than the one the fan-out committed.
Overtake ==
  [r \in Clients |->
     IF requests[r].phase # "holds" \/ lock.by # "fanout" THEN requests[r]
     ELSE IF requests[r].behind > 0
          THEN [requests[r] EXCEPT !.behind = @ - 1]
          ELSE [requests[r] EXCEPT !.overtaken = TRUE]]

Commit ==
  /\ lock # Free
  /\ stored' = lock.checkpoint
  /\ spoiled' = (spoiled \/ lock.overtaken)
  /\ requests' = Overtake
  /\ lock' = Free
  /\ UNCHANGED <<core_vars, hints, output, memory_vars, counts, faults,
                 shortened>>

\* commit_checkpoint fails: an error event or an error reply, nothing retries.
CommitFails ==
  /\ lock # Free /\ faults < MaxFaults
  /\ faults' = faults + 1 /\ spoiled' = TRUE
  /\ lock' = Free
  /\ UNCHANGED <<core_vars, hints, output, requests, stored, memory_vars,
                 counts, shortened>>

-----------------------------------------------------------------------------
\* The daemon dies and a new one starts from the checkpoint.  A session whose
\* setup fails is left out.  An entry file that was being written (fs::write, no
\* rename) may be torn, and every later load of the scope then fails.
CrashAndRestart ==
  /\ faults < MaxFaults /\ faults' = faults + 1
  /\ \E back \in SUBSET DOMAIN stored :
       /\ core' = [s \in back |-> stored[s].history]
       /\ restored_index' = [s \in back |-> stored[s].extracted]
  /\ announced' = [s \in DOMAIN core' |-> {core'[s]}]
  /\ hints' = 0 /\ output' = <<>>
  /\ requests' = [r \in Clients |-> NoRequest]
  /\ lock' = Free /\ spoiled' = FALSE
  /\ torn' \in (IF lock # Free THEN {torn, TRUE} ELSE {torn})
  /\ UNCHANGED <<stored, entries, tombstones, revived, counts, shortened>>

DurabilityNext ==
  \/ \E s \in Sessions : CreateSession(s)
  \/ \E s \in Sessions, m \in Messages : TurnEnds(s, m)
  \/ \E s \in Sessions, m \in Messages : TurnFails(s, m)
  \/ \E s \in Sessions, n \in 0 .. MaxHistory : Compact(s, n)
  \/ EmitCheckpointRequest
  \/ \E r \in Clients, s \in Sessions, n \in 0 .. MaxHistory :
       UnwindSession(r, s, n)
  \/ \E r \in Clients, s \in Sessions : GetSessionContext(r, s)
  \/ \E r \in Clients : AnswerSnapshot(r)
  \/ FanoutLocks \/ FanoutLoadFails
  \/ \E r \in Clients : RequestLocks(r) \/ RequestLoadFails(r)
  \/ Commit
  \/ CommitFails
  \/ CrashAndRestart

DurabilitySpec == DurabilityInit /\ [][DurabilityNext]_durability_vars

-----------------------------------------------------------------------------
Quiet ==
  /\ hints = 0 /\ output = <<>> /\ lock = Free
  /\ \A r \in Clients : requests[r] = NoRequest

\* When nothing is under way the stored checkpoint has of each session a history
\* that it has had since its last announcement, unless a request committed a
\* snapshot that the fan-out had already replaced by a newer one, or a commit
\* failed (local.rs 352-442, 717-760).
StaleOnlyIfOvertaken ==
  Quiet /\ ~spoiled =>
    \A s \in DOMAIN core : s \in DOMAIN stored /\ stored[s].history \in announced[s]

\* The extraction boundary of a session never moves back while the session stays
\* stored, however old the snapshot is that is committed, unless the previous
\* checkpoint could not be loaded (local.rs 216-226).
BoundaryNeverRegresses ==
  [][lock.blind \/ \A s \in DOMAIN stored \cap DOMAIN stored' :
                       stored'[s].extracted >= stored[s].extracted]_stored

\* The last message of a history that mentions the fact.
LastWord(history, f) ==
  LET about == SelectSeq(history, LAMBDA m : m # Text /\ m[2] = f)
  IN IF about = <<>> THEN "silent" ELSE Last(about)[1]

Mentions(history, f) == LastWord(history, f) # "silent"

\* As long as no history was unwound or compacted and no commit was lost, the
\* memory of a fact that one session mentions is what that session's last
\* extracted message asks for (memory_store.rs 202-272).
MemoryFollowsHistory ==
  \A s \in DOMAIN stored, f \in Facts :
    (/\ lock = Free /\ faults = 0 /\ ~shortened
     /\ \A other \in DOMAIN core \ {s} : ~Mentions(core[other], f)
     /\ stored[s].extracted = Len(stored[s].history))
      => (f \in entries <=> LastWord(stored[s].history, f) = "remember")

\* At rest the disk agrees with the sessions: checkpoint and memory follow what was
\* said.
DiskFollowsSessions == StaleOnlyIfOvertaken /\ MemoryFollowsHistory

\* A fact with a tombstone is not written again by the extraction (the design's
\* promise for tombstones; the code never reads them).
ForgottenIsNotRevived == revived = {}

\* What one would expect and the code does not keep (README): the boundary never
\* lies behind the end of the history.  Once a compaction or an unwind has made the
\* history shorter, the next messages are in front of it and are never read.
BoundaryIsWithinHistory ==
  \A s \in DOMAIN core \cap DOMAIN stored : stored[s].extracted <= Len(core[s])

================================================================================
