--------------------------- MODULE Durability_proofs ---------------------------
(***************************************************************************)
(* What is stored keeps up with the sessions.  Snapshots are committed by   *)
(* the fan-out in the order they were taken and by requests in any order;   *)
(* the newest of them decides what the disk says once nothing is under way. *)
(* A commit is one step of theirs: the files of StorageManager implement    *)
(* one durable cell, which is proved first.                                 *)
(***************************************************************************)
EXTENDS Durability, CheckpointFiles, SequenceTheorems, TLAPS

--------------------------------------------------------------------------------
(***************************************************************************)
(* The files.  What makes the refinement hold: a file that the manifest     *)
(* names is whole, the temporary file is whole when it is about to be       *)
(* renamed, and the next generation's file is the checkpoint being written  *)
(* when the manifest is about to name it.                                   *)
(***************************************************************************)
NamedIsWhole == manifest # 0 => files[manifest] \in Checkpoints

WritingIffBusy ==
  /\ step = "idle" <=> writing = NoCheckpoint
  /\ step # "idle" => NextGeneration \in Generations

SyncedIsWhole == step = "rename" => tmp = writing

NextIsWritten ==
  step \in {"manifest", "publish"} => files[NextGeneration] = writing

FilesInv ==
  /\ FilesTypeOK
  /\ NamedIsWhole
  /\ WritingIffBusy
  /\ SyncedIsWhole
  /\ NextIsWritten

LEMMA FilesInitInv == FilesInit => FilesInv
  BY FilesAssumption
  DEF FilesInit, FilesInv, FilesTypeOK, NamedIsWhole, WritingIffBusy,
      SyncedIsWhole, NextIsWritten, Generations, Steps, NextGeneration

\* One step of a commit keeps the invariant.
LEMMA FilesNextInv ==
  ASSUME FilesInv, [FilesNext]_files_vars
  PROVE  FilesInv'
<1> USE FilesAssumption DEF FilesInv, FilesTypeOK, NamedIsWhole, WritingIffBusy,
        SyncedIsWhole, NextIsWritten, Generations, Steps, NextGeneration
<1>1. ASSUME NEW c \in Checkpoints, BeginCommit(c) PROVE FilesInv'
  BY <1>1 DEF BeginCommit
<1>2. CASE WriteTmp
  BY <1>2 DEF WriteTmp
<1>3. CASE RenameTmp
  BY <1>3 DEF RenameTmp
<1>4. CASE WriteManifestTmp
  BY <1>4 DEF WriteManifestTmp
<1>5. CASE PublishManifest
  BY <1>5 DEF PublishManifest
<1>6. CASE CommitCut
  BY <1>6 DEF CommitCut
<1>7. CASE UNCHANGED files_vars
  BY <1>7 DEF files_vars
<1>. QED
  BY <1>1, <1>2, <1>3, <1>4, <1>5, <1>6, <1>7 DEF FilesNext

\* Type correctness of the files and, with it, that a load never meets a torn or
\* a missing checkpoint (load_latest_checkpoint, storage.rs 397-409).
THEOREM FilesAlwaysWhole == FilesSpec => [](FilesTypeOK /\ NamedIsWhole)
<1>1. FilesSpec => []FilesInv
  BY FilesInitInv, FilesNextInv, PTL DEF FilesSpec
<1>2. FilesInv => FilesTypeOK /\ NamedIsWhole
  BY DEF FilesInv
<1>. QED
  BY <1>1, <1>2, PTL

--------------------------------------------------------------------------------
(***************************************************************************)
(* Refinement: publishing the manifest is the commit of the abstract cell, *)
(* every other step of a commit is a stutter.                              *)
(***************************************************************************)
LEMMA StoreStarts == FilesInit => Store!StoreInit
  BY DEF FilesInit, Store!StoreInit, Latest

LEMMA StoreSteps ==
  ASSUME FilesInv, [FilesNext]_files_vars
  PROVE  [Store!StoreNext]_(Store!store_vars)
<1> USE FilesAssumption DEF FilesInv, FilesTypeOK, NamedIsWhole, WritingIffBusy,
        SyncedIsWhole, NextIsWritten, Generations, NextGeneration,
        Latest, Store!store_vars
<1>1. ASSUME NEW c \in Checkpoints, BeginCommit(c) PROVE Store!StoreBegin
  BY <1>1 DEF BeginCommit, Store!StoreBegin
<1>2. CASE WriteTmp
  BY <1>2 DEF WriteTmp
<1>3. CASE RenameTmp
  \* The renamed file is not the one that the manifest names.
  <2>1. manifest # 0 => files'[manifest] = files[manifest]
    BY <1>3 DEF RenameTmp
  <2>. QED
    BY <1>3, <2>1 DEF RenameTmp
<1>4. CASE WriteManifestTmp
  BY <1>4 DEF WriteManifestTmp
<1>5. CASE PublishManifest
  <2>1. writing # NoCheckpoint /\ writing' = NoCheckpoint
    BY <1>5 DEF PublishManifest
  <2>2. Latest' = writing
    BY <1>5 DEF PublishManifest
  <2>. QED
    BY <2>1, <2>2 DEF Store!StoreCommit, Store!StoreNext
<1>6. CASE CommitCut
  BY <1>6 DEF CommitCut, Store!StoreAbort, Store!StoreNext
<1>7. CASE UNCHANGED files_vars
  BY <1>7 DEF files_vars
<1>. QED
  BY <1>1, <1>2, <1>3, <1>4, <1>5, <1>6, <1>7
  DEF FilesNext, Store!StoreNext

\* commit_checkpoint and load_latest_checkpoint implement the durable cell: a
\* commit takes effect as a whole or not at all, whatever fails or dies between
\* two of its steps (storage.rs 411-465).
THEOREM FilesImplementStore == FilesSpec => ImplementsStore
<1>1. FilesSpec => []FilesInv
  BY FilesInitInv, FilesNextInv, PTL DEF FilesSpec
<1>. QED
  BY <1>1, StoreStarts, StoreSteps, PTL
  DEF FilesSpec, ImplementsStore, Store!StoreSpec


USE DEF core_vars, memory_vars, ghosts, counts, durability_vars

--------------------------------------------------------------------------------
(* The inductive invariant.                                                 *)

Records == [history : Seq(Messages), extracted : Nat]
Snapshots == UNION {[S -> Records] : S \in SUBSET Sessions}

Asking == [phase : {"asks"}, of : SUBSET Sessions, merge : BOOLEAN]
Holding == [phase : {"holds"}, snapshot : Snapshots, merge : BOOLEAN,
            overtaken : BOOLEAN, behind : Nat]
Locked == [by : Holder, overtaken : BOOLEAN, blind : BOOLEAN, checkpoint : Snapshots]

CoreTypeOK ==
  /\ DOMAIN core \subseteq Sessions
  /\ core \in [DOMAIN core -> Seq(Messages)]
  /\ announced \in [DOMAIN core -> SUBSET Seq(Messages)]
  /\ restored_index \in [DOMAIN core -> Nat]

QueuesTypeOK ==
  /\ hints \in Nat
  /\ output \in Seq(Snapshots)
  /\ requests \in [Clients -> {NoRequest} \cup Asking \cup Holding]
  /\ lock \in {Free} \cup Locked
  /\ stored \in Snapshots
  /\ spoiled \in BOOLEAN

\* A request for all sessions replaces what is stored, any other is merged.
AsksForAll ==
  \A r \in Clients : requests[r] \in Asking =>
    requests[r].merge = TRUE \/ requests[r].of = Sessions

\* Every history is one since the last announcement.
AnnouncedIsThere == \A s \in DOMAIN core : core[s] \in announced[s]

\* The sessions (of c) have in a snapshot x a history that they have had since their
\* last announcement (in a); a complete snapshot has all sessions.
AllCurrent(x, c, a) == \A s \in DOMAIN c \cap DOMAIN x : x[s].history \in a[s]
Complete(x, c, a) == DOMAIN c \subseteq DOMAIN x /\ AllCurrent(x, c, a)

\* The snapshots of the fan-out that are still to be committed.
Underway == Len(output) + (IF lock.by = "fanout" THEN 1 ELSE 0)

\* When no hint waits, the last of what will be committed is complete.
NewestIsComplete ==
  hints = 0 /\ spoiled = FALSE =>
    /\ output # <<>> => Complete(output[Len(output)], core, announced)
    /\ output = <<>> /\ lock # Free =>
         lock.overtaken = TRUE \/ Complete(lock.checkpoint, core, announced)
    /\ output = <<>> /\ lock = Free => Complete(stored, core, announced)

\* A snapshot of a request is overtaken once the fan-out commits one that was
\* taken later, and is current as long as there is none.
KnowsItsPlace(request, c, a, underway, quiet) ==
  request \in Holding /\ request.overtaken = FALSE =>
    /\ request.behind <= underway
    /\ quiet /\ request.behind = underway =>
         /\ AllCurrent(request.snapshot, c, a)
         /\ request.merge = TRUE \/ Complete(request.snapshot, c, a)

RequestsKnowTheirPlace ==
  spoiled = FALSE =>
    \A r \in Clients : KnowsItsPlace(requests[r], core, announced, Underway, hints = 0)

\* What is about to be committed is not behind what is stored, if that was loaded.
NotBehind(x, y) ==
  \A s \in DOMAIN x \cap DOMAIN y : x[s].extracted >= y[s].extracted

NoBoundaryBehind ==
  lock # Free => lock.blind = TRUE \/ NotBehind(lock.checkpoint, stored)

DurabilityInv ==
  /\ CoreTypeOK /\ QueuesTypeOK /\ AsksForAll /\ AnnouncedIsThere
  /\ NewestIsComplete /\ RequestsKnowTheirPlace /\ NoBoundaryBehind

--------------------------------------------------------------------------------
(* Snapshots.                                                               *)

LEMMA SnapshotIs ==
  ASSUME NEW x
  PROVE  x \in Snapshots <=> DOMAIN x \subseteq Sessions /\ x \in [DOMAIN x -> Records]
BY DEF Snapshots

\* One snapshot over another.
LEMMA OverrideIs ==
  ASSUME NEW x \in Snapshots, NEW y \in Snapshots
  PROVE  /\ Override(x, y) \in Snapshots
         /\ DOMAIN Override(x, y) = DOMAIN x \cup DOMAIN y
         /\ \A s \in DOMAIN x : Override(x, y)[s] = x[s]
         /\ \A s \in DOMAIN y \ DOMAIN x : Override(x, y)[s] = y[s]
<1>1. /\ DOMAIN x \subseteq Sessions /\ x \in [DOMAIN x -> Records]
      /\ DOMAIN y \subseteq Sessions /\ y \in [DOMAIN y -> Records]
  BY SnapshotIs
<1>2. PICK z : z = Override(x, y)
  OBVIOUS
<1>3. DOMAIN z = DOMAIN x \cup DOMAIN y /\ z \in [DOMAIN x \cup DOMAIN y -> Records]
  BY <1>1, <1>2 DEF Override
<1>4. z \in Snapshots
  BY <1>1, <1>3, SnapshotIs
<1> QED
  BY <1>2, <1>3, <1>4 DEF Override

\* A snapshot of some sessions, or of all, is current when it is taken.
LEMMA SnapshotIsCurrent ==
  ASSUME CoreTypeOK, AnnouncedIsThere, NEW S
  PROVE  /\ Snapshot(S) \in Snapshots
         /\ DOMAIN Snapshot(S) = S \cap DOMAIN core
         /\ AllCurrent(Snapshot(S), core, announced)
<1>1. PICK z : z = Snapshot(S)
  OBVIOUS
<1>2. DOMAIN z = S \cap DOMAIN core /\ z \in [S \cap DOMAIN core -> Records]
  BY <1>1 DEF Snapshot, CoreTypeOK, Records
<1>3. z \in Snapshots
  BY <1>2, SnapshotIs DEF CoreTypeOK
<1>4. ASSUME NEW s \in DOMAIN core \cap DOMAIN z
      PROVE  z[s].history \in announced[s]
  BY <1>1, <1>2, <1>4 DEF Snapshot, AnnouncedIsThere
<1> QED
  BY <1>1, <1>2, <1>3, <1>4 DEF AllCurrent

\* A snapshot stays current when nothing is announced.
LEMMA StaysCurrent ==
  ASSUME NEW x, NEW c, NEW d, NEW a, NEW b, DOMAIN d = DOMAIN c,
         \A s \in DOMAIN c : a[s] \subseteq b[s]
  PROVE  /\ AllCurrent(x, c, a) => AllCurrent(x, d, b)
         /\ Complete(x, c, a) => Complete(x, d, b)
BY DEF Complete, AllCurrent

--------------------------------------------------------------------------------
(* Under the lock.                                                          *)

LEMMA WithPreviousIs ==
  ASSUME NEW previous \in Snapshots, NEW session \in Records, NEW s
  PROVE  /\ WithPrevious(session, s, previous) \in Records
         /\ WithPrevious(session, s, previous).history = session.history
         /\ s \in DOMAIN previous =>
              WithPrevious(session, s, previous).extracted >= previous[s].extracted
<1>1. s \in DOMAIN previous => previous[s] \in Records
  BY SnapshotIs
<1>2. CASE s \in DOMAIN previous /\ previous[s].extracted > session.extracted
  BY <1>1, <1>2 DEF WithPrevious, Records
<1>3. CASE ~ (s \in DOMAIN previous /\ previous[s].extracted > session.extracted)
  BY <1>1, <1>3 DEF WithPrevious, Records
<1> QED
  BY <1>2, <1>3

LEMMA EnrichIs ==
  ASSUME NEW previous \in Snapshots, NEW session \in Records, NEW s
  PROVE  /\ Enrich(session, s, previous) \in Records
         /\ Enrich(session, s, previous).history = session.history
         /\ s \in DOMAIN previous => Enrich(session, s, previous).extracted >= previous[s].extracted
<1>1. PICK known : known = WithPrevious(session, s, previous)
  OBVIOUS
<1>2. /\ known \in Records /\ known.history = session.history
      /\ s \in DOMAIN previous => known.extracted >= previous[s].extracted
  BY <1>1, WithPreviousIs
<1>3. CASE NewMessages(known) = <<>> \/ torn
  BY <1>1, <1>2, <1>3 DEF Enrich
<1>4. CASE ~ (NewMessages(known) = <<>> \/ torn)
  <2>1. Enrich(session, s, previous) = [known EXCEPT !.extracted = Len(known.history)]
    BY <1>1, <1>4 DEF Enrich
  <2>2. known.history \in Seq(Messages) /\ known.extracted \in Nat /\ Len(known.history) \in Nat
    BY <1>2 DEF Records
  <2>3. known.extracted + 1 <= Len(known.history)
    <3>1. SUFFICES ASSUME known.extracted + 1 > Len(known.history)
                   PROVE  NewMessages(known) = <<>>
      BY <1>4, <2>2
    <3> QED
      BY <2>2, <3>1, EmptySeq DEF NewMessages
  <2>4. s \in DOMAIN previous => previous[s].extracted \in Nat
    BY SnapshotIs DEF Records
  <2> QED
    BY <1>2, <2>1, <2>2, <2>3, <2>4 DEF Records
<1> QED
  BY <1>3, <1>4

\* Whoever takes the lock: the histories to be committed are those of the update
\* and, when it is merged, those loaded, and no boundary is behind what was loaded.
Taken(after, holder, update, merge, overtaken, previous) ==
  /\ after \in Locked /\ after # Free
  /\ after.by = holder /\ after.overtaken = overtaken
  /\ after.blind = TRUE \/ previous = stored
  /\ DOMAIN after.checkpoint = IF merge THEN DOMAIN update \cup DOMAIN previous ELSE DOMAIN update
  /\ \A s \in DOMAIN update : after.checkpoint[s].history = update[s].history
  /\ merge => \A s \in DOMAIN previous \ DOMAIN update : after.checkpoint[s] = previous[s]
  /\ NotBehind(after.checkpoint, previous)

LEMMA LockIs ==
  ASSUME QueuesTypeOK, NEW holder \in Holder, NEW update \in Snapshots,
         NEW merge \in BOOLEAN, NEW overtaken \in BOOLEAN, NEW previous \in Snapshots,
         LockAndExtract(holder, update, merge, overtaken, previous)
  PROVE  lock = Free /\ Taken(lock', holder, update, merge, overtaken, previous)
<1>1. PICK enriched : enriched = [s \in DOMAIN update |-> Enrich(update[s], s, previous)]
  OBVIOUS
<1>2. PICK checkpoint : checkpoint = IF merge THEN Merge(enriched, previous) ELSE enriched
  OBVIOUS
<1>3. lock = Free
      /\ lock' = [by |-> holder, overtaken |-> overtaken, blind |-> previous # stored,
                   checkpoint |-> checkpoint]
  BY <1>1, <1>2 DEF LockAndExtract
<1>4. previous \in Snapshots /\ DOMAIN update \subseteq Sessions
      /\ \A s \in DOMAIN update : update[s] \in Records
  BY SnapshotIs DEF QueuesTypeOK
<1>5. /\ DOMAIN enriched = DOMAIN update
      /\ \A s \in DOMAIN update :
           /\ enriched[s] \in Records
           /\ enriched[s].history = update[s].history
           /\ s \in DOMAIN previous => enriched[s].extracted >= previous[s].extracted
  BY <1>1, <1>4, EnrichIs
<1>6. enriched \in Snapshots
  BY <1>1, <1>4, <1>5, SnapshotIs
<1>7. /\ checkpoint \in Snapshots
      /\ DOMAIN checkpoint = IF merge THEN DOMAIN update \cup DOMAIN previous ELSE DOMAIN update
      /\ \A s \in DOMAIN update : checkpoint[s] = enriched[s]
      /\ merge => \A s \in DOMAIN previous \ DOMAIN update : checkpoint[s] = previous[s]
  <2>1. CASE merge
    <3>1. checkpoint = Override(enriched, previous)
      BY <1>2, <2>1 DEF Merge
    <3>2. previous \in Snapshots /\ DOMAIN enriched = DOMAIN update
      BY <1>4, <1>5
    <3>3. DOMAIN checkpoint = DOMAIN enriched \cup DOMAIN previous
      BY <1>6, <3>1, <3>2, OverrideIs
    <3>4. checkpoint \in Snapshots
      BY <1>6, <3>1, <3>2, OverrideIs
    <3>5. \A s \in DOMAIN enriched : checkpoint[s] = enriched[s]
      BY <1>6, <3>1, <3>2, OverrideIs
    <3>6. \A s \in DOMAIN previous \ DOMAIN enriched : checkpoint[s] = previous[s]
      BY <1>6, <3>1, <3>2, OverrideIs
    <3> QED
      BY <2>1, <3>2, <3>3, <3>4, <3>5, <3>6
  <2>2. CASE ~ merge
    BY <1>2, <1>5, <1>6, <2>2
  <2> QED
    BY <2>1, <2>2
<1>8. NotBehind(checkpoint, previous)
  <2>1. \A s \in DOMAIN previous : previous[s].extracted \in Nat
    BY <1>4, SnapshotIs DEF Records
  <2>2. ASSUME NEW s \in DOMAIN checkpoint \cap DOMAIN previous
        PROVE  checkpoint[s].extracted >= previous[s].extracted
    <3>1. CASE s \in DOMAIN update
      BY <1>5, <1>7, <2>2, <3>1
    <3>2. CASE s \notin DOMAIN update
      <4>1. checkpoint[s] = previous[s]
        BY <1>7, <2>2, <3>2
      <4> QED
        BY <2>1, <2>2, <4>1
    <3> QED
      BY <3>1, <3>2
  <2> QED
    BY <2>2 DEF NotBehind
<1>9. lock' \in Locked /\ lock' # Free
  <2>1. lock' \in Locked
    BY <1>3, <1>7 DEF Locked
  <2>2. DOMAIN lock' # DOMAIN Free
    BY <1>3 DEF Free
  <2> QED
    BY <2>1, <2>2
<1> QED
  BY <1>3, <1>5, <1>7, <1>8, <1>9 DEF Taken

\* A lock that is held is of somebody, one that is free of nobody.
LEMMA LockCases ==
  ASSUME lock \in {Free} \cup Locked
  PROVE  /\ lock # Free => /\ lock \in Locked /\ lock.by \in Holder
                           /\ lock.checkpoint \in Snapshots /\ lock.overtaken \in BOOLEAN
         /\ Free.by = "nobody"
BY DEF Free, Locked

--------------------------------------------------------------------------------
(* The steps: types, and what requests ask for.                             *)

\* The three kinds of a request's state.
LEMMA RequestKinds ==
  ASSUME NEW request
  PROVE  /\ request \in Asking => /\ request.phase = "asks" /\ request.of \subseteq Sessions
                                  /\ request.merge \in BOOLEAN
         /\ request \in Holding => /\ request.phase = "holds" /\ request.snapshot \in Snapshots
                                   /\ request.merge \in BOOLEAN /\ request.overtaken \in BOOLEAN
                                   /\ request.behind \in Nat
         /\ NoRequest.phase = "none"
BY DEF Asking, Holding, NoRequest

\* One session's history changes; the one it has now is remembered.
LEMMA HistoryChanges ==
  ASSUME CoreTypeOK, AnnouncedIsThere, NEW s \in DOMAIN core, NEW h \in Seq(Messages),
         core' = [core EXCEPT ![s] = h], Announce(s) \/ KeepQuiet(s),
         UNCHANGED restored_index
  PROVE  /\ CoreTypeOK' /\ AnnouncedIsThere'
         /\ DOMAIN core' = DOMAIN core
         /\ KeepQuiet(s) => \A t \in DOMAIN core : announced[t] \subseteq announced'[t]
<1>1. /\ DOMAIN core' = DOMAIN core /\ core' \in [DOMAIN core -> Seq(Messages)]
      /\ core'[s] = h /\ \A t \in DOMAIN core \ {s} : core'[t] = core[t]
  BY DEF CoreTypeOK
<1>2. PICK known \in SUBSET Seq(Messages) :
        /\ announced' = [announced EXCEPT ![s] = known] /\ h \in known
        /\ KeepQuiet(s) => announced[s] \subseteq known
  <2>1. announced[s] \subseteq Seq(Messages)
    BY DEF CoreTypeOK
  <2>2. CASE KeepQuiet(s)
    <3>1. announced' = [announced EXCEPT ![s] = announced[s] \cup {h}]
      BY <1>1, <2>2 DEF KeepQuiet
    <3> QED
      BY <2>1, <3>1
  <2>3. CASE Announce(s) /\ ~ KeepQuiet(s)
    <3>1. announced' = [announced EXCEPT ![s] = {h}]
      BY <1>1, <2>3 DEF Announce
    <3> QED
      BY <2>3, <3>1
  <2> QED
    BY <2>2, <2>3
<1>3. /\ announced' \in [DOMAIN core -> SUBSET Seq(Messages)] /\ announced'[s] = known
      /\ \A t \in DOMAIN core \ {s} : announced'[t] = announced[t]
  BY <1>2 DEF CoreTypeOK
<1>4. CoreTypeOK'
  BY <1>1, <1>3 DEF CoreTypeOK
<1>5. AnnouncedIsThere'
  BY <1>1, <1>2, <1>3 DEF AnnouncedIsThere
<1>6. ASSUME KeepQuiet(s), NEW t \in DOMAIN core PROVE announced[t] \subseteq announced'[t]
  BY <1>2, <1>3, <1>6
<1> QED
  BY <1>1, <1>4, <1>5, <1>6

LEMMA AppendedIs ==
  ASSUME CoreTypeOK, NEW s \in DOMAIN core, NEW m \in Messages
  PROVE  Append(core[s], m) \in Seq(Messages)
<1>1. core[s] \in Seq(Messages)
  BY DEF CoreTypeOK
<1> QED
  BY <1>1

\* What a compaction leaves.
LEMMA CompactedIs ==
  ASSUME CoreTypeOK, NEW s \in DOMAIN core, NEW n \in Nat, n + 1 < Len(core[s])
  PROVE  <<Text>> \o SubSeq(core[s], Len(core[s]) - n + 1, Len(core[s])) \in Seq(Messages)
<1>0. core[s] \in Seq(Messages)
  BY DEF CoreTypeOK
<1>1. PICK h \in Seq(Messages), k \in Nat : h = core[s] /\ k = Len(h)
  BY <1>0
<1>2. k - n + 1 \in 1 .. k + 1 /\ n + 1 < k
  BY <1>1
<1>3. SubSeq(h, k - n + 1, k) \in Seq(Messages)
  BY <1>1, <1>2
<1>4. <<Text>> \in Seq(Messages)
  BY DEF Messages
<1> QED
  BY <1>1, <1>3, <1>4

LEMMA CoreTypes ==
  ASSUME CoreTypeOK, AnnouncedIsThere, QueuesTypeOK, DurabilityNext
  PROVE  CoreTypeOK' /\ AnnouncedIsThere'
<1>1. ASSUME NEW s \in Sessions, CreateSession(s)
      PROVE  CoreTypeOK' /\ AnnouncedIsThere'
  <2>1. <<>> \in Seq(Messages)
    OBVIOUS
  <2>2. s \notin DOMAIN core
    BY <1>1 DEF CreateSession
  <2>3. /\ core' = Override(core, Only(s, <<>>))
        /\ announced' = Override(announced, Only(s, {<<>>}))
        /\ restored_index' = Override(restored_index, Only(s, 0))
    BY <1>1 DEF CreateSession
  <2>4. DOMAIN core' = DOMAIN core \cup {s} /\ core' \in [DOMAIN core \cup {s} -> Seq(Messages)]
    BY <2>1, <2>2, <2>3 DEF CoreTypeOK, Override, Only
  <2>5. announced' \in [DOMAIN core \cup {s} -> SUBSET Seq(Messages)]
    BY <2>1, <2>2, <2>3 DEF CoreTypeOK, Override, Only
  <2>6. restored_index' \in [DOMAIN core \cup {s} -> Nat]
    BY <2>2, <2>3 DEF CoreTypeOK, Override, Only
  <2>7. ASSUME NEW t \in DOMAIN core' PROVE core'[t] \in announced'[t]
    <3>1. CASE t = s
      BY <2>2, <2>3, <3>1 DEF CoreTypeOK, Override, Only
    <3>2. CASE t # s
      <4>1. t \in DOMAIN core /\ core'[t] = core[t] /\ announced'[t] = announced[t]
        BY <2>3, <2>4, <2>7, <3>2 DEF CoreTypeOK, Override, Only
      <4> QED
        BY <4>1 DEF AnnouncedIsThere
    <3> QED
      BY <3>1, <3>2
  <2> QED
    BY <2>4, <2>5, <2>6, <2>7 DEF CoreTypeOK, AnnouncedIsThere
<1>2. ASSUME NEW s \in Sessions, NEW m \in Messages, TurnEnds(s, m) \/ TurnFails(s, m)
      PROVE  CoreTypeOK' /\ AnnouncedIsThere'
  <2>1. /\ s \in DOMAIN core /\ core' = [core EXCEPT ![s] = Append(core[s], m)]
        /\ Announce(s) \/ KeepQuiet(s)
        /\ restored_index' = restored_index
    BY <1>2 DEF TurnEnds, TurnFails
  <2>2. Append(core[s], m) \in Seq(Messages)
    BY <2>1, AppendedIs
  <2> QED
    BY <2>1, <2>2, HistoryChanges
<1>3. ASSUME NEW s \in Sessions, NEW n \in 0 .. MaxHistory, Compact(s, n)
      PROVE  CoreTypeOK' /\ AnnouncedIsThere'
  <2>1. /\ s \in DOMAIN core /\ n + 1 < Len(core[s]) /\ n \in Nat
        /\ core' = [core EXCEPT ![s] = <<Text>> \o SubSeq(core[s], Len(core[s]) - n + 1, Len(core[s]))]
        /\ KeepQuiet(s) /\ restored_index' = restored_index
    BY <1>3 DEF Compact
  <2>2. <<Text>> \o SubSeq(core[s], Len(core[s]) - n + 1, Len(core[s])) \in Seq(Messages)
    BY <2>1, CompactedIs
  <2> QED
    BY <2>1, <2>2, HistoryChanges
<1>4. ASSUME NEW r \in Clients, NEW s \in Sessions, NEW n \in 0 .. MaxHistory, UnwindSession(r, s, n)
      PROVE  CoreTypeOK' /\ AnnouncedIsThere'
  <2>1. /\ s \in DOMAIN core /\ n < Len(core[s]) /\ core' = [core EXCEPT ![s] = SubSeq(core[s], 1, n)]
        /\ Announce(s) /\ restored_index' = restored_index
    BY <1>4 DEF UnwindSession
  <2>2. core[s] \in Seq(Messages) /\ n \in Nat
    BY <2>1 DEF CoreTypeOK
  <2>3. Len(core[s]) \in Nat
    BY <2>2
  <2>4. SubSeq(core[s], 1, n) \in Seq(Messages)
    BY <2>1, <2>2, <2>3
  <2> QED
    BY <2>1, <2>4, HistoryChanges
<1>5. CASE CrashAndRestart
  <2>1. PICK back \in SUBSET DOMAIN stored :
          /\ core' = [s \in back |-> stored[s].history]
          /\ restored_index' = [s \in back |-> stored[s].extracted]
    BY <1>5 DEF CrashAndRestart
  <2>2. announced' = [s \in back |-> {core'[s]}]
    BY <1>5, <2>1 DEF CrashAndRestart
  <2>3. DOMAIN stored \subseteq Sessions /\ \A s \in DOMAIN stored : stored[s] \in Records
    BY SnapshotIs DEF QueuesTypeOK
  <2>4. /\ DOMAIN core' = back /\ core' \in [back -> Seq(Messages)]
        /\ restored_index' \in [back -> Nat]
    BY <2>1, <2>3 DEF Records
  <2>5. announced' \in [back -> SUBSET Seq(Messages)]
    BY <2>2, <2>4
  <2> QED
    BY <2>2, <2>3, <2>4, <2>5 DEF CoreTypeOK, AnnouncedIsThere
<1>6. CASE UNCHANGED core_vars
  BY <1>6 DEF CoreTypeOK, AnnouncedIsThere
<1> QED
  BY <1>1, <1>2, <1>3, <1>4, <1>5, <1>6 DEF DurabilityNext, EmitCheckpointRequest,
     GetSessionContext, AnswerSnapshot, FanoutLocks, FanoutLoadFails, FanoutTakes, RequestLocks,
     RequestLoadFails, Commit, CommitFails

\* The snapshot that asks for the checkpoint of a new session has them all.
LEMMA NewSession ==
  ASSUME CoreTypeOK, AnnouncedIsThere, NEW s \in Sessions, CreateSession(s)
  PROVE  \E x \in Snapshots : output' = Append(output, x) /\ Complete(x, core', announced')
<1>1. PICK one : one = Only(s, [history |-> <<>>, extracted |-> 0])
  OBVIOUS
<1>2. PICK old : old = Snapshot(DOMAIN core)
  OBVIOUS
<1>3. <<>> \in Seq(Messages) /\ [history |-> <<>>, extracted |-> 0] \in Records
  BY DEF Records
<1>4. DOMAIN one = {s} /\ one[s] = [history |-> <<>>, extracted |-> 0] /\ one \in Snapshots
  BY <1>1, <1>3, SnapshotIs DEF Only
<1>5. old \in Snapshots /\ DOMAIN old = DOMAIN core /\ AllCurrent(old, core, announced)
  BY <1>2, SnapshotIsCurrent
<1>6. PICK x : x = Override(old, one)
  OBVIOUS
<1>7. /\ x \in Snapshots /\ DOMAIN x = DOMAIN core \cup {s}
      /\ \A t \in DOMAIN core : x[t] = old[t]
  BY <1>4, <1>5, <1>6, OverrideIs
<1>8. s \notin DOMAIN core /\ output' = Append(output, x)
      /\ core' = Override(core, Only(s, <<>>))
      /\ announced' = Override(announced, Only(s, {<<>>}))
  BY <1>1, <1>2, <1>6 DEF CreateSession
<1>9. x[s] = [history |-> <<>>, extracted |-> 0]
  <2>1. s \in DOMAIN one \ DOMAIN old
    BY <1>4, <1>5, <1>8
  <2>2. \A t \in DOMAIN one \ DOMAIN old : Override(old, one)[t] = one[t]
    BY <1>4, <1>5, OverrideIs
  <2>3. x[s] = one[s]
    BY <1>6, <2>1, <2>2
  <2> QED
    BY <1>4, <2>3
<1>10. /\ DOMAIN core' = DOMAIN core \cup {s}
       /\ core'[s] = <<>> /\ announced'[s] = {<<>>}
       /\ \A t \in DOMAIN core : core'[t] = core[t] /\ announced'[t] = announced[t]
  BY <1>8 DEF CoreTypeOK, Override, Only
<1>11. ASSUME NEW t \in DOMAIN core' \cap DOMAIN x
       PROVE  x[t].history \in announced'[t]
  <2>1. CASE t = s
    BY <1>9, <1>10, <2>1
  <2>2. CASE t # s
    BY <1>5, <1>7, <1>10, <1>11, <2>2 DEF AllCurrent
  <2> QED
    BY <2>1, <2>2
<1>12. Complete(x, core', announced')
  BY <1>7, <1>10, <1>11 DEF Complete, AllCurrent
<1> QED
  BY <1>7, <1>8, <1>12

LEMMA UnderwayIsNat ==
  ASSUME QueuesTypeOK PROVE Underway \in Nat
<1>1. Len(output) \in Nat
  BY DEF QueuesTypeOK
<1> QED
  BY <1>1 DEF Underway

\* What the commit does to a request.
LEMMA OvertakeIs ==
  ASSUME QueuesTypeOK, NEW r \in Clients
  PROVE  /\ Overtake \in [Clients -> {NoRequest} \cup Asking \cup Holding]
         /\ Overtake[r] \in Asking => Overtake[r] = requests[r]
         /\ lock.by # "fanout" => Overtake[r] = requests[r]
         /\ lock.by = "fanout" /\ requests[r] \in Holding =>
              \/ /\ requests[r].behind > 0
                 /\ Overtake[r] = [requests[r] EXCEPT !.behind = @ - 1]
              \/ Overtake[r].overtaken = TRUE
         /\ Overtake[r] \in Holding => requests[r] \in Holding
<1>1. ASSUME NEW c \in Clients
      PROVE  /\ Overtake[c] \in {NoRequest} \cup Asking \cup Holding
             /\ requests[c] \notin Holding => Overtake[c] = requests[c]
             /\ lock.by # "fanout" => Overtake[c] = requests[c]
             /\ lock.by = "fanout" /\ requests[c] \in Holding =>
                  /\ Overtake[c] \in Holding
                  /\ \/ /\ requests[c].behind > 0
                        /\ Overtake[c] = [requests[c] EXCEPT !.behind = @ - 1]
                     \/ Overtake[c].overtaken = TRUE
  <2>1. PICK request : request = requests[c]
    OBVIOUS
  <2>2. request \in {NoRequest} \cup Asking \cup Holding
    BY <2>1 DEF QueuesTypeOK
  <2>3. request.phase = "holds" <=> request \in Holding
    BY <2>2, RequestKinds
  <2>4. Overtake[c] = IF request.phase # "holds" \/ lock.by # "fanout" THEN request
                      ELSE IF request.behind > 0
                           THEN [request EXCEPT !.behind = @ - 1]
                           ELSE [request EXCEPT !.overtaken = TRUE]
    BY <2>1 DEF Overtake
  <2>5. CASE request \notin Holding \/ lock.by # "fanout"
    BY <2>1, <2>2, <2>3, <2>4, <2>5
  <2>6. CASE request \in Holding /\ lock.by = "fanout" /\ request.behind > 0
    <3>1. [request EXCEPT !.behind = @ - 1] \in Holding
      BY <2>6 DEF Holding
    <3> QED
      BY <2>1, <2>3, <2>4, <2>6, <3>1
  <2>7. CASE request \in Holding /\ lock.by = "fanout" /\ ~ (request.behind > 0)
    <3>1. [request EXCEPT !.overtaken = TRUE] \in Holding
          /\ [request EXCEPT !.overtaken = TRUE].overtaken = TRUE
      BY <2>7 DEF Holding
    <3> QED
      BY <2>1, <2>3, <2>4, <2>7, <3>1
  <2> QED
    BY <2>5, <2>6, <2>7
<1>2. Overtake \in [Clients -> {NoRequest} \cup Asking \cup Holding]
  <2>1. DOMAIN Overtake = Clients /\ Overtake = [c \in Clients |-> Overtake[c]]
    BY DEF Overtake
  <2> QED
    BY <1>1, <2>1
<1>3. requests[r] \in {NoRequest} \cup Asking \cup Holding
  BY DEF QueuesTypeOK
<1>4. \A request : ~ (request \in Holding /\ request \in Asking)
  BY RequestKinds
<1> QED
  BY <1>1, <1>2, <1>3, <1>4

\* Taking the lock, for the fan-out and for a request.
LEMMA FanoutLockIs ==
  ASSUME QueuesTypeOK, FanoutLocks \/ FanoutLoadFails
  PROVE  \E previous \in Snapshots :
           /\ output # <<>> /\ Head(output) \in Snapshots
           /\ LockAndExtract("fanout", Head(output), TRUE, FALSE, previous)
           /\ "fanout" \in Holder
<1>1. stored \in Snapshots /\ Empty \in Snapshots
  BY SnapshotIs DEF QueuesTypeOK, Empty
<1>2. PICK previous \in Snapshots : FanoutTakes(previous)
  BY <1>1 DEF FanoutLocks, FanoutLoadFails
<1>3. output # <<>> /\ output \in Seq(Snapshots)
  BY <1>2 DEF FanoutTakes, QueuesTypeOK
<1>4. Head(output) \in Snapshots
  BY <1>3
<1> QED
  BY <1>2, <1>3, <1>4 DEF FanoutTakes, Holder

LEMMA RequestLockIs ==
  ASSUME QueuesTypeOK, NEW r \in Clients, RequestLocks(r)
  PROVE  /\ requests[r] \in Holding /\ requests[r].snapshot \in Snapshots
         /\ requests[r].merge \in BOOLEAN /\ requests[r].overtaken \in BOOLEAN
         /\ LockAndExtract(r, requests[r].snapshot, requests[r].merge,
                           requests[r].overtaken, stored)
         /\ r \in Holder /\ stored \in Snapshots
<1>1. requests[r] \in Holding
  BY RequestKinds DEF RequestLocks, QueuesTypeOK
<1> QED
  BY <1>1, RequestKinds DEF RequestLocks, Holder, QueuesTypeOK

LEMMA QueuesTypes ==
  ASSUME ClientsAssumption, CoreTypeOK, AnnouncedIsThere, QueuesTypeOK, DurabilityNext
  PROVE  QueuesTypeOK'
<1>1. ASSUME NEW s \in Sessions, CreateSession(s) PROVE QueuesTypeOK'
  <2>1. PICK x \in Snapshots : output' = Append(output, x)
    BY <1>1, NewSession
  <2>2. output' \in Seq(Snapshots)
    BY <2>1 DEF QueuesTypeOK
  <2> QED
    BY <1>1, <2>2 DEF CreateSession, QueuesTypeOK
<1>2. ASSUME NEW s \in Sessions, NEW m \in Messages, NEW n,
             TurnEnds(s, m) \/ TurnFails(s, m) \/ Compact(s, n)
      PROVE  QueuesTypeOK'
  BY <1>2 DEF TurnEnds, TurnFails, Compact, Hint, QueuesTypeOK
<1>3. CASE EmitCheckpointRequest
  <2>1. PICK x : x = Snapshot(DOMAIN core)
    OBVIOUS
  <2>2. x \in Snapshots
    BY <2>1, SnapshotIsCurrent
  <2>3. output' = Append(output, x)
    BY <1>3, <2>1 DEF EmitCheckpointRequest
  <2>4. output' \in Seq(Snapshots)
    BY <2>2, <2>3 DEF QueuesTypeOK
  <2> QED
    BY <1>3, <2>4 DEF EmitCheckpointRequest, QueuesTypeOK
<1>4. ASSUME NEW r \in Clients, NEW request \in {NoRequest} \cup Asking \cup Holding,
             requests' = [requests EXCEPT ![r] = request]
      PROVE  requests' \in [Clients -> {NoRequest} \cup Asking \cup Holding]
  BY <1>4 DEF QueuesTypeOK
<1>5. ASSUME NEW r \in Clients, NEW s \in Sessions, NEW n \in 0 .. MaxHistory, UnwindSession(r, s, n)
      PROVE  QueuesTypeOK'
  <2>1. [phase |-> "asks", of |-> Sessions, merge |-> FALSE] \in Asking
    BY DEF Asking
  <2>2. requests' \in [Clients -> {NoRequest} \cup Asking \cup Holding]
    BY <1>4, <1>5, <2>1 DEF UnwindSession
  <2> QED
    BY <1>5, <2>2 DEF UnwindSession, Hint, QueuesTypeOK
<1>6. ASSUME NEW r \in Clients, NEW s \in Sessions, GetSessionContext(r, s)
      PROVE  QueuesTypeOK'
  <2>1. [phase |-> "asks", of |-> {s}, merge |-> TRUE] \in Asking
    BY DEF Asking
  <2>2. requests' \in [Clients -> {NoRequest} \cup Asking \cup Holding]
    BY <1>4, <1>6, <2>1 DEF GetSessionContext
  <2> QED
    BY <1>6, <2>2 DEF GetSessionContext, QueuesTypeOK
<1>7. ASSUME NEW r \in Clients, AnswerSnapshot(r) PROVE QueuesTypeOK'
  <2>1. requests[r] \in Asking
    BY <1>7, RequestKinds DEF AnswerSnapshot, QueuesTypeOK
  <2>2. PICK x : x = Snapshot(requests[r].of)
    OBVIOUS
  <2>3. x \in Snapshots
    BY <2>2, SnapshotIsCurrent
  <2>4. requests' = [requests EXCEPT ![r] =
          [phase |-> "holds", snapshot |-> x, merge |-> requests[r].merge,
           overtaken |-> FALSE, behind |-> Underway]]
    BY <1>7, <2>2 DEF AnswerSnapshot, Underway
  <2>5. [phase |-> "holds", snapshot |-> x, merge |-> requests[r].merge,
         overtaken |-> FALSE, behind |-> Underway] \in Holding
    BY <2>1, <2>3, UnderwayIsNat, RequestKinds DEF Holding
  <2>6. requests' \in [Clients -> {NoRequest} \cup Asking \cup Holding]
    BY <1>4, <2>4, <2>5
  <2> QED
    BY <1>7, <2>6 DEF AnswerSnapshot, QueuesTypeOK
<1>8. CASE FanoutLocks \/ FanoutLoadFails
  <2>1. PICK x \in Snapshots, previous \in Snapshots :
          LockAndExtract("fanout", x, TRUE, FALSE, previous) /\ "fanout" \in Holder
    BY <1>8, FanoutLockIs
  <2>2. lock' \in Locked
    <3>1. lock = Free /\ Taken(lock', "fanout", x, TRUE, FALSE, previous)
      BY <2>1, LockIs
    <3> QED
      BY <3>1 DEF Taken
  <2>3. output \in Seq(Snapshots) /\ output # <<>> /\ output' = Tail(output)
        /\ UNCHANGED <<hints, requests, stored, spoiled>>
    BY <1>8 DEF FanoutLocks, FanoutLoadFails, FanoutTakes, QueuesTypeOK
  <2>4. output' \in Seq(Snapshots)
    BY <2>3
  <2> QED
    BY <2>2, <2>3, <2>4 DEF QueuesTypeOK
<1>9. ASSUME NEW r \in Clients, RequestLocks(r) PROVE QueuesTypeOK'
  <2>1. requests[r] \in Holding
    BY <1>9, RequestKinds DEF RequestLocks, QueuesTypeOK
  <2>2. PICK x \in Snapshots, merge \in BOOLEAN, overtaken \in BOOLEAN :
          x = requests[r].snapshot /\ merge = requests[r].merge /\ overtaken = requests[r].overtaken
    BY <2>1, RequestKinds
  <2>3. LockAndExtract(r, x, merge, overtaken, stored) /\ r \in Holder /\ stored \in Snapshots
    BY <1>9, <2>2 DEF RequestLocks, Holder, QueuesTypeOK
  <2>4. lock' \in Locked
    <3>1. lock = Free /\ Taken(lock', r, x, merge, overtaken, stored)
      BY <2>3, LockIs
    <3> QED
      BY <3>1 DEF Taken
  <2>5. requests' \in [Clients -> {NoRequest} \cup Asking \cup Holding]
    BY <1>4, <1>9 DEF RequestLocks
  <2> QED
    BY <1>9, <2>4, <2>5 DEF RequestLocks, QueuesTypeOK
<1>10. CASE Commit
  <2>1. lock # Free /\ lock \in {Free} \cup Locked
    BY <1>10 DEF Commit, QueuesTypeOK
  <2>2. lock.checkpoint \in Snapshots /\ lock' = Free /\ stored' = lock.checkpoint
    BY <1>10, <2>1, LockCases DEF Commit
  <2>3. spoiled' \in BOOLEAN
    BY <1>10, Zenon DEF Commit
  <2>4. requests' \in [Clients -> {NoRequest} \cup Asking \cup Holding]
    <3>1. requests' = Overtake
      BY <1>10 DEF Commit
    <3>2. CASE Clients = {}
      BY <3>1, <3>2 DEF Overtake
    <3>3. CASE Clients # {}
      BY <3>1, <3>3, OvertakeIs
    <3> QED
      BY <3>2, <3>3
  <2> QED
    BY <1>10, <2>2, <2>3, <2>4 DEF Commit, QueuesTypeOK
<1>11. CASE CommitFails
  BY <1>11 DEF CommitFails, QueuesTypeOK
<1>12. CASE CrashAndRestart
  <2>1. requests' \in [Clients -> {NoRequest} \cup Asking \cup Holding]
    BY <1>12 DEF CrashAndRestart
  <2>2. <<>> \in Seq(Snapshots)
    OBVIOUS
  <2> QED
    BY <1>12, <2>1, <2>2 DEF CrashAndRestart, QueuesTypeOK
<1>13. ASSUME NEW r \in Clients, RequestLoadFails(r) PROVE QueuesTypeOK'
  <2>1. requests' \in [Clients -> {NoRequest} \cup Asking \cup Holding]
    BY <1>4, <1>13 DEF RequestLoadFails
  <2> QED
    BY <1>13, <2>1 DEF RequestLoadFails, QueuesTypeOK
<1>14. ASSUME NEW s \in Sessions, NEW n \in 0 .. MaxHistory, Compact(s, n)
      PROVE  QueuesTypeOK'
  <2>1. PICK m : m = Text /\ m \in Messages
    BY DEF Messages
  <2> QED
    BY <1>2, <1>14, <2>1
<1>15. ASSUME NEW s \in Sessions, NEW m \in Messages, TurnEnds(s, m) \/ TurnFails(s, m)
      PROVE  QueuesTypeOK'
  BY <1>2, <1>15
<1> QED
  BY <1>1, <1>14, <1>15, <1>3, <1>5, <1>6, <1>7, <1>8, <1>9, <1>10, <1>11, <1>12, <1>13
  DEF DurabilityNext

LEMMA AsksForAllStep ==
  ASSUME QueuesTypeOK, AsksForAll, DurabilityNext
  PROVE  AsksForAll'
<1>1. \A r \in Clients : requests[r] \in {NoRequest} \cup Asking \cup Holding
  BY DEF QueuesTypeOK
<1>2. ASSUME NEW r \in Clients, NEW request, requests' = [requests EXCEPT ![r] = request],
             request \in Asking => request.merge = TRUE \/ request.of = Sessions
      PROVE  AsksForAll'
  BY <1>2 DEF AsksForAll, QueuesTypeOK
<1>3. ASSUME NEW r \in Clients, NEW s \in Sessions, NEW n \in 0 .. MaxHistory, UnwindSession(r, s, n)
      PROVE  AsksForAll'
  BY <1>2, <1>3 DEF UnwindSession
<1>4. ASSUME NEW r \in Clients, NEW s \in Sessions, GetSessionContext(r, s) PROVE AsksForAll'
  BY <1>2, <1>4 DEF GetSessionContext
<1>5. ASSUME NEW r \in Clients, AnswerSnapshot(r) PROVE AsksForAll'
  <2>1. PICK request : request =
          [phase |-> "holds", snapshot |-> Snapshot(requests[r].of), merge |-> requests[r].merge,
           overtaken |-> FALSE, behind |-> Underway]
    OBVIOUS
  <2>2. requests' = [requests EXCEPT ![r] = request] /\ request.phase = "holds"
    BY <1>5, <2>1 DEF AnswerSnapshot, Underway
  <2> QED
    BY <1>2, <2>2, RequestKinds
<1>6. ASSUME NEW r \in Clients, RequestLocks(r) \/ RequestLoadFails(r) PROVE AsksForAll'
  <2>1. NoRequest \notin Asking
    BY RequestKinds
  <2> QED
    BY <1>2, <1>6, <2>1 DEF RequestLocks, RequestLoadFails
<1>7. CASE Commit
  <2>1. requests' = Overtake
    BY <1>7 DEF Commit
  <2>2. \A r \in Clients : requests'[r] \in Asking => requests'[r] = requests[r]
    BY <2>1, OvertakeIs
  <2> QED
    BY <2>2 DEF AsksForAll
<1>8. CASE CrashAndRestart
  BY <1>8, RequestKinds DEF CrashAndRestart, AsksForAll
<1>9. CASE UNCHANGED requests
  BY <1>9 DEF AsksForAll
<1> QED
  BY <1>3, <1>4, <1>5, <1>6, <1>7, <1>8, <1>9 DEF DurabilityNext, CreateSession, TurnEnds,
     TurnFails, Compact, EmitCheckpointRequest, FanoutLocks, FanoutLoadFails, FanoutTakes,
     CommitFails

LEMMA BoundaryStep ==
  ASSUME QueuesTypeOK, NoBoundaryBehind, DurabilityNext
  PROVE  NoBoundaryBehind'
<1>1. ASSUME NEW holder \in Holder, NEW x \in Snapshots, NEW merge \in BOOLEAN,
             NEW overtaken \in BOOLEAN, NEW previous \in Snapshots,
             LockAndExtract(holder, x, merge, overtaken, previous), stored' = stored
      PROVE  NoBoundaryBehind'
  <2>1. /\ lock' \in Locked /\ NotBehind(lock'.checkpoint, previous)
        /\ lock'.blind = TRUE \/ previous = stored
    <3>1. lock = Free /\ Taken(lock', holder, x, merge, overtaken, previous)
      BY <1>1, LockIs
    <3> QED
      BY <3>1 DEF Taken
  <2>2. lock'.blind \in BOOLEAN
    BY <2>1 DEF Locked
  <2> QED
    BY <1>1, <2>1, <2>2 DEF NoBoundaryBehind
<1>2. CASE FanoutLocks \/ FanoutLoadFails
  <2>1. PICK x \in Snapshots, previous \in Snapshots :
          LockAndExtract("fanout", x, TRUE, FALSE, previous) /\ "fanout" \in Holder
    BY <1>2, FanoutLockIs
  <2>2. stored' = stored
    BY <1>2 DEF FanoutLocks, FanoutLoadFails, FanoutTakes
  <2> QED
    BY <1>1, <2>1, <2>2
<1>3. ASSUME NEW r \in Clients, RequestLocks(r) PROVE NoBoundaryBehind'
  <2>1. PICK x \in Snapshots, merge \in BOOLEAN, overtaken \in BOOLEAN :
          LockAndExtract(r, x, merge, overtaken, stored) /\ r \in Holder /\ stored \in Snapshots
    BY <1>3, RequestLockIs
  <2>2. stored' = stored
    BY <1>3 DEF RequestLocks
  <2> QED
    BY <1>1, <2>1, <2>2
<1>4. CASE lock' = Free
  BY <1>4 DEF NoBoundaryBehind
<1>5. CASE UNCHANGED <<lock, stored>>
  BY <1>5 DEF NoBoundaryBehind
<1> QED
  BY <1>2, <1>3, <1>4, <1>5 DEF DurabilityNext, CreateSession, TurnEnds, TurnFails, Compact,
     EmitCheckpointRequest, UnwindSession, GetSessionContext, AnswerSnapshot, RequestLoadFails,
     Commit, CommitFails, CrashAndRestart

--------------------------------------------------------------------------------
(* The steps: what will be committed last.                                  *)

\* A change that is not announced leaves the snapshots current.
LEMMA QuietKeeps ==
  ASSUME CoreTypeOK, AnnouncedIsThere, NEW s \in Sessions, NEW m \in Messages,
         NEW n, TurnFails(s, m) \/ (n \in Nat /\ Compact(s, n)), NEW x
  PROVE  /\ AllCurrent(x, core, announced) => AllCurrent(x, core', announced')
         /\ Complete(x, core, announced) => Complete(x, core', announced')
<1>1. s \in DOMAIN core /\ KeepQuiet(s) /\ UNCHANGED restored_index
  BY DEF TurnFails, Compact
<1>2. PICK h \in Seq(Messages) : core' = [core EXCEPT ![s] = h]
  <2>1. CASE TurnFails(s, m)
    <3>1. core' = [core EXCEPT ![s] = Append(core[s], m)]
      BY <2>1 DEF TurnFails
    <3> QED
      BY <1>1, <3>1, AppendedIs
  <2>2. CASE n \in Nat /\ Compact(s, n)
    <3>1. /\ n \in Nat /\ n + 1 < Len(core[s])
          /\ core' = [core EXCEPT ![s] = <<Text>> \o SubSeq(core[s], Len(core[s]) - n + 1, Len(core[s]))]
      BY <2>2 DEF Compact
    <3>2. <<Text>> \o SubSeq(core[s], Len(core[s]) - n + 1, Len(core[s])) \in Seq(Messages)
      BY <1>1, <3>1, CompactedIs
    <3> QED
      BY <3>1, <3>2
  <2> QED
    BY <2>1, <2>2
<1>3. DOMAIN core' = DOMAIN core /\ \A t \in DOMAIN core : announced[t] \subseteq announced'[t]
  BY <1>1, <1>2, HistoryChanges
<1> QED
  BY <1>3, StaysCurrent

LEMMA LastOf ==
  ASSUME NEW S, NEW q \in Seq(S)
  PROVE  /\ \A e \in S : Append(q, e)[Len(Append(q, e))] = e /\ Append(q, e) # <<>>
         /\ q # <<>> => q[Len(q)] \in S
         /\ q # <<>> /\ Tail(q) = <<>> => q[Len(q)] = Head(q)
         /\ q # <<>> /\ Tail(q) # <<>> => Tail(q)[Len(Tail(q))] = q[Len(q)]
<1>1. \A e \in S : Append(q, e)[Len(Append(q, e))] = e /\ Append(q, e) # <<>>
  OBVIOUS
<1>2. q # <<>> => q[Len(q)] \in S
  OBVIOUS
<1>3. ASSUME q # <<>>
      PROVE  Tail(q) \in Seq(S) /\ Len(Tail(q)) = Len(q) - 1 /\ Len(q) \in Nat
             /\ \A i \in 1 .. Len(Tail(q)) : Tail(q)[i] = q[i + 1]
  BY <1>3, HeadTailProperties
<1>4. ASSUME q # <<>>, Tail(q) = <<>> PROVE q[Len(q)] = Head(q)
  <2>1. PICK n \in Nat : n = Len(q) /\ Len(Tail(q)) = n - 1
    BY <1>3, <1>4
  <2>2. Len(<<>>) = 0
    BY EmptySeq
  <2>3. n = 1
    BY <1>4, <2>1, <2>2
  <2> QED
    BY <2>1, <2>3, <1>4
<1>5. ASSUME q # <<>>, Tail(q) # <<>> PROVE Tail(q)[Len(Tail(q))] = q[Len(q)]
  <2>1. Len(Tail(q)) \in Nat \ {0}
    BY <1>3, <1>5, EmptySeq
  <2> QED
    BY <1>3, <1>5, <2>1
<1> QED
  BY <1>1, <1>2, <1>4, <1>5

\* A complete update stays complete under the lock, and so does what is stored
\* when a current update is merged into it.
LEMMA LockKeepsComplete ==
  ASSUME QueuesTypeOK, NEW holder \in Holder, NEW x \in Snapshots,
         NEW merge \in BOOLEAN, NEW overtaken \in BOOLEAN, NEW previous \in Snapshots,
         LockAndExtract(holder, x, merge, overtaken, previous),
         AllCurrent(x, core, announced),
         Complete(x, core, announced) \/ (merge = TRUE /\ Complete(previous, core, announced))
  PROVE  Complete(lock'.checkpoint, core, announced)
<1>1. /\ DOMAIN lock'.checkpoint = IF merge THEN DOMAIN x \cup DOMAIN previous ELSE DOMAIN x
      /\ \A s \in DOMAIN x : lock'.checkpoint[s].history = x[s].history
      /\ merge => \A s \in DOMAIN previous \ DOMAIN x : lock'.checkpoint[s] = previous[s]
  <2>1. lock = Free /\ Taken(lock', holder, x, merge, overtaken, previous)
    BY LockIs
  <2> QED
    BY <2>1 DEF Taken
<1>2. PICK z : z = lock'.checkpoint
  OBVIOUS
<1>3. ASSUME NEW s \in DOMAIN core PROVE s \in DOMAIN z
  BY <1>1, <1>2 DEF Complete
<1>4. ASSUME NEW s \in DOMAIN core PROVE z[s].history \in announced[s]
  <2>1. CASE s \in DOMAIN x
    BY <1>1, <1>2, <2>1 DEF AllCurrent
  <2>2. CASE s \notin DOMAIN x
    <3>1. merge = TRUE /\ Complete(previous, core, announced)
      BY <2>2 DEF Complete
    <3>2. s \in DOMAIN previous /\ z[s] = previous[s]
      BY <1>1, <1>2, <2>2, <3>1 DEF Complete
    <3> QED
      BY <3>1, <3>2 DEF Complete, AllCurrent
  <2> QED
    BY <2>1, <2>2
<1> QED
  BY <1>2, <1>3, <1>4 DEF Complete, AllCurrent

LEMMA NewestStep ==
  ASSUME ClientsAssumption, DurabilityInv, DurabilityNext
  PROVE  NewestIsComplete'
<1> USE DEF DurabilityInv
<1>0. output \in Seq(Snapshots) /\ hints \in Nat /\ Free.by = "nobody"
  BY LockCases DEF QueuesTypeOK
<1>1. ASSUME NEW s \in Sessions, CreateSession(s) PROVE NewestIsComplete'
  <2>1. PICK x \in Snapshots : output' = Append(output, x) /\ Complete(x, core', announced')
    BY <1>1, NewSession
  <2>2. output'[Len(output')] = x /\ output' # <<>>
    BY <1>0, <2>1, LastOf
  <2> QED
    BY <2>1, <2>2 DEF NewestIsComplete
<1>2. ASSUME NEW s \in Sessions, NEW m \in Messages, TurnEnds(s, m) PROVE NewestIsComplete'
  BY <1>0, <1>2 DEF TurnEnds, Hint, NewestIsComplete
<1>3. ASSUME NEW s \in Sessions, NEW m \in Messages, NEW n,
             TurnFails(s, m) \/ (n \in Nat /\ Compact(s, n))
      PROVE  NewestIsComplete'
  <2>1. UNCHANGED <<hints, output, lock, stored, spoiled>>
    BY <1>3 DEF TurnFails, Compact
  <2>2. \A x : Complete(x, core, announced) => Complete(x, core', announced')
    BY <1>3, QuietKeeps
  <2> QED
    BY <2>1, <2>2 DEF NewestIsComplete
<1>4. CASE EmitCheckpointRequest
  <2>1. PICK x : x = Snapshot(DOMAIN core)
    OBVIOUS
  <2>2. x \in Snapshots /\ Complete(x, core, announced)
    BY <2>1, SnapshotIsCurrent DEF Complete
  <2>3. output' = Append(output, x) /\ UNCHANGED <<core, announced>>
    BY <1>4, <2>1 DEF EmitCheckpointRequest
  <2>4. output'[Len(output')] = x /\ output' # <<>>
    BY <1>0, <2>2, <2>3, LastOf
  <2> QED
    BY <2>2, <2>3, <2>4 DEF NewestIsComplete
<1>5. ASSUME NEW r \in Clients, NEW s \in Sessions, NEW n \in 0 .. MaxHistory, UnwindSession(r, s, n)
      PROVE  NewestIsComplete'
  BY <1>0, <1>5 DEF UnwindSession, Hint, NewestIsComplete
<1>6. CASE UNCHANGED <<core, announced, hints, output, lock, stored, spoiled>>
  BY <1>6 DEF NewestIsComplete
<1>7. CASE FanoutLocks \/ FanoutLoadFails
  <2>1. PICK x \in Snapshots, previous \in Snapshots :
          /\ x = Head(output) /\ "fanout" \in Holder
          /\ LockAndExtract("fanout", x, TRUE, FALSE, previous)
    BY <1>7, FanoutLockIs
  <2>2. output # <<>> /\ output' = Tail(output) /\ UNCHANGED <<core, announced, hints, spoiled>>
        /\ "fanout" \in Holder
    BY <1>7, <2>1 DEF FanoutLocks, FanoutLoadFails, FanoutTakes
  <2>3. lock' # Free
    <3>1. lock = Free /\ Taken(lock', "fanout", x, TRUE, FALSE, previous)
      BY <2>1, <2>2, LockIs
    <3> QED
      BY <3>1 DEF Taken
  <2>4. CASE Tail(output) = <<>>
    <3>1. output[Len(output)] = x
      BY <1>0, <2>1, <2>2, <2>4, LastOf
    <3>2. Complete(x, core, announced) => Complete(lock'.checkpoint, core, announced)
      BY <2>1, <2>2, LockKeepsComplete DEF Complete
    <3> QED
      BY <2>2, <2>3, <2>4, <3>1, <3>2 DEF NewestIsComplete
  <2>5. CASE Tail(output) # <<>>
    <3>1. output'[Len(output')] = output[Len(output)]
      BY <1>0, <2>2, <2>5, LastOf
    <3> QED
      BY <2>2, <2>5, <3>1 DEF NewestIsComplete
  <2> QED
    BY <2>4, <2>5
<1>8. ASSUME NEW r \in Clients, RequestLocks(r) PROVE NewestIsComplete'
  <2>1. PICK x \in Snapshots, merge \in BOOLEAN, overtaken \in BOOLEAN :
          /\ x = requests[r].snapshot /\ merge = requests[r].merge /\ overtaken = requests[r].overtaken
          /\ LockAndExtract(r, x, merge, overtaken, stored) /\ r \in Holder /\ stored \in Snapshots
    BY <1>8, RequestLockIs
  <2>2. requests[r] \in Holding /\ requests[r].behind \in Nat
    BY <1>8, RequestLockIs, RequestKinds
  <2>3. lock = Free /\ lock' # Free /\ lock'.overtaken = overtaken
    <3>1. lock = Free /\ Taken(lock', r, x, merge, overtaken, stored)
      BY <2>1, LockIs
    <3> QED
      BY <3>1 DEF Taken
  <2>4. UNCHANGED <<core, announced, hints, output, stored, spoiled>>
    BY <1>8 DEF RequestLocks
  <2>5. ASSUME hints = 0, spoiled = FALSE, output = <<>>, overtaken = FALSE
        PROVE  Complete(lock'.checkpoint, core, announced)
    <3>1. Underway = 0
      BY <1>0, <2>3, <2>5, EmptySeq DEF Underway
    <3>2. Complete(stored, core, announced)
      BY <2>3, <2>5 DEF NewestIsComplete
    <3>3. KnowsItsPlace(requests[r], core, announced, Underway, hints = 0)
      BY <2>5 DEF RequestsKnowTheirPlace
    <3>4. AllCurrent(x, core, announced) /\ (merge = TRUE \/ Complete(x, core, announced))
      BY <2>1, <2>2, <2>5, <3>1, <3>3 DEF KnowsItsPlace
    <3> QED
      BY <2>1, <3>2, <3>4, LockKeepsComplete
  <2> QED
    BY <2>3, <2>4, <2>5 DEF NewestIsComplete
<1>9. CASE Commit
  <2>1. lock # Free /\ stored' = lock.checkpoint /\ lock' = Free
        /\ UNCHANGED <<core, announced, hints, output>>
    BY <1>9 DEF Commit
  <2>2. spoiled' = FALSE => spoiled = FALSE /\ lock.overtaken = FALSE
    <3>1. spoiled \in BOOLEAN /\ lock.overtaken \in BOOLEAN
      BY <2>1, LockCases DEF QueuesTypeOK
    <3>2. spoiled' = (spoiled \/ lock.overtaken)
      BY <1>9 DEF Commit
    <3> QED
      BY <3>1, <3>2, Zenon
  <2> QED
    BY <2>1, <2>2 DEF NewestIsComplete
<1>10. CASE CommitFails
  BY <1>10 DEF CommitFails, NewestIsComplete
<1>11. CASE CrashAndRestart
  <2>1. PICK back \in SUBSET DOMAIN stored : core' = [s \in back |-> stored[s].history]
    BY <1>11 DEF CrashAndRestart
  <2>2. announced' = [s \in back |-> {core'[s]}] /\ stored' = stored /\ output' = <<>> /\ lock' = Free
    BY <1>11, <2>1 DEF CrashAndRestart
  <2>3. ASSUME NEW s \in back PROVE stored[s].history \in announced'[s]
    BY <2>1, <2>2
  <2>4. Complete(stored, core', announced')
    BY <2>1, <2>2, <2>3 DEF Complete, AllCurrent
  <2> QED
    BY <2>2, <2>4 DEF NewestIsComplete
<1>12. ASSUME NEW s \in Sessions, NEW n \in 0 .. MaxHistory, Compact(s, n)
      PROVE  NewestIsComplete'
  <2>1. PICK m : m = Text /\ m \in Messages
    BY DEF Messages
  <2> QED
    BY <1>3, <1>12, <2>1
<1>13. ASSUME NEW s \in Sessions, NEW m \in Messages, TurnFails(s, m)
      PROVE  NewestIsComplete'
  BY <1>3, <1>13
<1> QED
  BY <1>1, <1>2, <1>12, <1>13, <1>4, <1>5, <1>6, <1>7, <1>8, <1>9, <1>10, <1>11
  DEF DurabilityNext, GetSessionContext, AnswerSnapshot, RequestLoadFails

LEMMA RequestsStep ==
  ASSUME ClientsAssumption, DurabilityInv, DurabilityNext
  PROVE  RequestsKnowTheirPlace'
<1> USE DEF DurabilityInv
<1>0. /\ output \in Seq(Snapshots) /\ hints \in Nat /\ Free.by = "nobody"
      /\ requests \in [Clients -> {NoRequest} \cup Asking \cup Holding]
      /\ Underway \in Nat /\ Len(output) \in Nat /\ "fanout" \notin Clients
  BY LockCases, UnderwayIsNat DEF QueuesTypeOK, ClientsAssumption
<1>1. ASSUME NEW x \in Snapshots, output' = Append(output, x), UNCHANGED <<lock, requests, spoiled>>
      PROVE  RequestsKnowTheirPlace'
  <2>1. Underway' = Underway + 1
    <3>1. Len(output') = Len(output) + 1
      BY <1>0, <1>1
    <3> QED
      BY <1>0, <1>1, <3>1 DEF Underway
  <2>2. \A r \in Clients : requests[r] \in Holding => requests[r].behind \in Nat
    BY RequestKinds
  <2> QED
    BY <1>0, <1>1, <2>1, <2>2 DEF RequestsKnowTheirPlace, KnowsItsPlace
<1>2. ASSUME NEW s \in Sessions, CreateSession(s) PROVE RequestsKnowTheirPlace'
  <2>1. PICK x \in Snapshots : output' = Append(output, x)
    BY <1>2, NewSession
  <2> QED
    BY <1>1, <1>2, <2>1 DEF CreateSession
<1>3. CASE EmitCheckpointRequest
  <2>1. PICK x \in Snapshots : x = Snapshot(DOMAIN core)
    BY SnapshotIsCurrent
  <2>2. output' = Append(output, x)
    BY <1>3, <2>1 DEF EmitCheckpointRequest
  <2> QED
    BY <1>1, <1>3, <2>2 DEF EmitCheckpointRequest
<1>4. ASSUME NEW s \in Sessions, NEW m \in Messages, TurnEnds(s, m) PROVE RequestsKnowTheirPlace'
  <2>1. hints' # 0 /\ Underway' = Underway /\ UNCHANGED <<requests, spoiled>>
    BY <1>0, <1>4 DEF TurnEnds, Hint, Underway
  <2> QED
    BY <2>1 DEF RequestsKnowTheirPlace, KnowsItsPlace
<1>5. ASSUME NEW s \in Sessions, NEW m \in Messages, NEW n,
             TurnFails(s, m) \/ (n \in Nat /\ Compact(s, n))
      PROVE  RequestsKnowTheirPlace'
  <2>1. Underway' = Underway /\ UNCHANGED <<requests, spoiled, hints>>
    BY <1>5 DEF TurnFails, Compact, Underway
  <2>2. \A x : /\ AllCurrent(x, core, announced) => AllCurrent(x, core', announced')
               /\ Complete(x, core, announced) => Complete(x, core', announced')
    BY <1>5, QuietKeeps
  <2> QED
    BY <2>1, <2>2 DEF RequestsKnowTheirPlace, KnowsItsPlace
<1>6. ASSUME NEW r \in Clients, NEW request, requests' = [requests EXCEPT ![r] = request],
             request \notin Holding,
             hints' # 0 \/ UNCHANGED <<hints, core, announced>>,
             Underway' = Underway, UNCHANGED spoiled
      PROVE  RequestsKnowTheirPlace'
  <2>1. \A c \in Clients : requests'[c] = requests[c] \/ requests'[c] \notin Holding
    BY <1>0, <1>6
  <2> QED
    BY <1>6, <2>1 DEF RequestsKnowTheirPlace, KnowsItsPlace
<1>7. ASSUME NEW r \in Clients, NEW s \in Sessions, NEW n \in 0 .. MaxHistory, UnwindSession(r, s, n)
      PROVE  RequestsKnowTheirPlace'
  <2>1. PICK request : request = [phase |-> "asks", of |-> Sessions, merge |-> FALSE]
    OBVIOUS
  <2>2. request \notin Holding
    BY <2>1, RequestKinds
  <2>3. requests' = [requests EXCEPT ![r] = request] /\ hints' # 0
        /\ Underway' = Underway /\ UNCHANGED spoiled
    BY <1>0, <1>7, <2>1 DEF UnwindSession, Hint, Underway
  <2> QED
    BY <1>6, <2>2, <2>3
<1>8. ASSUME NEW r \in Clients, NEW s \in Sessions, GetSessionContext(r, s)
      PROVE  RequestsKnowTheirPlace'
  <2>1. PICK request : request = [phase |-> "asks", of |-> {s}, merge |-> TRUE]
    OBVIOUS
  <2>2. request \notin Holding
    BY <2>1, RequestKinds
  <2>3. requests' = [requests EXCEPT ![r] = request] /\ UNCHANGED <<hints, core, announced>>
        /\ Underway' = Underway /\ UNCHANGED spoiled
    BY <1>0, <1>8, <2>1 DEF GetSessionContext, Underway
  <2> QED
    BY <1>6, <2>2, <2>3
<1>9. ASSUME NEW r \in Clients, AnswerSnapshot(r) PROVE RequestsKnowTheirPlace'
  <2>1. requests[r] \in Asking
    BY <1>0, <1>9, RequestKinds DEF AnswerSnapshot
  <2>2. PICK x \in Snapshots : x = Snapshot(requests[r].of)
    BY SnapshotIsCurrent
  <2>3. /\ AllCurrent(x, core, announced)
        /\ requests[r].merge = TRUE \/ Complete(x, core, announced)
    <3>1. AllCurrent(x, core, announced) /\ DOMAIN x = requests[r].of \cap DOMAIN core
      BY <2>2, SnapshotIsCurrent
    <3>2. requests[r].merge = TRUE \/ DOMAIN core \subseteq DOMAIN x
      BY <2>1, <3>1 DEF AsksForAll, CoreTypeOK
    <3> QED
      BY <3>1, <3>2 DEF Complete
  <2>4. PICK request : request = [phase |-> "holds", snapshot |-> x, merge |-> requests[r].merge,
                                  overtaken |-> FALSE, behind |-> Underway]
    OBVIOUS
  <2>5. requests' = [requests EXCEPT ![r] = request]
        /\ UNCHANGED <<hints, core, announced, spoiled>> /\ Underway' = Underway
    BY <1>9, <2>2, <2>4 DEF AnswerSnapshot, Underway
  <2>6. KnowsItsPlace(request, core, announced, Underway, hints = 0)
    BY <1>0, <2>3, <2>4 DEF KnowsItsPlace
  <2>7. requests'[r] = request /\ \A c \in Clients \ {r} : requests'[c] = requests[c]
    BY <1>0, <2>5
  <2> QED
    BY <2>5, <2>6, <2>7 DEF RequestsKnowTheirPlace
<1>10. CASE FanoutLocks \/ FanoutLoadFails
  <2>1. output # <<>> /\ output' = Tail(output)
        /\ UNCHANGED <<core, announced, hints, spoiled, requests>>
    BY <1>10 DEF FanoutLocks, FanoutLoadFails, FanoutTakes
  <2>2. PICK x \in Snapshots, previous \in Snapshots :
          LockAndExtract("fanout", x, TRUE, FALSE, previous) /\ "fanout" \in Holder
    BY <1>10, FanoutLockIs
  <2>3. lock = Free /\ lock'.by = "fanout"
    <3>1. lock = Free /\ Taken(lock', "fanout", x, TRUE, FALSE, previous)
      BY <2>2, LockIs
    <3> QED
      BY <3>1 DEF Taken
  <2>4. Len(output') = Len(output) - 1
    BY <1>0, <2>1, HeadTailProperties
  <2>5. Underway' = Underway
    BY <1>0, <2>3, <2>4 DEF Underway
  <2> QED
    BY <2>1, <2>5 DEF RequestsKnowTheirPlace
<1>11. ASSUME NEW r \in Clients, RequestLocks(r) PROVE RequestsKnowTheirPlace'
  <2>1. PICK x \in Snapshots, merge \in BOOLEAN, overtaken \in BOOLEAN :
          LockAndExtract(r, x, merge, overtaken, stored) /\ r \in Holder /\ stored \in Snapshots
    BY <1>11, RequestLockIs
  <2>2. lock = Free /\ lock'.by = r
    <3>1. lock = Free /\ Taken(lock', r, x, merge, overtaken, stored)
      BY <2>1, LockIs
    <3> QED
      BY <3>1 DEF Taken
  <2>3. NoRequest \notin Holding
    BY RequestKinds
  <2>4. requests' = [requests EXCEPT ![r] = NoRequest]
        /\ UNCHANGED <<hints, core, announced, output, spoiled>>
    BY <1>11 DEF RequestLocks
  <2>5. Underway' = Underway
    BY <1>0, <2>2, <2>4 DEF Underway
  <2> QED
    BY <1>6, <2>3, <2>4, <2>5
<1>12. CASE Commit
  <2>1. lock' = Free /\ requests' = Overtake /\ UNCHANGED <<core, announced, hints, output>>
    BY <1>12 DEF Commit
  <2>2. spoiled' = FALSE => spoiled = FALSE
    BY <1>12, Zenon DEF Commit, QueuesTypeOK
  <2>3. CASE lock.by # "fanout"
    <3>1. Underway' = Underway /\ \A r \in Clients : requests'[r] = requests[r]
      BY <1>0, <2>1, <2>3, OvertakeIs DEF Underway
    <3> QED
      BY <2>1, <2>2, <3>1 DEF RequestsKnowTheirPlace
  <2>4. CASE lock.by = "fanout"
    <3>1. Underway' = Underway - 1
      BY <1>0, <2>1, <2>4 DEF Underway
    <3>2. ASSUME NEW r \in Clients, spoiled = FALSE
          PROVE  KnowsItsPlace(requests'[r], core, announced, Underway - 1, hints = 0)
      <4>1. SUFFICES ASSUME requests'[r] \in Holding, requests'[r].overtaken = FALSE
                     PROVE  KnowsItsPlace(requests'[r], core, announced, Underway - 1, hints = 0)
        BY DEF KnowsItsPlace
      <4>2. PICK request : request = requests[r]
        OBVIOUS
      <4>3. /\ request \in Holding /\ request.behind > 0
            /\ requests'[r] = [request EXCEPT !.behind = @ - 1]
        BY <2>1, <2>4, <4>1, <4>2, OvertakeIs
      <4>4. request.behind \in Nat
        BY <4>3, RequestKinds
      <4>5. /\ requests'[r].behind = request.behind - 1
            /\ requests'[r].overtaken = request.overtaken
            /\ requests'[r].snapshot = request.snapshot
            /\ requests'[r].merge = request.merge
        BY <4>3 DEF Holding
      <4>6. KnowsItsPlace(request, core, announced, Underway, hints = 0)
        BY <3>2, <4>2 DEF RequestsKnowTheirPlace
      <4> QED
        BY <1>0, <4>1, <4>3, <4>4, <4>5, <4>6 DEF KnowsItsPlace
    <3> QED
      BY <2>1, <2>2, <3>1, <3>2 DEF RequestsKnowTheirPlace
  <2> QED
    BY <2>3, <2>4
<1>13. CASE CommitFails
  BY <1>13 DEF CommitFails, RequestsKnowTheirPlace
<1>14. CASE CrashAndRestart
  BY <1>14, RequestKinds DEF CrashAndRestart, RequestsKnowTheirPlace, KnowsItsPlace
<1>15. ASSUME NEW r \in Clients, RequestLoadFails(r) PROVE RequestsKnowTheirPlace'
  <2>1. requests' = [requests EXCEPT ![r] = NoRequest] /\ NoRequest \notin Holding
        /\ UNCHANGED <<hints, core, announced, output, spoiled, lock>>
    BY <1>15, RequestKinds DEF RequestLoadFails
  <2>2. Underway' = Underway
    BY <2>1 DEF Underway
  <2> QED
    BY <1>6, <2>1, <2>2
<1>16. ASSUME NEW s \in Sessions, NEW n \in 0 .. MaxHistory, Compact(s, n)
      PROVE  RequestsKnowTheirPlace'
  <2>1. PICK m : m = Text /\ m \in Messages
    BY DEF Messages
  <2> QED
    BY <1>5, <1>16, <2>1
<1>17. ASSUME NEW s \in Sessions, NEW m \in Messages, TurnFails(s, m)
      PROVE  RequestsKnowTheirPlace'
  BY <1>5, <1>17
<1> QED
  BY <1>2, <1>3, <1>4, <1>16, <1>17, <1>7, <1>8, <1>9, <1>10, <1>11, <1>12, <1>13, <1>14, <1>15
  DEF DurabilityNext

--------------------------------------------------------------------------------
(* Theorems.                                                                *)

LEMMA DurabilityStart == DurabilityInit => DurabilityInv
<1> SUFFICES ASSUME DurabilityInit PROVE DurabilityInv
  OBVIOUS
<1>1. DOMAIN Empty = {} /\ Empty \in Snapshots
  BY SnapshotIs DEF Empty
<1>2. CoreTypeOK /\ AnnouncedIsThere
  BY <1>1 DEF DurabilityInit, CoreTypeOK, AnnouncedIsThere, Empty
<1>3. <<>> \in Seq(Snapshots) /\ requests \in [Clients -> {NoRequest} \cup Asking \cup Holding]
  BY DEF DurabilityInit
<1>4. QueuesTypeOK
  BY <1>1, <1>3 DEF DurabilityInit, QueuesTypeOK
<1>5. AsksForAll /\ RequestsKnowTheirPlace /\ NoBoundaryBehind
  BY RequestKinds DEF DurabilityInit, AsksForAll, RequestsKnowTheirPlace, KnowsItsPlace,
                      NoBoundaryBehind
<1>6. NewestIsComplete
  BY <1>1 DEF DurabilityInit, NewestIsComplete, Complete, AllCurrent
<1> QED
  BY <1>2, <1>4, <1>5, <1>6 DEF DurabilityInv

LEMMA DurabilityStep ==
  ASSUME ClientsAssumption, DurabilityInv, [DurabilityNext]_durability_vars
  PROVE  DurabilityInv'
<1>1. CASE UNCHANGED durability_vars
  BY <1>1 DEF DurabilityInv, CoreTypeOK, QueuesTypeOK, AsksForAll, AnnouncedIsThere,
     NewestIsComplete, RequestsKnowTheirPlace, NoBoundaryBehind, Underway
<1>2. CASE DurabilityNext
  <2>1. CoreTypeOK' /\ AnnouncedIsThere'
    BY <1>2, CoreTypes DEF DurabilityInv
  <2>2. QueuesTypeOK'
    BY <1>2, QueuesTypes DEF DurabilityInv
  <2>3. AsksForAll'
    BY <1>2, AsksForAllStep DEF DurabilityInv
  <2>4. NoBoundaryBehind'
    BY <1>2, BoundaryStep DEF DurabilityInv
  <2>5. NewestIsComplete' /\ RequestsKnowTheirPlace'
    BY <1>2, NewestStep, RequestsStep
  <2> QED
    BY <2>1, <2>2, <2>3, <2>4, <2>5 DEF DurabilityInv
<1> QED
  BY <1>1, <1>2

\* When nothing is under way, what is stored is as the sessions last announced it
\* (the fan-out loop, unwind_session and get_session_context of local.rs), unless
\* an overtaken snapshot was committed or a commit was lost.
THEOREM StaleOnlyIfOvertakenCorrect == DurabilitySpec => []StaleOnlyIfOvertaken
<1>1. DurabilityInv /\ [DurabilityNext]_durability_vars => DurabilityInv'
  BY DurabilityStep, ClientsAssumption
<1>2. DurabilityInv => StaleOnlyIfOvertaken
  <2>1. SUFFICES ASSUME DurabilityInv, Quiet, spoiled = FALSE, NEW s \in DOMAIN core
                 PROVE  /\ s \in DOMAIN stored
                        /\ stored[s].history \in announced[s]
    BY DEF StaleOnlyIfOvertaken, DurabilityInv, QueuesTypeOK
  <2>2. Complete(stored, core, announced)
    BY <2>1 DEF DurabilityInv, NewestIsComplete, Quiet
  <2> QED
    BY <2>2 DEF Complete, AllCurrent
<1> QED
  BY <1>1, <1>2, DurabilityStart, PTL DEF DurabilitySpec

\* However old the snapshot is that is committed, a message that was read for
\* memories is not read again: enrich_checkpoint_with_persistent_memory takes the
\* later of the two boundaries while it holds the commit lock (unless the previous
\* checkpoint could not be loaded).
THEOREM BoundaryNeverRegressesCorrect == DurabilitySpec => BoundaryNeverRegresses
<1>1. DurabilityInv /\ [DurabilityNext]_durability_vars => DurabilityInv'
  BY DurabilityStep, ClientsAssumption
<1>2. DurabilityInv /\ [DurabilityNext]_durability_vars =>
        [lock.blind \/ \A s \in DOMAIN stored \cap DOMAIN stored' :
           stored'[s].extracted >= stored[s].extracted]_stored
  <2>1. SUFFICES ASSUME DurabilityInv, DurabilityNext, stored' # stored, ~ lock.blind,
                        NEW s \in DOMAIN stored \cap DOMAIN stored'
                 PROVE  stored'[s].extracted >= stored[s].extracted
    OBVIOUS
  <2>2. Commit
    BY <2>1 DEF DurabilityNext, CreateSession, TurnEnds, TurnFails, Compact,
       EmitCheckpointRequest, UnwindSession, GetSessionContext, AnswerSnapshot, FanoutLocks,
       FanoutLoadFails, FanoutTakes, RequestLocks, RequestLoadFails, CommitFails, CrashAndRestart
  <2>3. lock # Free /\ stored' = lock.checkpoint
    BY <2>2 DEF Commit
  <2> QED
    BY <2>1, <2>3 DEF DurabilityInv, NoBoundaryBehind, NotBehind
<1> QED
  BY <1>1, <1>2, DurabilityStart, PTL DEF DurabilitySpec, BoundaryNeverRegresses
================================================================================
