---------------------------- MODULE CheckpointFiles ----------------------------
(***************************************************************************)
(* StorageManager (quine-harness/src/storage.rs): checkpoints on disk.     *)
(*                                                                         *)
(* Each commit writes a file of its own, checkpoint-<generation>, and then *)
(* manifest.json, which names the generation to load.  Both go through a   *)
(* temporary file that is written, synced and renamed.  The daemon may die *)
(* and any of these calls may fail between two steps.  The directory       *)
(* itself is not synced by the code: a rename is taken to be durable when  *)
(* the call returns, which is what the operating system gives a process    *)
(* that dies (a power cut is not modelled).                                *)
(***************************************************************************)
EXTENDS Naturals

CONSTANTS Checkpoints,     \* the checkpoints that can be committed
          NoCheckpoint,    \* no checkpoint
          Torn,            \* the content of a file that was written in part
          MaxGeneration    \* bound: the generations explored

ASSUME FilesAssumption ==
  /\ NoCheckpoint \notin Checkpoints
  /\ Torn \notin Checkpoints /\ Torn # NoCheckpoint
  /\ MaxGeneration \in Nat

Generations == 1 .. MaxGeneration

VARIABLES
  manifest,    \* current_generation in manifest.json, 0 when there is no file
  files,       \* the content of each checkpoint file, NoCheckpoint if absent
  tmp,         \* the content of the checkpoint's temporary file
  step,        \* where commit_checkpoint is
  writing      \* the checkpoint it was given

files_vars == <<manifest, files, tmp, step, writing>>

Steps == {"idle", "write", "rename", "manifest", "publish"}

FilesTypeOK ==
  /\ manifest \in 0 .. MaxGeneration
  /\ files \in [Generations -> Checkpoints \cup {NoCheckpoint, Torn}]
  /\ tmp \in Checkpoints \cup {NoCheckpoint, Torn}
  /\ step \in Steps
  /\ writing \in Checkpoints \cup {NoCheckpoint}

FilesInit ==
  /\ manifest = 0
  /\ files = [g \in Generations |-> NoCheckpoint]
  /\ tmp = NoCheckpoint
  /\ step = "idle"
  /\ writing = NoCheckpoint

\* load_latest_checkpoint: the file that the manifest names.
Latest == IF manifest = 0 THEN NoCheckpoint ELSE files[manifest]

\* next_generation: read again from the manifest by every commit.
NextGeneration == manifest + 1

\* commit_checkpoint is called.  Nothing else commits meanwhile: the caller
\* holds checkpoint_commit_lock.
BeginCommit(c) ==
  /\ step = "idle" /\ NextGeneration \in Generations
  /\ step' = "write" /\ writing' = c
  /\ UNCHANGED <<manifest, files, tmp>>

\* File::create truncates the temporary file; its content reaches the disk
\* before the rename (sync_all).
WriteTmp ==
  /\ step = "write"
  /\ \/ tmp' = Torn /\ step' = step
     \/ tmp' = writing /\ step' = "rename"
  /\ UNCHANGED <<manifest, files, writing>>

\* The file is renamed before it is synced, so what is published may be torn.
RenameUnsynced ==
  /\ step \in {"write", "rename"} /\ tmp # NoCheckpoint
  /\ files' = [files EXCEPT ![NextGeneration] = tmp]
  /\ tmp' = NoCheckpoint /\ step' = "manifest"
  /\ UNCHANGED <<manifest, writing>>

RenameTmp ==
  /\ step = "rename"
  /\ files' = [files EXCEPT ![NextGeneration] = tmp]
  /\ tmp' = NoCheckpoint /\ step' = "manifest"
  /\ UNCHANGED <<manifest, writing>>

\* The manifest's temporary file.  A torn one is never renamed, and nothing
\* reads it: it is not kept in the state.
WriteManifestTmp ==
  /\ step = "manifest"
  /\ step' = "publish"
  /\ UNCHANGED <<manifest, files, tmp, writing>>

\* The rename of the manifest is the moment the commit takes effect.
PublishManifest ==
  /\ step = "publish"
  /\ manifest' = NextGeneration
  /\ step' = "idle" /\ writing' = NoCheckpoint
  /\ UNCHANGED <<files, tmp>>

\* A call fails and commit_checkpoint returns its error, or the daemon dies and
\* the next one starts from the files.
CommitCut ==
  /\ step # "idle"
  /\ step' = "idle" /\ writing' = NoCheckpoint
  /\ UNCHANGED <<manifest, files, tmp>>

FilesNext ==
  \/ \E c \in Checkpoints : BeginCommit(c)
  \/ WriteTmp
  \/ RenameTmp
  \/ WriteManifestTmp
  \/ PublishManifest
  \/ CommitCut

FilesSpec == FilesInit /\ [][FilesNext]_files_vars

(***************************************************************************)
(* The files implement the one cell of CheckpointStore: a load never sees  *)
(* a torn or a missing checkpoint, and sees the last one whose commit      *)
(* returned Ok (or one whose commit was cut right after it took effect).   *)
(***************************************************************************)
Store == INSTANCE CheckpointStore WITH stored <- Latest, committing <- writing

\* A commit cut short, by an error or a crash, changes nothing that a load sees;
\* one that goes through replaces the checkpoint as a whole (storage.rs 411-428).
ImplementsStore == Store!StoreSpec

================================================================================
