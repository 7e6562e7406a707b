---------------------------- MODULE CheckpointStore ----------------------------
(***************************************************************************)
(* What the harness asks of its storage: one durable cell.  A commit is    *)
(* under way for a while, takes effect at once or not at all, and what     *)
(* took effect is what every later load returns, whatever crashes.         *)
(***************************************************************************)
CONSTANTS Checkpoints,   \* the checkpoints that can be committed
          NoCheckpoint   \* nothing was committed yet, or nothing is under way;
                         \* not a checkpoint

VARIABLES stored,        \* what load_latest_checkpoint returns
          committing     \* the checkpoint whose commit is under way

store_vars == <<stored, committing>>

StoreInit == stored = NoCheckpoint /\ committing = NoCheckpoint

\* commit_checkpoint is called.
StoreBegin ==
  /\ committing = NoCheckpoint
  /\ committing' \in Checkpoints
  /\ UNCHANGED stored

\* It returns Ok: the checkpoint is the stored one.
StoreCommit ==
  /\ committing # NoCheckpoint
  /\ stored' = committing
  /\ committing' = NoCheckpoint

\* It returns an error, or the daemon died: what was stored is still stored.
StoreAbort ==
  /\ committing # NoCheckpoint
  /\ committing' = NoCheckpoint
  /\ UNCHANGED stored

StoreNext == StoreBegin \/ StoreCommit \/ StoreAbort

StoreSpec == StoreInit /\ [][StoreNext]_store_vars

================================================================================
