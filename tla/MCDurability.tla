----------------------------- MODULE MCDurability -----------------------------
(***************************************************************************)
(* Durability and CheckpointFiles for TLC.  The first uses the second      *)
(* through the one cell it implements, so they are explored apart: a       *)
(* behaviour is of the harness or of the files, chosen at the start.       *)
(***************************************************************************)
EXTENDS Durability, CheckpointFiles

VARIABLE layer

mc_vars == <<layer, durability_vars, files_vars>>

LayersInit ==
  /\ DurabilityInit /\ FilesInit
  /\ layer \in {"harness", "files"}

LayersNext ==
  \/ DurabilityNext /\ layer = "harness" /\ UNCHANGED <<layer, files_vars>>
  \/ FilesNext /\ layer = "files" /\ UNCHANGED <<layer, durability_vars>>

LayersSpec == LayersInit /\ [][LayersNext]_mc_vars

SessionSymmetry == Permutations(Sessions)

LayersTypeOK == DurabilityTypeOK /\ FilesTypeOK

================================================================================
