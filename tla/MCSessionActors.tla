---------------------------- MODULE MCSessionActors ----------------------------
(* Model-checking instances of SessionActors: MCSessionActors.cfg has one    *)
(* root and two sessions to spawn, MCSessionActorsPair.cfg a root and one    *)
(* child with more inputs and more rounds.                                   *)
EXTENDS SessionActors

\* Sessions other than the roots start alike and are interchangeable.
SpawnableSymmetry == Permutations(Sessions \ Roots)
================================================================================
