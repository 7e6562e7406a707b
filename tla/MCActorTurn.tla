------------------------------ MODULE MCActorTurn ------------------------------
(* Model-checking instances of ActorTurn: see the configuration files.       *)
EXTENDS ActorTurn
================================================================================
