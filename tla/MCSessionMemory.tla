---------------------------- MODULE MCSessionMemory ----------------------------
(* Model-checking instances of SessionMemory: see the configuration files.   *)
EXTENDS SessionMemory
================================================================================
