----------------------------- MODULE MCSessionTree -----------------------------
(* Model-checking instance of SessionTree, with the loop of                *)
(* wait_would_cycle written as the code runs it.                           *)
EXTENDS SessionTree

\* The while loop of wait_would_cycle: `visited` grows by `current`, and the
\* walk stops at the waiter, at a session that waits for nobody, or at one
\* already visited.
RECURSIVE Walk(_, _, _)
Walk(waiter, current, visited) ==
  /\ current \notin visited
  /\ \/ current = waiter
     \/ /\ active_waits[current] # NoSession
        /\ Walk(waiter, active_waits[current], visited \cup {current})

wait_would_cycle(waiter, dependency) == Walk(waiter, dependency, {})

\* The loop of session_tree.rs:wait_would_cycle answers what the declarative
\* WaitWouldCycle says, in every reachable wait-for graph.
LoopAgrees ==
  \A waiter, dependency \in Sessions :
    wait_would_cycle(waiter, dependency) <=> WaitWouldCycle(waiter, dependency)
================================================================================
