------------------------------ MODULE SessionTree ------------------------------
(***************************************************************************)
(* crates/quine-core/src/session_tree.rs: the one structure every session  *)
(* actor and the core loop share (behind an RwLock).  It records who       *)
(* spawned whom, how each session ended, who is blocked on whom, and which *)
(* one-shot receivers are waiting for an exit.                             *)
(*                                                                         *)
(* Every method of the code takes the write lock once, so each is one      *)
(* action.  The module is used twice: on its own, where TreeNext issues    *)
(* the calls in any order (SessionActors_proofs proves its invariants for  *)
(* any set of sessions), and by SessionActors, which extends it and calls  *)
(* the same actions from the core loop and from the actors.                *)
(***************************************************************************)
EXTENDS Naturals, FiniteSets

CONSTANTS
  Sessions,       \* session identifiers
  NoSession,      \* the absent entry of a HashMap<SessionId, SessionId>
  Waiters,        \* oneshot channels created by CoreInput::WaitSession
  ExitStatuses,   \* the variants of ExitStatus
  Running         \* no exit status recorded

ASSUME TreeAssumption ==
  /\ NoSession \notin Sessions
  /\ Running \notin ExitStatuses

VARIABLES
  parents,        \* parents: child |-> its parent
  exit_statuses,  \* exit_statuses: session |-> how it ended
  active_waits,   \* active_waits: waiter |-> the session it is blocked on
  waiters,        \* waiters: session |-> senders to be told of its exit
  notified        \* what each oneshot receiver has been sent

tree_vars == <<parents, exit_statuses, active_waits, waiters, notified>>

(***************************************************************************)
(* The type invariant: maps are total functions, with NoSession and        *)
(* Running standing for a missing key.                                     *)
(***************************************************************************)
TreeTypeOK ==
  /\ parents \in [Sessions -> Sessions \cup {NoSession}]
  /\ exit_statuses \in [Sessions -> ExitStatuses \cup {Running}]
  /\ active_waits \in [Sessions -> Sessions \cup {NoSession}]
  /\ waiters \in [Sessions -> SUBSET Waiters]
  /\ notified \in [Waiters -> ExitStatuses \cup {Running}]

TreeInit ==
  /\ parents = [s \in Sessions |-> NoSession]
  /\ exit_statuses = [s \in Sessions |-> Running]
  /\ active_waits = [s \in Sessions |-> NoSession]
  /\ waiters = [s \in Sessions |-> {}]
  /\ notified = [w \in Waiters |-> Running]

--------------------------------------------------------------------------------
(* The wait-for graph.                                                     *)

\* A set of sessions that following active_waits never leaves.
ClosedUnderWaits(S) ==
  \A s \in S : active_waits[s] # NoSession => active_waits[s] \in S

\* The sessions the loop of wait_would_cycle visits starting from s: the
\* least set that holds s and is closed under active_waits.
Visited(s) ==
  {t \in Sessions : \A S \in SUBSET Sessions :
                      s \in S /\ ClosedUnderWaits(S) => t \in S}

\* Mutant: only a direct wait in the other direction is refused.
WaitWouldCycleOneHop(waiter, dependency) ==
  waiter = dependency \/ active_waits[dependency] = waiter

\* wait_would_cycle: the walk from the dependency comes back to the waiter.
WaitWouldCycle(waiter, dependency) == waiter \in Visited(dependency)

--------------------------------------------------------------------------------
(* The methods.                                                            *)

AddChild(parent, child) ==
  /\ parents' = [parents EXCEPT ![child] = parent]
  /\ UNCHANGED <<exit_statuses, active_waits, waiters, notified>>

\* Mutant: the cycle test of register_active_wait is gone.
RegisterActiveWaitUnchecked(waiter, dependency) ==
  /\ active_waits' = [active_waits EXCEPT ![waiter] = dependency]
  /\ UNCHANGED <<parents, exit_statuses, waiters, notified>>

\* The Ok path of register_active_wait; the Err path changes nothing.
RegisterActiveWait(waiter, dependency) ==
  /\ ~ WaitWouldCycle(waiter, dependency)
  /\ active_waits' = [active_waits EXCEPT ![waiter] = dependency]
  /\ UNCHANGED <<parents, exit_statuses, waiters, notified>>

\* Mutant: clearing a wait drops the waiter from the map's domain.
ClearActiveWaitShrinks(waiter) ==
  /\ active_waits' = [s \in Sessions \ {waiter} |-> active_waits[s]]
  /\ UNCHANGED <<parents, exit_statuses, waiters, notified>>

ClearActiveWait(waiter) ==
  /\ active_waits' = [active_waits EXCEPT ![waiter] = NoSession]
  /\ UNCHANGED <<parents, exit_statuses, waiters, notified>>

\* Mutant: the waiters told of an exit stay registered for the next one.
RecordExitKeepsWaiters(session, status) ==
  /\ active_waits' = [w \in Sessions |->
                        IF w = session \/ active_waits[w] = session
                        THEN NoSession ELSE active_waits[w]]
  /\ notified' = [w \in Waiters |->
                    IF w \in waiters[session] THEN status ELSE notified[w]]
  /\ exit_statuses' = [exit_statuses EXCEPT ![session] = status]
  /\ UNCHANGED <<parents, waiters>>

RecordExit(session, status) ==
  /\ active_waits' = [w \in Sessions |->
                        IF w = session \/ active_waits[w] = session
                        THEN NoSession ELSE active_waits[w]]
  /\ notified' = [w \in Waiters |->
                    IF w \in waiters[session] THEN status ELSE notified[w]]
  /\ waiters' = [waiters EXCEPT ![session] = {}]
  /\ exit_statuses' = [exit_statuses EXCEPT ![session] = status]
  /\ UNCHANGED parents

\* Mutant: the waiter is queued even when the session has already exited.
RegisterWaiterAlways(session, w) ==
  /\ waiters' = [waiters EXCEPT ![session] = @ \cup {w}]
  /\ UNCHANGED <<parents, exit_statuses, active_waits, notified>>

\* register_waiter: a waiter on an exited session is answered at once.
RegisterWaiter(session, w) ==
  /\ \/ /\ exit_statuses[session] # Running
        /\ notified' = [notified EXCEPT ![w] = exit_statuses[session]]
        /\ UNCHANGED waiters
     \/ /\ exit_statuses[session] = Running
        /\ waiters' = [waiters EXCEPT ![session] = @ \cup {w}]
        /\ UNCHANGED notified
  /\ UNCHANGED <<parents, exit_statuses, active_waits>>

\* snapshot then restore in a new process: neither kind of wait is persisted.
Restore ==
  /\ active_waits' = [s \in Sessions |-> NoSession]
  /\ waiters' = [s \in Sessions |-> {}]
  /\ UNCHANGED <<parents, exit_statuses, notified>>

--------------------------------------------------------------------------------
(* Callers.  Identifiers are fresh UUIDs (SpawnTool, SubagentTool): a      *)
(* spawned child has not been seen before.  Each oneshot channel is        *)
(* registered once.                                                        *)

\* Mutant: an identifier that already has children may be spawned again.
FreshAsChild(s) == parents[s] = NoSession

Fresh(s) ==
  /\ parents[s] = NoSession
  /\ exit_statuses[s] = Running
  /\ \A t \in Sessions : parents[t] # s

Unregistered(w) ==
  /\ notified[w] = Running
  /\ \A s \in Sessions : w \notin waiters[s]

TreeNext ==
  \/ \E parent, child \in Sessions :
       parent # child /\ Fresh(child) /\ AddChild(parent, child)
  \/ \E waiter, dependency \in Sessions : RegisterActiveWait(waiter, dependency)
  \/ \E waiter \in Sessions : ClearActiveWait(waiter)
  \/ \E s \in Sessions, status \in ExitStatuses : RecordExit(s, status)
  \/ \E s \in Sessions, w \in Waiters : Unregistered(w) /\ RegisterWaiter(s, w)
  \/ Restore

TreeSpec == TreeInit /\ [][TreeNext]_tree_vars

--------------------------------------------------------------------------------
(* Properties.                                                             *)

\* The wait-for graph has no cycle (session_tree.rs: register_active_wait
\* refuses the edge that would close one, every other method only removes
\* edges).  A cycle of a functional graph is a non-empty set in which every
\* session waits for a member of the set.
WaitsAcyclic ==
  \A S \in SUBSET Sessions :
    S # {} => \E s \in S : active_waits[s] \notin S

\* A receiver still queued by register_waiter waits for a session that is
\* still running: the check and the insertion share one write lock, so an
\* exit recorded before or after is never missed (WaitSession, subagent).
NoWaiterLeftBehind ==
  \A s \in Sessions : waiters[s] # {} => exit_statuses[s] = Running

\* Following parent_of always ends: resolve_interaction_target loops until a
\* session without a parent.  No non-empty set of sessions has all its
\* parents inside itself.
ParentsAcyclic ==
  \A S \in SUBSET Sessions :
    S # {} => \E s \in S : parents[s] \notin S

\* A receiver is told once: nothing overwrites the status a oneshot waiter
\* was sent, even when the exit of its session is recorded a second time.
NotifiedOnce ==
  [][\A w \in Waiters : notified[w] # Running => notified'[w] = notified[w]]_tree_vars
================================================================================
