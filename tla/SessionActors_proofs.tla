-------------------------- MODULE SessionActors_proofs --------------------------
(***************************************************************************)
(* Machine-checked proofs about SessionTree, for every set of sessions,    *)
(* waiters and exit statuses, and about SessionActors, for every choice of *)
(* roots and every bound: the actors use the session tree only through its *)
(* methods, the wait-for graph is true of them, and no wake-up is lost.    *)
(***************************************************************************)
EXTENDS SessionActors, WellFoundedInduction, TLAPS

(***************************************************************************)
(* The session tree.                                                       *)
(***************************************************************************)

\* Every method of the session tree keeps the types of its maps.
LEMMA TreeTypeStep ==
  ASSUME TreeTypeOK, [TreeNext]_tree_vars
  PROVE  TreeTypeOK'
<1> USE DEF TreeTypeOK
<1>1. ASSUME NEW parent \in Sessions, NEW child \in Sessions,
             AddChild(parent, child)
      PROVE  TreeTypeOK'
  BY <1>1 DEF AddChild
<1>2. ASSUME NEW waiter \in Sessions, NEW dependency \in Sessions,
             RegisterActiveWait(waiter, dependency)
      PROVE  TreeTypeOK'
  BY <1>2 DEF RegisterActiveWait
<1>3. ASSUME NEW waiter \in Sessions, ClearActiveWait(waiter)
      PROVE  TreeTypeOK'
  BY <1>3 DEF ClearActiveWait
<1>4. ASSUME NEW s \in Sessions, NEW status \in ExitStatuses,
             RecordExit(s, status)
      PROVE  TreeTypeOK'
  BY <1>4 DEF RecordExit
<1>5. ASSUME NEW s \in Sessions, NEW w \in Waiters, RegisterWaiter(s, w)
      PROVE  TreeTypeOK'
  BY <1>5 DEF RegisterWaiter
<1>6. CASE Restore
  BY <1>6 DEF Restore
<1>7. CASE UNCHANGED tree_vars
  BY <1>7 DEF tree_vars
<1>8. QED
  BY <1>1, <1>2, <1>3, <1>4, <1>5, <1>6, <1>7 DEF TreeNext

\* The maps of the session tree keep their types under every method.
THEOREM TreeTypeCorrect == TreeSpec => []TreeTypeOK
<1>1. TreeInit => TreeTypeOK
  BY DEF TreeInit, TreeTypeOK
<1>2. TreeTypeOK /\ [TreeNext]_tree_vars => TreeTypeOK'
  BY TreeTypeStep
<1>3. QED
  BY <1>1, <1>2, PTL DEF TreeSpec

--------------------------------------------------------------------------------
\* Removing edges cannot create a cycle: whatever subset of its waits the new
\* graph keeps, a closed set of the new graph was closed before.
LEMMA FewerWaitsStayAcyclic ==
  ASSUME TreeTypeOK, WaitsAcyclic,
         \A s \in Sessions : active_waits'[s] \in {active_waits[s], NoSession}
  PROVE  WaitsAcyclic'
  BY TreeAssumption DEF WaitsAcyclic, TreeTypeOK

\* The edge register_active_wait adds cannot close a cycle.  Were S a cycle of
\* the new graph, it would hold the waiter (else it was a cycle before), hence
\* the dependency, hence with the waiter's absence from Visited(dependency) a
\* closed set T around the dependency without the waiter: S \cap T would be a
\* cycle of the old graph.
LEMMA CheckedWaitStaysAcyclic ==
  ASSUME TreeTypeOK, WaitsAcyclic,
         NEW waiter \in Sessions, NEW dependency \in Sessions,
         RegisterActiveWait(waiter, dependency)
  PROVE  WaitsAcyclic'
<1> SUFFICES ASSUME NEW S \in SUBSET Sessions, S # {},
                    \A s \in S : active_waits'[s] \in S
             PROVE  FALSE
  BY DEF WaitsAcyclic
<1>1. PICK T \in SUBSET Sessions :
        /\ dependency \in T
        /\ waiter \notin T
        /\ ClosedUnderWaits(T)
  BY DEF RegisterActiveWait, WaitWouldCycle, Visited
<1>2. \A s \in Sessions \ {waiter} : active_waits'[s] = active_waits[s]
  BY DEF RegisterActiveWait, TreeTypeOK
<1>3. active_waits'[waiter] = dependency
  BY DEF RegisterActiveWait, TreeTypeOK
<1>4. CASE waiter \notin S
  <2>1. \A s \in S : active_waits[s] \in S
    BY <1>2, <1>4
  <2>2. QED
    BY <2>1 DEF WaitsAcyclic
<1>5. CASE waiter \in S
  <2>1. dependency \in S \cap T
    BY <1>1, <1>3, <1>5
  <2>2. \A s \in S \cap T : active_waits[s] \in S
    BY <1>1, <1>2
  <2>3. \A s \in S \cap T : active_waits[s] \in T
    BY <1>1, <2>2, TreeAssumption DEF ClosedUnderWaits
  <2>4. S \cap T \in SUBSET Sessions /\ S \cap T # {}
    BY <2>1
  <2>5. QED
    BY <2>2, <2>3, <2>4 DEF WaitsAcyclic
<1>6. QED
  BY <1>4, <1>5

\* Sessions never wait for one another in a ring: every method keeps the
\* wait-for graph acyclic.
LEMMA WaitsAcyclicStep ==
  ASSUME TreeTypeOK, WaitsAcyclic, [TreeNext]_tree_vars
  PROVE  WaitsAcyclic'
<1>1. ASSUME NEW parent \in Sessions, NEW child \in Sessions,
             AddChild(parent, child)
      PROVE  WaitsAcyclic'
  BY <1>1, FewerWaitsStayAcyclic DEF AddChild
<1>2. ASSUME NEW waiter \in Sessions, NEW dependency \in Sessions,
             RegisterActiveWait(waiter, dependency)
      PROVE  WaitsAcyclic'
  BY <1>2, CheckedWaitStaysAcyclic
<1>3. ASSUME NEW waiter \in Sessions, ClearActiveWait(waiter)
      PROVE  WaitsAcyclic'
  <2>1. \A s \in Sessions : active_waits'[s] \in {active_waits[s], NoSession}
    BY <1>3 DEF ClearActiveWait, TreeTypeOK
  <2>2. QED
    BY <2>1, FewerWaitsStayAcyclic
<1>4. ASSUME NEW s \in Sessions, NEW status \in ExitStatuses,
             RecordExit(s, status)
      PROVE  WaitsAcyclic'
  <2>1. \A t \in Sessions : active_waits'[t] \in {active_waits[t], NoSession}
    BY <1>4 DEF RecordExit
  <2>2. QED
    BY <2>1, FewerWaitsStayAcyclic
<1>5. ASSUME NEW s \in Sessions, NEW w \in Waiters, RegisterWaiter(s, w)
      PROVE  WaitsAcyclic'
  BY <1>5, FewerWaitsStayAcyclic DEF RegisterWaiter
<1>6. CASE Restore
  <2>1. \A s \in Sessions : active_waits'[s] \in {active_waits[s], NoSession}
    BY <1>6 DEF Restore
  <2>2. QED
    BY <2>1, FewerWaitsStayAcyclic
<1>7. CASE UNCHANGED tree_vars
  BY <1>7, FewerWaitsStayAcyclic DEF tree_vars
<1>8. QED
  BY <1>1, <1>2, <1>3, <1>4, <1>5, <1>6, <1>7 DEF TreeNext

\* WaitsAcyclic holds in every reachable state of the session tree.
THEOREM WaitsAcyclicCorrect == TreeSpec => []WaitsAcyclic
<1>1. TreeInit => WaitsAcyclic
  BY TreeAssumption DEF TreeInit, WaitsAcyclic
<1>2. TreeTypeOK /\ WaitsAcyclic /\ [TreeNext]_tree_vars => WaitsAcyclic'
  BY WaitsAcyclicStep
<1>3. QED
  BY <1>1, <1>2, TreeTypeCorrect, PTL DEF TreeSpec

--------------------------------------------------------------------------------
\* No receiver queued by register_waiter is left waiting for a session whose
\* exit has been recorded.
THEOREM NoWaiterLeftBehindCorrect == TreeSpec => []NoWaiterLeftBehind
<1>1. TreeInit => NoWaiterLeftBehind
  BY DEF TreeInit, NoWaiterLeftBehind
<1>2. TreeTypeOK /\ NoWaiterLeftBehind /\ [TreeNext]_tree_vars
        => NoWaiterLeftBehind'
  <2> SUFFICES ASSUME TreeTypeOK, NoWaiterLeftBehind, [TreeNext]_tree_vars
               PROVE  NoWaiterLeftBehind'
    OBVIOUS
  <2> USE DEF NoWaiterLeftBehind, TreeTypeOK
  <2>1. ASSUME NEW parent \in Sessions, NEW child \in Sessions,
               AddChild(parent, child)
        PROVE  NoWaiterLeftBehind'
    BY <2>1 DEF AddChild
  <2>2. ASSUME NEW waiter \in Sessions, NEW dependency \in Sessions,
               RegisterActiveWait(waiter, dependency)
        PROVE  NoWaiterLeftBehind'
    BY <2>2 DEF RegisterActiveWait
  <2>3. ASSUME NEW waiter \in Sessions, ClearActiveWait(waiter)
        PROVE  NoWaiterLeftBehind'
    BY <2>3 DEF ClearActiveWait
  <2>4. ASSUME NEW s \in Sessions, NEW status \in ExitStatuses,
               RecordExit(s, status)
        PROVE  NoWaiterLeftBehind'
    BY <2>4 DEF RecordExit
  <2>5. ASSUME NEW s \in Sessions, NEW w \in Waiters, RegisterWaiter(s, w)
        PROVE  NoWaiterLeftBehind'
    BY <2>5 DEF RegisterWaiter
  <2>6. CASE Restore
    BY <2>6 DEF Restore
  <2>7. CASE UNCHANGED tree_vars
    BY <2>7 DEF tree_vars
  <2>8. QED
    BY <2>1, <2>2, <2>3, <2>4, <2>5, <2>6, <2>7 DEF TreeNext
<1>3. QED
  BY <1>1, <1>2, TreeTypeCorrect, PTL DEF TreeSpec

--------------------------------------------------------------------------------
\* A spawned child is new, so its edge hangs a leaf under the parent.  A cycle
\* of the new parent relation without its child would be a cycle of the old one.
LEMMA FreshChildStaysAcyclic ==
  ASSUME TreeTypeOK, ParentsAcyclic,
         NEW parent \in Sessions, NEW child \in Sessions,
         parent # child, Fresh(child), AddChild(parent, child)
  PROVE  ParentsAcyclic'
<1> SUFFICES ASSUME NEW S \in SUBSET Sessions, S # {},
                    \A s \in S : parents'[s] \in S
             PROVE  FALSE
  BY DEF ParentsAcyclic
<1> DEFINE Rest == S \ {child}
<1>1. \A s \in Rest : parents'[s] = parents[s]
  BY DEF AddChild, TreeTypeOK
<1>2. \A s \in Rest : parents[s] \in Rest
  BY <1>1 DEF Fresh
<1>3. Rest # {}
  <2>1. CASE child \in S
    BY <2>1 DEF AddChild, TreeTypeOK
  <2>2. CASE child \notin S
    BY <2>2
  <2>3. QED
    BY <2>1, <2>2
<1>4. QED
  BY <1>2, <1>3 DEF ParentsAcyclic

\* Only add_child changes the parents, and it keeps them a forest: the walk of
\* resolve_interaction_target to the root ends.
THEOREM ParentsAcyclicCorrect == TreeSpec => []ParentsAcyclic
<1>1. TreeInit => ParentsAcyclic
  BY TreeAssumption DEF TreeInit, ParentsAcyclic
<1>2. TreeTypeOK /\ ParentsAcyclic /\ [TreeNext]_tree_vars => ParentsAcyclic'
  <2> SUFFICES ASSUME TreeTypeOK, ParentsAcyclic, [TreeNext]_tree_vars
               PROVE  ParentsAcyclic'
    OBVIOUS
  <2>1. ASSUME NEW parent \in Sessions, NEW child \in Sessions,
               parent # child, Fresh(child), AddChild(parent, child)
        PROVE  ParentsAcyclic'
    BY <2>1, FreshChildStaysAcyclic
  <2>2. CASE UNCHANGED parents
    BY <2>2 DEF ParentsAcyclic
  <2>3. QED
    BY <2>1, <2>2 DEF TreeNext, RegisterActiveWait, ClearActiveWait,
                      RecordExit, RegisterWaiter, Restore, tree_vars
<1>3. QED
  BY <1>1, <1>2, TreeTypeCorrect, PTL DEF TreeSpec

--------------------------------------------------------------------------------
\* A receiver that has been told is registered nowhere any more, so a second
\* record_exit of its session cannot reach it.
ToldIsUnregistered ==
  \A w \in Waiters : notified[w] # Running =>
    \A s \in Sessions : w \notin waiters[s]

\* A receiver is registered for at most one session.
RegisteredOnce ==
  \A w \in Waiters : \A s, t \in Sessions :
    w \in waiters[s] /\ w \in waiters[t] => s = t

NotifiedInv == TreeTypeOK /\ ToldIsUnregistered /\ RegisteredOnce

LEMMA NotifiedInvCorrect == TreeSpec => []NotifiedInv
<1>1. TreeInit => NotifiedInv
  BY DEF TreeInit, NotifiedInv, ToldIsUnregistered, RegisteredOnce, TreeTypeOK
<1>2. NotifiedInv /\ TreeTypeOK' /\ [TreeNext]_tree_vars => NotifiedInv'
  <2> SUFFICES ASSUME NotifiedInv, TreeTypeOK', [TreeNext]_tree_vars
               PROVE  ToldIsUnregistered' /\ RegisteredOnce'
    BY DEF NotifiedInv
  <2> USE DEF NotifiedInv, ToldIsUnregistered, RegisteredOnce, TreeTypeOK
  <2>1. ASSUME NEW s \in Sessions, NEW status \in ExitStatuses,
               RecordExit(s, status)
        PROVE  ToldIsUnregistered' /\ RegisteredOnce'
    BY <2>1 DEF RecordExit
  <2>2. ASSUME NEW s \in Sessions, NEW w \in Waiters,
               Unregistered(w), RegisterWaiter(s, w)
        PROVE  ToldIsUnregistered' /\ RegisteredOnce'
    BY <2>2 DEF RegisterWaiter, Unregistered
  <2>3. CASE Restore
    BY <2>3 DEF Restore
  <2>4. CASE UNCHANGED <<waiters, notified>>
    BY <2>4
  <2>5. QED
    BY <2>1, <2>2, <2>3, <2>4
       DEF TreeNext, AddChild, RegisterActiveWait, ClearActiveWait, tree_vars
<1>3. QED
  BY <1>1, <1>2, TreeTypeCorrect, PTL DEF TreeSpec

\* NotifiedOnce is an action property of every behaviour of the session tree.
THEOREM NotifiedOnceCorrect == TreeSpec => NotifiedOnce
<1>1. NotifiedInv /\ [TreeNext]_tree_vars
        => [\A w \in Waiters : notified[w] # Running
              => notified'[w] = notified[w]]_tree_vars
  <2> SUFFICES ASSUME NotifiedInv, TreeNext,
                      NEW w \in Waiters, notified[w] # Running
               PROVE  notified'[w] = notified[w]
    OBVIOUS
  <2> USE DEF NotifiedInv, ToldIsUnregistered, TreeTypeOK
  <2>1. ASSUME NEW s \in Sessions, NEW status \in ExitStatuses,
               RecordExit(s, status)
        PROVE  notified'[w] = notified[w]
    BY <2>1 DEF RecordExit
  <2>2. ASSUME NEW s \in Sessions, NEW v \in Waiters,
               Unregistered(v), RegisterWaiter(s, v)
        PROVE  notified'[w] = notified[w]
    BY <2>2 DEF RegisterWaiter, Unregistered
  <2>3. CASE UNCHANGED notified
    BY <2>3
  <2>4. QED
    BY <2>1, <2>2, <2>3
       DEF TreeNext, AddChild, RegisterActiveWait, ClearActiveWait, Restore
<1>2. QED
  BY <1>1, NotifiedInvCorrect, PTL DEF TreeSpec, NotifiedOnce

Exits == [session : Sessions, status : ExitStatuses]

(***************************************************************************)
(* The inductive invariant, in named parts.                                *)
(***************************************************************************)

\* The types the proofs need; the deferred commands' are not among them.
ActorTypes ==
  /\ registry \subseteq Sessions
  /\ runtime_events \in Seq(Exits)
  /\ pc \in [Sessions -> Places]
  /\ interrupted \in [Sessions -> BOOLEAN]
  /\ suspended_wait \in [Sessions -> Waits]
  /\ checking \in [Sessions -> Sessions \cup {NoSession}]

\* wait_child stands between its two halves with a session in hand.
CheckedIsSession == \A s \in Sessions : pc[s] = "checked" => checking[s] \in Sessions

\* A session that was not spawned yet is known nowhere.
UnbornIsUnknown ==
  \A s \in Sessions : pc[s] = "unborn" =>
    /\ Fresh(s)
    /\ s \notin registry
    /\ ~ Suspended(s)
    /\ \A i \in DOMAIN runtime_events : runtime_events[i].session # s

\* A session with a turn in flight is not suspended.
BusyIsAwake ==
  \A s \in Sessions : pc[s] \in {"turn", "checked", "tool"} => ~ Suspended(s)

\* The core loop forgets a session only with its exit on record.
ForgottenHasExited ==
  \A s \in Sessions \ registry : pc[s] = "unborn" \/ Exited(s)

\* The invariant all the proofs share; its last part is the property
\* InterruptedIsAtRest.
ActorInv ==
  /\ TreeTypeOK
  /\ ActorTypes
  /\ CheckedIsSession
  /\ UnbornIsUnknown
  /\ BusyIsAwake
  /\ ForgottenHasExited
  /\ InterruptedIsAtRest

\* The tuples of variables are only abbreviations.
USE DEF vars, tree_vars, core_vars, turn_vars

\* What finish_turn does, without its case distinctions: only a child stops, and
\* a child always reports its exit.
LEMMA FinishTurnShape ==
  ASSUME NEW s, NEW status, NEW channel, NEW deferred,
         FinishTurn(s, status, channel, deferred)
  PROVE  /\ \E place \in {"stopped", "ready"} :
              /\ pc' = [pc EXCEPT ![s] = place]
              /\ place = "stopped" => parents[s] # NoSession
         /\ \E rest \in {<<>>, channel} :
              command_rx' = [command_rx EXCEPT ![s] = rest]
         /\ IF parents[s] # NoSession
            THEN runtime_events' = Append(runtime_events,
                                          [session |-> s, status |-> status])
            ELSE runtime_events' = runtime_events
         /\ UNCHANGED <<registry, announcing, checking>>
<1> DEFINE Stops == parents[s] # NoSession /\ ~ resumed[s]
           Place == IF Stops THEN "stopped" ELSE "ready"
           Rest == IF Stops THEN <<>> ELSE channel
<1>1. pc' = [pc EXCEPT ![s] = Place] /\ command_rx' = [command_rx EXCEPT ![s] = Rest]
  BY Zenon DEF FinishTurn
<1>2. Place \in {"stopped", "ready"} /\ (Place = "stopped" => parents[s] # NoSession)
  <2>1. CASE Stops
    BY <2>1
  <2>2. CASE ~ Stops
    BY <2>2
  <2>3. QED
    BY <2>1, <2>2
<1>3. Rest \in {<<>>, channel}
  <2>1. CASE Stops
    BY <2>1, Zenon
  <2>2. CASE ~ Stops
    BY <2>2, Zenon
  <2>3. QED
    BY <2>1, <2>2
<1>4. IF parents[s] # NoSession
      THEN runtime_events' = Append(runtime_events,
                                    [session |-> s, status |-> status])
      ELSE runtime_events' = runtime_events
  BY DEF FinishTurn
<1>5. UNCHANGED <<registry, announcing, checking>>
  BY DEF FinishTurn
<1> HIDE DEF Place, Rest
<1>6. QED
  BY <1>1, <1>2, <1>3, <1>4, <1>5

\* Every step keeps the types.
LEMMA ActorTypesStep ==
  ASSUME ActorInv, [Next]_vars
  PROVE  ActorTypes'
<1> USE DEF ActorInv, ActorTypes
<1>1. ASSUME NEW s \in Sessions, UserMessage(s) PROVE ActorTypes'
  BY <1>1 DEF UserMessage, AppendSuspendedWaitResult, Waits, Places
<1>2. ASSUME NEW s \in Sessions, InterruptIdle(s) PROVE ActorTypes'
  BY <1>2 DEF InterruptIdle, AppendSuspendedWaitResult, Waits
<1>3. ASSUME NEW s \in Sessions, Continue(s) PROVE ActorTypes'
  BY <1>3 DEF Continue
<1>4. ASSUME NEW s \in Sessions, ResumeFromWait(s), UNCHANGED core_vars
      PROVE ActorTypes'
  BY <1>4 DEF ResumeFromWait, AppendSuspendedWaitResult, Waits, Places
<1>5. ASSUME UNCHANGED <<core_vars, turn_vars>> PROVE ActorTypes'
  BY <1>5
<1>6. ASSUME NEW s \in Sessions, NEW status \in ExitStatuses, NEW c, NEW d,
             FinishTurn(s, status, c, d)
      PROVE /\ registry' \subseteq Sessions
            /\ runtime_events' \in Seq(Exits)
            /\ pc' \in [Sessions -> Places]
            /\ checking' \in [Sessions -> Sessions \cup {NoSession}]
  <2>1. PICK place \in {"stopped", "ready"} : pc' = [pc EXCEPT ![s] = place]
    BY <1>6, FinishTurnShape
  <2>2. [session |-> s, status |-> status] \in Exits
    BY DEF Exits
  <2>3. runtime_events' \in Seq(Exits)
    BY <1>6, <2>2, FinishTurnShape
  <2>4. QED
    BY <1>6, <2>1, <2>3, FinishTurnShape DEF Places
<1>7. ASSUME NEW s \in Sessions, InterruptTurn(s) PROVE ActorTypes'
  <2>1. "Cancelled" \in ExitStatuses
    BY ActorsAssumption
  <2>2. QED
    BY <1>6, <1>7, <2>1 DEF InterruptTurn, AppendSuspendedWaitResult, Waits
<1>8. ASSUME NEW s \in Sessions, EndTurn(s) PROVE ActorTypes'
  <2>1. {"Success", "Failed"} \subseteq ExitStatuses
    BY ActorsAssumption
  <2>2. QED
    BY <1>6, <1>8, <2>1 DEF EndTurn
<1>9. ASSUME NEW s \in Sessions, CallTool(s) \/ ToolDone(s) \/ ChannelClosed(s)
      PROVE ActorTypes'
  BY <1>9 DEF CallTool, ToolDone, ChannelClosed, Places
<1>10. ASSUME NEW s \in Sessions, NEW child \in Sessions, CallWaitChild(s, child)
       PROVE ActorTypes'
  BY <1>10 DEF CallWaitChild, Places
<1>11. ASSUME NEW s \in Sessions, RegisterWait(s) PROVE ActorTypes'
  <2>1. checking[s] \in Sessions
    BY <1>11 DEF RegisterWait, CheckedIsSession
  <2>2. \A timed \in Deadlines :
          [kind |-> "ChildExit", on |-> checking[s], timed |-> timed] \in Waits
    BY <2>1, ActorsAssumption DEF Waits
  <2>3. QED
    BY <1>11, <2>2 DEF RegisterWait, Suspend, Places
<1>12. ASSUME NEW s \in Sessions, NEW source \in (Sessions \ {s}) \cup {AnySource},
              CallRecvMessage(s, source)
       PROVE ActorTypes'
  <2>1. \A timed \in Deadlines :
          [kind |-> "Mailbox", on |-> source, timed |-> timed] \in Waits
    BY ActorsAssumption DEF Waits
  <2>2. QED
    BY <1>12, <2>1 DEF CallRecvMessage, Suspend, Places
<1>13. ASSUME NEW parent \in Sessions, NEW child \in Sessions,
              SpawnSession(parent, child)
       PROVE ActorTypes'
  BY <1>13 DEF SpawnSession, Places
<1>14. CASE ChildFinished
  BY <1>14 DEF ChildFinished
<1>15. ASSUME NEW s \in Sessions, Announce(s) PROVE ActorTypes'
  BY <1>15 DEF Announce
<1>16. ASSUME NEW s \in Sessions, MailboxMessage(s) PROVE ActorTypes'
  BY <1>4, <1>5, <1>16 DEF MailboxMessage
<1>17. ASSUME NEW s \in Sessions, ChildExited(s) PROVE ActorTypes'
  BY <1>4, <1>5, <1>17 DEF ChildExited
<1>18. ASSUME NEW s \in Sessions, ToolResult(s) PROVE ActorTypes'
  BY <1>4, <1>5, <1>18 DEF ToolResult
<1>19. ASSUME NEW s \in Sessions, WaitTimeout(s) PROVE ActorTypes'
  BY <1>4, <1>19 DEF WaitTimeout
<1>20. ASSUME NEW s \in Sessions,
              DeferCommand(s) \/ ControlMessage(s) \/ AnsweredCall(s)
       PROVE ActorTypes'
  BY <1>5, <1>20 DEF DeferCommand, ControlMessage, AnsweredCall
<1>21. ASSUME NEW s \in Sessions, NEW command, Route(s, command) PROVE ActorTypes'
  BY <1>5, <1>21 DEF Route
<1>22. CASE UNCHANGED vars
  BY <1>5, <1>22
<1>23. QED
  BY <1>1, <1>2, <1>3, <1>7, <1>8, <1>9, <1>10, <1>11, <1>12, <1>13, <1>14, <1>15,
     <1>16, <1>17, <1>18, <1>19, <1>20, <1>21, <1>22
     DEF Next, ActorStep, CoreStep, InputStep, RouteUserMessage, RouteToolResult,
         RouteContinue, RouteInterrupt, RouteMessage

--------------------------------------------------------------------------------
\* The actors and the core loop touch the session tree only by its methods.
LEMMA TreeStep ==
  ASSUME ActorInv, [Next]_vars
  PROVE  [TreeNext]_tree_vars
<1>1. ASSUME NEW s \in Sessions,
             \/ UserMessage(s) \/ InterruptIdle(s) \/ MailboxMessage(s)
             \/ ChildExited(s) \/ ToolResult(s) \/ WaitTimeout(s)
             \/ InterruptTurn(s)
      PROVE  [TreeNext]_tree_vars
  <2>1. ClearActiveWait(s) \/ UNCHANGED tree_vars
    BY <1>1 DEF UserMessage, InterruptIdle, MailboxMessage, ChildExited, ToolResult,
                WaitTimeout, InterruptTurn, ResumeFromWait, AppendSuspendedWaitResult
  <2>2. QED
    BY <2>1 DEF TreeNext
<1>2. ASSUME NEW s \in Sessions, RegisterWait(s) PROVE [TreeNext]_tree_vars
  <2>1. checking[s] \in Sessions
    BY <1>2 DEF RegisterWait, ActorInv, CheckedIsSession
  <2>2. RegisterActiveWait(s, checking[s]) \/ UNCHANGED tree_vars
    BY <1>2 DEF RegisterWait
  <2>3. QED
    BY <2>1, <2>2 DEF TreeNext
<1>3. ASSUME NEW s \in Sessions, NEW source \in (Sessions \ {s}) \cup {AnySource},
             CallRecvMessage(s, source)
      PROVE  [TreeNext]_tree_vars
  <2>1. (source \in Sessions /\ RegisterActiveWait(s, source)) \/ UNCHANGED tree_vars
    BY <1>3 DEF CallRecvMessage
  <2>2. QED
    BY <2>1 DEF TreeNext
<1>4. ASSUME NEW parent \in Sessions, NEW child \in Sessions,
             SpawnSession(parent, child)
      PROVE  [TreeNext]_tree_vars
  <2>1. parent # child /\ Fresh(child) /\ AddChild(parent, child)
    BY <1>4 DEF SpawnSession, ActorInv, UnbornIsUnknown
  <2>2. QED
    BY <2>1 DEF TreeNext
<1>5. CASE ChildFinished
  <2>1. Head(runtime_events) \in Exits
    BY <1>5 DEF ChildFinished, ActorInv, ActorTypes
  <2>2. RecordExit(Head(runtime_events).session, Head(runtime_events).status)
    BY <1>5 DEF ChildFinished
  <2>3. QED
    BY <2>1, <2>2 DEF TreeNext, Exits
<1>6. ASSUME NEW s \in Sessions,
             \/ Continue(s) \/ DeferCommand(s) \/ ControlMessage(s) \/ EndTurn(s)
             \/ CallTool(s) \/ ToolDone(s) \/ AnsweredCall(s) \/ ChannelClosed(s)
             \/ Announce(s) \/ \E child \in Sessions : CallWaitChild(s, child)
      PROVE  UNCHANGED tree_vars
  BY <1>6 DEF Continue, DeferCommand, ControlMessage, EndTurn, CallTool, ToolDone,
              AnsweredCall, ChannelClosed, Announce, CallWaitChild
<1>7. ASSUME NEW s \in Sessions, NEW command, Route(s, command)
      PROVE  UNCHANGED tree_vars
  BY <1>7 DEF Route
<1>8. CASE UNCHANGED vars
  BY <1>8
<1>9. QED
  BY <1>1, <1>2, <1>3, <1>4, <1>5, <1>6, <1>7, <1>8
     DEF Next, ActorStep, CoreStep, InputStep, RouteUserMessage, RouteToolResult,
         RouteContinue, RouteInterrupt, RouteMessage

--------------------------------------------------------------------------------
\* What a session's own variables say of its turn: the three parts of the
\* invariant about them are kept together.
TurnIsSound ==
  CheckedIsSession /\ BusyIsAwake /\ InterruptedIsAtRest

\* Every step keeps a session's turn, wait and interrupt flag consistent.
LEMMA TurnStep ==
  ASSUME ActorInv, [Next]_vars
  PROVE  TurnIsSound'
<1> USE DEF ActorInv, TurnIsSound, CheckedIsSession, BusyIsAwake,
            InterruptedIsAtRest, Suspended
<1>a. ActorTypes
  OBVIOUS
<1> USE <1>a DEF ActorTypes
<1>1. ASSUME NEW s \in Sessions, UserMessage(s) PROVE TurnIsSound'
  BY <1>1 DEF UserMessage, AppendSuspendedWaitResult
<1>2. ASSUME NEW s \in Sessions, InterruptIdle(s) PROVE TurnIsSound'
  BY <1>2 DEF InterruptIdle, AppendSuspendedWaitResult, HasCommand
<1>3. ASSUME NEW s \in Sessions, Continue(s) PROVE TurnIsSound'
  BY <1>3 DEF Continue
<1>4. ASSUME NEW s \in Sessions, Suspended(s), ResumeFromWait(s) PROVE TurnIsSound'
  BY <1>4 DEF ResumeFromWait, AppendSuspendedWaitResult
<1>5. ASSUME UNCHANGED turn_vars PROVE TurnIsSound'
  BY <1>5
<1>6. ASSUME NEW s \in Sessions, InterruptTurn(s) PROVE TurnIsSound'
  <2>1. PICK place \in {"stopped", "ready"} : pc' = [pc EXCEPT ![s] = place]
    BY <1>6, FinishTurnShape DEF InterruptTurn
  <2>2. UNCHANGED checking
    BY <1>6, FinishTurnShape DEF InterruptTurn
  <2>3. QED
    BY <1>6, <2>1, <2>2 DEF InterruptTurn, AppendSuspendedWaitResult
<1>7. ASSUME NEW s \in Sessions, EndTurn(s) PROVE TurnIsSound'
  <2>1. PICK place \in {"stopped", "ready"} : pc' = [pc EXCEPT ![s] = place]
    BY <1>7, FinishTurnShape DEF EndTurn
  <2>2. UNCHANGED checking
    BY <1>7, FinishTurnShape DEF EndTurn
  <2>3. QED
    BY <1>7, <2>1, <2>2 DEF EndTurn
<1>8. ASSUME NEW s \in Sessions, CallTool(s) \/ ToolDone(s) \/ ChannelClosed(s)
      PROVE  TurnIsSound'
  BY <1>8 DEF CallTool, ToolDone, ChannelClosed
<1>9. ASSUME NEW s \in Sessions, NEW child \in Sessions, CallWaitChild(s, child)
      PROVE  TurnIsSound'
  BY <1>9 DEF CallWaitChild
<1>10. ASSUME NEW s \in Sessions, RegisterWait(s) PROVE TurnIsSound'
  BY <1>10 DEF RegisterWait, Suspend
<1>11. ASSUME NEW s \in Sessions, NEW source, CallRecvMessage(s, source)
       PROVE  TurnIsSound'
  BY <1>11 DEF CallRecvMessage, Suspend
<1>12. ASSUME NEW parent \in Sessions, NEW child \in Sessions,
              SpawnSession(parent, child)
       PROVE  TurnIsSound'
  BY <1>12 DEF SpawnSession, UnbornIsUnknown
<1>13. ASSUME NEW s \in Sessions,
              \/ MailboxMessage(s) \/ ChildExited(s) \/ ToolResult(s) \/ WaitTimeout(s)
       PROVE  TurnIsSound'
  <2>1. (Suspended(s) /\ ResumeFromWait(s)) \/ UNCHANGED turn_vars
    BY <1>13 DEF MailboxMessage, ChildExited, ToolResult, WaitTimeout,
                 WaitsForChild, NoWait
  <2>2. QED
    BY <1>4, <1>5, <2>1
<1>14. ASSUME NEW s \in Sessions,
              DeferCommand(s) \/ ControlMessage(s) \/ AnsweredCall(s) \/ Announce(s)
       PROVE  UNCHANGED turn_vars
  BY <1>14 DEF DeferCommand, ControlMessage, AnsweredCall, Announce
<1>15. ASSUME NEW s \in Sessions, NEW command, Route(s, command)
       PROVE  UNCHANGED turn_vars
  BY <1>15 DEF Route
<1>16. ASSUME ChildFinished PROVE UNCHANGED turn_vars
  BY <1>16 DEF ChildFinished
<1>17. QED
  BY <1>1, <1>2, <1>3, <1>5, <1>6, <1>7, <1>8, <1>9, <1>10, <1>11, <1>12, <1>13,
     <1>14, <1>15, <1>16
     DEF Next, ActorStep, CoreStep, InputStep, RouteUserMessage, RouteToolResult,
         RouteContinue, RouteInterrupt, RouteMessage

--------------------------------------------------------------------------------
\* An exit on record stays on record.
LEMMA ExitsStay ==
  ASSUME ActorInv, [Next]_vars, NEW s \in Sessions, Exited(s)
  PROVE  Exited(s)'
<1>1. [TreeNext]_tree_vars
  BY TreeStep
<1>2. QED
  BY <1>1, TreeAssumption
     DEF TreeNext, AddChild, RegisterActiveWait, ClearActiveWait, RecordExit,
         RegisterWaiter, Restore, Exited, ActorInv, TreeTypeOK

\* Append adds one element at the end and keeps the others.
LEMMA AppendKeeps ==
  ASSUME NEW S, NEW q \in Seq(S), NEW e \in S
  PROVE  /\ Append(q, e) \in Seq(S)
         /\ \A i \in DOMAIN Append(q, e) :
              \/ Append(q, e)[i] = e
              \/ i \in DOMAIN q /\ Append(q, e)[i] = q[i]
         /\ \A i \in DOMAIN q : i \in DOMAIN Append(q, e) /\ Append(q, e)[i] = q[i]
         /\ \E i \in DOMAIN Append(q, e) : Append(q, e)[i] = e
<1>1. /\ Append(q, e) \in Seq(S)
      /\ DOMAIN q = 1 .. Len(q) /\ Len(q) \in Nat
      /\ DOMAIN Append(q, e) = 1 .. Len(q) + 1
  OBVIOUS
<1>2. \A i \in 1 .. Len(q) : Append(q, e)[i] = q[i]
  OBVIOUS
<1>3. Append(q, e)[Len(q) + 1] = e
  OBVIOUS
<1>4. QED
  BY <1>1, <1>2, <1>3

\* Tail drops the head and keeps the others.
LEMMA TailKeeps ==
  ASSUME NEW S, NEW q \in Seq(S), q # <<>>
  PROVE  /\ Tail(q) \in Seq(S)
         /\ \A i \in DOMAIN Tail(q) : i + 1 \in DOMAIN q /\ Tail(q)[i] = q[i + 1]
         /\ \A i \in DOMAIN q : \/ q[i] = Head(q)
                                \/ \E j \in DOMAIN Tail(q) : Tail(q)[j] = q[i]
<1>1. /\ Tail(q) \in Seq(S)
      /\ DOMAIN q = 1 .. Len(q) /\ Len(q) \in Nat \ {0}
      /\ DOMAIN Tail(q) = 1 .. Len(q) - 1
  OBVIOUS
<1>2. \A i \in 1 .. Len(q) - 1 : Tail(q)[i] = q[i + 1]
  OBVIOUS
<1>3. Head(q) = q[1]
  OBVIOUS
<1>4. ASSUME NEW i \in DOMAIN q, i # 1
      PROVE  \E j \in DOMAIN Tail(q) : Tail(q)[j] = q[i]
  <2>1. i - 1 \in 1 .. Len(q) - 1 /\ (i - 1) + 1 = i
    BY <1>1, <1>4
  <2>2. Tail(q)[i - 1] = q[i]
    BY <1>2, <2>1
  <2>3. QED
    BY <1>1, <2>1, <2>2
<1>5. \A i \in DOMAIN Tail(q) : i + 1 \in DOMAIN q /\ Tail(q)[i] = q[i + 1]
  BY <1>1, <1>2
<1>6. QED
  BY <1>1, <1>3, <1>4, <1>5

\* A session becomes known to the tree, the registry and the queue of exits only
\* by being spawned.
LEMMA UnbornStep ==
  ASSUME ActorInv, [Next]_vars
  PROVE  UnbornIsUnknown'
<1> USE DEF ActorInv, ActorTypes, UnbornIsUnknown, Suspended, Fresh
<1>1. ASSUME NEW s \in Sessions, pc[s] # "unborn", pc'[s] # "unborn",
             \A t \in Sessions \ {s} :
               pc'[t] = pc[t] /\ suspended_wait'[t] = suspended_wait[t],
             UNCHANGED <<parents, exit_statuses, registry, runtime_events>>
      PROVE  UnbornIsUnknown'
  BY <1>1
<1>2. ASSUME NEW s \in Sessions,
             \/ UserMessage(s) \/ InterruptIdle(s) \/ Continue(s) \/ MailboxMessage(s)
             \/ ChildExited(s) \/ ToolResult(s) \/ WaitTimeout(s)
             \/ CallTool(s) \/ ToolDone(s) \/ ChannelClosed(s) \/ RegisterWait(s)
             \/ \E child \in Sessions : CallWaitChild(s, child)
             \/ \E source \in (Sessions \ {s}) \cup {AnySource} :
                  CallRecvMessage(s, source)
      PROVE  UnbornIsUnknown'
  <2>1. /\ pc[s] # "unborn" /\ pc'[s] # "unborn"
        /\ \A t \in Sessions \ {s} :
             pc'[t] = pc[t] /\ suspended_wait'[t] = suspended_wait[t]
        /\ UNCHANGED <<parents, exit_statuses, registry, runtime_events>>
    BY <1>2 DEF UserMessage, InterruptIdle, Continue, MailboxMessage, ChildExited,
                ToolResult, WaitTimeout, CallTool, ToolDone, ChannelClosed,
                RegisterWait, CallWaitChild, CallRecvMessage, HasCommand,
                ResumeFromWait, AppendSuspendedWaitResult, ClearActiveWait,
                RegisterActiveWait, Suspend
  <2>2. QED
    BY <1>1, <2>1
<1>3. ASSUME NEW s \in Sessions, InterruptTurn(s) \/ EndTurn(s)
      PROVE  UnbornIsUnknown'
  <2>1. PICK status, channel, deferred : FinishTurn(s, status, channel, deferred)
    BY <1>3 DEF InterruptTurn, EndTurn
  <2>2. PICK place \in {"stopped", "ready"} : pc' = [pc EXCEPT ![s] = place]
    BY <2>1, FinishTurnShape
  <2>3. pc[s] # "unborn" /\ UNCHANGED <<parents, exit_statuses>>
    BY <1>3 DEF InterruptTurn, EndTurn, Busy, AppendSuspendedWaitResult,
                ClearActiveWait
  <2>4. \A t \in Sessions \ {s} : suspended_wait'[t] = suspended_wait[t]
    BY <1>3 DEF InterruptTurn, EndTurn, AppendSuspendedWaitResult
  <2>5. \A t \in Sessions \ {s} :
          \A i \in DOMAIN runtime_events' : runtime_events'[i].session = t
            => \E j \in DOMAIN runtime_events : runtime_events[j].session = t
    <3>1. CASE parents[s] # NoSession
      <4>1. runtime_events' = Append(runtime_events, [session |-> s, status |-> status])
        BY <2>1, <3>1, FinishTurnShape
      <4>2. runtime_events \in Seq(Exits \cup {[session |-> s, status |-> status]})
        OBVIOUS
      <4>3. QED
        BY <4>1, <4>2, AppendKeeps
    <3>2. CASE parents[s] = NoSession
      BY <2>1, <3>2, FinishTurnShape
    <3>3. QED
      BY <3>1, <3>2
  <2>6. UNCHANGED registry
    BY <2>1, FinishTurnShape
  <2>7. QED
    BY <2>2, <2>3, <2>4, <2>5, <2>6
<1>4. ASSUME NEW parent \in Sessions, NEW child \in Sessions,
             SpawnSession(parent, child)
      PROVE  UnbornIsUnknown'
  BY <1>4 DEF SpawnSession, AddChild, TreeTypeOK
<1>5. CASE ChildFinished
  <2>1. PICK event \in Exits :
          /\ event = Head(runtime_events)
          /\ runtime_events' = Tail(runtime_events)
          /\ registry' \subseteq registry
          /\ RecordExit(event.session, event.status)
    BY <1>5 DEF ChildFinished
  <2>2. runtime_events # <<>> /\ UNCHANGED <<pc, suspended_wait, parents>>
    BY <1>5, <2>1 DEF ChildFinished, RecordExit
  <2>3. pc[event.session] # "unborn"
    BY <2>1, <2>2 DEF Exits
  <2>4. \A t \in Sessions \ {event.session} : exit_statuses'[t] = exit_statuses[t]
    BY <2>1 DEF RecordExit, TreeTypeOK
  <2>5. \A i \in DOMAIN runtime_events' :
          \E j \in DOMAIN runtime_events : runtime_events'[i] = runtime_events[j]
    BY <2>1, <2>2, TailKeeps
  <2>6. QED
    BY <2>1, <2>2, <2>3, <2>4, <2>5
<1>6. ASSUME UNCHANGED <<tree_vars, pc, suspended_wait, registry, runtime_events>>
      PROVE  UnbornIsUnknown'
  BY <1>6
<1>7. ASSUME NEW s \in Sessions,
             DeferCommand(s) \/ ControlMessage(s) \/ AnsweredCall(s) \/ Announce(s)
      PROVE  UnbornIsUnknown'
  BY <1>6, <1>7 DEF DeferCommand, ControlMessage, AnsweredCall, Announce
<1>8. ASSUME NEW s \in Sessions, NEW command, Route(s, command)
      PROVE  UnbornIsUnknown'
  BY <1>6, <1>8 DEF Route
<1>9. QED
  BY <1>2, <1>3, <1>4, <1>5, <1>6, <1>7, <1>8
     DEF Next, ActorStep, CoreStep, InputStep, RouteUserMessage, RouteToolResult,
         RouteContinue, RouteInterrupt, RouteMessage

\* The registry loses a session only when its exit is recorded.
LEMMA ForgottenStep ==
  ASSUME ActorInv, [Next]_vars
  PROVE  ForgottenHasExited'
<1> USE DEF ActorInv, ActorTypes, ForgottenHasExited
<1>1. \A s \in Sessions : Exited(s) => Exited(s)'
  BY ExitsStay
<1>2. ASSUME NEW parent \in Sessions, NEW child \in Sessions,
             SpawnSession(parent, child)
      PROVE  ForgottenHasExited'
  BY <1>1, <1>2 DEF SpawnSession
<1>3. CASE ChildFinished
  <2>1. PICK event \in Exits :
          /\ registry' = registry \ {event.session}
          /\ RecordExit(event.session, event.status)
    BY <1>3 DEF ChildFinished
  <2>2. Exited(event.session)'
    BY <2>1, TreeAssumption DEF RecordExit, Exits, Exited, TreeTypeOK
  <2>3. UNCHANGED pc
    BY <1>3 DEF ChildFinished
  <2>4. QED
    BY <1>1, <2>1, <2>2, <2>3
<1>4. ASSUME NEW s \in Sessions, pc[s] # "unborn", UNCHANGED registry,
             \A t \in Sessions \ {s} : pc'[t] = pc[t]
      PROVE  ForgottenHasExited'
  BY <1>1, <1>4
<1>5. ASSUME UNCHANGED <<registry, pc>> PROVE ForgottenHasExited'
  BY <1>1, <1>5
<1>6. ASSUME NEW s \in Sessions,
             \/ UserMessage(s) \/ InterruptIdle(s) \/ Continue(s) \/ MailboxMessage(s)
             \/ ChildExited(s) \/ ToolResult(s) \/ WaitTimeout(s)
             \/ CallTool(s) \/ ToolDone(s) \/ ChannelClosed(s) \/ RegisterWait(s)
             \/ \E child \in Sessions : CallWaitChild(s, child)
             \/ \E source \in (Sessions \ {s}) \cup {AnySource} :
                  CallRecvMessage(s, source)
      PROVE  ForgottenHasExited'
  <2>1. /\ pc[s] # "unborn" /\ UNCHANGED registry
        /\ \A t \in Sessions \ {s} : pc'[t] = pc[t]
    BY <1>6 DEF UserMessage, InterruptIdle, Continue, MailboxMessage, ChildExited,
                ToolResult, WaitTimeout, CallTool, ToolDone, ChannelClosed,
                RegisterWait, CallWaitChild, CallRecvMessage, HasCommand,
                ResumeFromWait, Suspend
  <2>2. QED
    BY <1>4, <2>1
<1>7. ASSUME NEW s \in Sessions, InterruptTurn(s) \/ EndTurn(s)
      PROVE  ForgottenHasExited'
  <2>1. PICK status, channel, deferred : FinishTurn(s, status, channel, deferred)
    BY <1>7 DEF InterruptTurn, EndTurn
  <2>2. PICK place \in {"stopped", "ready"} : pc' = [pc EXCEPT ![s] = place]
    BY <2>1, FinishTurnShape
  <2>3. pc[s] # "unborn" /\ UNCHANGED registry
    BY <1>7, <2>1, FinishTurnShape DEF InterruptTurn, EndTurn, Busy
  <2>4. QED
    BY <1>4, <2>2, <2>3
<1>8. ASSUME NEW s \in Sessions,
             DeferCommand(s) \/ ControlMessage(s) \/ AnsweredCall(s) \/ Announce(s)
      PROVE  ForgottenHasExited'
  BY <1>5, <1>8 DEF DeferCommand, ControlMessage, AnsweredCall, Announce
<1>9. ASSUME NEW s \in Sessions, NEW command, Route(s, command)
      PROVE  ForgottenHasExited'
  BY <1>5, <1>9 DEF Route
<1>10. QED
  BY <1>2, <1>3, <1>5, <1>6, <1>7, <1>8, <1>9
     DEF Next, ActorStep, CoreStep, InputStep, RouteUserMessage, RouteToolResult,
         RouteContinue, RouteInterrupt, RouteMessage

\* The common invariant holds in every reachable state.
LEMMA ActorInvCorrect == Spec => []ActorInv
<1>1. Init => ActorInv
  BY TreeAssumption, ActorsAssumption
     DEF Init, ActorInv, TreeInit, TreeTypeOK, ActorTypes, CheckedIsSession,
         UnbornIsUnknown, BusyIsAwake, ForgottenHasExited, InterruptedIsAtRest,
         Fresh, Suspended, Places, Waits
<1>2. ActorInv /\ [Next]_vars => ActorInv'
  <2> SUFFICES ASSUME ActorInv, [Next]_vars PROVE ActorInv'
    OBVIOUS
  <2>1. TreeTypeOK'
    BY TreeStep, TreeTypeStep DEF ActorInv
  <2>2. QED
    BY <2>1, ActorTypesStep, TurnStep, UnbornStep, ForgottenStep
       DEF ActorInv, TurnIsSound
<1>3. QED
  BY <1>1, <1>2, PTL DEF Spec

--------------------------------------------------------------------------------
\* The detailed specification implements the tree's: every step of the actors
\* and of the core loop is one of the tree's methods, called as TreeNext calls
\* them (a spawned child is fresh), or leaves the tree alone.
THEOREM ActorsImplementTree == Spec => ImplementsTree
<1>1. Init => TreeInit
  BY DEF Init
<1>2. ActorInv /\ [Next]_vars => [TreeNext]_tree_vars
  BY TreeStep
<1>3. QED
  BY <1>1, <1>2, ActorInvCorrect, PTL DEF Spec, ImplementsTree, TreeSpec

\* An interrupted session has no turn in flight and waits for nothing, until a
\* user message or Continue clears the flag.
THEOREM InterruptedIsAtRestCorrect == Spec => []InterruptedIsAtRest
<1>1. ActorInv => InterruptedIsAtRest
  BY DEF ActorInv
<1>2. QED
  BY <1>1, ActorInvCorrect, PTL

--------------------------------------------------------------------------------
\* Setting a session's wait together with its edge, or answering both, keeps
\* the graph true; so does what leaves the session's wait and edge alone.
LEMMA OneWaitStep ==
  ASSUME GraphIsTrue, NEW s \in Sessions,
         UNCHANGED exit_statuses,
         \A t \in Sessions \ {s} : /\ suspended_wait'[t] = suspended_wait[t]
                                   /\ active_waits'[t] = active_waits[t],
         \/ suspended_wait'[s].on = active_waits'[s]
         \/ suspended_wait'[s].on \notin Sessions /\ active_waits'[s] = NoSession
         \/ suspended_wait'[s] = suspended_wait[s] /\ active_waits'[s] = active_waits[s]
  PROVE  GraphIsTrue'
  BY TreeAssumption
     DEF GraphIsTrue, SuspendedHasEdge, EdgeIsSuspended, Exited

\* Waits and edges come and go together.
LEMMA GraphStep ==
  ASSUME ActorInv, GraphIsTrue, [Next]_vars
  PROVE  GraphIsTrue'
<1> USE DEF ActorInv, TreeTypeOK, ActorTypes
<1>1. ASSUME NEW s \in Sessions,
             \/ UserMessage(s) \/ InterruptIdle(s) \/ MailboxMessage(s)
             \/ ChildExited(s) \/ ToolResult(s) \/ WaitTimeout(s) \/ InterruptTurn(s)
      PROVE  GraphIsTrue'
  <2>1. AppendSuspendedWaitResult(s) \/ UNCHANGED <<tree_vars, suspended_wait>>
    BY <1>1 DEF UserMessage, InterruptIdle, MailboxMessage, ChildExited, ToolResult,
                WaitTimeout, InterruptTurn, ResumeFromWait
  <2>2. CASE AppendSuspendedWaitResult(s)
    <3>1. /\ UNCHANGED exit_statuses
          /\ \A t \in Sessions \ {s} : /\ suspended_wait'[t] = suspended_wait[t]
                                       /\ active_waits'[t] = active_waits[t]
      BY <2>2 DEF AppendSuspendedWaitResult, ClearActiveWait
    <3>2. suspended_wait'[s].on = NoSession /\ active_waits'[s] = NoSession
      BY <2>2 DEF AppendSuspendedWaitResult, ClearActiveWait, NoWait
    <3>3. QED
      BY <3>1, <3>2, OneWaitStep
  <2>3. CASE UNCHANGED <<tree_vars, suspended_wait>>
    BY <2>3 DEF GraphIsTrue, SuspendedHasEdge, EdgeIsSuspended, Exited
  <2>4. QED
    BY <2>1, <2>2, <2>3
<1>2. ASSUME NEW s \in Sessions, RegisterWait(s) PROVE GraphIsTrue'
  <2>1. CASE UNCHANGED <<tree_vars, suspended_wait>>
    BY <2>1 DEF GraphIsTrue, SuspendedHasEdge, EdgeIsSuspended, Exited
  <2>2. ASSUME RegisterActiveWait(s, checking[s]), NEW timed \in Deadlines,
               Suspend(s, [kind |-> "ChildExit", on |-> checking[s], timed |-> timed])
        PROVE  GraphIsTrue'
    <3>1. /\ UNCHANGED exit_statuses
          /\ \A t \in Sessions \ {s} : /\ suspended_wait'[t] = suspended_wait[t]
                                       /\ active_waits'[t] = active_waits[t]
      BY <2>2 DEF RegisterActiveWait, Suspend
    <3>2. suspended_wait'[s].on = active_waits'[s]
      BY <2>2 DEF RegisterActiveWait, Suspend
    <3>3. QED
      BY <3>1, <3>2, OneWaitStep
  <2>3. QED
    BY <1>2, <2>1, <2>2 DEF RegisterWait
<1>3. ASSUME NEW s \in Sessions, NEW source \in (Sessions \ {s}) \cup {AnySource},
             CallRecvMessage(s, source)
      PROVE  GraphIsTrue'
  <2>1. CASE UNCHANGED <<tree_vars, suspended_wait>>
    BY <2>1 DEF GraphIsTrue, SuspendedHasEdge, EdgeIsSuspended, Exited
  <2>2. ASSUME RegisterActiveWait(s, source), NEW timed \in Deadlines,
               Suspend(s, [kind |-> "Mailbox", on |-> source, timed |-> timed])
        PROVE  GraphIsTrue'
    <3>1. /\ UNCHANGED exit_statuses
          /\ \A t \in Sessions \ {s} : /\ suspended_wait'[t] = suspended_wait[t]
                                       /\ active_waits'[t] = active_waits[t]
      BY <2>2 DEF RegisterActiveWait, Suspend
    <3>2. suspended_wait'[s].on = active_waits'[s]
      BY <2>2 DEF RegisterActiveWait, Suspend
    <3>3. QED
      BY <3>1, <3>2, OneWaitStep
  <2>3. ASSUME source = AnySource, UNCHANGED tree_vars, NEW timed \in Deadlines,
               Suspend(s, [kind |-> "Mailbox", on |-> source, timed |-> timed])
        PROVE  GraphIsTrue'
    <3>1. \A t \in Sessions \ {s} : suspended_wait'[t] = suspended_wait[t]
      BY <2>3 DEF Suspend
    <3>2. suspended_wait'[s].on \notin Sessions
      BY <2>3, ActorsAssumption DEF Suspend
    <3>3. suspended_wait[s].on = NoSession
      BY <1>3 DEF CallRecvMessage, BusyIsAwake, Suspended, NoWait
    <3>4. QED
      BY <2>3, <3>1, <3>2, <3>3, TreeAssumption
         DEF GraphIsTrue, SuspendedHasEdge, EdgeIsSuspended, Exited
  <2>4. QED
    BY <1>3, <2>1, <2>2, <2>3 DEF CallRecvMessage
<1>4. ASSUME NEW parent \in Sessions, NEW child \in Sessions,
             SpawnSession(parent, child)
      PROVE  GraphIsTrue'
  BY <1>4 DEF SpawnSession, AddChild, GraphIsTrue, SuspendedHasEdge,
              EdgeIsSuspended, Exited
<1>5. CASE ChildFinished
  <2>1. PICK event \in Exits : RecordExit(event.session, event.status)
    BY <1>5 DEF ChildFinished
  <2>2. UNCHANGED suspended_wait
    BY <1>5 DEF ChildFinished
  <2>3. \A t \in Sessions :
          /\ active_waits'[t] = IF t = event.session \/ active_waits[t] = event.session
                                THEN NoSession ELSE active_waits[t]
          /\ Exited(t) => Exited(t)'
          /\ t # event.session => Exited(t)' = Exited(t)
          /\ t = event.session => Exited(t)'
    <3>1. \A t \in Sessions : Exited(t) => Exited(t)'
      BY ExitsStay
    <3>2. QED
      BY <2>1, <3>1, TreeAssumption DEF RecordExit, Exits, Exited
  <2>4. QED
    BY <2>2, <2>3, TreeAssumption DEF GraphIsTrue, SuspendedHasEdge, EdgeIsSuspended
<1>6. ASSUME UNCHANGED <<tree_vars, suspended_wait>> PROVE GraphIsTrue'
  BY <1>6 DEF GraphIsTrue, SuspendedHasEdge, EdgeIsSuspended, Exited
<1>7. ASSUME NEW s \in Sessions,
             \/ Continue(s) \/ DeferCommand(s) \/ ControlMessage(s) \/ EndTurn(s)
             \/ CallTool(s) \/ ToolDone(s) \/ AnsweredCall(s) \/ ChannelClosed(s)
             \/ Announce(s) \/ \E child \in Sessions : CallWaitChild(s, child)
      PROVE  GraphIsTrue'
  BY <1>6, <1>7 DEF Continue, DeferCommand, ControlMessage, EndTurn, CallTool,
                    ToolDone, AnsweredCall, ChannelClosed, Announce, CallWaitChild
<1>8. ASSUME NEW s \in Sessions, NEW command, Route(s, command)
      PROVE  GraphIsTrue'
  BY <1>6, <1>8 DEF Route
<1>9. QED
  BY <1>1, <1>2, <1>3, <1>4, <1>5, <1>6, <1>7, <1>8
     DEF Next, ActorStep, CoreStep, InputStep, RouteUserMessage, RouteToolResult,
         RouteContinue, RouteInterrupt, RouteMessage

\* The wait-for graph the cycle test reads is true of the actors: a running
\* session has an edge exactly when it is suspended on a named session, except
\* that an exit takes the edges to it away before the waiter is told.
THEOREM GraphIsTrueCorrect == Spec => []GraphIsTrue
<1>1. Init => GraphIsTrue
  BY TreeAssumption DEF Init, TreeInit, GraphIsTrue, SuspendedHasEdge,
                        EdgeIsSuspended, NoWait
<1>2. ActorInv /\ GraphIsTrue /\ [Next]_vars => GraphIsTrue'
  BY GraphStep
<1>3. QED
  BY <1>1, <1>2, ActorInvCorrect, PTL DEF Spec

\* No ring of running sessions each suspended on the next: such a ring would be
\* a ring of the wait-for graph, which the tree refuses.
THEOREM NoWaitDeadlockCorrect == Spec => []NoWaitDeadlock
<1>1. WaitsAcyclic /\ GraphIsTrue => NoWaitDeadlock
  BY DEF WaitsAcyclic, GraphIsTrue, SuspendedHasEdge, NoWaitDeadlock, Exited
<1>2. TreeSpec => []WaitsAcyclic
  BY WaitsAcyclicCorrect
<1>3. Spec => TreeSpec
  BY ActorsImplementTree DEF ImplementsTree
<1>4. QED
  BY <1>1, <1>2, <1>3, GraphIsTrueCorrect, PTL

--------------------------------------------------------------------------------
\* The session's exit is queued for the core loop.
Reported(s) == \E i \in DOMAIN runtime_events : runtime_events[i].session = s

\* An actor stops after reporting, or after the core loop has recorded its exit;
\* a report leaves the queue only by being recorded.
LEMMA VanishStep ==
  ASSUME ActorInv, ChildNeverVanishes, [Next]_vars
  PROVE  ChildNeverVanishes'
<1> USE DEF ActorInv, ActorTypes, Reported
<1>1. \A s \in Sessions : Exited(s) => Exited(s)'
  BY ExitsStay
<1>2. ASSUME UNCHANGED runtime_events,
             \A s \in Sessions : pc'[s] = "stopped" => pc[s] = "stopped" \/ Exited(s)
      PROVE  ChildNeverVanishes'
  BY <1>1, <1>2 DEF ChildNeverVanishes
<1>3. ASSUME NEW s \in Sessions, InterruptTurn(s) \/ EndTurn(s)
      PROVE  ChildNeverVanishes'
  <2>1. PICK status \in ExitStatuses :
          \E channel, deferred : FinishTurn(s, status, channel, deferred)
    BY <1>3, ActorsAssumption DEF InterruptTurn, EndTurn
  <2>2. PICK place \in {"stopped", "ready"} :
          /\ pc' = [pc EXCEPT ![s] = place]
          /\ place = "stopped" => parents[s] # NoSession
    BY <2>1, FinishTurnShape
  <2>3. CASE parents[s] # NoSession
    <3> DEFINE event == [session |-> s, status |-> status]
    <3>1. runtime_events' = Append(runtime_events, event) /\ event \in Exits
      BY <2>1, <2>3, FinishTurnShape DEF Exits
    <3>2. event.session = s
      OBVIOUS
    <3>3. Reported(s)' /\ \A t \in Sessions : Reported(t) => Reported(t)'
      BY <3>1, <3>2, AppendKeeps
    <3>4. QED
      BY <1>1, <2>2, <3>3 DEF ChildNeverVanishes
  <2>4. CASE parents[s] = NoSession
    <3>1. UNCHANGED runtime_events /\ place = "ready"
      BY <2>1, <2>2, <2>4, FinishTurnShape
    <3>2. QED
      BY <1>2, <2>2, <3>1
  <2>5. QED
    BY <2>3, <2>4
<1>4. CASE ChildFinished
  <2>1. PICK event \in Exits :
          /\ event = Head(runtime_events)
          /\ RecordExit(event.session, event.status)
    BY <1>4 DEF ChildFinished
  <2>2. /\ runtime_events # <<>>
        /\ runtime_events' = Tail(runtime_events)
        /\ UNCHANGED pc
    BY <1>4 DEF ChildFinished
  <2>3. Exited(event.session)'
    BY <2>1, TreeAssumption DEF RecordExit, Exits, Exited, TreeTypeOK
  <2>4. ASSUME NEW t \in Sessions, t # event.session, Reported(t)
        PROVE  Reported(t)'
    <3>1. PICK i \in DOMAIN runtime_events : runtime_events[i].session = t
      BY <2>4
    <3>2. runtime_events[i] # Head(runtime_events)
      BY <2>1, <2>4, <3>1
    <3>3. PICK j \in DOMAIN runtime_events' : runtime_events'[j] = runtime_events[i]
      BY <2>2, <3>2, TailKeeps
    <3>4. QED
      BY <3>1, <3>3
  <2>5. QED
    BY <1>1, <2>2, <2>3, <2>4 DEF ChildNeverVanishes
<1>5. ASSUME NEW s \in Sessions, ChannelClosed(s) PROVE ChildNeverVanishes'
  BY <1>2, <1>5 DEF ChannelClosed, ForgottenHasExited
<1>6. ASSUME NEW parent \in Sessions, NEW child \in Sessions,
             SpawnSession(parent, child)
      PROVE  ChildNeverVanishes'
  BY <1>2, <1>6 DEF SpawnSession
<1>7. ASSUME NEW s \in Sessions,
             \/ UserMessage(s) \/ InterruptIdle(s) \/ Continue(s) \/ MailboxMessage(s)
             \/ ChildExited(s) \/ ToolResult(s) \/ WaitTimeout(s) \/ DeferCommand(s)
             \/ ControlMessage(s) \/ CallTool(s) \/ ToolDone(s) \/ AnsweredCall(s)
             \/ RegisterWait(s) \/ \E child \in Sessions : CallWaitChild(s, child)
             \/ \E source \in (Sessions \ {s}) \cup {AnySource} :
                  CallRecvMessage(s, source)
             \/ Announce(s)
      PROVE  ChildNeverVanishes'
  <2>1. /\ UNCHANGED runtime_events
        /\ \A t \in Sessions : pc'[t] = "stopped" => pc[t] = "stopped"
    <3>1. CASE \/ UserMessage(s) \/ InterruptIdle(s) \/ Continue(s)
               \/ DeferCommand(s) \/ ControlMessage(s) \/ CallTool(s) \/ ToolDone(s)
               \/ AnsweredCall(s) \/ Announce(s)
      BY <3>1 DEF UserMessage, InterruptIdle, Continue, DeferCommand, ControlMessage,
                  CallTool, ToolDone, AnsweredCall, Announce
    <3>2. CASE \/ MailboxMessage(s) \/ ChildExited(s) \/ ToolResult(s)
               \/ WaitTimeout(s)
      <4>1. /\ UNCHANGED runtime_events
            /\ UNCHANGED turn_vars \/ ResumeFromWait(s)
        BY <3>2 DEF MailboxMessage, ChildExited, ToolResult, WaitTimeout
      <4>2. QED
        BY <4>1 DEF ResumeFromWait
    <3>3. ASSUME NEW child \in Sessions, CallWaitChild(s, child)
          PROVE  /\ UNCHANGED runtime_events
                 /\ \A t \in Sessions : pc'[t] = "stopped" => pc[t] = "stopped"
      BY <3>3 DEF CallWaitChild
    <3>4. CASE RegisterWait(s)
      BY <3>4 DEF RegisterWait, Suspend
    <3>5. ASSUME NEW source, CallRecvMessage(s, source)
          PROVE  /\ UNCHANGED runtime_events
                 /\ \A t \in Sessions : pc'[t] = "stopped" => pc[t] = "stopped"
      BY <3>5 DEF CallRecvMessage, Suspend
    <3>6. QED
      BY <1>7, <3>1, <3>2, <3>3, <3>4, <3>5
  <2>2. QED
    BY <1>2, <2>1
<1>8. ASSUME NEW s \in Sessions, NEW command, Route(s, command)
      PROVE  ChildNeverVanishes'
  BY <1>2, <1>8 DEF Route
<1>9. CASE UNCHANGED vars
  BY <1>2, <1>9
<1>10. QED
  BY <1>3, <1>4, <1>5, <1>6, <1>7, <1>8, <1>9
     DEF Next, ActorStep, CoreStep, InputStep, RouteUserMessage, RouteToolResult,
         RouteContinue, RouteInterrupt, RouteMessage

\* An actor that is gone left its exit on record or in the queue.
THEOREM ChildNeverVanishesCorrect == Spec => []ChildNeverVanishes
<1>1. Init => ChildNeverVanishes
  BY DEF Init, ChildNeverVanishes
<1>2. ActorInv /\ ChildNeverVanishes /\ [Next]_vars => ChildNeverVanishes'
  BY VanishStep
<1>3. QED
  BY <1>1, <1>2, ActorInvCorrect, PTL DEF Spec

--------------------------------------------------------------------------------
(***************************************************************************)
(* Wake-ups.  The invariant follows a child's exit from the tree, through  *)
(* the broadcast and the waiter's channel, to the waiter.                  *)
(***************************************************************************)

ChannelTypes ==
  /\ command_rx \in [Sessions -> Seq(Commands)]
  /\ announcing \in [child : Sessions \cup {NoSession}, to : SUBSET Sessions]

\* What is being announced has been recorded.
BroadcastIsTrue ==
  announcing.to # {} => announcing.child \in Sessions /\ Exited(announcing.child)

\* A session waits for the child, or is about to: it stands between the two
\* halves of wait_child, where the exit may slip in.
Awaits(s, child) ==
  WaitsForChild(s, child) \/ (pc[s] = "checked" /\ checking[s] = child)

Told(s, child) ==
  \/ \E i \in DOMAIN command_rx[s] : command_rx[s][i] = Command("ChildExited", child)
  \/ announcing.child = child /\ s \in announcing.to

AwaitedIsTold ==
  \A s \in registry : \A child \in Sessions :
    pc[s] # "stopped" /\ Awaits(s, child) /\ Exited(child) => Told(s, child)

WakeInv == ChannelTypes /\ BroadcastIsTrue /\ ToldAfterRecorded /\ AwaitedIsTold

\* An actor takes the head of its channel, drops the channel, or leaves it.
ChannelShrinks(s) ==
  \/ UNCHANGED command_rx
  \/ /\ command_rx[s] # <<>>
     /\ command_rx' = [command_rx EXCEPT ![s] = Tail(command_rx[s])]
  \/ command_rx' = [command_rx EXCEPT ![s] = <<>>]

\* Only the core loop adds to a channel.
LEMMA ActorChannel ==
  ASSUME ChannelTypes, NEW s \in Sessions, ActorStep(s)
  PROVE  ChannelShrinks(s)
<1> USE DEF ChannelTypes, ChannelShrinks
<1>1. command_rx = [command_rx EXCEPT ![s] = command_rx[s]]
  OBVIOUS
<1>2. ASSUME HasCommand(s),
             command_rx' = [command_rx EXCEPT ![s] = ChannelRest(s)]
      PROVE  ChannelShrinks(s)
  <2>1. CASE deferred_commands[s] # <<>>
    BY <1>1, <1>2, <2>1 DEF ChannelRest
  <2>2. CASE deferred_commands[s] = <<>>
    BY <1>2, <2>2 DEF ChannelRest, HasCommand
  <2>3. QED
    BY <2>1, <2>2
<1>3. CASE \/ UserMessage(s) \/ InterruptIdle(s) \/ Continue(s) \/ MailboxMessage(s)
           \/ ChildExited(s) \/ ToolResult(s)
  <2>1. HasCommand(s) /\ command_rx' = [command_rx EXCEPT ![s] = ChannelRest(s)]
    BY <1>3 DEF UserMessage, InterruptIdle, Continue, MailboxMessage, ChildExited,
                ToolResult, TakeCommand
  <2>2. QED
    BY <1>2, <2>1
<1>4. CASE \/ WaitTimeout(s) \/ CallTool(s) \/ ToolDone(s) \/ AnsweredCall(s)
           \/ RegisterWait(s) \/ ChannelClosed(s)
           \/ \E child \in Sessions : CallWaitChild(s, child)
           \/ \E source \in (Sessions \ {s}) \cup {AnySource} :
                CallRecvMessage(s, source)
  BY <1>4 DEF WaitTimeout, CallTool, ToolDone, AnsweredCall, RegisterWait,
              ChannelClosed, CallWaitChild, CallRecvMessage
<1>5. CASE DeferCommand(s) \/ ControlMessage(s)
  BY <1>5 DEF DeferCommand, ControlMessage
<1>6. CASE InterruptTurn(s)
  <2>1. command_rx[s] # <<>>
    BY <1>6 DEF InterruptTurn
  <2> DEFINE Stops == parents[s] # NoSession /\ ~ resumed[s]
             Rest == IF Stops THEN <<>> ELSE Tail(command_rx[s])
  <2>2. command_rx' = [command_rx EXCEPT ![s] = Rest]
    BY <1>6, Zenon DEF InterruptTurn, FinishTurn
  <2>3. CASE Stops
    BY <2>2, <2>3
  <2>4. CASE ~ Stops
    BY <2>1, <2>2, <2>4
  <2>5. QED
    BY <2>3, <2>4
<1>7. CASE EndTurn(s)
  <2>1. \E rest \in {<<>>, command_rx[s]} :
          command_rx' = [command_rx EXCEPT ![s] = rest]
    BY <1>7, FinishTurnShape DEF EndTurn
  <2>2. QED
    BY <1>1, <2>1
<1>8. QED
  BY <1>3, <1>4, <1>5, <1>6, <1>7 DEF ActorStep

\* An actor's step leaves the other sessions, the registry, the broadcast and
\* the exits as they were.
LEMMA ActorIsLocal ==
  ASSUME ActorInv, NEW s \in Sessions, ActorStep(s)
  PROVE  /\ \A t \in Sessions \ {s} : /\ pc'[t] = pc[t]
                                      /\ suspended_wait'[t] = suspended_wait[t]
                                      /\ checking'[t] = checking[t]
         /\ UNCHANGED <<registry, announcing, exit_statuses>>
<1> DEFINE Others == \A t \in Sessions \ {s} : /\ pc'[t] = pc[t]
                                               /\ suspended_wait'[t] = suspended_wait[t]
                                               /\ checking'[t] = checking[t]
           Core == UNCHANGED <<registry, announcing, exit_statuses>>
<1> USE DEF ActorInv, ActorTypes
<1>1. CASE \/ UserMessage(s) \/ InterruptIdle(s) \/ Continue(s) \/ DeferCommand(s)
           \/ ControlMessage(s) \/ CallTool(s) \/ ToolDone(s) \/ AnsweredCall(s)
           \/ ChannelClosed(s)
  BY <1>1 DEF UserMessage, InterruptIdle, Continue, DeferCommand, ControlMessage,
              CallTool, ToolDone, AnsweredCall, ChannelClosed,
              AppendSuspendedWaitResult, ClearActiveWait
<1>2. CASE MailboxMessage(s) \/ ChildExited(s) \/ ToolResult(s) \/ WaitTimeout(s)
  <2>1. /\ UNCHANGED <<registry, announcing>>
        /\ UNCHANGED <<tree_vars, turn_vars>> \/ ResumeFromWait(s)
    BY <1>2 DEF MailboxMessage, ChildExited, ToolResult, WaitTimeout
  <2>2. QED
    BY <2>1 DEF ResumeFromWait, AppendSuspendedWaitResult, ClearActiveWait
<1>3. CASE InterruptTurn(s) \/ EndTurn(s)
  <2>1. PICK status, channel, deferred : FinishTurn(s, status, channel, deferred)
    BY <1>3 DEF InterruptTurn, EndTurn
  <2>2. PICK place \in {"stopped", "ready"} : pc' = [pc EXCEPT ![s] = place]
    BY <2>1, FinishTurnShape
  <2>3. UNCHANGED <<registry, announcing, checking>>
    BY <2>1, FinishTurnShape
  <2>4. /\ UNCHANGED exit_statuses
        /\ \A t \in Sessions \ {s} : suspended_wait'[t] = suspended_wait[t]
    BY <1>3 DEF InterruptTurn, EndTurn, AppendSuspendedWaitResult, ClearActiveWait
  <2>5. QED
    BY <2>2, <2>3, <2>4
<1>4. ASSUME NEW child \in Sessions, CallWaitChild(s, child) PROVE Others /\ Core
  BY <1>4 DEF CallWaitChild
<1>5. CASE RegisterWait(s)
  BY <1>5 DEF RegisterWait, RegisterActiveWait, Suspend
<1>6. ASSUME NEW source, CallRecvMessage(s, source) PROVE Others /\ Core
  BY <1>6 DEF CallRecvMessage, RegisterActiveWait, Suspend
<1>7. QED
  BY <1>1, <1>2, <1>3, <1>4, <1>5, <1>6 DEF ActorStep

\* One send of the core loop: the command is appended, or its receiver is gone.
LEMMA DeliverAppends ==
  ASSUME ChannelTypes, NEW s \in Sessions, NEW command \in Commands,
         Deliver(s, command)
  PROVE  /\ command_rx' \in [Sessions -> Seq(Commands)]
         /\ \A t \in Sessions : \A i \in DOMAIN command_rx[t] :
              i \in DOMAIN command_rx'[t] /\ command_rx'[t][i] = command_rx[t][i]
         /\ \A t \in Sessions : \A i \in DOMAIN command_rx'[t] :
              \/ command_rx'[t][i] = command
              \/ i \in DOMAIN command_rx[t] /\ command_rx'[t][i] = command_rx[t][i]
         /\ pc[s] # "stopped" =>
              \E i \in DOMAIN command_rx'[s] : command_rx'[s][i] = command
<1> USE DEF ChannelTypes
<1>1. CASE UNCHANGED command_rx /\ pc[s] = "stopped"
  BY <1>1
<1>2. CASE command_rx' = [command_rx EXCEPT ![s] = Append(command_rx[s], command)]
  <2>1. command_rx'[s] = Append(command_rx[s], command)
        /\ command_rx[s] \in Seq(Commands)
    BY <1>2
  <2>2. \A t \in Sessions \ {s} : command_rx'[t] = command_rx[t]
    BY <1>2
  <2>3. command_rx' \in [Sessions -> Seq(Commands)]
    BY <1>2, <2>1, AppendKeeps
  <2> DEFINE q == command_rx[s]
             r == command_rx'[s]
  <2>4. /\ \A i \in DOMAIN q : i \in DOMAIN r /\ r[i] = q[i]
        /\ \A i \in DOMAIN r : r[i] = command \/ (i \in DOMAIN q /\ r[i] = q[i])
        /\ \E i \in DOMAIN r : r[i] = command
    BY <2>1, AppendKeeps
  <2> HIDE DEF q, r
  <2>5. ASSUME NEW t \in Sessions
        PROVE  /\ \A i \in DOMAIN command_rx[t] :
                    i \in DOMAIN command_rx'[t] /\ command_rx'[t][i] = command_rx[t][i]
               /\ \A i \in DOMAIN command_rx'[t] :
                    \/ command_rx'[t][i] = command
                    \/ i \in DOMAIN command_rx[t] /\ command_rx'[t][i] = command_rx[t][i]
    <3>1. CASE t = s
      BY <2>4, <3>1, Zenon DEF q, r
    <3>2. CASE t # s
      BY <2>2, <3>2
    <3>3. QED
      BY <3>1, <3>2
  <2>6. \E i \in DOMAIN command_rx'[s] : command_rx'[s][i] = command
    BY <2>4 DEF q, r
  <2>7. QED
    BY <2>3, <2>5, <2>6
<1>3. QED
  BY <1>1, <1>2 DEF Deliver

\* Every step keeps the types of the channels and of the broadcast.
LEMMA ChannelTypesStep ==
  ASSUME ActorInv, WakeInv, [Next]_vars
  PROVE  ChannelTypes'
<1> USE DEF WakeInv, ActorInv
<1>1. ASSUME NEW s \in Sessions, ActorStep(s) PROVE ChannelTypes'
  <2>1. UNCHANGED announcing
    BY <1>1, ActorIsLocal
  <2>2. ChannelShrinks(s)
    BY <1>1, ActorChannel
  <2>3. command_rx[s] # <<>> => Tail(command_rx[s]) \in Seq(Commands)
    BY TailKeeps DEF ChannelTypes
  <2>4. <<>> \in Seq(Commands)
    OBVIOUS
  <2>5. command_rx' \in [Sessions -> Seq(Commands)]
    BY <2>2, <2>3, <2>4 DEF ChannelShrinks, ChannelTypes
  <2>6. QED
    BY <2>1, <2>5 DEF ChannelTypes
<1>2. ASSUME NEW parent \in Sessions, NEW child \in Sessions,
             SpawnSession(parent, child)
      PROVE  ChannelTypes'
  <2>1. PICK task \in {<<>>, <<Command("UserMessage", NoSession)>>} :
          command_rx' = [command_rx EXCEPT ![child] = task]
    BY <1>2 DEF SpawnSession
  <2>2. Command("UserMessage", NoSession) \in Commands
    BY DEF Commands
  <2>3. \A command \in Commands : <<command>> \in Seq(Commands)
    OBVIOUS
  <2>4. <<>> \in Seq(Commands)
    OBVIOUS
  <2>5. task \in Seq(Commands)
    BY <2>1, <2>2, <2>3, <2>4
  <2>6. QED
    BY <1>2, <2>1, <2>5 DEF SpawnSession, ChannelTypes
<1>3. ASSUME NEW s \in Sessions, NEW command \in Commands, Route(s, command)
      PROVE  ChannelTypes'
  BY <1>3, DeliverAppends DEF Route, ChannelTypes
<1>4. \A kind \in {"UserMessage", "Continue", "ToolResult"} \cup Interrupts :
        Command(kind, NoSession) \in Commands
  BY DEF Commands
<1>5. \A s \in Sessions : /\ Command("MailboxMessage", s) \in Commands
                          /\ Command("ChildExited", s) \in Commands
  BY DEF Commands
<1>6. CASE ChildFinished
  <2>1. PICK event \in Exits :
          /\ event = Head(runtime_events)
          /\ RecordExit(event.session, event.status)
    BY <1>6 DEF ChildFinished, ActorTypes
  <2>2. announcing' = IF registry \ {event.session} = {} THEN Quiet
                      ELSE [child |-> event.session, to |-> registry \ {event.session}]
    BY <1>6, <2>1 DEF ChildFinished
  <2>3. QED
    BY <1>6, <2>1, <2>2 DEF ChildFinished, ChannelTypes, Quiet, Exits, ActorTypes
<1>7. ASSUME NEW s \in Sessions, Announce(s) PROVE ChannelTypes'
  <2>1. Command("ChildExited", announcing.child) \in Commands
    BY <1>5, <1>7 DEF Announce, BroadcastIsTrue
  <2>2. command_rx' \in [Sessions -> Seq(Commands)]
    BY <1>7, <2>1, DeliverAppends DEF Announce
  <2>3. announcing' \in [child : Sessions \cup {NoSession}, to : SUBSET Sessions]
    BY <1>7 DEF Announce, Quiet, ChannelTypes
  <2>4. QED
    BY <2>2, <2>3 DEF ChannelTypes
<1>8. CASE UNCHANGED vars
  BY <1>8 DEF ChannelTypes
<1>9. QED
  BY <1>1, <1>2, <1>3, <1>4, <1>5, <1>6, <1>7, <1>8
     DEF Next, CoreStep, InputStep, RouteUserMessage, RouteToolResult,
         RouteContinue, RouteInterrupt, RouteMessage

\* A step that leaves the exits, the registry and the broadcast alone, and
\* every session's channel as it was but for one appended command.
LEMMA ChannelOnlyGrows ==
  ASSUME ActorInv, WakeInv, NEW kind, NEW about, NEW s \in Sessions,
         kind # "ChildExited", Command(kind, about) \in Commands,
         Deliver(s, Command(kind, about)),
         UNCHANGED <<exit_statuses, registry, announcing, pc, suspended_wait, checking>>
  PROVE  BroadcastIsTrue' /\ ToldAfterRecorded' /\ AwaitedIsTold'
<1> DEFINE command == Command(kind, about)
<1>1. command \in Commands /\ command.kind # "ChildExited"
  BY DEF Command
<1> HIDE DEF command
<1>2. /\ \A t \in Sessions : \A i \in DOMAIN command_rx[t] :
           i \in DOMAIN command_rx'[t] /\ command_rx'[t][i] = command_rx[t][i]
      /\ \A t \in Sessions : \A i \in DOMAIN command_rx'[t] :
           \/ command_rx'[t][i] = command
           \/ i \in DOMAIN command_rx[t] /\ command_rx'[t][i] = command_rx[t][i]
  BY <1>1, DeliverAppends DEF WakeInv, command
<1>3. BroadcastIsTrue'
  BY DEF WakeInv, BroadcastIsTrue, Exited
<1>4. ToldAfterRecorded'
  BY <1>1, <1>2 DEF WakeInv, ToldAfterRecorded, Exited
<1>5. AwaitedIsTold'
  BY <1>2 DEF WakeInv, ActorInv, ActorTypes, AwaitedIsTold, Awaits, WaitsForChild,
              Told, Exited
<1>6. QED
  BY <1>3, <1>4, <1>5

\* An actor's step does not lose what its session has been told of a child it
\* still awaits afterwards.
LEMMA ActorKeepsNews ==
  ASSUME ActorInv, WakeInv, NEW s \in Sessions, ActorStep(s),
         NEW child \in Sessions, Exited(child),
         pc'[s] # "stopped", Awaits(s, child)'
  PROVE  /\ pc[s] # "stopped" /\ Awaits(s, child)
         /\ \/ command_rx'[s] = command_rx[s]
            \/ /\ command_rx[s] # <<>>
               /\ command_rx'[s] = Tail(command_rx[s])
               /\ Head(command_rx[s]) # Command("ChildExited", child)
<1> DEFINE Kept == /\ pc[s] # "stopped" /\ Awaits(s, child)
                   /\ \/ command_rx'[s] = command_rx[s]
                      \/ /\ command_rx[s] # <<>>
                         /\ command_rx'[s] = Tail(command_rx[s])
                         /\ Head(command_rx[s]) # Command("ChildExited", child)
<1>a. ActorTypes /\ BusyIsAwake /\ ChannelTypes
  BY DEF ActorInv, WakeInv
<1> USE <1>a DEF ActorTypes, BusyIsAwake, ChannelTypes
<1>1. suspended_wait'[s] = NoWait => pc'[s] = "checked"
  BY DEF Awaits, WaitsForChild, NoWait
<1>2. CASE UserMessage(s) \/ InterruptIdle(s)
  BY <1>1, <1>2 DEF UserMessage, InterruptIdle, AppendSuspendedWaitResult, Suspended,
                    HasCommand
<1>3. ASSUME ResumeFromWait(s) PROVE FALSE
  BY <1>1, <1>3 DEF ResumeFromWait, AppendSuspendedWaitResult
<1>4. ASSUME HasCommand(s), TakeCommand(s),
             UNCHANGED <<pc, suspended_wait, checking>>,
             NextCommand(s) # Command("ChildExited", child)
      PROVE  Kept
  <2>1. pc[s] = "ready" /\ Awaits(s, child)
    BY <1>4 DEF HasCommand, Awaits, WaitsForChild
  <2>2. CASE deferred_commands[s] # <<>>
    BY <1>4, <2>1, <2>2 DEF TakeCommand, ChannelRest
  <2>3. CASE deferred_commands[s] = <<>>
    BY <1>4, <2>1, <2>3 DEF TakeCommand, ChannelRest, HasCommand, NextCommand
  <2>4. QED
    BY <2>2, <2>3
<1>5. CASE Continue(s) \/ MailboxMessage(s) \/ ToolResult(s)
  <2>1. HasCommand(s) /\ TakeCommand(s) /\ NextCommand(s).kind # "ChildExited"
    BY <1>5 DEF Continue, MailboxMessage, ToolResult
  <2>2. UNCHANGED <<pc, suspended_wait, checking>> \/ ResumeFromWait(s)
    BY <1>5 DEF Continue, MailboxMessage, ToolResult
  <2>3. NextCommand(s) # Command("ChildExited", child)
    BY <2>1 DEF Command
  <2>4. QED
    BY <1>3, <1>4, <2>1, <2>2, <2>3
<1>6. CASE ChildExited(s)
  <2>1. ~ WaitsForChild(s, NextCommand(s).about) /\ UNCHANGED turn_vars
    BY <1>3, <1>6 DEF ChildExited
  <2>2. HasCommand(s) /\ TakeCommand(s)
    BY <1>6 DEF ChildExited
  <2>3. WaitsForChild(s, child)
    BY <2>1, <2>2 DEF Awaits, WaitsForChild, HasCommand
  <2>4. NextCommand(s) # Command("ChildExited", child)
    BY <2>1, <2>3 DEF Command
  <2>5. QED
    BY <1>4, <2>1, <2>2, <2>4
<1>7. CASE WaitTimeout(s)
  BY <1>3, <1>7 DEF WaitTimeout
<1>8. CASE \/ DeferCommand(s) \/ ControlMessage(s) \/ CallTool(s) \/ ToolDone(s)
           \/ AnsweredCall(s)
  <2>1. suspended_wait'[s] = NoWait /\ pc'[s] # "checked"
    BY <1>8 DEF DeferCommand, ControlMessage, CallTool, ToolDone, AnsweredCall,
                Busy, Suspended
  <2>2. QED
    BY <1>1, <2>1
<1>9. CASE InterruptTurn(s) \/ EndTurn(s)
  <2>1. PICK status : \E channel, deferred : FinishTurn(s, status, channel, deferred)
    BY <1>9 DEF InterruptTurn, EndTurn
  <2>2. pc'[s] # "checked"
    BY <2>1, FinishTurnShape
  <2>3. suspended_wait'[s] = NoWait
    BY <1>9 DEF InterruptTurn, EndTurn, AppendSuspendedWaitResult, Suspended
  <2>4. QED
    BY <1>1, <2>2, <2>3
<1>10. ASSUME NEW c \in Sessions, CallWaitChild(s, c) PROVE FALSE
  BY <1>10 DEF CallWaitChild, Awaits, WaitsForChild, Exited, Suspended, NoWait
<1>11. CASE RegisterWait(s)
  BY <1>11 DEF RegisterWait, Suspend, Awaits, WaitsForChild, Suspended, NoWait
<1>12. ASSUME NEW source, CallRecvMessage(s, source) PROVE FALSE
  BY <1>12 DEF CallRecvMessage, Suspend, Awaits, WaitsForChild, Suspended, NoWait
<1>13. CASE ChannelClosed(s)
  BY <1>13 DEF ChannelClosed
<1>14. QED
  BY <1>2, <1>5, <1>6, <1>7, <1>8, <1>9, <1>10, <1>11, <1>12, <1>13 DEF ActorStep

\* The actors' steps keep the news of an awaited exit on its way.
LEMMA ActorWakeStep ==
  ASSUME ActorInv, WakeInv, NEW s \in Sessions, ActorStep(s)
  PROVE  BroadcastIsTrue' /\ ToldAfterRecorded' /\ AwaitedIsTold'
<1>1. /\ \A t \in Sessions \ {s} : /\ pc'[t] = pc[t]
                                   /\ suspended_wait'[t] = suspended_wait[t]
                                   /\ checking'[t] = checking[t]
      /\ UNCHANGED <<registry, announcing, exit_statuses>>
  BY ActorIsLocal
<1>2. ChannelShrinks(s)
  BY ActorChannel DEF WakeInv
<1>3. \A t \in Sessions \ {s} : command_rx'[t] = command_rx[t]
  BY <1>2 DEF ChannelShrinks, WakeInv, ChannelTypes
<1>4. \A t \in Sessions : \A i \in DOMAIN command_rx'[t] :
        \E j \in DOMAIN command_rx[t] : command_rx'[t][i] = command_rx[t][j]
  <2>1. command_rx[s] \in Seq(Commands)
    BY DEF WakeInv, ChannelTypes
  <2>2. CASE command_rx'[s] = command_rx[s]
    BY <1>3, <2>2
  <2>3. CASE command_rx[s] # <<>> /\ command_rx'[s] = Tail(command_rx[s])
    <3>1. \A i \in DOMAIN command_rx'[s] :
            \E j \in DOMAIN command_rx[s] : command_rx'[s][i] = command_rx[s][j]
      BY <2>1, <2>3, TailKeeps
    <3>2. QED
      BY <1>3, <3>1
  <2>4. CASE command_rx'[s] = <<>>
    BY <1>3, <2>4
  <2>5. QED
    BY <1>2, <2>2, <2>3, <2>4 DEF ChannelShrinks, WakeInv, ChannelTypes
<1>5. BroadcastIsTrue'
  BY <1>1 DEF WakeInv, BroadcastIsTrue, Exited
<1>6. ToldAfterRecorded'
  BY <1>1, <1>4 DEF WakeInv, ToldAfterRecorded, Exited
<1>7. AwaitedIsTold'
  <2> SUFFICES ASSUME NEW t \in registry', NEW child \in Sessions,
                      pc'[t] # "stopped", Awaits(t, child)', Exited(child)'
               PROVE  Told(t, child)'
    BY DEF AwaitedIsTold
  <2>1. t \in registry /\ t \in Sessions /\ Exited(child)
    BY <1>1 DEF ActorInv, ActorTypes, Exited
  <2>2. CASE t # s
    <3>1. pc[t] # "stopped" /\ Awaits(t, child)
      BY <1>1, <2>1, <2>2 DEF Awaits, WaitsForChild
    <3>2. Told(t, child)
      BY <2>1, <3>1 DEF WakeInv, AwaitedIsTold
    <3>3. QED
      BY <1>1, <1>3, <2>1, <2>2, <3>2 DEF Told
  <2>3. CASE t = s
    <3>1. /\ pc[s] # "stopped" /\ Awaits(s, child)
          /\ \/ command_rx'[s] = command_rx[s]
             \/ /\ command_rx[s] # <<>>
                /\ command_rx'[s] = Tail(command_rx[s])
                /\ Head(command_rx[s]) # Command("ChildExited", child)
      BY <2>1, <2>3, ActorKeepsNews
    <3>2. Told(s, child)
      BY <2>1, <2>3, <3>1 DEF WakeInv, AwaitedIsTold
    <3>3. CASE announcing.child = child /\ s \in announcing.to
      BY <1>1, <2>3, <3>3 DEF Told
    <3>4. ASSUME NEW i \in DOMAIN command_rx[s],
                 command_rx[s][i] = Command("ChildExited", child)
          PROVE  Told(s, child)'
      <4>1. command_rx[s] \in Seq(Commands)
        BY DEF WakeInv, ChannelTypes
      <4>2. CASE command_rx'[s] = command_rx[s]
        BY <3>4, <4>2 DEF Told
      <4>3. CASE /\ command_rx[s] # <<>>
                 /\ command_rx'[s] = Tail(command_rx[s])
                 /\ Head(command_rx[s]) # Command("ChildExited", child)
        <5>1. \E j \in DOMAIN Tail(command_rx[s]) :
                Tail(command_rx[s])[j] = command_rx[s][i]
          BY <3>4, <4>1, <4>3, TailKeeps
        <5>2. QED
          BY <3>4, <4>3, <5>1 DEF Told
      <4>4. QED
        BY <3>1, <4>2, <4>3
    <3>5. QED
      BY <2>3, <3>2, <3>3, <3>4 DEF Told
  <2>4. QED
    BY <2>2, <2>3
<1>8. QED
  BY <1>5, <1>6, <1>7

\* A new session starts with a new channel, and awaits nothing yet.
LEMMA SpawnWakeStep ==
  ASSUME ActorInv, WakeInv, NEW parent \in Sessions, NEW child \in Sessions,
         SpawnSession(parent, child)
  PROVE  BroadcastIsTrue' /\ ToldAfterRecorded' /\ AwaitedIsTold'
<1> USE DEF ActorInv, WakeInv, ActorTypes, ChannelTypes
<1>1. PICK task \in {<<>>, <<Command("UserMessage", NoSession)>>} :
        command_rx' = [command_rx EXCEPT ![child] = task]
  BY DEF SpawnSession
<1>2. \A i \in DOMAIN task : task[i].kind # "ChildExited"
  BY DEF Command
<1>3. UNCHANGED <<exit_statuses, announcing, suspended_wait, checking>>
  BY DEF SpawnSession, AddChild
<1>4. /\ registry' = registry \cup {child}
      /\ pc' = [pc EXCEPT ![child] = "ready"]
      /\ ~ Suspended(child)
  BY DEF SpawnSession, UnbornIsUnknown
<1>5. BroadcastIsTrue'
  BY <1>3 DEF BroadcastIsTrue, Exited
<1>6. ToldAfterRecorded'
  BY <1>1, <1>2, <1>3 DEF ToldAfterRecorded, Exited
<1>7. AwaitedIsTold'
  <2>1. \A c \in Sessions : ~ Awaits(child, c)'
    BY <1>3, <1>4 DEF Awaits, WaitsForChild, Suspended, NoWait
  <2>2. \A t \in Sessions \ {child}, c \in Sessions :
          /\ Awaits(t, c)' => Awaits(t, c)
          /\ Told(t, c) => Told(t, c)'
    BY <1>1, <1>3, <1>4 DEF Awaits, WaitsForChild, Told
  <2>3. QED
    BY <1>3, <1>4, <2>1, <2>2 DEF AwaitedIsTold, Exited
<1>8. QED
  BY <1>5, <1>6, <1>7

\* The heart: the exit is recorded and, in the same step, every registered
\* session becomes a receiver of the broadcast, whatever it was about to do.
LEMMA FinishedWakeStep ==
  ASSUME ActorInv, WakeInv, [Next]_vars, ChildFinished
  PROVE  BroadcastIsTrue' /\ ToldAfterRecorded' /\ AwaitedIsTold'
<1> USE DEF ActorInv, WakeInv, ActorTypes, ChannelTypes
<1>1. PICK event \in Exits :
        /\ event = Head(runtime_events)
        /\ RecordExit(event.session, event.status)
  BY DEF ChildFinished
<1>2. /\ announcing = Quiet
      /\ registry' = registry \ {event.session}
      /\ announcing' = IF registry' = {} THEN Quiet
                       ELSE [child |-> event.session, to |-> registry']
      /\ UNCHANGED <<pc, suspended_wait, checking, command_rx>>
  BY <1>1 DEF ChildFinished, CoreFree
<1>3. Exited(event.session)' /\ event.session \in Sessions
  BY <1>1, TreeAssumption DEF RecordExit, Exits, Exited, TreeTypeOK
<1>4. \A t \in Sessions : /\ Exited(t) => Exited(t)'
                          /\ t # event.session => (Exited(t)' => Exited(t))
  <2>1. \A t \in Sessions : Exited(t) => Exited(t)'
    BY ExitsStay
  <2>2. QED
    BY <1>1, <2>1 DEF RecordExit, Exited, TreeTypeOK
<1>5. BroadcastIsTrue'
  BY <1>2, <1>3 DEF BroadcastIsTrue, Quiet
<1>6. ToldAfterRecorded'
  <2>1. \A t \in Sessions : \A i \in DOMAIN command_rx[t] :
          command_rx[t][i].kind = "ChildExited" => command_rx[t][i].about \in Sessions
    <3>1. \A c \in Commands : c.kind = "ChildExited" => c.about \in Sessions
      BY ActorsAssumption DEF Commands, Command
    <3>2. \A t \in Sessions : \A i \in DOMAIN command_rx[t] : command_rx[t][i] \in Commands
      OBVIOUS
    <3>3. QED
      BY <3>1, <3>2
  <2>2. QED
    BY <1>2, <1>4, <2>1 DEF ToldAfterRecorded
<1>7. AwaitedIsTold'
  <2> SUFFICES ASSUME NEW t \in registry', NEW child \in Sessions,
                      pc'[t] # "stopped", Awaits(t, child)', Exited(child)'
               PROVE  Told(t, child)'
    BY DEF AwaitedIsTold
  <2>1. CASE child = event.session
    BY <1>2, <2>1 DEF Told
  <2>2. CASE child # event.session
    <3>1. Told(t, child)
      BY <1>2, <1>4, <2>2 DEF AwaitedIsTold, Awaits, WaitsForChild
    <3>2. QED
      BY <1>2, <3>1 DEF Told, Quiet
  <2>3. QED
    BY <2>1, <2>2
<1>8. QED
  BY <1>5, <1>6, <1>7

\* A receiver leaves the broadcast when the command is in its channel.
LEMMA AnnounceWakeStep ==
  ASSUME ActorInv, WakeInv, NEW s \in Sessions, Announce(s)
  PROVE  BroadcastIsTrue' /\ ToldAfterRecorded' /\ AwaitedIsTold'
<1> USE DEF ActorInv, WakeInv, ActorTypes, ChannelTypes
<1>1. PICK child \in Sessions :
        child = announcing.child /\ Exited(child) /\ s \in announcing.to
  BY DEF Announce, BroadcastIsTrue
<1>2. Command("ChildExited", child) \in Commands
  BY DEF Commands
<1>3. Deliver(s, Command("ChildExited", child))
  BY <1>1 DEF Announce
<1>4. /\ \A t \in Sessions : \A i \in DOMAIN command_rx[t] :
           i \in DOMAIN command_rx'[t] /\ command_rx'[t][i] = command_rx[t][i]
      /\ \A t \in Sessions : \A i \in DOMAIN command_rx'[t] :
           \/ command_rx'[t][i] = Command("ChildExited", child)
           \/ i \in DOMAIN command_rx[t] /\ command_rx'[t][i] = command_rx[t][i]
      /\ pc[s] # "stopped" => \E i \in DOMAIN command_rx'[s] :
                                command_rx'[s][i] = Command("ChildExited", child)
  BY <1>2, <1>3, DeliverAppends
<1>5. UNCHANGED <<exit_statuses, registry, pc, suspended_wait, checking>>
  BY DEF Announce
<1>6. /\ announcing'.to # {} => announcing'.child = child
      /\ \A t \in Sessions \ {s} : t \in announcing.to => t \in announcing'.to
  BY <1>1 DEF Announce, Quiet
<1>7. BroadcastIsTrue'
  BY <1>1, <1>5, <1>6 DEF BroadcastIsTrue, Exited
<1>8. ToldAfterRecorded'
  <2>1. Command("ChildExited", child).about = child
    BY DEF Command
  <2>2. ASSUME NEW t \in Sessions, NEW i \in DOMAIN command_rx'[t],
               command_rx'[t][i].kind = "ChildExited"
        PROVE  Exited(command_rx'[t][i].about)
    <3>1. CASE command_rx'[t][i] = Command("ChildExited", child)
      BY <1>1, <2>1, <3>1
    <3>2. CASE i \in DOMAIN command_rx[t] /\ command_rx'[t][i] = command_rx[t][i]
      BY <2>2, <3>2 DEF ToldAfterRecorded
    <3>3. QED
      BY <1>4, <3>1, <3>2
  <2>3. QED
    BY <1>5, <2>2 DEF ToldAfterRecorded, Exited
<1>9. AwaitedIsTold'
  <2> SUFFICES ASSUME NEW t \in registry', NEW c \in Sessions,
                      pc'[t] # "stopped", Awaits(t, c)', Exited(c)'
               PROVE  Told(t, c)'
    BY DEF AwaitedIsTold
  <2>1. t \in Sessions /\ pc[t] # "stopped" /\ Told(t, c)
    BY <1>5 DEF AwaitedIsTold, Awaits, WaitsForChild, Exited
  <2>2. CASE \E i \in DOMAIN command_rx[t] :
               command_rx[t][i] = Command("ChildExited", c)
    BY <1>4, <2>1, <2>2 DEF Told
  <2>3. CASE announcing.child = c /\ t \in announcing.to
    <3>1. CASE t = s
      BY <1>1, <1>4, <2>1, <2>3, <3>1 DEF Told
    <3>2. CASE t # s
      BY <1>1, <1>6, <2>1, <2>3, <3>2 DEF Told
    <3>3. QED
      BY <3>1, <3>2
  <2>4. QED
    BY <2>1, <2>2, <2>3 DEF Told
<1>10. QED
  BY <1>7, <1>8, <1>9

\* Every step keeps the invariant of the wake-ups.
LEMMA WakeStep ==
  ASSUME ActorInv, WakeInv, [Next]_vars
  PROVE  WakeInv'
<1>1. SUFFICES BroadcastIsTrue' /\ ToldAfterRecorded' /\ AwaitedIsTold'
  BY ChannelTypesStep DEF WakeInv
<1>2. ASSUME NEW s \in Sessions, ActorStep(s)
      PROVE  BroadcastIsTrue' /\ ToldAfterRecorded' /\ AwaitedIsTold'
  BY <1>2, ActorWakeStep
<1>3. CASE CoreStep
  BY <1>3, FinishedWakeStep, AnnounceWakeStep DEF CoreStep
<1>4. ASSUME NEW s \in Sessions,
             NEW kind \in {"UserMessage", "Continue", "ToolResult", "MailboxMessage"}
                          \cup Interrupts,
             NEW about, Command(kind, about) \in Commands,
             Route(s, Command(kind, about))
      PROVE  BroadcastIsTrue' /\ ToldAfterRecorded' /\ AwaitedIsTold'
  <2>1. kind # "ChildExited"
    BY ActorsAssumption
  <2>2. /\ Deliver(s, Command(kind, about))
        /\ UNCHANGED <<exit_statuses, registry, announcing, pc, suspended_wait,
                       checking>>
    BY <1>4 DEF Route
  <2>3. QED
    BY <1>4, <2>1, <2>2, ChannelOnlyGrows
<1>5. \A kind \in {"UserMessage", "Continue", "ToolResult"} \cup Interrupts :
        Command(kind, NoSession) \in Commands
  BY DEF Commands
<1>6. \A s \in Sessions : Command("MailboxMessage", s) \in Commands
  BY DEF Commands
<1>7. CASE InputStep
  BY <1>4, <1>5, <1>6, <1>7, SpawnWakeStep
     DEF InputStep, RouteUserMessage, RouteToolResult, RouteContinue,
         RouteInterrupt, RouteMessage
<1>8. CASE UNCHANGED vars
  BY <1>8 DEF WakeInv, BroadcastIsTrue, ToldAfterRecorded, AwaitedIsTold, Awaits,
              WaitsForChild, Told, Exited
<1>9. QED
  BY <1>2, <1>3, <1>7, <1>8 DEF Next

\* The invariant of the wake-ups holds in every reachable state.
LEMMA WakeInvCorrect == Spec => []WakeInv
<1>1. Init => WakeInv
  <2> SUFFICES ASSUME Init PROVE WakeInv
    OBVIOUS
  <2>1. ChannelTypes /\ BroadcastIsTrue
    BY DEF Init, Quiet, ChannelTypes, BroadcastIsTrue
  <2>2. ToldAfterRecorded
    BY DEF Init, ToldAfterRecorded
  <2>3. AwaitedIsTold
    BY DEF Init, TreeInit, AwaitedIsTold, Exited
  <2>4. QED
    BY <2>1, <2>2, <2>3 DEF WakeInv
<1>2. ActorInv /\ WakeInv /\ [Next]_vars => WakeInv'
  BY WakeStep
<1>3. QED
  BY <1>1, <1>2, ActorInvCorrect, PTL DEF Spec

\* No running session waits for what cannot come: it is in no ring of waits, and
\* when the child it waits for has exited, the exit is in its channel or the
\* core loop is still to send it.
THEOREM NobodyIsStuckCorrect == Spec => []NobodyIsStuck
<1>1. ActorInv /\ WakeInv => NoLostChildWakeup
  BY DEF ActorInv, ActorTypes, WakeInv, AwaitedIsTold, Awaits, Told, NoLostChildWakeup
<1>2. QED
  BY <1>1, ActorInvCorrect, WakeInvCorrect, NoWaitDeadlockCorrect, PTL
     DEF NobodyIsStuck

--------------------------------------------------------------------------------
(***************************************************************************)
(* Mailboxes.  Nothing needs to be known of a message but where it stands. *)
(***************************************************************************)

\* A non-empty set of numbers has a least member, so Min picks one of them.
LEMMA SmallestExists ==
  ASSUME NEW I \in SUBSET Nat, I # {}
  PROVE  Min(I) \in I
<1> DEFINE R == {p \in Nat \X Nat : p[1] < p[2]}
<1>1. IsWellFoundedOn(R, Nat)
  BY NatLessThanWellFounded DEF OpToRel
<1>2. \A x, y \in Nat : <<y, x>> \in R <=> y < x
  OBVIOUS
<1> HIDE DEF R
<1>3. PICK x \in I : \A y \in I : ~ (<<y, x>> \in R)
  BY <1>1, WFMin
<1>4. \A y \in I : x <= y
  <2> TAKE y \in I
  <2>1. x \in Nat /\ y \in Nat
    OBVIOUS
  <2>2. ~ (y < x)
    BY <1>2, <1>3, <2>1, Zenon
  <2>3. QED
    BY <2>1, <2>2
<1>5. QED
  BY <1>4 DEF Min

\* Taking the first match out of a sequence leaves a sequence.
LEMMA PopIsSequence ==
  ASSUME NEW T, NEW q \in Seq(T), NEW source
  PROVE  PopMessage(q, source) \in Seq(T)
<1> DEFINE I == {i \in 1 .. Len(q) : MatchesSource(q[i], source)}
           k == Min(I)
<1>1. CASE I = {}
  <2>1. PopMessage(q, source) = q
    BY <1>1 DEF PopMessage, RemoveFirstMatch
  <2>2. QED
    BY <2>1
<1>2. CASE I # {}
  <2>1. k \in 1 .. Len(q)
    <3>1. I \in SUBSET Nat
      OBVIOUS
    <3> HIDE DEF I
    <3>2. k \in I
      BY <1>2, <3>1, SmallestExists
    <3>3. QED
      BY <3>2 DEF I
  <2>2. PopMessage(q, source) = SubSeq(q, 1, k - 1) \o SubSeq(q, k + 1, Len(q))
    BY <1>2 DEF PopMessage, RemoveFirstMatch, RemoveAt, SelectInSeq
  <2> HIDE DEF k
  <2>3. SubSeq(q, 1, k - 1) \in Seq(T)
    BY <2>1
  <2>4. SubSeq(q, k + 1, Len(q)) \in Seq(T)
    BY <2>1
  <2>5. QED
    BY <2>2, <2>3, <2>4
<1>3. QED
  BY <1>1, <1>2

MailTypes == \E T : mailbox \in [Sessions -> Seq(T)]

MailInv == MailTypes /\ NoLostMessageWakeup

\* Every step leaves sequences in the mailboxes.
LEMMA MailTypesStep ==
  ASSUME MailTypes, [Next]_vars
  PROVE  MailTypes'
<1>1. PICK T : mailbox \in [Sessions -> Seq(T)]
  BY DEF MailTypes
<1>2. ASSUME NEW s \in Sessions, NEW from, NEW source,
             \/ mailbox' = [mailbox EXCEPT ![s] = Append(mailbox[s], from)]
             \/ mailbox' = [mailbox EXCEPT ![s] = PopMessage(mailbox[s], source)]
             \/ mailbox' = [mailbox EXCEPT
                              ![s] = PopMessage(Append(mailbox[s], from), source)]
             \/ UNCHANGED mailbox
      PROVE  MailTypes'
  <2> DEFINE U == T \cup {from}
  <2>1. \A q \in Seq(T) : q \in Seq(U)
    OBVIOUS
  <2>2. mailbox[s] \in Seq(U) /\ from \in U
    BY <1>1, <2>1
  <2>3. mailbox \in [Sessions -> Seq(U)]
    BY <1>1, <2>1
  <2> HIDE DEF U
  <2>4. Append(mailbox[s], from) \in Seq(U)
    BY <2>2
  <2>5. /\ PopMessage(mailbox[s], source) \in Seq(U)
        /\ PopMessage(Append(mailbox[s], from), source) \in Seq(U)
    BY <2>2, <2>4, PopIsSequence
  <2>6. mailbox' \in [Sessions -> Seq(U)]
    BY <1>2, <2>3, <2>4, <2>5
  <2>7. QED
    BY <2>6 DEF MailTypes
<1>3. ASSUME NEW s \in Sessions, MailboxMessage(s) PROVE MailTypes'
  BY <1>2, <1>3 DEF MailboxMessage
<1>4. ASSUME NEW s \in Sessions, ControlMessage(s) PROVE MailTypes'
  BY <1>2, <1>4 DEF ControlMessage
<1>5. ASSUME NEW s \in Sessions, NEW source, CallRecvMessage(s, source)
      PROVE  MailTypes'
  BY <1>2, <1>5 DEF CallRecvMessage
<1>6. CASE UNCHANGED mailbox
  BY <1>1, <1>6 DEF MailTypes
<1>7. ASSUME NEW s \in Sessions,
             \/ UserMessage(s) \/ InterruptIdle(s) \/ Continue(s) \/ ChildExited(s)
             \/ ToolResult(s) \/ WaitTimeout(s) \/ DeferCommand(s)
             \/ InterruptTurn(s) \/ EndTurn(s) \/ CallTool(s) \/ ToolDone(s)
             \/ AnsweredCall(s) \/ RegisterWait(s) \/ ChannelClosed(s) \/ Announce(s)
             \/ \E child \in Sessions : CallWaitChild(s, child)
      PROVE  UNCHANGED mailbox
  BY <1>7 DEF UserMessage, InterruptIdle, Continue, ChildExited, ToolResult,
              WaitTimeout, DeferCommand, InterruptTurn, EndTurn, CallTool, ToolDone,
              AnsweredCall, RegisterWait, ChannelClosed, Announce, CallWaitChild
<1>8. ASSUME ChildFinished \/ \E parent, child \in Sessions : SpawnSession(parent, child)
      PROVE  UNCHANGED mailbox
  BY <1>8 DEF ChildFinished, SpawnSession
<1>9. ASSUME NEW s \in Sessions, NEW command, Route(s, command)
      PROVE  UNCHANGED mailbox
  BY <1>9 DEF Route
<1>10. QED
  BY <1>3, <1>4, <1>5, <1>6, <1>7, <1>8, <1>9
     DEF Next, ActorStep, CoreStep, InputStep, RouteUserMessage, RouteToolResult,
         RouteContinue, RouteInterrupt, RouteMessage

\* A wait for a message is only ever entered over a mailbox without one, and a
\* matching message ends it: whoever appends one to the mailbox is not waiting.
LEMMA MessageStep ==
  ASSUME ActorInv, MailInv, [Next]_vars
  PROVE  NoLostMessageWakeup'
<1> USE DEF ActorInv, ActorTypes, NoLostMessageWakeup
<1>a. PICK T : mailbox \in [Sessions -> Seq(T)]
  BY DEF MailInv, MailTypes
<1>b. NoLostMessageWakeup
  BY DEF MailInv
<1>1. ASSUME UNCHANGED mailbox,
             \A t \in Sessions : \/ suspended_wait'[t] = suspended_wait[t]
                                 \/ suspended_wait'[t].kind # "Mailbox"
      PROVE  NoLostMessageWakeup'
  BY <1>b, <1>1 DEF HasMessage
<1>2. ASSUME NEW s \in Sessions, suspended_wait'[s].kind # "Mailbox",
             \A t \in Sessions \ {s} : /\ suspended_wait'[t] = suspended_wait[t]
                                       /\ mailbox'[t] = mailbox[t]
      PROVE  NoLostMessageWakeup'
  BY <1>b, <1>2 DEF HasMessage
<1>3. ASSUME NEW s \in Sessions,
             \/ UserMessage(s) \/ InterruptIdle(s) \/ InterruptTurn(s)
             \/ ChildExited(s) \/ ToolResult(s) \/ WaitTimeout(s)
      PROVE  NoLostMessageWakeup'
  <2>1. UNCHANGED mailbox
    BY <1>3 DEF UserMessage, InterruptIdle, InterruptTurn, ChildExited, ToolResult,
                WaitTimeout
  <2>2. AppendSuspendedWaitResult(s) \/ UNCHANGED suspended_wait
    BY <1>3 DEF UserMessage, InterruptIdle, InterruptTurn, ChildExited, ToolResult,
                WaitTimeout, ResumeFromWait
  <2>3. QED
    BY <1>1, <2>1, <2>2 DEF AppendSuspendedWaitResult, NoWait
<1>4. ASSUME NEW s \in Sessions, MailboxMessage(s) PROVE NoLostMessageWakeup'
  <2> DEFINE from == NextCommand(s).about
             wait == suspended_wait[s]
             full == Append(mailbox[s], from)
  <2>1. CASE /\ ResumeFromWait(s)
             /\ mailbox' = [mailbox EXCEPT ![s] = PopMessage(full, wait.on)]
    BY <1>a, <1>2, <2>1 DEF ResumeFromWait, AppendSuspendedWaitResult, NoWait
  <2>2. CASE /\ ~ (wait.kind = "Mailbox" /\ MatchesSource(from, wait.on))
             /\ mailbox' = [mailbox EXCEPT ![s] = full]
             /\ UNCHANGED turn_vars
    <3>1. CASE wait.kind # "Mailbox"
      BY <1>a, <1>2, <2>2, <3>1
    <3>2. CASE wait.kind = "Mailbox"
      <4>1. ~ MatchesSource(from, wait.on) /\ ~ HasMessage(s, wait.on)
        BY <1>b, <2>2, <3>2
      <4>2. mailbox[s] \in Seq(T \cup {from}) /\ from \in T \cup {from}
        <5>1. \A q \in Seq(T) : q \in Seq(T \cup {from})
          OBVIOUS
        <5>2. QED
          BY <1>a, <5>1
      <4> HIDE DEF from
      <4>3. \A i \in DOMAIN full :
              full[i] = from \/ (i \in DOMAIN mailbox[s] /\ full[i] = mailbox[s][i])
        BY <4>2, AppendKeeps
      <4>4. \A i \in DOMAIN full : ~ MatchesSource(full[i], wait.on)
        BY <4>1, <4>3 DEF HasMessage
      <4>5. mailbox'[s] = full /\ \A t \in Sessions \ {s} : mailbox'[t] = mailbox[t]
        BY <1>a, <2>2
      <4> HIDE DEF full
      <4>6. ~ HasMessage(s, wait.on)'
        BY <2>2, <4>4, <4>5 DEF HasMessage
      <4>7. QED
        BY <1>b, <2>2, <4>5, <4>6 DEF HasMessage
    <3>3. QED
      BY <3>1, <3>2
  <2>3. QED
    BY <1>4, <2>1, <2>2 DEF MailboxMessage
<1>5. ASSUME NEW s \in Sessions, ControlMessage(s) PROVE NoLostMessageWakeup'
  <2>1. suspended_wait'[s] = NoWait /\ UNCHANGED suspended_wait
    BY <1>5 DEF ControlMessage, Busy, BusyIsAwake, Suspended
  <2>2. \A t \in Sessions \ {s} : mailbox'[t] = mailbox[t]
    BY <1>a, <1>5 DEF ControlMessage
  <2>3. QED
    BY <1>2, <2>1, <2>2 DEF NoWait
<1>6. ASSUME NEW s \in Sessions, NEW source, CallRecvMessage(s, source)
      PROVE  NoLostMessageWakeup'
  <2>1. CASE /\ UNCHANGED turn_vars
             /\ mailbox' = [mailbox EXCEPT ![s] = PopMessage(mailbox[s], source)]
    <3>1. suspended_wait'[s] = NoWait
      BY <1>6, <2>1 DEF CallRecvMessage, BusyIsAwake, Suspended
    <3>2. \A t \in Sessions \ {s} : mailbox'[t] = mailbox[t]
      BY <1>a, <2>1
    <3>3. QED
      BY <1>2, <2>1, <3>1, <3>2 DEF NoWait
  <2>2. ASSUME ~ HasMessage(s, source), UNCHANGED mailbox, NEW timed \in Deadlines,
               Suspend(s, [kind |-> "Mailbox", on |-> source, timed |-> timed])
        PROVE  NoLostMessageWakeup'
    <3>1. suspended_wait'[s].on = source
      BY <2>2 DEF Suspend
    <3>2. \A t \in Sessions \ {s} : suspended_wait'[t] = suspended_wait[t]
      BY <2>2 DEF Suspend
    <3>3. QED
      BY <1>b, <2>2, <3>1, <3>2 DEF HasMessage
  <2>3. QED
    BY <1>6, <2>1, <2>2 DEF CallRecvMessage
<1>7. ASSUME NEW s \in Sessions, RegisterWait(s) PROVE NoLostMessageWakeup'
  <2>1. UNCHANGED mailbox
    BY <1>7 DEF RegisterWait
  <2>2. \A t \in Sessions : \/ suspended_wait'[t] = suspended_wait[t]
                            \/ suspended_wait'[t].kind # "Mailbox"
    BY <1>7 DEF RegisterWait, Suspend
  <2>3. QED
    BY <1>1, <2>1, <2>2
<1>8. ASSUME UNCHANGED <<mailbox, suspended_wait>> PROVE NoLostMessageWakeup'
  BY <1>1, <1>8
<1>9. ASSUME NEW s \in Sessions,
             \/ Continue(s) \/ DeferCommand(s) \/ EndTurn(s) \/ CallTool(s) \/ ToolDone(s)
             \/ AnsweredCall(s) \/ ChannelClosed(s) \/ Announce(s)
             \/ \E child \in Sessions : CallWaitChild(s, child)
      PROVE  UNCHANGED <<mailbox, suspended_wait>>
  BY <1>9 DEF Continue, DeferCommand, EndTurn, CallTool, ToolDone, AnsweredCall,
              ChannelClosed, Announce, CallWaitChild
<1>10. ASSUME ChildFinished \/ \E parent, child \in Sessions : SpawnSession(parent, child)
       PROVE  UNCHANGED <<mailbox, suspended_wait>>
  BY <1>10 DEF ChildFinished, SpawnSession
<1>11. ASSUME NEW s \in Sessions, NEW command, Route(s, command)
       PROVE  UNCHANGED <<mailbox, suspended_wait>>
  BY <1>11 DEF Route
<1>12. QED
  BY <1>3, <1>4, <1>5, <1>6, <1>7, <1>8, <1>9, <1>10, <1>11
     DEF Next, ActorStep, CoreStep, InputStep, RouteUserMessage, RouteToolResult,
         RouteContinue, RouteInterrupt, RouteMessage

\* No matching message is left lying in any reachable state.
LEMMA MailInvCorrect == Spec => []MailInv
<1>1. Init => MailInv
  <2> SUFFICES ASSUME Init PROVE MailInv
    OBVIOUS
  <2>1. mailbox \in [Sessions -> Seq({})]
    BY DEF Init
  <2>2. NoLostMessageWakeup
    BY DEF Init, NoLostMessageWakeup, NoWait
  <2>3. QED
    BY <2>1, <2>2 DEF MailInv, MailTypes
<1>2. ActorInv /\ MailInv /\ [Next]_vars => MailInv'
  BY MailTypesStep, MessageStep DEF MailInv
<1>3. QED
  BY <1>1, <1>2, ActorInvCorrect, PTL DEF Spec

\* A wake-up is neither lost nor early: an awaited exit is on its way to the
\* waiter, a message that would end a wait is never left lying in the mailbox,
\* and who is told of an exit finds it on record.
THEOREM WakeupsArriveCorrect == Spec => []WakeupsArrive
<1>1. NobodyIsStuck => NoLostChildWakeup
  BY DEF NobodyIsStuck
<1>2. WakeInv => ToldAfterRecorded
  BY DEF WakeInv
<1>3. MailInv => NoLostMessageWakeup
  BY DEF MailInv
<1>4. QED
  BY <1>1, <1>2, <1>3, NobodyIsStuckCorrect, WakeInvCorrect, MailInvCorrect, PTL
     DEF WakeupsArrive
================================================================================
