------------------------------ MODULE Subagents ------------------------------
(* Delegation: the subagent and spawn tools of a session, the core loop     *)
(* that creates, waits for and cancels the children, and the children that  *)
(* delegate again. The subagent tool runs as a task of its own              *)
(* (tokio::spawn) that goes on when its session is interrupted; the spawn   *)
(* tool is polled by its session and stops with it.                         *)
EXTENDS Naturals, Sequences, FiniteSets

CONSTANTS
    Root,         (* the session the user talks to                          *)
    Kids,         (* the ids the tools draw for children                    *)
    CoreRoom      (* bound: length of the core's input queue                *)

Agents == {Root} \cup Kids

VARIABLES
    life,         (* absent, queued, turn, tool, waiting, rest, finished, exited *)
    tool,         (* tool[s]: the child of the call s is in                 *)
    task,         (* task[c]: the tool call that creates c                  *)
    core,         (* the core's input queue                                 *)
    inbox,        (* the commands of a session's actor                      *)
    registered    (* the children with a waiter in the tree                 *)

delegationVars == <<life, tool, task, core, inbox, registered>>

NoTask == [by |-> Root, kind |-> "none", step |-> "none", stop |-> FALSE]
DelegationInit ==
    /\ life = [s \in Agents |-> IF s = Root THEN "turn" ELSE "absent"]
    /\ tool = [s \in Agents |-> s]
    /\ task = [c \in Kids |-> NoTask]
    /\ core = <<>> /\ inbox = [s \in Agents |-> <<>>] /\ registered = {}

Room == Len(core) < CoreRoom
Post(input) == Room /\ core' = Append(core, input)
Moves(c, step) == task' = [task EXCEPT ![c].step = step]
Alive(s) == life[s] \notin {"absent", "finished", "exited"}
Ended(s) == IF s = Root THEN "rest" ELSE "finished"

----------------------------------------------------------------------------
(* A turn: tool calls one at a time, waits for children, and its end, which *)
(* ends a child (finish_turn).                                              *)
CallTool(s) ==
    \E c \in Kids, kind \in {"subagent", "spawn"} :
        /\ life[s] = "turn" /\ task[c] = NoTask
        /\ life' = [life EXCEPT ![s] = "tool"] /\ tool' = [tool EXCEPT ![s] = c]
        /\ task' = [task EXCEPT ![c] = [by |-> s, kind |-> kind, step |-> "dispatch", stop |-> FALSE]]
        /\ UNCHANGED <<core, inbox, registered>>

ToolReturns(s) ==
    /\ life[s] = "tool" /\ task[tool[s]].step = "done"
    /\ life' = [life EXCEPT ![s] = "turn"]
    /\ UNCHANGED <<tool, task, core, inbox, registered>>

Spawned(s) == {c \in Kids : task[c].by = s /\ task[c].kind = "spawn" /\ life[c] # "absent"}
Suspend(s) ==
    /\ life[s] = "turn" /\ \E c \in Spawned(s) : life[c] # "exited"
    /\ life' = [life EXCEPT ![s] = "waiting"] /\ UNCHANGED <<tool, task, core, inbox, registered>>

Resume(s) ==
    /\ life[s] = "waiting" /\ \E c \in Spawned(s) : life[c] = "exited"
    /\ life' = [life EXCEPT ![s] = "turn"] /\ UNCHANGED <<tool, task, core, inbox, registered>>

EndTurn(s) ==
    /\ life[s] = "turn" /\ life' = [life EXCEPT ![s] = Ended(s)]
    /\ UNCHANGED <<tool, task, core, inbox, registered>>

UserMessage ==
    /\ life[Root] = "rest" /\ life' = [life EXCEPT ![Root] = "turn"]
    /\ UNCHANGED <<tool, task, core, inbox, registered>>

----------------------------------------------------------------------------
(* The task of a call: SpawnSession, the acknowledgement, and for subagent  *)
(* WaitSession with the call's timeout.                                     *)
Dispatch(c) ==
    /\ task[c].step = "dispatch" /\ Post(<<"spawn", c>>) /\ Moves(c, "ack")
    /\ UNCHANGED <<life, tool, inbox, registered>>

AckTimeout(c) ==
    /\ task[c].step = "ack" /\ task[c].kind = "spawn" /\ Moves(c, "done")
    /\ UNCHANGED <<life, tool, core, inbox, registered>>

SendWait(c) ==
    /\ task[c].step = "acked" /\ Post(<<"wait", c>>) /\ Moves(c, "waiting")
    /\ UNCHANGED <<life, tool, inbox, registered>>

\* Mutant: a task that is told to stop gives up before it knows its child.
NoticeCancelEarly(c) ==
    /\ task[c].kind = "subagent" /\ task[c].stop /\ task[c].step \in {"ack", "acked", "waiting"}
    /\ Moves(c, IF task[c].step = "ack" THEN "done" ELSE "cancelling")
    /\ UNCHANGED <<life, tool, core, inbox, registered>>

(* The select! of run_subagent_via_harness: the flag is looked at only once *)
(* the child is there.                                                      *)
NoticeCancel(c) ==
    /\ task[c].kind = "subagent" /\ task[c].stop /\ task[c].step \in {"acked", "waiting"}
    /\ Moves(c, "cancelling")
    /\ UNCHANGED <<life, tool, core, inbox, registered>>

SendCancel(c) ==
    /\ task[c].step = "cancelling" /\ Post(<<"cancel", c>>) /\ Moves(c, "done")
    /\ UNCHANGED <<life, tool, inbox, registered>>

WaitTimesOut(c) ==
    /\ c \in registered /\ life[c] # "exited" /\ registered' = registered \ {c}
    /\ IF task[c].step = "waiting" THEN Moves(c, "cancelling") ELSE UNCHANGED task
    /\ UNCHANGED <<life, tool, core, inbox>>

StatusArrives(c) ==
    /\ c \in registered /\ life[c] = "exited" /\ registered' = registered \ {c}
    /\ IF task[c].step = "waiting" THEN Moves(c, "done") ELSE UNCHANGED task
    /\ UNCHANGED <<life, tool, core, inbox>>

----------------------------------------------------------------------------
(* The core loop. The child is in the registry, with its task in its inbox, *)
(* before the reply; a reply to a task that is gone is dropped.             *)
Takes(input) == core # <<>> /\ Head(core) = input /\ core' = Tail(core)
Reply(c, step) == IF task[c].step = "ack" THEN Moves(c, step) ELSE UNCHANGED task
HandleSpawn(c) ==
    /\ Takes(<<"spawn", c>>)
    /\ \/ /\ life' = [life EXCEPT ![c] = "queued"] /\ inbox' = [inbox EXCEPT ![c] = <<"user">>]
          /\ Reply(c, IF task[c].kind = "subagent" THEN "acked" ELSE "done")
       \/ Reply(c, "done") /\ UNCHANGED <<life, inbox>>           (* the session cannot be set up *)
    /\ UNCHANGED <<tool, registered>>

HandleWait(c) ==
    /\ Takes(<<"wait", c>>)
    /\ IF life[c] = "exited" THEN registered' = registered /\ (IF task[c].step = "waiting" THEN Moves(c, "done") ELSE UNCHANGED task)
       ELSE registered' = registered \cup {c} /\ UNCHANGED task
    /\ UNCHANGED <<life, tool, inbox>>

HandleCancel(s) ==
    /\ Takes(<<"cancel", s>>)
    /\ inbox' = IF Alive(s) THEN [inbox EXCEPT ![s] = Append(@, "cancel")] ELSE inbox
    /\ UNCHANGED <<life, tool, task, registered>>

RecordExit(c) ==
    /\ life[c] = "finished" /\ life' = [life EXCEPT ![c] = "exited"] /\ inbox' = [inbox EXCEPT ![c] = <<>>]
    /\ UNCHANGED <<tool, task, core, registered>>

----------------------------------------------------------------------------
(* An actor's commands. A session that is interrupted in a tool raises the  *)
(* flag of the call's task; the future of the spawn tool is dropped.        *)
Interrupted(t) ==
    IF t.kind = "subagent" THEN [t EXCEPT !.stop = TRUE]
    ELSE [t EXCEPT !.step = IF @ \in {"dispatch", "ack"} THEN "lost" ELSE @]

TakeUser(s) ==
    /\ life[s] = "queued" /\ inbox[s] # <<>> /\ Head(inbox[s]) = "user"
    /\ life' = [life EXCEPT ![s] = "turn"] /\ inbox' = [inbox EXCEPT ![s] = Tail(@)]
    /\ UNCHANGED <<tool, task, core, registered>>

TakeCancel(s) ==
    /\ life[s] \in {"turn", "tool", "waiting", "rest"} /\ inbox[s] # <<>> /\ Head(inbox[s]) = "cancel"
    /\ life' = [life EXCEPT ![s] = IF @ \in {"turn", "tool"} THEN Ended(s) ELSE "rest"]
    /\ task' = IF life[s] = "tool" THEN [task EXCEPT ![tool[s]] = Interrupted(@)] ELSE task
    /\ inbox' = [inbox EXCEPT ![s] = Tail(@)]
    /\ UNCHANGED <<tool, core, registered>>

UserCancels(s) ==
    /\ Alive(s) /\ inbox[s] = <<>> /\ \A i \in DOMAIN core : core[i] # <<"cancel", s>>
    /\ Post(<<"cancel", s>>) /\ UNCHANGED <<life, tool, task, inbox, registered>>

DelegationNext ==
    \/ UserMessage
    \/ \E s \in Agents : CallTool(s) \/ ToolReturns(s) \/ Suspend(s) \/ Resume(s) \/ EndTurn(s)
                         \/ HandleCancel(s) \/ TakeUser(s) \/ TakeCancel(s) \/ UserCancels(s)
    \/ \E c \in Kids : Dispatch(c) \/ AckTimeout(c) \/ SendWait(c) \/ NoticeCancel(c) \/ SendCancel(c)
                       \/ WaitTimesOut(c) \/ StatusArrives(c) \/ HandleSpawn(c) \/ HandleWait(c) \/ RecordExit(c)

DelegationSpec == DelegationInit /\ [][DelegationNext]_delegationVars

----------------------------------------------------------------------------
(* A subagent does not outlive its call: once the call has ended (result,   *)
(* timeout, or its session was interrupted and went on without it), the     *)
(* child is at rest or about to be cancelled, by its task or by a Cancel on *)
(* its way (run_subagent_via_harness, ChildSessionCancelGuard).             *)
CancelOnItsWay(c) == (\E i \in DOMAIN core : core[i] = <<"cancel", c>>) \/ (\E i \in DOMAIN inbox[c] : inbox[c][i] = "cancel")
InCall(c) == life[task[c].by] = "tool" /\ tool[task[c].by] = c
NeverCame(c) == life[c] = "absent" /\ task[c].step = "done" /\ \A i \in DOMAIN core : core[i] # <<"spawn", c>>
NoSubagentIsForgotten ==
    \A c \in Kids : task[c].kind = "subagent" /\ ~InCall(c) =>
        \/ life[c] \in {"rest", "finished", "exited"} \/ CancelOnItsWay(c) \/ NeverCame(c)
        \/ (task[c].stop /\ task[c].step # "done")
=============================================================================
