------------------------------- MODULE Planner -------------------------------
(* Action plans of a session (tool/plan.rs, planner/): a model drafts a     *)
(* plan of actions that depend on each other, and reports what became of    *)
(* each. A failed action skips what depends on it. The plan to update may   *)
(* be named by the id of the call that created it, which the engine looks   *)
(* up in the history before the tool runs.                                  *)
EXTENDS Integers, Sequences, FiniteSets, SequencesExt

CONSTANTS
    Cases       (* the drafts a model tries: [drafts, plans]: a set of drafts and how many plans are made *)

VARIABLES
    case,
    plans,      (* plans[p]: the actions of plan p: a sequence of [id, needs, status] *)
    results,    (* the creation results in the history: [call, plan], oldest first *)
    progress    (* the last PlanProgress: [plan, action, status, remaining, total, meant], or <<>> *)

planVars == <<case, plans, results, progress>>

Statuses == {"in_progress", "completed", "failed", "skipped"}
Terminal == {"completed", "failed", "skipped"}
Ids(plan) == {plan[i].id : i \in DOMAIN plan}

----------------------------------------------------------------------------
(* validate_dag: ids are unique, dependencies known, and Kahn's algorithm   *)
(* visits every action. Visited(plan) is the set of the ids its queue sees. *)
Neighbours(plan, done) == {a.id : a \in {x \in Range(plan) : x.needs \subseteq done}}
Visited(plan) ==
    LET seen[n \in 0..Len(plan)] == IF n = 0 THEN {} ELSE Neighbours(plan, seen[n - 1])
    IN seen[Len(plan)]

Acyclic(plan) == Cardinality(Visited(plan)) = Len(plan)
ValidateDag(plan) ==
    /\ Cardinality(Ids(plan)) = Len(plan)
    /\ \A a \in Range(plan) : a.needs \subseteq Ids(plan)
    /\ Acyclic(plan)

(* get_ready_actions *)
Completed(plan) == {a.id : a \in {x \in Range(plan) : x.status = "completed"}}
ReadyActions(plan) == {a.id : a \in {x \in Range(plan) : x.status = "pending" /\ x.needs \subseteq Completed(plan)}}

\* The actions that depend on one of these without a detour.
DirectDependents(plan, ids) == {a.id : a \in {x \in Range(plan) : x.needs \cap ids # {}}}

\* Mutant: dependents are not followed through actions that have ended.
DependentsOfPending(plan, id) ==
    LET Blocking(ids) == {a \in ids : \E x \in Range(plan) : x.id = a /\ x.status \notin Terminal}
        reached[n \in 0..Len(plan)] ==
            IF n = 0 THEN DirectDependents(plan, {id})
            ELSE reached[n - 1] \cup DirectDependents(plan, Blocking(reached[n - 1]))
    IN reached[Len(plan)]

(* skip_dependents: breadth first along the dependencies.                   *)
ToSkip(plan, id) ==
    LET reached[n \in 0..Len(plan)] ==
            IF n = 0 THEN DirectDependents(plan, {id})
            ELSE reached[n - 1] \cup DirectDependents(plan, reached[n - 1])
    IN reached[Len(plan)]

SkipDependents(plan, id) ==
    [i \in DOMAIN plan |->
        IF plan[i].id \in ToSkip(plan, id) /\ plan[i].status \notin Terminal
        THEN [plan[i] EXCEPT !.status = "skipped"] ELSE plan[i]]

----------------------------------------------------------------------------
PlanInit ==
    /\ case \in Cases
    /\ plans = <<>>
    /\ results = <<>>
    /\ progress = <<>>

(* The n-th creation is the call n; a plan's id is the call that made it,   *)
(* under another name.                                                      *)
CreatePlan(draft) ==
    /\ Len(plans) < case.plans
    /\ ValidateDag(draft)
    /\ plans' = Append(plans, draft)
    /\ results' = Append(results, [call |-> Len(plans) + 1, plan |-> Len(plans) + 1])
    /\ UNCHANGED <<case, progress>>

(* Compaction drops the oldest results from the history.                    *)
ForgetResult ==
    /\ results # <<>>
    /\ results' = Tail(results)
    /\ UNCHANGED <<case, plans, progress>>

(* normalize_plan_tool_arguments: the newest result of that call; a call    *)
(* that is not found stays in the arguments, and the tool refuses it.       *)
ResolvePlanToolCallId(call) == {r.plan : r \in {x \in Range(results) : x.call = call}}
Named(reference) ==
    IF reference.kind = "plan_id" THEN {reference.number} ELSE ResolvePlanToolCallId(reference.number)

Updated(plan, id, status) ==
    LET changed == [i \in DOMAIN plan |-> IF plan[i].id = id THEN [plan[i] EXCEPT !.status = status] ELSE plan[i]]
    IN IF status = "failed" THEN SkipDependents(changed, id) ELSE changed

(* A PlanProgress follows, with the number of actions that are ready.       *)
HandlePlanProgress(p, plan, id, meant) ==
    LET action == CHOOSE a \in Range(plan) : a.id = id
    IN <<[plan |-> p, action |-> id, status |-> action.status,
          remaining |-> Cardinality(ReadyActions(plan) \ {id}), total |-> Len(plan), meant |-> meant]>>

UpdatePlan(reference, id, status) ==
    \E p \in Named(reference) \cap DOMAIN plans :
        /\ id \in Ids(plans[p])
        /\ plans' = [plans EXCEPT ![p] = Updated(plans[p], id, status)]
        /\ progress' = HandlePlanProgress(p, plans'[p], id, reference.number)
        /\ UNCHANGED <<case, results>>

PlanNext ==
    \/ \E draft \in case.drafts : CreatePlan(draft)
    \/ ForgetResult
    \/ \E kind \in {"plan_id", "call_id"}, number \in DOMAIN plans, status \in Statuses :
         \E id \in Ids(plans[number]) : UpdatePlan([kind |-> kind, number |-> number], id, status)

PlanSpec == PlanInit /\ [][PlanNext]_planVars

----------------------------------------------------------------------------
(* An accepted plan can be carried out: no set of actions waits for itself  *)
(* (validate_dag counts what Kahn's queue visits).                          *)
PlansCanFinish ==
    \A p \in DOMAIN plans : \A ids \in SUBSET Ids(plans[p]) \ {{}} :
        \E a \in Range(plans[p]) : a.id \in ids /\ a.needs \cap ids = {}

(* Nothing is left pending behind an action that failed, however long the   *)
(* chain and whatever was reported of the actions between (skip_dependents). *)
Behind(plan, id) ==
    LET Closed(ids) == DirectDependents(plan, ids \cup {id}) \subseteq ids
    IN {a \in Ids(plan) : \A ids \in SUBSET Ids(plan) : Closed(ids) => a \in ids}

NothingWaitsForAFailure ==
    \A p \in DOMAIN plans : \A f \in Range(plans[p]), a \in Range(plans[p]) :
        f.status = "failed" /\ a.status = "pending" => a.id \notin Behind(plans[p], f.id)

(* Progress is reported of the plan that was meant, also when it was named  *)
(* by the call that created it and other plans were made since.             *)
ProgressIsOfItsPlan == \A i \in 1..Len(progress) : progress[i].plan = progress[i].meant
=============================================================================
