---------------------------- MODULE MCCoreServices ----------------------------
(***************************************************************************)
(* Scheduler and InteractionRouting for TLC.  They are two services of the *)
(* same core loop that share no state, so a behaviour explores one of      *)
(* them, chosen at the start, while the other rests.                       *)
(***************************************************************************)
EXTENDS Scheduler, InteractionRouting

VARIABLE service

mc_vars == <<service, scheduler_vars, routing_vars>>

CoreServicesInit ==
  /\ SchedulerInit /\ RoutingInit
  /\ service \in {"scheduler", "routing"}

InScheduler == service = "scheduler" /\ UNCHANGED <<service, routing_vars>>
InRouting == service = "routing" /\ UNCHANGED <<service, scheduler_vars>>

CoreServicesNext ==
  \/ SchedulerNext /\ InScheduler
  \/ RoutingNext /\ InRouting

CoreServicesSpec ==
  /\ CoreServicesInit /\ [][CoreServicesNext]_mc_vars
  /\ WF_mc_vars(TimePasses /\ InScheduler)
  /\ WF_mc_vars(CoreCalls /\ InScheduler)
  /\ WF_mc_vars(SchedulerTask /\ InScheduler)

CoreServicesTypeOK == SchedulerTypeOK /\ RoutingTypeOK

================================================================================
