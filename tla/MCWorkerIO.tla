----------------------------- MODULE MCWorkerIO -----------------------------
(***************************************************************************)
(* The worker against its surroundings, in two parts that share nothing:   *)
(* its clock, and the requests of a scan to CoinGlass.                     *)
(***************************************************************************)
EXTENDS CoinGlass, Scheduler

VARIABLE part  \* "requests" or "schedule"

workerVars == <<clientVars, schedulerVars, part>>

Init ==
  /\ SchedulerInit
  /\ \/ part = "requests" /\ ClientInit("new") /\ clock = 0
     \/ part = "schedule" /\ ClientInit("answered")

Next ==
  /\ UNCHANGED part
  /\ \/ part = "requests" /\ ClientNext /\ UNCHANGED schedulerVars
     \/ part = "schedule" /\ SchedulerNext /\ UNCHANGED clientVars

Spec == Init /\ [][Next]_workerVars /\ (part = "requests" => ClientFairness)

=============================================================================
