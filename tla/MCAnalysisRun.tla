---------------------------- MODULE MCAnalysisRun ----------------------------
(***************************************************************************)
(* Model checking of AnalysisRun: the worker with two candidates and the   *)
(* pipeline command with one share the budget.                             *)
(***************************************************************************)
EXTENDS AnalysisRun

MCCount == [r \in Runs |-> IF r = "worker" THEN 2 ELSE 1]
MCTasks == RunTasks
=============================================================================
