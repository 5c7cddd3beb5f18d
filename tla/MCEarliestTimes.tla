--------------------------- MODULE MCEarliestTimes ---------------------------
(***************************************************************************)
(* Instances of EarliestTimes: two nodes, the second twice as fast, every  *)
(* DAG on three tasks, data that is cheap or dear to move, and all         *)
(* schedules with at most one copy of a task on each node.                 *)
(***************************************************************************)
EXTENDS EarliestTimes, MCInputs

MCCorePerformance == 0 :> 1 @@ 1 :> 1
MCNumCores == 0 :> 1 @@ 1 :> 2
MCNetworkBandwidth == 0 :> 2 @@ 1 :> 2
MCMemory == 0 :> 1 @@ 1 :> 2

Values3(a, b, c) == 0 :> a @@ 1 :> b @@ 2 :> c

AllWorkflows ==
    WorkflowsOver(3, {Values3(1, 1, 1), Values3(3, 1, 2)}, {Values3(1, 1, 1)},
                  {Values3(1, 1, 1), Values3(5, 5, 5), Values3(5, 0, 1)}, Dags(3))

\* TLC evaluates a definition without parameters once, a constant that is
\* given a value each time it is used.
MCWorkflows == AllWorkflows
=============================================================================
