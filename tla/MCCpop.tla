------------------------------- MODULE MCCpop -------------------------------
(***************************************************************************)
(* Instances of Cpop.                                                      *)
(***************************************************************************)
EXTENDS Cpop, MCInputs

MCCorePerformance == 0 :> 1 @@ 1 :> 1
MCNumCores == 0 :> 1 @@ 1 :> 2
MCNetworkBandwidth == 0 :> 2 @@ 1 :> 2
\* The faster node is the smaller one.
MCMemory == 0 :> 2 @@ 1 :> 1

Values3(a, b, c) == 0 :> a @@ 1 :> b @@ 2 :> c

\* Every DAG on three tasks, the ids in any order; the tasks fit everywhere,
\* need the larger node, or, in half of the workflows, fit nowhere.
SmallWorkflows ==
    WorkflowsOver(3, {Values3(1, 1, 1), Values3(3, 1, 2)},
                  {Values3(1, 2, 1), Values3(3, 2, 3)},
                  {Values3(0, 0, 0), Values3(3, 3, 3), Values3(3, 0, 1)}, Dags(3))

EmptyWorkflow == WorkflowOf(0, << >>, << >>, << >>, {}, << >>)

\* TLC evaluates a definition without parameters once, a constant that is
\* given a value each time it is used.
AllWorkflows == SmallWorkflows \cup {EmptyWorkflow}
MCWorkflows == AllWorkflows

\* Every task fits on the larger node, and some on both.
FittingWorkflows ==
    WorkflowsOver(3, {Values3(1, 1, 1)}, {Values3(1, 2, 1), Values3(2, 1, 2)},
                  {Values3(0, 0, 0)}, AscendingDags(3))

MCFittingWorkflows == FittingWorkflows
=============================================================================
