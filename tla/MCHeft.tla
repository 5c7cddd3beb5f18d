------------------------------- MODULE MCHeft -------------------------------
(***************************************************************************)
(* Instances of Heft.                                                      *)
(***************************************************************************)
EXTENDS Heft, MCInputs

MCCorePerformance == 0 :> 1 @@ 1 :> 1
MCNumCores == 0 :> 1 @@ 1 :> 2
MCNetworkBandwidth == 0 :> 2 @@ 1 :> 2
MCMemory == 0 :> 1 @@ 1 :> 2

Values3(a, b, c) == 0 :> a @@ 1 :> b @@ 2 :> c

\* Every DAG on three tasks, the ids in any order, with one task too large for
\* the slower node and, in half of the workflows, one too large for both.
SmallWorkflows ==
    WorkflowsOver(3, {Values3(1, 1, 1), Values3(3, 1, 2)},
                  {Values3(1, 2, 1), Values3(1, 2, 3)},
                  {Values3(0, 0, 0), Values3(3, 3, 3), Values3(3, 0, 1)}, Dags(3))

\* Tasks 0 and 1 feed 2, and 3 feeds 4; 0, 2 and 4 only fit on node 1, where
\* 2 has to wait for the data of 1 and 4 is ready in between.
Values5(a, b, c, d, e) == 0 :> a @@ 1 :> b @@ 2 :> c @@ 3 :> d @@ 4 :> e

MCGapWorkflows ==
    WorkflowsOver(5, {Values5(4, 1, 2, d, 2) : d \in {1, 2}}, {Values5(2, 1, 2, 1, 2)},
                  {Values5(8, 8, 0, 0, 0)}, {{<<0, 2>>, <<1, 2>>, <<3, 4>>}})

\* TLC evaluates a definition without parameters once, a constant that is
\* given a value each time it is used.
MCWorkflows == SmallWorkflows
=============================================================================
