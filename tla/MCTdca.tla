------------------------------- MODULE MCTdca -------------------------------
(***************************************************************************)
(* Instances of Tdca: three nodes of which the first is twice as fast, so  *)
(* that the worst node has the id 1, and every DAG on three tasks; some    *)
(* DAGs on four and five.                                                  *)
(***************************************************************************)
EXTENDS Tdca, MCInputs

MCCorePerformance == 0 :> 1 @@ 1 :> 1 @@ 2 :> 1
MCNumCores == 0 :> 2 @@ 1 :> 1 @@ 2 :> 1
MCNetworkBandwidth == 0 :> 2 @@ 1 :> 2 @@ 2 :> 2
MCMemory == 0 :> 1 @@ 1 :> 1 @@ 2 :> 1

Values3(a, b, c) == 0 :> a @@ 1 :> b @@ 2 :> c
Values4(a, b, c, d) == 0 :> a @@ 1 :> b @@ 2 :> c @@ 3 :> d

\* A task with three predecessors, a diamond, two trails that share a task, and
\* two trails that are joined by an edge.
Dags4 ==
    {{<<0, 3>>, <<1, 3>>, <<2, 3>>},
     {<<0, 1>>, <<0, 2>>, <<1, 3>>, <<2, 3>>},
     {<<0, 2>>, <<1, 2>>, <<1, 3>>},
     {<<0, 1>>, <<0, 3>>, <<2, 3>>}}

\* More tasks without successors than nodes, all with the same predecessor; the
\* last of them is left over by the initial groups.
Fork(output) ==
    WorkflowOf(5, [t \in Ids(5) |-> t + 1], [t \in Ids(5) |-> 1],
               [t \in Ids(5) |-> output], {<<0, t>> : t \in 1 .. 4}, [t \in Ids(5) |-> t])

AllWorkflows ==
    WorkflowsOver(3, {Values3(1, 1, 1), Values3(3, 1, 2)}, {Values3(1, 1, 1)},
                  {Values3(1, 1, 1), Values3(7, 7, 7)}, AscendingDags(3))
    \cup
    WorkflowsOver(4, {Values4(1, 4, 2, 1)}, {Values4(1, 1, 1, 1)},
                  {Values4(1, 1, 1, 1), Values4(5, 5, 5, 5)}, Dags4)
    \cup
    {Fork(1), Fork(5)}

\* TLC evaluates a definition without parameters once, a constant that is
\* given a value each time it is used.
MCWorkflows == AllWorkflows

(***************************************************************************)
(* For the refinement of edges: two equal nodes; task 3 needs 0 and 2, and *)
(* the long task 1 keeps 2 from moving to the node of 0 and 3 before.      *)
(***************************************************************************)
MCOne == 0 :> 1 @@ 1 :> 1

MCSharedNode ==
    WorkflowsOver(4, {Values4(4, 4, 1, 1)}, {Values4(1, 1, 1, 1)}, {Values4(2, 2, 2, 2)},
                  {{<<0, 3>>, <<2, 3>>}})
=============================================================================
