---------------------------- MODULE MCClustering ----------------------------
(***************************************************************************)
(* Instances of Clustering: three nodes, two of them of the same speed.    *)
(***************************************************************************)
EXTENDS Clustering, MCInputs

MCCorePerformance == 0 :> 1 @@ 1 :> 2 @@ 2 :> 1
MCNumCores == 0 :> 1 @@ 1 :> 1 @@ 2 :> 2
MCNetworkBandwidth == 0 :> 2 @@ 1 :> 2 @@ 2 :> 2
MCMemory == 0 :> 1 @@ 1 :> 1 @@ 2 :> 1

MCBag(workload, cardinality) ==
    [workload |-> workload, input |-> 1, output |-> 1, memory |-> 1, cardinality |-> cardinality]

\* The DAGs with at most maxEdges edges, the ids in any order.
MCSmallDags(size, maxEdges) ==
    {d \in {{}} \cup {Range(f) : f \in [1 .. maxEdges -> Edges(size)]} :
        TopologicalPositions(size, d) # {}}

\* The workflows with these edges; the algorithms do not look at the
\* topological order, so that one of them is enough.
MCWorkflowsOver(size, workloads, dags) ==
    {[size |-> size, workload |-> workload, memory |-> [t \in Ids(size) |-> 1],
      input |-> [t \in Ids(size) |-> 1], output |-> [t \in Ids(size) |-> 1],
      deps |-> deps, position |-> CHOOSE p \in TopologicalPositions(size, deps) : TRUE] :
         workload \in workloads, deps \in dags}

FourTasks == {<<MCBag(1, 1), MCBag(3, 3)>>, <<MCBag(2, 2), MCBag(1, 2)>>}
WithEmptyBag == {<<MCBag(1, 0), MCBag(1, 2)>>, <<MCBag(3, 1), MCBag(1, 0), MCBag(1, 2)>>}
FewEdges == {<<MCBag(1, 5)>>, << >>}

AllBags == FourTasks \cup WithEmptyBag \cup FewEdges

\* What these expand to.
AllWorkflows ==
    MCWorkflowsOver(4, {0 :> 1 @@ 1 :> 3 @@ 2 :> 3 @@ 3 :> 3, 0 :> 2 @@ 1 :> 2 @@ 2 :> 1 @@ 3 :> 1},
                    MCSmallDags(4, 2))
        \cup MCWorkflowsOver(2, {0 :> 1 @@ 1 :> 1}, MCSmallDags(2, 1))
        \cup MCWorkflowsOver(3, {0 :> 3 @@ 1 :> 1 @@ 2 :> 1}, MCSmallDags(3, 3))
        \cup MCWorkflowsOver(5, {[t \in 0 .. 4 |-> 1]}, MCSmallDags(5, 1))
        \cup MCWorkflowsOver(0, {<< >>}, {{}})

\* A definition TLC evaluates once, behind the constant that is given its value.
MCBags == AllBags
MCWorkflows == AllWorkflows

\* Tasks 0 and 2 of the first bag share their successor, 1 and 3 have another.
MCSimilarBags == {<<MCBag(1, 4), MCBag(1, 2)>>}
MCSimilarWorkflows ==
    {ExpandTaskBags(x, {<<0, 4>>, <<2, 4>>, <<1, 5>>, <<3, 5>>}, [t \in 0 .. 5 |-> t]) :
        x \in MCSimilarBags}

MCBoth == {"rbca", "dbca"}
=============================================================================
