-------------------------- MODULE MCListScheduling --------------------------
(***************************************************************************)
(* Instances of ListScheduling: two nodes of different speed and bandwidth,*)
(* all DAGs on three tasks whose ids follow the edges, and a choice of     *)
(* workloads and data sizes that leaves gaps of several lengths on the     *)
(* nodes and has data arrive too late for the other node's bandwidth.      *)
(***************************************************************************)
EXTENDS ListScheduling

MCCorePerformance == 0 :> 1 @@ 1 :> 1
MCNumCores == 0 :> 1 @@ 1 :> 2
MCDifferentBandwidth == 0 :> 1 @@ 1 :> 2
MCMemory == 0 :> 1 @@ 1 :> 2

MCEdges(size) == {e \in (0 .. size - 1) \X (0 .. size - 1) : e[1] < e[2]}

\* Every task declares the same data size at both ends of its edges.
MCWorkflow(size, workload, data, deps) ==
    [size     |-> size,
     workload |-> workload,
     memory   |-> [t \in 0 .. size - 1 |-> 1],
     input    |-> [t \in 0 .. size - 1 |-> data],
     output   |-> [t \in 0 .. size - 1 |-> data],
     deps     |-> deps,
     position |-> [t \in 0 .. size - 1 |-> t]]

MCWorkflows ==
    {MCWorkflow(3, workload, data, deps) :
        workload \in [0 .. 2 -> {1, 3}], data \in {0, 3}, deps \in SUBSET MCEdges(3)}
=============================================================================
