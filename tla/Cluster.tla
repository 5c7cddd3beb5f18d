------------------------------ MODULE Cluster ------------------------------
(***************************************************************************)
(* The cluster a workflow is scheduled onto (src/include/cluster).  It is  *)
(* read once and never changes, so it is given by CONSTANTS.               *)
(*                                                                         *)
(* Time.  The code computes with double.  Here time is counted in ticks:   *)
(* one unit of time is Scale ticks, and Scale is a common multiple of all  *)
(* performances and bandwidths, so that every quotient the code forms is a *)
(* whole number of ticks and the model's arithmetic is the exact one that  *)
(* the code approximates.                                                  *)
(***************************************************************************)
EXTENDS Integers, FiniteSetsExt, Functions

CONSTANTS
    NumNodes,          \* nodes.size()
    CorePerformance,   \* cluster_node::core_performance, by node id
    NumCores,          \* cluster_node::num_cores
    NetworkBandwidth,  \* cluster_node::network_bandwidth
    Memory,            \* cluster_node::memory
    Scale              \* ticks in one unit of time

\* The ids cluster::node_ids hands out: the indices of the vector nodes.
Nodes == 0 .. NumNodes - 1

Performance == [n \in Nodes |-> CorePerformance[n] * NumCores[n]]

ExactQuotient(a, b) == CHOOSE q \in 0 .. a : q * b = a

\* Ticks node n needs for one unit of workload, and to send one unit of data.
WorkTime == [n \in Nodes |-> ExactQuotient(Scale, Performance[n])]
DataTime == [n \in Nodes |-> ExactQuotient(Scale, NetworkBandwidth[n])]

ASSUME ClusterAssumption ==
    /\ NumNodes \in Nat \ {0}
    /\ CorePerformance \in [Nodes -> Nat \ {0}]
    /\ NumCores \in [Nodes -> Nat \ {0}]
    /\ NetworkBandwidth \in [Nodes -> Nat \ {0}]
    /\ Memory \in [Nodes -> Nat]

ASSUME ScaleAssumption ==
    /\ Scale \in Nat \ {0}
    /\ \A n \in Nodes : \E q \in 1 .. Scale : q * Performance[n] = Scale
    /\ \A n \in Nodes : \E q \in 1 .. Scale : q * NetworkBandwidth[n] = Scale

\* Fault: a task that needs all of a node's memory does not fit.
EnoughMemory_Strict(n, requirement) == Memory[n] > requirement

EnoughMemory(n, requirement) == Memory[n] >= requirement

NodesWithMemory(requirement) == {n \in Nodes : EnoughMemory(n, requirement)}

\* Fault: min_element, as in worst_performance_node.
BestPerformanceNode_Worst(requirement) ==
    CHOOSE n \in NodesWithMemory(requirement) :
        \A m \in NodesWithMemory(requirement) :
            \/ Performance[n] < Performance[m]
            \/ Performance[n] = Performance[m] /\ n <= m

(***************************************************************************)
(* std::ranges::max_element returns the first maximum, i.e. the lowest id. *)
(* The code dereferences the result without testing for an empty range, so *)
(* callers have to rule out NodesWithMemory(requirement) = {}.             *)
(***************************************************************************)
BestPerformanceNode(requirement) ==
    CHOOSE n \in NodesWithMemory(requirement) :
        \A m \in NodesWithMemory(requirement) :
            \/ Performance[n] > Performance[m]
            \/ Performance[n] = Performance[m] /\ n <= m

(***************************************************************************)
(* mean_performance and mean_bandwidth times size(): multiplying all ranks *)
(* by PerformanceSum * BandwidthSum / NumNodes keeps them whole and in the *)
(* same order (Workflow.tla).                                              *)
(***************************************************************************)
PerformanceSum == SumFunction(Performance)
BandwidthSum == SumFunction(NetworkBandwidth)

\* The assumption under which schedule::is_valid is documented to work.
UniformBandwidth == \A n, m \in Nodes : NetworkBandwidth[n] = NetworkBandwidth[m]
=============================================================================
