---------------------------- MODULE EarliestTimes ----------------------------
(***************************************************************************)
(* workflow::compute_est_and_eft (src/include/workflow/workflow.hpp): for  *)
(* every task and node the earliest start and finish time, and for every   *)
(* task a critical predecessor.  TDCA computes them before it places any   *)
(* task, so that here list scheduling follows once all times are computed, *)
(* and what the times promise can be compared with what schedules do.      *)
(***************************************************************************)
EXTENDS ListScheduling

VARIABLES
    est,      \* est_data, by node and task
    eft,      \* eft_data
    cpred,    \* critical predecessor, NoTask for independent tasks
    computed  \* the tasks whose times are computed

times == <<est, eft, cpred, computed>>

\* std::numeric_limits<task_id>::max().
NoTask == -1

BestNode == BestPerformanceNode(0)

TimesInit ==
    /\ Init
    /\ est = [n \in Nodes |-> [t \in Tasks(w) |-> 0]]
    /\ eft = [n \in Nodes |-> [t \in Tasks(w) |-> 0]]
    /\ cpred = [t \in Tasks(w) |-> 0]
    /\ computed = {}

\* Fault: the alternative of staying on the same node is not considered.
IncomingEft_Transferred(p, n) ==
    eft[BestNode][p] + TransferCost(BestNode, n, DataTransfer(w, p), 0)

\* When the data of p can be on node n: from the best node, or from n itself.
\* uniform_bandwidth is the bandwidth of node 0.
IncomingEft(p, n) ==
    Min({eft[BestNode][p] + TransferCost(BestNode, n, DataTransfer(w, p), 0),
         eft[n][p] + TransferCost(n, n, DataTransfer(w, p), 0)})

EarliestStart(t, n) == Max({0} \cup {IncomingEft(p, n) : p \in Predecessors(w, t)})

\* Fault: the number of tasks stands for none.
CriticalPredecessors_Size(t) ==
    IF Predecessors(w, t) = {} THEN {w.size}
    ELSE {p \in Predecessors(w, t) : IncomingEft(p, BestNode) = EarliestStart(t, BestNode)}

\* Fault: min_element.
CriticalPredecessors_Least(t) ==
    IF Predecessors(w, t) = {} THEN {NoTask}
    ELSE {p \in Predecessors(w, t) :
             \A q \in Predecessors(w, t) : IncomingEft(p, BestNode) <= IncomingEft(q, BestNode)}

\* Any of the predecessors max_element may return on the best node, as an
\* unordered_map has no order.
CriticalPredecessors(t) ==
    IF Predecessors(w, t) = {} THEN {NoTask}
    ELSE {p \in Predecessors(w, t) : IncomingEft(p, BestNode) = EarliestStart(t, BestNode)}

\* One iteration of the loop over the topological order; the loop over the
\* nodes inside it reads only the times of predecessors.
Compute(t) ==
    /\ t \notin computed
    /\ \A u \in Tasks(w) \ computed : w.position[t] <= w.position[u]
    /\ est' = [n \in Nodes |-> [est[n] EXCEPT ![t] = EarliestStart(t, n)]]
    /\ eft' = [n \in Nodes |->
                  [eft[n] EXCEPT ![t] = EarliestStart(t, n) + ComputationTime(w, t, n)]]
    /\ \E p \in CriticalPredecessors(t) : cpred' = [cpred EXCEPT ![t] = p]
    /\ computed' = computed \cup {t}
    /\ UNCHANGED <<w, s>>

PlaceComputed(t, n) ==
    /\ computed = Tasks(w)
    /\ Place(t, n)
    /\ UNCHANGED times

TimesNext ==
    \/ \E t \in Tasks(w) : Compute(t)
    \/ \E t \in Tasks(w), n \in Nodes : PlaceComputed(t, n)

TimesSpec == TimesInit /\ [][TimesNext]_<<vars, times>>

----------------------------------------------------------------------------
\* Every variable of the computation has the type the code declares for it.
TimesTypeOK ==
    /\ est \in [Nodes -> [Tasks(w) -> Nat]]
    /\ eft \in [Nodes -> [Tasks(w) -> Nat]]
    /\ cpred \in [Tasks(w) -> Tasks(w) \cup {NoTask}]
    /\ computed \subseteq Tasks(w)

\* "the node with the best eft will always be the one with the best
\* performance" (comment in compute_est_and_eft): the computation only asks
\* the best node and the node itself where a predecessor should have run.
BestNodeHasBestEft ==
    \A t \in computed, n \in Nodes : eft[BestNode][t] <= eft[n][t]

\* The times are bounds: with equal bandwidths no schedule, whatever the order,
\* the choice of nodes and the duplication, starts a task on a node before its
\* est there, or ends it before its eft.
NeverBeforeEst ==
    UniformBandwidth =>
        \A t \in Tasks(w) : \A k \in Indices(s.task[t]) :
            LET i == s.task[t][k]
            IN  t \in computed /\ est[i.node][t] <= i.start /\ eft[i.node][t] <= i.end

\* Following cpred on the best node leaves no gap: a task there can start when
\* its critical predecessor ends, no other predecessor ends later, and only
\* independent tasks have none.  TDCA follows these trails without a check.
CriticalTrailIsTight ==
    \A t \in computed :
        IF Predecessors(w, t) = {}
        THEN est[BestNode][t] = 0 /\ cpred[t] = NoTask
        ELSE /\ cpred[t] \in Predecessors(w, t)
             /\ est[BestNode][t] = eft[BestNode][cpred[t]]
             /\ \A p \in Predecessors(w, t) : eft[BestNode][p] <= eft[BestNode][cpred[t]]
=============================================================================
