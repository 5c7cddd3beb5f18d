-------------------------------- MODULE Heft --------------------------------
(***************************************************************************)
(* HEFT (src/include/algorithms/heft.hpp): the upward ranks are computed   *)
(* one task after the other against the topological order, the tasks are   *)
(* sorted by descending rank, and each is inserted on the node where it    *)
(* finishes earliest.  The sort is not stable, so tasks of equal rank come *)
(* in any order.                                                           *)
(***************************************************************************)
EXTENDS Schedule

CONSTANTS
    Workflows,   \* the workflows considered
    MemoryFlags  \* the values of the -m flag considered

ASSUME WorkflowsAssumption == \A x \in Workflows : IsWorkflow(x)
ASSUME MemoryFlagsAssumption == MemoryFlags \subseteq BOOLEAN

VARIABLES
    w,       \* the workflow, fixed once chosen
    s,       \* the schedule under construction
    upward,  \* upward_ranks; meaningful for the tasks in ranked
    ranked,  \* the tasks whose upward rank is computed
    order,   \* priority_list
    next,    \* index in order of the next task to insert
    phase    \* what the function is doing, or how it ended

vars == <<w, s, upward, ranked, order, next, phase>>

\* Ways heft ends: it returns, insert_into_best_eft_node_schedule throws
\* logic_error, or task_intervals.at throws out_of_range.
Outcomes == {"done", "no_memory", "out_of_range"}

Init ==
    /\ w \in Workflows
    /\ \E useMemory \in MemoryFlags : s = NewSchedule(w, useMemory)
    /\ upward = [t \in Tasks(w) |-> 0]
    /\ ranked = {}
    /\ order = << >>
    /\ next = 1
    /\ phase = "rank"

\* One iteration of all_upward_ranks: the last task of the topological order
\* that has no rank yet.  Performance and bandwidth are the means, see Cluster.
RankTask(t) ==
    /\ phase = "rank"
    /\ t \notin ranked
    /\ \A u \in Tasks(w) \ ranked : w.position[u] <= w.position[t]
    /\ upward' = [upward EXCEPT ![t] = UpwardRank(w, upward, BandwidthSum, PerformanceSum, t)]
    /\ ranked' = ranked \cup {t}
    /\ UNCHANGED <<w, s, order, next, phase>>

\* Fault: ascending ranks.
PriorityLists_Ascending ==
    {list \in Bijection(1 .. w.size, Tasks(w)) :
        \A i, j \in 1 .. w.size : i < j => upward[list[i]] <= upward[list[j]]}

\* What std::ranges::sort by descending rank may leave in the list.
PriorityLists ==
    {list \in Bijection(1 .. w.size, Tasks(w)) :
        \A i, j \in 1 .. w.size : i < j => upward[list[i]] >= upward[list[j]]}

Sort ==
    /\ phase = "rank"
    /\ ranked = Tasks(w)
    /\ order' \in PriorityLists
    /\ phase' = "insert"
    /\ UNCHANGED <<w, s, upward, ranked, next>>

\* Fault: the loop does not move on to the next task.
InsertNext_Again ==
    /\ phase = "insert"
    /\ next <= w.size
    /\ PredecessorsScheduled(w, s, order[next])
    /\ \E n \in CandidateNodes(w, s, order[next]) :
           /\ IsBestNode(w, s, order[next], n, FALSE)
           /\ s' = InsertIntoNode(w, s, order[next], n)
    /\ UNCHANGED <<w, upward, ranked, order, next, phase>>

InsertNext ==
    /\ phase = "insert"
    /\ next <= w.size
    /\ PredecessorsScheduled(w, s, order[next])
    /\ \E n \in CandidateNodes(w, s, order[next]) :
           /\ IsBestNode(w, s, order[next], n, FALSE)
           /\ s' = InsertIntoNode(w, s, order[next], n)
    /\ next' = next + 1
    /\ UNCHANGED <<w, upward, ranked, order, phase>>

\* The filter on memory comes first: the ready time of a task is only asked
\* for on the nodes it leaves.
Throw ==
    /\ phase = "insert"
    /\ next <= w.size
    /\ CandidateNodes(w, s, order[next]) # {} => ~PredecessorsScheduled(w, s, order[next])
    /\ phase' = IF CandidateNodes(w, s, order[next]) = {} THEN "no_memory" ELSE "out_of_range"
    /\ UNCHANGED <<w, s, upward, ranked, order, next>>

Return ==
    /\ phase = "insert"
    /\ next > w.size
    /\ phase' = "done"
    /\ UNCHANGED <<w, s, upward, ranked, order, next>>

Next ==
    \/ \E t \in Tasks(w) : RankTask(t)
    \/ Sort
    \/ InsertNext
    \/ Throw
    \/ Return

\* heft is a sequential function: as long as it can take a step it does.
Spec == Init /\ [][Next]_vars /\ WF_vars(Next)

----------------------------------------------------------------------------
\* Every variable has the type the code declares for it.
TypeOK ==
    /\ IsWorkflow(w)
    /\ s \in Schedules(w)
    /\ upward \in [Tasks(w) -> Nat]
    /\ ranked \subseteq Tasks(w)
    /\ phase \in {"rank", "insert"} \cup Outcomes
    /\ phase = "rank" => order = << >>
    /\ phase # "rank" => order \in Bijection(1 .. w.size, Tasks(w))
    /\ next \in 1 .. w.size + 1

\* The paths that start at t, as sets of tasks, and what their tasks and the
\* transfers between them cost.
PathsFrom(t) ==
    {c \in SUBSET Tasks(w) :
        /\ t \in c
        /\ \A u \in c : w.position[t] <= w.position[u]
        /\ \A a, b \in c :
               \/ w.position[a] >= w.position[b]
               \/ \E x \in c : w.position[a] < w.position[x] /\ w.position[x] < w.position[b]
               \/ <<a, b>> \in w.deps}

Followed(c) == {u \in c : \E x \in c : w.position[u] < w.position[x]}

WorkCost == [u \in Tasks(w) |-> w.workload[u] * BandwidthSum]
DataCost == [u \in Tasks(w) |-> DataTransfer(w, u) * PerformanceSum]

PathCost(c) == SumFunctionOnSet(WorkCost, c) + SumFunctionOnSet(DataCost, Followed(c))

\* The rank all_upward_ranks computes is the cost of the longest path to an
\* exit; in any order but against the topological one it would read a rank
\* that is not there yet (upward_ranks.at throws) or not final.
UpwardIsLongestPath ==
    \A t \in ranked : upward[t] = Max({PathCost(c) : c \in PathsFrom(t)})

\* A task's rank exceeds those of its successors, so that sorting by rank
\* sorts topologically, whatever the sort does with equal ranks.
RanksDescend ==
    \A p, t \in ranked : <<p, t>> \in w.deps => upward[p] > upward[t]

\* No task is ever asked for its ready time before its predecessors are
\* scheduled: task_intervals.at in get_earliest_data_available_time is safe.
NeverOutOfRange == phase # "out_of_range"

\* "tasks are only scheduled onto cluster nodes with sufficient memory"
\* (README, -m): every placed task fits its node, and logic_error is thrown
\* exactly for workflows that have a task no node can hold: HEFT neither gives
\* up on a feasible input nor returns without the task.
MemoryDecides ==
    s.useMemory =>
        /\ \A t \in Tasks(w) : \A k \in Indices(s.task[t]) :
               EnoughMemory(s.task[t][k].node, w.memory[t])
        /\ phase = "no_memory" => \E t \in Tasks(w) : NodesWithMemory(w.memory[t]) = {}
        /\ phase = "done" => \A t \in Tasks(w) : NodesWithMemory(w.memory[t]) # {}

\* HEFT builds its schedule as every list scheduling algorithm does, and so
\* inherits what ListScheduling guarantees of schedules.
LS == INSTANCE ListScheduling
ImplementsListScheduling == LS!Spec

\* The comment on compute_earliest_finish_time, "returns EFT and iterator before
\* which the task could be scheduled": from the ready time on there is no time
\* before the chosen start at which the task would fit on its node.
SlotIsEarliest ==
    [][\A t \in Tasks(w) :
           ~Scheduled(s, t) /\ Scheduled(s', t) =>
               LET i == s'.task[t][1]
               IN  \A time \in TaskReadyTime(w, s, t, i.node) .. i.start - 1 :
                       ~FreeFrom(s.node[i.node], ComputationTime(w, t, i.node), time)]_vars

\* HEFT always ends, with the error for memory, which needs the flag, or with a
\* schedule that runs every task exactly once.
Terminates ==
    <>(\/ phase = "no_memory" /\ s.useMemory
       \/ phase = "done" /\ \A t \in Tasks(w) : Len(s.task[t]) = 1)
=============================================================================
