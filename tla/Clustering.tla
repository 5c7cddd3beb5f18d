----------------------------- MODULE Clustering -----------------------------
(***************************************************************************)
(* RBCA and DBCA (src/include/algorithms: rbca.hpp, dbca.hpp and           *)
(* common_clustering_based.hpp).  Both go through the bags in file order,  *)
(* divide each bag into groups, sort the groups by workload and place the  *)
(* most expensive group on the best node, and so on.  They differ in how   *)
(* they form the groups: RBCA cuts the bag into consecutive pieces, DBCA   *)
(* grows one group after the other from the tasks that remain.             *)
(***************************************************************************)
EXTENDS Schedule, TaskBags

CONSTANTS
    BagInputs,   \* the sequences of bags considered
    Workflows,   \* what they expand to, with the edges considered
    Algorithms   \* subset of {"rbca", "dbca"}

ASSUME BagInputsAssumption == BagInputs \subseteq Seq(TaskBag)
ASSUME WorkflowsAssumption == \A x \in Workflows : IsWorkflow(x)
ASSUME AlgorithmsAssumption == Algorithms \subseteq {"rbca", "dbca"}

VARIABLES
    algorithm,  \* the function that runs
    bags,       \* the bags w was expanded from
    w,          \* the workflow
    s,          \* the schedule under construction
    bag,        \* index of the bag at hand
    groups,     \* its groups, as sets of tasks
    free,       \* remaining_task_ids of DBCA
    nodes,      \* node_ids_sorted_by_performance_descending
    pending,    \* per group, the tasks the loop over it has not reached
    phase       \* what the function is doing, or how it ended

vars == <<algorithm, bags, w, s, bag, groups, free, nodes, pending, phase>>

\* Ways the functions end: they return, task_intervals.at throws out_of_range,
\* a runtime_error reports an internal bug, or a division by zero crashes.
Outcomes == {"done", "out_of_range", "internal_bug", "crash"}

\* Fault: the bags are worked off from the last to the first.
TasksOf_Reversed(b) == TaskIdsPerBag(bags)[Len(bags) + 1 - b]

TasksOf(b) == TaskIdsPerBag(bags)[b]

Init ==
    /\ algorithm \in Algorithms
    /\ bags \in BagInputs
    /\ w \in Workflows
    /\ w = ExpandTaskBags(bags, w.deps, w.position)
    /\ s = NewSchedule(w, FALSE)
    /\ bag = 1
    /\ groups = << >>
    /\ free = IF bags = << >> THEN {} ELSE Range(TasksOf(1))
    /\ nodes = << >>
    /\ pending = << >>
    /\ phase = "group"

----------------------------------------------------------------------------
NumGroups(b) == Min({Len(TasksOf(b)), NumNodes})

\* Fault: the remainder is left out.
GroupSize_Floor(b, g) == Len(TasksOf(b)) \div NumGroups(b)

\* split_most_evenly: the first total % groups groups get one task more.
GroupSize(b, g) ==
    Len(TasksOf(b)) \div NumGroups(b)
        + IF g <= Len(TasksOf(b)) % NumGroups(b) THEN 1 ELSE 0

\* Fault: the remainder is not counted when the index moves on.
GroupStart_Even(b, g) == (g - 1) * (Len(TasksOf(b)) \div NumGroups(b))

\* bag_index: how many tasks the groups before the g-th have taken.
GroupStart(b, g) == SumFunctionOnSet([h \in 1 .. NumGroups(b) |-> GroupSize(b, h)], 1 .. g - 1)

RuntimeBalancedGroups(b) ==
    [g \in 1 .. NumGroups(b) |->
        {TasksOf(b)[GroupStart(b, g) + j] : j \in 1 .. GroupSize(b, g)}]

Workload(group) == MapThenSumSet(LAMBDA t : w.workload[t], group)

(***************************************************************************)
(* The tasks a loop from task_group::begin() to task_group::end() visits:  *)
(* end() returns task_ids.begin(), so there are none.                      *)
(***************************************************************************)
Visited(group) == {}

\* Stands for the quotient of dependency_correlation_matrix: the successors
\* two tasks have in common.  Only compared where the divisor is the same.
Correlation(t, u) == Cardinality(Successors(w, t) \cap Successors(w, u))

AddedCorrelation(group, t) == MapThenSumSet(LAMBDA u : Correlation(u, t), Visited(group))

\* The average workload of the group times its cardinality.
AverageTotal(group) == MapThenSumSet(LAMBDA u : w.workload[u], Visited(group))

\* The signed difference to the average, times the group's cardinality.
WorkloadDifference(group, t) == AverageTotal(group) - w.workload[t] * Cardinality(group)

\* The loop over the remaining tasks, in ascending order of their ids, keeps
\* the first of those with most correlation and, among them, least difference.
BestFreeTask(group) ==
    CHOOSE t \in free : \A u \in free :
        \/ AddedCorrelation(group, t) > AddedCorrelation(group, u)
        \/ /\ AddedCorrelation(group, t) = AddedCorrelation(group, u)
           /\ \/ WorkloadDifference(group, t) < WorkloadDifference(group, u)
              \/ WorkloadDifference(group, t) = WorkloadDifference(group, u) /\ t <= u

LastGroupFull ==
    groups # << >> => Cardinality(Last(groups)) >= GroupSize(bag, Len(groups))

AllGroupsFull == LastGroupFull /\ Len(groups) = NumGroups(bag)

----------------------------------------------------------------------------
Grouping == phase = "group" /\ bag <= Len(bags)

\* runtime_balanced_task_groups.  For a bag without tasks it divides by zero;
\* where that does not trap there are no groups.
FormRuntimeGroups ==
    /\ Grouping
    /\ algorithm = "rbca"
    /\ groups' = RuntimeBalancedGroups(bag)
    /\ phase' = "match"
    /\ UNCHANGED <<algorithm, bags, w, s, bag, free, nodes, pending>>

DivideByZero ==
    /\ Grouping
    /\ NumGroups(bag) = 0
    /\ phase' = "crash"
    /\ UNCHANGED <<algorithm, bags, w, s, bag, groups, free, nodes, pending>>

\* dependency_balanced_task_groups: the next group starts with the least id.
StartGroup ==
    /\ Grouping
    /\ algorithm = "dbca"
    /\ Len(groups) < NumGroups(bag)
    /\ LastGroupFull
    /\ free # {}
    /\ groups' = Append(groups, {Min(free)})
    /\ free' = free \ {Min(free)}
    /\ UNCHANGED <<algorithm, bags, w, s, bag, nodes, pending, phase>>

\* One iteration of the loop that fills the group.
AddToGroup ==
    /\ Grouping
    /\ algorithm = "dbca"
    /\ ~LastGroupFull
    /\ free # {}
    /\ groups' = [groups EXCEPT ![Len(groups)] = @ \cup {BestFreeTask(Last(groups))}]
    /\ free' = free \ {BestFreeTask(Last(groups))}
    /\ UNCHANGED <<algorithm, bags, w, s, bag, nodes, pending, phase>>

\* All groups are full: the code makes sure that no task is left over and that
\* it never ran out of them.
FinishGroups ==
    /\ Grouping
    /\ algorithm = "dbca"
    /\ AllGroupsFull \/ free = {}
    /\ phase' = IF AllGroupsFull /\ free = {} THEN "match" ELSE "internal_bug"
    /\ UNCHANGED <<algorithm, bags, w, s, bag, groups, free, nodes, pending>>

\* Fault: the slowest nodes first.
NodeOrders_Ascending ==
    {o \in Bijection(1 .. NumNodes, Nodes) :
        \A i, j \in 1 .. NumNodes : i < j => Performance[o[i]] <= Performance[o[j]]}

\* Neither sort is stable: what each may leave behind.
NodeOrders ==
    {o \in Bijection(1 .. NumNodes, Nodes) :
        \A i, j \in 1 .. NumNodes : i < j => Performance[o[i]] >= Performance[o[j]]}

GroupOrders ==
    {[i \in 1 .. Len(groups) |-> groups[f[i]]] :
        f \in {p \in Bijection(1 .. Len(groups), 1 .. Len(groups)) :
                  \A i, j \in 1 .. Len(groups) :
                      i < j => Workload(groups[p[i]]) >= Workload(groups[p[j]])}}

\* The start of select_good_processors_for_expensive_groups.
SortGroups ==
    /\ phase = "match"
    /\ nodes' \in NodeOrders
    /\ groups' \in GroupOrders
    /\ pending' = groups'
    /\ phase' = "insert"
    /\ UNCHANGED <<algorithm, bags, w, s, bag, free>>

\* The loop has come to task t of group g; an unordered_set has no order.
IsNext(g, t) ==
    /\ phase = "insert"
    /\ t \in pending[g]
    /\ \A h \in 1 .. g - 1 : pending[h] = {}

\* Fault: the task is met again.
InsertTask_Again(g, t) ==
    /\ IsNext(g, t)
    /\ PredecessorsScheduled(w, s, t)
    /\ s' = InsertIntoNode(w, s, t, nodes[g])
    /\ UNCHANGED <<algorithm, bags, w, bag, groups, free, nodes, pending, phase>>

InsertTask(g, t) ==
    /\ IsNext(g, t)
    /\ PredecessorsScheduled(w, s, t)
    /\ s' = InsertIntoNode(w, s, t, nodes[g])
    /\ pending' = [pending EXCEPT ![g] = @ \ {t}]
    /\ UNCHANGED <<algorithm, bags, w, bag, groups, free, nodes, phase>>

Throw(g, t) ==
    /\ IsNext(g, t)
    /\ ~PredecessorsScheduled(w, s, t)
    /\ phase' = "out_of_range"
    /\ UNCHANGED <<algorithm, bags, w, s, bag, groups, free, nodes, pending>>

\* Fault: a bag is left out.
NextBag_Skips ==
    /\ phase = "insert"
    /\ \A g \in 1 .. Len(pending) : pending[g] = {}
    /\ bag' = bag + 2
    /\ groups' = << >>
    /\ free' = IF bag + 1 < Len(bags) THEN Range(TasksOf(bag + 2)) ELSE {}
    /\ nodes' = << >>
    /\ pending' = << >>
    /\ phase' = "group"
    /\ UNCHANGED <<algorithm, bags, w, s>>

NextBag ==
    /\ phase = "insert"
    /\ \A g \in 1 .. Len(pending) : pending[g] = {}
    /\ bag' = bag + 1
    /\ groups' = << >>
    /\ free' = IF bag < Len(bags) THEN Range(TasksOf(bag + 1)) ELSE {}
    /\ nodes' = << >>
    /\ pending' = << >>
    /\ phase' = "group"
    /\ UNCHANGED <<algorithm, bags, w, s>>

Return ==
    /\ phase = "group"
    /\ bag > Len(bags)
    /\ phase' = "done"
    /\ UNCHANGED <<algorithm, bags, w, s, bag, groups, free, nodes, pending>>

Next ==
    \/ FormRuntimeGroups
    \/ DivideByZero
    \/ StartGroup
    \/ AddToGroup
    \/ FinishGroups
    \/ SortGroups
    \/ \E g \in 1 .. Len(pending), t \in Tasks(w) : InsertTask(g, t) \/ Throw(g, t)
    \/ NextBag
    \/ Return

\* Sequential functions: as long as a step is possible one is taken.
Spec == Init /\ [][Next]_vars /\ WF_vars(Next)

----------------------------------------------------------------------------
\* Every variable has the type the code declares for it.
TypeOK ==
    /\ IsWorkflow(w)
    /\ s \in Schedules(w)
    /\ bag \in 1 .. Len(bags) + 1
    /\ groups \in Seq(SUBSET Tasks(w))
    /\ free \subseteq Tasks(w)
    /\ nodes \in {<< >>} \cup Bijection(1 .. NumNodes, Nodes)
    /\ pending \in Seq(SUBSET Tasks(w))
    /\ phase \in {"group", "match", "insert"} \cup Outcomes

\* Before any of them is placed, the groups divide the bag: each task is in
\* exactly one, none is empty, there are as many as nodes if the bag has so
\* many tasks, and their sizes differ by at most one ("split as evenly as
\* possible", split_most_evenly).  In particular DBCA neither runs out of tasks
\* nor has one left: the internal errors it guards against do not occur.
GroupsDivideBag ==
    /\ phase # "internal_bug"
    /\ phase \in {"match", "insert"} =>
        /\ UNION Range(groups) = Range(TasksOf(bag))
        /\ Len(groups) = NumGroups(bag)
        /\ \A g, h \in 1 .. Len(groups) :
            /\ groups[g] # {}
            /\ Cardinality(groups[g]) <= Cardinality(groups[h]) + 1
            /\ g # h => groups[g] \cap groups[h] = {}

\* "match most expensive group to best cluster, and so on": over every bag that
\* is finished, a node with more work of the bag than another, idle or not, is
\* not slower than that one.
MoreWorkOnFasterNodes ==
    \A b \in 1 .. bag - 1 : \A n, m \in Nodes :
        LET workOn(x) ==
                Workload({t \in Range(TasksOf(b)) :
                             \E k \in Indices(s.task[t]) : s.task[t][k].node = x})
        IN  workOn(n) > workOn(m) => Performance[n] >= Performance[m]

\* The order of the bags in the file decides whether the functions succeed:
\* they throw out_of_range only if some task depends on one of its own or of a
\* later bag, and never return a schedule if one depends on a later bag.
BagOrderDecides ==
    /\ phase = "out_of_range" =>
           \E e \in w.deps : BagOf(bags, e[1]) >= BagOf(bags, e[2])
    /\ phase = "done" =>
           \A e \in w.deps : BagOf(bags, e[1]) <= BagOf(bags, e[2])

\* Both functions build their schedule as every list scheduling algorithm does.
LS == INSTANCE ListScheduling WITH MemoryFlags <- {FALSE}
ImplementsListScheduling == LS!Spec

\* The comment "find the task with most added similarity out of the remaining
\* free tasks": no task that stays free has more successors in common with the
\* tasks of the group than the one that is added.
MostSimilarAdded ==
    [][\A t, u \in free :
           LET similarity(x) == MapThenSumSet(LAMBDA v : Correlation(v, x), Last(groups))
           IN  AddToGroup /\ t \notin free' /\ u \in free' => similarity(t) >= similarity(u)]_vars

\* Both functions end, with out_of_range, by the division, or with a schedule
\* that runs every task exactly once.
Terminates ==
    <>(\/ phase \in {"out_of_range", "crash"}
       \/ phase = "done" /\ \A t \in Tasks(w) : Len(s.task[t]) = 1)
=============================================================================
