-------------------------------- MODULE Tdca --------------------------------
(***************************************************************************)
(* TDCA (src/include/algorithms/tdca.hpp): from the earliest times of      *)
(* EarliestTimes it forms a group of tasks for every node, each a trail of *)
(* predecessors, gives the tasks that are left to the node on which they   *)
(* start first, and then changes the groups in three phases, duplication,  *)
(* merging and refinement, keeping a change if the schedule of the changed *)
(* groups does not get longer.  s is the schedule at hand, curr_sched.     *)
(***************************************************************************)
EXTENDS EarliestTimes

VARIABLES
    groups,      \* the task_ids of each node's task_group
    assigned,    \* assigned_task_ids
    free,        \* remaining_node_ids, later unoccupied_nodes
    current,     \* curr_task_id on its way up
    node,        \* curr_node_id
    round,       \* iter_num
    index,       \* i, the task of the node's group before which it is split
    edges,       \* differing_edges that are still to be looked at
    phase        \* what the function is doing, or how it ended

tdcaVars == <<w, s, times, groups, assigned, free, current, node, round, index, edges, phase>>

NumIterations == 4

TdcaInit ==
    /\ TimesInit
    /\ groups = [n \in Nodes |-> {}]
    /\ assigned = {}
    /\ free = {}
    /\ current = 0
    /\ node = 0
    /\ round = 0
    /\ index = 0
    /\ edges = {}
    /\ phase = "times"

----------------------------------------------------------------------------
\* The elements of S in ascending order of key, which is different for each: the
\* k-th is the one behind k - 1 others.
NumBelow(S, key, x) == Cardinality({y \in S : key[y] < key[x]})

Ascending(S, key) ==
    [k \in 1 .. Cardinality(S) |-> CHOOSE x \in S : NumBelow(S, key, x) = k - 1]

\* get_tasks_in_topologcal_order.
InOrder(tasks) == Ascending(tasks, w.position)

\* The tasks of the groups as schedule_from_groups inserts them: task by task
\* in topological order and, for each task, node by node.
Placements(g) ==
    LET all == Tasks(w) \X Nodes
    IN  Ascending({place \in all : place[1] \in g[place[2]]},
                  [place \in all |-> w.position[place[1]] * NumNodes + place[2]])

(***************************************************************************)
(* schedule_from_groups where it does not throw: without the permission    *)
(* for unscheduled predecessors task_intervals.at does, unless CanSchedule.*)
(* built[k] holds the one schedule of the first k placements; as a set, so *)
(* that TLC evaluates it once.                                             *)
(***************************************************************************)
ScheduleOf(g) ==
    LET places == Placements(g)
        built[k \in 0 .. Len(places)] ==
            IF k = 0 THEN {NewSchedule(w, FALSE)}
            ELSE {InsertIntoNode(w, x, place[1], place[2]) :
                     x \in built[k - 1], place \in {places[k]}}
    IN  CHOOSE x \in built[Len(places)] : TRUE

CanSchedule(g) ==
    \A n \in Nodes : \A t \in g[n] : Predecessors(w, t) \subseteq UNION Range(g)

WorstNode ==
    CHOOSE n \in Nodes : \A m \in Nodes :
        \/ Performance[n] < Performance[m]
        \/ Performance[n] = Performance[m] /\ n <= m

(***************************************************************************)
(* The level is the upward rank for a performance that is the id of the    *)
(* worst node, times that id and the uniform bandwidth.  For id 0 all      *)
(* levels are infinite, that is, equal.                                    *)
(***************************************************************************)
Level ==
    LET rank[t \in Tasks(w)] == UpwardRank(w, rank, NetworkBandwidth[0], WorstNode, t)
    IN  [t \in Tasks(w) |-> IF WorstNode = 0 THEN 0 ELSE rank[t]]

\* The next of the nodes sorted by ascending performance, from the back.
Fastest(nodes) == {n \in nodes : \A m \in nodes : Performance[n] >= Performance[m]}

----------------------------------------------------------------------------
\* Initial groups.

ComputeTimes ==
    /\ phase = "times"
    /\ \E t \in Tasks(w) : Compute(t)
    /\ UNCHANGED <<groups, assigned, free, current, node, round, index, edges, phase>>

StartClustering ==
    /\ phase = "times"
    /\ computed = Tasks(w)
    /\ free' = Nodes
    /\ phase' = "cluster"
    /\ UNCHANGED <<w, s, times, groups, assigned, current, node, round, index, edges>>

\* The next task of least level starts a group of its own; tasks that are
\* assigned already are skipped, so that the order of the rest decides.
StartTrail ==
    /\ phase = "cluster"
    /\ \E t \in Tasks(w) \ assigned, n \in Fastest(free) :
           /\ \A u \in Tasks(w) \ assigned : Level[t] <= Level[u]
           /\ groups' = [groups EXCEPT ![n] = @ \cup {t}]
           /\ assigned' = assigned \cup {t}
           /\ free' = free \ {n}
           /\ current' = t
           /\ node' = n
    /\ phase' = "bubble"
    /\ UNCHANGED <<w, s, times, round, index, edges>>

\* p should not run on n: the best node has finished and sent it by then.
TooLate(p, n) == eft[n][p] > eft[BestNode][p] + DataTransfer(w, p) * DataTime[0]

\* find_better_predecessor: what min_element may return, as the incoming edges
\* are an unordered_map, among the predecessors nobody has.
BetterPredecessors(t, n) ==
    LET candidates == {p \in Predecessors(w, t) \ assigned : ~TooLate(p, n)}
    IN  {p \in candidates : \A q \in candidates : eft[n][p] <= eft[n][q]}

\* The critical predecessor, in another group or not, or a better one.
NextOnTrail(t, n) ==
    IF /\ Cardinality(Predecessors(w, t)) > 1
       /\ cpred[t] \in assigned \/ TooLate(cpred[t], n)
    THEN BetterPredecessors(t, n)
    ELSE {cpred[t]}

\* Fault: the loop forgets to move up to the predecessor.
Bubble_Stays ==
    /\ phase = "bubble"
    /\ Predecessors(w, current) # {}
    /\ \E p \in NextOnTrail(current, node) :
           /\ groups' = [groups EXCEPT ![node] = @ \cup {p}]
           /\ assigned' = assigned \cup {p}
    /\ UNCHANGED <<w, s, times, free, current, node, round, index, edges, phase>>

Bubble ==
    /\ phase = "bubble"
    /\ Predecessors(w, current) # {}
    /\ \E p \in NextOnTrail(current, node) :
           /\ groups' = [groups EXCEPT ![node] = @ \cup {p}]
           /\ assigned' = assigned \cup {p}
           /\ current' = p
    /\ UNCHANGED <<w, s, times, free, node, round, index, edges, phase>>

EndTrail ==
    /\ phase = "bubble"
    /\ Predecessors(w, current) # {} => NextOnTrail(current, node) = {}
    /\ phase' = "cluster"
    /\ UNCHANGED <<w, s, times, groups, assigned, free, current, node, round, index, edges>>

\* The groups are scheduled although predecessors may still be missing.
StartRest ==
    /\ phase = "cluster"
    /\ assigned # Tasks(w) => free = {}
    /\ s' = ScheduleOf(groups)
    /\ phase' = "rest"
    /\ UNCHANGED <<w, times, groups, assigned, free, current, node, round, index, edges>>

\* insert_into_best_eft_node_schedule by est, in topological order; without the
\* permission for unscheduled predecessors it could throw.
PlaceRest ==
    /\ phase = "rest"
    /\ \E t \in Tasks(w) \ UNION Range(groups), n \in Nodes :
           /\ \A u \in Tasks(w) \ UNION Range(groups) : w.position[t] <= w.position[u]
           /\ IsBestNode(w, s, t, n, TRUE)
           /\ groups' = [groups EXCEPT ![n] = @ \cup {t}]
           /\ s' = InsertIntoNode(w, s, t, n)
           /\ phase' = IF PredecessorsScheduled(w, s, t) THEN phase ELSE "thrown"
    /\ UNCHANGED <<w, times, assigned, free, current, node, round, index, edges>>

----------------------------------------------------------------------------
\* Changing the groups.  A change is kept if its schedule is not longer.

Improves(g) == CanSchedule(g) /\ Makespan(ScheduleOf(g)) <= Makespan(s)

Attempt(g) ==
    \E new \in {ScheduleOf(g)} :
        /\ phase' = IF CanSchedule(g) THEN phase ELSE "thrown"
        /\ IF CanSchedule(g) /\ Makespan(new) <= Makespan(s)
           THEN groups' = g /\ s' = new
           ELSE UNCHANGED <<groups, s>>

\* Fault: without the guard task_ids.size() > 1.
LastIndex_Unguarded(group) == Cardinality(group) - 1

LastIndex(group) == Max({0, Cardinality(group) - 1})

\* Fault: the loop over the nodes does not count the iterations.
NextTurn_NotCounted ==
    /\ node' = (node + 1) % NumNodes
    /\ round' = round

\* The loops over iter_num and the nodes, one inside the other.
NextTurn ==
    /\ node' = (node + 1) % NumNodes
    /\ round' = IF node = NumNodes - 1 THEN round + 1 ELSE round

StartDuplication ==
    /\ phase = "rest"
    /\ UNION Range(groups) = Tasks(w)
    /\ s' = ScheduleOf(groups)
    /\ free' = {n \in Nodes : groups[n] = {}}
    /\ node' = 0
    /\ index' = LastIndex(groups[0])
    /\ phase' = IF CanSchedule(groups) THEN "duplicate" ELSE "thrown"
    /\ UNCHANGED <<w, times, groups, assigned, current, round, edges>>

\* The trail of critical predecessors from t up to an independent task.
Trail(t) ==
    LET trail[u \in Tasks(w)] ==
            IF Predecessors(w, u) = {} THEN {} ELSE {cpred[u]} \cup trail[cpred[u]]
    IN  trail[t]

\* The tasks before the split move to node n, the trail of the first one behind
\* it is duplicated in their place.
Split(tasks, n) ==
    LET moved     == {tasks[k] : k \in 1 .. index}
        removed   == [groups EXCEPT ![node] = @ \ moved]
        relocated == [removed EXCEPT ![n] = @ \cup moved]
    IN  [relocated EXCEPT ![node] = @ \cup Trail(tasks[index + 1])]

\* Fault: a node stays in unoccupied_nodes when it is taken.
Unoccupied_Kept(n) == free

Unoccupied(n) == free \ {n}

TrySplit ==
    /\ phase = "duplicate"
    /\ round < NumIterations
    /\ index > 0
    /\ \E n \in IF free = {} THEN {BestNode} ELSE Fastest(free) :
           /\ free' = Unoccupied(n)
           /\ \E tasks \in {InOrder(groups[node])} : \E changed \in {Split(tasks, n)} :
                  IF tasks[index] = cpred[tasks[index + 1]]
                  THEN index' = index - 1 /\ UNCHANGED <<groups, s, phase>>
                  ELSE /\ Attempt(changed)
                       /\ index' = IF Improves(changed) THEN 0 ELSE index - 1
    /\ UNCHANGED <<w, times, assigned, current, node, round, edges>>

\* With the node's splits done, the trail of its first task is tried.
TryTrail ==
    /\ phase = "duplicate"
    /\ round < NumIterations
    /\ index = 0
    /\ LET tasks == InOrder(groups[node])
       IN  IF tasks # << >> /\ Predecessors(w, Head(tasks)) # {}
           THEN \E changed \in {[groups EXCEPT ![node] = @ \cup Trail(Head(tasks))]} :
                    Attempt(changed)
           ELSE UNCHANGED <<groups, s, phase>>
    /\ NextTurn
    /\ index' = LastIndex(groups'[node'])
    /\ UNCHANGED <<w, times, assigned, free, current, edges>>

StartMerging ==
    /\ phase = "duplicate"
    /\ round = NumIterations
    /\ s' = ScheduleOf(groups)
    /\ round' = 0
    /\ index' = 0
    /\ phase' = IF CanSchedule(groups) THEN "merge" ELSE "thrown"
    /\ UNCHANGED <<w, times, groups, assigned, free, current, node, edges>>

\* Fault: the tasks are added to the best node before the node is cleared.
Merged_AddsFirst ==
    LET added == [groups EXCEPT ![BestNode] = @ \cup groups[node]]
    IN  [added EXCEPT ![node] = {}]

Merged ==
    LET cleared == [groups EXCEPT ![node] = {}]
    IN  [cleared EXCEPT ![BestNode] = @ \cup groups[node]]

TryMerge ==
    /\ phase = "merge"
    /\ round < NumIterations
    /\ \E changed \in {Merged} : Attempt(changed)
    /\ NextTurn
    /\ UNCHANGED <<w, times, assigned, free, current, index, edges>>

\* get_different_node_edges: the edges of which find_predecessor_interval finds
\* the first fitting copy of the predecessor on another node.
DifferentNodeEdges(x) ==
    LET source(p, i) == x.task[p][Min(FittingCopies(w, x, p, i))].node
    IN  UNION {UNION {{[from |-> p, fromNode |-> source(p, i), to |-> t, toNode |-> i.node] :
                           p \in {q \in Predecessors(w, t) : source(q, i) # i.node}} :
                      i \in Range(x.task[t])} :
               t \in Tasks(w)}

\* Otherwise get_different_node_edges throws: "Invalid schedule at end of TDCA".
EveryPredecessorFits(x) ==
    \A t \in Tasks(w) : \A i \in Range(x.task[t]) : \A p \in Predecessors(w, t) :
        FittingCopies(w, x, p, i) # {}

StartRefining ==
    /\ phase = "merge"
    /\ round = NumIterations
    /\ s' = ScheduleOf(groups)
    /\ edges' = IF EveryPredecessorFits(s') THEN DifferentNodeEdges(s') ELSE {}
    /\ phase' = IF CanSchedule(groups) /\ EveryPredecessorFits(s') THEN "refine" ELSE "thrown"
    /\ UNCHANGED <<w, times, groups, assigned, free, current, node, round, index>>

(***************************************************************************)
(* The first end of an edge also runs on the node of the second.  It is to *)
(* leave its own node if it has no successor there, but only if it is not  *)
(* there, and remove_tasks throws for a task that is not there.            *)
(***************************************************************************)
TryEdge(e) ==
    LET added   == [groups EXCEPT ![e.toNode] = @ \cup {e.from}]
        removes == /\ Successors(w, e.from) \cap added[e.fromNode] = {}
                   /\ e.from \notin added[e.fromNode]
    IN  /\ phase = "refine"
        /\ IF removes THEN phase' = "thrown" /\ UNCHANGED <<groups, s>>
           ELSE \E changed \in {added} : Attempt(changed)
        /\ edges' = edges \ {e}
        /\ UNCHANGED <<w, times, assigned, free, current, node, round, index>>

Return ==
    /\ phase = "refine"
    /\ edges = {}
    /\ s' = ScheduleOf(groups)
    /\ phase' = IF CanSchedule(groups) THEN "done" ELSE "thrown"
    /\ UNCHANGED <<w, times, groups, assigned, free, current, node, round, index, edges>>

TdcaNext ==
    \/ ComputeTimes
    \/ StartClustering
    \/ StartTrail
    \/ Bubble
    \/ EndTrail
    \/ StartRest
    \/ PlaceRest
    \/ StartDuplication
    \/ TrySplit
    \/ TryTrail
    \/ StartMerging
    \/ TryMerge
    \/ StartRefining
    \/ \E e \in edges : TryEdge(e)
    \/ Return

\* tdca is a sequential function: as long as it can take a step it does.
TdcaSpec == TdcaInit /\ [][TdcaNext]_tdcaVars /\ WF_tdcaVars(TdcaNext)

----------------------------------------------------------------------------
\* Every variable has the type the code declares for it.
TdcaTypeOK ==
    /\ s \in Schedules(w)
    /\ groups \in [Nodes -> SUBSET Tasks(w)]
    /\ assigned \subseteq Tasks(w)
    /\ free \subseteq Nodes
    /\ current \in Tasks(w) \cup {0}
    /\ node \in Nodes
    /\ round \in 0 .. NumIterations
    /\ index \in 0 .. w.size
    /\ edges \subseteq [from : Tasks(w), fromNode : Nodes, to : Tasks(w), toNode : Nodes]
    /\ phase \in {"times", "cluster", "bubble", "rest", "duplicate", "merge", "refine",
                  "done", "thrown"}

\* Until tasks are left over, a group is one trail: in topological order each
\* task depends on the one before it, so that a node never waits for another.
InitialGroupsAreTrails ==
    phase \in {"cluster", "bubble"} =>
        \A n \in Nodes :
            LET tasks == InOrder(groups[n])
            IN  \A k \in 1 .. Len(tasks) - 1 : <<tasks[k], tasks[k + 1]>> \in w.deps

\* Moving, merging and duplicating never loses the last copy of a task, so that
\* no schedule of the groups throws (neither out_of_range, nor "does not contain
\* all move ids" nor, with equal bandwidths, "Invalid schedule at end of TDCA").
NoTaskLost ==
    /\ UniformBandwidth => phase # "thrown"
    /\ phase \in {"duplicate", "merge", "refine", "done"} => UNION Range(groups) = Tasks(w)

\* What is computed once and kept stays true while the groups change: curr_sched,
\* whose makespan decides what is kept, is the schedule of the groups, also when
\* a phase starts from the groups anew; and the unoccupied nodes are empty.
StateMatchesGroups ==
    /\ phase \in {"duplicate", "merge", "refine", "done"} => s = ScheduleOf(groups)
    /\ phase = "duplicate" => \A n \in free : groups[n] = {}

\* TDCA ends and its schedule is valid, if all bandwidths are equal.
EndsWithValidSchedule == <>(phase = "done" /\ (UniformBandwidth => IsValid(w, s)))

\* The comment "remove "from" task from "from" node if it has no outgoing edges
\* on the node": once a change is kept, the task is gone unless it has.
TaskLeavesItsNode ==
    [][\A e \in edges :
           e \notin edges' /\ e.from \in groups'[e.toNode] =>
               \/ e.from \notin groups'[e.fromNode]
               \/ Successors(w, e.from) \cap groups'[e.fromNode] # {}]_tdcaVars
=============================================================================
