-------------------------------- MODULE Cpop --------------------------------
(***************************************************************************)
(* CPOP (src/include/algorithms/cpop.hpp): the priority of a task is the   *)
(* sum of its downward and its upward rank.  From the entry task with the  *)
(* highest priority a path of tasks of that priority is followed; these    *)
(* tasks all go to one node, the others to the node where they finish      *)
(* earliest, and a priority queue hands out the tasks that are ready.      *)
(***************************************************************************)
EXTENDS Schedule

CONSTANTS
    Workflows,   \* the workflows considered
    MemoryFlags  \* the values of the -m flag considered

ASSUME WorkflowsAssumption == \A x \in Workflows : IsWorkflow(x)
ASSUME MemoryFlagsAssumption == MemoryFlags \subseteq BOOLEAN

VARIABLES
    w,         \* the workflow, fixed once chosen
    s,         \* the schedule under construction
    downward,  \* downward_ranks
    upward,    \* upward_ranks
    ranked,    \* the tasks ranked in the current phase
    path,      \* critical_path
    current,   \* curr_task_id, the end of the path so far
    best,      \* best_node, where the critical path goes
    queue,     \* the tasks in prio_q
    incoming,  \* temp_incoming_edges, as a set of edges
    phase      \* what the function is doing, or how it ended

vars == <<w, s, downward, upward, ranked, path, current, best, queue, incoming, phase>>

(***************************************************************************)
(* Ways cpop ends: it returns; a throw of logic_error for memory, of       *)
(* out_of_range, or of the internal bug; or the dereference of the end of  *)
(* an empty unordered_set.                                                 *)
(***************************************************************************)
Outcomes == {"done", "no_memory", "out_of_range", "internal_bug", "crash"}

Init ==
    /\ w \in Workflows
    /\ \E useMemory \in MemoryFlags : s = NewSchedule(w, useMemory)
    /\ downward = [t \in Tasks(w) |-> 0]
    /\ upward = [t \in Tasks(w) |-> 0]
    /\ ranked = {}
    /\ path = {}
    /\ current = 0
    /\ best = 0
    /\ queue = {}
    /\ incoming = w.deps
    /\ phase = "rank_downward"

----------------------------------------------------------------------------
\* One iteration of all_downward_ranks, in topological order.
RankDownward(t) ==
    /\ phase = "rank_downward"
    /\ t \notin ranked
    /\ \A u \in Tasks(w) \ ranked : w.position[t] <= w.position[u]
    /\ downward' =
           [downward EXCEPT ![t] = DownwardRank(w, downward, BandwidthSum, PerformanceSum, t)]
    /\ ranked' = ranked \cup {t}
    /\ UNCHANGED <<w, s, upward, path, current, best, queue, incoming, phase>>

StartUpward ==
    /\ phase = "rank_downward"
    /\ ranked = Tasks(w)
    /\ ranked' = {}
    /\ phase' = "rank_upward"
    /\ UNCHANGED <<w, s, downward, upward, path, current, best, queue, incoming>>

\* One iteration of all_upward_ranks, against the topological order.
RankUpward(t) ==
    /\ phase = "rank_upward"
    /\ t \notin ranked
    /\ \A u \in Tasks(w) \ ranked : w.position[u] <= w.position[t]
    /\ upward' = [upward EXCEPT ![t] = UpwardRank(w, upward, BandwidthSum, PerformanceSum, t)]
    /\ ranked' = ranked \cup {t}
    /\ UNCHANGED <<w, s, downward, path, current, best, queue, incoming, phase>>

----------------------------------------------------------------------------
Priority(t) == downward[t] + upward[t]

\* max_element with the comparison of the code: of equal priorities the lower
\* id counts as the higher.
IsFirst(t, tasks) ==
    /\ t \in tasks
    /\ \A u \in tasks :
           Priority(t) > Priority(u) \/ (Priority(t) = Priority(u) /\ t <= u)

\* compute_critical_path up to its loop.  The iterator is dereferenced without
\* a test: a workflow without tasks has no independent task.
StartPath ==
    /\ phase = "rank_upward"
    /\ ranked = Tasks(w)
    /\ IF IndependentTasks(w) = {}
       THEN phase' = "crash" /\ UNCHANGED <<path, current>>
       ELSE /\ \E t \in IndependentTasks(w) :
                   IsFirst(t, IndependentTasks(w)) /\ current' = t /\ path' = {t}
            /\ phase' = "path"
    /\ UNCHANGED <<w, s, downward, upward, ranked, best, queue, incoming>>

\* critical_path_priority is the priority of the entry task, and every task
\* on the path has it.
CriticalSuccessors == {c \in Successors(w, current) : Priority(c) = Priority(current)}

\* Fault: curr_task_id is not moved to the end of the path.
ExtendPath_Stays ==
    /\ phase = "path"
    /\ CriticalSuccessors # {}
    /\ path' = path \cup {Min(CriticalSuccessors)}
    /\ UNCHANGED <<w, s, downward, upward, ranked, current, best, queue, incoming, phase>>

ExtendPath ==
    /\ phase = "path"
    /\ CriticalSuccessors # {}
    /\ current' = Min(CriticalSuccessors)
    /\ path' = path \cup {current'}
    /\ UNCHANGED <<w, s, downward, upward, ranked, best, queue, incoming, phase>>

(***************************************************************************)
(* best_fitting_node, and the filling of the queue.  With -m the node has  *)
(* to hold the least of the requirements on the path.  If no node does,    *)
(* the code reads the id behind the end of the vector of nodes: any value, *)
(* of a node or not (NumNodes stands for all ids that are none).           *)
(***************************************************************************)
PathRequirement ==
    IF s.useMemory THEN Min({w.memory[t] : t \in path}) ELSE 0

ChooseNode ==
    /\ phase = "path"
    /\ CriticalSuccessors = {}
    /\ best' \in IF NodesWithMemory(PathRequirement) = {}
                 THEN Nodes \cup {NumNodes}
                 ELSE {BestPerformanceNode(PathRequirement)}
    /\ queue' = IndependentTasks(w)
    /\ phase' = "place"
    /\ UNCHANGED <<w, s, downward, upward, ranked, path, current, incoming>>

----------------------------------------------------------------------------
\* The nodes the task t may be inserted on: none means that the insertion throws.
ChoicesFor(t) ==
    IF t \in path THEN {best} \cap Nodes
    ELSE {n \in CandidateNodes(w, s, t) : IsBestNode(w, s, t, n, FALSE)}

\* The temporary edges erased when t is placed: its outgoing ones.
Erased(t) == {<<t, c>> : c \in Successors(w, t)}

\* Fault: all successors.
Pushed_All(t) == Successors(w, t)

\* The tasks pushed when t is placed: successors without an edge left.
Pushed(t) ==
    {c \in Successors(w, t) : \A p \in Tasks(w) : <<p, c>> \notin incoming \ Erased(t)}

\* Fault: the task stays in the queue.
Popped_None(t) == queue

Popped(t) == queue \ {t}

\* One iteration of the loop over the queue: pop, insert, erase and push.  Each
\* outgoing edge of t has to be among the temporary ones still.
PlaceFirst(t) ==
    /\ phase = "place"
    /\ IsFirst(t, queue)
    /\ PredecessorsScheduled(w, s, t)
    /\ \E n \in ChoicesFor(t) : s' = InsertIntoNode(w, s, t, n)
    /\ incoming' = incoming \ Erased(t)
    /\ queue' = Popped(t) \cup Pushed(t)
    /\ phase' = IF \A c \in Successors(w, t) : <<t, c>> \in incoming THEN phase
                                                                    ELSE "internal_bug"
    /\ UNCHANGED <<w, downward, upward, ranked, path, current, best>>

\* node_schedules.at and task_intervals.at throw out_of_range; the search for
\* the best node throws logic_error when the filter on memory leaves none.
Throw(t) ==
    /\ phase = "place"
    /\ IsFirst(t, queue)
    /\ PredecessorsScheduled(w, s, t) => ChoicesFor(t) = {}
    /\ phase' = IF t \notin path /\ CandidateNodes(w, s, t) = {} THEN "no_memory"
                                                                 ELSE "out_of_range"
    /\ UNCHANGED <<w, s, downward, upward, ranked, path, current, best, queue, incoming>>

Return ==
    /\ phase = "place"
    /\ queue = {}
    /\ phase' = "done"
    /\ UNCHANGED <<w, s, downward, upward, ranked, path, current, best, queue, incoming>>

Next ==
    \/ \E t \in Tasks(w) : RankDownward(t)
    \/ StartUpward
    \/ \E t \in Tasks(w) : RankUpward(t)
    \/ StartPath
    \/ ExtendPath
    \/ ChooseNode
    \/ \E t \in Tasks(w) : PlaceFirst(t)
    \/ \E t \in Tasks(w) : Throw(t)
    \/ Return

\* cpop is a sequential function: as long as it can take a step it does.
Spec == Init /\ [][Next]_vars /\ WF_vars(Next)

----------------------------------------------------------------------------
\* Every variable has the type the code declares for it.
TypeOK ==
    /\ IsWorkflow(w)
    /\ s \in Schedules(w)
    /\ downward \in [Tasks(w) -> Nat]
    /\ upward \in [Tasks(w) -> Nat]
    /\ ranked \subseteq Tasks(w)
    /\ path \subseteq Tasks(w)
    /\ current \in Tasks(w) \cup {0}
    /\ best \in Nodes \cup {NumNodes}
    /\ queue \subseteq Tasks(w)
    /\ incoming \subseteq w.deps
    /\ phase \in {"rank_downward", "rank_upward", "path", "place"} \cup Outcomes

\* No task of the workflow has a priority above the entry task the path starts
\* from, so that the path is a critical one; every task on it shares it; and it
\* ends at an exit task, not in the middle of the workflow: comparing priorities
\* for equality never loses the path.
PathIsCritical ==
    /\ path # {} => \A t \in path : \A u \in Tasks(w) : Priority(t) >= Priority(u)
    /\ phase = "place" => Successors(w, current) = {}

\* The queue holds exactly the tasks that are ready: not scheduled, and all
\* their predecessors are.  None is lost, pushed too early or pushed twice.
\* "Internal bug: incoming/outgoing edges are out of sync" is never thrown, nor
\* is a predecessor looked up that is not scheduled: an out_of_range can only
\* come from a node id that is none.
QueueInSync ==
    /\ phase \in {"place", "done"} =>
           queue = {t \in Tasks(w) : ~Scheduled(s, t) /\ PredecessorsScheduled(w, s, t)}
    /\ phase # "internal_bug"
    /\ phase = "out_of_range" => best = NumNodes

\* "tasks are only scheduled onto cluster nodes with sufficient memory"
\* (README, -m): every placed task fits its node.
MemoryRespected ==
    s.useMemory =>
        \A t \in Tasks(w) : \A k \in Indices(s.task[t]) :
            EnoughMemory(s.task[t][k].node, w.memory[t])

\* CPOP builds its schedule as every list scheduling algorithm does, and so
\* inherits what ListScheduling guarantees of schedules.
LS == INSTANCE ListScheduling
ImplementsListScheduling == LS!Spec

\* CPOP always ends, with a schedule when memory plays no role; a schedule runs
\* every task exactly once, and the critical path on one node.
Terminates ==
    <>(/\ phase \in Outcomes
       /\ ~s.useMemory /\ w.size > 0 => phase = "done"
       /\ phase = "done" =>
              /\ \A t \in Tasks(w) : Len(s.task[t]) = 1
              /\ \A t \in path : s.task[t][1].node = best)
=============================================================================
