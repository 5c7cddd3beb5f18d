--------------------------- MODULE ListScheduling ---------------------------
(***************************************************************************)
(* What every list scheduling algorithm of the program does to its         *)
(* schedule: it inserts one task after the other, each once its            *)
(* predecessors are scheduled, on a node of its choice.  HEFT, CPOP, RBCA, *)
(* DBCA and the reading of a given assignment differ in the order of the   *)
(* tasks and in the choice of the node, which are left open here.  A task  *)
(* may be placed on several nodes (duplication), at most once on each.     *)
(***************************************************************************)
EXTENDS Schedule

CONSTANTS
    Workflows,   \* the workflows considered
    MemoryFlags  \* the values of the -m flag considered

ASSUME WorkflowsAssumption == \A x \in Workflows : IsWorkflow(x)
ASSUME MemoryFlagsAssumption == MemoryFlags \subseteq BOOLEAN

VARIABLES
    w,  \* the workflow, fixed once chosen
    s   \* the schedule under construction

vars == <<w, s>>

Init ==
    /\ w \in Workflows
    /\ \E useMemory \in MemoryFlags : s = NewSchedule(w, useMemory)

OnNode(t, n) == \E k \in Indices(s.task[t]) : s.task[t][k].node = n

\* insert_into_node_schedule without unscheduled predecessors.
Place(t, n) ==
    /\ PredecessorsScheduled(w, s, t)
    /\ ~OnNode(t, n)
    /\ s' = InsertIntoNode(w, s, t, n)
    /\ UNCHANGED w

Next == \E t \in Tasks(w), n \in Nodes : Place(t, n)

Spec == Init /\ [][Next]_vars

----------------------------------------------------------------------------
\* Every field of the schedule has the type the code declares for it.
TypeOK ==
    /\ IsWorkflow(w)
    /\ s \in Schedules(w)

\* A node never runs two tasks at a time: compute_earliest_finish_time finds
\* a slot that is really free, and insert keeps the intervals in time order.
NoOverlap == \A n \in Nodes : Disjoint(s.node[n])

\* Every placed task starts only after the data of each of its predecessors
\* has arrived from some copy of it (task_ready_time, with duplication).
PrecedenceRespected ==
    \A t \in Tasks(w) : \A k \in Indices(s.task[t]) : \A p \in Predecessors(w, t) :
        \E l \in Indices(s.task[p]) :
            ArrivalTime(w, p, s.task[p][l], s.task[t][k].node) <= s.task[t][k].start

\* node_schedules, task_intervals and scheduled_to_original_task_id tell the
\* same story: same intervals, ids resolve to the right task, none is shared.
NodeIndexAgrees ==
    \A n \in Nodes : \A i \in Indices(s.node[n]) :
        LET interval == s.node[n][i] IN
        /\ interval.node = n
        /\ interval.id < Len(s.original)
        /\ \E k \in Indices(s.task[s.original[interval.id + 1]]) :
               s.task[s.original[interval.id + 1]][k] = interval

TaskIndexAgrees ==
    \A t \in Tasks(w) : \A k \in Indices(s.task[t]) :
        LET interval == s.task[t][k] IN
        /\ interval.id < Len(s.original)
        /\ s.original[interval.id + 1] = t
        /\ \E i \in Indices(s.node[interval.node]) : s.node[interval.node][i] = interval

IdsUnique ==
    \A n, m \in Nodes : \A i \in Indices(s.node[n]), j \in Indices(s.node[m]) :
        s.node[n][i].id = s.node[m][j].id => n = m /\ i = j

IndicesAgree == NodeIndexAgrees /\ TaskIndexAgrees /\ IdsUnique

\* The data of p do reach interval i from a copy that sends them faster than
\* i's own node would: find_predecessor_interval charges the latter's bandwidth.
Misjudged(p, i) ==
    \E l \in Indices(s.task[p]) :
        /\ ArrivalTime(w, p, s.task[p][l], i.node) <= i.start
        /\ NetworkBandwidth[i.node] < NetworkBandwidth[s.task[p][l].node]

(***************************************************************************)
(* The program's own verdict: once every task is scheduled, the one reason *)
(* for which is_valid may reject the schedule is data sent to a node of    *)
(* less bandwidth, which have arrived in time nevertheless.  When all      *)
(* bandwidths are equal, as the warning of read_cluster_csv asks, there is *)
(* none.                                                                   *)
(***************************************************************************)
CompleteIsValid ==
    AllScheduled(w, s) =>
        /\ \A n \in Nodes : IsValidOnNode(s.node[n])
        /\ \A t \in Tasks(w) : \A k \in Indices(s.task[t]) : \A p \in Predecessors(w, t) :
               FittingCopies(w, s, p, s.task[t][k]) # {} \/ Misjudged(p, s.task[t][k])

\* get_makespan looks only at the last interval of each node; no interval,
\* of whatever task, ends later.
MakespanIsLatestEnd ==
    /\ \A t \in Tasks(w) : \A k \in Indices(s.task[t]) : s.task[t][k].end <= Makespan(s)
    /\ \/ Makespan(s) = 0 /\ \A t \in Tasks(w) : ~Scheduled(s, t)
       \/ \E t \in Tasks(w) : \E k \in Indices(s.task[t]) : s.task[t][k].end = Makespan(s)

\* A placed task is never moved, shortened or dropped by a later insertion.
KeepsPlaced ==
    \A t \in Tasks(w) : \A k \in Indices(s.task[t]) :
        /\ k \in Indices(s'.task[t]) /\ s'.task[t][k] = s.task[t][k]
        /\ \E i \in Indices(s'.node[s.task[t][k].node]) :
               s'.node[s.task[t][k].node][i] = s.task[t][k]

PlacedStays == [][KeepsPlaced]_vars

\* Once the output of a task is available on a node from some time on, a
\* later insertion, of a copy too, never makes it available later.
KeepsData ==
    \A t \in Tasks(w), n \in Nodes :
        Scheduled(s, t) =>
            EarliestDataAvailable(w, s', t, n) <= EarliestDataAvailable(w, s, t, n)

DataNeverLater == [][KeepsData]_vars

\* A step never starts a task later than appending it behind everything the
\* node already runs would: the scan for gaps only ever gains.
StartsNoLaterThanAppended ==
    \A t \in Tasks(w), n \in Nodes :
        Place(t, n) =>
            NewInterval(w, s, t, n).start
                <= Max({TotalFinishTime(s.node[n]), TaskReadyTime(w, s, t, n)})

NeverWorseThanAppending == [][StartsNoLaterThanAppended]_vars
=============================================================================
