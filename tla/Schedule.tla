------------------------------ MODULE Schedule ------------------------------
(***************************************************************************)
(* schedule::schedule (src/include/schedule/schedule.hpp) as a value s     *)
(* that the algorithms build up by insertions.  The record s holds         *)
(*   useMemory  use_memory_requirements                                    *)
(*   node       node_schedules: the intervals of each node, in time order  *)
(*   task       task_intervals: the intervals of each task, in insertion   *)
(*              order; << >> for a task the map does not contain           *)
(*   original   scheduled_to_original_task_id: scheduled ids are handed    *)
(*              out as 0, 1, ..., so id i belongs to task original[i + 1]  *)
(***************************************************************************)
EXTENDS Cluster, Workflow, NodeSchedule

Interval == [start : Nat, end : Nat, id : Nat, node : Nodes]

\* All values of the class for the workflow w.
Schedules(w) ==
    [useMemory : BOOLEAN,
     node      : [Nodes -> Seq(Interval)],
     task      : [Tasks(w) -> Seq(Interval)],
     original  : Seq(Tasks(w))]

\* The constructor.
NewSchedule(w, useMemory) ==
    [useMemory |-> useMemory,
     node      |-> [n \in Nodes |-> << >>],
     task      |-> [t \in Tasks(w) |-> << >>],
     original  |-> << >>]

Scheduled(s, t) == s.task[t] # << >>

AllScheduled(w, s) == \A t \in Tasks(w) : Scheduled(s, t)

----------------------------------------------------------------------------
ComputationTime(w, t, n) == w.workload[t] * WorkTime[n]

\* get_data_transfer_cost: which node's bandwidth counts is the caller's choice.
TransferCost(n, m, data, bandwidthOf) ==
    IF n = m THEN 0 ELSE data * DataTime[bandwidthOf]

\* When the output of task p, placed as interval i, is on node n.
ArrivalTime(w, p, i, n) ==
    i.end + TransferCost(i.node, n, DataTransfer(w, p), i.node)

\* get_earliest_data_available_time: the best of the copies of p.
EarliestDataAvailable(w, s, p, n) ==
    Min({ArrivalTime(w, p, s.task[p][k], n) : k \in Indices(s.task[p])})

(***************************************************************************)
(* task_ready_time.  A predecessor that is not scheduled counts as 0 when  *)
(* that is allowed; when it is not, task_intervals.at throws out_of_range  *)
(* before anything is changed: PredecessorsScheduled is the callers' guard.*)
(***************************************************************************)
TaskReadyTime(w, s, t, n) ==
    Max({0} \cup {EarliestDataAvailable(w, s, p, n) :
                     p \in {q \in Predecessors(w, t) : Scheduled(s, q)}})

PredecessorsScheduled(w, s, t) == \A p \in Predecessors(w, t) : Scheduled(s, p)

SlotOn(w, s, t, n) ==
    Slot(s.node[n], TaskReadyTime(w, s, t, n), ComputationTime(w, t, n))

NewInterval(w, s, t, n) ==
    [start |-> SlotOn(w, s, t, n).start,
     end   |-> SlotOn(w, s, t, n).start + ComputationTime(w, t, n),
     id    |-> Len(s.original),
     node  |-> n]

\* Fault: the map of the ids records the scheduled id itself.
InsertIntoNode_OwnId(w, s, t, n) ==
    [s EXCEPT
        !.node[n]  = InsertAt(s.node[n], SlotOn(w, s, t, n).at, NewInterval(w, s, t, n)),
        !.task[t]  = Append(s.task[t], NewInterval(w, s, t, n)),
        !.original = Append(s.original, Len(s.original))]

\* Fault: a second copy of a task replaces the first in task_intervals.
InsertIntoNode_Replaces(w, s, t, n) ==
    [s EXCEPT
        !.node[n]  = InsertAt(s.node[n], SlotOn(w, s, t, n).at, NewInterval(w, s, t, n)),
        !.task[t]  = <<NewInterval(w, s, t, n)>>,
        !.original = Append(s.original, t)]

\* insert_into_node_schedule: the three indices are updated together.
InsertIntoNode(w, s, t, n) ==
    [s EXCEPT
        !.node[n]  = InsertAt(s.node[n], SlotOn(w, s, t, n).at, NewInterval(w, s, t, n)),
        !.task[t]  = Append(s.task[t], NewInterval(w, s, t, n)),
        !.original = Append(s.original, t)]

\* Fault: no filter on memory.
CandidateNodes_All(w, s, t) == Nodes

(***************************************************************************)
(* insert_into_best_eft_node_schedule: the filter on memory, then the      *)
(* first, i.e. lowest, node with the least finish (or start) time.  With   *)
(* no candidate it throws logic_error and changes nothing.                 *)
(***************************************************************************)
CandidateNodes(w, s, t) ==
    IF s.useMemory THEN NodesWithMemory(w.memory[t]) ELSE Nodes

IsBestNode(w, s, t, n, useEst) ==
    LET key(m) == IF useEst THEN NewInterval(w, s, t, m).start
                            ELSE NewInterval(w, s, t, m).end
    IN  /\ n \in CandidateNodes(w, s, t)
        /\ \A m \in CandidateNodes(w, s, t) :
               key(n) < key(m) \/ (key(n) = key(m) /\ n <= m)

----------------------------------------------------------------------------
Makespan(s) == Max({TotalFinishTime(s.node[n]) : n \in Nodes})

\* Fault: a copy on i's own node pays for a transfer, too.
FittingCopies_Charged(w, s, p, i) ==
    {k \in Indices(s.task[p]) :
        s.task[p][k].end + DataTransfer(w, p) * DataTime[i.node] <= i.start}

(***************************************************************************)
(* find_predecessor_interval: the copies of p that reach the interval i in *)
(* time.  Unlike ArrivalTime it charges the bandwidth of i's own node.     *)
(***************************************************************************)
FittingCopies(w, s, p, i) ==
    {k \in Indices(s.task[p]) :
        s.task[p][k].end + TransferCost(i.node, s.task[p][k].node, DataTransfer(w, p), i.node)
            <= i.start}

\* schedule::is_valid.
IsValid(w, s) ==
    /\ \A n \in Nodes : IsValidOnNode(s.node[n])
    /\ AllScheduled(w, s)
    /\ \A t \in Tasks(w) : \A k \in Indices(s.task[t]) : \A p \in Predecessors(w, t) :
           FittingCopies(w, s, p, s.task[t][k]) # {}

\* The transfers the matrix counts: the k-th interval of task t gets the output
\* of p from the first copy of p that reaches it in time.
Transfers(w, s) ==
    UNION {{[target |-> s.task[t][k].node, to |-> <<t, k>>, from |-> p,
             source |-> s.task[p][Min(FittingCopies(w, s, p, s.task[t][k]))].node] :
                k \in Indices(s.task[t]), p \in Predecessors(w, t)} : t \in Tasks(w)}

\* Fault: rows and columns are swapped.
CommunicationMatrix_Swapped(w, s) ==
    [n \in Nodes |-> [m \in Nodes |->
        SumFunction([x \in {y \in Transfers(w, s) : y.source = m /\ y.target = n} |->
                         DataTransfer(w, x.from) * DataTime[m]])]]

\* compute_node_communication_matrix, for a schedule that is_valid accepts.
CommunicationMatrix(w, s) ==
    [n \in Nodes |-> [m \in Nodes |->
        SumFunction([x \in {y \in Transfers(w, s) : y.source = n /\ y.target = m} |->
                         DataTransfer(w, x.from) * DataTime[n]])]]
=============================================================================
