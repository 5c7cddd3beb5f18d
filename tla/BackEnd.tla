------------------------------ MODULE BackEnd ------------------------------
(***************************************************************************)
(* The second half of main (src/src/static_task_scheduling.cpp): for a     *)
(* constructed workflow the selected algorithms run one after the other,   *)
(* and then a given assignment of the tasks to nodes is read, made into a  *)
(* schedule and reported.  The algorithms themselves are Heft, Cpop,       *)
(* Clustering and Tdca; here each either returns or throws.                *)
(***************************************************************************)
EXTENDS Schedule

CONSTANTS
    Workflows,   \* the workflows considered
    MemoryFlags, \* the values of the -m flag considered
    Selections,  \* the values of -s considered, "" without the option
    Files,       \* the assignment files considered: sequences of rows
    SizeValues   \* how many values a size_t has

ASSUME WorkflowsAssumption == \A x \in Workflows : IsWorkflow(x)
ASSUME MemoryFlagsAssumption == MemoryFlags \subseteq BOOLEAN
ASSUME SizeAssumption == SizeValues \in Nat /\ SizeValues > NumNodes
ASSUME FilesAssumption ==
    \A rows \in Files : rows \in Seq([task : Nat, node : Nat, assigned : Nat])

VARIABLES
    w,           \* the workflow, fixed once chosen
    s,           \* the schedule from_assignment builds
    selection,   \* select_algorithm
    given,       \* whether there is an assignment file (-a)
    toRun,       \* the algorithms still to run
    reported,    \* the names of the schedules reported so far
    rows,        \* the rows of the assignment file
    read,        \* how many of them are read
    expected,    \* expected_task_ids
    assignment,  \* task_to_node_assignment
    task,        \* the next task from_assignment inserts
    matrix,      \* the communication matrix reported for the assignment
    phase        \* what the program is doing, or how it ended

vars == <<w, s, selection, given, toRun, reported, rows, read, expected, assignment, task, matrix, phase>>

(***************************************************************************)
(* Ways the program ends: runtime_error for an unknown selection or for a  *)
(* file the reader rejects, whatever an algorithm throws, out_of_range     *)
(* from from_assignment, or main returns.                                  *)
(***************************************************************************)
Outcomes == {"unknown_algorithm", "algorithm_threw", "rejected", "out_of_range", "done"}

\* algorithms::ALL.
AllAlgorithms == <<"heft", "cpop", "rbca", "dbca", "tdca">>

\* is_valid failed: no matrix is computed.
NoMatrix == << >>

Init ==
    /\ w \in Workflows
    /\ \E useMemory \in MemoryFlags : s = NewSchedule(w, useMemory)
    /\ selection \in Selections
    /\ toRun = << >>
    /\ reported = << >>
    /\ given \in BOOLEAN
    /\ rows \in IF given THEN Files ELSE {<< >>}
    /\ read = 0
    /\ expected = 1 .. w.size
    /\ assignment = [t \in Tasks(w) |-> 0]
    /\ task = 0
    /\ matrix = NoMatrix
    /\ phase = "select"

----------------------------------------------------------------------------
\* from_string and the choice between all algorithms, one and none.
Select ==
    /\ phase = "select"
    /\ IF selection \in ToSet(AllAlgorithms) \cup {"", "none"}
       THEN /\ toRun' = IF selection = "" THEN AllAlgorithms
                        ELSE IF selection = "none" THEN << >> ELSE <<selection>>
            /\ phase' = "run"
       ELSE phase' = "unknown_algorithm" /\ UNCHANGED toRun
    /\ UNCHANGED <<w, s, selection, given, reported, rows, read, expected, assignment, task, matrix>>

SomeTaskFitsNowhere == s.useMemory /\ \E t \in Tasks(w) : NodesWithMemory(w.memory[t]) = {}

(***************************************************************************)
(* Which algorithms may end the program (see their modules).  RBCA and     *)
(* DBCA depend on the bags, which are left out here; in TDCA it is         *)
(* get_different_node_edges that throws, for lack of a copy that reaches   *)
(* its target in time at the target's bandwidth.  Without tasks CPOP       *)
(* dereferences the end of an empty range.                                 *)
(***************************************************************************)
MayThrow(algorithm) ==
    \/ algorithm \in {"heft", "cpop"} /\ SomeTaskFitsNowhere
    \/ algorithm = "cpop" /\ Tasks(w) = {}
    \/ algorithm \in {"rbca", "dbca"}
    \/ algorithm = "tdca" /\ ~UniformBandwidth

\* handle_execution; the schedule is reported and dropped.
RunAlgorithm ==
    /\ phase = "run"
    /\ toRun # << >>
    /\ Head(toRun) = "heft" => ~SomeTaskFitsNowhere
    /\ toRun' = Tail(toRun)
    /\ reported' = Append(reported, Head(toRun))
    /\ UNCHANGED <<w, s, selection, given, rows, read, expected, assignment, task, matrix, phase>>

\* Nothing catches what an algorithm throws: the others do not run.
AlgorithmThrows ==
    /\ phase = "run"
    /\ toRun # << >>
    /\ MayThrow(Head(toRun))
    /\ phase' = "algorithm_threw"
    /\ UNCHANGED <<w, s, selection, given, toRun, reported, rows, read, expected, assignment, task, matrix>>

AllRun ==
    /\ phase = "run"
    /\ toRun = << >>
    /\ phase' = IF given THEN "read" ELSE "done"
    /\ UNCHANGED <<w, s, selection, given, toRun, reported, rows, read, expected, assignment, task, matrix>>

----------------------------------------------------------------------------
Row == rows[read + 1]

\* Fault: a task may be assigned more than once.
Accepted_Overwrites(row) ==
    /\ row.task <= w.size /\ row.node <= NumNodes /\ row.assigned <= 1
    /\ row.assigned = 1 => row.task \in 1 .. w.size

\* The tests of read_task_to_node_assignment_csv.
Accepted(row) ==
    /\ row.task <= w.size /\ row.node <= NumNodes /\ row.assigned <= 1
    /\ row.assigned = 1 => row.task \in expected

\* The numbers in the file start at 1, the ids at 0; size_t wraps around.
NodeId(row) == (row.node - 1) % SizeValues

ReadRow ==
    /\ phase = "read"
    /\ read < Len(rows)
    /\ Accepted(Row)
    /\ read' = read + 1
    /\ IF Row.assigned = 1
       THEN /\ assignment' = [assignment EXCEPT ![Row.task - 1] = NodeId(Row)]
            /\ expected' = expected \ {Row.task}
       ELSE UNCHANGED <<assignment, expected>>
    /\ UNCHANGED <<w, s, selection, given, toRun, reported, rows, task, matrix, phase>>

Reject ==
    /\ phase = "read"
    /\ IF read < Len(rows) THEN ~Accepted(Row) ELSE expected # {}
    /\ phase' = "rejected"
    /\ UNCHANGED <<w, s, selection, given, toRun, reported, rows, read, expected, assignment, task, matrix>>

FinishReading ==
    /\ phase = "read"
    /\ read = Len(rows)
    /\ expected = {}
    /\ phase' = "insert"
    /\ UNCHANGED <<w, s, selection, given, toRun, reported, rows, read, expected, assignment, task, matrix>>

----------------------------------------------------------------------------
\* Fault: predecessors need not be scheduled.
CanInsert_AnyOrder == assignment[task] \in Nodes

CanInsert == assignment[task] \in Nodes /\ PredecessorsScheduled(w, s, task)

\* One iteration of from_assignment, in the order of the task ids.
InsertTask ==
    /\ phase = "insert"
    /\ task < w.size
    /\ CanInsert
    /\ s' = InsertIntoNode(w, s, task, assignment[task])
    /\ task' = task + 1
    /\ UNCHANGED <<w, selection, given, toRun, reported, rows, read, expected, assignment, matrix, phase>>

\* node_schedules.at or task_intervals.at throws.
Throw ==
    /\ phase = "insert"
    /\ task < w.size
    /\ ~CanInsert
    /\ phase' = "out_of_range"
    /\ UNCHANGED <<w, s, selection, given, toRun, reported, rows, read, expected, assignment, task, matrix>>

\* handle_computed_schedule_output.
Report ==
    /\ phase = "insert"
    /\ task = w.size
    /\ matrix' = IF IsValid(w, s) THEN CommunicationMatrix(w, s) ELSE NoMatrix
    /\ reported' = Append(reported, "FROM_FILE")
    /\ phase' = "done"
    /\ UNCHANGED <<w, s, selection, given, toRun, rows, read, expected, assignment, task>>

Next ==
    \/ Select
    \/ RunAlgorithm
    \/ AlgorithmThrows
    \/ AllRun
    \/ ReadRow
    \/ Reject
    \/ FinishReading
    \/ InsertTask
    \/ Throw
    \/ Report

Spec == Init /\ [][Next]_vars
----------------------------------------------------------------------------
\* The rows that assign task t.
RowsOf(t) == {k \in Indices(rows) : rows[k].assigned = 1 /\ rows[k].task = t + 1}

\* "set to validate that all tasks got exactly one assignment" (read_csv.hpp):
\* every number is in range and every task, and no other, has one row.
IsAssignment ==
    /\ \A k \in Indices(rows) :
           /\ rows[k].task <= w.size /\ rows[k].node <= NumNodes /\ rows[k].assigned <= 1
           /\ rows[k].assigned = 1 => rows[k].task # 0
    /\ \A t \in Tasks(w) : Cardinality(RowsOf(t)) = 1

\* The node number that task t is given.
Given(t) == rows[CHOOSE k \in RowsOf(t) : TRUE].node

\* What from_assignment takes for granted: ids from 1 on for the nodes, too,
\* and tasks in a topological order.
CanBeScheduled ==
    /\ \A t \in Tasks(w) : Given(t) # 0
    /\ \A p, t \in Tasks(w) : <<p, t>> \in w.deps => p < t

\* A file is rejected exactly when it is no assignment, in whatever order its
\* rows come; from_assignment throws exactly for the node number 0, which the
\* reader lets through, and for edges that do not ascend; otherwise each task
\* runs once, on the node the file names.
AssignmentDecides ==
    /\ phase = "rejected" => ~IsAssignment
    /\ phase = "out_of_range" => IsAssignment /\ ~CanBeScheduled
    /\ phase = "done" /\ given =>
           /\ IsAssignment /\ CanBeScheduled
           /\ \A t \in Tasks(w) :
                  Len(s.task[t]) = 1 /\ s.task[t][1].node = Given(t) - 1

\* The edges whose ends the file puts on node n and node m.
EdgesBetween(n, m) == {e \in w.deps : Given(e[1]) - 1 = n /\ Given(e[2]) - 1 = m}

\* On a cluster of equal bandwidths, which the warning of read_cluster_csv asks
\* for, the schedule of an assignment is reported as valid, and its matrix has
\* the transfers of all edges, each once and where the file puts its ends.
MatrixFollowsAssignment ==
    phase = "done" /\ given /\ UniformBandwidth =>
        matrix = [n \in Nodes |-> [m \in Nodes |->
            SumFunction([e \in EdgesBetween(n, m) |-> DataTransfer(w, e[1]) * DataTime[n]])]]

\* from_assignment builds its schedule as every list scheduling algorithm does,
\* and so inherits what ListScheduling guarantees of schedules.
LS == INSTANCE ListScheduling
ImplementsListScheduling == LS!Spec
=============================================================================
