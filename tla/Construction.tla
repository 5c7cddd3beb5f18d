---------------------------- MODULE Construction ----------------------------
(***************************************************************************)
(* The constructor of workflow::workflow (src/include/workflow): it checks *)
(* the tasks, adds the dependencies one after the other to the graph and   *)
(* asks the graph for a topological order (Kahn's algorithm in             *)
(* src/include/util/di_graph.hpp).  The module has the actions of the      *)
(* constructor; where its arguments come from is left to FrontEnd.         *)
(***************************************************************************)
EXTENDS Workflow, SequencesExt

VARIABLES
    tasks,         \* the tasks: [size, workload, memory, input, output]
    dependencies,  \* the sequence of dependencies <<from, to>>
    added,         \* how many of them are edges of the graph
    edges,         \* the edges of the graph
    independent,   \* independent_vertex_ids
    incoming,      \* temp_incoming_edges, as a set of edges
    order,         \* topological_order
    phase          \* what the program is doing, or how it ended

constructionVars == <<tasks, dependencies, added, edges, independent, incoming, order, phase>>

(***************************************************************************)
(* Ways the constructor ends: invalid_argument for a task without workload,*)
(* for data sizes that do not match or for a dependency that is there      *)
(* already; out_of_range for an unknown task; nullopt, hence               *)
(* bad_optional_access, for a cyclic graph or for edges out of sync; or    *)
(* the workflow is built.                                                  *)
(***************************************************************************)
Defects == {"no_workload", "unknown_task", "size_mismatch", "duplicate", "cyclic"}
ConstructionOutcomes == Defects \cup {"out_of_sync", "built"}
ConstructionPhases == {"check", "edges", "order"} \cup ConstructionOutcomes

Ids == 0 .. tasks.size - 1

\* The sizes of the three vectors agree as all are made by expand_task_bags.
CheckTasks ==
    /\ phase = "check"
    /\ phase' = IF \E t \in Ids : tasks.workload[t] = 0 THEN "no_workload" ELSE "edges"
    /\ UNCHANGED <<tasks, dependencies, added, edges, independent, incoming, order>>

NextDependency == dependencies[added + 1]

\* Both ids index the vectors of data sizes.
KnownTasks(d) == d[1] \in Ids /\ d[2] \in Ids

\* Fault: the ends are swapped.
SizesMatch_Swapped(d) == tasks.output[d[2]] = tasks.input[d[1]]

SizesMatch(d) == tasks.output[d[1]] = tasks.input[d[2]]

\* Fault: the edge is added once more, or rather not, without a word.
IsNew_Always(d) == TRUE

\* add_edge: the target does not have the source as a neighbour already.
IsNew(d) == <<d[1], d[2]>> \notin edges

AddEdge ==
    /\ phase = "edges"
    /\ added < Len(dependencies)
    /\ KnownTasks(NextDependency) /\ SizesMatch(NextDependency) /\ IsNew(NextDependency)
    /\ edges' = edges \cup {<<NextDependency[1], NextDependency[2]>>}
    /\ added' = added + 1
    /\ UNCHANGED <<tasks, dependencies, independent, incoming, order, phase>>

RejectEdge ==
    /\ phase = "edges"
    /\ added < Len(dependencies)
    /\ KnownTasks(NextDependency) => (SizesMatch(NextDependency) => ~IsNew(NextDependency))
    /\ phase' = IF ~KnownTasks(NextDependency) THEN "unknown_task"
                ELSE IF ~SizesMatch(NextDependency) THEN "size_mismatch" ELSE "duplicate"
    /\ UNCHANGED <<tasks, dependencies, added, edges, independent, incoming, order>>

\* get_independent_vertex_ids, and the copy of the incoming edges.
StartOrder ==
    /\ phase = "edges"
    /\ added = Len(dependencies)
    /\ independent' = {v \in Ids : \A u \in Ids : <<u, v>> \notin edges}
    /\ incoming' = edges
    /\ phase' = "order"
    /\ UNCHANGED <<tasks, dependencies, added, edges, order>>

Outgoing(v) == {c \in Ids : <<v, c>> \in edges}

\* The temporary edges that are left when v is taken out.
Remaining(v) == incoming \ {<<v, c>> : c \in Outgoing(v)}

\* Fault: every neighbour becomes independent.
Freed_All(v) == Outgoing(v)

\* The neighbours that lose their last temporary edge.
Freed(v) == {c \in Outgoing(v) : \A u \in Ids : <<u, c>> \notin Remaining(v)}

\* One iteration of the loop, which takes any independent vertex.
Extract(v) ==
    /\ phase = "order"
    /\ v \in independent
    /\ order' = Append(order, v)
    /\ IF \A c \in Outgoing(v) : <<v, c>> \in incoming
       THEN /\ incoming' = Remaining(v)
            /\ independent' = (independent \ {v}) \cup Freed(v)
            /\ UNCHANGED phase
       ELSE phase' = "out_of_sync" /\ UNCHANGED <<incoming, independent>>
    /\ UNCHANGED <<tasks, dependencies, added, edges>>

FinishOrder ==
    /\ phase = "order"
    /\ independent = {}
    /\ phase' = IF Len(order) = tasks.size THEN "built" ELSE "cyclic"
    /\ UNCHANGED <<tasks, dependencies, added, edges, independent, incoming, order>>

ConstructionNext ==
    \/ CheckTasks
    \/ AddEdge
    \/ RejectEdge
    \/ StartOrder
    \/ \E v \in Ids : Extract(v)
    \/ FinishOrder

\* Tasks as they are read: only the workload may be negative.
IsTaskInput(x) ==
    /\ x.size \in Nat
    /\ x.workload \in [0 .. x.size - 1 -> Int]
    /\ x.memory \in [0 .. x.size - 1 -> Nat]
    /\ x.input \in [0 .. x.size - 1 -> Nat]
    /\ x.output \in [0 .. x.size - 1 -> Nat]

\* The constructor on its own, with any arguments.
ConstructionInit ==
    /\ IsTaskInput(tasks)
    /\ dependencies \in Seq(Nat \X Nat)
    /\ added = 0
    /\ edges = {}
    /\ independent = {}
    /\ incoming = {}
    /\ order = << >>
    /\ phase = "check"

ConstructionSpec == ConstructionInit /\ [][ConstructionNext]_constructionVars

\* The constructed workflow as Workflow describes it.
Built ==
    [size     |-> tasks.size,
     workload |-> tasks.workload,
     memory   |-> tasks.memory,
     input    |-> tasks.input,
     output   |-> tasks.output,
     deps     |-> edges,
     position |-> [t \in Ids |-> (CHOOSE i \in 1 .. Len(order) : order[i] = t) - 1]]

----------------------------------------------------------------------------
\* Every task of a set is reached from a task of the set.
HasCycle(es) ==
    \E c \in SUBSET Ids :
        /\ c # {}
        /\ \A v \in c : \E u \in c : <<u, v>> \in es

Defective(defect) ==
    CASE defect = "no_workload"   -> \E t \in Ids : tasks.workload[t] = 0
      [] defect = "unknown_task"  -> \E k \in 1 .. Len(dependencies) : ~KnownTasks(dependencies[k])
      [] defect = "size_mismatch" -> \E k \in 1 .. Len(dependencies) :
                                         /\ KnownTasks(dependencies[k])
                                         /\ ~SizesMatch(dependencies[k])
      [] defect = "duplicate"     -> \E j, k \in 1 .. Len(dependencies) :
                                         j # k /\ dependencies[j] = dependencies[k]
      [] defect = "cyclic"        -> HasCycle(edges)

\* The constructor refuses an input for what is wrong with it and never builds
\* a workflow from a defective one.  "returns a std::nullopt if the graph is
\* cyclic" (topological_order): exactly then, whatever vertex the unordered_set
\* gives next, and never because of an edge that is not there to be erased.
ConstructorDecides ==
    /\ phase # "out_of_sync"
    /\ phase \in Defects => Defective(phase)
    /\ phase = "built" => \A defect \in Defects : ~Defective(defect)

\* What is built is what all algorithms take for granted of a workflow, as long
\* as no workload is negative: edges between tasks, matching data sizes, and a
\* topological order with each task exactly once.
BuildsWorkflow ==
    phase = "built" =>
        /\ edges = {<<dependencies[k][1], dependencies[k][2]>> : k \in 1 .. Len(dependencies)}
        /\ (\A t \in Ids : tasks.workload[t] >= 0) => IsWorkflow(Built)
=============================================================================
