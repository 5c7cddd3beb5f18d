------------------------------ MODULE MCInputs ------------------------------
(***************************************************************************)
(* Workflows and clusters for the model checking instances.                *)
(***************************************************************************)
EXTENDS Integers, FiniteSets, TLC

Ids(size) == 0 .. size - 1

Edges(size) == Ids(size) \X Ids(size)

\* Every order of the tasks that topological_order may return.
TopologicalPositions(size, deps) ==
    {f \in [Ids(size) -> Ids(size)] :
        /\ \A t, u \in Ids(size) : f[t] = f[u] => t = u
        /\ \A e \in deps : f[e[1]] < f[e[2]]}

\* All DAGs on the ids, whatever the order of the ids.
Dags(size) == {deps \in SUBSET Edges(size) : TopologicalPositions(size, deps) # {}}

\* The edges whose ids ascend.
AscendingDags(size) == SUBSET {e \in Edges(size) : e[1] < e[2]}

\* A workflow in which task t sends output[t] and every end of an edge agrees
\* on it; receives[t] only matters when t has predecessors.
WorkflowOf(size, workload, memory, output, deps, position) ==
    [size     |-> size,
     workload |-> workload,
     memory   |-> memory,
     input    |-> [t \in Ids(size) |->
                      IF \E p \in Ids(size) : <<p, t>> \in deps
                      THEN output[CHOOSE p \in Ids(size) : <<p, t>> \in deps] ELSE 0],
     output   |-> output,
     deps     |-> deps,
     position |-> position]

\* The predecessors of a task declare the same output size.
OutputsAgree(size, output, deps) ==
    \A e, f \in deps : e[2] = f[2] => output[e[1]] = output[f[1]]

WorkflowsOver(size, workloads, memories, outputs, dags) ==
    UNION {UNION {{WorkflowOf(size, workload, memory, output, deps, position) :
                       workload \in workloads, memory \in memories,
                       position \in TopologicalPositions(size, deps)} :
                  output \in {o \in outputs : OutputsAgree(size, o, deps)}} :
           deps \in dags}
=============================================================================
