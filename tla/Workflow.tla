------------------------------ MODULE Workflow ------------------------------
(***************************************************************************)
(* A workflow as workflow::workflow holds it after its constructor: a DAG  *)
(* of tasks with the ranks the list scheduling algorithms sort by.  The    *)
(* value w is a record                                                     *)
(*   size      number of tasks; the task ids are 0 .. size - 1             *)
(*   workload, memory   the fields of task, by task id                     *)
(*   input, output      data sizes, by task id                             *)
(*   deps      the edges, pairs <<from, to>>                               *)
(*   position  topological_task_ranks, the inverse of the topological order*)
(***************************************************************************)
EXTENDS Integers, FiniteSetsExt, Functions

Tasks(w) == 0 .. w.size - 1

Predecessors(w, t) == {p \in Tasks(w) : <<p, t>> \in w.deps}

Successors(w, t) == {c \in Tasks(w) : <<t, c>> \in w.deps}

IndependentTasks(w) == {t \in Tasks(w) : Predecessors(w, t) = {}}

\* The weight of the edge <<from, to>>: both ends declare it, see IsWorkflow.
DataTransfer(w, from) == w.output[from]

(***************************************************************************)
(* What a constructed workflow satisfies.  The constructor throws for a    *)
(* workload of 0, for an edge whose two ends declare different data sizes  *)
(* and for a cyclic graph.                                                 *)
(***************************************************************************)
IsWorkflow(w) ==
    /\ w.size \in Nat
    /\ w.workload \in [Tasks(w) -> Nat \ {0}]
    /\ w.memory \in [Tasks(w) -> Nat]
    /\ w.input \in [Tasks(w) -> Nat]
    /\ w.output \in [Tasks(w) -> Nat]
    /\ w.deps \subseteq Tasks(w) \X Tasks(w)
    /\ \A p, t \in Tasks(w) : <<p, t>> \in w.deps => w.output[p] = w.input[t]
    /\ w.position \in [Tasks(w) -> Tasks(w)]
    /\ \A t, u \in Tasks(w) : w.position[t] = w.position[u] => t = u
    /\ \A p, t \in Tasks(w) : <<p, t>> \in w.deps => w.position[p] < w.position[t]

\* Fault: the wrong sign.
UpwardRank_Subtracts(w, upward, workCost, dataCost, t) ==
    w.workload[t] * workCost
        - Max({0} \cup {DataTransfer(w, t) * dataCost + upward[c] : c \in Successors(w, t)})

\* Fault: the cheapest way on instead of the dearest.
UpwardRank_Cheapest(w, upward, workCost, dataCost, t) ==
    w.workload[t] * workCost
        + IF Successors(w, t) = {} THEN 0
          ELSE Min({DataTransfer(w, t) * dataCost + upward[c] : c \in Successors(w, t)})

\* Fault: the work of the predecessor is not counted.
DownwardRank_WithoutWork(w, downward, workCost, dataCost, t) ==
    Max({0} \cup {DataTransfer(w, p) * dataCost + downward[p] : p \in Predecessors(w, t)})

(***************************************************************************)
(* compute_upward_rank and compute_downward_rank, given the ranks computed *)
(* so far and the cost of a unit of work and of a unit of data.  All terms *)
(* are at least 0, which is what the code adds, or returns, when there is  *)
(* no neighbour.                                                           *)
(***************************************************************************)
UpwardRank(w, upward, workCost, dataCost, t) ==
    w.workload[t] * workCost
        + Max({0} \cup {DataTransfer(w, t) * dataCost + upward[c] : c \in Successors(w, t)})

DownwardRank(w, downward, workCost, dataCost, t) ==
    Max({0} \cup {w.workload[p] * workCost + DataTransfer(w, p) * dataCost + downward[p] :
                     p \in Predecessors(w, t)})
=============================================================================
