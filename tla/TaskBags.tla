------------------------------ MODULE TaskBags ------------------------------
(***************************************************************************)
(* The task bags of the input (src/include/workflow/task_bag.hpp) and the  *)
(* tasks they expand to.  A bag is a record [workload, input, output,      *)
(* memory, cardinality]; bags is the sequence of them in file order, so    *)
(* the code's bag id is the index less one.                                *)
(***************************************************************************)
EXTENDS Workflow, SequencesExt

TaskBag == [workload : Int, input : Nat, output : Nat, memory : Nat, cardinality : Nat]

\* Ids are handed out bag after bag: the first id of bag b.
FirstId(bags, b) == FoldLeft(LAMBDA sum, bag : sum + bag.cardinality, 0, SubSeq(bags, 1, b - 1))

\* expand_task_bags_into_ids: an ascending sequence of ids for each bag.
TaskIdsPerBag(bags) ==
    [b \in 1 .. Len(bags) |->
        [i \in 1 .. bags[b].cardinality |-> FirstId(bags, b) + i - 1]]

BagOf(bags, t) ==
    CHOOSE b \in 1 .. Len(bags) :
        t \in FirstId(bags, b) .. FirstId(bags, b) + bags[b].cardinality - 1

\* expand_task_bags: every task inherits the attributes of its bag.  The
\* workflow it becomes once edges and a topological order are known.
ExpandTaskBags(bags, deps, position) ==
    LET ids == 0 .. FirstId(bags, Len(bags) + 1) - 1
    IN  [size     |-> FirstId(bags, Len(bags) + 1),
         workload |-> [t \in ids |-> bags[BagOf(bags, t)].workload],
         memory   |-> [t \in ids |-> bags[BagOf(bags, t)].memory],
         input    |-> [t \in ids |-> bags[BagOf(bags, t)].input],
         output   |-> [t \in ids |-> bags[BagOf(bags, t)].output],
         deps     |-> deps,
         position |-> position]
=============================================================================
