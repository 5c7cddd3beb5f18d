------------------------------ MODULE FrontEnd ------------------------------
(***************************************************************************)
(* The first half of main (src/src/static_task_scheduling.cpp): once the   *)
(* bags are read the dependencies are inferred or read from a file, some   *)
(* of them are removed for montage, and the workflow is constructed.  A    *)
(* throw on the way ends the program.                                      *)
(***************************************************************************)
EXTENDS Dependencies, Construction

CONSTANT
    Inputs  \* the inputs considered: records of the bags, the topology given
            \* by -p ("none" without), and the dependency file (or NoFile)

\* tasks, input_data_sizes and output_data_sizes of main.
UnpackedTasks(b) ==
    LET x == ExpandTaskBags(b, {}, << >>)
    IN  [size |-> x.size, workload |-> x.workload, memory |-> x.memory,
         input |-> x.input, output |-> x.output]

ASSUME InputsAssumption == \A x \in Inputs : x.bags \in Seq(TaskBag) /\ IsDependencyFile(x.file)

VARIABLES
    bags,      \* task_bags
    topology,  \* top
    file,      \* the dependency file
    bag        \* the bags that infer_dependencies has gone through

vars == <<bags, topology, file, bag, constructionVars>>

\* Ways the program ends before the constructor: runtime_error for an unknown
\* topology, a refused bag dependency or an unknown kind of file, out_of_range
\* for a bag or a job that does not exist, or a division by zero.
FrontOutcomes == {"bad_topology", "refused", "bad_file", "bag_missing", "unknown_job", "crash"}

FrontPhases == {"topology", "infer", "read", "remove"} \cup FrontOutcomes

Init ==
    /\ \E x \in Inputs : bags = x.bags /\ topology = x.topology /\ file = x.file
    /\ bag = 0
    /\ tasks = UnpackedTasks(bags)
    /\ dependencies = << >>
    /\ added = 0
    /\ edges = {}
    /\ independent = {}
    /\ incoming = {}
    /\ order = << >>
    /\ phase = "topology"

\* What the steps before the constructor leave alone.
GraphUnchanged == UNCHANGED <<bags, topology, file, tasks, added, edges, independent, incoming, order>>

----------------------------------------------------------------------------
\* from_string, the choice between the two sources, and the throw of
\* to_dependency_pattern when there is neither a file nor a topology.
ParseTopology ==
    /\ phase = "topology"
    /\ phase' = IF topology \notin KnownTopologies \cup {"none"} THEN "bad_topology"
                ELSE IF file # NoFile THEN "read"
                ELSE IF topology = "none" THEN "bad_topology" ELSE "infer"
    /\ GraphUnchanged /\ UNCHANGED <<bag, dependencies>>

Inferring == phase = "infer" /\ bag < Len(bags)

\* The dependencies of the pattern with the bag at hand as their source.
BagDependencies == {x \in DependencyPattern[topology] : x[1] = bag}

Fails(x) ==
    IsBag(bags, x[2]) => Refused(x[3], TasksOfBag(bags, x[1]), TasksOfBag(bags, x[2]))

Expansion(x) == ExpandBagDependency(x[3], TasksOfBag(bags, x[1]), TasksOfBag(bags, x[2]))

\* One iteration of infer_dependencies.
InferBag ==
    /\ Inferring
    /\ \A x \in BagDependencies : ~Fails(x)
    /\ dependencies' = dependencies \o FlattenSeq(SetToSeq({Expansion(x) : x \in BagDependencies}))
    /\ bag' = bag + 1
    /\ GraphUnchanged /\ UNCHANGED phase

\* Of several targets, which come in any order, one throws.
InferThrows ==
    /\ Inferring
    /\ \E x \in BagDependencies :
           Fails(x) /\ phase' = IF IsBag(bags, x[2]) THEN "refused" ELSE "bag_missing"
    /\ GraphUnchanged /\ UNCHANGED <<bag, dependencies>>

InferCrashes ==
    /\ Inferring
    /\ \E x \in BagDependencies :
           ~Fails(x) /\ DividesByZero(x[3], TasksOfBag(bags, x[1]), TasksOfBag(bags, x[2]))
    /\ phase' = "crash"
    /\ GraphUnchanged /\ UNCHANGED <<bag, dependencies>>

InferDone ==
    /\ phase = "infer"
    /\ bag = Len(bags)
    /\ phase' = "remove"
    /\ GraphUnchanged /\ UNCHANGED <<bag, dependencies>>

\* read_dependency_file.
ReadCsv ==
    /\ phase = "read"
    /\ file.kind = "csv"
    /\ dependencies' = file.rows
    /\ phase' = "remove"
    /\ GraphUnchanged /\ UNCHANGED bag

ReadXml ==
    /\ phase = "read"
    /\ file.kind = "xml"
    /\ IF Referenced(file.children) \subseteq ToSet(file.jobs)
       THEN dependencies' = XmlDependencies(file) /\ phase' = "remove"
       ELSE phase' = "unknown_job" /\ UNCHANGED dependencies
    /\ GraphUnchanged /\ UNCHANGED bag

ReadOther ==
    /\ phase = "read"
    /\ file.kind \notin {"csv", "xml"}
    /\ phase' = "bad_file"
    /\ GraphUnchanged /\ UNCHANGED <<bag, dependencies>>

\* The edges from bag 0 to bag 4 of a montage workflow are removed.
RemoveEdges ==
    /\ phase = "remove"
    /\ IF topology # "montage" THEN phase' = "check" /\ UNCHANGED dependencies
       ELSE IF ~IsBag(bags, 4) THEN phase' = "bag_missing" /\ UNCHANGED dependencies
       ELSE /\ dependencies' = RemoveBagDependencies(dependencies, 0, 4, bags)
            /\ phase' = "check"
    /\ GraphUnchanged /\ UNCHANGED bag

Construct == ConstructionNext /\ UNCHANGED <<bags, topology, file, bag>>

Next ==
    \/ ParseTopology
    \/ InferBag
    \/ InferThrows
    \/ InferCrashes
    \/ InferDone
    \/ ReadCsv
    \/ ReadXml
    \/ ReadOther
    \/ RemoveEdges
    \/ Construct

Spec == Init /\ [][Next]_vars

----------------------------------------------------------------------------
\* Every variable has the type the code declares for it, the graph is empty
\* before it is constructed, and no vertex is extracted and still to come.
TypeOK ==
    /\ phase \in FrontPhases \cup ConstructionPhases
    /\ IsTaskInput(tasks)
    /\ added \in 0 .. Len(dependencies)
    /\ edges \subseteq Ids \X Ids
    /\ independent \subseteq Ids
    /\ incoming \subseteq edges
    /\ order \in Seq(Ids)
    /\ independent \cap ToSet(order) = {}
    /\ phase \in FrontPhases => added = 0 /\ edges = {} /\ order = << >>

Linked(sources, targets) ==
    {d \in ToSet(dependencies) : d[1] \in ToSet(sources) /\ d[2] \in ToSet(targets)}

\* Each of receivers has one partner among givers, and no giver has two more
\* of them than another.
DividedEvenly(links, givers, receivers) ==
    /\ \A r \in ToSet(receivers) : \E g \in ToSet(givers) :
           {l \in links : r \in ToSet(l)} \in {{<<g, r>>}, {<<r, g>>}}
    /\ \A g, h \in ToSet(givers) :
           Cardinality({l \in links : g \in ToSet(l)}) <= Cardinality({l \in links : h \in ToSet(l)}) + 1

(***************************************************************************)
(* For bags of any cardinality tasks of the target bag depend on tasks of  *)
(* the source bag and never the other way round.  With one_to_one the i-th *)
(* target task depends on the i-th source task; the comment at             *)
(* bag_dependency.hpp:13 says that the source depends on the target, and   *)
(* this states what the code does.  With distribute and aggregate the      *)
(* tasks of one bag are divided as evenly as possible among those of the   *)
(* other, with a single partner each.  There are no other dependencies and *)
(* none twice.  All of them ascend, so that the constructor never finds a  *)
(* cycle, a duplicate or an unknown task.                                  *)
(***************************************************************************)
InferredDividesEvenly ==
    file = NoFile /\ phase \in ConstructionPhases =>
        /\ \A x \in DependencyPattern[topology] :
               IsBag(bags, x[1]) =>
                   LET sources == TasksOfBag(bags, x[1])
                       targets == TasksOfBag(bags, x[2])
                       links == Linked(sources, targets)
                   IN  CASE x[3] = "one_to_one" ->
                                /\ Len(sources) = Len(targets)
                                /\ links = {<<sources[i], targets[i]>> : i \in 1 .. Len(sources)}
                         [] x[3] = "distribute" -> sources # << >> => DividedEvenly(links, sources, targets)
                         [] x[3] = "aggregate"  -> targets # << >> => DividedEvenly(links, targets, sources)
        /\ \A k \in 1 .. Len(dependencies) :
               /\ dependencies[k][1] < dependencies[k][2]
               /\ \E x \in DependencyPattern[topology] :
                      /\ IsBag(bags, x[1])
                      /\ dependencies[k] \in Linked(TasksOfBag(bags, x[1]), TasksOfBag(bags, x[2]))
        /\ Cardinality(ToSet(dependencies)) = Len(dependencies)
        /\ phase \notin {"cyclic", "duplicate", "unknown_task"}
=============================================================================
