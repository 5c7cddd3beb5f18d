# Verification of static_task_scheduling

TLA+ models of the scheduling program in `src/`, model-checked with TLC and, for
the results that do not depend on the size of the input, proved with TLAPS.

## The system

The program reads a cluster and a workflow, runs one or all of five static
scheduling algorithms (HEFT, CPOP, RBCA, DBCA, TDCA), optionally schedules a given
assignment of tasks to nodes, and prints every schedule with its makespan and the
verdict of `schedule::is_valid`. It is one thread; nothing is persisted. What is
hard in it are long sequences of insertions into a shared data structure that keeps
three indices, orders of tasks that only work when they happen to be topological,
and boundaries (gaps, ties, empty ranges) that a test on one workflow does not meet.

| component | state it keeps | operations | hard behaviour | what makes it correct |
|---|---|---|---|---|
| cluster (`cluster/`) | vector of nodes, constant | best node for a memory requirement, means, orders by performance | empty ranges are dereferenced | callers rule them out |
| workflow (`workflow/workflow.hpp`, `util/di_graph.hpp`) | DAG, topological order, independent tasks, bags; constant after construction | construction, ranks, `compute_est_and_eft` | ranks depend on the order they are computed in | a rank is a longest path; est is a lower bound |
| node schedule (`schedule/node_schedule.hpp`) | intervals in time order | search for a slot, insert, `is_valid` | gaps, boundaries, search in an ordered vector | the slot is free and after the ready time |
| schedule (`schedule/schedule.hpp`) | `node_schedules`, `task_intervals`, `scheduled_to_original_task_id` | insert on a node, insert where the task finishes first, makespan, validation | duplication of tasks, three indices, throws in the middle of a run | no overlap, precedence, agreement of the indices |
| HEFT, CPOP (`algorithms/`) | ranks, order or queue, critical path | one insertion after the other | unstable sort, ready queue fed by erased edges | topological order, each task once, memory respected, termination |
| RBCA, DBCA, TDCA | groups of tasks per bag or node | grouping, duplication, merging | bag order, undone moves | groups partition the tasks; predecessors first |
| inputs (`io/`, `workflow/topology/`, bags) | task bags, dependencies, the assignment read | expand bags, infer or read dependencies, read an assignment | remainders, empty bags, 0-based and 1-based ids, rows in any order | every task exactly once, even distribution, nothing wrong is accepted |
| main, output | the selected algorithms, what is reported | order of the calls, selection, report of an assignment | a throw leaves the rest undone; the matrix takes the value of an optional | only assignments are scheduled; the matrix has the transfer of every edge |
| command line, comparison of doubles | none | - | - | - |

The algorithms call `schedule::insert_into_node_schedule` or
`insert_into_best_eft_node_schedule`; these ask the workflow for the incoming edges
of a task, `task_intervals` for the copies of its predecessors, and the node schedule
for a slot, and then update the three indices. There are no callbacks and no
concurrency: an action of a model is one iteration of a loop of the code.

## Modules

`Cluster` (constants and what follows from them), `Workflow` (the constructed DAG as a
record, its accessors and the two ranks), `NodeSchedule` (slot search on a sequence of
intervals) and `Schedule` (the class `schedule` as a record and its operations as
operators) hold no variables. The state machines build on them:

* `ListScheduling` is the abstract specification of what every list scheduling
  algorithm does to its schedule: `Place(t, n)` is `insert_into_node_schedule` for a
  task whose predecessors are scheduled. The order and the node are left open. A task
  may be placed on several nodes. HEFT, CPOP, the reading of an assignment, RBCA and
  DBCA differ from it only in the choices they make.
* `Heft` is `heft` with `all_upward_ranks`, the sort and the insertion loop.
  `RankTask`, `Sort`, `InsertNext`, `Return` are the steps of the function, `Throw` its
  two exceptions. `ImplementsListScheduling` says that it refines `ListScheduling`
  under the identity mapping of `w` and `s`.
* `Cpop` is `cpop` with both ranks, `compute_critical_path`, `best_fitting_node` and
  the loop over the priority queue. `Throw` covers the three exceptions, and the phase
  "crash" the dereference of an empty range. When `best_performance_node` dereferences
  the end of its filtered range, the node id is whatever lies there: `ChooseNode` then
  picks any node or none.
* `TaskBags` expands bags to tasks with consecutive ids, and `Clustering` is `rbca` and
  `dbca` over them. `FormRuntimeGroups` is RBCA's grouping, `StartGroup` and `AddToGroup`
  are the two ways DBCA gives a task to a group, `FinishGroups` its closing check;
  `SortGroups` and `InsertTask` are `select_good_processors_for_expensive_groups`, with
  one insertion per step and any order within a group (an `unordered_set`).
  `Visited(group)` is the range from `begin()` to `end()` of a `task_group`; as `end()`
  returns `task_ids.begin()` it is empty. `DivideByZero` is `split_most_evenly` on an
  empty bag: where the division does not trap the function goes on with no groups.
  The mapping of `ImplementsListScheduling` is again the identity on `w` and `s`.
* `EarliestTimes` is `workflow::compute_est_and_eft`, from which TDCA starts. `Compute(t)`
  is one iteration of the loop over the topological order, with the loop over the nodes
  inside it. Once all times are computed `PlaceComputed` schedules as `ListScheduling`
  does, more freely than TDCA's `schedule_from_groups`, which goes through the tasks in
  topological order: what holds for all these schedules holds for those of TDCA.
* `Tdca` is the rest of `tdca` and extends `EarliestTimes`. `StartTrail`, `Bubble` and
  `EndTrail` form the initial groups, `PlaceRest` gives the tasks left over to nodes,
  `TrySplit` and `TryTrail` are the two halves of `task_duplication`'s loop body,
  `TryMerge` and `TryEdge` those of `merge_nodes` and `refine_edges`. Each of these tries
  one change, with the schedule `schedule_from_groups` makes of it (`ScheduleOf`), and
  keeps it or not (`Attempt`). Where the code would throw, for a group without a needed
  predecessor or for a task that is not in its group, the phase becomes "thrown";
  `NoTaskLost` says that it never does with equal bandwidths; with others
  `get_different_node_edges` may find no copy whose data arrive in time.
* `Dependencies` is where the edges come from, as operators: the patterns of the
  topologies, the three ways `expand_bag_dependency` has to link the tasks of two bags,
  the rows of a csv file, the jobs and children of an xml file, and the removal for
  montage.
* `Construction` is the constructor of `workflow` with `di_graph::add_edge` and
  `topological_order`: `CheckTasks`, one `AddEdge` or `RejectEdge` per dependency,
  `StartOrder`, one `Extract` per vertex of Kahn's algorithm (any independent vertex, as
  they are in an `unordered_set`), `FinishOrder`. `Built` is the record `Workflow` works
  with, so that `BuildsWorkflow` shows what all other modules assume of a workflow.
  `ConstructionSpec` is the constructor on its own, with any arguments.
* `FrontEnd` composes the two into the first half of `main`: `ParseTopology`, `InferBag`
  for one bag at a time with its throws and its division by zero, `ReadCsv`, `ReadXml`,
  the removal, and then the steps of the constructor.
* `BackEnd` is the second half of `main`: `Select`, `RunAlgorithm` or `AlgorithmThrows` for
  each selected algorithm, which here only returns or throws (`MayThrow`: TDCA only with
  different bandwidths, CPOP also for the crash without tasks), and then the given
  assignment: `ReadRow` and `Reject` are `read_task_to_node_assignment_csv`,
  `InsertTask` and `Throw` one iteration of `from_assignment`, `Report` the verdict and the
  communication matrix. The mapping of `ImplementsListScheduling` is the identity on `w`
  and `s`.
* `ScheduleProofs`, `ListSchedulingProofs`, `TdcaProofs`, `HeftProofs`, `CpopProofs`,
  `ClusteringProofs`, `FrontEndProofs` and `BackEndProofs` hold the theorems.
* `MCInputs` builds sets of workflows; `MCListScheduling`, `MCHeft`, `MCCpop`,
  `MCClustering`, `MCEarliestTimes`, `MCTdca`, `MCFrontEnd` and `MCBackEnd` are the
  instances for TLC.

Definitions named `X_...` under a comment "Fault:" are variants of `X` with a plausible
bug. No specification uses them; each property is checked to fail when one of them
takes the place of `X`.

### How the code's data are represented

* **Time.** The code computes in `double`. The models count ticks: with `Scale` ticks
  per unit of time, a common multiple of all performances and bandwidths, every
  quotient the code forms is a whole number and the arithmetic is exact. Comparisons
  with an epsilon become plain ones. Rounding is therefore not modelled, which the
  hazard on CPOP's comparison of priorities notes.
* **Ranks** are multiplied by `PerformanceSum * BandwidthSum / NumNodes`, which makes
  them whole and changes neither their order nor their equality.
* **Workflow.** Ids are `0 .. size - 1` as in the code. `topological_order` may return
  any topological order (it takes vertices from an `unordered_set`), so the instances
  enumerate all of them as `position`.
* **unordered containers** are functions and sets; where the code iterates over one and
  the order matters, the models choose nondeterministically. Ties in
  `max_element`/`min_element` over vectors go to the first, i.e. lowest, element as in
  the library; ties in the unstable `sort` are broken in every way.
* **Insertion** computes ready time, slot and interval and updates the three indices in
  one action, as the function does. It throws before it changes anything, so a throw is
  an action that only ends the run.

## Runs

| run | instance | shows |
|---|---|---|
| `list_scheduling` | 2 nodes of speeds and bandwidths 1 and 2, 3 tasks with workloads 1 or 3, data 0 or 3, every DAG along the ids, every order, every placement, copies on both nodes (109888 states) | the schedule is correct throughout, and `is_valid` rejects a complete one only where it charges less bandwidth than the scheduling did |
| `heft` | every DAG on 3 tasks, ids in any order, two workloads, memory that fits one node, both or none, both values of `-m` | the upward rank is the longest path, HEFT throws exactly for memory that fits nowhere and otherwise places all tasks where they fit, it ends, and it refines list scheduling |
| `heft_slot` (violation) | 5 tasks, two of them held apart on one node by data that comes late | the slot is not the earliest one |
| `cpop` | as `heft`, and the workflow without tasks | the path is critical, the queue holds exactly the ready tasks, CPOP ends, and it refines list scheduling |
| `cpop_memory` (violation) | every task fits a node | `-m` is not respected on the critical path |
| `clustering` | 3 nodes, two of the same speed; 6 sequences of bags with up to 5 tasks, empty bags among them; up to 3 edges in any direction; both algorithms (21195 states) | groups, nodes, bag order, termination of RBCA and DBCA |
| `dbca_similarity` (violation) | a bag of 4 tasks with two pairs of equal successors | DBCA does not group by similarity |
| `earliest_times` | 2 nodes, every DAG on 3 tasks along the ids, two workloads, cheap, dear and mixed data; all schedules after the times (244092 states) | the times are bounds and the critical trail is tight |
| `tdca` | 3 nodes, the first twice as fast; every DAG on 3 tasks along the ids, four DAGs on 4 and one on 5 tasks; two workloads, cheap and dear data (14152 states) | the groups keep every task, nothing throws (the bandwidths are equal), the schedule follows the groups, the result is valid |
| `tdca_refine` (violation) | 2 equal nodes, 4 tasks, one join | a refined edge leaves a copy behind that nothing needs |
| `front_end` | all 512 directed graphs on 3 tasks as csv files, rows that repeat an edge or name no task, xml files with jobs in any order, and bags of up to 5 tasks for all four topologies, empty bags and missing ones among them (14391 states) | the constructor refuses exactly what it should and builds a proper workflow; inferred edges are evenly divided and go from the source to the target bag; each way to end is reached |
| `back_end` | 2 nodes; workflows of 2 and 3 tasks with edges in both directions of the ids; files of up to 4 rows whose values go one beyond the allowed; four selections of algorithms (565001 states) | a file is rejected exactly when it is no assignment, otherwise it is scheduled as it says, and its matrix has every transfer |

The runs switch deadlock checking off because the functions end.

**Bounds.** Two nodes are the least on which a choice, a transfer and a duplication
exist; different speeds make the best node depend on the situation. Three tasks allow
chains, forks, joins and independent tasks, and, with copies, up to six intervals, so
that gaps before, between and behind intervals arise, shorter than, as long as and
longer than a task. Two workloads and data sizes are enough to make the comparisons of
the slot search go all ways; the gap that `heft_slot` needs takes five tasks. TDCA needs a third node: only then is a
node still unoccupied when a group is split that is not a trail of critical
predecessors. Its four iterations are those of the code. Three tasks have every kind of
graph the constructor distinguishes: cycles of length one, two and three, and acyclic
ones with several orders. Bags of up to 5 tasks against up to 3 give each remainder 0, 1
and 2 in both directions. An assignment file can be wrong by a value, a missing row or
a repeated one, for which three rows suffice; the fourth is one that assigns nothing.
`SizeValues = 8` stands for the 2^64 values of a `size_t`: all that counts is that 0 - 1
is beyond the nodes. The theorems do not depend on any bound.

**Fairness.** The algorithms are sequential functions: as long as a step is possible
the program takes one, hence weak fairness of `Next` as a whole, and nothing finer.
`ListScheduling` states safety only.

**Disagreements.** `PROJECT.json` lists under "findings" the four places where a
comment or the README says something the code does not do: the slot search misses gaps
(`node_schedule.hpp:53`), CPOP takes the least instead of the largest memory
requirement of the critical path (`cpop.hpp:102`), DBCA's search for the most similar task
(`dbca.hpp:140`) sums over an empty range, and TDCA's refinement (`tdca.hpp:370`) never
removes a task from the node it comes from, as its condition is the wrong way round.
Five more are stated here only; there the models do what the code does:

* `bag_dependency.hpp:13-14` says of `one_to_one` that "the i-th task of the source bag
  depends on the i-th task of the target bag". `infer_dependencies.hpp:19` adds the
  dependency from the source task to the target task, so the target depends on the source,
  as it does for `distribute` and `aggregate`. `InferredDividesEvenly` states the direction
  of the code and contradicts the comment.
* The comments on `distribute` and `aggregate` speak of more and of less tasks in the target
  bag; the code (`infer_dependencies.hpp:97` and `:109`) refuses only the opposite, so equal
  numbers are divided, too.
* The "enforced" independent task of `cpop.hpp:54` does not exist for a workflow without
  tasks, which `Cpop` shows as the phase "crash". `Terminates` accepts it as an end.
* The message "All tasks need a workload > 0" (`workflow.hpp:51`) is thrown for 0 only, so
  that `BuildsWorkflow` has to exclude negative workloads.
* `src/README.md:88` says of `-m` that "tasks are only scheduled onto cluster nodes with
  sufficient memory". `from_assignment` places each task on the node the file names, however
  large that is, and `AssignmentDecides` says the same whether `-m` is given or not.

## Proofs

Assumptions are those declared in the modules: `ClusterAssumption` (at least one node;
positive performances and bandwidths), `ScaleAssumption` (the ticks are exact),
`WorkflowsAssumption` (workflows as the constructor leaves them: edges only between
tasks, positive workloads, a topological position), `MemoryFlagsAssumption`; for
`Clustering` `BagInputsAssumption` (sequences of bags) and `AlgorithmsAssumption`; for
`FrontEnd` `InputsAssumption` (sequences of bags; ids in a csv file are natural numbers, those
in an xml file strings; nothing else about the file, and nothing about the topology); and for
`BackEnd` `SizeAssumption` (a `size_t` can count the nodes) and `FilesAssumption` (the
numbers in a file are natural). Each module of proofs has one inductive invariant; it is
longer than the properties wanted, as none of these is inductive on its own.

`ScheduleProofs` has what all others cite. Its first part is about the folds of the
community modules, which the models use for sums: that `SumOver` adds up is shown without
an induction theorem, by a minimal counterexample among the finite subsets of the domain.
Its second part proves what `Min`, `Max` and `InsertAt` return, and from it `SlotIsFree`: on
disjoint intervals in time order, the slot found for any length and ready time starts no
earlier than the ready time, after every interval before it and early enough for every
interval behind it. One insertion keeps the type of a schedule and its nodes free of
overlaps, and gives a new id. Both ranks exceed those of the neighbours by at least the
cost of the edge and by just that cost along some edge; the best node exists exactly when
some node has enough memory.

`ListSchedulingProofs` proves that `IInv`, the conjunction of the type invariant, no
overlap, precedence and the three parts of the agreement of the indices, is inductive:
the slot search is only right on nodes without overlap, ids are only unique because all
ids in use are below the length of the id map, and precedence is kept because the start
is at least the ready time, which is the arrival of some copy, and copies are never
removed. From it follow, for every cluster, workflow and choice of the algorithms:
`TypeCorrect`, `NodesNeverOverlap`, `PrecedenceAlwaysRespected`, `IndicesAlwaysAgree`,
`CompleteAlwaysValid`, `MakespanAlwaysLatestEnd`, and the properties of steps
`PlacedAlwaysStays`, `DataNeverGetsLater`, `NeverWorseThanAppended`. `CompleteAlwaysValid`
holds for any bandwidths: the scheduling charges the bandwidth of the source of a transfer,
`is_valid` that of its target, so it can miss every copy of a predecessor only where one
was sent in time from a node of more bandwidth (`Misjudged`). With equal bandwidths there
is none, and every complete schedule is valid (`UniformAlwaysValid`). In `list_scheduling`,
whose nodes differ in bandwidth, both verdicts occur.

`HeftProofs`: ranks are computed against the topological order (`RankedBehindUnranked`),
so a task's rank exceeds those of its successors (`RanksDescend`); workloads are positive,
so it does so strictly, and a list sorted by rank, however ties fall, has predecessors in
front. As the tasks in front of `next` are exactly the scheduled ones (`ScheduledInOrder`),
no ready time is asked for too soon (`NeverAsksTooSoon`), each step is a `Place` or a
stutter (`HeftRefinesListScheduling`), and memory alone decides (`MemoryAlwaysDecides`).
`UpwardAlwaysLongestPath` compares the rank with the heaviest of all paths: a path is its
first task followed by a path of a successor, and the rank of the first task bounds the
weight of both (`Longest`), again by a minimal counterexample, here along the positions.

`CpopProofs`: `RanksTight` says that the downward rank of a task is that of some
predecessor plus the cost of the edge, and the upward rank likewise for some successor.
So the priority, the sum of the two, is constant along some edge into and out of a
task of the highest priority; the highest is that of an entry task, and the path goes
on until an exit task (`PathAlwaysCritical`). The temporary edges are those whose source is
not scheduled (`IncomingLeft`), so the queue is in sync (`QueueAlwaysInSync`), what is taken
from it is ready, and `CpopRefinesListScheduling` follows.

`ClusteringProofs`: first the arithmetic of `split_most_evenly`. The starts of the groups
(`GroupStarts`) are cuts of the bag whose distances are the quotient or one more, so the last
group ends where the bag does; RBCA cuts there at once, while DBCA's groups are as full as
the cuts say at every step (`Growing`). Hence `GroupsAlwaysDivideBag` for both. Between two
bags exactly the tasks of the earlier ones are placed (`Unplaced`, `PlacedOnce`); within a
bag, the tasks of the i-th group are on the i-th node or pending (`GroupsMatched`), and the
groups are sorted by workload. So the work on a node is that of its group when the bag is
done, and later bags do not change it (`FasterFirst`, `MoreWorkAlwaysOnFasterNodes`). A ready
time is asked for too soon only because of an edge into the same bag or an earlier one
(`ThrowsForEdge`), and no task is placed that has an edge from a later bag
(`EdgesForward`); hence `BagOrderAlwaysDecides`, and every insertion is a `Place`
(`ClusteringRefinesListScheduling`).

`TdcaProofs` has two parts. The first is `workflow::compute_est_and_eft`: the best node, the
one `max_element` returns, computes every task fastest, and from it `TInv` is inductive. A
computed time is 0 or the arrival of the data of a predecessor, whose times are computed
too and never change again; the best node has the best finish time; the trail of critical
predecessors is tight; nothing is scheduled before all times are there; and no interval
starts before its est. The last part needs the others: the data of a predecessor arrive
from some copy, on the node itself, where the second alternative of the code bounds it, or
on another one, which is no faster than the best node and, with equal bandwidths, pays the
transfer the code adds. `TimesTypeCorrect`, `BestNodeAlwaysBest`, `TimesAreBounds` and
`CriticalTrailAlwaysTight` follow.

The second part is `tdca` itself. `schedule_from_groups` is a recursive function over the
positions of the topological order; that it exists and what it inserts is shown by a least
counterexample. If every task is in some group, every task finds copies of its
predecessors, nothing throws, and the schedule is valid (`AllPlaced`, `AllPlacedSchedule`).
`DInv` carries this from phase to phase. While groups are formed, each is a trail that grows
at its first task, on a node that is no longer free (`TrailsGrow`); the tasks left over are
placed in topological order behind the schedule of the groups (`RestFollowsGroups`), after
which every task is in some group. Splitting moves tasks only when one is behind them
(`SplitInside`), merging and duplicating only add copies, and the source of an edge that is
refined stays on its node (`SourcesStay`), as refining never removes anything. Hence
`TasksNeverLost`, `StateAlwaysMatchesGroups` (the schedule whose makespan decides is that of
the groups), `GroupsAlwaysTrails` and `TdcaAlwaysReturnsValid`.

`FrontEndProofs` has two parts as well. The first is the constructor, for any number of tasks
and any sequence of dependencies (`ConstructionSpec`): the temporary edges are those whose
source is not extracted (`IncomingLeft`), the independent vertices those whose predecessors
all are (`IndependentReady`), and each vertex is extracted behind its predecessors and once
(`OrderTopological`). When none is independent, each vertex left has a predecessor that is
left: on a finite set this makes a cycle (`ConstructorAlwaysDecides`); otherwise the order has
all vertices and is the position `Workflow` assumes (`AlwaysBuildsWorkflow`).

The second part is the program up to there. What `FlattenSeq` returns is shown, as for the
sums, by a least counterexample among its prefixes; that `SetToSeq` returns every element
once, by counting. The shares of a division follow one another and add up to the total
(`SharesProperty`), so every task of the divided bag is in one share (`SharesDivide`), and
what `Distribute` and `Aggregate` return divides it evenly (`ExpandProperty`). `FInv` says
which part of this is there after each iteration (`InferredUpTo`): the expansions of the
entries whose source is one of the bags gone through, each dependency once. For that, no
dependency may come from two entries (`EntriesApart`), which holds because no two bags share
a task and no two entries are for the same bags. In the end exactly the expansion of their
entry is between two bags (`LinkedIsExpansion`), and ids ascend along it
(`DependenciesAscend`), so the graph has no cycle: hence `InferenceDividesEvenly`. A montage
workflow without a file needs no exception: its first bag has a "complex" dependency, which
is refused, so the constructor is never reached. `FrontEndTypeOK`, `ProgramDecides` and
`ProgramBuildsWorkflow` state the type invariant and the properties of the constructor for
the program as a whole.

`BackEndProofs`: the expected numbers are those of the tasks that no row read so far
assigns, and no two rows assign the same one (`RowsRead`); the tasks below `task` have one
interval each, on the node the file names (`Inserted`). Hence `AssignmentAlwaysDecides` and
`BackEndRefinesListScheduling`. For `MatrixAlwaysFollowsAssignment` the schedule has a
single copy of each task (`SingleCopies`), and this copy's data arrive in time
(`DataInTime`), so `find_predecessor_interval` finds it and the transfers found are, renamed,
the edges between nodes; equal sums follow.

With the four refinements HEFT, CPOP, `from_assignment` and RBCA and DBCA inherit every
property `ListSchedulingProofs` proves of the schedule.

Only model-checked is termination, a liveness property, which is out of the prover's reach;
that is all of `EndsWithValidSchedule` that `TdcaAlwaysReturnsValid` leaves open.

## Plan

Done: `Cluster`, `Workflow`, `NodeSchedule`, `Schedule` and `ListScheduling`, from which
everything inherits; `Heft`, `Cpop`; `EarliestTimes`; `TaskBags` and `Clustering`; `Tdca`;
`Dependencies`, `Construction` and `FrontEnd`; `BackEnd`; and the proofs above.

What could follow: a measure that every step of TDCA, RBCA and DBCA lowers, as a property of
steps: it would prove of termination what can be proved without fairness.

## Not modelled

Parsing of CSV and XML and the command line, which third-party libraries do; the
formatting of output and the writing of files; the measurement of time; and the rounding
of doubles. `BackEnd` does not repeat the algorithms: there they return or throw, under the
conditions their own modules establish. With `FrontEnd` the models follow a run of
`main` from its inputs to the workflow, with `BackEnd` from a workflow to the reports;
`BuildsWorkflow` and `WorkflowsAssumption` are the seam between the two.
