----------------------------- MODULE MCBackEnd -----------------------------
(***************************************************************************)
(* Instances of BackEnd.                                                   *)
(***************************************************************************)
EXTENDS BackEnd, MCInputs

MCCorePerformance == 0 :> 1 @@ 1 :> 1
MCNumCores == 0 :> 1 @@ 1 :> 2
MCNetworkBandwidth == 0 :> 2 @@ 1 :> 2
MCMemory == 0 :> 1 @@ 1 :> 2

\* Workflows of two tasks and of three with two edges, the ids in any order; one
\* topological order for each will do, as none is looked at.  In some of the
\* first a task fits no node.
Some(workflows) == {CHOOSE x \in workflows : x.deps = deps : deps \in {x.deps : x \in workflows}}

SmallWorkflows ==
    UNION {Some(WorkflowsOver(2, {0 :> 1 @@ 1 :> 3}, {memory}, {0 :> 3 @@ 1 :> 2}, Dags(2))) :
               memory \in {0 :> 1 @@ 1 :> 1, 0 :> 3 @@ 1 :> 1}}
        \cup Some(WorkflowsOver(3, {0 :> 1 @@ 1 :> 3 @@ 2 :> 1}, {0 :> 1 @@ 1 :> 2 @@ 2 :> 1},
                                {0 :> 3 @@ 1 :> 3 @@ 2 :> 3},
                                {deps \in Dags(3) : Cardinality(deps) = 2}))
MCWorkflows == SmallWorkflows

Rows(tasks, nodes, flags) == [task : tasks, node : nodes, assigned : flags]

\* One and two rows with every value up to one beyond the largest allowed, and
\* three rows that assign tasks to nodes; with a fourth that does not.
SmallFiles ==
    {<< >>} \cup {<<a>> : a \in Rows(0 .. 3, {1}, {1})}
        \cup {<<a, b>> : a \in Rows(0 .. 3, 0 .. 3, {1}) \cup Rows({1}, {1}, {0, 2}),
                         b \in Rows(0 .. 3, {0, 2, 3}, {0, 1})}
        \cup {<<a, b, c>> : a \in Rows(1 .. 3, 0 .. 2, {1}), b \in Rows(1 .. 3, {1}, {1}),
                            c \in Rows(1 .. 3, 1 .. 2, {1})}
        \cup {<<a, b, c, d>> : a \in Rows({1}, 1 .. 2, {1}), b \in Rows(2 .. 3, {0}, {0}),
                               c \in Rows(2 .. 3, {1}, {1}), d \in Rows(2 .. 3, 1 .. 2, {1})}
MCFiles == SmallFiles
=============================================================================
