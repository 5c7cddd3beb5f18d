---------------------------- MODULE Dependencies ----------------------------
(***************************************************************************)
(* Where the edges of a workflow come from: they are inferred from the     *)
(* task bags and a topology (src/include/workflow/topology), or read from  *)
(* a file (src/include/io).  A dependency is a pair <<from, to>> of task   *)
(* ids.  Bags are known by their ids, as in the code: bag id b is the      *)
(* element b + 1 of bags.                                                  *)
(***************************************************************************)
EXTENDS TaskBags

TasksOfBag(bags, id) == TaskIdsPerBag(bags)[id + 1]

IsBag(bags, id) == id + 1 <= Len(bags)

(***************************************************************************)
(* to_dependency_pattern: triples <<source, target, kind>>.  For "none" it *)
(* throws, for any other name from_string did before.                      *)
(***************************************************************************)
DependencyPattern ==
    [epigenome  |-> {<<0, 1, "distribute">>, <<1, 2, "one_to_one">>, <<2, 3, "one_to_one">>,
                     <<3, 4, "one_to_one">>, <<4, 5, "aggregate">>, <<5, 6, "aggregate">>,
                     <<6, 7, "one_to_one">>},
     cybershake |-> {<<0, 1, "distribute">>, <<1, 3, "one_to_one">>, <<2, 3, "distribute">>,
                     <<3, 4, "aggregate">>},
     ligo       |-> {<<0, 1, "one_to_one">>, <<1, 2, "aggregate">>, <<2, 3, "distribute">>,
                     <<3, 4, "one_to_one">>, <<4, 5, "aggregate">>},
     montage    |-> {<<0, 1, "complex">>, <<0, 4, "one_to_one">>, <<1, 2, "aggregate">>,
                     <<2, 3, "one_to_one">>, <<3, 4, "distribute">>, <<4, 5, "aggregate">>,
                     <<5, 6, "one_to_one">>, <<6, 7, "one_to_one">>, <<7, 8, "one_to_one">>}]

KnownTopologies == DOMAIN DependencyPattern

\* Fault: nobody takes the remainder.
Share_Floor(total, parts, i) == total \div parts

\* How many of total tasks the i-th of parts tasks is linked to: the first
\* remainder many get one more (num_outgoing, num_incoming).
Share(total, parts, i) ==
    total \div parts + IF i <= total % parts THEN 1 ELSE 0

\* The tasks the parts before the i-th have taken (first_target_task_id,
\* first_source_task_id).
ShareStart(total, parts, i) ==
    (i - 1) * (total \div parts) + Min({i - 1, total % parts})

OneToOne(sources, targets) == [i \in 1 .. Len(sources) |-> <<sources[i], targets[i]>>]

Distribute(sources, targets) ==
    LET total == Len(targets)
        parts == Len(sources)
    IN  FlattenSeq([i \in 1 .. parts |->
            [j \in 1 .. Share(total, parts, i) |->
                <<sources[i], targets[ShareStart(total, parts, i) + j]>>]])

Aggregate(sources, targets) ==
    LET total == Len(sources)
        parts == Len(targets)
    IN  FlattenSeq([i \in 1 .. parts |->
            [j \in 1 .. Share(total, parts, i) |->
                <<sources[ShareStart(total, parts, i) + j], targets[i]>>]])

\* The bag dependencies expand_bag_dependency throws for.
Refused(kind, sources, targets) ==
    \/ kind = "one_to_one" /\ Len(sources) # Len(targets)
    \/ kind = "distribute" /\ Len(sources) > Len(targets)
    \/ kind = "aggregate" /\ Len(sources) < Len(targets)
    \/ kind = "complex"

\* The bag whose cardinality is the divisor is empty.
DividesByZero(kind, sources, targets) ==
    \/ kind = "distribute" /\ sources = << >>
    \/ kind = "aggregate" /\ targets = << >>

(***************************************************************************)
(* expand_bag_dependency where it does not throw.  After a division by     *)
(* zero that does not trap the loop runs over an empty bag.                *)
(***************************************************************************)
ExpandBagDependency(kind, sources, targets) ==
    IF DividesByZero(kind, sources, targets) THEN << >>
    ELSE IF kind = "one_to_one" THEN OneToOne(sources, targets)
    ELSE IF kind = "distribute" THEN Distribute(sources, targets)
    ELSE Aggregate(sources, targets)

\* is_between_source_and_target_bag.
Linking(d, sources, targets) == d[1] \in ToSet(sources) /\ d[2] \in ToSet(targets)

\* The others stay, in their order.
RemoveBagDependencies(dependencies, source, target, bags) ==
    FlattenSeq([k \in 1 .. Len(dependencies) |->
        IF Linking(dependencies[k], TasksOfBag(bags, source), TasksOfBag(bags, target))
        THEN << >> ELSE <<dependencies[k]>>])

----------------------------------------------------------------------------
(***************************************************************************)
(* A dependency file is a record with a kind.  A "csv" file has the rows   *)
(* <<from_id, to_id>>, an "xml" file has jobs, the sequence of the ids of  *)
(* its jobs, and children, a sequence of pairs of a job id and the         *)
(* sequence of those of its parents.                                       *)
(***************************************************************************)
NoFile == [kind |-> "no_file"]

IsDependencyFile(file) ==
    /\ file.kind = "csv" => file.rows \in Seq(Nat \X Nat)
    /\ file.kind = "xml" => /\ file.jobs \in Seq(STRING)
                           /\ file.children \in Seq(STRING \X Seq(STRING))

\* to_internal_id: jobs are numbered in the order of the file; insert keeps
\* what is there, so that of equal ids the first counts.
InternalId(jobs, id) == Min({i \in 1 .. Len(jobs) : jobs[i] = id}) - 1

\* The reader looks a child up only when it has a parent.
Referenced(children) ==
    UNION {{child[1]} \cup ToSet(child[2]) : child \in {c \in ToSet(children) : c[2] # << >>}}

XmlDependencies(file) ==
    FlattenSeq([i \in 1 .. Len(file.children) |->
        [j \in 1 .. Len(file.children[i][2]) |->
            <<InternalId(file.jobs, file.children[i][2][j]),
              InternalId(file.jobs, file.children[i][1])>>]])
=============================================================================
