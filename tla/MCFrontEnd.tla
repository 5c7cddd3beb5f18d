----------------------------- MODULE MCFrontEnd -----------------------------
(***************************************************************************)
(* Instances of FrontEnd: every directed graph on three tasks, read from   *)
(* csv files, broken and repeated rows, xml files, and bags of small       *)
(* cardinalities for every topology.                                       *)
(***************************************************************************)
EXTENDS FrontEnd, TLC

MCBag(workload, input, output, cardinality) ==
    [workload |-> workload, input |-> input, output |-> output, memory |-> 1,
     cardinality |-> cardinality]

\* Bags of the given cardinalities whose data sizes all match.
Plain(cardinalities) == [b \in 1 .. Len(cardinalities) |-> MCBag(b, 1, 1, cardinalities[b])]

\* Three tasks; the second and third send more than the first takes; a bag
\* without workload; a negative one.
ReadBags ==
    {Plain(<<3>>), <<MCBag(1, 1, 2, 1), MCBag(2, 2, 3, 2)>>, <<MCBag(2, 1, 1, 2), MCBag(0, 1, 1, 1)>>,
     <<MCBag(-1, 1, 1, 2)>>}

\* The same without workloads: the constructor refuses them, so that large
\* bags do not lead to thousands of orders.
Idle(cardinalities) == [b \in 1 .. Len(cardinalities) |-> MCBag(0, 1, 1, cardinalities[b])]

Small(b) == FirstId(b, Len(b) + 1) <= 6

PlainIfSmall(cardinalities) ==
    IF Small(Plain(cardinalities)) THEN Plain(cardinalities) ELSE Idle(cardinalities)

CybershakeBags ==
    {PlainIfSmall(<<a, b, c, b, d>>) : a \in 0 .. 2, b \in 0 .. 5, c \in 0 .. 3, d \in 0 .. 3}
        \cup {Plain(<<1, 2, 1, 2, 1>>)}

LigoBags ==
    {PlainIfSmall(<<a, a, b, c, c, d>>) : a \in {0, 1, 2, 5}, b \in 0 .. 2, c \in 0 .. 3, d \in 0 .. 2}

EpigenomeBags ==
    {Plain(<<1, 2, 2, 2, 2, 1, 1, 1>>), Plain(<<1, 2, 2, 1, 2, 1, 1, 1>>),
     Idle(<<2, 5, 5, 5, 5, 3, 2, 2>>)}

MontageBags == {Plain(<<1, 1, 1, 1, 1, 1, 1, 1, 1>>)}

\* The last bag takes less data than the one before it sends, a bag is missing.
BrokenBags ==
    {<<MCBag(1, 1, 1, 1), MCBag(1, 1, 1, 2), MCBag(1, 1, 1, 1), MCBag(1, 1, 1, 2), MCBag(1, 2, 1, 1)>>,
     Plain(<<1, 1>>), << >>}

AllEdges == <<<<2, 0>>, <<0, 0>>, <<0, 1>>, <<1, 2>>, <<0, 2>>, <<1, 1>>, <<1, 0>>, <<2, 1>>, <<2, 2>>>>

Csv(rows) == [kind |-> "csv", rows |-> rows]

Graphs3 == {Csv(SelectSeq(AllEdges, LAMBDA e : e \in g)) : g \in SUBSET ToSet(AllEdges)}

BrokenFiles ==
    {Csv(<<<<0, 1>>, <<1, 2>>, <<0, 1>>>>), Csv(<<<<0, 1>>, <<1, 3>>>>), Csv(<<<<3, 0>>>>),
     [kind |-> "other"]}

\* Ids that are no numbers, in the order of the jobs; one repeated, one unknown.
XmlFiles ==
    {[kind |-> "xml", jobs |-> jobs, children |-> children] :
        jobs \in {<<"a", "b", "c">>, <<"c", "b", "a">>, <<"b", "a", "b", "c">>},
        children \in {<<<<"c", <<"a", "b">>>>, <<"b", <<"a">>>>>>,
                      <<<<"c", <<"d">>>>, <<"e", << >>>>>>,
                      <<<<"b", <<"a">>>>, <<"e", << >>>>>>}}

\* A montage workflow with the edges from bag 0 to bag 4.
MontageFile == Csv([k \in 1 .. 8 |-> <<k - 1, k>>] \o <<<<0, 4>>>>)

InputsOf(bagSets, topologies, files) ==
    {[bags |-> b, topology |-> p, file |-> f] : b \in bagSets, p \in topologies, f \in files}

AllInputs ==
    InputsOf({Plain(<<3>>)}, {"none"}, Graphs3 \cup BrokenFiles \cup XmlFiles \cup {NoFile})
        \cup InputsOf(ReadBags, {"none", "ligo"}, BrokenFiles \cup XmlFiles \cup {Csv(<<>>)})
        \cup InputsOf(ReadBags, {"unknown"}, {NoFile, Csv(<<>>)})
        \cup InputsOf(CybershakeBags \cup BrokenBags, {"cybershake"}, {NoFile})
        \cup InputsOf(LigoBags \cup BrokenBags, {"ligo"}, {NoFile})
        \cup InputsOf(EpigenomeBags, {"epigenome", "ligo"}, {NoFile})
        \cup InputsOf(MontageBags \cup BrokenBags, {"montage"}, {NoFile, MontageFile})
MCInputs == AllInputs
=============================================================================
