---------------------------- MODULE NodeSchedule ----------------------------
(***************************************************************************)
(* The intervals of one node (src/include/schedule/node_schedule.hpp): a   *)
(* sequence q of records [start, end, id, node] ordered by time, and the   *)
(* search for a slot for a task that is ready at time ready and runs for   *)
(* length ticks.                                                           *)
(***************************************************************************)
EXTENDS Integers, SequencesExt

Indices(q) == 1 .. Len(q)

\* Fault: the scan starts at the first interval, whenever the task is ready.
FirstNotEndingBefore_Always(q, ready) == 1

\* std::lower_bound: the first interval that does not end before the ready
\* time, or Len(q) + 1.  Intervals that do not overlap are ordered by end.
FirstNotEndingBefore(q, ready) ==
    Min({i \in Indices(q) : q[i].end >= ready} \cup {Len(q) + 1})

\* Fault: the gap is measured to the end of the next interval.
FirstGapFrom_ToEnd(q, i, length) ==
    Min({j \in i .. Len(q) : j = Len(q) \/ q[j + 1].end - q[j].end >= length})

\* From the i-th interval on, the first that leaves a long enough gap before
\* its successor; the last interval always does.
FirstGapFrom(q, i, length) ==
    Min({j \in i .. Len(q) : j = Len(q) \/ q[j + 1].start - q[j].end >= length})

\* Fault: front() for back().
TotalFinishTime_Front(q) == IF q = << >> THEN 0 ELSE Head(q).end

TotalFinishTime(q) == IF q = << >> THEN 0 ELSE Last(q).end

\* Fault: after the last interval the task waits for the ready time anew.
Slot_AddsWait(q, ready, length) ==
    LET i == FirstNotEndingBefore(q, ready)
        j == FirstGapFrom(q, i, length)
    IN  IF i > Len(q) THEN [at |-> i, start |-> TotalFinishTime(q) + ready]
        ELSE IF i = 1 /\ q[1].start >= ready + length THEN [at |-> 1, start |-> ready]
        ELSE [at |-> j + 1, start |-> q[j].end]

(***************************************************************************)
(* compute_earliest_finish_time: at is the index the task is inserted at   *)
(* (the iterator of time_slot), start the eft less the computation time.   *)
(***************************************************************************)
Slot(q, ready, length) ==
    LET i == FirstNotEndingBefore(q, ready)
        j == FirstGapFrom(q, i, length)
    IN  IF i > Len(q)
        THEN [at |-> i, start |-> Max({TotalFinishTime(q), ready})]
        ELSE IF i = 1 /\ q[1].start >= ready + length
        THEN [at |-> 1, start |-> ready]
        ELSE [at |-> j + 1, start |-> q[j].end]

\* node_schedule::is_valid: looks at neighbours only.
IsValidOnNode(q) ==
    \A i \in Indices(q) :
        /\ q[i].start <= q[i].end
        /\ i < Len(q) => q[i].end <= q[i + 1].start

----------------------------------------------------------------------------
\* No two intervals of a node overlap, neighbours or not.
Disjoint(q) ==
    /\ \A i \in Indices(q) : q[i].start < q[i].end
    /\ \A i, j \in Indices(q) : i < j => q[i].end <= q[j].start

\* The times from which a task of the given length can run on q undisturbed.
FreeFrom(q, length, time) ==
    \A i \in Indices(q) : q[i].end <= time \/ q[i].start >= time + length
=============================================================================
