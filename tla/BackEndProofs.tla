---------------------------- MODULE BackEndProofs ----------------------------
(***************************************************************************)
(* The reading of an assignment and the schedule that is made of it, for   *)
(* every cluster, workflow and file.  The expected task numbers are those  *)
(* no row read so far has assigned, so that at the end of an accepted file *)
(* each task has a single row; the number 0 of a node, which the reader    *)
(* lets through, wraps around to an id beyond all nodes.                   *)
(***************************************************************************)
EXTENDS BackEnd, ScheduleProofs

RowType == [task : Nat, node : Nat, assigned : Nat]

NodesDisjoint == \A n \in Nodes : Disjoint(s.node[n])

BTypeOK ==
    /\ IsWorkflow(w)
    /\ s \in Schedules(w)
    /\ rows \in Seq(RowType)
    /\ read \in 0 .. Len(rows)
    /\ expected \subseteq 1 .. w.size
    /\ assignment \in [Tasks(w) -> Int]
    /\ task \in 0 .. w.size

InRange(row) ==
    /\ row.task <= w.size /\ row.node <= NumNodes /\ row.assigned <= 1
    /\ row.assigned = 1 => row.task # 0

RowsRead ==
    /\ \A k \in 1 .. read : InRange(rows[k])
    /\ \A t \in Tasks(w) : t + 1 \in expected <=> \A k \in 1 .. read : k \notin RowsOf(t)
    /\ \A t \in Tasks(w) : \A j, k \in 1 .. read :
           j \in RowsOf(t) /\ k \in RowsOf(t) => j = k
    /\ \A t \in Tasks(w) : \A k \in 1 .. read :
           k \in RowsOf(t) => assignment[t] = NodeId(rows[k])

Inserted ==
    /\ \A t \in Tasks(w) : Len(s.task[t]) = IF t < task THEN 1 ELSE 0
    /\ \A t \in Tasks(w) :
           t < task => /\ assignment[t] \in Nodes
                       /\ s.task[t][1].node = assignment[t]
                       /\ \A p \in Predecessors(w, t) : p < t

ReadThenInserted ==
    /\ phase \in {"select", "run", "read"} => task = 0
    /\ phase \in {"insert", "out_of_range"} \/ (phase = "done" /\ given) =>
           read = Len(rows) /\ expected = {}
    /\ phase = "done" /\ given => task = w.size

EndsForReason ==
    /\ phase = "rejected" => ~IsAssignment
    /\ phase = "out_of_range" => task < w.size /\ ~CanInsert

BInv ==
    /\ BTypeOK
    /\ NodesDisjoint
    /\ RowsRead
    /\ Inserted
    /\ ReadThenInserted
    /\ EndsForReason

----------------------------------------------------------------------------
LEMMA RowsTyped ==
    ASSUME BTypeOK
    PROVE  /\ Len(rows) \in Nat
           /\ read \in Nat /\ read <= Len(rows)
           /\ w.size \in Nat
           /\ \A k \in 1 .. Len(rows) : rows[k] \in RowType
<1>1. rows \in Seq(RowType)
  BY DEF BTypeOK
<1>2. Len(rows) \in Nat /\ \A k \in 1 .. Len(rows) : rows[k] \in RowType
  BY <1>1
<1>3. read \in 0 .. Len(rows)
  BY DEF BTypeOK
<1>4. w.size \in Nat
  BY DEF BTypeOK, IsWorkflow
<1> QED
  BY <1>2, <1>3, <1>4

LEMMA RowsOfProperty ==
    ASSUME BTypeOK, NEW t
    PROVE  /\ RowsOf(t) \subseteq 1 .. Len(rows)
           /\ IsFiniteSet(RowsOf(t))
<1>1. RowsOf(t) \subseteq 1 .. Len(rows)
  BY DEF RowsOf, Indices
<1>2. Len(rows) \in Nat
  BY RowsTyped
<1>3. IsFiniteSet(1 .. Len(rows))
  BY <1>2, FS_Interval
<1> QED
  BY <1>1, <1>3, FS_Subset

\* An accepted file read to its end is an assignment, and what the program has
\* taken from it is what the file says.
LEMMA ReadIsAssignment ==
    ASSUME BInv, read = Len(rows), expected = {}
    PROVE  /\ IsAssignment
           /\ \A t \in Tasks(w) :
                  /\ Given(t) \in 0 .. NumNodes
                  /\ assignment[t] = (Given(t) - 1) % SizeValues
<1>1. BTypeOK /\ RowsRead
  BY DEF BInv
<1>2. ASSUME NEW t \in Tasks(w)
      PROVE  \E k \in 1 .. Len(rows) : RowsOf(t) = {k} /\ assignment[t] = NodeId(rows[k])
  <2>1. PICK k \in 1 .. read : k \in RowsOf(t)
    BY <1>1 DEF RowsRead
  <2>2. RowsOf(t) \subseteq 1 .. read
    BY <1>1, RowsOfProperty
  <2>3. \A j \in RowsOf(t) : j = k
    BY <1>1, <2>1, <2>2 DEF RowsRead
  <2>4. RowsOf(t) = {k}
    BY <2>1, <2>3
  <2>5. assignment[t] = NodeId(rows[k])
    BY <1>1, <2>1 DEF RowsRead
  <2> QED
    BY <2>1, <2>4, <2>5
<1>3. IsAssignment
  <2>1. \A t \in Tasks(w) : Cardinality(RowsOf(t)) = 1
    BY <1>2, FS_Singleton
  <2>2. \A k \in Indices(rows) : InRange(rows[k])
    BY <1>1 DEF RowsRead, Indices
  <2> QED
    BY <2>1, <2>2 DEF IsAssignment, InRange
<1>4. ASSUME NEW t \in Tasks(w)
      PROVE  /\ Given(t) \in 0 .. NumNodes
             /\ assignment[t] = (Given(t) - 1) % SizeValues
  <2>1. PICK k \in 1 .. Len(rows) : RowsOf(t) = {k} /\ assignment[t] = NodeId(rows[k])
    BY <1>2
  <2>2. (CHOOSE j \in RowsOf(t) : TRUE) = k
    BY <2>1
  <2>3. Given(t) = rows[k].node
    BY <2>2 DEF Given
  <2>4. rows[k] \in RowType
    BY <1>1, <2>1, RowsTyped
  <2>5. InRange(rows[k])
    BY <1>1, <2>1 DEF RowsRead
  <2>6. rows[k].node \in Nat /\ rows[k].node <= NumNodes /\ NumNodes \in Nat
    BY <2>4, <2>5, ClusterAssumption DEF InRange, RowType
  <2> QED
    BY <2>1, <2>3, <2>6 DEF NodeId
<1> QED
  BY <1>3, <1>4

\* The id made of a node number between 0 and the number of nodes.
LEMMA NodeIdProperty ==
    ASSUME NEW x \in 0 .. NumNodes
    PROVE  /\ (x - 1) % SizeValues \in Nodes <=> x # 0
           /\ x # 0 => (x - 1) % SizeValues = x - 1
<1>1. NumNodes \in Nat /\ SizeValues \in Nat \ {0} /\ SizeValues > NumNodes
  BY ClusterAssumption, SizeAssumption
<1>2. CASE x = 0
  <2>1. (x - 1) % SizeValues = SizeValues - 1
    BY <1>1, <1>2
  <2> QED
    BY <1>1, <1>2, <2>1 DEF Nodes
<1>3. CASE x # 0
  <2>1. x - 1 \in 0 .. SizeValues - 1 /\ x - 1 \in Nodes
    BY <1>1, <1>3 DEF Nodes
  <2>2. (x - 1) % SizeValues = x - 1
    <3> DEFINE a == x - 1
    <3>1. a \in 0 .. SizeValues - 1
      BY <2>1
    <3> HIDE DEF a
    <3>2. a % SizeValues = a
      BY <1>1, <3>1
    <3> QED
      BY <3>2 DEF a
  <2> QED
    BY <1>3, <2>1, <2>2
<1> QED
  BY <1>2, <1>3

----------------------------------------------------------------------------
LEMMA InitEstablishesBInv == Init => BInv
<1> SUFFICES ASSUME Init PROVE BInv
  OBVIOUS
<1>1. IsWorkflow(w) /\ w.size \in Nat
  BY WorkflowsAssumption DEF Init, IsWorkflow
<1>2. PICK useMemory \in MemoryFlags : s = NewSchedule(w, useMemory)
  BY DEF Init
<1>3. useMemory \in BOOLEAN
  BY MemoryFlagsAssumption
<1>4. /\ s \in Schedules(w)
      /\ \A n \in Nodes : Disjoint(s.node[n])
      /\ \A t \in Tasks(w) : s.task[t] = << >>
  BY <1>2, <1>3, NewScheduleProperties
<1>5. rows \in Seq(RowType)
  <2>1. rows \in IF given THEN Files ELSE {<< >>}
    BY DEF Init
  <2>2. \A x \in Files : x \in Seq(RowType)
    BY FilesAssumption DEF RowType
  <2>3. << >> \in Seq(RowType)
    OBVIOUS
  <2> QED
    BY <2>1, <2>2, <2>3
<1>6. BTypeOK
  <2>1. Len(rows) \in Nat
    BY <1>5
  <2> QED
    BY <1>1, <1>4, <1>5, <2>1 DEF Init, BTypeOK
<1>7. NodesDisjoint
  BY <1>4 DEF NodesDisjoint
<1>8. RowsRead
  BY <1>1 DEF Init, RowsRead, Tasks
<1>9. Inserted
  BY <1>4 DEF Init, Inserted, Tasks
<1>10. ReadThenInserted /\ EndsForReason
  BY DEF Init, ReadThenInserted, EndsForReason
<1> QED
  BY <1>6, <1>7, <1>8, <1>9, <1>10 DEF BInv

\* Steps that only move on to another phase.
LEMMA PhaseStepKeepsBInv ==
    ASSUME BInv, UNCHANGED <<w, s, given, rows, read, expected, assignment, task>>,
           ReadThenInserted', EndsForReason'
    PROVE  BInv'
<1>1. BTypeOK' /\ NodesDisjoint'
  BY DEF BInv, BTypeOK, NodesDisjoint
<1>2. RowsRead'
  BY DEF BInv, RowsRead, RowsOf, InRange, NodeId
<1>3. Inserted'
  BY DEF BInv, Inserted
<1> QED
  BY <1>1, <1>2, <1>3 DEF BInv

LEMMA EarlyStepKeepsBInv ==
    ASSUME BInv, Select \/ RunAlgorithm \/ AlgorithmThrows \/ AllRun
    PROVE  BInv'
<1>1. /\ phase \in {"select", "run"}
      /\ phase' \in {"run", "unknown_algorithm", "algorithm_threw", "read", "done"}
      /\ phase' = "done" => ~given
      /\ UNCHANGED <<w, s, given, rows, read, expected, assignment, task>>
  BY DEF Select, RunAlgorithm, AlgorithmThrows, AllRun
<1>2. task = 0
  BY <1>1 DEF BInv, ReadThenInserted
<1>3. ReadThenInserted' /\ EndsForReason'
  BY <1>1, <1>2 DEF ReadThenInserted, EndsForReason
<1> QED
  BY <1>1, <1>3, PhaseStepKeepsBInv

LEMMA ReadRowKeepsBInv == BInv /\ ReadRow => BInv'
<1> SUFFICES ASSUME BInv, ReadRow PROVE BInv'
  OBVIOUS
<1> DEFINE row == rows[read + 1]
<1>1. /\ phase = "read" /\ read < Len(rows) /\ read' = read + 1
      /\ row.task <= w.size /\ row.node <= NumNodes /\ row.assigned <= 1
      /\ row.assigned = 1 => row.task \in expected
      /\ IF row.assigned = 1
         THEN /\ assignment' = [assignment EXCEPT ![row.task - 1] = NodeId(row)]
              /\ expected' = expected \ {row.task}
         ELSE UNCHANGED <<assignment, expected>>
      /\ UNCHANGED <<w, s, given, rows, task, phase>>
  BY DEF ReadRow, Row, Accepted
<1>2. /\ BTypeOK /\ RowsRead
      /\ w.size \in Nat /\ read \in Nat /\ Len(rows) \in Nat
  BY RowsTyped DEF BInv
<1>3. row \in RowType
  BY <1>1, <1>2, RowsTyped
<1>4. row.task \in Nat /\ row.node \in Nat /\ row.assigned \in Nat
  BY <1>3 DEF RowType
<1>5. task = 0
  BY <1>1 DEF BInv, ReadThenInserted
<1> HIDE DEF row
<1>6. row.assigned = 1 => row.task - 1 \in Tasks(w) /\ row.task # 0
  BY <1>1, <1>2, <1>4 DEF BTypeOK, Tasks
<1>7. 1 .. read' = (1 .. read) \cup {read + 1} /\ read + 1 \notin 1 .. read
  BY <1>1, <1>2
<1>8. NodeId(row) \in Int
  <2>1. SizeValues \in Nat \ {0}
    BY SizeAssumption, ClusterAssumption
  <2>2. row.node - 1 \in Int
    BY <1>4
  <2> QED
    BY <2>1, <2>2 DEF NodeId
<1>9. \A t \in Tasks(w) : RowsOf(t)' = RowsOf(t)
  BY <1>1 DEF RowsOf
<1>10. \A t \in Tasks(w) : read + 1 \in RowsOf(t) <=> row.assigned = 1 /\ row.task - 1 = t
  <2>1. read + 1 \in Indices(rows)
    BY <1>1, <1>2 DEF Indices
  <2>2. \A t \in Tasks(w) : t \in Int
    BY DEF Tasks
  <2> QED
    BY <1>4, <2>1, <2>2 DEF RowsOf, row
<1>11. BTypeOK'
  <2>1. assignment' \in [Tasks(w) -> Int]
    BY <1>1, <1>2, <1>8 DEF BTypeOK
  <2>2. expected' \subseteq expected /\ expected \subseteq 1 .. w.size
    BY <1>1, <1>2 DEF BTypeOK
  <2>3. read' \in 0 .. Len(rows)
    BY <1>1, <1>2
  <2> QED
    BY <1>1, <1>2, <2>1, <2>2, <2>3 DEF BTypeOK
<1>12. NodesDisjoint'
  BY <1>1 DEF BInv, NodesDisjoint
<1>13. RowsRead'
  <2>1. \A k \in 1 .. read' : InRange(rows[k])
    <3>1. InRange(row)
      BY <1>1, <1>6 DEF InRange
    <3> QED
      BY <1>2, <1>7, <3>1 DEF RowsRead, row
  <2>2. ASSUME NEW t \in Tasks(w)
        PROVE  t + 1 \in expected' <=> \A k \in 1 .. read' : k \notin RowsOf(t)
    <3>1. t \in Int
      BY DEF Tasks
    <3>2. t + 1 \in expected' <=> t + 1 \in expected /\ ~(row.assigned = 1 /\ row.task - 1 = t)
      BY <1>1, <1>4, <3>1
    <3> QED
      BY <1>2, <1>7, <1>10, <3>2 DEF RowsRead
  <2>3. ASSUME NEW t \in Tasks(w), read + 1 \in RowsOf(t), NEW k \in 1 .. read
        PROVE  k \notin RowsOf(t)
    <3>1. t + 1 = row.task /\ row.task \in expected
      BY <1>1, <1>4, <1>10, <2>3
    <3> QED
      BY <1>2, <3>1 DEF RowsRead
  <2>4. ASSUME NEW t \in Tasks(w), NEW j \in 1 .. read', NEW k \in 1 .. read',
               j \in RowsOf(t), k \in RowsOf(t)
        PROVE  j = k
    BY <1>2, <1>7, <2>3, <2>4 DEF RowsRead
  <2>5. ASSUME NEW t \in Tasks(w), NEW k \in 1 .. read', k \in RowsOf(t)
        PROVE  assignment'[t] = NodeId(rows[k])
    <3>1. CASE k = read + 1
      <4>1. row.assigned = 1 /\ row.task - 1 = t
        BY <1>10, <2>5, <3>1
      <4> QED
        BY <1>1, <1>2, <3>1, <4>1 DEF BTypeOK, row
    <3>2. CASE k \in 1 .. read
      <4>1. ~(row.assigned = 1 /\ row.task - 1 = t)
        BY <1>10, <2>3, <2>5, <3>2
      <4>2. assignment'[t] = assignment[t]
        BY <1>1, <1>2, <4>1 DEF BTypeOK
      <4> QED
        BY <1>2, <2>5, <3>2, <4>2 DEF RowsRead
    <3> QED
      BY <1>7, <3>1, <3>2
  <2> QED
    BY <1>1, <1>9, <2>1, <2>2, <2>4, <2>5 DEF RowsRead, InRange, NodeId
<1>14. Inserted'
  <2>1. \A t \in Tasks(w) : ~(t < task)
    BY <1>5 DEF Tasks
  <2> QED
    BY <1>1, <2>1 DEF BInv, Inserted
<1>15. ReadThenInserted' /\ EndsForReason'
  BY <1>1, <1>5 DEF ReadThenInserted, EndsForReason
<1> QED
  BY <1>11, <1>12, <1>13, <1>14, <1>15 DEF BInv

\* What is rejected is no assignment: a number is out of range, or some task
\* has no row, or one more than the one read before.
LEMMA RejectKeepsBInv == BInv /\ Reject => BInv'
<1> SUFFICES ASSUME BInv, Reject PROVE BInv'
  OBVIOUS
<1>1. /\ phase = "read" /\ phase' = "rejected"
      /\ IF read < Len(rows) THEN ~Accepted(rows[read + 1]) ELSE expected # {}
      /\ UNCHANGED <<w, s, given, rows, read, expected, assignment, task>>
  BY DEF Reject, Row
<1>2. /\ BTypeOK /\ RowsRead
      /\ w.size \in Nat /\ read \in Nat /\ Len(rows) \in Nat /\ read <= Len(rows)
  BY RowsTyped DEF BInv
<1>3. ASSUME IsAssignment PROVE FALSE
  <2>1. \A k \in Indices(rows) : InRange(rows[k])
    BY <1>3 DEF IsAssignment, InRange
  <2>2. ASSUME NEW t \in Tasks(w) PROVE \E k : RowsOf(t) = {k}
    BY <1>2, <1>3, RowsOfProperty, FS_Singleton DEF IsAssignment
  <2>3. CASE read < Len(rows)
    <3> DEFINE row == rows[read + 1]
               t == row.task - 1
    <3>1. read + 1 \in Indices(rows)
      BY <1>2, <2>3 DEF Indices
    <3>2. /\ InRange(row)
          /\ row.task \in Nat /\ row.node \in Nat /\ row.assigned \in Nat
      BY <1>2, <2>1, <3>1, RowsTyped DEF Indices, RowType
    <3>3. row.assigned = 1 /\ row.task \notin expected
      BY <1>1, <2>3, <3>2 DEF Accepted, InRange
    <3>4. t \in Tasks(w) /\ t + 1 = row.task
      BY <1>2, <3>2, <3>3, SMTT(30) DEF InRange, Tasks
    <3>5. read + 1 \in RowsOf(t)
      BY <3>1, <3>3, <3>4 DEF RowsOf
    <3> HIDE DEF row, t
    <3>6. PICK k \in 1 .. read : k \in RowsOf(t)
      BY <1>2, <3>3, <3>4 DEF RowsRead
    <3>7. k # read + 1
      BY <1>2
    <3> QED
      BY <2>2, <3>4, <3>5, <3>6, <3>7
  <2>4. CASE ~(read < Len(rows))
    <3>1. PICK number \in expected : TRUE
      BY <1>1, <2>4
    <3>2. number - 1 \in Tasks(w) /\ (number - 1) + 1 = number
      BY <1>2 DEF BTypeOK, Tasks
    <3>3. RowsOf(number - 1) \subseteq 1 .. read
      BY <1>2, <2>4, RowsOfProperty
    <3>4. \A k \in 1 .. read : k \notin RowsOf(number - 1)
      BY <1>2, <3>2 DEF RowsRead
    <3> QED
      BY <2>2, <3>2, <3>3, <3>4
  <2> QED
    BY <2>3, <2>4
<1>4. EndsForReason'
  BY <1>1, <1>3 DEF EndsForReason, IsAssignment, RowsOf
<1>5. ReadThenInserted'
  BY <1>1 DEF ReadThenInserted
<1> QED
  BY <1>1, <1>4, <1>5, PhaseStepKeepsBInv

LEMMA FinishReadingKeepsBInv == BInv /\ FinishReading => BInv'
<1> SUFFICES ASSUME BInv, FinishReading PROVE BInv'
  OBVIOUS
<1>1. /\ phase = "read" /\ read = Len(rows) /\ expected = {} /\ phase' = "insert"
      /\ UNCHANGED <<w, s, given, rows, read, expected, assignment, task>>
  BY DEF FinishReading
<1>2. ReadThenInserted' /\ EndsForReason'
  BY <1>1 DEF ReadThenInserted, EndsForReason
<1> QED
  BY <1>1, <1>2, PhaseStepKeepsBInv

LEMMA ScheduledIsBefore ==
    ASSUME BInv, NEW t \in Tasks(w)
    PROVE  Scheduled(s, t) <=> t < task
<1>1. s.task[t] \in Seq(Interval) /\ Len(s.task[t]) = IF t < task THEN 1 ELSE 0
  BY DEF BInv, BTypeOK, Inserted, Schedules
<1> QED
  BY <1>1 DEF Scheduled

LEMMA InsertTaskKeepsBInv == BInv /\ InsertTask => BInv'
<1> SUFFICES ASSUME BInv, InsertTask PROVE BInv'
  OBVIOUS
<1> DEFINE n == assignment[task]
<1>1. /\ phase = "insert" /\ task < w.size
      /\ n \in Nodes /\ PredecessorsScheduled(w, s, task)
      /\ s' = InsertIntoNode(w, s, task, n)
      /\ task' = task + 1
      /\ UNCHANGED <<w, given, rows, read, expected, assignment, phase>>
  BY DEF InsertTask, CanInsert
<1>2. /\ IsWorkflow(w) /\ s \in Schedules(w)
      /\ \A m \in Nodes : Disjoint(s.node[m])
      /\ w.size \in Nat /\ task \in Nat /\ task \in Tasks(w)
      /\ \A t \in Tasks(w) : t \in Int
  <2>1. BTypeOK /\ NodesDisjoint
    BY DEF BInv
  <2>2. w.size \in Nat /\ task \in 0 .. w.size
    BY <2>1, RowsTyped DEF BTypeOK
  <2>3. task \in Tasks(w) /\ \A t \in Tasks(w) : t \in Int
    BY <1>1, <2>2 DEF Tasks
  <2> QED
    BY <2>1, <2>2, <2>3 DEF BTypeOK, NodesDisjoint
<1> HIDE DEF n
<1>3. /\ s' \in Schedules(w)
      /\ \A m \in Nodes : Disjoint(s'.node[m])
  <2> DEFINE r == InsertIntoNode(w, s, task, n)
  <2>1. /\ r \in Schedules(w)
        /\ r.useMemory = s.useMemory
        /\ r.original = Append(s.original, task)
        /\ r.task = [s.task EXCEPT ![task] = Append(s.task[task], NewInterval(w, s, task, n))]
        /\ r.node = [s.node EXCEPT ![n] =
                        InsertAt(s.node[n], SlotOn(w, s, task, n).at, NewInterval(w, s, task, n))]
        /\ \A m \in Nodes : Disjoint(r.node[m])
    BY <1>1, <1>2, InsertIntoNodeProperties
  <2> HIDE DEF r
  <2>2. s' = r
    BY <1>1 DEF r
  <2> QED
    BY <2>1, <2>2
<1>4. ASSUME NEW u \in Tasks(w)
      PROVE  /\ u # task => s'.task[u] = s.task[u]
             /\ Len(s'.task[task]) = Len(s.task[task]) + 1
             /\ \A k \in Indices(s'.task[u]) :
                    \/ k \in Indices(s.task[u]) /\ s'.task[u][k] = s.task[u][k]
                    \/ u = task /\ s'.task[u][k].node = n
  <2> DEFINE r == InsertIntoNode(w, s, task, n)
  <2>1. /\ Scheduled(r, u) <=> Scheduled(s, u) \/ u = task
        /\ u # task => r.task[u] = s.task[u]
        /\ Len(r.task[task]) = Len(s.task[task]) + 1
        /\ \A k \in Indices(r.task[u]) :
               \/ k \in Indices(s.task[u]) /\ r.task[u][k] = s.task[u][k]
               \/ u = task /\ r.task[u][k].node = n
    <3>1. /\ IsWorkflow(w) /\ s \in Schedules(w)
          /\ task \in Tasks(w) /\ n \in Nodes
          /\ \A m \in Nodes : Disjoint(s.node[m])
      BY <1>1, <1>2
    <3> QED
      BY <3>1, InsertIntoNodeIntervals
  <2> HIDE DEF r
  <2>2. s' = r
    BY <1>1 DEF r
  <2> QED
    BY <2>1, <2>2
<1>5. BTypeOK'
  <2>1. BTypeOK /\ task' \in 0 .. w.size
    BY <1>1, <1>2 DEF BInv
  <2> QED
    BY <1>1, <1>3, <2>1 DEF BTypeOK
<1>6. NodesDisjoint'
  BY <1>3 DEF NodesDisjoint
<1>7. RowsRead'
  BY <1>1 DEF BInv, RowsRead, RowsOf, InRange, NodeId
<1>8. Inserted'
  <2>1. Len(s.task[task]) = 0 /\ Len(s'.task[task]) = 1 /\ s'.task[task][1].node = n
    <3>1. Len(s.task[task]) = 0
      BY <1>2 DEF BInv, Inserted
    <3>2. Len(s'.task[task]) = 1
      BY <1>2, <1>4, <3>1
    <3>3. 1 \in Indices(s'.task[task]) /\ 1 \notin Indices(s.task[task])
      BY <3>1, <3>2 DEF Indices
    <3> QED
      BY <1>2, <1>4, <3>1, <3>2, <3>3
  <2>2. ASSUME NEW t \in Tasks(w)
        PROVE  /\ Len(s'.task[t]) = IF t < task + 1 THEN 1 ELSE 0
               /\ t < task + 1 => /\ assignment[t] \in Nodes
                                  /\ s'.task[t][1].node = assignment[t]
                                  /\ \A p \in Predecessors(w, t) : p < t
    <3>1. CASE t = task
      <4>1. \A p \in Predecessors(w, t) : p < t
        BY <1>1, <3>1, ScheduledIsBefore DEF PredecessorsScheduled, Predecessors
      <4>2. task < task + 1 /\ assignment[task] = n /\ n \in Nodes
        BY <1>1, <1>2 DEF n
      <4> QED
        BY <2>1, <3>1, <4>1, <4>2
    <3>2. CASE t # task
      <4>1. t < task + 1 <=> t < task
        BY <1>2, <3>2
      <4>2. /\ Len(s.task[t]) = IF t < task THEN 1 ELSE 0
            /\ t < task => /\ assignment[t] \in Nodes
                           /\ s.task[t][1].node = assignment[t]
                           /\ \A p \in Predecessors(w, t) : p < t
        BY DEF BInv, Inserted
      <4> QED
        BY <1>4, <3>2, <4>1, <4>2
    <3> QED
      BY <3>1, <3>2
  <2> QED
    BY <1>1, <2>2 DEF Inserted
<1>9. ReadThenInserted' /\ EndsForReason'
  BY <1>1 DEF BInv, ReadThenInserted, EndsForReason
<1> QED
  BY <1>5, <1>6, <1>7, <1>8, <1>9 DEF BInv

LEMMA LastStepKeepsBInv == BInv /\ (Throw \/ Report) => BInv'
<1> SUFFICES ASSUME BInv, Throw \/ Report PROVE BInv'
  OBVIOUS
<1>1. /\ phase = "insert"
      /\ \/ phase' = "out_of_range" /\ task < w.size /\ ~CanInsert
         \/ phase' = "done" /\ task = w.size
      /\ UNCHANGED <<w, s, given, rows, read, expected, assignment, task>>
  BY DEF Throw, Report
<1>2. read = Len(rows) /\ expected = {}
  BY <1>1 DEF BInv, ReadThenInserted
<1>3. ReadThenInserted'
  BY <1>1, <1>2 DEF ReadThenInserted
<1>4. EndsForReason'
  BY <1>1 DEF EndsForReason, CanInsert
<1> QED
  BY <1>1, <1>3, <1>4, PhaseStepKeepsBInv

LEMMA StepKeepsBInv == BInv /\ [Next]_vars => BInv'
<1> SUFFICES ASSUME BInv, [Next]_vars PROVE BInv'
  OBVIOUS
<1>1. CASE Select \/ RunAlgorithm \/ AlgorithmThrows \/ AllRun
  BY <1>1, EarlyStepKeepsBInv
<1>2. CASE ReadRow \/ Reject \/ FinishReading
  BY <1>2, ReadRowKeepsBInv, RejectKeepsBInv, FinishReadingKeepsBInv
<1>3. CASE InsertTask \/ Throw \/ Report
  BY <1>3, InsertTaskKeepsBInv, LastStepKeepsBInv
<1>4. CASE UNCHANGED vars
  <2>1. UNCHANGED <<w, s, given, rows, read, expected, assignment, task, phase>>
    BY <1>4 DEF vars
  <2>2. ReadThenInserted'
    BY <2>1 DEF BInv, ReadThenInserted
  <2>3. EndsForReason'
    BY <2>1 DEF BInv, EndsForReason, IsAssignment, RowsOf, CanInsert
  <2> QED
    BY <2>1, <2>2, <2>3, PhaseStepKeepsBInv
<1> QED
  BY <1>1, <1>2, <1>3, <1>4 DEF Next

\* The strengthened invariant holds in every reachable state of main.
THEOREM BackEndInvariance == Spec => []BInv
<1> QED
  BY InitEstablishesBInv, StepKeepsBInv, PTL DEF Spec

LEMMA BInvImpliesAssignmentDecides == BInv => AssignmentDecides
<1> SUFFICES ASSUME BInv PROVE AssignmentDecides
  OBVIOUS
<1>1. phase = "rejected" => ~IsAssignment
  BY DEF BInv, EndsForReason
<1>2. ASSUME read = Len(rows), expected = {}, NEW t \in Tasks(w)
      PROVE  /\ assignment[t] \in Nodes <=> Given(t) # 0
             /\ Given(t) # 0 => assignment[t] = Given(t) - 1
  <2>1. Given(t) \in 0 .. NumNodes /\ assignment[t] = (Given(t) - 1) % SizeValues
    BY <1>2, ReadIsAssignment
  <2> QED
    BY <2>1, NodeIdProperty
<1>3. ASSUME phase = "out_of_range" PROVE IsAssignment /\ ~CanBeScheduled
  <2>1. /\ read = Len(rows) /\ expected = {}
        /\ task < w.size /\ ~CanInsert
    BY <1>3 DEF BInv, ReadThenInserted, EndsForReason
  <2>2. IsAssignment
    BY <2>1, ReadIsAssignment
  <2>3. task \in Tasks(w) /\ \A t \in Tasks(w) : t \in Int
    BY <2>1 DEF BInv, BTypeOK, IsWorkflow, Tasks
  <2>4. CASE assignment[task] \notin Nodes
    BY <1>2, <2>1, <2>2, <2>3, <2>4 DEF CanBeScheduled
  <2>5. CASE assignment[task] \in Nodes
    <3>1. PICK p \in Predecessors(w, task) : ~Scheduled(s, p)
      BY <2>1, <2>5 DEF CanInsert, PredecessorsScheduled
    <3>2. p \in Tasks(w) /\ <<p, task>> \in w.deps
      BY DEF Predecessors
    <3>3. ~(p < task)
      BY <3>1, <3>2, ScheduledIsBefore
    <3> QED
      BY <2>2, <2>3, <3>2, <3>3 DEF CanBeScheduled
  <2> QED
    BY <2>4, <2>5
<1>4. ASSUME phase = "done", given
      PROVE  /\ IsAssignment /\ CanBeScheduled
             /\ \A t \in Tasks(w) :
                    Len(s.task[t]) = 1 /\ s.task[t][1].node = Given(t) - 1
  <2>1. read = Len(rows) /\ expected = {} /\ task = w.size
    BY <1>4 DEF BInv, ReadThenInserted
  <2>2. IsAssignment
    BY <2>1, ReadIsAssignment
  <2>3. ASSUME NEW t \in Tasks(w)
        PROVE  /\ Len(s.task[t]) = 1 /\ assignment[t] \in Nodes
               /\ s.task[t][1].node = assignment[t]
               /\ \A p \in Predecessors(w, t) : p < t
    <3>1. t < task
      BY <2>1 DEF BInv, BTypeOK, IsWorkflow, Tasks
    <3> QED
      BY <3>1 DEF BInv, Inserted
  <2>4. \A t \in Tasks(w) : Given(t) # 0 /\ s.task[t][1].node = Given(t) - 1
    BY <1>2, <2>1, <2>3
  <2>5. CanBeScheduled
    BY <2>3, <2>4 DEF CanBeScheduled, Predecessors
  <2> QED
    BY <2>2, <2>3, <2>4, <2>5
<1> QED
  BY <1>1, <1>3, <1>4 DEF AssignmentDecides

\* read_task_to_node_assignment_csv rejects what is no assignment and nothing
\* else; from_assignment throws for the node number 0 and for edges that do not
\* ascend, and otherwise puts every task where the file says.
THEOREM AssignmentAlwaysDecides == Spec => []AssignmentDecides
<1> QED
  BY BackEndInvariance, BInvImpliesAssignmentDecides, PTL

----------------------------------------------------------------------------
\* Each task that is inserted starts after the data of its predecessors arrive.
DataInTime ==
    \A t \in Tasks(w) : t < task => \A p \in Predecessors(w, t) :
        ArrivalTime(w, p, s.task[p][1], s.task[t][1].node) <= s.task[t][1].start

LEMMA InsertTaskKeepsDataInTime == BInv /\ DataInTime /\ InsertTask => DataInTime'
<1> SUFFICES ASSUME BInv, DataInTime, InsertTask PROVE DataInTime'
  OBVIOUS
<1> DEFINE n == assignment[task]
           i == NewInterval(w, s, task, n)
<1>1. /\ task < w.size /\ n \in Nodes /\ PredecessorsScheduled(w, s, task)
      /\ s' = InsertIntoNode(w, s, task, n)
      /\ task' = task + 1 /\ w' = w
  BY DEF InsertTask, CanInsert
<1>2. /\ IsWorkflow(w) /\ s \in Schedules(w)
      /\ \A m \in Nodes : Disjoint(s.node[m])
      /\ task \in Nat /\ task \in Tasks(w)
      /\ \A t \in Tasks(w) : t \in Int
      /\ s.task \in [Tasks(w) -> Seq(Interval)]
      /\ s.task[task] = << >>
  <2>1. BTypeOK /\ NodesDisjoint
    BY DEF BInv
  <2>2. w.size \in Nat /\ task \in 0 .. w.size
    BY <2>1, RowsTyped DEF BTypeOK
  <2>3. task \in Tasks(w) /\ \A t \in Tasks(w) : t \in Int
    BY <1>1, <2>2 DEF Tasks
  <2>4. ~Scheduled(s, task)
    BY <2>2, <2>3, ScheduledIsBefore
  <2> QED
    BY <2>1, <2>2, <2>3, <2>4 DEF BTypeOK, NodesDisjoint, Schedules, Scheduled
<1>3. /\ i \in Interval /\ i.node = n
      /\ i.start >= TaskReadyTime(w, s, task, n) /\ TaskReadyTime(w, s, task, n) \in Nat
  <2>1. IsWorkflow(w) /\ s \in Schedules(w) /\ task \in Tasks(w) /\ n \in Nodes /\ Disjoint(s.node[n])
    BY <1>1, <1>2
  <2> HIDE DEF n
  <2>2. i \in Interval /\ i.node = n /\ i.start >= TaskReadyTime(w, s, task, n)
    BY <2>1, NewIntervalProperties
  <2>3. TaskReadyTime(w, s, task, n) \in Nat
    BY <2>1, TaskReadyTimeProperty
  <2> QED
    BY <2>2, <2>3
<1>4. s'.task = [s.task EXCEPT ![task] = Append(s.task[task], i)]
  BY <1>1 DEF InsertIntoNode
<1> HIDE DEF n, i
<1>5. s'.task[task][1] = i
  <2>1. s'.task[task] = Append(<< >>, i)
    BY <1>2, <1>4
  <2> QED
    BY <2>1
<1>6. \A t \in Tasks(w) : t # task => s'.task[t] = s.task[t]
  BY <1>2, <1>4
<1> SUFFICES ASSUME NEW t \in Tasks(w), t < task + 1, NEW p \in Predecessors(w, t)
             PROVE  ArrivalTime(w, p, s'.task[p][1], s'.task[t][1].node) <= s'.task[t][1].start
  BY <1>1 DEF DataInTime
<1>7. p \in Tasks(w)
  BY DEF Predecessors
<1>8. CASE t < task
  <2>1. p < t
    BY <1>8 DEF BInv, Inserted
  <2>2. p \in Int /\ t \in Int /\ task \in Int
    BY <1>2, <1>7
  <2>3. t # task /\ p # task
    BY <1>8, <2>1, <2>2
  <2> QED
    BY <1>6, <1>7, <1>8, <2>3 DEF DataInTime
<1>9. CASE ~(t < task)
  <2>1. t = task
    <3>1. t \in Int /\ task \in Int /\ t < task + 1
      BY <1>2
    <3> QED
      BY <1>9, <3>1
  <2>2. Scheduled(s, p) /\ p # task
    BY <1>1, <1>2, <2>1 DEF PredecessorsScheduled, Scheduled
  <2>3. p < task /\ s.task[p] \in Seq(Interval)
    BY <1>2, <1>7, <2>2, ScheduledIsBefore
  <2>4. Len(s.task[p]) = 1
    BY <1>7, <2>3 DEF BInv, Inserted
  <2>5. EarliestDataAvailable(w, s, p, n) \in Nat
        /\ \E k \in Indices(s.task[p]) :
               EarliestDataAvailable(w, s, p, n) = ArrivalTime(w, p, s.task[p][k], n)
    <3>1. IsWorkflow(w) /\ s \in Schedules(w) /\ n \in Nodes
      BY <1>1, <1>2
    <3> QED
      BY <1>7, <2>2, <3>1, EarliestDataAvailableProperty
  <2>6. EarliestDataAvailable(w, s, p, n) = ArrivalTime(w, p, s.task[p][1], n)
    <3>1. Indices(s.task[p]) = {1}
      BY <2>4 DEF Indices
    <3> QED
      BY <2>5, <3>1
  <2>7. EarliestDataAvailable(w, s, p, n) <= TaskReadyTime(w, s, task, n)
    BY <1>1, <1>2, <2>1, <2>2, TaskReadyTimeProperty
  <2>8. ArrivalTime(w, p, s.task[p][1], n) <= i.start
    <3>1. i.start \in Nat
      BY <1>3 DEF Interval
    <3> QED
      BY <1>3, <2>5, <2>6, <2>7, <3>1
  <2> QED
    BY <1>3, <1>5, <1>6, <1>7, <2>1, <2>2, <2>8
<1> QED
  BY <1>8, <1>9

LEMMA StepKeepsDataInTime == BInv /\ DataInTime /\ [Next]_vars => DataInTime'
<1> SUFFICES ASSUME BInv, DataInTime, [Next]_vars PROVE DataInTime'
  OBVIOUS
<1>1. CASE InsertTask
  BY <1>1, InsertTaskKeepsDataInTime
<1>2. CASE UNCHANGED <<w, s, task>>
  BY <1>2 DEF DataInTime
<1>3. CASE Select \/ RunAlgorithm \/ AlgorithmThrows \/ AllRun
  BY <1>2, <1>3 DEF Select, RunAlgorithm, AlgorithmThrows, AllRun
<1>4. CASE ReadRow \/ Reject \/ FinishReading \/ Throw \/ Report
  BY <1>2, <1>4 DEF ReadRow, Reject, FinishReading, Throw, Report
<1>5. CASE UNCHANGED vars
  BY <1>2, <1>5 DEF vars
<1> QED
  BY <1>1, <1>3, <1>4, <1>5 DEF Next

\* A schedule in which each task has one interval, in time for its data.
SingleCopies(x, y) ==
    /\ IsWorkflow(x) /\ y \in Schedules(x)
    /\ \A n \in Nodes : Disjoint(y.node[n])
    /\ \A t \in Tasks(x) : Len(y.task[t]) = 1
    /\ \A t \in Tasks(x) : \A p \in Predecessors(x, t) :
           ArrivalTime(x, p, y.task[p][1], y.task[t][1].node) <= y.task[t][1].start

LEMMA OnlyCopyFits ==
    ASSUME UniformBandwidth, NEW x, NEW y, SingleCopies(x, y),
           NEW t \in Tasks(x), NEW p \in Predecessors(x, t)
    PROVE  FittingCopies(x, y, p, y.task[t][1]) = {1}
<1> DEFINE i == y.task[t][1]
           c == y.task[p][1]
<1>1. p \in Tasks(x)
  BY DEF Predecessors
<1>2. y.task[t] \in Seq(Interval) /\ y.task[p] \in Seq(Interval)
  BY <1>1 DEF SingleCopies, Schedules
<1>3. Len(y.task[t]) = 1 /\ Len(y.task[p]) = 1
  BY <1>1 DEF SingleCopies
<1>4. i \in Interval /\ c \in Interval
  BY <1>2, <1>3
<1>5. Indices(y.task[p]) = {1}
  BY <1>3 DEF Indices
<1>6. ArrivalTime(x, p, c, i.node) <= i.start
  BY DEF SingleCopies
<1>7. FittingCopies(x, y, p, i)
          = {k \in Indices(y.task[p]) :
                y.task[p][k].end + TransferCost(i.node, y.task[p][k].node, DataTransfer(x, p), i.node)
                    <= i.start}
  BY DEF FittingCopies
<1> HIDE DEF i
<1>8. i.node \in Nodes /\ c.node \in Nodes
  BY <1>4 DEF Interval
<1>9. TransferCost(i.node, c.node, DataTransfer(x, p), i.node)
          = TransferCost(c.node, i.node, DataTransfer(x, p), c.node)
  <2>1. DataTime[i.node] = DataTime[c.node]
    BY <1>8, SameDataTime
  <2> QED
    BY <2>1 DEF TransferCost
<1>10. c.end + TransferCost(i.node, c.node, DataTransfer(x, p), i.node) <= i.start
  BY <1>6, <1>9 DEF ArrivalTime
<1>11. FittingCopies(x, y, p, i) = {1}
  BY <1>5, <1>7, <1>10
<1> QED
  BY <1>11 DEF i

LEMMA SingleIndex ==
    ASSUME NEW x, NEW y, SingleCopies(x, y), NEW t \in Tasks(x)
    PROVE  Indices(y.task[t]) = {1}
<1>1. Len(y.task[t]) = 1
  BY DEF SingleCopies
<1>2. 1 .. 1 = {1}
  OBVIOUS
<1> QED
  BY <1>1, <1>2, Zenon DEF Indices

LEMMA SingleCopiesValid ==
    ASSUME UniformBandwidth, NEW x, NEW y, SingleCopies(x, y)
    PROVE  IsValid(x, y)
<1>1. ASSUME NEW n \in Nodes PROVE IsValidOnNode(y.node[n])
  <2>1. y.node[n] \in Seq(Interval) /\ Disjoint(y.node[n])
    BY DEF SingleCopies, Schedules
  <2> QED
    BY <2>1, DisjointIsValid
<1>2. \A t \in Tasks(x) : y.task[t] \in Seq(Interval) /\ Len(y.task[t]) = 1
  BY DEF SingleCopies, Schedules
<1>3. AllScheduled(x, y)
  <2>1. \A q \in Seq(Interval) : Len(q) = 1 => q # << >>
    OBVIOUS
  <2>2. \A t \in Tasks(x) : y.task[t] # << >>
    BY <1>2, <2>1
  <2> QED
    BY <2>2, Zenon DEF AllScheduled, Scheduled
<1>4. \A t \in Tasks(x) : Indices(y.task[t]) = {1}
  BY SingleIndex
<1>5. ASSUME NEW t \in Tasks(x), NEW k \in Indices(y.task[t]), NEW p \in Predecessors(x, t)
      PROVE  FittingCopies(x, y, p, y.task[t][k]) # {}
  <2>1. k = 1
    BY <1>4
  <2> QED
    BY <2>1, OnlyCopyFits
<1> QED
  BY <1>1, <1>3, <1>5 DEF IsValid

\* The transfer of an edge, as compute_node_communication_matrix counts it.
TransferOf(x, y) ==
    [e \in x.deps |-> [target |-> y.task[e[2]][1].node, to |-> <<e[2], 1>>, from |-> e[1],
                       source |-> y.task[e[1]][1].node]]

LEMMA TransfersOfEdges ==
    ASSUME UniformBandwidth, NEW x, NEW y, SingleCopies(x, y)
    PROVE  Transfers(x, y) = {TransferOf(x, y)[e] : e \in x.deps}
<1> DEFINE T(t, k, p) == [target |-> y.task[t][k].node, to |-> <<t, k>>, from |-> p,
                          source |-> y.task[p][Min(FittingCopies(x, y, p, y.task[t][k]))].node]
           U(t, p) == [target |-> y.task[t][1].node, to |-> <<t, 1>>, from |-> p,
                       source |-> y.task[p][1].node]
<1>1. Transfers(x, y) = UNION {{T(t, k, p) : k \in Indices(y.task[t]), p \in Predecessors(x, t)} : t \in Tasks(x)}
  BY DEF Transfers
<1>2. \A t \in Tasks(x) : Indices(y.task[t]) = {1}
  BY SingleIndex
<1>3. Min({1}) = 1
  <2>1. {1} \in SUBSET Int /\ {1} # {} /\ IsFiniteSet({1})
    BY FS_Singleton
  <2>2. Min({1}) \in {1}
    BY <2>1, MinProperty
  <2> QED
    BY <2>2
<1>4. \A t \in Tasks(x) : \A p \in Predecessors(x, t) : T(t, 1, p) = U(t, p)
  BY <1>3, OnlyCopyFits
<1>5. \A e \in x.deps : TransferOf(x, y)[e] = U(e[2], e[1])
  BY DEF TransferOf
<1>6. \A e \in x.deps : e[2] \in Tasks(x) /\ e[1] \in Predecessors(x, e[2])
  BY SMTT(30) DEF SingleCopies, IsWorkflow, Predecessors
<1>7. \A t \in Tasks(x) : \A p \in Predecessors(x, t) :
          <<p, t>> \in x.deps /\ <<p, t>>[1] = p /\ <<p, t>>[2] = t
  BY DEF Predecessors
<1> HIDE DEF T, U
<1>8. ASSUME NEW z \in Transfers(x, y) PROVE z \in {TransferOf(x, y)[e] : e \in x.deps}
  <2>1. PICK t \in Tasks(x) : \E k \in Indices(y.task[t]), p \in Predecessors(x, t) : z = T(t, k, p)
    BY <1>1
  <2>2. PICK p \in Predecessors(x, t) : z = T(t, 1, p)
    BY <1>2, <2>1
  <2>3. z = TransferOf(x, y)[<<p, t>>]
    BY <1>4, <1>5, <1>7, <2>2
  <2> QED
    BY <1>7, <2>3
<1>9. ASSUME NEW e \in x.deps PROVE TransferOf(x, y)[e] \in Transfers(x, y)
  <2>1. 1 \in Indices(y.task[e[2]]) /\ TransferOf(x, y)[e] = T(e[2], 1, e[1])
    BY <1>2, <1>4, <1>5, <1>6
  <2> QED
    BY <1>1, <1>6, <2>1
<1> QED
  BY <1>8, <1>9

LEMMA MatrixOfSingleCopies ==
    ASSUME UniformBandwidth, NEW x, NEW y, SingleCopies(x, y),
           NEW n \in Nodes, NEW m \in Nodes
    PROVE  SumFunction([z \in {u \in Transfers(x, y) : u.source = n /\ u.target = m} |->
                            DataTransfer(x, z.from) * DataTime[n]])
               = SumFunction([e \in {d \in x.deps : y.task[d[1]][1].node = n /\ y.task[d[2]][1].node = m} |->
                                  DataTransfer(x, e[1]) * DataTime[n]])
<1> DEFINE E == {d \in x.deps : y.task[d[1]][1].node = n /\ y.task[d[2]][1].node = m}
           T == {z \in Transfers(x, y) : z.source = n /\ z.target = m}
           h == TransferOf(x, y)
           f == [e \in E |-> DataTransfer(x, e[1]) * DataTime[n]]
           g == [z \in T |-> DataTransfer(x, z.from) * DataTime[n]]
<1>1. Transfers(x, y) = {h[e] : e \in x.deps}
  BY TransfersOfEdges, SMTT(30)
<1>2. \A e \in x.deps : /\ h[e].source = y.task[e[1]][1].node /\ h[e].target = y.task[e[2]][1].node
                        /\ h[e].from = e[1] /\ h[e].to = <<e[2], 1>>
  BY DEF TransferOf
<1>3. T = {h[e] : e \in E}
  BY <1>1, <1>2
<1>4. \A e \in E : e[1] \in Tasks(x) /\ e[2] \in Tasks(x) /\ e = <<e[1], e[2]>>
  BY DEF SingleCopies, IsWorkflow
<1>5. \A e \in E : f[e] = g[h[e]] /\ f[e] \in Int
  <2>1. \A e \in E : h[e] \in T /\ h[e].from = e[1]
    BY <1>2, <1>3
  <2>2. \A t \in Tasks(x) : DataTransfer(x, t) \in Nat
    BY DEF SingleCopies, IsWorkflow, DataTransfer
  <2>3. DataTime[n] \in Nat
    BY TicksPositive
  <2>4. \A t \in Tasks(x) : DataTransfer(x, t) * DataTime[n] \in Nat
    BY <2>2, <2>3, ProductNat
  <2>5. \A e \in E : f[e] = DataTransfer(x, e[1]) * DataTime[n]
                     /\ g[h[e]] = DataTransfer(x, e[1]) * DataTime[n]
    BY <2>1
  <2> HIDE DEF f, g
  <2> QED
    BY <1>4, <2>4, <2>5
<1>6. \A d, e \in E : h[d] = h[e] => d = e
  <2> SUFFICES ASSUME NEW d \in E, NEW e \in E, h[d] = h[e] PROVE d = e
    OBVIOUS
  <2>1. d[1] = e[1] /\ <<d[2], 1>> = <<e[2], 1>>
    BY <1>2
  <2> QED
    BY <1>4, <2>1
<1>7. IsFiniteSet(E)
  <2>1. IsFiniteSet(Tasks(x) \X Tasks(x))
    BY TasksFinite, FS_Product DEF SingleCopies
  <2>2. E \in SUBSET (Tasks(x) \X Tasks(x))
    BY DEF SingleCopies, IsWorkflow
  <2> QED
    BY <2>1, <2>2, FS_Subset
<1>8. DOMAIN f = E /\ DOMAIN g = T
  OBVIOUS
<1> HIDE DEF E, T, h, f, g
<1>9. SumOver(f, E) = SumOver(g, T)
  BY <1>3, <1>5, <1>6, <1>7, SumOverRenamed DEF Renames
<1>10. SumFunction(f) = SumFunction(g)
  BY <1>8, <1>9, SumFunctionIsSumOver
<1> QED
  BY <1>10 DEF f, g, E, T

LEMMA StepKeepsMatrix ==
    BInv /\ BInv' /\ DataInTime /\ MatrixFollowsAssignment /\ [Next]_vars => MatrixFollowsAssignment'
<1> SUFFICES ASSUME BInv, BInv', DataInTime, MatrixFollowsAssignment, [Next]_vars
             PROVE  MatrixFollowsAssignment'
  OBVIOUS
<1>1. CASE Report
  <2> SUFFICES ASSUME given', UniformBandwidth
               PROVE  matrix' = [n \in Nodes |-> [m \in Nodes |->
                          SumFunction([e \in EdgesBetween(n, m)' |-> DataTransfer(w', e[1]) * DataTime[n]])]]
    BY DEF MatrixFollowsAssignment
  <2>1. /\ phase' = "done" /\ task = w.size /\ w' = w /\ s' = s /\ given' = given
        /\ matrix' = IF IsValid(w, s) THEN CommunicationMatrix(w, s) ELSE NoMatrix
    BY <1>1 DEF Report
  <2>2. AssignmentDecides'
    BY BInvImpliesAssignmentDecides, PTL
  <2>3. \A t \in Tasks(w) : Len(s.task[t]) = 1 /\ s.task[t][1].node = Given(t)' - 1
    BY <2>1, <2>2 DEF AssignmentDecides
  <2>4. \A t \in Tasks(w) : t < task
    <3>1. w.size \in Nat
      BY DEF BInv, BTypeOK, IsWorkflow
    <3> QED
      BY <2>1, <3>1 DEF Tasks
  <2>5. SingleCopies(w, s)
    BY <2>3, <2>4 DEF BInv, BTypeOK, NodesDisjoint, DataInTime, SingleCopies
  <2>6. matrix' = CommunicationMatrix(w, s)
    BY <2>1, <2>5, SingleCopiesValid
  <2>7. \A e \in w.deps : s.task[e[1]][1].node = Given(e[1])' - 1 /\ s.task[e[2]][1].node = Given(e[2])' - 1
    <3>1. \A e \in w.deps : e[1] \in Tasks(w) /\ e[2] \in Tasks(w)
      BY DEF BInv, BTypeOK, IsWorkflow
    <3> QED
      BY <2>3, <3>1
  <2>8. ASSUME NEW n \in Nodes, NEW m \in Nodes
        PROVE  SumFunction([z \in {y \in Transfers(w, s) : y.source = n /\ y.target = m} |->
                                DataTransfer(w, z.from) * DataTime[n]])
                   = SumFunction([e \in EdgesBetween(n, m)' |-> DataTransfer(w, e[1]) * DataTime[n]])
    <3>1. EdgesBetween(n, m)'
              = {d \in w.deps : s.task[d[1]][1].node = n /\ s.task[d[2]][1].node = m}
      BY <2>1, <2>7 DEF EdgesBetween
    <3> QED
      BY <2>5, <3>1, MatrixOfSingleCopies
  <2>9. CommunicationMatrix(w, s)
            = [n \in Nodes |-> [m \in Nodes |->
                  SumFunction([e \in EdgesBetween(n, m)' |-> DataTransfer(w, e[1]) * DataTime[n]])]]
    BY <2>8, Zenon DEF CommunicationMatrix
  <2> QED
    BY <2>1, <2>6, <2>9
<1>2. CASE phase' # "done" \/ ~given'
  BY <1>2 DEF MatrixFollowsAssignment
<1>3. CASE Select \/ RunAlgorithm \/ AlgorithmThrows \/ AllRun
  BY <1>2, <1>3 DEF Select, RunAlgorithm, AlgorithmThrows, AllRun
<1>4. CASE ReadRow \/ Reject \/ FinishReading \/ InsertTask \/ Throw
  BY <1>2, <1>4 DEF ReadRow, Reject, FinishReading, InsertTask, Throw
<1>5. CASE UNCHANGED vars
  <2>1. UNCHANGED <<w, matrix, phase, given, rows>>
    BY <1>5 DEF vars
  <2>2. \A t : Given(t)' = Given(t)
    BY <2>1 DEF Given, RowsOf
  <2>3. \A n, m : EdgesBetween(n, m)' = EdgesBetween(n, m)
    BY <2>1, <2>2 DEF EdgesBetween
  <2> QED
    BY <2>1, <2>3 DEF MatrixFollowsAssignment
<1> QED
  BY <1>1, <1>3, <1>4, <1>5 DEF Next

\* With equal bandwidths the schedule of an assignment is reported as valid,
\* and its matrix has the transfer of each edge once, where the file puts it.
THEOREM MatrixAlwaysFollowsAssignment == Spec => []MatrixFollowsAssignment
<1>1. Init => DataInTime /\ MatrixFollowsAssignment
  <2> SUFFICES ASSUME Init PROVE DataInTime /\ MatrixFollowsAssignment
    OBVIOUS
  <2>1. \A t \in Tasks(w) : ~(t < task)
    BY DEF Init, Tasks
  <2> QED
    BY <2>1 DEF Init, DataInTime, MatrixFollowsAssignment
<1> QED
  BY <1>1, BackEndInvariance, StepKeepsDataInTime, StepKeepsMatrix, PTL DEF Spec

----------------------------------------------------------------------------
\* The operators ListScheduling brings along are those from_assignment uses.
LEMMA SameOperators ==
    /\ \A useMemory : LS!NewSchedule(w, useMemory) = NewSchedule(w, useMemory)
    /\ \A t, n : LS!InsertIntoNode(w, s, t, n) = InsertIntoNode(w, s, t, n)
    /\ \A t : LS!PredecessorsScheduled(w, s, t) <=> PredecessorsScheduled(w, s, t)
    /\ LS!Tasks(w) = Tasks(w) /\ LS!Nodes = Nodes
<1>1. ASSUME NEW useMemory PROVE LS!NewSchedule(w, useMemory) = NewSchedule(w, useMemory)
  BY DEF Nodes, Tasks, NewSchedule, LS!Nodes, LS!Tasks, LS!NewSchedule
<1>2. ASSUME NEW t, NEW n PROVE LS!TaskReadyTime(w, s, t, n) = TaskReadyTime(w, s, t, n)
  BY Zenon DEF Nodes, ExactQuotient, DataTime, Tasks, Predecessors, DataTransfer, Indices, Scheduled, TransferCost, ArrivalTime, EarliestDataAvailable, TaskReadyTime, Max, Min, LS!Nodes, LS!ExactQuotient, LS!DataTime, LS!Tasks, LS!Predecessors, LS!DataTransfer, LS!Indices, LS!Scheduled, LS!TransferCost, LS!ArrivalTime, LS!EarliestDataAvailable, LS!TaskReadyTime, LS!Max, LS!Min
<1>3. ASSUME NEW t, NEW n PROVE LS!ComputationTime(w, t, n) = ComputationTime(w, t, n)
  BY Zenon DEF Nodes, ExactQuotient, Performance, WorkTime, ComputationTime, LS!Nodes, LS!ExactQuotient, LS!Performance, LS!WorkTime, LS!ComputationTime
<1>4. ASSUME NEW q, NEW ready, NEW length PROVE LS!Slot(q, ready, length) = Slot(q, ready, length)
  BY Zenon DEF Slot, FirstNotEndingBefore, FirstGapFrom, TotalFinishTime, Indices, Min, Max, Last, LS!Slot, LS!FirstNotEndingBefore, LS!FirstGapFrom, LS!TotalFinishTime, LS!Indices, LS!Min, LS!Max, LS!Last
<1>5. ASSUME NEW t, NEW n PROVE LS!SlotOn(w, s, t, n) = SlotOn(w, s, t, n)
  BY <1>2, <1>3, <1>4, Zenon DEF SlotOn, LS!SlotOn
<1>6. ASSUME NEW t, NEW n PROVE LS!NewInterval(w, s, t, n) = NewInterval(w, s, t, n)
  BY <1>3, <1>5, Zenon DEF NewInterval, LS!NewInterval
<1>7. ASSUME NEW q, NEW i, NEW e PROVE LS!InsertAt(q, i, e) = InsertAt(q, i, e)
  BY Zenon DEF InsertAt, LS!InsertAt
<1>8. ASSUME NEW t, NEW n PROVE LS!InsertIntoNode(w, s, t, n) = InsertIntoNode(w, s, t, n)
  BY <1>5, <1>6, <1>7, Zenon DEF InsertIntoNode, LS!InsertIntoNode
<1>9. ASSUME NEW t PROVE LS!PredecessorsScheduled(w, s, t) <=> PredecessorsScheduled(w, s, t)
  BY Zenon DEF PredecessorsScheduled, Predecessors, Tasks, Scheduled, LS!PredecessorsScheduled, LS!Predecessors, LS!Tasks, LS!Scheduled
<1>10. LS!Tasks(w) = Tasks(w) /\ LS!Nodes = Nodes
  BY Zenon DEF Tasks, Nodes, LS!Tasks, LS!Nodes
<1> QED
  BY <1>1, <1>8, <1>9, <1>10

LEMMA InitRefines == Init => LS!Init
BY SameOperators DEF Init, LS!Init

LEMMA StepRefines == BInv /\ [Next]_vars => [LS!Next]_LS!vars
<1> SUFFICES ASSUME BInv, [Next]_vars PROVE [LS!Next]_LS!vars
  OBVIOUS
<1>1. CASE InsertTask
  <2>1. /\ task < w.size /\ assignment[task] \in Nodes
        /\ PredecessorsScheduled(w, s, task)
        /\ s' = InsertIntoNode(w, s, task, assignment[task])
        /\ UNCHANGED w
    BY <1>1 DEF InsertTask, CanInsert
  <2>2. task \in Tasks(w) /\ task \in Int
    BY <2>1 DEF BInv, BTypeOK, IsWorkflow, Tasks
  <2>3. ~Scheduled(s, task)
    BY <2>2, ScheduledIsBefore
  <2>4. ~LS!OnNode(task, assignment[task])
    BY <2>3 DEF Scheduled, LS!OnNode, LS!Indices
  <2>5. LS!Place(task, assignment[task])
    BY <2>1, <2>4, SameOperators DEF LS!Place
  <2> QED
    BY <2>1, <2>2, <2>5, SameOperators DEF LS!Next
<1>2. ASSUME Select \/ RunAlgorithm \/ AlgorithmThrows \/ AllRun PROVE UNCHANGED LS!vars
  BY <1>2 DEF Select, RunAlgorithm, AlgorithmThrows, AllRun, LS!vars
<1>3. ASSUME ReadRow \/ Reject \/ FinishReading \/ Throw \/ Report PROVE UNCHANGED LS!vars
  BY <1>3 DEF ReadRow, Reject, FinishReading, Throw, Report, LS!vars
<1>4. ASSUME UNCHANGED vars PROVE UNCHANGED LS!vars
  BY <1>4 DEF vars, LS!vars
<1> QED
  BY <1>1, <1>2, <1>3, <1>4 DEF Next

\* from_assignment is a list scheduling algorithm: every insertion is one
\* ListScheduling allows, every other step leaves the schedule alone.
THEOREM BackEndRefinesListScheduling == Spec => ImplementsListScheduling
<1> QED
  BY BackEndInvariance, InitRefines, StepRefines, PTL DEF Spec, LS!Spec, ImplementsListScheduling
=============================================================================
