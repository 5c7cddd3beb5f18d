------------------------ MODULE ListSchedulingProofs ------------------------
(***************************************************************************)
(* The schedules list scheduling builds are correct, for every cluster,    *)
(* every set of workflows and every choice the algorithms make.            *)
(***************************************************************************)
EXTENDS ListScheduling, ScheduleProofs

(***************************************************************************)
(* The inductive invariant.  An insertion keeps the intervals of a node    *)
(* apart because the slot search assumes that they are (NoOverlap), and it *)
(* leaves the indices in agreement because scheduled ids are new, which    *)
(* holds as long as every id in use is below the length of the id map.     *)
(***************************************************************************)
IInv ==
    /\ TypeOK
    /\ NoOverlap
    /\ PrecedenceRespected
    /\ NodeIndexAgrees
    /\ TaskIndexAgrees
    /\ IdsUnique

LEMMA InitEstablishesIInv == Init => IInv
<1> SUFFICES ASSUME Init PROVE IInv
  OBVIOUS
<1>1. IsWorkflow(w)
  BY WorkflowsAssumption DEF Init
<1>2. PICK useMemory \in MemoryFlags : s = NewSchedule(w, useMemory)
  BY DEF Init
<1>3. useMemory \in BOOLEAN
  BY MemoryFlagsAssumption
<1> DEFINE empty == [n \in Nodes |-> << >>]
           nothing == [t \in Tasks(w) |-> << >>]
<1>4. s = [useMemory |-> useMemory, node |-> empty, task |-> nothing, original |-> << >>]
  BY <1>2 DEF NewSchedule
<1>5. s \in Schedules(w)
  <2>1. << >> \in Seq(Interval) /\ << >> \in Seq(Tasks(w))
    OBVIOUS
  <2>2. empty \in [Nodes -> Seq(Interval)] /\ nothing \in [Tasks(w) -> Seq(Interval)]
    BY <2>1
  <2> HIDE DEF empty, nothing
  <2> QED
    BY <1>3, <1>4, <2>1, <2>2 DEF Schedules
<1>6. Indices(<< >>) = {}
  BY DEF Indices
<1>7. /\ \A n \in Nodes : Indices(s.node[n]) = {}
      /\ \A t \in Tasks(w) : Indices(s.task[t]) = {}
  BY <1>4, <1>6
<1> QED
  BY <1>1, <1>5, <1>7, Zenon
     DEF IInv, TypeOK, NoOverlap, Disjoint, PrecedenceRespected, NodeIndexAgrees,
         TaskIndexAgrees, IdsUnique

\* What a step changes, in terms of the interval it places.
LEMMA PlaceEffect ==
    ASSUME TypeOK, NoOverlap, NEW t \in Tasks(w), NEW n \in Nodes, Place(t, n)
    PROVE  LET i  == NewInterval(w, s, t, n)
               at == SlotOn(w, s, t, n).at
           IN  /\ w' = w
               /\ s' \in Schedules(w)
               /\ \A m \in Nodes : Disjoint(s'.node[m])
               /\ s'.original = Append(s.original, t)
               /\ s'.task = [s.task EXCEPT ![t] = Append(s.task[t], i)]
               /\ s'.node = [s.node EXCEPT ![n] = InsertAt(s.node[n], at, i)]
               /\ i \in Interval
               /\ i.id = Len(s.original) /\ i.node = n
               /\ i.start >= TaskReadyTime(w, s, t, n)
               /\ at \in 1 .. Len(s.node[n]) + 1
<1>1. IsWorkflow(w) /\ s \in Schedules(w) /\ \A m \in Nodes : Disjoint(s.node[m])
  BY DEF TypeOK, NoOverlap
<1> DEFINE i  == NewInterval(w, s, t, n)
           at == SlotOn(w, s, t, n).at
           r  == InsertIntoNode(w, s, t, n)
<1>2. w' = w /\ s' = r
  BY DEF Place
<1>3. /\ r \in Schedules(w)
      /\ r.original = Append(s.original, t)
      /\ r.task = [s.task EXCEPT ![t] = Append(s.task[t], i)]
      /\ r.node = [s.node EXCEPT ![n] = InsertAt(s.node[n], at, i)]
      /\ \A m \in Nodes : Disjoint(r.node[m])
  BY <1>1, InsertIntoNodeProperties
<1>4. /\ i \in Interval
      /\ i.id = Len(s.original) /\ i.node = n
      /\ i.start >= TaskReadyTime(w, s, t, n)
      /\ at \in 1 .. Len(s.node[n]) + 1
  BY <1>1, NewIntervalProperties
<1> HIDE DEF i, at, r
<1> QED
  BY <1>2, <1>3, <1>4 DEF i, at

\* The intervals of a task after a step: the old ones, at their old place, and
\* for the task that was placed one more, the last.
LEMMA TaskIntervalsAfter ==
    ASSUME TypeOK, NoOverlap, NEW t \in Tasks(w), NEW n \in Nodes, Place(t, n),
           NEW u \in Tasks(w)
    PROVE  /\ \A k \in Indices(s.task[u]) :
                  k \in Indices(s'.task[u]) /\ s'.task[u][k] = s.task[u][k]
           /\ \A k \in Indices(s'.task[u]) :
                  \/ k \in Indices(s.task[u]) /\ s'.task[u][k] = s.task[u][k]
                  \/ u = t /\ s'.task[u][k] = NewInterval(w, s, t, n)
           /\ \E k \in Indices(s'.task[t]) : s'.task[t][k] = NewInterval(w, s, t, n)
<1> DEFINE i == NewInterval(w, s, t, n)
<1>1. s.task \in [Tasks(w) -> Seq(Interval)]
  BY DEF TypeOK, Schedules
<1>2. s'.task = [s.task EXCEPT ![t] = Append(s.task[t], i)] /\ i \in Interval
  BY PlaceEffect
<1> HIDE DEF i
<1>3. /\ s'.task[t] = Append(s.task[t], i)
      /\ \A v \in Tasks(w) : v # t => s'.task[v] = s.task[v]
  BY <1>1, <1>2
<1> DEFINE q == s.task[t]
<1>4. q \in Seq(Interval)
  BY <1>1
<1> HIDE DEF q
<1>5. /\ Len(q) \in Nat /\ Len(Append(q, i)) = Len(q) + 1
      /\ Append(q, i)[Len(q) + 1] = i
      /\ \A k \in 1 .. Len(q) : Append(q, i)[k] = q[k]
  BY <1>2, <1>4
<1>6. /\ \A k \in Indices(q) : k \in Indices(Append(q, i)) /\ Append(q, i)[k] = q[k]
      /\ \A k \in Indices(Append(q, i)) :
             (k \in Indices(q) /\ Append(q, i)[k] = q[k]) \/ Append(q, i)[k] = i
      /\ \E k \in Indices(Append(q, i)) : Append(q, i)[k] = i
  BY <1>5 DEF Indices
<1> QED
  BY <1>3, <1>6 DEF q, i

\* The intervals of a node after a step: the old ones, in their old order, and
\* on the node of the placed task one more.
LEMMA NodeIntervalsAfter ==
    ASSUME TypeOK, NoOverlap, NEW t \in Tasks(w), NEW n \in Nodes, Place(t, n),
           NEW m \in Nodes
    PROVE  /\ \A k \in Indices(s.node[m]) :
                  \E j \in Indices(s'.node[m]) : s'.node[m][j] = s.node[m][k]
           /\ \A j \in Indices(s'.node[m]) :
                  \/ \E k \in Indices(s.node[m]) : s'.node[m][j] = s.node[m][k]
                  \/ m = n /\ s'.node[m][j] = NewInterval(w, s, t, n)
           /\ \E j \in Indices(s'.node[n]) : s'.node[n][j] = NewInterval(w, s, t, n)
<1> DEFINE i == NewInterval(w, s, t, n)
           at == SlotOn(w, s, t, n).at
           q == s.node[n]
           p == InsertAt(q, at, i)
<1>1. s.node \in [Nodes -> Seq(Interval)]
  BY DEF TypeOK, Schedules
<1>2. s'.node = [s.node EXCEPT ![n] = p] /\ i \in Interval /\ at \in 1 .. Len(q) + 1
  BY PlaceEffect
<1>3. q \in Seq(Interval)
  BY <1>1
<1> HIDE DEF i, at, q
<1>4. /\ \A k \in Indices(q) : \E j \in Indices(p) : p[j] = q[k]
      /\ at \in Indices(p) /\ p[at] = i
      /\ \A j \in Indices(p) : j # at => \E k \in Indices(q) : p[j] = q[k]
  BY <1>2, <1>3, InsertAtElements
<1> HIDE DEF p
<1>5. s'.node[n] = p /\ \A x \in Nodes : x # n => s'.node[x] = s.node[x]
  BY <1>1, <1>2
<1> QED
  BY <1>4, <1>5 DEF q, i

----------------------------------------------------------------------------
LEMMA PlaceKeepsPrecedence ==
    ASSUME TypeOK, NoOverlap, PrecedenceRespected,
           NEW t \in Tasks(w), NEW n \in Nodes, Place(t, n)
    PROVE  PrecedenceRespected'
<1> DEFINE i == NewInterval(w, s, t, n)
<1>1. w' = w /\ i.node = n /\ i.start >= TaskReadyTime(w, s, t, n) /\ i \in Interval
  BY PlaceEffect
<1>2. IsWorkflow(w) /\ s \in Schedules(w)
  BY DEF TypeOK
<1> SUFFICES ASSUME NEW u \in Tasks(w), NEW k \in Indices(s'.task[u]),
                    NEW p \in Predecessors(w, u)
             PROVE  \E l \in Indices(s'.task[p]) :
                        ArrivalTime(w, p, s'.task[p][l], s'.task[u][k].node)
                            <= s'.task[u][k].start
  BY <1>1 DEF PrecedenceRespected
<1>3. p \in Tasks(w)
  BY DEF Predecessors
<1>4. CASE k \in Indices(s.task[u]) /\ s'.task[u][k] = s.task[u][k]
  <2>1. PICK l \in Indices(s.task[p]) :
            ArrivalTime(w, p, s.task[p][l], s.task[u][k].node) <= s.task[u][k].start
    BY <1>4 DEF PrecedenceRespected
  <2>2. l \in Indices(s'.task[p]) /\ s'.task[p][l] = s.task[p][l]
    BY <1>3, TaskIntervalsAfter
  <2> QED
    BY <1>4, <2>1, <2>2
<1>5. CASE u = t /\ s'.task[u][k] = i
  <2>1. Scheduled(s, p)
    BY <1>5 DEF Place, PredecessorsScheduled
  <2>2. PICK l \in Indices(s.task[p]) :
            EarliestDataAvailable(w, s, p, n) = ArrivalTime(w, p, s.task[p][l], n)
    BY <1>2, <1>3, <2>1, EarliestDataAvailableProperty
  <2>3. EarliestDataAvailable(w, s, p, n) <= TaskReadyTime(w, s, t, n)
    BY <1>2, <1>5, <2>1, TaskReadyTimeProperty
  <2>4. /\ EarliestDataAvailable(w, s, p, n) \in Nat
        /\ TaskReadyTime(w, s, t, n) \in Nat
        /\ i.start \in Nat
    BY <1>1, <1>2, <1>3, <2>1, EarliestDataAvailableProperty, TaskReadyTimeProperty DEF Interval
  <2>5. l \in Indices(s'.task[p]) /\ s'.task[p][l] = s.task[p][l]
    BY <1>3, TaskIntervalsAfter
  <2> HIDE DEF i
  <2>6. ArrivalTime(w, p, s.task[p][l], n) <= i.start
    BY <1>1, <2>2, <2>3, <2>4
  <2> QED
    BY <1>1, <1>5, <2>5, <2>6
<1> QED
  BY <1>4, <1>5, TaskIntervalsAfter

LEMMA PlaceKeepsNodeIndex ==
    ASSUME TypeOK, NoOverlap, NodeIndexAgrees,
           NEW t \in Tasks(w), NEW n \in Nodes, Place(t, n)
    PROVE  NodeIndexAgrees'
<1> DEFINE i == NewInterval(w, s, t, n)
<1>1. s'.original = Append(s.original, t) /\ i.id = Len(s.original) /\ i.node = n
  BY PlaceEffect
<1>2. s.original \in Seq(Tasks(w)) /\ \A m \in Nodes : s.node[m] \in Seq(Interval)
  BY DEF TypeOK, Schedules
<1>3. /\ Len(s.original) \in Nat /\ Len(s'.original) = Len(s.original) + 1
      /\ s'.original[Len(s.original) + 1] = t
      /\ \A k \in 1 .. Len(s.original) : s'.original[k] = s.original[k]
      /\ \A k \in 1 .. Len(s.original) : s.original[k] \in Tasks(w)
  BY <1>1, <1>2
<1> SUFFICES ASSUME NEW m \in Nodes, NEW j \in Indices(s'.node[m])
             PROVE  LET x == s'.node[m][j] IN
                    /\ x.node = m
                    /\ x.id < Len(s'.original)
                    /\ \E k \in Indices(s'.task[s'.original[x.id + 1]]) :
                           s'.task[s'.original[x.id + 1]][k] = x
  BY Zenon DEF NodeIndexAgrees
<1>4. CASE \E k \in Indices(s.node[m]) : s'.node[m][j] = s.node[m][k]
  <2>1. PICK k \in Indices(s.node[m]) : s'.node[m][j] = s.node[m][k]
    BY <1>4
  <2> DEFINE x == s.node[m][k]
             u == s.original[x.id + 1]
  <2>2. /\ x.node = m /\ x.id < Len(s.original)
        /\ \E l \in Indices(s.task[u]) : s.task[u][l] = x
    BY Zenon DEF NodeIndexAgrees
  <2>3. x \in Interval
    BY <1>2 DEF Indices
  <2>4. x.id \in Nat
    BY <2>3 DEF Interval
  <2> HIDE DEF x
  <2>5. x.id + 1 \in 1 .. Len(s.original)
    BY <1>3, <2>2, <2>4
  <2>6. u \in Tasks(w) /\ s'.original[x.id + 1] = u /\ x.id < Len(s'.original)
    BY <1>3, <2>2, <2>4, <2>5
  <2> HIDE DEF u
  <2>7. \E l \in Indices(s'.task[u]) : s'.task[u][l] = x
    BY <2>2, <2>6, TaskIntervalsAfter
  <2> QED
    BY <2>1, <2>2, <2>6, <2>7 DEF x
<1>5. CASE m = n /\ s'.node[m][j] = i
  <2>1. \E k \in Indices(s'.task[t]) : s'.task[t][k] = i
    BY TaskIntervalsAfter
  <2> HIDE DEF i
  <2>2. i.id < Len(s'.original) /\ s'.original[i.id + 1] = t
    BY <1>1, <1>3
  <2> QED
    BY <1>1, <1>5, <2>1, <2>2
<1>6. \/ \E k \in Indices(s.node[m]) : s'.node[m][j] = s.node[m][k]
      \/ m = n /\ s'.node[m][j] = i
  BY NodeIntervalsAfter
<1> QED
  BY <1>4, <1>5, <1>6, Zenon

LEMMA PlaceKeepsTaskIndex ==
    ASSUME TypeOK, NoOverlap, TaskIndexAgrees,
           NEW t \in Tasks(w), NEW n \in Nodes, Place(t, n)
    PROVE  TaskIndexAgrees'
<1> DEFINE i == NewInterval(w, s, t, n)
<1>1. w' = w /\ s'.original = Append(s.original, t) /\ i.id = Len(s.original) /\ i.node = n
  BY PlaceEffect
<1>2. s.original \in Seq(Tasks(w)) /\ \A u \in Tasks(w) : s.task[u] \in Seq(Interval)
  BY DEF TypeOK, Schedules
<1>3. /\ Len(s.original) \in Nat /\ Len(s'.original) = Len(s.original) + 1
      /\ s'.original[Len(s.original) + 1] = t
      /\ \A k \in 1 .. Len(s.original) : s'.original[k] = s.original[k]
  BY <1>1, <1>2
<1> SUFFICES ASSUME NEW u \in Tasks(w), NEW k \in Indices(s'.task[u])
             PROVE  LET x == s'.task[u][k] IN
                    /\ x.id < Len(s'.original)
                    /\ s'.original[x.id + 1] = u
                    /\ \E j \in Indices(s'.node[x.node]) : s'.node[x.node][j] = x
  BY <1>1 DEF TaskIndexAgrees
<1>4. CASE k \in Indices(s.task[u]) /\ s'.task[u][k] = s.task[u][k]
  <2> DEFINE x == s.task[u][k]
  <2>1. /\ x.id < Len(s.original) /\ s.original[x.id + 1] = u
        /\ \E j \in Indices(s.node[x.node]) : s.node[x.node][j] = x
    BY <1>4 DEF TaskIndexAgrees
  <2>2. x \in Interval
    BY <1>2, <1>4 DEF Indices
  <2>3. x.id \in Nat /\ x.node \in Nodes
    BY <2>2 DEF Interval
  <2> HIDE DEF x
  <2>4. \E j \in Indices(s'.node[x.node]) : s'.node[x.node][j] = x
    BY <2>1, <2>3, NodeIntervalsAfter
  <2>5. x.id + 1 \in 1 .. Len(s.original) /\ x.id < Len(s'.original)
    BY <1>3, <2>1, <2>3
  <2>6. s'.original[x.id + 1] = u
    BY <1>3, <2>1, <2>5
  <2> QED
    BY <1>4, <2>4, <2>5, <2>6, Zenon DEF x
<1>5. CASE u = t /\ s'.task[u][k] = i
  <2>1. \E j \in Indices(s'.node[n]) : s'.node[n][j] = i
    BY NodeIntervalsAfter
  <2> HIDE DEF i
  <2>2. i.id < Len(s'.original) /\ s'.original[i.id + 1] = t
    BY <1>1, <1>3
  <2> QED
    BY <1>1, <1>5, <2>1, <2>2
<1> QED
  BY <1>4, <1>5, TaskIntervalsAfter

\* Where the intervals of a node come from: behind the new one they move by one.
LEMMA NodeIntervalOrigin ==
    ASSUME TypeOK, NoOverlap, NEW t \in Tasks(w), NEW n \in Nodes, Place(t, n),
           NEW m \in Nodes, NEW j \in Indices(s'.node[m])
    PROVE  LET at == SlotOn(w, s, t, n).at
               k  == IF m = n /\ j > at THEN j - 1 ELSE j
           IN  IF m = n /\ j = at
               THEN s'.node[m][j] = NewInterval(w, s, t, n)
               ELSE k \in Indices(s.node[m]) /\ s'.node[m][j] = s.node[m][k]
<1> DEFINE i == NewInterval(w, s, t, n)
           at == SlotOn(w, s, t, n).at
           q == s.node[n]
           p == InsertAt(q, at, i)
<1>1. s.node \in [Nodes -> Seq(Interval)]
  BY DEF TypeOK, Schedules
<1>2. s'.node = [s.node EXCEPT ![n] = p] /\ i \in Interval /\ at \in 1 .. Len(q) + 1
  BY PlaceEffect
<1>3. q \in Seq(Interval)
  BY <1>1
<1> HIDE DEF i, at, q
<1>4. \A x \in Indices(p) :
          LET k == IF x > at THEN x - 1 ELSE x
          IN  IF x = at THEN p[x] = i ELSE k \in Indices(q) /\ p[x] = q[k]
  BY <1>2, <1>3, InsertAtOrigin
<1> HIDE DEF p
<1>5. s'.node[n] = p /\ \A x \in Nodes : x # n => s'.node[x] = s.node[x]
  BY <1>1, <1>2
<1> QED
  BY <1>4, <1>5 DEF q, at, i

LEMMA PlaceKeepsIdsUnique ==
    ASSUME TypeOK, NoOverlap, NodeIndexAgrees, IdsUnique,
           NEW t \in Tasks(w), NEW n \in Nodes, Place(t, n)
    PROVE  IdsUnique'
<1> DEFINE new == NewInterval(w, s, t, n)
           at == SlotOn(w, s, t, n).at
           from(m, i) == IF m = n /\ i > at THEN i - 1 ELSE i
<1> SUFFICES ASSUME NEW x \in Nodes, NEW y \in Nodes,
                    NEW i \in Indices(s'.node[x]), NEW j \in Indices(s'.node[y]),
                    s'.node[x][i].id = s'.node[y][j].id
             PROVE  x = y /\ i = j
  BY DEF IdsUnique
<1>1. i \in Nat /\ j \in Nat
  BY DEF Indices
<1>2. new.id = Len(s.original) /\ Len(s.original) \in Nat /\ at \in Int
  <2>1. s.original \in Seq(Tasks(w))
    BY DEF TypeOK, Schedules
  <2>2. at \in 1 .. Len(s.node[n]) + 1 /\ new.id = Len(s.original)
    BY PlaceEffect
  <2> QED
    BY <2>1, <2>2
\* No interval that was there before has the new id.
<1>3. \A m \in Nodes : \A k \in Indices(s.node[m]) : s.node[m][k].id # new.id
  <2> TAKE m \in Nodes
  <2> TAKE k \in Indices(s.node[m])
  <2>1. s.node[m][k].id < Len(s.original)
    BY Zenon DEF NodeIndexAgrees
  <2>2. s.node[m] \in Seq(Interval)
    BY DEF TypeOK, Schedules
  <2>3. s.node[m][k] \in Interval
    BY <2>2 DEF Indices
  <2>4. s.node[m][k].id \in Nat
    BY <2>3 DEF Interval
  <2> HIDE DEF new
  <2> QED
    BY <1>2, <2>1, <2>4
<1>4. IF x = n /\ i = at THEN s'.node[x][i] = new
      ELSE from(x, i) \in Indices(s.node[x]) /\ s'.node[x][i] = s.node[x][from(x, i)]
  BY NodeIntervalOrigin
<1>5. IF y = n /\ j = at THEN s'.node[y][j] = new
      ELSE from(y, j) \in Indices(s.node[y]) /\ s'.node[y][j] = s.node[y][from(y, j)]
  BY NodeIntervalOrigin
<1> HIDE DEF new, at
<1>6. CASE x = n /\ i = at
  BY <1>3, <1>4, <1>5, <1>6
<1>7. CASE y = n /\ j = at
  BY <1>3, <1>4, <1>5, <1>7
<1>8. CASE ~(x = n /\ i = at) /\ ~(y = n /\ j = at)
  <2>1. x = y /\ from(x, i) = from(y, j)
    <3>1. from(x, i) \in Indices(s.node[x]) /\ s'.node[x][i] = s.node[x][from(x, i)]
      BY <1>4, <1>8
    <3>2. from(y, j) \in Indices(s.node[y]) /\ s'.node[y][j] = s.node[y][from(y, j)]
      BY <1>5, <1>8
    <3> HIDE DEF from
    <3> QED
      BY <3>1, <3>2 DEF IdsUnique
  <2>2. CASE x = n
    <3>1. i # at /\ j # at
      BY <1>8, <2>1, <2>2
    <3> QED
      BY <1>1, <1>2, <2>1, <2>2, <3>1
  <2>3. CASE x # n
    BY <2>1, <2>3
  <2> QED
    BY <2>2, <2>3
<1> QED
  BY <1>6, <1>7, <1>8

----------------------------------------------------------------------------
LEMMA PlaceKeepsIInv ==
    ASSUME IInv, NEW t \in Tasks(w), NEW n \in Nodes, Place(t, n)
    PROVE  IInv'
<1> USE DEF IInv
<1>1. TypeOK'
  BY PlaceEffect DEF TypeOK
<1>2. NoOverlap'
  BY PlaceEffect DEF NoOverlap
<1>3. PrecedenceRespected'
  BY PlaceKeepsPrecedence
<1>4. NodeIndexAgrees'
  BY PlaceKeepsNodeIndex
<1>5. TaskIndexAgrees'
  BY PlaceKeepsTaskIndex
<1>6. IdsUnique'
  BY PlaceKeepsIdsUnique
<1> QED
  BY <1>1, <1>2, <1>3, <1>4, <1>5, <1>6

LEMMA StepKeepsIInv == IInv /\ [Next]_vars => IInv'
<1> SUFFICES ASSUME IInv, [Next]_vars PROVE IInv'
  OBVIOUS
<1>1. CASE Next
  BY <1>1, PlaceKeepsIInv DEF Next
<1>2. CASE UNCHANGED vars
  <2>1. w' = w /\ s' = s
    BY <1>2 DEF vars
  <2>2. TypeOK' /\ NoOverlap'
    BY <2>1 DEF IInv, TypeOK, NoOverlap
  <2>3. PrecedenceRespected /\ NodeIndexAgrees /\ TaskIndexAgrees /\ IdsUnique
    BY DEF IInv
  <2>4. PrecedenceRespected'
    BY <2>1, <2>3 DEF PrecedenceRespected
  <2>5. NodeIndexAgrees'
    <3> DEFINE Agrees(x, n, i) ==
                   LET interval == x.node[n][i]
                       u        == x.original[interval.id + 1]
                   IN  /\ interval.node = n
                       /\ interval.id < Len(x.original)
                       /\ \E k \in Indices(x.task[u]) : x.task[u][k] = interval
    <3>1. \A n \in Nodes : \A i \in Indices(s.node[n]) : Agrees(s, n, i)
      BY <2>3, ZenonT(30) DEF NodeIndexAgrees
    <3>2. (\A n \in Nodes : \A i \in Indices(s'.node[n]) : Agrees(s', n, i)) => NodeIndexAgrees'
      BY Zenon DEF NodeIndexAgrees
    <3> HIDE DEF Agrees
    <3> QED
      BY <2>1, <3>1, <3>2
  <2>6. TaskIndexAgrees'
    BY <2>1, <2>3 DEF TaskIndexAgrees
  <2>7. IdsUnique'
    BY <2>1, <2>3 DEF IdsUnique
  <2> QED
    BY <2>2, <2>4, <2>5, <2>6, <2>7 DEF IInv
<1> QED
  BY <1>1, <1>2

THEOREM Invariance == Spec => []IInv
<1> QED
  BY InitEstablishesIInv, StepKeepsIInv, PTL DEF Spec

\* Every field of the schedule keeps its type.
THEOREM TypeCorrect == Spec => []TypeOK
<1>1. IInv => TypeOK
  BY DEF IInv
<1> QED
  BY <1>1, Invariance, PTL

\* No node of any cluster ever runs two tasks at a time.
THEOREM NodesNeverOverlap == Spec => []NoOverlap
<1>1. IInv => NoOverlap
  BY DEF IInv
<1> QED
  BY <1>1, Invariance, PTL

\* No task starts before the data of its predecessors has arrived.
THEOREM PrecedenceAlwaysRespected == Spec => []PrecedenceRespected
<1>1. IInv => PrecedenceRespected
  BY DEF IInv
<1> QED
  BY <1>1, Invariance, PTL

\* The three indices of the schedule never disagree.
THEOREM IndicesAlwaysAgree == Spec => []IndicesAgree
<1>1. IInv => IndicesAgree
  BY DEF IInv, IndicesAgree
<1> QED
  BY <1>1, Invariance, PTL

----------------------------------------------------------------------------
\* What is_valid rejects although the data are there was sent faster than the
\* target's own bandwidth allows.
LEMMA FitsOrMisjudged ==
    ASSUME IInv, NEW t \in Tasks(w), NEW k \in Indices(s.task[t]), NEW p \in Predecessors(w, t)
    PROVE  FittingCopies(w, s, p, s.task[t][k]) # {} \/ Misjudged(p, s.task[t][k])
<1> DEFINE i == s.task[t][k]
<1>1. PICK l \in Indices(s.task[p]) : ArrivalTime(w, p, s.task[p][l], i.node) <= i.start
  BY DEF IInv, PrecedenceRespected
<1> DEFINE c == s.task[p][l]
           data == DataTransfer(w, p)
<1>2. p \in Tasks(w)
  BY DEF Predecessors
<1>3. IsWorkflow(w) /\ s.task[t] \in Seq(Interval) /\ s.task[p] \in Seq(Interval)
  BY <1>2 DEF IInv, TypeOK, Schedules
<1>4. i \in Interval /\ c \in Interval
  BY <1>3 DEF Indices
<1>5. i.node \in Nodes /\ c.node \in Nodes /\ i.start \in Nat /\ c.end \in Nat
  BY <1>4 DEF Interval
<1>6. data \in Nat
  BY <1>2, <1>3 DEF IsWorkflow, DataTransfer
<1>7. DataTime[i.node] \in Nat /\ DataTime[c.node] \in Nat
  BY <1>5, TicksPositive
<1> SUFFICES ASSUME ~Misjudged(p, i) PROVE FittingCopies(w, s, p, i) # {}
  OBVIOUS
<1>8. ~(NetworkBandwidth[i.node] < NetworkBandwidth[c.node])
  BY <1>1 DEF Misjudged
<1> HIDE DEF i, c, data
<1>9. DataTime[i.node] <= DataTime[c.node]
  BY <1>5, <1>7, <1>8, LongerAtLessBandwidth
<1>10. data * DataTime[i.node] <= data * DataTime[c.node]
  BY <1>6, <1>7, <1>9
<1>11. data * DataTime[i.node] \in Nat /\ data * DataTime[c.node] \in Nat
  BY <1>6, <1>7, ProductNat
<1>12. TransferCost(i.node, c.node, data, i.node) <= TransferCost(c.node, i.node, data, c.node)
  BY <1>10 DEF TransferCost
<1>13. /\ TransferCost(i.node, c.node, data, i.node) \in Nat
       /\ TransferCost(c.node, i.node, data, c.node) \in Nat
  BY <1>11 DEF TransferCost
<1>14. c.end + TransferCost(c.node, i.node, data, c.node) <= i.start
  BY <1>1 DEF ArrivalTime, c, data
<1>15. c.end + TransferCost(i.node, c.node, data, i.node) <= i.start
  BY <1>5, <1>12, <1>13, <1>14
<1> QED
  BY <1>1, <1>15 DEF FittingCopies, c, data

LEMMA IInvImpliesCompleteIsValid == IInv => CompleteIsValid
<1>1. ASSUME IInv, NEW n \in Nodes PROVE IsValidOnNode(s.node[n])
  <2>1. s.node[n] \in Seq(Interval)
    BY <1>1 DEF IInv, TypeOK, Schedules
  <2>2. Disjoint(s.node[n])
    BY <1>1 DEF IInv, NoOverlap
  <2> QED
    BY <2>1, <2>2, DisjointIsValid
<1> QED
  BY <1>1, FitsOrMisjudged DEF CompleteIsValid

\* is_valid rejects a completed schedule only for data that were sent faster
\* than the target's bandwidth allows.
THEOREM CompleteAlwaysValid == Spec => []CompleteIsValid
<1> QED
  BY Invariance, IInvImpliesCompleteIsValid, PTL

\* On a cluster of equal bandwidths, is_valid accepts every schedule that list
\* scheduling completes.
THEOREM UniformAlwaysValid == Spec => [](UniformBandwidth /\ AllScheduled(w, s) => IsValid(w, s))
<1>1. IInv => (UniformBandwidth /\ AllScheduled(w, s) => IsValid(w, s))
  <2> SUFFICES ASSUME IInv, UniformBandwidth, AllScheduled(w, s)
               PROVE  IsValid(w, s)
    OBVIOUS
  <2>1. CompleteIsValid
    BY IInvImpliesCompleteIsValid
  <2>2. ASSUME NEW t \in Tasks(w), NEW k \in Indices(s.task[t]), NEW p \in Predecessors(w, t)
        PROVE  FittingCopies(w, s, p, s.task[t][k]) # {}
    <3> DEFINE i == s.task[t][k]
    <3>1. s.task[t] \in Seq(Interval) /\ s.task[p] \in Seq(Interval)
      BY DEF IInv, TypeOK, Schedules, Predecessors
    <3>2. i \in Interval /\ \A l \in Indices(s.task[p]) : s.task[p][l] \in Interval
      BY <3>1 DEF Indices
    <3>3. i.node \in Nodes /\ \A l \in Indices(s.task[p]) : s.task[p][l].node \in Nodes
      BY <3>2 DEF Interval
    <3>4. \A n, m \in Nodes : ~(NetworkBandwidth[n] < NetworkBandwidth[m])
      BY ClusterAssumption DEF UniformBandwidth
    <3>5. ~Misjudged(p, i)
      BY <3>3, <3>4 DEF Misjudged
    <3> QED
      BY <2>1, <3>5 DEF CompleteIsValid
  <2> QED
    BY <2>1, <2>2 DEF CompleteIsValid, IsValid
<1> QED
  BY <1>1, Invariance, PTL

----------------------------------------------------------------------------
LEMMA PlaceKeepsPlaced ==
    ASSUME IInv, NEW u \in Tasks(w), NEW n \in Nodes, Place(u, n)
    PROVE  KeepsPlaced
<1>1. TypeOK /\ NoOverlap /\ TaskIndexAgrees
  BY DEF IInv
<1> SUFFICES ASSUME NEW t \in Tasks(w), NEW k \in Indices(s.task[t])
             PROVE  /\ k \in Indices(s'.task[t]) /\ s'.task[t][k] = s.task[t][k]
                    /\ \E i \in Indices(s'.node[s.task[t][k].node]) :
                           s'.node[s.task[t][k].node][i] = s.task[t][k]
  BY DEF KeepsPlaced
<1>2. k \in Indices(s'.task[t]) /\ s'.task[t][k] = s.task[t][k]
  BY <1>1, TaskIntervalsAfter
<1> DEFINE x == s.task[t][k]
<1>3. \E i \in Indices(s.node[x.node]) : s.node[x.node][i] = x
  BY <1>1 DEF TaskIndexAgrees
<1>4. s.task[t] \in Seq(Interval)
  BY <1>1 DEF TypeOK, Schedules
<1>5. x \in Interval
  BY <1>4 DEF Indices
<1>6. x.node \in Nodes
  BY <1>5 DEF Interval
<1> HIDE DEF x
<1>7. \E i \in Indices(s'.node[x.node]) : s'.node[x.node][i] = x
  BY <1>1, <1>3, <1>6, NodeIntervalsAfter
<1> QED
  BY <1>2, <1>7, Zenon DEF x

\* What is placed stays placed: no insertion moves an earlier one.
THEOREM PlacedAlwaysStays == Spec => PlacedStays
<1>1. IInv /\ [Next]_vars => [KeepsPlaced]_vars
  BY PlaceKeepsPlaced DEF Next
<1> QED
  BY <1>1, Invariance, PTL DEF Spec, PlacedStays

LEMMA PlaceKeepsData ==
    ASSUME IInv, NEW u \in Tasks(w), NEW m \in Nodes, Place(u, m)
    PROVE  KeepsData
<1>1. TypeOK /\ NoOverlap
  BY DEF IInv
<1>2. IsWorkflow(w) /\ s \in Schedules(w) /\ s' \in Schedules(w)
  BY <1>1, PlaceEffect DEF TypeOK
<1> SUFFICES ASSUME NEW t \in Tasks(w), NEW n \in Nodes, Scheduled(s, t)
             PROVE  EarliestDataAvailable(w, s', t, n) <= EarliestDataAvailable(w, s, t, n)
  BY DEF KeepsData
<1>3. PICK k \in Indices(s.task[t]) :
          EarliestDataAvailable(w, s, t, n) = ArrivalTime(w, t, s.task[t][k], n)
  BY <1>2, EarliestDataAvailableProperty
<1>4. k \in Indices(s'.task[t]) /\ s'.task[t][k] = s.task[t][k]
  BY <1>1, TaskIntervalsAfter
<1>5. Scheduled(s', t)
  BY <1>4 DEF Scheduled, Indices
<1>6. EarliestDataAvailable(w, s', t, n) <= ArrivalTime(w, t, s'.task[t][k], n)
  BY <1>2, <1>4, <1>5, EarliestDataAvailableProperty
<1> QED
  BY <1>3, <1>4, <1>6

\* The output of a task never becomes available later than it was.
THEOREM DataNeverGetsLater == Spec => DataNeverLater
<1>1. IInv /\ [Next]_vars => [KeepsData]_vars
  BY PlaceKeepsData DEF Next
<1> QED
  BY <1>1, Invariance, PTL DEF Spec, DataNeverLater

\* A step never starts a task later than appending it to the node would.
THEOREM NeverWorseThanAppended == Spec => NeverWorseThanAppending
<1>1. ASSUME IInv, NEW t \in Tasks(w), NEW n \in Nodes
      PROVE  NewInterval(w, s, t, n).start
                 <= Max({TotalFinishTime(s.node[n]), TaskReadyTime(w, s, t, n)})
  <2> DEFINE q == s.node[n]
             ready == TaskReadyTime(w, s, t, n)
             length == ComputationTime(w, t, n)
  <2>1. IsWorkflow(w) /\ s \in Schedules(w) /\ Disjoint(q)
    BY <1>1 DEF IInv, TypeOK, NoOverlap
  <2>2. q \in Seq(Interval) /\ \A r \in Interval : r.start \in Nat /\ r.end \in Nat
    BY <2>1 DEF Schedules, Interval
  <2>3. ready \in Nat /\ length \in Nat
    BY <2>1, TaskReadyTimeProperty, ComputationTimePositive
  <2>4. NewInterval(w, s, t, n).start = Slot(q, ready, length).start
    BY DEF NewInterval, SlotOn
  <2> HIDE DEF q, ready, length
  <2> DEFINE start == Slot(q, ready, length).start
             finish == TotalFinishTime(q)
  <2>5. start \in Nat
    BY <2>1, <2>2, <2>3, SlotIsFree
  <2>6. finish \in Nat
    BY <2>1, <2>2, LastEndsLast
  <2>7. start <= finish \/ start <= ready
    BY <2>1, <2>2, <2>3, SlotNotAfterAppending
  <2> HIDE DEF start, finish
  <2> DEFINE latest == Max({finish, ready})
  <2>8. latest \in {finish, ready} /\ latest >= finish /\ latest >= ready
    BY <2>3, <2>6, MaxOfTwo
  <2> HIDE DEF latest
  <2>9. start <= latest
    BY <2>3, <2>5, <2>6, <2>7, <2>8
  <2> QED
    BY <2>4, <2>9 DEF start, latest, finish, q, ready
<1>2. IInv /\ [Next]_vars => [StartsNoLaterThanAppended]_vars
  BY <1>1 DEF StartsNoLaterThanAppended
<1> QED
  BY <1>2, Invariance, PTL DEF Spec, NeverWorseThanAppending

----------------------------------------------------------------------------
LEMMA NodeFinish ==
    ASSUME TypeOK, NoOverlap, NEW n \in Nodes
    PROVE  /\ TotalFinishTime(s.node[n]) \in Nat
           /\ \A i \in Indices(s.node[n]) :
                  /\ s.node[n][i] \in Interval
                  /\ s.node[n][i].end <= TotalFinishTime(s.node[n])
                  /\ 0 < s.node[n][i].end
           /\ \/ TotalFinishTime(s.node[n]) = 0
              \/ \E i \in Indices(s.node[n]) :
                     TotalFinishTime(s.node[n]) = s.node[n][i].end
<1> DEFINE q == s.node[n]
<1>1. q \in Seq(Interval) /\ Disjoint(q)
  BY DEF TypeOK, Schedules, NoOverlap
<1> HIDE DEF q
<1>2. \A r \in Interval : r.start \in Nat /\ r.end \in Nat
  BY DEF Interval
<1>3. /\ TotalFinishTime(q) \in Nat
      /\ \A k \in Indices(q) : q[k].end <= TotalFinishTime(q)
      /\ q # << >> => Len(q) \in Indices(q) /\ TotalFinishTime(q) = q[Len(q)].end
  BY <1>1, <1>2, LastEndsLast
<1>4. q = << >> => TotalFinishTime(q) = 0
  BY DEF TotalFinishTime
<1>5. ASSUME NEW i \in Indices(q) PROVE q[i] \in Interval /\ 0 < q[i].end
  <2>1. q[i] \in Interval
    BY <1>1 DEF Indices
  <2>2. q[i].start < q[i].end
    BY <1>1 DEF Disjoint
  <2>3. q[i].start \in Nat /\ q[i].end \in Nat
    BY <1>2, <2>1
  <2> QED
    BY <2>1, <2>2, <2>3
<1> QED
  BY <1>3, <1>4, <1>5 DEF q

LEMMA MakespanProperty ==
    ASSUME TypeOK, NoOverlap
    PROVE  /\ Makespan(s) \in Nat
           /\ \A n \in Nodes : TotalFinishTime(s.node[n]) <= Makespan(s)
           /\ \E n \in Nodes : TotalFinishTime(s.node[n]) = Makespan(s)
<1> DEFINE f == [n \in Nodes |-> TotalFinishTime(s.node[n])]
           S == {f[n] : n \in Nodes}
<1>1. IsFiniteSet(Nodes) /\ 0 \in Nodes
  <2>1. 0 \in Int /\ NumNodes - 1 \in Int /\ 0 <= NumNodes - 1
    BY ClusterAssumption
  <2> QED
    BY <2>1, FS_Interval DEF Nodes
<1>2. \A n \in Nodes : f[n] = TotalFinishTime(s.node[n]) /\ f[n] \in Nat
  BY NodeFinish
<1>3. Makespan(s) = Max(S)
  BY DEF Makespan
<1>4. DOMAIN f = Nodes
  OBVIOUS
<1> HIDE DEF f
<1>5. IsFiniteSet(S)
  BY <1>1, <1>4, ImageFinite
<1>6. S \in SUBSET Int /\ S # {} /\ S \subseteq Nat
  BY <1>1, <1>2
<1>7. Max(S) \in S /\ \A x \in S : Max(S) >= x
  BY <1>5, <1>6, MaxProperty
<1>8. Makespan(s) \in Nat /\ \E n \in Nodes : f[n] = Makespan(s)
  BY <1>3, <1>6, <1>7
<1>9. \A n \in Nodes : f[n] <= Makespan(s)
  BY <1>2, <1>3, <1>7, <1>8
<1> QED
  BY <1>2, <1>8, <1>9

LEMMA IInvImpliesMakespan == IInv => MakespanIsLatestEnd
<1> SUFFICES ASSUME IInv PROVE MakespanIsLatestEnd
  OBVIOUS
<1> DEFINE makespan == Makespan(s)
<1>1. TypeOK /\ NoOverlap /\ NodeIndexAgrees /\ TaskIndexAgrees
  BY DEF IInv
\* An interval of a task is one of its node, and ends no later than that.
<1>2. ASSUME NEW t \in Tasks(w), NEW k \in Indices(s.task[t])
      PROVE  s.task[t][k].end <= makespan /\ 0 < makespan
  <2> DEFINE x == s.task[t][k]
  <2>1. s.task[t] \in Seq(Interval)
    BY <1>1 DEF TypeOK, Schedules
  <2>2. x \in Interval
    BY <2>1 DEF Indices
  <2>3. x.node \in Nodes /\ x.end \in Nat
    BY <2>2 DEF Interval
  <2>4. PICK i \in Indices(s.node[x.node]) : s.node[x.node][i] = x
    BY <1>1 DEF TaskIndexAgrees
  <2> HIDE DEF x
  <2> DEFINE finish == TotalFinishTime(s.node[x.node])
  <2>5. finish \in Nat /\ x.end <= finish /\ 0 < x.end
    BY <1>1, <2>3, <2>4, NodeFinish
  <2>6. finish <= makespan /\ makespan \in Nat
    BY <1>1, <2>3, MakespanProperty
  <2> HIDE DEF finish, makespan
  <2>7. x.end <= makespan /\ 0 < makespan
    BY <2>3, <2>5, <2>6
  <2> QED
    BY <2>7 DEF x
<1>3. PICK n \in Nodes : TotalFinishTime(s.node[n]) = makespan
  BY <1>1, MakespanProperty
<1>4. CASE makespan = 0
  <2>1. \A t \in Tasks(w) : Indices(s.task[t]) = {}
    BY <1>2, <1>4
  <2>2. ASSUME NEW t \in Tasks(w) PROVE ~Scheduled(s, t)
    <3>1. s.task[t] \in Seq(Interval)
      BY <1>1 DEF TypeOK, Schedules
    <3>2. Len(s.task[t]) \in Nat /\ (s.task[t] # << >> => Len(s.task[t]) > 0)
      BY <3>1
    <3>3. Len(s.task[t]) > 0 => 1 \in Indices(s.task[t])
      BY <3>2 DEF Indices
    <3> QED
      BY <2>1, <3>2, <3>3 DEF Scheduled
  <2> QED
    BY <1>2, <1>4, <2>2 DEF MakespanIsLatestEnd
<1>5. CASE makespan # 0
  <2>1. PICK i \in Indices(s.node[n]) : makespan = s.node[n][i].end
    BY <1>1, <1>3, <1>5, NodeFinish
  <2> DEFINE x == s.node[n][i]
             t == s.original[x.id + 1]
  <2>2. x.id < Len(s.original) /\ \E k \in Indices(s.task[t]) : s.task[t][k] = x
    BY <1>1, Zenon DEF NodeIndexAgrees
  <2>3. x \in Interval /\ s.original \in Seq(Tasks(w))
    BY <1>1, NodeFinish DEF TypeOK, Schedules
  <2>4. x.id \in Nat
    BY <2>3 DEF Interval
  <2>5. t \in Tasks(w)
    <3> HIDE DEF x
    <3>1. Len(s.original) \in Nat /\ \A j \in 1 .. Len(s.original) : s.original[j] \in Tasks(w)
      BY <2>3
    <3>2. x.id + 1 \in 1 .. Len(s.original)
      BY <2>2, <2>4, <3>1
    <3> QED
      BY <3>1, <3>2
  <2>6. \E u \in Tasks(w) : \E k \in Indices(s.task[u]) : s.task[u][k].end = makespan
    BY <2>1, <2>2, <2>5, Zenon
  <2> QED
    BY <1>2, <2>6 DEF MakespanIsLatestEnd
<1> QED
  BY <1>4, <1>5

\* get_makespan, which looks at the last interval of each node only, finds the
\* latest end of all.
THEOREM MakespanAlwaysLatestEnd == Spec => []MakespanIsLatestEnd
<1> QED
  BY Invariance, IInvImpliesMakespan, PTL
=============================================================================
