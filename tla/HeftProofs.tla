----------------------------- MODULE HeftProofs -----------------------------
(***************************************************************************)
(* HEFT for every cluster, every set of workflows and both values of the   *)
(* memory flag.  The argument: ranks are computed against the topological  *)
(* order, so a task's rank exceeds those of its successors; a list sorted  *)
(* by rank then has every predecessor in front, and since the tasks before *)
(* next are exactly the scheduled ones no ready time is asked for too soon.*)
(***************************************************************************)
EXTENDS Heft, ScheduleProofs

NodesDisjoint == \A n \in Nodes : Disjoint(s.node[n])

\* The ranks are computed against the topological order.
RankedBehindUnranked ==
    \A t \in Tasks(w) \ ranked, u \in ranked : w.position[t] < w.position[u]

RanksBeforeInsertions ==
    IF phase = "rank"
    THEN next = 1 /\ \A t \in Tasks(w) : ~Scheduled(s, t)
    ELSE /\ ranked = Tasks(w)
         /\ \A i, j \in 1 .. w.size : i < j => upward[order[i]] >= upward[order[j]]

ScheduledInOrder ==
    phase # "rank" => \A i \in 1 .. w.size : Scheduled(s, order[i]) <=> i < next

MemoryRespected ==
    s.useMemory =>
        \A t \in Tasks(w) : \A k \in Indices(s.task[t]) :
            EnoughMemory(s.task[t][k].node, w.memory[t])

EndsWithReason ==
    /\ phase = "no_memory" => \E t \in Tasks(w) : NodesWithMemory(w.memory[t]) = {}
    /\ phase = "done" => next > w.size
    /\ phase # "out_of_range"

HInv ==
    /\ TypeOK
    /\ NodesDisjoint
    /\ RankedBehindUnranked
    /\ RanksDescend
    /\ RanksBeforeInsertions
    /\ ScheduledInOrder
    /\ MemoryRespected
    /\ EndsWithReason

----------------------------------------------------------------------------
LEMMA InitEstablishesHInv == Init => HInv
<1> SUFFICES ASSUME Init PROVE HInv
  OBVIOUS
<1>1. IsWorkflow(w)
  BY WorkflowsAssumption DEF Init
<1>2. PICK useMemory \in MemoryFlags : s = NewSchedule(w, useMemory)
  BY DEF Init
<1>3. useMemory \in BOOLEAN
  BY MemoryFlagsAssumption
<1>4. /\ s \in Schedules(w)
      /\ \A n \in Nodes : Disjoint(s.node[n])
      /\ \A t \in Tasks(w) : s.task[t] = << >>
  BY <1>2, <1>3, NewScheduleProperties
<1>5. TypeOK
  BY <1>1, <1>4 DEF Init, TypeOK, IsWorkflow
<1>6. NodesDisjoint
  BY <1>4 DEF NodesDisjoint
<1>7. RankedBehindUnranked /\ RanksDescend
  BY DEF Init, RankedBehindUnranked, RanksDescend
<1>8. RanksBeforeInsertions
  BY <1>4 DEF Init, RanksBeforeInsertions, Scheduled
<1>9. ScheduledInOrder /\ EndsWithReason
  BY DEF Init, ScheduledInOrder, EndsWithReason
<1>10. MemoryRespected
  BY <1>4 DEF MemoryRespected, Indices
<1> QED
  BY <1>5, <1>6, <1>7, <1>8, <1>9, <1>10 DEF HInv

LEMMA RankTaskKeepsHInv ==
    ASSUME HInv, NEW t \in Tasks(w), RankTask(t)
    PROVE  HInv'
<1> DEFINE rank == UpwardRank(w, upward, BandwidthSum, PerformanceSum, t)
<1>1. /\ phase = "rank" /\ t \notin ranked
      /\ \A u \in Tasks(w) \ ranked : w.position[u] <= w.position[t]
      /\ upward' = [upward EXCEPT ![t] = rank]
      /\ ranked' = ranked \cup {t}
      /\ UNCHANGED <<w, s, order, next, phase>>
  BY DEF RankTask
<1>2. /\ IsWorkflow(w)
      /\ upward \in [Tasks(w) -> Nat]
      /\ ranked \subseteq Tasks(w)
  BY DEF HInv, TypeOK
<1>3. BandwidthSum \in Nat \ {0} /\ PerformanceSum \in Nat
  BY ClusterSumsPositive
<1>4. rank \in Nat /\ \A c \in Successors(w, t) : rank > upward[c]
  <2> DEFINE cost == RankCost(w, BandwidthSum, PerformanceSum, t)
  <2>1. /\ rank \in Nat
        /\ \A c \in Successors(w, t) : rank >= cost + upward[c]
        /\ Successors(w, t) # {} => \E c \in Successors(w, t) : rank = cost + upward[c]
    BY <1>2, <1>3, UpwardRankProperty
  <2>2. cost \in Nat \ {0} /\ \A c \in Successors(w, t) : upward[c] \in Nat
    BY <1>2, <1>3, RankCostType DEF Successors
  <2> HIDE DEF rank, cost
  <2> QED
    BY <2>1, <2>2
<1> HIDE DEF rank
<1>5. TypeOK'
  BY <1>1, <1>2, <1>4 DEF HInv, TypeOK
<1>6. /\ \A u \in Tasks(w) : w.position[u] \in Int
      /\ \A x, y \in Tasks(w) : w.position[x] = w.position[y] => x = y
      /\ \A x, y \in Tasks(w) : <<x, y>> \in w.deps => w.position[x] < w.position[y]
  BY <1>2 DEF IsWorkflow, Tasks
<1>7. RankedBehindUnranked'
  <2> SUFFICES ASSUME NEW x \in Tasks(w) \ ranked', NEW y \in ranked'
               PROVE  w.position[x] < w.position[y]
    BY <1>1 DEF RankedBehindUnranked
  <2>1. CASE y = t
    <3>1. x # t /\ w.position[x] <= w.position[t]
      BY <1>1
    <3> QED
      BY <1>6, <2>1, <3>1
  <2>2. CASE y # t
    BY <1>1, <2>2 DEF HInv, RankedBehindUnranked
  <2> QED
    BY <2>1, <2>2
<1>8. RanksDescend'
  <2> SUFFICES ASSUME NEW x \in ranked', NEW y \in ranked', <<x, y>> \in w.deps
               PROVE  upward'[x] > upward'[y]
    BY <1>1 DEF RanksDescend
  <2>1. x \in Tasks(w) /\ y \in Tasks(w) /\ w.position[x] < w.position[y]
    BY <1>1, <1>2, <1>6
  <2>2. CASE y = t
    <3>1. x # t
      BY <1>6, <2>1, <2>2
    <3>2. w.position[t] < w.position[x]
      BY <1>1, <3>1 DEF HInv, RankedBehindUnranked
    <3> QED
      BY <1>6, <2>1, <2>2, <3>2
  <2>3. CASE y # t /\ x = t
    <3>1. y \in Successors(w, t)
      BY <2>1, <2>3 DEF Successors
    <3> QED
      BY <1>1, <1>2, <1>4, <2>1, <2>3, <3>1
  <2>4. CASE y # t /\ x # t
    <3>1. upward[x] > upward[y]
      BY <1>1, <2>4 DEF HInv, RanksDescend
    <3> QED
      BY <1>1, <1>2, <2>1, <2>4, <3>1
  <2> QED
    BY <2>2, <2>3, <2>4
<1>9. /\ NodesDisjoint' /\ RanksBeforeInsertions' /\ ScheduledInOrder'
      /\ MemoryRespected' /\ EndsWithReason'
  BY <1>1 DEF HInv, NodesDisjoint, RanksBeforeInsertions, ScheduledInOrder,
              MemoryRespected, EndsWithReason
<1> QED
  BY <1>5, <1>7, <1>8, <1>9 DEF HInv

LEMMA SortKeepsHInv == HInv /\ Sort => HInv'
<1> SUFFICES ASSUME HInv, Sort PROVE HInv'
  OBVIOUS
<1>1. /\ phase = "rank" /\ ranked = Tasks(w)
      /\ order' \in PriorityLists
      /\ phase' = "insert"
      /\ UNCHANGED <<w, s, upward, ranked, next>>
  BY DEF Sort
<1>2. /\ order' \in Bijection(1 .. w.size, Tasks(w))
      /\ \A i, j \in 1 .. w.size : i < j => upward[order'[i]] >= upward[order'[j]]
  BY <1>1 DEF PriorityLists
<1>3. TypeOK'
  BY <1>1, <1>2 DEF HInv, TypeOK
<1>4. NodesDisjoint' /\ RankedBehindUnranked' /\ RanksDescend' /\ MemoryRespected'
  BY <1>1 DEF HInv, NodesDisjoint, RankedBehindUnranked, RanksDescend, MemoryRespected
<1>5. RanksBeforeInsertions'
  BY <1>1, <1>2 DEF RanksBeforeInsertions
<1>6. ScheduledInOrder'
  <2>1. next = 1 /\ \A t \in Tasks(w) : ~Scheduled(s, t)
    BY <1>1 DEF HInv, RanksBeforeInsertions
  <2>2. \A i \in 1 .. w.size : order'[i] \in Tasks(w)
    BY <1>2 DEF Bijection, Injection
  <2>3. \A i \in 1 .. w.size : ~(i < 1)
    OBVIOUS
  <2> QED
    BY <1>1, <2>1, <2>2, <2>3 DEF ScheduledInOrder
<1>7. EndsWithReason'
  BY <1>1 DEF EndsWithReason
<1> QED
  BY <1>3, <1>4, <1>5, <1>6, <1>7 DEF HInv

\* The predecessors of the next task stand in front of it in the list.
LEMMA NextIsReady ==
    ASSUME HInv, phase = "insert", next <= w.size
    PROVE  /\ order[next] \in Tasks(w)
           /\ PredecessorsScheduled(w, s, order[next])
           /\ ~Scheduled(s, order[next])
<1>1. /\ next \in 1 .. w.size
      /\ order \in [1 .. w.size -> Tasks(w)]
      /\ \A t \in Tasks(w) : \E i \in 1 .. w.size : order[i] = t
      /\ upward \in [Tasks(w) -> Nat]
      /\ ranked = Tasks(w)
  <2>1. TypeOK /\ RanksBeforeInsertions /\ w.size \in Nat
    BY DEF HInv, TypeOK, IsWorkflow
  <2> QED
    BY <2>1 DEF TypeOK, RanksBeforeInsertions, Bijection, Injection, Surjection
<1>2. order[next] \in Tasks(w)
  BY <1>1
<1>3. \A i \in 1 .. w.size : Scheduled(s, order[i]) <=> i < next
  BY DEF HInv, ScheduledInOrder
<1>4. ASSUME NEW p \in Predecessors(w, order[next]) PROVE Scheduled(s, p)
  <2>1. p \in Tasks(w) /\ <<p, order[next]>> \in w.deps
    BY <1>4 DEF Predecessors
  <2>2. upward[p] > upward[order[next]]
    BY <1>1, <1>2, <2>1 DEF HInv, RanksDescend
  <2>3. PICK i \in 1 .. w.size : order[i] = p
    BY <1>1, <2>1
  <2>4. next < i => upward[order[next]] >= upward[p]
    BY <1>1, <2>3 DEF HInv, RanksBeforeInsertions
  <2>5. upward[p] \in Nat /\ upward[order[next]] \in Nat
    BY <1>1, <1>2, <2>1
  <2>6. i < next
    BY <1>1, <2>2, <2>3, <2>4, <2>5
  <2> QED
    BY <1>3, <2>3, <2>6
<1>5. ~Scheduled(s, order[next])
  BY <1>1, <1>3
<1> QED
  BY <1>2, <1>4, <1>5 DEF PredecessorsScheduled

LEMMA InsertNextKeepsHInv == HInv /\ InsertNext => HInv'
<1> SUFFICES ASSUME HInv, InsertNext PROVE HInv'
  OBVIOUS
<1> DEFINE t == order[next]
<1>1. /\ phase = "insert" /\ next <= w.size /\ next' = next + 1
      /\ UNCHANGED <<w, upward, ranked, order, phase>>
  BY DEF InsertNext
<1>2. PICK n \in CandidateNodes(w, s, t) : s' = InsertIntoNode(w, s, t, n)
  BY DEF InsertNext
<1>3. t \in Tasks(w)
  BY <1>1, NextIsReady
<1>4. /\ IsWorkflow(w) /\ s \in Schedules(w)
      /\ \A m \in Nodes : Disjoint(s.node[m])
      /\ w.size \in Nat /\ next \in 1 .. w.size + 1
      /\ order \in Bijection(1 .. w.size, Tasks(w))
  BY <1>1 DEF HInv, TypeOK, NodesDisjoint, IsWorkflow
<1>5. n \in Nodes
  BY DEF CandidateNodes, NodesWithMemory
<1> HIDE DEF t
<1>6. /\ s' \in Schedules(w)
      /\ s'.useMemory = s.useMemory
      /\ \A m \in Nodes : Disjoint(s'.node[m])
  <2> DEFINE r == InsertIntoNode(w, s, t, n)
  <2>1. /\ r \in Schedules(w)
        /\ r.useMemory = s.useMemory
        /\ r.original = Append(s.original, t)
        /\ r.task = [s.task EXCEPT ![t] = Append(s.task[t], NewInterval(w, s, t, n))]
        /\ r.node = [s.node EXCEPT ![n] =
                        InsertAt(s.node[n], SlotOn(w, s, t, n).at, NewInterval(w, s, t, n))]
        /\ \A m \in Nodes : Disjoint(r.node[m])
    BY <1>3, <1>4, <1>5, InsertIntoNodeProperties
  <2> HIDE DEF r
  <2>2. s' = r
    BY <1>2 DEF r
  <2> QED
    BY <2>1, <2>2
<1>7. ASSUME NEW u \in Tasks(w)
      PROVE  /\ Scheduled(s', u) <=> Scheduled(s, u) \/ u = t
             /\ \A k \in Indices(s'.task[u]) :
                    \/ k \in Indices(s.task[u]) /\ s'.task[u][k] = s.task[u][k]
                    \/ u = t /\ s'.task[u][k].node = n
  <2> DEFINE r == InsertIntoNode(w, s, t, n)
  <2>1. /\ Scheduled(r, u) <=> Scheduled(s, u) \/ u = t
        /\ u # t => r.task[u] = s.task[u]
        /\ Len(r.task[t]) = Len(s.task[t]) + 1
        /\ \A k \in Indices(r.task[u]) :
               \/ k \in Indices(s.task[u]) /\ r.task[u][k] = s.task[u][k]
               \/ u = t /\ r.task[u][k].node = n
    BY <1>3, <1>4, <1>5, InsertIntoNodeIntervals
  <2> HIDE DEF r
  <2>2. s' = r
    BY <1>2 DEF r
  <2> QED
    BY <2>1, <2>2
<1>8. TypeOK'
  BY <1>1, <1>4, <1>6 DEF HInv, TypeOK
<1>9. NodesDisjoint'
  BY <1>6 DEF NodesDisjoint
<1>10. RankedBehindUnranked' /\ RanksDescend' /\ RanksBeforeInsertions' /\ EndsWithReason'
  BY <1>1 DEF HInv, RankedBehindUnranked, RanksDescend, RanksBeforeInsertions, EndsWithReason
<1>11. ScheduledInOrder'
  <2> SUFFICES ASSUME NEW i \in 1 .. w.size
               PROVE  Scheduled(s', order[i]) <=> i < next + 1
    BY <1>1 DEF ScheduledInOrder
  <2>1. order[i] \in Tasks(w) /\ (order[i] = t <=> i = next)
    BY <1>1, <1>4 DEF t, Bijection, Injection, IsInjective
  <2>2. Scheduled(s, order[i]) <=> i < next
    BY <1>1 DEF HInv, ScheduledInOrder
  <2>3. i < next + 1 <=> i < next \/ i = next
    BY <1>4
  <2> QED
    BY <1>7, <2>1, <2>2, <2>3
<1>12. MemoryRespected'
  <2> SUFFICES ASSUME s.useMemory, NEW u \in Tasks(w), NEW k \in Indices(s'.task[u])
               PROVE  EnoughMemory(s'.task[u][k].node, w.memory[u])
    BY <1>1, <1>6 DEF MemoryRespected
  <2>1. EnoughMemory(n, w.memory[t])
    BY <1>2 DEF CandidateNodes, NodesWithMemory
  <2>2. CASE k \in Indices(s.task[u]) /\ s'.task[u][k] = s.task[u][k]
    BY <2>2 DEF HInv, MemoryRespected
  <2>3. CASE u = t /\ s'.task[u][k].node = n
    BY <2>1, <2>3
  <2> QED
    BY <1>7, <2>2, <2>3
<1> QED
  BY <1>8, <1>9, <1>10, <1>11, <1>12 DEF HInv

\* HEFT only gives up for lack of memory.
LEMMA ThrowKeepsHInv == HInv /\ Throw => HInv'
<1> SUFFICES ASSUME HInv, Throw PROVE HInv'
  OBVIOUS
<1> DEFINE t == order[next]
<1>1. /\ phase = "insert" /\ next <= w.size
      /\ CandidateNodes(w, s, t) # {} => ~PredecessorsScheduled(w, s, t)
      /\ phase' = IF CandidateNodes(w, s, t) = {} THEN "no_memory" ELSE "out_of_range"
      /\ UNCHANGED <<w, s, upward, ranked, order, next>>
  BY DEF Throw
<1>2. t \in Tasks(w) /\ PredecessorsScheduled(w, s, t)
  BY <1>1, NextIsReady
<1> HIDE DEF t
<1>3. CandidateNodes(w, s, t) = {} /\ phase' = "no_memory"
  BY <1>1, <1>2
<1>4. NodesWithMemory(w.memory[t]) = {}
  <2>1. 0 \in Nodes
    BY ClusterAssumption DEF Nodes
  <2> QED
    BY <1>3, <2>1 DEF CandidateNodes
<1>5. EndsWithReason'
  BY <1>1, <1>2, <1>3, <1>4 DEF EndsWithReason
<1>6. TypeOK'
  BY <1>1, <1>3 DEF HInv, TypeOK, Outcomes
<1>7. NodesDisjoint' /\ RankedBehindUnranked' /\ RanksDescend' /\ MemoryRespected'
  BY <1>1 DEF HInv, NodesDisjoint, RankedBehindUnranked, RanksDescend, MemoryRespected
<1>8. RanksBeforeInsertions' /\ ScheduledInOrder'
  BY <1>1, <1>3 DEF HInv, RanksBeforeInsertions, ScheduledInOrder
<1> QED
  BY <1>5, <1>6, <1>7, <1>8 DEF HInv

LEMMA ReturnKeepsHInv == HInv /\ Return => HInv'
<1> SUFFICES ASSUME HInv, Return PROVE HInv'
  OBVIOUS
<1>1. /\ phase = "insert" /\ next > w.size /\ phase' = "done"
      /\ UNCHANGED <<w, s, upward, ranked, order, next>>
  BY DEF Return
<1>2. TypeOK' /\ EndsWithReason'
  BY <1>1 DEF HInv, TypeOK, Outcomes, EndsWithReason
<1>3. NodesDisjoint' /\ RankedBehindUnranked' /\ RanksDescend' /\ MemoryRespected'
  BY <1>1 DEF HInv, NodesDisjoint, RankedBehindUnranked, RanksDescend, MemoryRespected
<1>4. RanksBeforeInsertions' /\ ScheduledInOrder'
  BY <1>1 DEF HInv, RanksBeforeInsertions, ScheduledInOrder
<1> QED
  BY <1>2, <1>3, <1>4 DEF HInv

LEMMA StepKeepsHInv == HInv /\ [Next]_vars => HInv'
<1> SUFFICES ASSUME HInv, [Next]_vars PROVE HInv'
  OBVIOUS
<1>1. CASE \E t \in Tasks(w) : RankTask(t)
  BY <1>1, RankTaskKeepsHInv
<1>2. CASE Sort
  BY <1>2, SortKeepsHInv
<1>3. CASE InsertNext
  BY <1>3, InsertNextKeepsHInv
<1>4. CASE Throw
  BY <1>4, ThrowKeepsHInv
<1>5. CASE Return
  BY <1>5, ReturnKeepsHInv
<1>6. CASE UNCHANGED vars
  <2>1. UNCHANGED <<w, s, upward, ranked, order, next, phase>>
    BY <1>6 DEF vars
  <2>2. TypeOK' /\ NodesDisjoint' /\ RankedBehindUnranked' /\ RanksDescend'
    BY <2>1 DEF HInv, TypeOK, NodesDisjoint, RankedBehindUnranked, RanksDescend
  <2>3. RanksBeforeInsertions' /\ ScheduledInOrder' /\ MemoryRespected' /\ EndsWithReason'
    BY <2>1 DEF HInv, RanksBeforeInsertions, ScheduledInOrder, MemoryRespected, EndsWithReason
  <2> QED
    BY <2>2, <2>3 DEF HInv
<1> QED
  BY <1>1, <1>2, <1>3, <1>4, <1>5, <1>6 DEF Next

\* The strengthened invariant holds in every reachable state of heft.
THEOREM HeftInvariance == Spec => []HInv
<1> QED
  BY InitEstablishesHInv, StepKeepsHInv, PTL DEF Spec

\* Every variable of heft keeps the type the code declares for it.
THEOREM HeftTypeCorrect == Spec => []TypeOK
<1>1. HInv => TypeOK
  BY DEF HInv
<1> QED
  BY <1>1, HeftInvariance, PTL

\* all_upward_ranks gives every task a higher rank than its successors.
THEOREM RanksAlwaysDescend == Spec => []RanksDescend
<1>1. HInv => RanksDescend
  BY DEF HInv
<1> QED
  BY <1>1, HeftInvariance, PTL

\* heft never asks for the intervals of an unscheduled predecessor.
THEOREM NeverAsksTooSoon == Spec => []NeverOutOfRange
<1>1. HInv => NeverOutOfRange
  BY DEF HInv, EndsWithReason, NeverOutOfRange
<1> QED
  BY <1>1, HeftInvariance, PTL

LEMMA HInvImpliesMemoryDecides == HInv => MemoryDecides
<1> SUFFICES ASSUME HInv, s.useMemory PROVE MemoryDecides
  BY DEF MemoryDecides
<1>1. \A t \in Tasks(w) : \A k \in Indices(s.task[t]) :
          EnoughMemory(s.task[t][k].node, w.memory[t])
  BY DEF HInv, MemoryRespected
<1>2. phase = "no_memory" => \E t \in Tasks(w) : NodesWithMemory(w.memory[t]) = {}
  BY DEF HInv, EndsWithReason
<1>3. ASSUME phase = "done", NEW t \in Tasks(w)
      PROVE  NodesWithMemory(w.memory[t]) # {}
  <2>1. /\ s.task[t] \in Seq(Interval)
        /\ next \in Int /\ next > w.size
        /\ order \in Bijection(1 .. w.size, Tasks(w))
        /\ \A i \in 1 .. w.size : Scheduled(s, order[i]) <=> i < next
    <3>1. TypeOK /\ ScheduledInOrder /\ EndsWithReason
      BY DEF HInv
    <3>2. s.task[t] \in Seq(Interval)
      BY <3>1 DEF TypeOK, Schedules
    <3> QED
      BY <1>3, <3>1, <3>2 DEF TypeOK, ScheduledInOrder, EndsWithReason
  <2>2. PICK i \in 1 .. w.size : order[i] = t
    BY <2>1 DEF Bijection, Surjection
  <2>3. w.size \in Nat
    BY DEF HInv, TypeOK, IsWorkflow
  <2>4. s.task[t] # << >>
    BY <2>1, <2>2, <2>3 DEF Scheduled
  <2>5. 1 \in Indices(s.task[t]) /\ s.task[t][1] \in Interval
    BY <2>1, <2>4 DEF Indices
  <2>6. s.task[t][1].node \in Nodes
    BY <2>5 DEF Interval
  <2> QED
    BY <1>1, <2>5, <2>6 DEF NodesWithMemory
<1> QED
  BY <1>1, <1>2, <1>3 DEF MemoryDecides

\* With -m every placed task fits its node, and heft gives up exactly on the
\* workflows with a task that fits nowhere.
THEOREM MemoryAlwaysDecides == Spec => []MemoryDecides
<1> QED
  BY HeftInvariance, HInvImpliesMemoryDecides, PTL

----------------------------------------------------------------------------
\* r is the cost of the longest path from t.
Longest(t, r) ==
    /\ \E c \in PathsFrom(t) : r = PathCost(c)
    /\ \A c \in PathsFrom(t) : PathCost(c) <= r

\* The positions of the tasks, as a reason for steps about paths.
Positioned ==
    /\ w.position \in [Tasks(w) -> Int]
    /\ \A t, u \in Tasks(w) : w.position[t] = w.position[u] => t = u
    /\ \A p, t \in Tasks(w) : <<p, t>> \in w.deps => w.position[p] < w.position[t]

LEMMA PositionsProperty == ASSUME IsWorkflow(w) PROVE Positioned
<1>1. \A t \in Tasks(w) : t \in Int
  BY DEF Tasks
<1>2. w.position \in [Tasks(w) -> Tasks(w)]
  BY DEF IsWorkflow
<1>3. w.position \in [Tasks(w) -> Int]
  BY <1>1, <1>2
<1> QED
  BY <1>3 DEF IsWorkflow, Positioned

LEMMA CostsNatural ==
    ASSUME IsWorkflow(w)
    PROVE  \A u \in Tasks(w) : /\ WorkCost[u] = w.workload[u] * BandwidthSum /\ WorkCost[u] \in Nat
                               /\ DataCost[u] = DataTransfer(w, u) * PerformanceSum /\ DataCost[u] \in Nat
                               /\ RankCost(w, BandwidthSum, PerformanceSum, u) = WorkCost[u] + DataCost[u]
<1>1. BandwidthSum \in Nat \ {0} /\ PerformanceSum \in Nat
  BY ClusterSumsPositive
<1> QED
  BY <1>1, RankCostType DEF WorkCost, DataCost, RankCost

LEMMA SumsOfCosts ==
    ASSUME IsWorkflow(w), NEW c \in SUBSET Tasks(w)
    PROVE  /\ PathCost(c) = SumOver(WorkCost, c) + SumOver(DataCost, Followed(c))
           /\ SumOver(WorkCost, c) \in Nat /\ SumOver(DataCost, c) \in Nat
           /\ \A t \in c : /\ SumOver(WorkCost, c) = WorkCost[t] + SumOver(WorkCost, c \ {t})
                           /\ SumOver(DataCost, c) = DataCost[t] + SumOver(DataCost, c \ {t})
<1>1. IsFiniteSet(c)
  BY TasksFinite, FS_Subset
<1>2. \A u \in c : WorkCost[u] \in Nat /\ DataCost[u] \in Nat /\ WorkCost[u] \in Int /\ DataCost[u] \in Int
  BY CostsNatural
<1>3. SumOver(WorkCost, c) \in Nat /\ SumOver(DataCost, c) \in Nat
  BY <1>1, <1>2, SumOverNat
<1>4. \A t \in c : /\ SumOver(WorkCost, c) = WorkCost[t] + SumOver(WorkCost, c \ {t})
                   /\ SumOver(DataCost, c) = DataCost[t] + SumOver(DataCost, c \ {t})
  BY <1>1, <1>2, SumOverElement
<1>5. PathCost(c) = SumOver(WorkCost, c) + SumOver(DataCost, Followed(c))
  BY DEF PathCost, SumFunctionOnSet, FoldFunctionOnSet, SumOver, MapThenSumSet
<1> QED
  BY <1>3, <1>4, <1>5

LEMMA PathCostNatural ==
    ASSUME IsWorkflow(w), NEW c \in SUBSET Tasks(w)
    PROVE  PathCost(c) \in Nat
<1>1. Followed(c) \in SUBSET Tasks(w)
  BY DEF Followed
<1> QED
  BY <1>1, SumsOfCosts

\* A path without its first task costs less by what this task adds to the rank.
LEMMA PathCostStep ==
    ASSUME IsWorkflow(w), NEW c \in SUBSET Tasks(w), NEW t \in c,
           \A u \in c : w.position[t] <= w.position[u], c # {t}
    PROVE  PathCost(c) = WorkCost[t] + DataCost[t] + PathCost(c \ {t})
<1> DEFINE rest == c \ {t}
<1>1. Positioned
  BY PositionsProperty
<1>2. \A u \in c : w.position[u] \in Int
  BY <1>1 DEF Positioned
<1>3. t \in Followed(c)
  <2>1. PICK u \in rest : TRUE
    OBVIOUS
  <2>2. w.position[t] < w.position[u]
    BY <1>1, <1>2, <2>1 DEF Positioned
  <2> QED
    BY <2>2 DEF Followed
<1>4. Followed(c) \ {t} = Followed(rest)
  <2>1. ASSUME NEW v \in Followed(c) \ {t} PROVE v \in Followed(rest)
    <3>1. PICK x \in c : w.position[v] < w.position[x]
      BY <2>1 DEF Followed
    <3>2. v \in rest /\ x # t
      BY <1>2, <2>1, <3>1 DEF Followed
    <3> QED
      BY <3>1, <3>2 DEF Followed
  <2>2. ASSUME NEW v \in Followed(rest) PROVE v \in Followed(c) \ {t}
    BY <2>2 DEF Followed
  <2> QED
    BY <2>1, <2>2
<1>5. Followed(c) \in SUBSET Tasks(w) /\ Followed(rest) \in SUBSET Tasks(w) /\ rest \in SUBSET Tasks(w)
  BY DEF Followed
<1>6. WorkCost[t] \in Nat /\ DataCost[t] \in Nat
  BY CostsNatural
<1>7. /\ PathCost(c) = SumOver(WorkCost, c) + SumOver(DataCost, Followed(c))
      /\ PathCost(rest) = SumOver(WorkCost, rest) + SumOver(DataCost, Followed(rest))
      /\ SumOver(WorkCost, rest) \in Nat /\ SumOver(DataCost, Followed(rest)) \in Nat
  BY <1>5, SumsOfCosts
<1>8. SumOver(WorkCost, c) = WorkCost[t] + SumOver(WorkCost, rest)
  BY SumsOfCosts
<1>9. SumOver(DataCost, Followed(c)) = DataCost[t] + SumOver(DataCost, Followed(rest))
  BY <1>3, <1>4, <1>5, SumsOfCosts
<1> QED
  BY <1>6, <1>7, <1>8, <1>9

\* A path goes on with a path from one of the successors of its first task.
LEMMA PathShortened ==
    ASSUME IsWorkflow(w), NEW t \in Tasks(w), NEW c \in PathsFrom(t), c # {t}
    PROVE  \E u \in Successors(w, t) :
               /\ c \ {t} \in PathsFrom(u)
               /\ PathCost(c) = WorkCost[t] + DataCost[t] + PathCost(c \ {t})
<1> DEFINE rest == c \ {t}
           pos == w.position
           f == [u \in rest |-> pos[u]]
<1>1. Positioned
  BY PositionsProperty
<1>2. /\ c \in SUBSET Tasks(w) /\ t \in c
      /\ \A u \in c : pos[t] <= pos[u]
      /\ \A a, b \in c : \/ pos[a] >= pos[b]
                         \/ \E x \in c : pos[a] < pos[x] /\ pos[x] < pos[b]
                         \/ <<a, b>> \in w.deps
  BY DEF PathsFrom
<1>3. \A u \in c : pos[u] \in Int
  BY <1>1, <1>2 DEF Positioned
<1>4. rest # {} /\ IsFiniteSet(rest) /\ rest \in SUBSET Int /\ f \in [rest -> Int]
  <2>1. rest # {} /\ rest \in SUBSET Tasks(w)
    BY <1>2
  <2>2. IsFiniteSet(rest)
    BY <2>1, TasksFinite, FS_Subset
  <2>3. rest \in SUBSET Int
    BY <2>1 DEF Tasks
  <2> QED
    BY <1>3, <2>1, <2>2, <2>3
<1>5. PICK u \in rest : \A v \in rest : f[u] < f[v] \/ (f[u] = f[v] /\ u <= v)
  <2> HIDE DEF f, rest
  <2> QED
    BY <1>4, LeastExists
<1>6. \A v \in rest : pos[u] <= pos[v]
  BY <1>3, <1>5
<1>7. pos[t] < pos[u] /\ u \in Tasks(w)
  BY <1>1, <1>2, <1>3 DEF Positioned
<1>8. <<t, u>> \in w.deps
  <2>1. ~ \E x \in c : pos[t] < pos[x] /\ pos[x] < pos[u]
    BY <1>2, <1>3, <1>6
  <2> QED
    BY <1>2, <1>3, <1>7, <2>1
<1>9. u \in Successors(w, t)
  BY <1>7, <1>8 DEF Successors
<1>10. rest \in PathsFrom(u)
  <2> SUFFICES ASSUME NEW a \in rest, NEW b \in rest, ~(pos[a] >= pos[b]), <<a, b>> \notin w.deps
               PROVE  \E x \in rest : pos[a] < pos[x] /\ pos[x] < pos[b]
    BY <1>2, <1>6 DEF PathsFrom
  <2>1. PICK x \in c : pos[a] < pos[x] /\ pos[x] < pos[b]
    BY <1>2
  <2>2. x # t
    BY <1>2, <1>3, <2>1
  <2> QED
    BY <2>1, <2>2
<1>11. PathCost(c) = WorkCost[t] + DataCost[t] + PathCost(rest)
  <2>1. c # {t}
    OBVIOUS
  <2> QED
    BY <1>2, <2>1, PathCostStep
<1> QED
  BY <1>9, <1>10, <1>11

\* A task in front of a path from one of its successors makes a path.
LEMMA PathExtended ==
    ASSUME IsWorkflow(w), NEW t \in Tasks(w), NEW u \in Successors(w, t), NEW d \in PathsFrom(u)
    PROVE  /\ d \cup {t} \in PathsFrom(t)
           /\ PathCost(d \cup {t}) = WorkCost[t] + DataCost[t] + PathCost(d)
<1> DEFINE c == d \cup {t}
           pos == w.position
<1>1. Positioned
  BY PositionsProperty
<1>2. /\ d \in SUBSET Tasks(w) /\ u \in d
      /\ \A v \in d : pos[u] <= pos[v]
      /\ \A a, b \in d : \/ pos[a] >= pos[b]
                         \/ \E x \in d : pos[a] < pos[x] /\ pos[x] < pos[b]
                         \/ <<a, b>> \in w.deps
  BY DEF PathsFrom
<1>3. \A v \in c : pos[v] \in Int
  BY <1>1, <1>2 DEF Positioned
<1>4. <<t, u>> \in w.deps /\ u \in Tasks(w)
  BY DEF Successors
<1>5. pos[t] < pos[u]
  BY <1>1, <1>4 DEF Positioned
<1>6. \A v \in d : pos[t] < pos[v]
  BY <1>2, <1>3, <1>5
<1>7. t \notin d /\ \A v \in c : pos[t] <= pos[v]
  BY <1>3, <1>6
<1>8. ASSUME NEW a \in c, NEW b \in c
      PROVE  \/ pos[a] >= pos[b]
             \/ \E x \in c : pos[a] < pos[x] /\ pos[x] < pos[b]
             \/ <<a, b>> \in w.deps
  <2>1. CASE b = t
    BY <1>3, <1>7, <2>1
  <2>2. CASE a = t /\ b \in d
    <3>1. CASE b = u
      BY <1>4, <2>2, <3>1
    <3>2. CASE b # u
      <4>1. pos[u] < pos[b]
        <5>1. pos[u] # pos[b]
          BY <1>1, <1>2, <1>4, <2>2, <3>2 DEF Positioned
        <5> QED
          BY <1>2, <1>3, <2>2, <5>1
      <4> QED
        BY <1>2, <1>5, <2>2, <4>1
    <3> QED
      BY <3>1, <3>2
  <2>3. CASE a \in d /\ b \in d
    BY <1>2, <2>3
  <2> QED
    BY <2>1, <2>2, <2>3
<1>9. c \in PathsFrom(t)
  BY <1>2, <1>7, <1>8 DEF PathsFrom
<1>10. PathCost(c) = WorkCost[t] + DataCost[t] + PathCost(c \ {t})
  <2>1. c # {t} /\ c \in SUBSET Tasks(w) /\ t \in c
    BY <1>2, <1>7
  <2> QED
    BY <1>7, <2>1, PathCostStep
<1>11. c \ {t} = d
  BY <1>7
<1> QED
  BY <1>9, <1>10, <1>11

LEMMA PathAlone ==
    ASSUME IsWorkflow(w), NEW t \in Tasks(w)
    PROVE  {t} \in PathsFrom(t) /\ PathCost({t}) = WorkCost[t]
<1>1. w.position[t] \in Int
  BY PositionsProperty DEF Positioned
<1>2. {t} \in PathsFrom(t)
  BY <1>1 DEF PathsFrom
<1>3. Followed({t}) = {}
  BY <1>1 DEF Followed
<1>4. {t} \in SUBSET Tasks(w) /\ {t} \ {t} = {} /\ t \in {t}
  OBVIOUS
<1>5. PathCost({t}) = WorkCost[t] + SumOver(WorkCost, {}) + SumOver(DataCost, {})
  <2>1. PathCost({t}) = SumOver(WorkCost, {t}) + SumOver(DataCost, Followed({t}))
    BY <1>4, SumsOfCosts
  <2>2. SumOver(WorkCost, {t}) = WorkCost[t] + SumOver(WorkCost, {t} \ {t})
    BY <1>4, SumsOfCosts
  <2> QED
    BY <1>3, <1>4, <2>1, <2>2
<1>6. SumOver(WorkCost, {}) = 0 /\ SumOver(DataCost, {}) = 0
  BY SumOverEmpty
<1>7. WorkCost[t] \in Nat
  BY CostsNatural
<1> QED
  BY <1>2, <1>5, <1>6, <1>7

LEMMA LongestIsMax ==
    ASSUME IsWorkflow(w), NEW t \in Tasks(w), NEW r \in Nat
    PROVE  Longest(t, r) <=> r = Max({PathCost(c) : c \in PathsFrom(t)})
<1> DEFINE P == PathsFrom(t)
           cost == [c \in P |-> PathCost(c)]
           S == {cost[c] : c \in P}
<1>1. P \in SUBSET (SUBSET Tasks(w))
  BY DEF PathsFrom
<1>2. IsFiniteSet(P)
  BY <1>1, TasksFinite, FS_SUBSET, FS_Subset
<1>3. P # {}
  BY PathAlone
<1>4. \A c \in P : cost[c] = PathCost(c) /\ cost[c] \in Int
  BY <1>1, PathCostNatural
<1>5. S = {PathCost(c) : c \in P}
  OBVIOUS
<1>6. IsFiniteSet(S)
  <2>1. DOMAIN cost = P
    OBVIOUS
  <2> HIDE DEF P, cost
  <2> QED
    BY <1>2, <2>1, ImageFinite
<1>7. S \in SUBSET Int /\ S # {}
  BY <1>3, <1>4
<1>8. \A y : y \in S <=> \E c \in P : y = PathCost(c)
  BY <1>5
<1> HIDE DEF S, cost
<1>9. Max(S) \in S /\ \A y \in S : Max(S) >= y
  BY <1>6, <1>7, MaxProperty
<1>10. Longest(t, r) <=> r \in S /\ \A y \in S : y <= r
  <2>1. (\E c \in P : r = PathCost(c)) <=> r \in S
    BY <1>8
  <2>2. (\A c \in P : PathCost(c) <= r) <=> \A y \in S : y <= r
    BY <1>8
  <2> QED
    BY <2>1, <2>2 DEF Longest
<1>11. (r \in S /\ \A y \in S : y <= r) <=> r = Max(S)
  <2>1. Max(S) \in Int /\ \A y \in S : y \in Int
    BY <1>7, <1>9
  <2>2. ASSUME r \in S, \A y \in S : y <= r PROVE r = Max(S)
    <3>1. Max(S) <= r /\ Max(S) >= r
      BY <1>9, <2>2
    <3> QED
      BY <2>1, <3>1
  <2>3. ASSUME r = Max(S) PROVE r \in S /\ \A y \in S : y <= r
    BY <1>9, <2>1, <2>3
  <2> QED
    BY <2>2, <2>3
<1> QED
  BY <1>5, <1>10, <1>11

\* What the longest paths from the successors say of those from a task.
LEMMA RankIsLongest ==
    ASSUME IsWorkflow(w), upward \in [Tasks(w) -> Nat], NEW t \in Tasks(w),
           \A c \in Successors(w, t) : Longest(c, upward[c])
    PROVE  Longest(t, UpwardRank(w, upward, BandwidthSum, PerformanceSum, t))
<1> DEFINE rank == UpwardRank(w, upward, BandwidthSum, PerformanceSum, t)
           cost == RankCost(w, BandwidthSum, PerformanceSum, t)
<1>1. BandwidthSum \in Nat \ {0} /\ PerformanceSum \in Nat
  BY ClusterSumsPositive
<1>2. /\ rank \in Nat
      /\ \A c \in Successors(w, t) : rank >= cost + upward[c]
      /\ Successors(w, t) # {} => \E c \in Successors(w, t) : rank = cost + upward[c]
      /\ Successors(w, t) = {} => rank = w.workload[t] * BandwidthSum
  BY <1>1, UpwardRankProperty
<1>3. /\ cost = WorkCost[t] + DataCost[t] /\ WorkCost[t] \in Nat /\ DataCost[t] \in Nat
      /\ WorkCost[t] = w.workload[t] * BandwidthSum
  BY CostsNatural
<1> HIDE DEF rank, cost
<1>4. \A c \in Successors(w, t) : upward[c] \in Nat
  BY DEF Successors
<1>5. {t} \in PathsFrom(t) /\ PathCost({t}) = WorkCost[t]
  BY PathAlone
<1>6. ASSUME NEW c \in PathsFrom(t) PROVE PathCost(c) <= rank
  <2>1. CASE c = {t}
    <3>1. CASE Successors(w, t) = {}
      BY <1>2, <1>3, <1>5, <2>1, <3>1
    <3>2. CASE Successors(w, t) # {}
      <4>1. PICK u \in Successors(w, t) : rank = cost + upward[u]
        BY <1>2, <3>2
      <4> QED
        BY <1>2, <1>3, <1>4, <1>5, <2>1, <4>1
    <3> QED
      BY <3>1, <3>2
  <2>2. CASE c # {t}
    <3>1. PICK u \in Successors(w, t) :
              /\ c \ {t} \in PathsFrom(u)
              /\ PathCost(c) = WorkCost[t] + DataCost[t] + PathCost(c \ {t})
      BY <2>2, PathShortened
    <3>2. PathCost(c \ {t}) <= upward[u]
      BY <3>1 DEF Longest
    <3>3. PathCost(c \ {t}) \in Nat
      <4>1. c \ {t} \in SUBSET Tasks(w)
        BY <3>1 DEF PathsFrom
      <4> QED
        BY <4>1, PathCostNatural
    <3>4. rank >= cost + upward[u] /\ upward[u] \in Nat
      BY <1>2, <1>4
    <3> QED
      BY <1>2, <1>3, <3>1, <3>2, <3>3, <3>4
  <2> QED
    BY <2>1, <2>2
<1>7. \E c \in PathsFrom(t) : rank = PathCost(c)
  <2>1. CASE Successors(w, t) = {}
    BY <1>2, <1>3, <1>5, <2>1
  <2>2. CASE Successors(w, t) # {}
    <3>1. PICK u \in Successors(w, t) : rank = cost + upward[u]
      BY <1>2, <2>2
    <3>2. PICK d \in PathsFrom(u) : upward[u] = PathCost(d)
      BY DEF Longest
    <3>3. /\ d \cup {t} \in PathsFrom(t)
          /\ PathCost(d \cup {t}) = WorkCost[t] + DataCost[t] + PathCost(d)
      BY PathExtended
    <3> QED
      BY <1>3, <3>1, <3>2, <3>3
  <2> QED
    BY <2>1, <2>2
<1>8. Longest(t, rank)
  BY <1>6, <1>7 DEF Longest
<1> QED
  BY <1>8 DEF rank

LEMMA UpwardInit == Init => UpwardIsLongestPath
BY DEF Init, UpwardIsLongestPath

LEMMA UpwardStep == HInv /\ UpwardIsLongestPath /\ [Next]_vars => UpwardIsLongestPath'
<1> SUFFICES ASSUME HInv, UpwardIsLongestPath, [Next]_vars PROVE UpwardIsLongestPath'
  OBVIOUS
<1>1. CASE UNCHANGED <<w, upward, ranked>>
  <2>1. \A u : {PathCost(c) : c \in PathsFrom(u)}' = {PathCost(c) : c \in PathsFrom(u)}
    BY <1>1 DEF PathsFrom, PathCost, WorkCost, DataCost, Followed
  <2> QED
    BY <1>1, <2>1 DEF UpwardIsLongestPath
<1>2. ASSUME NEW t \in Tasks(w), RankTask(t) PROVE UpwardIsLongestPath'
  <2> DEFINE rank == UpwardRank(w, upward, BandwidthSum, PerformanceSum, t)
  <2>1. /\ t \notin ranked
        /\ \A u \in Tasks(w) \ ranked : w.position[u] <= w.position[t]
        /\ upward' = [upward EXCEPT ![t] = rank]
        /\ ranked' = ranked \cup {t}
        /\ w' = w
    BY <1>2 DEF RankTask
  <2>2. IsWorkflow(w) /\ upward \in [Tasks(w) -> Nat] /\ ranked \subseteq Tasks(w)
    BY DEF HInv, TypeOK
  <2>3. \A u \in ranked : Longest(u, upward[u])
    BY <2>2, LongestIsMax DEF UpwardIsLongestPath
  <2>4. Successors(w, t) \subseteq ranked
    <3> SUFFICES ASSUME NEW c \in Successors(w, t), c \notin ranked PROVE FALSE
      OBVIOUS
    <3>1. c \in Tasks(w) /\ <<t, c>> \in w.deps
      BY DEF Successors
    <3>2. w.position[t] < w.position[c] /\ w.position[t] \in Int /\ w.position[c] \in Int
      BY <2>2, <3>1, PositionsProperty DEF Positioned
    <3> QED
      BY <2>1, <3>1, <3>2
  <2>5. Longest(t, rank)
    BY <2>2, <2>3, <2>4, RankIsLongest
  <2>6. rank \in Nat
    <3>1. BandwidthSum \in Nat \ {0} /\ PerformanceSum \in Nat
      BY ClusterSumsPositive
    <3> QED
      BY <2>2, <3>1, UpwardRankProperty
  <2> HIDE DEF rank
  <2>7. \A u \in ranked' : upward'[u] = Max({PathCost(c) : c \in PathsFrom(u)})
    <3>1. ASSUME NEW u \in ranked' PROVE upward'[u] = Max({PathCost(c) : c \in PathsFrom(u)})
      <4>1. CASE u = t
        <5>1. upward'[u] = rank
          BY <2>1, <2>2, <4>1
        <5> QED
          BY <2>2, <2>5, <2>6, <4>1, <5>1, LongestIsMax
      <4>2. CASE u # t
        <5>1. u \in ranked /\ upward'[u] = upward[u]
          BY <2>1, <2>2, <3>1, <4>2
        <5> QED
          BY <5>1 DEF UpwardIsLongestPath
      <4> QED
        BY <4>1, <4>2
    <3> QED
      BY <3>1
  <2>8. \A u : {PathCost(c) : c \in PathsFrom(u)}' = {PathCost(c) : c \in PathsFrom(u)}
    BY <2>1 DEF PathsFrom, PathCost, WorkCost, DataCost, Followed
  <2> QED
    BY <2>7, <2>8 DEF UpwardIsLongestPath
<1>3. CASE Sort \/ InsertNext \/ Throw \/ Return
  BY <1>1, <1>3 DEF Sort, InsertNext, Throw, Return
<1>4. CASE UNCHANGED vars
  BY <1>1, <1>4 DEF vars
<1> QED
  BY <1>2, <1>3, <1>4 DEF Next

\* The upward rank of every task is the cost of the longest path from it to an
\* exit, for every workflow, topological order and cluster.
THEOREM UpwardAlwaysLongestPath == Spec => []UpwardIsLongestPath
<1> QED
  BY HeftInvariance, UpwardInit, UpwardStep, PTL DEF Spec

----------------------------------------------------------------------------
\* The operators ListScheduling brings along are those HEFT uses.
LEMMA SameOperators ==
    /\ \A useMemory : LS!NewSchedule(w, useMemory) = NewSchedule(w, useMemory)
    /\ \A t, n : LS!InsertIntoNode(w, s, t, n) = InsertIntoNode(w, s, t, n)
    /\ \A t : LS!PredecessorsScheduled(w, s, t) <=> PredecessorsScheduled(w, s, t)
    /\ LS!Tasks(w) = Tasks(w) /\ LS!Nodes = Nodes
<1>1. ASSUME NEW useMemory PROVE LS!NewSchedule(w, useMemory) = NewSchedule(w, useMemory)
  BY DEF Nodes, Tasks, NewSchedule, LS!Nodes, LS!Tasks, LS!NewSchedule
<1>2. ASSUME NEW t, NEW n PROVE LS!TaskReadyTime(w, s, t, n) = TaskReadyTime(w, s, t, n)
  BY Zenon DEF Nodes, ExactQuotient, DataTime, Tasks, Predecessors, DataTransfer, Indices, Scheduled, TransferCost, ArrivalTime, EarliestDataAvailable, TaskReadyTime, Max, Min, LS!Nodes, LS!ExactQuotient, LS!DataTime, LS!Tasks, LS!Predecessors, LS!DataTransfer, LS!Indices, LS!Scheduled, LS!TransferCost, LS!ArrivalTime, LS!EarliestDataAvailable, LS!TaskReadyTime, LS!Max, LS!Min
<1>3. ASSUME NEW t, NEW n PROVE LS!ComputationTime(w, t, n) = ComputationTime(w, t, n)
  BY Zenon DEF Nodes, ExactQuotient, Performance, WorkTime, ComputationTime, LS!Nodes, LS!ExactQuotient, LS!Performance, LS!WorkTime, LS!ComputationTime
<1>4. ASSUME NEW q, NEW ready, NEW length PROVE LS!Slot(q, ready, length) = Slot(q, ready, length)
  BY Zenon DEF Slot, FirstNotEndingBefore, FirstGapFrom, TotalFinishTime, Indices, Min, Max, Last, LS!Slot, LS!FirstNotEndingBefore, LS!FirstGapFrom, LS!TotalFinishTime, LS!Indices, LS!Min, LS!Max, LS!Last
<1>5. ASSUME NEW t, NEW n PROVE LS!SlotOn(w, s, t, n) = SlotOn(w, s, t, n)
  BY <1>2, <1>3, <1>4, Zenon DEF SlotOn, LS!SlotOn
<1>6. ASSUME NEW t, NEW n PROVE LS!NewInterval(w, s, t, n) = NewInterval(w, s, t, n)
  BY <1>3, <1>5, Zenon DEF NewInterval, LS!NewInterval
<1>7. ASSUME NEW q, NEW i, NEW e PROVE LS!InsertAt(q, i, e) = InsertAt(q, i, e)
  BY Zenon DEF InsertAt, LS!InsertAt
<1>8. ASSUME NEW t, NEW n PROVE LS!InsertIntoNode(w, s, t, n) = InsertIntoNode(w, s, t, n)
  BY <1>5, <1>6, <1>7, Zenon DEF InsertIntoNode, LS!InsertIntoNode
<1>9. ASSUME NEW t PROVE LS!PredecessorsScheduled(w, s, t) <=> PredecessorsScheduled(w, s, t)
  BY Zenon DEF PredecessorsScheduled, Predecessors, Tasks, Scheduled, LS!PredecessorsScheduled, LS!Predecessors, LS!Tasks, LS!Scheduled
<1>10. LS!Tasks(w) = Tasks(w) /\ LS!Nodes = Nodes
  BY Zenon DEF Tasks, Nodes, LS!Tasks, LS!Nodes
<1> QED
  BY <1>1, <1>8, <1>9, <1>10

LEMMA InitRefines == Init => LS!Init
BY SameOperators DEF Init, LS!Init

LEMMA StepRefines == HInv /\ [Next]_vars => [LS!Next]_LS!vars
<1> SUFFICES ASSUME HInv, [Next]_vars PROVE [LS!Next]_LS!vars
  OBVIOUS
<1>1. CASE InsertNext
  <2>1. /\ phase = "insert" /\ next <= w.size
        /\ PredecessorsScheduled(w, s, order[next])
        /\ UNCHANGED w
    BY <1>1 DEF InsertNext
  <2>2. PICK n \in CandidateNodes(w, s, order[next]) :
            s' = InsertIntoNode(w, s, order[next], n)
    BY <1>1 DEF InsertNext
  <2>3. n \in Nodes
    BY DEF CandidateNodes, NodesWithMemory
  <2>4. order[next] \in Tasks(w) /\ ~Scheduled(s, order[next])
    BY <2>1, NextIsReady
  <2>5. ~LS!OnNode(order[next], n)
    BY <2>4 DEF Scheduled, LS!OnNode, LS!Indices
  <2>6. LS!Place(order[next], n)
    BY <2>1, <2>2, <2>5, SameOperators DEF LS!Place
  <2> QED
    BY <2>3, <2>4, <2>6, SameOperators DEF LS!Next
<1>2. CASE \E t \in Tasks(w) : RankTask(t)
  BY <1>2 DEF RankTask, LS!vars
<1>3. CASE Sort \/ Throw \/ Return
  BY <1>3 DEF Sort, Throw, Return, LS!vars
<1>4. CASE UNCHANGED vars
  BY <1>4 DEF vars, LS!vars
<1> QED
  BY <1>1, <1>2, <1>3, <1>4 DEF Next

\* HEFT is a list scheduling algorithm: every insertion is one ListScheduling
\* allows, every other step leaves the schedule alone.
THEOREM HeftRefinesListScheduling == Spec => ImplementsListScheduling
<1> QED
  BY HeftInvariance, InitRefines, StepRefines, PTL DEF Spec, LS!Spec, ImplementsListScheduling
=============================================================================
