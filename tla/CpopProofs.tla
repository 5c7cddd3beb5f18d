----------------------------- MODULE CpopProofs -----------------------------
(***************************************************************************)
(* CPOP for every cluster, every set of workflows and both values of the   *)
(* memory flag.  Two arguments carry the proofs.  The ranks are tight:     *)
(* along some edge into, and out of, a task they differ by just the cost   *)
(* of the edge's source, so that some entry task has the highest priority  *)
(* and some successor of a task on the path shares it.  And the temporary  *)
(* edges are those whose source is not scheduled yet, so that the queue    *)
(* holds the tasks that are ready.                                         *)
(***************************************************************************)
EXTENDS Cpop, ScheduleProofs

NodesDisjoint == \A n \in Nodes : Disjoint(s.node[n])

Cost(t) == RankCost(w, BandwidthSum, PerformanceSum, t)

DownwardTight(done) ==
    \A t \in done :
        /\ \A p \in Predecessors(w, t) : p \in done /\ downward[t] >= Cost(p) + downward[p]
        /\ Predecessors(w, t) # {} =>
               \E p \in Predecessors(w, t) : downward[t] = Cost(p) + downward[p]

UpwardTight(done) ==
    \A t \in done :
        /\ \A c \in Successors(w, t) : c \in done /\ upward[t] >= Cost(t) + upward[c]
        /\ Successors(w, t) # {} =>
               \E c \in Successors(w, t) : upward[t] = Cost(t) + upward[c]

RanksTight ==
    /\ DownwardTight(IF phase = "rank_downward" THEN ranked ELSE Tasks(w))
    /\ IF phase = "rank_downward" THEN TRUE
       ELSE UpwardTight(IF phase = "rank_upward" THEN ranked ELSE Tasks(w))

PathBegins ==
    /\ phase \in {"rank_downward", "rank_upward"} => path = {}
    /\ phase = "path" => current \in path

NothingPlaced ==
    phase \in {"rank_downward", "rank_upward", "path"} =>
        incoming = w.deps /\ \A t \in Tasks(w) : ~Scheduled(s, t)

PredecessorsFirst ==
    \A t \in Tasks(w) : Scheduled(s, t) => PredecessorsScheduled(w, s, t)

IncomingLeft ==
    phase \in {"place", "done"} =>
        \A p, t \in Tasks(w) :
            <<p, t>> \in incoming <=> <<p, t>> \in w.deps /\ ~Scheduled(s, p)

CInv ==
    /\ TypeOK
    /\ NodesDisjoint
    /\ RanksTight
    /\ PathBegins
    /\ PathIsCritical
    /\ NothingPlaced
    /\ PredecessorsFirst
    /\ IncomingLeft
    /\ QueueInSync

----------------------------------------------------------------------------
LEMMA InitEstablishesCInv == Init => CInv
<1> SUFFICES ASSUME Init PROVE CInv
  OBVIOUS
<1>1. IsWorkflow(w)
  BY WorkflowsAssumption DEF Init
<1>2. PICK useMemory \in MemoryFlags : s = NewSchedule(w, useMemory)
  BY DEF Init
<1>3. useMemory \in BOOLEAN
  BY MemoryFlagsAssumption
<1>4. /\ s \in Schedules(w)
      /\ \A n \in Nodes : Disjoint(s.node[n])
      /\ \A t \in Tasks(w) : s.task[t] = << >>
  BY <1>2, <1>3, NewScheduleProperties
<1>5. TypeOK
  <2>1. 0 \in Nodes
    BY ClusterAssumption DEF Nodes
  <2> QED
    BY <1>1, <1>4, <2>1 DEF Init, TypeOK
<1>6. NodesDisjoint
  BY <1>4 DEF NodesDisjoint
<1>7. RanksTight /\ PathBegins /\ PathIsCritical
  BY DEF Init, RanksTight, DownwardTight, PathBegins, PathIsCritical
<1>8. \A t \in Tasks(w) : ~Scheduled(s, t)
  BY <1>4 DEF Scheduled
<1>9. NothingPlaced /\ PredecessorsFirst /\ IncomingLeft /\ QueueInSync
  BY <1>8 DEF Init, NothingPlaced, PredecessorsFirst, IncomingLeft, QueueInSync
<1> QED
  BY <1>5, <1>6, <1>7, <1>9 DEF CInv

----------------------------------------------------------------------------
\* The ranks.

LEMMA RankDownwardKeepsCInv ==
    ASSUME CInv, NEW t \in Tasks(w), RankDownward(t)
    PROVE  CInv'
<1> DEFINE rank == DownwardRank(w, downward, BandwidthSum, PerformanceSum, t)
<1>1. /\ phase = "rank_downward" /\ t \notin ranked
      /\ \A u \in Tasks(w) \ ranked : w.position[t] <= w.position[u]
      /\ downward' = [downward EXCEPT ![t] = rank]
      /\ ranked' = ranked \cup {t}
      /\ UNCHANGED <<w, s, upward, path, current, best, queue, incoming, phase>>
  BY DEF RankDownward
<1>2. /\ IsWorkflow(w) /\ downward \in [Tasks(w) -> Nat] /\ ranked \subseteq Tasks(w)
      /\ path = {}
  BY <1>1 DEF CInv, TypeOK, PathBegins
<1>3. BandwidthSum \in Nat \ {0} /\ PerformanceSum \in Nat
  BY ClusterSumsPositive
<1>4. /\ rank \in Nat
      /\ \A p \in Predecessors(w, t) : rank >= Cost(p) + downward[p]
      /\ Predecessors(w, t) # {} =>
             \E p \in Predecessors(w, t) : rank = Cost(p) + downward[p]
  BY <1>2, <1>3, DownwardRankProperty DEF Cost
<1> HIDE DEF rank
<1>5. TypeOK'
  BY <1>1, <1>2, <1>4 DEF CInv, TypeOK
<1>6. ASSUME NEW p \in Predecessors(w, t) PROVE p \in ranked
  <2>1. p \in Tasks(w) /\ w.position[p] < w.position[t]
    BY <1>2, <1>6 DEF Predecessors, IsWorkflow
  <2>2. w.position[p] \in Int /\ w.position[t] \in Int
    BY <1>2, <2>1, PositionType
  <2> QED
    BY <1>1, <2>1, <2>2
<1>7. DownwardTight(ranked)
  BY <1>1 DEF CInv, RanksTight
<1>8. ASSUME NEW u \in ranked'
      PROVE  /\ \A p \in Predecessors(w, u) :
                    p \in ranked' /\ downward'[u] >= Cost(p) + downward'[p]
             /\ Predecessors(w, u) # {} =>
                    \E p \in Predecessors(w, u) : downward'[u] = Cost(p) + downward'[p]
  <2>1. \A p \in Predecessors(w, u) : p \in ranked
    BY <1>1, <1>6, <1>7 DEF DownwardTight
  <2>2. \A p \in ranked : downward'[p] = downward[p]
    BY <1>1, <1>2
  <2>3. CASE u = t
    <3>1. downward'[u] = rank
      BY <1>1, <1>2, <2>3
    <3> QED
      BY <1>1, <1>4, <2>1, <2>2, <2>3, <3>1
  <2>4. CASE u # t
    <3>1. u \in ranked /\ downward'[u] = downward[u]
      BY <1>1, <2>2, <2>4
    <3> QED
      BY <1>1, <1>7, <2>1, <2>2, <3>1 DEF DownwardTight
  <2> QED
    BY <2>3, <2>4
<1>9. RanksTight'
  BY <1>1, <1>8 DEF RanksTight, DownwardTight, Cost
<1>10. PathBegins' /\ PathIsCritical'
  BY <1>1, <1>2 DEF PathBegins, PathIsCritical
<1>11. /\ NodesDisjoint' /\ NothingPlaced' /\ PredecessorsFirst'
       /\ IncomingLeft' /\ QueueInSync'
  BY <1>1 DEF CInv, NodesDisjoint, NothingPlaced, PredecessorsFirst, IncomingLeft, QueueInSync
<1> QED
  BY <1>5, <1>9, <1>10, <1>11 DEF CInv

LEMMA StartUpwardKeepsCInv == CInv /\ StartUpward => CInv'
<1> SUFFICES ASSUME CInv, StartUpward PROVE CInv'
  OBVIOUS
<1>1. /\ phase = "rank_downward" /\ ranked = Tasks(w)
      /\ ranked' = {} /\ phase' = "rank_upward"
      /\ UNCHANGED <<w, s, downward, upward, path, current, best, queue, incoming>>
  BY DEF StartUpward
<1>2. TypeOK'
  BY <1>1 DEF CInv, TypeOK
<1>3. RanksTight'
  BY <1>1 DEF CInv, RanksTight, DownwardTight, UpwardTight, Cost
<1>4. PathBegins' /\ PathIsCritical'
  BY <1>1 DEF CInv, PathBegins, PathIsCritical
<1>5. /\ NodesDisjoint' /\ NothingPlaced' /\ PredecessorsFirst'
      /\ IncomingLeft' /\ QueueInSync'
  BY <1>1 DEF CInv, NodesDisjoint, NothingPlaced, PredecessorsFirst, IncomingLeft, QueueInSync
<1> QED
  BY <1>2, <1>3, <1>4, <1>5 DEF CInv

LEMMA RankUpwardKeepsCInv ==
    ASSUME CInv, NEW t \in Tasks(w), RankUpward(t)
    PROVE  CInv'
<1> DEFINE rank == UpwardRank(w, upward, BandwidthSum, PerformanceSum, t)
<1>1. /\ phase = "rank_upward" /\ t \notin ranked
      /\ \A u \in Tasks(w) \ ranked : w.position[u] <= w.position[t]
      /\ upward' = [upward EXCEPT ![t] = rank]
      /\ ranked' = ranked \cup {t}
      /\ UNCHANGED <<w, s, downward, path, current, best, queue, incoming, phase>>
  BY DEF RankUpward
<1>2. /\ IsWorkflow(w) /\ upward \in [Tasks(w) -> Nat] /\ ranked \subseteq Tasks(w)
      /\ path = {}
  BY <1>1 DEF CInv, TypeOK, PathBegins
<1>3. BandwidthSum \in Nat \ {0} /\ PerformanceSum \in Nat
  BY ClusterSumsPositive
<1>4. /\ rank \in Nat
      /\ \A c \in Successors(w, t) : rank >= Cost(t) + upward[c]
      /\ Successors(w, t) # {} => \E c \in Successors(w, t) : rank = Cost(t) + upward[c]
  BY <1>2, <1>3, UpwardRankProperty DEF Cost
<1> HIDE DEF rank
<1>5. TypeOK'
  BY <1>1, <1>2, <1>4 DEF CInv, TypeOK
<1>6. ASSUME NEW c \in Successors(w, t) PROVE c \in ranked
  <2>1. c \in Tasks(w) /\ w.position[t] < w.position[c]
    BY <1>2, <1>6 DEF Successors, IsWorkflow
  <2>2. w.position[c] \in Int /\ w.position[t] \in Int
    BY <1>2, <2>1, PositionType
  <2> QED
    BY <1>1, <2>1, <2>2
<1>7. UpwardTight(ranked) /\ DownwardTight(Tasks(w))
  BY <1>1 DEF CInv, RanksTight
<1>8. ASSUME NEW u \in ranked'
      PROVE  /\ \A c \in Successors(w, u) :
                    c \in ranked' /\ upward'[u] >= Cost(u) + upward'[c]
             /\ Successors(w, u) # {} =>
                    \E c \in Successors(w, u) : upward'[u] = Cost(u) + upward'[c]
  <2>1. \A c \in Successors(w, u) : c \in ranked
    BY <1>1, <1>6, <1>7 DEF UpwardTight
  <2>2. \A c \in ranked : upward'[c] = upward[c]
    BY <1>1, <1>2
  <2>3. CASE u = t
    <3>1. upward'[u] = rank
      BY <1>1, <1>2, <2>3
    <3> QED
      BY <1>1, <1>4, <2>1, <2>2, <2>3, <3>1
  <2>4. CASE u # t
    <3>1. u \in ranked /\ upward'[u] = upward[u]
      BY <1>1, <2>2, <2>4
    <3> QED
      BY <1>1, <1>7, <2>1, <2>2, <3>1 DEF UpwardTight
  <2> QED
    BY <2>3, <2>4
<1>9. RanksTight'
  BY <1>1, <1>7, <1>8 DEF RanksTight, UpwardTight, DownwardTight, Cost
<1>10. PathBegins' /\ PathIsCritical'
  BY <1>1, <1>2 DEF PathBegins, PathIsCritical
<1>11. /\ NodesDisjoint' /\ NothingPlaced' /\ PredecessorsFirst'
       /\ IncomingLeft' /\ QueueInSync'
  BY <1>1 DEF CInv, NodesDisjoint, NothingPlaced, PredecessorsFirst, IncomingLeft, QueueInSync
<1> QED
  BY <1>5, <1>9, <1>10, <1>11 DEF CInv

----------------------------------------------------------------------------
\* The critical path.

LEMMA RankTypes ==
    ASSUME CInv, NEW t \in Tasks(w)
    PROVE  /\ Cost(t) \in Nat /\ downward[t] \in Nat /\ upward[t] \in Nat
           /\ Priority(t) = downward[t] + upward[t] /\ Priority(t) \in Nat
<1>1. /\ IsWorkflow(w)
      /\ downward \in [Tasks(w) -> Nat] /\ upward \in [Tasks(w) -> Nat]
  BY DEF CInv, TypeOK
<1>2. BandwidthSum \in Nat \ {0} /\ PerformanceSum \in Nat
  BY ClusterSumsPositive
<1>3. Cost(t) \in Nat
  BY <1>1, <1>2, RankCostType DEF Cost
<1> QED
  BY <1>1, <1>3 DEF Priority

\* Going back along tight edges never lowers the priority.
LEMMA EntryHasTopPriority ==
    ASSUME CInv, DownwardTight(Tasks(w)), UpwardTight(Tasks(w)), NEW u \in Tasks(w)
    PROVE  \E e \in IndependentTasks(w) : Priority(e) >= Priority(u)
<1> SUFFICES ASSUME \A e \in IndependentTasks(w) : ~(Priority(e) >= Priority(u))
             PROVE  FALSE
  OBVIOUS
<1> DEFINE V == {x \in Tasks(w) : \A e \in IndependentTasks(w) : ~(Priority(e) >= Priority(x))}
           A == {w.position[x] : x \in V}
<1>1. IsWorkflow(w) /\ u \in V /\ V \subseteq Tasks(w)
  BY DEF CInv, TypeOK
<1>2. \A x \in Tasks(w) :
          x \in V <=> \A e \in IndependentTasks(w) : ~(Priority(e) >= Priority(x))
  OBVIOUS
<1> HIDE DEF V
<1>3. \A x \in Tasks(w) : w.position[x] \in Int
  BY <1>1, PositionType
<1>4. A \in SUBSET Int /\ A # {} /\ \A x \in V : w.position[x] \in A
  BY <1>1, <1>3
<1>5. IsFiniteSet(A)
  <2>1. IsFiniteSet(V)
    BY <1>1, TasksFinite, FS_Subset
  <2> DEFINE f == [x \in V |-> w.position[x]]
  <2>2. DOMAIN f = V /\ A = {f[x] : x \in V}
    OBVIOUS
  <2> HIDE DEF f
  <2> QED
    BY <2>1, <2>2, ImageFinite
<1>6. PICK v \in V : w.position[v] = Min(A)
  <2>1. Min(A) \in A
    <3> HIDE DEF A
    <3> QED
      BY <1>4, <1>5, MinProperty
  <2> QED
    BY <2>1
<1>7. \A x \in V : Min(A) <= w.position[x]
  <2>1. \A y \in A : Min(A) <= y
    <3> HIDE DEF A
    <3> QED
      BY <1>4, <1>5, MinProperty
  <2> QED
    BY <1>4, <2>1
<1> HIDE DEF A
<1>8. v \in Tasks(w) /\ Priority(v) \in Nat
  BY <1>1, RankTypes
<1>9. v \notin IndependentTasks(w)
  BY <1>2, <1>8
<1>10. Predecessors(w, v) # {}
  BY <1>8, <1>9 DEF IndependentTasks
<1>11. PICK p \in Predecessors(w, v) : downward[v] = Cost(p) + downward[p]
  BY <1>8, <1>10 DEF DownwardTight
<1>12. /\ p \in Tasks(w) /\ v \in Successors(w, p)
       /\ w.position[p] < w.position[v]
  BY <1>1, <1>8 DEF Predecessors, Successors, IsWorkflow
<1>13. upward[p] >= Cost(p) + upward[v]
  BY <1>12 DEF UpwardTight
<1>14. Priority(p) >= Priority(v)
  <2>1. /\ Cost(p) \in Nat /\ downward[p] \in Nat /\ upward[p] \in Nat
        /\ Priority(p) = downward[p] + upward[p]
    BY <1>12, RankTypes
  <2>2. /\ downward[v] \in Nat /\ upward[v] \in Nat
        /\ Priority(v) = downward[v] + upward[v]
    BY <1>8, RankTypes
  <2> QED
    BY <1>11, <1>13, <2>1, <2>2
<1>15. ASSUME NEW e \in IndependentTasks(w) PROVE ~(Priority(e) >= Priority(p))
  <2>1. ~(Priority(e) >= Priority(v))
    BY <1>2, <1>8
  <2>2. e \in Tasks(w)
    BY DEF IndependentTasks
  <2>3. Priority(e) \in Nat /\ Priority(p) \in Nat
    BY <1>12, <2>2, RankTypes
  <2> QED
    BY <1>8, <1>14, <2>1, <2>3
<1>16. p \in V
  BY <1>2, <1>12, <1>15
<1> QED
  BY <1>3, <1>6, <1>7, <1>8, <1>12, <1>16

LEMMA StartPathKeepsCInv == CInv /\ StartPath => CInv'
<1> SUFFICES ASSUME CInv, StartPath PROVE CInv'
  OBVIOUS
<1>1. /\ phase = "rank_upward" /\ ranked = Tasks(w)
      /\ phase' \in {"crash", "path"}
      /\ UNCHANGED <<w, s, downward, upward, ranked, best, queue, incoming>>
  BY DEF StartPath
<1>2. \/ phase' = "crash" /\ UNCHANGED <<path, current>>
      \/ /\ phase' = "path"
         /\ \E t \in IndependentTasks(w) :
                IsFirst(t, IndependentTasks(w)) /\ current' = t /\ path' = {t}
  BY DEF StartPath
<1>3. DownwardTight(Tasks(w)) /\ UpwardTight(Tasks(w)) /\ path = {}
  BY <1>1 DEF CInv, RanksTight, PathBegins
<1>4. IndependentTasks(w) \subseteq Tasks(w)
  BY DEF IndependentTasks
<1>5. TypeOK'
  <2>1. path' \subseteq Tasks(w) /\ current' \in Tasks(w) \cup {0}
    BY <1>2, <1>3, <1>4 DEF CInv, TypeOK
  <2> QED
    BY <1>1, <2>1 DEF CInv, TypeOK, Outcomes
<1>6. RanksTight'
  BY <1>1, <1>3 DEF RanksTight, DownwardTight, UpwardTight, Cost
<1>7. PathBegins'
  BY <1>1, <1>2, <1>3 DEF PathBegins
<1>8. PathIsCritical'
  <2>1. CASE phase' = "crash" /\ UNCHANGED path
    BY <1>3, <2>1 DEF PathIsCritical
  <2>2. ASSUME NEW t \in IndependentTasks(w), IsFirst(t, IndependentTasks(w)),
               phase' = "path", path' = {t}
        PROVE  PathIsCritical'
    <3>1. ASSUME NEW u \in Tasks(w) PROVE Priority(t) >= Priority(u)
      <4>1. PICK e \in IndependentTasks(w) : Priority(e) >= Priority(u)
        BY <1>3, EntryHasTopPriority
      <4>2. Priority(t) > Priority(e) \/ Priority(t) = Priority(e)
        BY <2>2 DEF IsFirst
      <4>3. Priority(t) \in Nat /\ Priority(e) \in Nat /\ Priority(u) \in Nat
        BY <1>4, RankTypes
      <4> QED
        BY <4>1, <4>2, <4>3
    <3> QED
      BY <1>1, <2>2, <3>1 DEF PathIsCritical, Priority
  <2> QED
    BY <1>2, <2>1, <2>2
<1>9. NodesDisjoint' /\ PredecessorsFirst'
  BY <1>1 DEF CInv, NodesDisjoint, PredecessorsFirst
<1>10. NothingPlaced' /\ IncomingLeft' /\ QueueInSync'
  BY <1>1 DEF CInv, NothingPlaced, IncomingLeft, QueueInSync
<1> QED
  BY <1>5, <1>6, <1>7, <1>8, <1>9, <1>10 DEF CInv

LEMMA ExtendPathKeepsCInv == CInv /\ ExtendPath => CInv'
<1> SUFFICES ASSUME CInv, ExtendPath PROVE CInv'
  OBVIOUS
<1>1. /\ phase = "path" /\ CriticalSuccessors # {}
      /\ current' = Min(CriticalSuccessors)
      /\ path' = path \cup {current'}
      /\ UNCHANGED <<w, s, downward, upward, ranked, best, queue, incoming, phase>>
  BY DEF ExtendPath
<1>2. IsWorkflow(w) /\ path \subseteq Tasks(w) /\ current \in path
  BY <1>1 DEF CInv, TypeOK, PathBegins
<1>3. current' \in CriticalSuccessors
  <2>1. CriticalSuccessors \subseteq Successors(w, current)
    BY DEF CriticalSuccessors
  <2>2. Tasks(w) \subseteq Int
    BY DEF Tasks
  <2>3. CriticalSuccessors \in SUBSET Int /\ IsFiniteSet(CriticalSuccessors)
    BY <1>2, <2>1, <2>2, NeighboursFinite, FS_Subset
  <2> QED
    BY <1>1, <2>3, MinProperty
<1>4. current' \in Tasks(w) /\ Priority(current') = Priority(current)
  BY <1>3 DEF CriticalSuccessors, Successors
<1>5. TypeOK'
  BY <1>1, <1>4 DEF CInv, TypeOK
<1>6. RanksTight'
  BY <1>1 DEF CInv, RanksTight, DownwardTight, UpwardTight, Cost
<1>7. PathBegins'
  BY <1>1 DEF PathBegins
<1>8. PathIsCritical'
  <2>1. \A t \in path : \A u \in Tasks(w) : Priority(t) >= Priority(u)
    BY <1>2 DEF CInv, PathIsCritical
  <2>2. \A t \in path' : \A u \in Tasks(w) : Priority(t) >= Priority(u)
    BY <1>1, <1>2, <1>4, <2>1
  <2> QED
    BY <1>1, <2>2 DEF PathIsCritical, Priority
<1>9. /\ NodesDisjoint' /\ NothingPlaced' /\ PredecessorsFirst'
      /\ IncomingLeft' /\ QueueInSync'
  BY <1>1 DEF CInv, NodesDisjoint, NothingPlaced, PredecessorsFirst, IncomingLeft, QueueInSync
<1> QED
  BY <1>5, <1>6, <1>7, <1>8, <1>9 DEF CInv

LEMMA ChooseNodeKeepsCInv == CInv /\ ChooseNode => CInv'
<1> SUFFICES ASSUME CInv, ChooseNode PROVE CInv'
  OBVIOUS
<1>1. /\ phase = "path" /\ CriticalSuccessors = {}
      /\ best' \in IF NodesWithMemory(PathRequirement) = {}
                   THEN Nodes \cup {NumNodes}
                   ELSE {BestPerformanceNode(PathRequirement)}
      /\ queue' = IndependentTasks(w)
      /\ phase' = "place"
      /\ UNCHANGED <<w, s, downward, upward, ranked, path, current, incoming>>
  BY DEF ChooseNode
<1>2. /\ IsWorkflow(w) /\ path \subseteq Tasks(w) /\ current \in path
      /\ incoming = w.deps /\ \A t \in Tasks(w) : ~Scheduled(s, t)
  BY <1>1 DEF CInv, TypeOK, PathBegins, NothingPlaced
<1>3. best' \in Nodes \cup {NumNodes}
  <2>1. NodesWithMemory(PathRequirement) \subseteq Nodes
    BY DEF NodesWithMemory
  <2> QED
    BY <1>1, <2>1, BestPerformanceNodeProperty
<1>4. TypeOK'
  BY <1>1, <1>3 DEF CInv, TypeOK, IndependentTasks
<1>5. RanksTight' /\ PathBegins'
  BY <1>1 DEF CInv, RanksTight, DownwardTight, UpwardTight, Cost, PathBegins
<1>6. PathIsCritical'
  <2>1. Successors(w, current) = {}
    <3> SUFFICES ASSUME Successors(w, current) # {} PROVE FALSE
      OBVIOUS
    <3>1. UpwardTight(Tasks(w)) /\ DownwardTight(Tasks(w)) /\ current \in Tasks(w)
      BY <1>1, <1>2 DEF CInv, RanksTight
    <3>2. PICK c \in Successors(w, current) : upward[current] = Cost(current) + upward[c]
      BY <3>1 DEF UpwardTight
    <3>3. c \in Tasks(w) /\ current \in Predecessors(w, c)
      BY <3>1 DEF Successors, Predecessors
    <3>4. downward[c] >= Cost(current) + downward[current]
      BY <3>1, <3>3 DEF DownwardTight
    <3>5. Priority(current) >= Priority(c)
      BY <1>2, <3>3 DEF CInv, PathIsCritical
    <3>6. /\ Cost(current) \in Nat /\ downward[current] \in Nat /\ upward[current] \in Nat
          /\ Priority(current) = downward[current] + upward[current]
      BY <3>1, RankTypes
    <3>7. /\ downward[c] \in Nat /\ upward[c] \in Nat
          /\ Priority(c) = downward[c] + upward[c]
      BY <3>3, RankTypes
    <3>8. Priority(c) = Priority(current)
      BY <3>2, <3>4, <3>5, <3>6, <3>7
    <3> QED
      BY <1>1, <3>8 DEF CriticalSuccessors
  <2>2. path # {} => \A t \in path : \A u \in Tasks(w) : Priority(t) >= Priority(u)
    BY DEF CInv, PathIsCritical
  <2> QED
    BY <1>1, <2>1, <2>2 DEF PathIsCritical, Priority
<1>7. NodesDisjoint' /\ NothingPlaced' /\ PredecessorsFirst'
  BY <1>1 DEF CInv, NodesDisjoint, NothingPlaced, PredecessorsFirst
<1>8. IncomingLeft'
  BY <1>1, <1>2 DEF IncomingLeft
<1>9. QueueInSync'
  <2>1. \A t \in Tasks(w) :
            t \in IndependentTasks(w) <=> ~Scheduled(s, t) /\ PredecessorsScheduled(w, s, t)
    <3> SUFFICES ASSUME NEW t \in Tasks(w)
                 PROVE  Predecessors(w, t) = {} <=> PredecessorsScheduled(w, s, t)
      BY <1>2 DEF IndependentTasks
    <3>1. \A p \in Predecessors(w, t) : ~Scheduled(s, p)
      BY <1>2 DEF Predecessors
    <3> QED
      BY <3>1 DEF PredecessorsScheduled
  <2>2. IndependentTasks(w) =
            {t \in Tasks(w) : ~Scheduled(s, t) /\ PredecessorsScheduled(w, s, t)}
    BY <2>1 DEF IndependentTasks
  <2> QED
    BY <1>1, <2>2 DEF QueueInSync
<1> QED
  BY <1>4, <1>5, <1>6, <1>7, <1>8, <1>9 DEF CInv
----------------------------------------------------------------------------
\* The placement.

LEMMA PlaceFirstKeepsCInv ==
    ASSUME CInv, NEW t \in Tasks(w), PlaceFirst(t)
    PROVE  CInv'
<1>1. /\ phase = "place" /\ t \in queue
      /\ PredecessorsScheduled(w, s, t)
      /\ incoming' = incoming \ Erased(t)
      /\ queue' = (queue \ {t}) \cup Pushed(t)
      /\ phase' = IF \A c \in Successors(w, t) : <<t, c>> \in incoming THEN phase
                                                                      ELSE "internal_bug"
      /\ UNCHANGED <<w, downward, upward, ranked, path, current, best>>
  BY DEF PlaceFirst, IsFirst, Popped
<1>2. PICK n \in ChoicesFor(t) : s' = InsertIntoNode(w, s, t, n)
  BY DEF PlaceFirst
<1>3. n \in Nodes
  BY DEF ChoicesFor, CandidateNodes, NodesWithMemory
<1>4. /\ IsWorkflow(w) /\ s \in Schedules(w)
      /\ \A m \in Nodes : Disjoint(s.node[m])
  BY DEF CInv, TypeOK, NodesDisjoint
<1>5. /\ s' \in Schedules(w)
      /\ \A m \in Nodes : Disjoint(s'.node[m])
  <2> DEFINE r == InsertIntoNode(w, s, t, n)
  <2>1. /\ r \in Schedules(w)
        /\ r.useMemory = s.useMemory
        /\ r.original = Append(s.original, t)
        /\ r.task = [s.task EXCEPT ![t] = Append(s.task[t], NewInterval(w, s, t, n))]
        /\ r.node = [s.node EXCEPT ![n] =
                        InsertAt(s.node[n], SlotOn(w, s, t, n).at, NewInterval(w, s, t, n))]
        /\ \A m \in Nodes : Disjoint(r.node[m])
    BY <1>3, <1>4, InsertIntoNodeProperties
  <2> HIDE DEF r
  <2>2. s' = r
    BY <1>2 DEF r
  <2> QED
    BY <2>1, <2>2
<1>6. ASSUME NEW u \in Tasks(w)
      PROVE  Scheduled(s', u) <=> Scheduled(s, u) \/ u = t
  <2> DEFINE r == InsertIntoNode(w, s, t, n)
  <2>1. /\ Scheduled(r, u) <=> Scheduled(s, u) \/ u = t
        /\ u # t => r.task[u] = s.task[u]
        /\ Len(r.task[t]) = Len(s.task[t]) + 1
        /\ \A k \in Indices(r.task[u]) :
               \/ k \in Indices(s.task[u]) /\ r.task[u][k] = s.task[u][k]
               \/ u = t /\ r.task[u][k].node = n
    BY <1>3, <1>4, InsertIntoNodeIntervals
  <2> HIDE DEF r
  <2>2. s' = r
    BY <1>2 DEF r
  <2> QED
    BY <2>1, <2>2
<1>7. /\ ~Scheduled(s, t)
      /\ queue = {u \in Tasks(w) : ~Scheduled(s, u) /\ PredecessorsScheduled(w, s, u)}
  BY <1>1 DEF CInv, QueueInSync
<1>8. \A p, c \in Tasks(w) :
          <<p, c>> \in incoming <=> <<p, c>> \in w.deps /\ ~Scheduled(s, p)
  BY <1>1 DEF CInv, IncomingLeft
<1>9. phase' = "place"
  <2>1. \A c \in Successors(w, t) : <<t, c>> \in incoming
    BY <1>7, <1>8 DEF Successors
  <2> QED
    BY <1>1, <2>1
<1>10. \A p, c \in Tasks(w) : <<p, c>> \in Erased(t) <=> p = t /\ <<p, c>> \in w.deps
  BY DEF Erased, Successors
<1>11. TypeOK'
  <2>1. queue' \subseteq Tasks(w)
    BY <1>1, <1>7 DEF Pushed, Successors
  <2> QED
    BY <1>1, <1>5, <1>9, <2>1 DEF CInv, TypeOK
<1>12. NodesDisjoint'
  BY <1>5 DEF NodesDisjoint
<1>13. RanksTight' /\ PathBegins'
  BY <1>1, <1>9 DEF CInv, RanksTight, DownwardTight, UpwardTight, Cost, PathBegins
<1>14. PathIsCritical'
  BY <1>1, <1>9 DEF CInv, PathIsCritical, Priority
<1>15. NothingPlaced'
  BY <1>9 DEF NothingPlaced
<1>16. PredecessorsFirst'
  <2> SUFFICES ASSUME NEW u \in Tasks(w), Scheduled(s', u), NEW p \in Predecessors(w, u)
               PROVE  Scheduled(s', p)
    BY <1>1 DEF PredecessorsFirst, PredecessorsScheduled
  <2>1. Scheduled(s, p)
    BY <1>1, <1>6 DEF CInv, PredecessorsFirst, PredecessorsScheduled
  <2> QED
    BY <1>6, <2>1 DEF Predecessors
<1>17. IncomingLeft'
  <2>1. \A p, c \in Tasks(w) :
            <<p, c>> \in incoming' <=> <<p, c>> \in w.deps /\ ~Scheduled(s', p)
    BY <1>1, <1>6, <1>8, <1>10
  <2> QED
    BY <1>1, <2>1 DEF IncomingLeft
<1>18. QueueInSync'
  <2>1. ASSUME NEW u \in Tasks(w)
        PROVE  u \in queue' <=> ~Scheduled(s', u) /\ PredecessorsScheduled(w, s', u)
    <3>1. PredecessorsScheduled(w, s', u) <=>
              \A p \in Predecessors(w, u) : Scheduled(s, p) \/ p = t
      BY <1>6 DEF PredecessorsScheduled, Predecessors
    <3>2. t \notin Predecessors(w, t)
      <4>1. w.position[t] \in Int
        BY <1>4, PositionType
      <4> QED
        BY <1>4, <4>1 DEF Predecessors, IsWorkflow
    <3>3. CASE u \in Successors(w, t)
      <4>1. t \in Predecessors(w, u) /\ u # t
        BY <3>2, <3>3 DEF Successors, Predecessors
      <4>2. ~Scheduled(s, u)
        BY <1>7, <4>1 DEF CInv, PredecessorsFirst, PredecessorsScheduled
      <4>3. u \notin queue
        BY <1>7, <4>1 DEF PredecessorsScheduled
      <4>4. u \in Pushed(t) <=> \A p \in Predecessors(w, u) : Scheduled(s, p) \/ p = t
        <5>1. u \in Pushed(t) <=> \A p \in Tasks(w) : <<p, u>> \notin incoming \ Erased(t)
          BY <3>3 DEF Pushed
        <5> QED
          BY <1>8, <1>10, <5>1 DEF Predecessors
      <4> QED
        BY <1>1, <1>6, <3>1, <4>1, <4>2, <4>3, <4>4
    <3>4. CASE u \notin Successors(w, t)
      <4>1. u \notin Pushed(t)
        BY <3>4 DEF Pushed
      <4>2. t \notin Predecessors(w, u)
        BY <3>4 DEF Successors, Predecessors
      <4>3. PredecessorsScheduled(w, s', u) <=> PredecessorsScheduled(w, s, u)
        BY <3>1, <4>2 DEF PredecessorsScheduled
      <4> QED
        BY <1>1, <1>6, <1>7, <4>1, <4>3
    <3> QED
      BY <3>3, <3>4
  <2>2. queue' \subseteq Tasks(w)
    BY <1>1, <1>7 DEF Pushed, Successors
  <2>3. queue' = {u \in Tasks(w) : ~Scheduled(s', u) /\ PredecessorsScheduled(w, s', u)}
    BY <2>1, <2>2
  <2> QED
    BY <1>1, <1>9, <2>3 DEF QueueInSync
<1> QED
  BY <1>11, <1>12, <1>13, <1>14, <1>15, <1>16, <1>17, <1>18 DEF CInv

LEMMA ThrowKeepsCInv ==
    ASSUME CInv, NEW t \in Tasks(w), Throw(t)
    PROVE  CInv'
<1>1. /\ phase = "place" /\ t \in queue
      /\ PredecessorsScheduled(w, s, t) => ChoicesFor(t) = {}
      /\ phase' = IF t \notin path /\ CandidateNodes(w, s, t) = {} THEN "no_memory"
                                                                  ELSE "out_of_range"
      /\ UNCHANGED <<w, s, downward, upward, ranked, path, current, best, queue, incoming>>
  BY DEF Throw, IsFirst
<1>2. ChoicesFor(t) = {}
  BY <1>1 DEF CInv, QueueInSync
<1>3. phase' = "out_of_range" => best = NumNodes
  <2> SUFFICES ASSUME phase' = "out_of_range" PROVE best = NumNodes
    OBVIOUS
  <2>1. CASE t \in path
    BY <1>2, <2>1 DEF ChoicesFor, CInv, TypeOK
  <2>2. CASE t \notin path
    <3>1. CandidateNodes(w, s, t) # {}
      BY <1>1, <2>2
    <3>2. IsWorkflow(w) /\ s \in Schedules(w) /\ \A m \in Nodes : Disjoint(s.node[m])
      BY DEF CInv, TypeOK, NodesDisjoint
    <3>3. PICK n \in CandidateNodes(w, s, t) : IsBestNode(w, s, t, n, FALSE)
      BY <3>1, <3>2, BestNodeExists
    <3> QED
      BY <1>2, <2>2, <3>3 DEF ChoicesFor
  <2> QED
    BY <2>1, <2>2
<1>4. phase' \in {"no_memory", "out_of_range"}
  BY <1>1
<1>5. TypeOK'
  BY <1>1, <1>4 DEF CInv, TypeOK, Outcomes
<1>6. RanksTight' /\ PathBegins'
  BY <1>1, <1>4 DEF CInv, RanksTight, DownwardTight, UpwardTight, Cost, PathBegins
<1>7. PathIsCritical'
  BY <1>1, <1>4 DEF CInv, PathIsCritical, Priority
<1>8. NodesDisjoint' /\ NothingPlaced' /\ PredecessorsFirst'
  BY <1>1, <1>4 DEF CInv, NodesDisjoint, NothingPlaced, PredecessorsFirst
<1>9. IncomingLeft' /\ QueueInSync'
  BY <1>1, <1>3, <1>4 DEF IncomingLeft, QueueInSync
<1> QED
  BY <1>5, <1>6, <1>7, <1>8, <1>9 DEF CInv

LEMMA ReturnKeepsCInv == CInv /\ Return => CInv'
<1> SUFFICES ASSUME CInv, Return PROVE CInv'
  OBVIOUS
<1>1. /\ phase = "place" /\ phase' = "done"
      /\ UNCHANGED <<w, s, downward, upward, ranked, path, current, best, queue, incoming>>
  BY DEF Return
<1>2. TypeOK' /\ NodesDisjoint'
  BY <1>1 DEF CInv, TypeOK, NodesDisjoint, Outcomes
<1>3. RanksTight' /\ PathBegins'
  BY <1>1 DEF CInv, RanksTight, DownwardTight, UpwardTight, Cost, PathBegins
<1>4. PathIsCritical'
  BY <1>1 DEF CInv, PathIsCritical, Priority
<1>5. NothingPlaced' /\ PredecessorsFirst' /\ IncomingLeft' /\ QueueInSync'
  BY <1>1 DEF CInv, NothingPlaced, PredecessorsFirst, IncomingLeft, QueueInSync
<1> QED
  BY <1>2, <1>3, <1>4, <1>5 DEF CInv

LEMMA StepKeepsCInv == CInv /\ [Next]_vars => CInv'
<1> SUFFICES ASSUME CInv, [Next]_vars PROVE CInv'
  OBVIOUS
<1>1. CASE \E t \in Tasks(w) : RankDownward(t) \/ RankUpward(t)
  BY <1>1, RankDownwardKeepsCInv, RankUpwardKeepsCInv
<1>2. CASE StartUpward \/ StartPath \/ ExtendPath
  BY <1>2, StartUpwardKeepsCInv, StartPathKeepsCInv, ExtendPathKeepsCInv
<1>3. CASE ChooseNode \/ Return
  BY <1>3, ChooseNodeKeepsCInv, ReturnKeepsCInv
<1>4. CASE \E t \in Tasks(w) : PlaceFirst(t) \/ Throw(t)
  BY <1>4, PlaceFirstKeepsCInv, ThrowKeepsCInv
<1>5. CASE UNCHANGED vars
  <2>1. UNCHANGED <<w, s, downward, upward, ranked, path, current, best, queue, incoming, phase>>
    BY <1>5 DEF vars
  <2>2. TypeOK' /\ NodesDisjoint'
    BY <2>1 DEF CInv, TypeOK, NodesDisjoint
  <2>3. RanksTight' /\ PathBegins'
    BY <2>1 DEF CInv, RanksTight, DownwardTight, UpwardTight, Cost, PathBegins
  <2>4. PathIsCritical'
    BY <2>1 DEF CInv, PathIsCritical, Priority
  <2>5. NothingPlaced' /\ PredecessorsFirst' /\ IncomingLeft' /\ QueueInSync'
    BY <2>1 DEF CInv, NothingPlaced, PredecessorsFirst, IncomingLeft, QueueInSync
  <2> QED
    BY <2>2, <2>3, <2>4, <2>5 DEF CInv
<1> QED
  BY <1>1, <1>2, <1>3, <1>4, <1>5 DEF Next

\* The strengthened invariant holds in every reachable state of cpop.
THEOREM CpopInvariance == Spec => []CInv
<1> QED
  BY InitEstablishesCInv, StepKeepsCInv, PTL DEF Spec

\* Every variable of cpop keeps the type the code declares for it.
THEOREM CpopTypeCorrect == Spec => []TypeOK
<1>1. CInv => TypeOK
  BY DEF CInv
<1> QED
  BY <1>1, CpopInvariance, PTL

\* compute_critical_path: comparing priorities for equality, it never leaves
\* the critical path, nor ends in the middle of the workflow.
THEOREM PathAlwaysCritical == Spec => []PathIsCritical
<1>1. CInv => PathIsCritical
  BY DEF CInv
<1> QED
  BY <1>1, CpopInvariance, PTL

\* The queue of cpop and its temporary edges never get out of sync.
THEOREM QueueAlwaysInSync == Spec => []QueueInSync
<1>1. CInv => QueueInSync
  BY DEF CInv
<1> QED
  BY <1>1, CpopInvariance, PTL

----------------------------------------------------------------------------
\* The operators ListScheduling brings along are those CPOP uses.
LEMMA SameOperators ==
    /\ \A useMemory : LS!NewSchedule(w, useMemory) = NewSchedule(w, useMemory)
    /\ \A t, n : LS!InsertIntoNode(w, s, t, n) = InsertIntoNode(w, s, t, n)
    /\ \A t : LS!PredecessorsScheduled(w, s, t) <=> PredecessorsScheduled(w, s, t)
    /\ LS!Tasks(w) = Tasks(w) /\ LS!Nodes = Nodes
<1>1. ASSUME NEW useMemory PROVE LS!NewSchedule(w, useMemory) = NewSchedule(w, useMemory)
  BY DEF Nodes, Tasks, NewSchedule, LS!Nodes, LS!Tasks, LS!NewSchedule
<1>2. ASSUME NEW t, NEW n PROVE LS!TaskReadyTime(w, s, t, n) = TaskReadyTime(w, s, t, n)
  BY Zenon DEF Nodes, ExactQuotient, DataTime, Tasks, Predecessors, DataTransfer, Indices, Scheduled, TransferCost, ArrivalTime, EarliestDataAvailable, TaskReadyTime, Max, Min, LS!Nodes, LS!ExactQuotient, LS!DataTime, LS!Tasks, LS!Predecessors, LS!DataTransfer, LS!Indices, LS!Scheduled, LS!TransferCost, LS!ArrivalTime, LS!EarliestDataAvailable, LS!TaskReadyTime, LS!Max, LS!Min
<1>3. ASSUME NEW t, NEW n PROVE LS!ComputationTime(w, t, n) = ComputationTime(w, t, n)
  BY Zenon DEF Nodes, ExactQuotient, Performance, WorkTime, ComputationTime, LS!Nodes, LS!ExactQuotient, LS!Performance, LS!WorkTime, LS!ComputationTime
<1>4. ASSUME NEW q, NEW ready, NEW length PROVE LS!Slot(q, ready, length) = Slot(q, ready, length)
  BY Zenon DEF Slot, FirstNotEndingBefore, FirstGapFrom, TotalFinishTime, Indices, Min, Max, Last, LS!Slot, LS!FirstNotEndingBefore, LS!FirstGapFrom, LS!TotalFinishTime, LS!Indices, LS!Min, LS!Max, LS!Last
<1>5. ASSUME NEW t, NEW n PROVE LS!SlotOn(w, s, t, n) = SlotOn(w, s, t, n)
  BY <1>2, <1>3, <1>4, Zenon DEF SlotOn, LS!SlotOn
<1>6. ASSUME NEW t, NEW n PROVE LS!NewInterval(w, s, t, n) = NewInterval(w, s, t, n)
  BY <1>3, <1>5, Zenon DEF NewInterval, LS!NewInterval
<1>7. ASSUME NEW q, NEW i, NEW e PROVE LS!InsertAt(q, i, e) = InsertAt(q, i, e)
  BY Zenon DEF InsertAt, LS!InsertAt
<1>8. ASSUME NEW t, NEW n PROVE LS!InsertIntoNode(w, s, t, n) = InsertIntoNode(w, s, t, n)
  BY <1>5, <1>6, <1>7, Zenon DEF InsertIntoNode, LS!InsertIntoNode
<1>9. ASSUME NEW t PROVE LS!PredecessorsScheduled(w, s, t) <=> PredecessorsScheduled(w, s, t)
  BY Zenon DEF PredecessorsScheduled, Predecessors, Tasks, Scheduled, LS!PredecessorsScheduled, LS!Predecessors, LS!Tasks, LS!Scheduled
<1>10. LS!Tasks(w) = Tasks(w) /\ LS!Nodes = Nodes
  BY Zenon DEF Tasks, Nodes, LS!Tasks, LS!Nodes
<1> QED
  BY <1>1, <1>8, <1>9, <1>10

LEMMA InitRefines == Init => LS!Init
BY SameOperators DEF Init, LS!Init

LEMMA StepRefines == CInv /\ [Next]_vars => [LS!Next]_LS!vars
<1> SUFFICES ASSUME CInv, [Next]_vars PROVE [LS!Next]_LS!vars
  OBVIOUS
<1>1. ASSUME NEW t \in Tasks(w), PlaceFirst(t) PROVE LS!Next
  <2>1. /\ phase = "place" /\ t \in queue
        /\ PredecessorsScheduled(w, s, t)
        /\ UNCHANGED w
    BY <1>1 DEF PlaceFirst, IsFirst
  <2>2. PICK n \in ChoicesFor(t) : s' = InsertIntoNode(w, s, t, n)
    BY <1>1 DEF PlaceFirst
  <2>3. n \in Nodes
    BY DEF ChoicesFor, CandidateNodes, NodesWithMemory
  <2>4. ~Scheduled(s, t)
    BY <2>1 DEF CInv, QueueInSync
  <2>5. ~LS!OnNode(t, n)
    BY <2>4 DEF Scheduled, LS!OnNode, LS!Indices
  <2>6. LS!Place(t, n)
    BY <2>1, <2>2, <2>5, SameOperators DEF LS!Place
  <2> QED
    BY <2>3, <2>6, SameOperators DEF LS!Next
<1>2. ASSUME \E t \in Tasks(w) : RankDownward(t) \/ RankUpward(t) \/ Throw(t)
      PROVE  UNCHANGED LS!vars
  BY <1>2 DEF RankDownward, RankUpward, Throw, LS!vars
<1>3. ASSUME StartUpward \/ StartPath \/ ExtendPath \/ ChooseNode \/ Return
      PROVE  UNCHANGED LS!vars
  BY <1>3 DEF StartUpward, StartPath, ExtendPath, ChooseNode, Return, LS!vars
<1>4. ASSUME UNCHANGED vars PROVE UNCHANGED LS!vars
  BY <1>4 DEF vars, LS!vars
<1> QED
  BY <1>1, <1>2, <1>3, <1>4 DEF Next

\* CPOP is a list scheduling algorithm: every insertion is one ListScheduling
\* allows, every other step leaves the schedule alone.
THEOREM CpopRefinesListScheduling == Spec => ImplementsListScheduling
<1> QED
  BY CpopInvariance, InitRefines, StepRefines, PTL DEF Spec, LS!Spec, ImplementsListScheduling
=============================================================================
