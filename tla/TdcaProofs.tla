----------------------------- MODULE TdcaProofs -----------------------------
(***************************************************************************)
(* First the earliest times: they bound every schedule, and the critical   *)
(* predecessors form a tight trail.  Then TDCA, which starts from them: no *)
(* task is lost and nothing throws, however groups are moved, merged and   *)
(* duplicated.  All of it for every cluster and every set of workflows.    *)
(***************************************************************************)
EXTENDS Tdca, ListSchedulingProofs

----------------------------------------------------------------------------
\* What the best node is good for.

\* best_performance_node: max_element over nodes that are never empty.
LEMMA BestNodeProperty ==
    BestNode \in Nodes /\ \A n \in Nodes : Performance[n] <= Performance[BestNode]
<1>1. NodesWithMemory(0) = Nodes /\ 0 \in Nodes
  BY ClusterAssumption DEF NodesWithMemory, EnoughMemory, Nodes
<1>2. NodesWithMemory(0) # {}
  BY <1>1
<1> QED
  BY <1>1, <1>2, BestPerformanceNodeProperty DEF BestNode

\* "the node performances simple scale the task workloads".
LEMMA BestNodeComputesFastest ==
    ASSUME NEW x, IsWorkflow(x), NEW t \in Tasks(x), NEW n \in Nodes
    PROVE  ComputationTime(x, t, BestNode) <= ComputationTime(x, t, n)
<1> DEFINE a == WorkTime[BestNode]
           c == WorkTime[n]
           b == Performance[BestNode]
           d == Performance[n]
<1>1. BestNode \in Nodes /\ d <= b
  BY BestNodeProperty
<1>2. a \in Nat \ {0} /\ c \in Nat \ {0} /\ b \in Nat \ {0} /\ d \in Nat \ {0}
  BY <1>1, TicksPositive, PerformancePositive
<1>3. \A m \in Nodes : WorkTime[m] * Performance[m] = Scale
  BY ScaleAssumption, ExactQuotientProperty DEF WorkTime
<1>4. a * b = c * d
  BY <1>1, <1>3
<1> HIDE DEF a, b, c, d
<1>5. a <= c
  BY <1>1, <1>2, <1>4, LargerDivisorSmallerQuotient
<1>6. x.workload[t] \in Nat
  BY DEF IsWorkflow
<1> DEFINE l == x.workload[t]
<1> HIDE DEF l
<1>7. l * a <= l * c
  BY <1>2, <1>5, <1>6 DEF l
<1> QED
  BY <1>7 DEF ComputationTime, a, c, l

----------------------------------------------------------------------------
\* The helpers of the computation.

LEMMA TransferCostNat ==
    ASSUME IsWorkflow(w), NEW p \in Tasks(w), NEW n \in Nodes, NEW m \in Nodes
    PROVE  /\ TransferCost(n, m, DataTransfer(w, p), 0) \in Nat
           /\ n = m => TransferCost(n, m, DataTransfer(w, p), 0) = 0
<1>1. 0 \in Nodes
  BY ClusterAssumption DEF Nodes
<1>2. DataTransfer(w, p) \in Nat
  BY DEF IsWorkflow, DataTransfer
<1>3. DataTransfer(w, p) * DataTime[0] \in Nat
  BY <1>1, <1>2, TicksPositive, ProductNat
<1> QED
  BY <1>3 DEF TransferCost

LEMMA IncomingEftProperty ==
    ASSUME IsWorkflow(w), TimesTypeOK, NEW p \in Tasks(w), NEW n \in Nodes
    PROVE  /\ IncomingEft(p, n) \in Nat
           /\ IncomingEft(p, n) <=
                  eft[BestNode][p] + TransferCost(BestNode, n, DataTransfer(w, p), 0)
           /\ IncomingEft(p, n) <= eft[n][p]
           /\ eft[BestNode][p] <= eft[n][p] => eft[BestNode][p] <= IncomingEft(p, n)
           /\ n = BestNode => IncomingEft(p, n) = eft[n][p]
<1>1. BestNode \in Nodes
  BY BestNodeProperty
<1> DEFINE b == eft[BestNode][p]
           e == eft[n][p]
           c == TransferCost(BestNode, n, DataTransfer(w, p), 0)
           z == TransferCost(n, n, DataTransfer(w, p), 0)
<1>2. b \in Nat /\ e \in Nat
  BY <1>1 DEF TimesTypeOK
<1>3. c \in Nat /\ z = 0 /\ (n = BestNode => c = 0)
  BY <1>1, TransferCostNat
<1>4. n = BestNode => b = e
  OBVIOUS
<1>5. IncomingEft(p, n) = Min({b + c, e + z})
  BY DEF IncomingEft
<1> HIDE DEF b, e, c, z
<1>6. b + c \in Int /\ e + z \in Int
  BY <1>2, <1>3
<1>7. /\ Min({b + c, e + z}) \in {b + c, e + z}
      /\ Min({b + c, e + z}) <= b + c
      /\ Min({b + c, e + z}) <= e + z
  BY <1>6, MinOfTwo
<1>8. /\ IncomingEft(p, n) \in Nat
      /\ IncomingEft(p, n) <= b + c
      /\ IncomingEft(p, n) <= e
      /\ b <= e => b <= IncomingEft(p, n)
      /\ n = BestNode => IncomingEft(p, n) = e
  BY <1>2, <1>3, <1>4, <1>5, <1>7
<1> QED
  BY <1>8 DEF b, e, c

LEMMA EarliestStartProperty ==
    ASSUME IsWorkflow(w), TimesTypeOK, NEW t \in Tasks(w), NEW n \in Nodes
    PROVE  /\ EarliestStart(t, n) \in Nat
           /\ \A p \in Predecessors(w, t) : IncomingEft(p, n) <= EarliestStart(t, n)
           /\ \/ EarliestStart(t, n) = 0
              \/ \E p \in Predecessors(w, t) : EarliestStart(t, n) = IncomingEft(p, n)
<1> DEFINE P == Predecessors(w, t)
           f == [p \in P |-> IncomingEft(p, n)]
           T == {f[p] : p \in P}
           S == {0} \cup T
<1>1. P \subseteq Tasks(w) /\ IsFiniteSet(Tasks(w))
  BY TasksFinite DEF Predecessors
<1>2. IsFiniteSet(P)
  BY <1>1, FS_Subset
<1>3. \A p \in P : f[p] = IncomingEft(p, n) /\ IncomingEft(p, n) \in Nat
  BY <1>1, IncomingEftProperty
<1>4. DOMAIN f = P
  OBVIOUS
<1>5. EarliestStart(t, n) = Max(S)
  <2>1. T = {IncomingEft(p, n) : p \in P}
    OBVIOUS
  <2> QED
    BY <2>1 DEF EarliestStart
<1> HIDE DEF P, f
<1>6. IsFiniteSet(T)
  BY <1>2, <1>4, ImageFinite
<1>7. IsFiniteSet(S)
  <2>1. IsFiniteSet({0})
    BY FS_Singleton
  <2> QED
    BY <1>6, <2>1, FS_Union
<1>8. S \in SUBSET Nat /\ S # {} /\ \A p \in P : f[p] \in S
  BY <1>3
<1>9. \A x \in S : x = 0 \/ \E p \in P : x = f[p]
  OBVIOUS
<1> HIDE DEF S, T
<1>10. Max(S) \in S /\ \A y \in S : Max(S) >= y
  BY <1>7, <1>8, MaxProperty
<1>11. Max(S) \in Nat
  BY <1>8, <1>10
<1>12. \A p \in P : IncomingEft(p, n) <= Max(S)
  BY <1>3, <1>8, <1>10, <1>11
<1>13. Max(S) = 0 \/ \E p \in P : Max(S) = IncomingEft(p, n)
  BY <1>3, <1>9, <1>10
<1> QED
  BY <1>5, <1>11, <1>12, <1>13 DEF P

\* Without predecessors a task can start at once.
LEMMA IndependentStartsAtOnce ==
    ASSUME IsWorkflow(w), TimesTypeOK, NEW t \in Tasks(w), NEW n \in Nodes,
           Predecessors(w, t) = {}
    PROVE  EarliestStart(t, n) = 0
BY EarliestStartProperty

----------------------------------------------------------------------------
(***************************************************************************)
(* The inductive invariant.  A computed time stays justified: the times it *)
(* was computed from belong to predecessors that are computed, too, and a  *)
(* computed task is never computed again.                                  *)
(***************************************************************************)
PredecessorsComputed == \A t \in computed : Predecessors(w, t) \subseteq computed

EstFromPredecessor ==
    \A t \in computed, n \in Nodes :
        /\ eft[n][t] = est[n][t] + ComputationTime(w, t, n)
        /\ \/ est[n][t] = 0
           \/ \E p \in Predecessors(w, t) : est[n][t] = IncomingEft(p, n)

ComputedFirst == computed # Tasks(w) => \A t \in Tasks(w) : Indices(s.task[t]) = {}

TInv ==
    /\ IInv
    /\ TimesTypeOK
    /\ PredecessorsComputed
    /\ EstFromPredecessor
    /\ BestNodeHasBestEft
    /\ CriticalTrailIsTight
    /\ ComputedFirst
    /\ NeverBeforeEst

LEMMA TimesInitEstablishesTInv == TimesInit => TInv
<1> SUFFICES ASSUME TimesInit PROVE TInv
  OBVIOUS
<1>1. IInv
  BY InitEstablishesIInv DEF TimesInit
<1>2. TimesTypeOK
  <2>1. w.size \in Nat
    BY <1>1 DEF IInv, TypeOK, IsWorkflow
  <2>2. \A t \in Tasks(w) : 0 \in Tasks(w)
    BY <2>1 DEF Tasks
  <2>3. [t \in Tasks(w) |-> 0] \in [Tasks(w) -> Tasks(w) \cup {NoTask}]
    BY <2>2
  <2> QED
    BY <2>3 DEF TimesInit, TimesTypeOK
<1>3. computed = {}
  BY DEF TimesInit
<1>4. PredecessorsComputed /\ EstFromPredecessor /\ BestNodeHasBestEft /\ CriticalTrailIsTight
  BY <1>3 DEF PredecessorsComputed, EstFromPredecessor, BestNodeHasBestEft, CriticalTrailIsTight
<1>5. \A t \in Tasks(w) : Indices(s.task[t]) = {}
  <2>1. PICK useMemory \in MemoryFlags : s = NewSchedule(w, useMemory)
    BY DEF TimesInit, Init
  <2>2. \A t \in Tasks(w) : s.task[t] = << >>
    BY <2>1 DEF NewSchedule
  <2> QED
    BY <2>2 DEF Indices
<1>6. ComputedFirst /\ NeverBeforeEst
  BY <1>5 DEF ComputedFirst, NeverBeforeEst
<1> QED
  BY <1>1, <1>2, <1>4, <1>6 DEF TInv

----------------------------------------------------------------------------
\* What Compute(t) changes: the times of t, which were not in use before.
LEMMA ComputeEffect ==
    ASSUME TInv, NEW t \in Tasks(w), Compute(t)
    PROVE  /\ w' = w /\ s' = s /\ computed' = computed \cup {t}
           /\ t \notin computed /\ Predecessors(w, t) \subseteq computed
           /\ TimesTypeOK'
           /\ \A n \in Nodes :
                  /\ est'[n][t] = EarliestStart(t, n)
                  /\ eft'[n][t] = EarliestStart(t, n) + ComputationTime(w, t, n)
           /\ cpred'[t] \in CriticalPredecessors(t)
           /\ \A u \in Tasks(w) \ {t} :
                  /\ cpred'[u] = cpred[u]
                  /\ \A n \in Nodes : est'[n][u] = est[n][u] /\ eft'[n][u] = eft[n][u]
<1>1. IsWorkflow(w) /\ TimesTypeOK
  BY DEF TInv, IInv, TypeOK
<1>2. w' = w /\ s' = s /\ computed' = computed \cup {t} /\ t \notin computed
  BY DEF Compute
<1>3. Predecessors(w, t) \subseteq computed
  <2> SUFFICES ASSUME NEW p \in Predecessors(w, t), p \notin computed PROVE FALSE
    OBVIOUS
  <2>1. p \in Tasks(w) /\ <<p, t>> \in w.deps
    BY DEF Predecessors
  <2>2. w.position[t] <= w.position[p]
    BY <2>1 DEF Compute
  <2>3. w.position[p] < w.position[t]
    BY <1>1, <2>1 DEF IsWorkflow
  <2>4. w.position[p] \in Int /\ w.position[t] \in Int
    <3>1. w.position[p] \in Tasks(w) /\ w.position[t] \in Tasks(w)
      BY <1>1, <2>1 DEF IsWorkflow
    <3> QED
      BY <3>1 DEF Tasks
  <2> QED
    BY <2>2, <2>3, <2>4
<1>4. \A n \in Nodes : EarliestStart(t, n) \in Nat /\ ComputationTime(w, t, n) \in Nat
  BY <1>1, EarliestStartProperty, ComputationTimePositive
<1>5. /\ est' = [n \in Nodes |-> [est[n] EXCEPT ![t] = EarliestStart(t, n)]]
      /\ eft' = [n \in Nodes |->
                    [eft[n] EXCEPT ![t] = EarliestStart(t, n) + ComputationTime(w, t, n)]]
  BY DEF Compute
<1>6. PICK c \in CriticalPredecessors(t) : cpred' = [cpred EXCEPT ![t] = c]
  BY DEF Compute
<1>7. c \in Tasks(w) \cup {NoTask}
  BY <1>6 DEF CriticalPredecessors, Predecessors
<1>8. /\ \A n \in Nodes : est[n] \in [Tasks(w) -> Nat] /\ eft[n] \in [Tasks(w) -> Nat]
      /\ cpred \in [Tasks(w) -> Tasks(w) \cup {NoTask}]
      /\ computed \subseteq Tasks(w)
  BY <1>1 DEF TimesTypeOK
<1>9. cpred' \in [Tasks(w) -> Tasks(w) \cup {NoTask}] /\ cpred'[t] = c
      /\ \A u \in Tasks(w) \ {t} : cpred'[u] = cpred[u]
  BY <1>6, <1>7, <1>8
<1>10. \A n \in Nodes :
           /\ est'[n] = [est[n] EXCEPT ![t] = EarliestStart(t, n)]
           /\ eft'[n] = [eft[n] EXCEPT ![t] = EarliestStart(t, n) + ComputationTime(w, t, n)]
  BY <1>5
<1>11. \A n \in Nodes :
           /\ est'[n] \in [Tasks(w) -> Nat] /\ eft'[n] \in [Tasks(w) -> Nat]
           /\ est'[n][t] = EarliestStart(t, n)
           /\ eft'[n][t] = EarliestStart(t, n) + ComputationTime(w, t, n)
           /\ \A u \in Tasks(w) \ {t} : est'[n][u] = est[n][u] /\ eft'[n][u] = eft[n][u]
  <2> SUFFICES ASSUME NEW n \in Nodes
               PROVE  /\ est'[n] \in [Tasks(w) -> Nat] /\ eft'[n] \in [Tasks(w) -> Nat]
                      /\ est'[n][t] = EarliestStart(t, n)
                      /\ eft'[n][t] = EarliestStart(t, n) + ComputationTime(w, t, n)
                      /\ \A u \in Tasks(w) \ {t} :
                             est'[n][u] = est[n][u] /\ eft'[n][u] = eft[n][u]
    OBVIOUS
  <2> DEFINE x == EarliestStart(t, n)
             y == EarliestStart(t, n) + ComputationTime(w, t, n)
  <2>1. x \in Nat /\ y \in Nat
    BY <1>4
  <2>2. est'[n] = [est[n] EXCEPT ![t] = x] /\ eft'[n] = [eft[n] EXCEPT ![t] = y]
    BY <1>10
  <2> HIDE DEF x, y
  <2>3. /\ est'[n] \in [Tasks(w) -> Nat] /\ eft'[n] \in [Tasks(w) -> Nat]
        /\ est'[n][t] = x /\ eft'[n][t] = y
        /\ \A u \in Tasks(w) \ {t} : est'[n][u] = est[n][u] /\ eft'[n][u] = eft[n][u]
    BY <1>8, <2>1, <2>2
  <2> QED
    BY <2>3 DEF x, y
<1>12. est' \in [Nodes -> [Tasks(w) -> Nat]] /\ eft' \in [Nodes -> [Tasks(w) -> Nat]]
  <2>1. DOMAIN est' = Nodes /\ DOMAIN eft' = Nodes
    BY <1>5
  <2>2. est' = [n \in Nodes |-> est'[n]] /\ eft' = [n \in Nodes |-> eft'[n]]
    BY <1>5
  <2> QED
    BY <1>11, <2>2
<1>13. TimesTypeOK'
  BY <1>2, <1>8, <1>9, <1>12 DEF TimesTypeOK
<1> QED
  BY <1>2, <1>3, <1>6, <1>9, <1>11, <1>13

\* The data of a computed task keeps its time of arrival.
LEMMA ComputeKeepsIncomingEft ==
    ASSUME TInv, NEW t \in Tasks(w), Compute(t), NEW p \in computed, NEW n \in Nodes
    PROVE  IncomingEft(p, n)' = IncomingEft(p, n)
<1>1. p \in Tasks(w) \ {t} /\ w' = w
  BY ComputeEffect DEF TInv, TimesTypeOK
<1>2. BestNode \in Nodes
  BY BestNodeProperty
<1>3. eft'[BestNode][p] = eft[BestNode][p] /\ eft'[n][p] = eft[n][p]
  BY <1>1, <1>2, ComputeEffect
<1> QED
  BY <1>1, <1>3 DEF IncomingEft

LEMMA ComputeKeepsTInv ==
    ASSUME TInv, NEW t \in Tasks(w), Compute(t)
    PROVE  TInv'
<1>1. /\ w' = w /\ s' = s /\ computed' = computed \cup {t}
      /\ t \notin computed /\ Predecessors(w, t) \subseteq computed
      /\ TimesTypeOK'
  BY ComputeEffect
<1>2. IsWorkflow(w) /\ TimesTypeOK /\ computed \subseteq Tasks(w) \ {t}
  BY <1>1 DEF TInv, IInv, TypeOK, TimesTypeOK
<1>3. BestNode \in Nodes
  BY BestNodeProperty
<1>4. IInv'
  <2>1. UNCHANGED vars
    BY <1>1 DEF vars
  <2> QED
    BY <2>1, StepKeepsIInv DEF TInv
<1>5. PredecessorsComputed'
  BY <1>1 DEF TInv, PredecessorsComputed
<1>6. \A u \in Tasks(w), n \in Nodes : ComputationTime(w, u, n)' = ComputationTime(w, u, n)
  BY <1>1 DEF ComputationTime
<1>7. EstFromPredecessor'
  <2> SUFFICES ASSUME NEW u \in computed \cup {t}, NEW n \in Nodes
               PROVE  /\ eft'[n][u] = est'[n][u] + ComputationTime(w, u, n)
                      /\ \/ est'[n][u] = 0
                         \/ \E p \in Predecessors(w, u) : est'[n][u] = IncomingEft(p, n)'
    BY <1>1 DEF EstFromPredecessor
  <2>1. CASE u = t
    <3>1. est'[n][t] = EarliestStart(t, n)
          /\ eft'[n][t] = EarliestStart(t, n) + ComputationTime(w, t, n)
      BY ComputeEffect
    <3>2. EarliestStart(t, n) = 0
          \/ \E p \in Predecessors(w, t) : EarliestStart(t, n) = IncomingEft(p, n)
      BY <1>2, EarliestStartProperty
    <3>3. \A p \in Predecessors(w, t) : IncomingEft(p, n)' = IncomingEft(p, n)
      BY <1>1, ComputeKeepsIncomingEft
    <3> QED
      BY <2>1, <3>1, <3>2, <3>3
  <2>2. CASE u \in computed
    <3>1. est'[n][u] = est[n][u] /\ eft'[n][u] = eft[n][u]
      BY <1>2, <2>2, ComputeEffect
    <3>2. /\ eft[n][u] = est[n][u] + ComputationTime(w, u, n)
          /\ \/ est[n][u] = 0
             \/ \E p \in Predecessors(w, u) : est[n][u] = IncomingEft(p, n)
      BY <2>2 DEF TInv, EstFromPredecessor
    <3>3. Predecessors(w, u) \subseteq computed
      BY <2>2 DEF TInv, PredecessorsComputed
    <3>4. \A p \in Predecessors(w, u) : IncomingEft(p, n)' = IncomingEft(p, n)
      BY <3>3, ComputeKeepsIncomingEft
    <3> QED
      BY <3>1, <3>2, <3>4
  <2> QED
    BY <2>1, <2>2
<1>8. BestNodeHasBestEft'
  <2> SUFFICES ASSUME NEW u \in computed \cup {t}, NEW n \in Nodes
               PROVE  eft'[BestNode][u] <= eft'[n][u]
    BY <1>1 DEF BestNodeHasBestEft
  <2>1. CASE u = t
    <3> DEFINE e == EarliestStart(t, BestNode)
               f == EarliestStart(t, n)
               c == ComputationTime(w, t, BestNode)
               d == ComputationTime(w, t, n)
    <3>1. eft'[BestNode][t] = e + c /\ eft'[n][t] = f + d
      BY <1>3, ComputeEffect
    <3>2. e \in Nat /\ f \in Nat /\ c \in Nat /\ d \in Nat
      BY <1>2, <1>3, EarliestStartProperty, ComputationTimePositive
    <3>3. c <= d
      BY <1>2, BestNodeComputesFastest
    <3>4. e <= f
      <4>1. CASE e = 0
        BY <3>2, <4>1
      <4>2. ASSUME NEW p \in Predecessors(w, t), e = IncomingEft(p, BestNode)
            PROVE  e <= f
        <5>1. p \in Tasks(w) /\ eft[BestNode][p] <= eft[n][p]
          BY <1>1, <1>2 DEF TInv, BestNodeHasBestEft
        <5>2. e = eft[BestNode][p]
          BY <1>2, <1>3, <4>2, <5>1, IncomingEftProperty
        <5>3. eft[BestNode][p] <= IncomingEft(p, n) /\ IncomingEft(p, n) \in Nat
          BY <1>2, <5>1, IncomingEftProperty
        <5>4. IncomingEft(p, n) <= f
          BY <1>2, EarliestStartProperty
        <5> HIDE DEF e, f
        <5> QED
          BY <3>2, <5>2, <5>3, <5>4
      <4> QED
        BY <1>2, <1>3, <4>1, <4>2, EarliestStartProperty
    <3> HIDE DEF e, f, c, d
    <3> QED
      BY <2>1, <3>1, <3>2, <3>3, <3>4
  <2>2. CASE u \in computed
    <3>1. eft'[BestNode][u] = eft[BestNode][u] /\ eft'[n][u] = eft[n][u]
      BY <1>2, <1>3, <2>2, ComputeEffect
    <3> QED
      BY <2>2, <3>1 DEF TInv, BestNodeHasBestEft
  <2> QED
    BY <2>1, <2>2
<1>9. CriticalTrailIsTight'
  <2> DEFINE Tight(u, times_est, times_eft, c) ==
                 IF Predecessors(w, u) = {}
                 THEN times_est[BestNode][u] = 0 /\ c[u] = NoTask
                 ELSE /\ c[u] \in Predecessors(w, u)
                      /\ times_est[BestNode][u] = times_eft[BestNode][c[u]]
                      /\ \A p \in Predecessors(w, u) :
                             times_eft[BestNode][p] <= times_eft[BestNode][c[u]]
  <2> SUFFICES ASSUME NEW u \in computed \cup {t}
               PROVE  Tight(u, est', eft', cpred')
    BY <1>1 DEF CriticalTrailIsTight
  <2>1. CASE u = t
    <3>1. est'[BestNode][t] = EarliestStart(t, BestNode) /\ cpred'[t] \in CriticalPredecessors(t)
      BY <1>3, ComputeEffect
    <3>2. CASE Predecessors(w, t) = {}
      BY <1>2, <1>3, <2>1, <3>1, <3>2, IndependentStartsAtOnce DEF CriticalPredecessors
    <3>3. CASE Predecessors(w, t) # {}
      <4>1. /\ cpred'[t] \in Predecessors(w, t)
            /\ IncomingEft(cpred'[t], BestNode) = EarliestStart(t, BestNode)
        BY <3>1, <3>3 DEF CriticalPredecessors
      <4>2. \A p \in Predecessors(w, t) :
                /\ IncomingEft(p, BestNode) = eft[BestNode][p]
                /\ eft'[BestNode][p] = eft[BestNode][p]
        BY <1>1, <1>2, <1>3, IncomingEftProperty, ComputeEffect
      <4>3. \A p \in Predecessors(w, t) :
                IncomingEft(p, BestNode) <= EarliestStart(t, BestNode)
        BY <1>2, <1>3, EarliestStartProperty
      <4> QED
        BY <2>1, <3>1, <3>3, <4>1, <4>2, <4>3
    <3> QED
      BY <3>2, <3>3
  <2>2. CASE u \in computed
    <3>1. est'[BestNode][u] = est[BestNode][u] /\ cpred'[u] = cpred[u]
      BY <1>2, <1>3, <2>2, ComputeEffect
    <3>2. Tight(u, est, eft, cpred)
      BY <2>2 DEF TInv, CriticalTrailIsTight
    <3>3. Predecessors(w, u) \subseteq computed
      BY <2>2 DEF TInv, PredecessorsComputed
    <3>4. \A p \in Predecessors(w, u) : eft'[BestNode][p] = eft[BestNode][p]
      BY <1>2, <1>3, <3>3, ComputeEffect
    <3> QED
      BY <3>1, <3>2, <3>4
  <2> QED
    BY <2>1, <2>2
\* As long as a task is left to compute, no task is scheduled.
<1>10. \A u \in Tasks(w) : Indices(s.task[u]) = {}
  BY <1>1 DEF TInv, ComputedFirst
<1>11. ComputedFirst' /\ NeverBeforeEst'
  BY <1>1, <1>10 DEF ComputedFirst, NeverBeforeEst
<1> QED
  BY <1>1, <1>4, <1>5, <1>7, <1>8, <1>9, <1>11 DEF TInv

----------------------------------------------------------------------------
\* The copy of p whose data is on n first is not earlier than the times say.
LEMMA DataNotBeforeIncomingEft ==
    ASSUME TInv, UniformBandwidth, NEW p \in Tasks(w), Scheduled(s, p), NEW n \in Nodes
    PROVE  IncomingEft(p, n) <= EarliestDataAvailable(w, s, p, n)
<1>1. IsWorkflow(w) /\ TimesTypeOK /\ s \in Schedules(w)
  BY DEF TInv, IInv, TypeOK
<1>2. PICK k \in Indices(s.task[p]) :
          EarliestDataAvailable(w, s, p, n) = ArrivalTime(w, p, s.task[p][k], n)
  BY <1>1, EarliestDataAvailableProperty
<1> DEFINE i == s.task[p][k]
           d == DataTransfer(w, p)
<1>3. i \in Interval /\ p \in computed /\ eft[i.node][p] <= i.end
  <2>1. s.task[p] \in Seq(Interval)
    BY <1>1 DEF Schedules
  <2> QED
    BY <2>1 DEF TInv, NeverBeforeEst, Indices
<1>4. i.end \in Nat /\ i.node \in Nodes /\ BestNode \in Nodes /\ 0 \in Nodes
  BY <1>3, BestNodeProperty, ClusterAssumption DEF Interval, Nodes
<1>5. /\ eft[BestNode][p] <= eft[i.node][p]
      /\ eft[BestNode][p] \in Nat /\ eft[i.node][p] \in Nat
  BY <1>1, <1>3, <1>4 DEF TInv, BestNodeHasBestEft, TimesTypeOK
<1>6. /\ IncomingEft(p, n) \in Nat
      /\ IncomingEft(p, n) <= eft[BestNode][p] + TransferCost(BestNode, n, d, 0)
      /\ IncomingEft(p, n) <= eft[n][p]
  BY <1>1, IncomingEftProperty
<1>7. DataTime[i.node] = DataTime[0]
  BY <1>4, SameDataTime
<1>8. d * DataTime[0] \in Nat
  <2>1. d \in Nat
    BY <1>1 DEF IsWorkflow, DataTransfer
  <2> QED
    BY <1>4, <2>1, TicksPositive, ProductNat
<1>9. ArrivalTime(w, p, i, n) = IF i.node = n THEN i.end + 0 ELSE i.end + d * DataTime[0]
  BY <1>7 DEF ArrivalTime, TransferCost
<1>10. TransferCost(BestNode, n, d, 0) = 0 \/ TransferCost(BestNode, n, d, 0) = d * DataTime[0]
  BY DEF TransferCost
<1> HIDE DEF i, d
<1>11. CASE i.node = n
  BY <1>3, <1>4, <1>5, <1>6, <1>9, <1>11, <1>2 DEF i
<1>12. CASE i.node # n
  <2> DEFINE e == d * DataTime[0]
  <2>1. e \in Nat /\ ArrivalTime(w, p, i, n) = i.end + e
    BY <1>8, <1>9, <1>12
  <2>2. TransferCost(BestNode, n, d, 0) = 0 \/ TransferCost(BestNode, n, d, 0) = e
    BY <1>10
  <2> HIDE DEF e
  <2>3. IncomingEft(p, n) <= eft[BestNode][p] + e
    BY <1>5, <1>6, <2>1, <2>2
  <2>4. IncomingEft(p, n) <= i.end + e
    BY <1>3, <1>4, <1>5, <1>6, <2>1, <2>3
  <2> QED
    BY <1>2, <2>1, <2>4 DEF i
<1> QED
  BY <1>11, <1>12

LEMMA PlaceKeepsNeverBeforeEst ==
    ASSUME TInv, NEW t \in Tasks(w), NEW n \in Nodes, PlaceComputed(t, n)
    PROVE  NeverBeforeEst'
<1>1. TypeOK /\ NoOverlap /\ TimesTypeOK /\ IsWorkflow(w) /\ s \in Schedules(w)
  BY DEF TInv, IInv, TypeOK
<1>2. /\ Place(t, n) /\ t \in computed
      /\ est' = est /\ eft' = eft /\ computed' = computed
  BY DEF PlaceComputed, times
<1> DEFINE i == NewInterval(w, s, t, n)
<1>3. w' = w /\ i \in Interval /\ i.node = n /\ i.start >= TaskReadyTime(w, s, t, n)
  BY <1>1, <1>2, PlaceEffect
<1>4. i.end = i.start + ComputationTime(w, t, n)
  BY DEF NewInterval
<1> HIDE DEF i
<1>5. i.start \in Nat
  BY <1>3 DEF Interval
<1> SUFFICES ASSUME UniformBandwidth, NEW u \in Tasks(w), NEW k \in Indices(s'.task[u])
             PROVE  LET j == s'.task[u][k]
                    IN  u \in computed /\ est[j.node][u] <= j.start /\ eft[j.node][u] <= j.end
  BY <1>2, <1>3 DEF NeverBeforeEst
<1>6. CASE k \in Indices(s.task[u]) /\ s'.task[u][k] = s.task[u][k]
  BY <1>6 DEF TInv, NeverBeforeEst
<1>7. CASE u = t /\ s'.task[u][k] = i
  <2>1. /\ eft[n][t] = est[n][t] + ComputationTime(w, t, n)
        /\ \/ est[n][t] = 0
           \/ \E p \in Predecessors(w, t) : est[n][t] = IncomingEft(p, n)
    BY <1>2 DEF TInv, EstFromPredecessor
  <2>2. est[n][t] \in Nat /\ ComputationTime(w, t, n) \in Nat
    BY <1>1, ComputationTimePositive DEF TimesTypeOK
  <2>3. est[n][t] <= i.start
    <3>1. CASE est[n][t] = 0
      BY <1>5, <3>1
    <3>2. ASSUME NEW p \in Predecessors(w, t), est[n][t] = IncomingEft(p, n)
          PROVE  est[n][t] <= i.start
      <4>1. p \in Tasks(w) /\ Scheduled(s, p)
        BY <1>2 DEF Place, PredecessorsScheduled, Predecessors
      <4>2. IncomingEft(p, n) <= EarliestDataAvailable(w, s, p, n)
        BY <4>1, DataNotBeforeIncomingEft
      <4>3. EarliestDataAvailable(w, s, p, n) <= TaskReadyTime(w, s, t, n)
        BY <1>1, <4>1, TaskReadyTimeProperty
      <4>4. EarliestDataAvailable(w, s, p, n) \in Nat /\ TaskReadyTime(w, s, t, n) \in Nat
        BY <1>1, <4>1, EarliestDataAvailableProperty, TaskReadyTimeProperty
      <4> QED
        BY <1>3, <1>5, <2>2, <3>2, <4>2, <4>3, <4>4
    <3> QED
      BY <2>1, <3>1, <3>2
  <2>4. eft[n][t] <= i.end
    BY <1>4, <1>5, <2>1, <2>2, <2>3
  <2> QED
    BY <1>2, <1>3, <1>7, <2>3, <2>4
<1> QED
  BY <1>1, <1>2, <1>6, <1>7, TaskIntervalsAfter DEF i

LEMMA PlaceKeepsTInv ==
    ASSUME TInv, NEW t \in Tasks(w), NEW n \in Nodes, PlaceComputed(t, n)
    PROVE  TInv'
<1>1. /\ Place(t, n) /\ computed = Tasks(w) /\ w' = w
      /\ est' = est /\ eft' = eft /\ cpred' = cpred /\ computed' = computed
  BY DEF PlaceComputed, Place, times
<1>2. IInv'
  <2>1. Next
    BY <1>1 DEF Next
  <2> QED
    BY <2>1, StepKeepsIInv DEF TInv
<1>3. TimesTypeOK'
  BY <1>1 DEF TInv, TimesTypeOK
<1>4. PredecessorsComputed' /\ ComputedFirst'
  BY <1>1 DEF TInv, PredecessorsComputed, ComputedFirst
<1>5. EstFromPredecessor'
  BY <1>1, ZenonT(40) DEF TInv, EstFromPredecessor, IncomingEft, ComputationTime
<1>6. BestNodeHasBestEft'
  BY <1>1 DEF TInv, BestNodeHasBestEft
<1>7. CriticalTrailIsTight'
  BY <1>1 DEF TInv, CriticalTrailIsTight
<1>8. NeverBeforeEst'
  BY PlaceKeepsNeverBeforeEst
<1> QED
  BY <1>2, <1>3, <1>4, <1>5, <1>6, <1>7, <1>8 DEF TInv

LEMMA StepKeepsTInv == TInv /\ [TimesNext]_<<vars, times>> => TInv'
<1> SUFFICES ASSUME TInv, [TimesNext]_<<vars, times>> PROVE TInv'
  OBVIOUS
<1>1. CASE TimesNext
  BY <1>1, ComputeKeepsTInv, PlaceKeepsTInv DEF TimesNext
<1>2. CASE UNCHANGED <<vars, times>>
  <2>1. /\ w' = w /\ s' = s
        /\ est' = est /\ eft' = eft /\ cpred' = cpred /\ computed' = computed
    BY <1>2 DEF vars, times
  <2>2. IInv'
    BY <1>2, StepKeepsIInv DEF TInv
  <2>3. TimesTypeOK' /\ PredecessorsComputed' /\ ComputedFirst'
    BY <2>1 DEF TInv, TimesTypeOK, PredecessorsComputed, ComputedFirst
  <2>4. EstFromPredecessor'
    BY <2>1 DEF TInv, EstFromPredecessor, IncomingEft, ComputationTime
  <2>5. BestNodeHasBestEft' /\ CriticalTrailIsTight'
    BY <2>1 DEF TInv, BestNodeHasBestEft, CriticalTrailIsTight
  <2>6. NeverBeforeEst'
    BY <2>1 DEF TInv, NeverBeforeEst
  <2> QED
    BY <2>2, <2>3, <2>4, <2>5, <2>6 DEF TInv
<1> QED
  BY <1>1, <1>2

THEOREM TimesInvariance == TimesSpec => []TInv
<1> QED
  BY TimesInitEstablishesTInv, StepKeepsTInv, PTL DEF TimesSpec

\* The times and the critical predecessors keep their types.
THEOREM TimesTypeCorrect == TimesSpec => []TimesTypeOK
<1>1. TInv => TimesTypeOK
  BY DEF TInv
<1> QED
  BY <1>1, TimesInvariance, PTL

\* No node finishes a task before the node of the best performance can.
THEOREM BestNodeAlwaysBest == TimesSpec => []BestNodeHasBestEft
<1>1. TInv => BestNodeHasBestEft
  BY DEF TInv
<1> QED
  BY <1>1, TimesInvariance, PTL

\* With equal bandwidths no schedule starts or ends a task before its times.
THEOREM TimesAreBounds == TimesSpec => []NeverBeforeEst
<1>1. TInv => NeverBeforeEst
  BY DEF TInv
<1> QED
  BY <1>1, TimesInvariance, PTL

\* On the best node the trail of critical predecessors has no gap.
THEOREM CriticalTrailAlwaysTight == TimesSpec => []CriticalTrailIsTight
<1>1. TInv => CriticalTrailIsTight
  BY DEF TInv
<1> QED
  BY <1>1, TimesInvariance, PTL

----------------------------------------------------------------------------
\* Distinct elements have distinct keys, which are whole numbers.
Keys(S, key) ==
    /\ \A x \in S : key[x] \in Int
    /\ \A x, y \in S : key[x] = key[y] => x = y

\* An element behind another is behind more of them.
LEMMA NumBelowProperty ==
    ASSUME NEW S, IsFiniteSet(S), NEW key, Keys(S, key)
    PROVE  /\ \A x \in S : NumBelow(S, key, x) \in 0 .. Cardinality(S) - 1
           /\ \A x, z \in S : key[x] < key[z] => NumBelow(S, key, x) < NumBelow(S, key, z)
<1> DEFINE Below(x) == {y \in S : key[y] < key[x]}
<1>1. \A x \in S : key[x] \in Int
  BY DEF Keys
<1>2. Cardinality(S) \in Nat
  BY FS_CardinalityType
<1>3. \A x \in S : Below(x) \in SUBSET S /\ x \notin Below(x)
  BY <1>1
<1>4. \A x, z \in S : key[x] < key[z] => Below(x) \subseteq Below(z) /\ x \in Below(z)
  BY <1>1
<1> HIDE DEF Below
<1>5. \A x \in S : IsFiniteSet(Below(x)) /\ Cardinality(Below(x)) \in Nat
  BY <1>3, FS_Subset, FS_CardinalityType
<1>6. ASSUME NEW x \in S PROVE Cardinality(Below(x)) \in 0 .. Cardinality(S) - 1
  <2>1. /\ Cardinality(Below(x)) <= Cardinality(S)
        /\ Cardinality(S) = Cardinality(Below(x)) => S = Below(x)
    BY <1>3, FS_Subset
  <2>2. S # Below(x)
    BY <1>3
  <2> QED
    BY <1>2, <1>5, <2>1, <2>2
<1>7. ASSUME NEW x \in S, NEW z \in S, key[x] < key[z]
      PROVE  Cardinality(Below(x)) < Cardinality(Below(z))
  <2>1. Below(x) \in SUBSET Below(z) /\ IsFiniteSet(Below(z))
    BY <1>4, <1>5, <1>7
  <2>2. /\ Cardinality(Below(x)) <= Cardinality(Below(z))
        /\ Cardinality(Below(z)) = Cardinality(Below(x)) => Below(z) = Below(x)
    BY <2>1, FS_Subset
  <2>3. Below(z) # Below(x)
    BY <1>3, <1>4, <1>7
  <2> QED
    BY <1>5, <2>2, <2>3
<1> QED
  BY <1>6, <1>7 DEF Below, NumBelow

\* Ascending lists the elements, each once, by ascending keys.
LEMMA AscendingProperty ==
    ASSUME NEW S, IsFiniteSet(S), NEW key, Keys(S, key)
    PROVE  LET q == Ascending(S, key)
           IN  /\ q \in Seq(S) /\ Len(q) = Cardinality(S)
               /\ \A k \in 1 .. Len(q) : q[k] \in S
               /\ \A x \in S : \E k \in 1 .. Len(q) : q[k] = x
               /\ \A j, k \in 1 .. Len(q) : j < k <=> key[q[j]] < key[q[k]]
<1> DEFINE rank(x) == NumBelow(S, key, x)
           N == Cardinality(S)
           r == [x \in S |-> rank(x) + 1]
           q == Ascending(S, key)
<1>1. N \in Nat /\ IsFiniteSet(1 .. N) /\ Cardinality(1 .. N) = N
  <2>1. N \in Nat
    BY FS_CardinalityType
  <2>2. IsFiniteSet(1 .. N) /\ Cardinality(1 .. N) = IF 1 > N THEN 0 ELSE N - 1 + 1
    BY <2>1, FS_Interval
  <2> QED
    BY <2>1, <2>2
<1>2. /\ \A x \in S : rank(x) \in 0 .. N - 1
      /\ \A x, z \in S : key[x] < key[z] => rank(x) < rank(z)
  BY NumBelowProperty
<1>3. q = [k \in 1 .. N |-> CHOOSE x \in S : rank(x) = k - 1]
  BY DEF Ascending
<1> HIDE DEF rank, N, q
<1>4. \A x, z \in S : rank(x) = rank(z) => x = z
  <2> SUFFICES ASSUME NEW x \in S, NEW z \in S, rank(x) = rank(z) PROVE x = z
    OBVIOUS
  <2>1. ~(key[x] < key[z]) /\ ~(key[z] < key[x])
    BY <1>1, <1>2
  <2> QED
    BY <2>1 DEF Keys
<1>5. r \in Injection(S, 1 .. N)
  <2>1. r \in [S -> 1 .. N]
    BY <1>1, <1>2
  <2>2. \A x, z \in S : r[x] = r[z] => x = z
    BY <1>1, <1>2, <1>4
  <2> HIDE DEF r
  <2> QED
    BY <2>1, <2>2 DEF Injection, IsInjective
<1>6. r \in Surjection(S, 1 .. N)
  <2> HIDE DEF r
  <2>1. Cardinality(S) = Cardinality(1 .. N)
    BY <1>1 DEF N
  <2> QED
    BY <1>1, <1>5, <2>1, FS_Injection
<1>7. \A k \in 1 .. N : \E x \in S : rank(x) = k - 1
  <2> SUFFICES ASSUME NEW k \in 1 .. N PROVE \E x \in S : rank(x) = k - 1
    OBVIOUS
  <2>1. PICK x \in S : r[x] = k
    <3> HIDE DEF r
    <3> QED
      BY <1>6 DEF Surjection
  <2> QED
    BY <1>1, <1>2, <2>1
<1>8. \A k \in 1 .. N : q[k] \in S /\ rank(q[k]) = k - 1
  BY <1>3, <1>7
<1>9. q \in Seq(S) /\ Len(q) = N
  <2>1. q \in [1 .. N -> S]
    BY <1>3, <1>8
  <2> QED
    BY <1>1, <2>1
<1>10. ASSUME NEW x \in S PROVE \E k \in 1 .. N : q[k] = x
  <2>1. rank(x) + 1 \in 1 .. N /\ rank(q[rank(x) + 1]) = rank(x) /\ q[rank(x) + 1] \in S
    BY <1>1, <1>2, <1>8
  <2> QED
    BY <1>4, <2>1
<1>11. ASSUME NEW j \in 1 .. N, NEW k \in 1 .. N PROVE j < k <=> key[q[j]] < key[q[k]]
  <2>1. /\ q[j] \in S /\ q[k] \in S /\ rank(q[j]) = j - 1 /\ rank(q[k]) = k - 1
        /\ key[q[j]] \in Int /\ key[q[k]] \in Int
    BY <1>8 DEF Keys
  <2>2. key[q[j]] = key[q[k]] => q[j] = q[k]
    BY <2>1 DEF Keys
  <2>3. /\ key[q[j]] < key[q[k]] => j - 1 < k - 1
        /\ key[q[k]] < key[q[j]] => k - 1 < j - 1
        /\ key[q[j]] = key[q[k]] => j - 1 = k - 1
    BY <1>2, <2>1, <2>2
  <2> QED
    BY <2>1, <2>3
<1> QED
  BY <1>8, <1>9, <1>10, <1>11 DEF q, N

LEMMA InOrderProperty ==
    ASSUME IsWorkflow(w), NEW tasks \in SUBSET Tasks(w)
    PROVE  LET q == InOrder(tasks)
           IN  /\ q \in Seq(tasks) /\ Len(q) = Cardinality(tasks)
               /\ \A k \in 1 .. Len(q) : q[k] \in tasks
               /\ \A t \in tasks : \E k \in 1 .. Len(q) : q[k] = t
               /\ \A j, k \in 1 .. Len(q) : j < k <=> w.position[q[j]] < w.position[q[k]]
<1>1. IsFiniteSet(tasks)
  BY TasksFinite, FS_Subset
<1>2. Keys(tasks, w.position)
  <2>1. /\ \A t \in tasks : t \in Tasks(w) /\ w.position[t] \in Int
        /\ \A t, u \in Tasks(w) : w.position[t] = w.position[u] => t = u
    BY PositionType DEF IsWorkflow
  <2> QED
    BY <2>1 DEF Keys
<1> QED
  BY <1>1, <1>2, AscendingProperty DEF InOrder

LEMMA LexicographicOrder ==
    ASSUME NEW m \in Nat \ {0}, NEW a \in Nat, NEW b \in Nat, a < b,
           NEW i \in 0 .. m - 1, NEW j \in 0 .. m - 1
    PROVE  a * m + i < b * m + j
<1>1. (a + 1) * m <= b * m
  <2>1. PICK d \in Nat : b = (a + 1) + d
    <3>1. b - (a + 1) \in Nat
      OBVIOUS
    <3> QED
      BY <3>1
  <2>2. d * m \in Nat
    BY ProductNat
  <2>3. b * m = (a + 1) * m + d * m
    BY <2>1
  <2>4. (a + 1) * m \in Nat
    OBVIOUS
  <2> QED
    BY <2>2, <2>3, <2>4
<1>2. (a + 1) * m = a * m + m
  OBVIOUS
<1>3. a * m \in Nat /\ b * m \in Nat
  BY ProductNat
<1> QED
  BY <1>1, <1>2, <1>3

Groups(x) == [Nodes -> SUBSET Tasks(x)]

\* schedule_from_groups goes through the tasks in topological order.
LEMMA PlacementsProperty ==
    ASSUME IsWorkflow(w), NEW g \in Groups(w)
    PROVE  LET q == Placements(g)
           IN  /\ q \in Seq(Tasks(w) \X Nodes) /\ Len(q) \in Nat
               /\ \A k \in 1 .. Len(q) : q[k] \in Tasks(w) \X Nodes /\ q[k][1] \in g[q[k][2]]
               /\ \A n \in Nodes : \A t \in g[n] : \E k \in 1 .. Len(q) : q[k] = <<t, n>>
               /\ \A j, k \in 1 .. Len(q) :
                      w.position[q[j][1]] < w.position[q[k][1]] => j < k
<1> DEFINE all == Tasks(w) \X Nodes
           S == {place \in all : place[1] \in g[place[2]]}
           key == [place \in all |-> w.position[place[1]] * NumNodes + place[2]]
           q == Placements(g)
<1>1. /\ NumNodes \in Nat \ {0} /\ \A n \in Nodes : n \in 0 .. NumNodes - 1
      /\ \A t \in Tasks(w) : w.position[t] \in Nat
      /\ \A t, u \in Tasks(w) : w.position[t] = w.position[u] => t = u
  <2>1. \A t \in Tasks(w) : t \in Nat
    BY DEF Tasks, IsWorkflow
  <2> QED
    BY <2>1, ClusterAssumption DEF IsWorkflow, Nodes
<1>2. \A x \in all : key[x] = w.position[x[1]] * NumNodes + x[2] /\ key[x] \in Int
  BY <1>1
<1>3. \A x, y \in all : w.position[x[1]] < w.position[y[1]] => key[x] < key[y]
  <2> SUFFICES ASSUME NEW x \in all, NEW y \in all, w.position[x[1]] < w.position[y[1]]
               PROVE  key[x] < key[y]
    OBVIOUS
  <2>1. /\ w.position[x[1]] \in Nat /\ w.position[y[1]] \in Nat
        /\ x[2] \in 0 .. NumNodes - 1 /\ y[2] \in 0 .. NumNodes - 1
    BY <1>1
  <2>2. w.position[x[1]] * NumNodes + x[2] < w.position[y[1]] * NumNodes + y[2]
    BY <1>1, <2>1, LexicographicOrder
  <2> QED
    BY <1>2, <2>2
<1>4. Keys(S, key)
  <2>1. ASSUME NEW x \in all, NEW y \in all, key[x] = key[y] PROVE x = y
    <3>1. w.position[x[1]] = w.position[y[1]]
      <4>1. w.position[x[1]] \in Nat /\ w.position[y[1]] \in Nat
        BY <1>1
      <4>2. key[x] \in Int /\ ~(key[x] < key[y]) /\ ~(key[y] < key[x])
        BY <1>2, <2>1
      <4> HIDE DEF key
      <4> QED
        BY <1>3, <4>1, <4>2
    <3>2. x[1] = y[1]
      BY <1>1, <3>1
    <3>3. x[2] = y[2]
      <4>1. w.position[x[1]] * NumNodes \in Nat /\ x[2] \in Int /\ y[2] \in Int
        BY <1>1, ProductNat
      <4>2. w.position[x[1]] * NumNodes + x[2] = w.position[x[1]] * NumNodes + y[2]
        BY <1>2, <2>1, <3>2
      <4> QED
        BY <4>1, <4>2
    <3> QED
      BY <3>2, <3>3
  <2> HIDE DEF key
  <2> QED
    BY <1>2, <2>1 DEF Keys
<1>5. IsFiniteSet(S)
  <2>1. IsFiniteSet(Tasks(w)) /\ IsFiniteSet(Nodes)
    <3>1. 0 \in Int /\ NumNodes - 1 \in Int
      BY <1>1
    <3> QED
      BY <3>1, TasksFinite, FS_Interval DEF Nodes
  <2>2. IsFiniteSet(all)
    BY <2>1, FS_Product
  <2>3. S \in SUBSET all
    OBVIOUS
  <2> QED
    BY <2>2, <2>3, FS_Subset
<1>6. q = Ascending(S, key)
  BY DEF Placements
<1>7. /\ \A x \in S : x \in all /\ x[1] \in g[x[2]]
      /\ \A n \in Nodes : \A t \in g[n] : <<t, n>> \in S
  BY DEF Groups
<1> HIDE DEF S, key, q
<1>8. /\ q \in Seq(S) /\ Len(q) = Cardinality(S)
      /\ \A k \in 1 .. Len(q) : q[k] \in S
      /\ \A x \in S : \E k \in 1 .. Len(q) : q[k] = x
      /\ \A j, k \in 1 .. Len(q) : j < k <=> key[q[j]] < key[q[k]]
  BY <1>4, <1>5, <1>6, AscendingProperty
<1>9. q \in Seq(all) /\ Len(q) \in Nat
  BY <1>7, <1>8
<1>10. \A k \in 1 .. Len(q) : q[k] \in all /\ q[k][1] \in g[q[k][2]]
  BY <1>7, <1>8
<1>11. \A n \in Nodes : \A t \in g[n] : \E k \in 1 .. Len(q) : q[k] = <<t, n>>
  BY <1>7, <1>8
<1>12. \A j, k \in 1 .. Len(q) : w.position[q[j][1]] < w.position[q[k][1]] => j < k
  BY <1>3, <1>8, <1>10
<1> QED
  BY <1>9, <1>10, <1>11, <1>12 DEF q

----------------------------------------------------------------------------
\* Every interval starts when the data of its task's predecessors are there.
DataArrives(x, y) ==
    \A t \in Tasks(x) : \A k \in Indices(y.task[t]) : \A p \in Predecessors(x, t) :
        \E c \in Indices(y.task[p]) :
            ArrivalTime(x, p, y.task[p][c], y.task[t][k].node) <= y.task[t][k].start

\* An insertion keeps what is there and adds one interval of t on n.
LEMMA InsertIntoNodeAppends ==
    ASSUME NEW x, IsWorkflow(x), NEW y \in Schedules(x), NEW t \in Tasks(x), NEW n \in Nodes,
           \A m \in Nodes : Disjoint(y.node[m])
    PROVE  LET r == InsertIntoNode(x, y, t, n)
               i == NewInterval(x, y, t, n)
           IN  /\ \A u \in Tasks(x) : \A k \in Indices(y.task[u]) :
                      k \in Indices(r.task[u]) /\ r.task[u][k] = y.task[u][k]
               /\ \A u \in Tasks(x) : \A k \in Indices(r.task[u]) :
                      \/ k \in Indices(y.task[u]) /\ r.task[u][k] = y.task[u][k]
                      \/ u = t /\ r.task[u][k] = i
               /\ \E k \in Indices(r.task[t]) : r.task[t][k] = i
<1> DEFINE r == InsertIntoNode(x, y, t, n)
           i == NewInterval(x, y, t, n)
<1>1. r.task = [y.task EXCEPT ![t] = Append(y.task[t], i)]
  BY DEF InsertIntoNode, Schedules
<1>2. i \in Interval
  BY NewIntervalProperties
<1>3. y.task \in [Tasks(x) -> Seq(Interval)]
  BY DEF Schedules
<1> HIDE DEF r, i
<1>4. r.task[t] = Append(y.task[t], i) /\ \A u \in Tasks(x) : u # t => r.task[u] = y.task[u]
  BY <1>1, <1>3
<1>5. /\ Len(r.task[t]) = Len(y.task[t]) + 1 /\ Len(y.task[t]) \in Nat
      /\ r.task[t][Len(y.task[t]) + 1] = i
      /\ \A k \in 1 .. Len(y.task[t]) : r.task[t][k] = y.task[t][k]
  BY <1>2, <1>3, <1>4
<1>6. \A u \in Tasks(x) : \A k \in Indices(y.task[u]) :
          k \in Indices(r.task[u]) /\ r.task[u][k] = y.task[u][k]
  BY <1>4, <1>5, SMTT(30) DEF Indices
<1>7. \A u \in Tasks(x) : \A k \in Indices(r.task[u]) :
          \/ k \in Indices(y.task[u]) /\ r.task[u][k] = y.task[u][k]
          \/ u = t /\ r.task[u][k] = i
  <2> SUFFICES ASSUME NEW u \in Tasks(x), NEW k \in Indices(r.task[u])
               PROVE  \/ k \in Indices(y.task[u]) /\ r.task[u][k] = y.task[u][k]
                      \/ u = t /\ r.task[u][k] = i
    OBVIOUS
  <2>1. CASE u # t
    BY <1>4, <2>1
  <2>2. CASE u = t
    <3>1. k \in 1 .. Len(y.task[t]) \/ k = Len(y.task[t]) + 1
      BY <1>5, <2>2 DEF Indices
    <3> QED
      BY <1>5, <2>2, <3>1 DEF Indices
  <2> QED
    BY <2>1, <2>2
<1>8. \E k \in Indices(r.task[t]) : r.task[t][k] = i
  BY <1>5 DEF Indices
<1> QED
  BY <1>6, <1>7, <1>8 DEF r, i

LEMMA InsertKeepsDataArrives ==
    ASSUME NEW x, IsWorkflow(x), NEW y \in Schedules(x), NEW t \in Tasks(x), NEW n \in Nodes,
           \A m \in Nodes : Disjoint(y.node[m]),
           PredecessorsScheduled(x, y, t), DataArrives(x, y)
    PROVE  DataArrives(x, InsertIntoNode(x, y, t, n))
<1> DEFINE r == InsertIntoNode(x, y, t, n)
           i == NewInterval(x, y, t, n)
<1>1. /\ \A u \in Tasks(x) : \A k \in Indices(y.task[u]) :
             k \in Indices(r.task[u]) /\ r.task[u][k] = y.task[u][k]
      /\ \A u \in Tasks(x) : \A k \in Indices(r.task[u]) :
             \/ k \in Indices(y.task[u]) /\ r.task[u][k] = y.task[u][k]
             \/ u = t /\ r.task[u][k] = i
  BY InsertIntoNodeAppends, SMTT(30)
<1>2. /\ i.node = n /\ i.start \in Nat
      /\ i.start >= TaskReadyTime(x, y, t, n) /\ TaskReadyTime(x, y, t, n) \in Nat
  <2>1. i \in Interval /\ i.node = n /\ i.start >= TaskReadyTime(x, y, t, n)
    BY NewIntervalProperties
  <2>2. TaskReadyTime(x, y, t, n) \in Nat
    BY TaskReadyTimeProperty
  <2> QED
    BY <2>1, <2>2 DEF Interval
<1>3. \A p \in Predecessors(x, t) : \E c \in Indices(y.task[p]) :
          ArrivalTime(x, p, y.task[p][c], n) <= i.start
  <2> SUFFICES ASSUME NEW p \in Predecessors(x, t)
               PROVE  \E c \in Indices(y.task[p]) : ArrivalTime(x, p, y.task[p][c], n) <= i.start
    OBVIOUS
  <2>1. p \in Tasks(x) /\ Scheduled(y, p)
    BY DEF Predecessors, PredecessorsScheduled
  <2>2. /\ EarliestDataAvailable(x, y, p, n) \in Nat
        /\ \E c \in Indices(y.task[p]) :
               EarliestDataAvailable(x, y, p, n) = ArrivalTime(x, p, y.task[p][c], n)
    BY <2>1, EarliestDataAvailableProperty
  <2>3. EarliestDataAvailable(x, y, p, n) <= TaskReadyTime(x, y, t, n)
    BY <2>1, TaskReadyTimeProperty
  <2> HIDE DEF i
  <2>4. EarliestDataAvailable(x, y, p, n) <= i.start
    BY <1>2, <2>2, <2>3
  <2> QED
    BY <2>2, <2>4
<1> HIDE DEF r, i
<1> SUFFICES ASSUME NEW u \in Tasks(x), NEW k \in Indices(r.task[u]), NEW p \in Predecessors(x, u)
             PROVE  \E c \in Indices(r.task[p]) :
                        ArrivalTime(x, p, r.task[p][c], r.task[u][k].node) <= r.task[u][k].start
  BY DEF DataArrives, r
<1>4. p \in Tasks(x)
  BY DEF Predecessors
<1>5. \E c \in Indices(y.task[p]) :
          ArrivalTime(x, p, y.task[p][c], r.task[u][k].node) <= r.task[u][k].start
  <2>1. CASE k \in Indices(y.task[u]) /\ r.task[u][k] = y.task[u][k]
    BY <2>1 DEF DataArrives
  <2>2. CASE u = t /\ r.task[u][k] = i
    BY <1>2, <1>3, <2>2
  <2> QED
    BY <1>1, <2>1, <2>2
<1> QED
  BY <1>1, <1>4, <1>5

\* With equal bandwidths data that arrive in time are found by is_valid.
LEMMA ArrivedDataFit ==
    ASSUME UniformBandwidth, NEW x, IsWorkflow(x), NEW y \in Schedules(x), DataArrives(x, y),
           NEW t \in Tasks(x), NEW k \in Indices(y.task[t]), NEW p \in Predecessors(x, t)
    PROVE  FittingCopies(x, y, p, y.task[t][k]) # {}
<1> DEFINE i == y.task[t][k]
<1>1. PICK c \in Indices(y.task[p]) : ArrivalTime(x, p, y.task[p][c], i.node) <= i.start
  BY DEF DataArrives
<1>2. p \in Tasks(x)
  BY DEF Predecessors
<1>3. i.node \in Nodes /\ y.task[p][c].node \in Nodes
  <2>1. y.task[t] \in Seq(Interval) /\ y.task[p] \in Seq(Interval)
    BY <1>2 DEF Schedules
  <2>2. i \in Interval /\ y.task[p][c] \in Interval
    BY <2>1 DEF Indices
  <2> QED
    BY <2>2 DEF Interval
<1>4. TransferCost(i.node, y.task[p][c].node, DataTransfer(x, p), i.node)
          = TransferCost(y.task[p][c].node, i.node, DataTransfer(x, p), y.task[p][c].node)
  <2>1. DataTime[i.node] = DataTime[y.task[p][c].node]
    BY <1>3, SameDataTime
  <2> QED
    BY <2>1 DEF TransferCost
<1>5. c \in FittingCopies(x, y, p, i)
  BY <1>1, <1>4 DEF FittingCopies, ArrivalTime
<1> QED
  BY <1>5

----------------------------------------------------------------------------
\* The schedules after each of the first m placements, as ScheduleOf has them.
WithPlacement(x, places, k, schedules) ==
    {InsertIntoNode(x, y, place[1], place[2]) : y \in schedules, place \in {places[k]}}

BuiltUpTo(x, places, f, m) ==
    f = [k \in 0 .. m |->
            IF k = 0 THEN {NewSchedule(x, FALSE)} ELSE WithPlacement(x, places, k, f[k - 1])]

ScheduleOfPlacements(x, places) ==
    CHOOSE y \in (CHOOSE f : BuiltUpTo(x, places, f, Len(places)))[Len(places)] : TRUE

LEMMA ScheduleOfIsBuilt == ASSUME NEW g PROVE ScheduleOf(g) = ScheduleOfPlacements(w, Placements(g))
BY DEF ScheduleOf, ScheduleOfPlacements, BuiltUpTo, WithPlacement

LEMMA SameSchedule == ASSUME w' = w PROVE \A g : ScheduleOf(g)' = ScheduleOf(g)
<1>1. \A g : Placements(g)' = Placements(g)
  BY DEF Placements
<1>2. ASSUME NEW g PROVE ScheduleOf(g)' = ScheduleOf(g)
  <2>1. ScheduleOf(g)' = ScheduleOfPlacements(w, Placements(g))'
    BY DEF ScheduleOf, ScheduleOfPlacements, BuiltUpTo, WithPlacement
  <2>2. ScheduleOfPlacements(w, Placements(g))' = ScheduleOfPlacements(w, Placements(g))
    BY <1>1
  <2> QED
    BY <2>1, <2>2, ScheduleOfIsBuilt
<1> QED
  BY <1>2

\* A least length for which they do not exist would be one more than one for
\* which they do.
LEMMA BuiltExists ==
    ASSUME NEW places, NEW n \in Nat
    PROVE  \E f : BuiltUpTo(w, places, f, n)
<1> DEFINE S == {m \in 0 .. n : ~\E f : BuiltUpTo(w, places, f, m)}
<1> SUFFICES ASSUME S # {} PROVE FALSE
  OBVIOUS
<1>1. PICK m \in S : \A k \in S : m <= k
  <2>1. S \in SUBSET Nat
    OBVIOUS
  <2> QED
    BY <2>1, LeastOf
<1>2. m # 0
  <2>1. BuiltUpTo(w, places, [k \in 0 .. 0 |-> {NewSchedule(w, FALSE)}], 0)
    BY DEF BuiltUpTo
  <2> QED
    BY <2>1
<1>3. PICK f : BuiltUpTo(w, places, f, m - 1)
  BY <1>1, <1>2
<1>4. m \in Nat /\ m # 0
  BY <1>2
<1> DEFINE next(k, v) == WithPlacement(w, places, k, v)
           h == [k \in 0 .. m |-> IF k = m THEN next(m, f[m - 1]) ELSE f[k]]
<1>5. \A k \in 0 .. m - 1 : f[k] = IF k = 0 THEN {NewSchedule(w, FALSE)} ELSE next(k, f[k - 1])
  BY <1>3 DEF BuiltUpTo
<1> HIDE DEF next
<1>6. h[m] = next(m, f[m - 1]) /\ \A k \in 0 .. m - 1 : h[k] = f[k]
  BY <1>4
<1> HIDE DEF h
<1>7. \A k \in 0 .. m : h[k] = IF k = 0 THEN {NewSchedule(w, FALSE)} ELSE next(k, h[k - 1])
  <2> SUFFICES ASSUME NEW k \in 0 .. m
               PROVE  h[k] = IF k = 0 THEN {NewSchedule(w, FALSE)} ELSE next(k, h[k - 1])
    OBVIOUS
  <2>1. CASE k = m
    <3>1. m - 1 \in 0 .. m - 1
      BY <1>4
    <3> QED
      BY <1>4, <1>6, <2>1, <3>1
  <2>2. CASE k # m
    <3>1. k \in 0 .. m - 1 /\ (k # 0 => k - 1 \in 0 .. m - 1)
      BY <1>4, <2>2
    <3> QED
      BY <1>5, <1>6, <3>1
  <2> QED
    BY <2>1, <2>2
<1>8. h = [k \in 0 .. m |-> IF k = 0 THEN {NewSchedule(w, FALSE)} ELSE next(k, h[k - 1])]
  <2>1. h = [k \in 0 .. m |-> h[k]]
    BY DEF h
  <2> QED
    BY <1>7, <2>1
<1>9. BuiltUpTo(w, places, h, m)
  BY <1>8 DEF BuiltUpTo, next
<1> QED
  BY <1>9

(***************************************************************************)
(* What a schedule has to do with the groups after k placements: only      *)
(* tasks of a node's group run on it, the first k of them do, and what     *)
(* starts has its data, if no predecessor is missing in the groups.        *)
(***************************************************************************)
Follows(g, y) ==
    \A t \in Tasks(w) : \A c \in Indices(y.task[t]) : t \in g[y.task[t][c].node]

Places(places, y, k) ==
    \A i \in 1 .. k : \E c \in Indices(y.task[places[i][1]]) :
        y.task[places[i][1]][c].node = places[i][2]

BuiltOf(g, y, k) ==
    /\ y \in Schedules(w)
    /\ \A m \in Nodes : Disjoint(y.node[m])
    /\ Follows(g, y)
    /\ Places(Placements(g), y, k)
    /\ CanSchedule(g) => DataArrives(w, y)

LEMMA EmptyIsBuilt == ASSUME NEW g PROVE BuiltOf(g, NewSchedule(w, FALSE), 0)
<1> DEFINE y == NewSchedule(w, FALSE)
<1>1. /\ y \in Schedules(w) /\ \A n \in Nodes : Disjoint(y.node[n])
      /\ \A t \in Tasks(w) : y.task[t] = << >>
  BY NewScheduleProperties
<1> HIDE DEF y
<1>2. \A t \in Tasks(w) : Indices(y.task[t]) = {}
  BY <1>1 DEF Indices
<1>3. Follows(g, y) /\ Places(Placements(g), y, 0)
  BY <1>2 DEF Follows, Places
<1>4. DataArrives(w, y)
  BY <1>2 DEF DataArrives
<1> QED
  BY <1>1, <1>3, <1>4 DEF BuiltOf, y

LEMMA PlacementKeepsBuilt ==
    ASSUME IsWorkflow(w), NEW g \in Groups(w), NEW k \in 1 .. Len(Placements(g)),
           NEW y, BuiltOf(g, y, k - 1)
    PROVE  BuiltOf(g, InsertIntoNode(w, y, Placements(g)[k][1], Placements(g)[k][2]), k)
<1> DEFINE q == Placements(g)
           t == q[k][1]
           n == q[k][2]
           r == InsertIntoNode(w, y, t, n)
           i == NewInterval(w, y, t, n)
<1>1. /\ Len(q) \in Nat
      /\ \A j \in 1 .. Len(q) : q[j] \in Tasks(w) \X Nodes /\ q[j][1] \in g[q[j][2]]
      /\ \A m \in Nodes : \A u \in g[m] : \E j \in 1 .. Len(q) : q[j] = <<u, m>>
      /\ \A j, l \in 1 .. Len(q) : w.position[q[j][1]] < w.position[q[l][1]] => j < l
  BY PlacementsProperty
<1> HIDE DEF q
<1>2. t \in Tasks(w) /\ n \in Nodes /\ t \in g[n]
  BY <1>1 DEF q
<1> HIDE DEF t, n
<1>3. y \in Schedules(w) /\ \A m \in Nodes : Disjoint(y.node[m])
  BY DEF BuiltOf
<1>4. /\ r \in Schedules(w) /\ \A m \in Nodes : Disjoint(r.node[m])
      /\ i.node = n
  <2>1. r \in Schedules(w) /\ \A m \in Nodes : Disjoint(r.node[m])
    BY <1>2, <1>3, InsertIntoNodeProperties
  <2>2. i.node = n
    BY <1>2, <1>3, NewIntervalProperties
  <2> QED
    BY <2>1, <2>2
<1>5. /\ \A u \in Tasks(w) : \A c \in Indices(y.task[u]) :
             c \in Indices(r.task[u]) /\ r.task[u][c] = y.task[u][c]
      /\ \A u \in Tasks(w) : \A c \in Indices(r.task[u]) :
             \/ c \in Indices(y.task[u]) /\ r.task[u][c] = y.task[u][c]
             \/ u = t /\ r.task[u][c] = i
      /\ \E c \in Indices(r.task[t]) : r.task[t][c] = i
  BY <1>2, <1>3, InsertIntoNodeAppends
<1>6. CanSchedule(g) => DataArrives(w, r)
  <2> SUFFICES ASSUME CanSchedule(g) PROVE DataArrives(w, r)
    OBVIOUS
  <2>1. ASSUME NEW p \in Predecessors(w, t) PROVE Scheduled(y, p)
    <3>1. p \in Tasks(w) /\ w.position[p] < w.position[t]
      BY <1>2 DEF Predecessors, IsWorkflow
    <3>2. PICK m \in Nodes : p \in g[m]
      <4>1. p \in UNION Range(g)
        BY <1>2 DEF CanSchedule
      <4> QED
        BY <4>1 DEF Range, Groups
    <3>3. PICK j \in 1 .. Len(q) : q[j] = <<p, m>>
      BY <1>1, <3>2
    <3>4. q[j][1] = p /\ q[j][2] = m
      BY <3>3
    <3>5. j < k
      BY <1>1, <3>1, <3>4 DEF t, q
    <3>6. j \in 1 .. k - 1
      BY <1>1, <3>5 DEF q
    <3>7. \E c \in Indices(y.task[p]) : TRUE
      BY <3>4, <3>6 DEF BuiltOf, Places, q
    <3> QED
      BY <3>7 DEF Scheduled, Indices
  <2>2. PredecessorsScheduled(w, y, t) /\ DataArrives(w, y)
    BY <2>1 DEF PredecessorsScheduled, BuiltOf
  <2> QED
    BY <1>2, <1>3, <2>2, InsertKeepsDataArrives
<1> HIDE DEF r, i
<1>7. Follows(g, r)
  <2> SUFFICES ASSUME NEW u \in Tasks(w), NEW c \in Indices(r.task[u])
               PROVE  u \in g[r.task[u][c].node]
    BY DEF Follows
  <2>1. CASE c \in Indices(y.task[u]) /\ r.task[u][c] = y.task[u][c]
    BY <2>1 DEF BuiltOf, Follows
  <2>2. CASE u = t /\ r.task[u][c] = i
    BY <1>2, <1>4, <2>2
  <2> QED
    BY <1>5, <2>1, <2>2
<1>8. Places(q, r, k)
  <2> SUFFICES ASSUME NEW j \in 1 .. k
               PROVE  \E c \in Indices(r.task[q[j][1]]) : r.task[q[j][1]][c].node = q[j][2]
    BY DEF Places
  <2>1. CASE j = k
    BY <1>4, <1>5, <2>1 DEF t, n
  <2>2. CASE j # k
    <3>1. j \in 1 .. k - 1 /\ j \in 1 .. Len(q)
      BY <1>1, <2>2 DEF q
    <3>2. q[j][1] \in Tasks(w)
      BY <1>1, <3>1
    <3>3. PICK c \in Indices(y.task[q[j][1]]) : y.task[q[j][1]][c].node = q[j][2]
      BY <3>1 DEF BuiltOf, Places, q
    <3> QED
      BY <1>5, <3>2, <3>3
  <2> QED
    BY <2>1, <2>2
<1> QED
  BY <1>4, <1>6, <1>7, <1>8 DEF BuiltOf, r, q, t, n

LEMMA BuiltIsOne ==
    ASSUME IsWorkflow(w), NEW g \in Groups(w), NEW f, NEW n, n = Len(Placements(g)),
           BuiltUpTo(w, Placements(g), f, n)
    PROVE  \A k \in 0 .. n : \E y : f[k] = {y} /\ BuiltOf(g, y, k)
<1> DEFINE S == {k \in 0 .. n : ~\E y : f[k] = {y} /\ BuiltOf(g, y, k)}
<1> SUFFICES ASSUME S # {} PROVE FALSE
  OBVIOUS
<1>1. n \in Nat
  BY PlacementsProperty
<1>2. PICK m \in S : \A k \in S : m <= k
  <2>1. S \in SUBSET Nat
    BY <1>1
  <2> QED
    BY <2>1, LeastOf
<1>3. CASE m = 0
  <2>1. f[0] = {NewSchedule(w, FALSE)}
    BY <1>1 DEF BuiltUpTo
  <2> QED
    BY <1>3, <2>1, EmptyIsBuilt
<1>4. CASE m # 0
  <2>1. m \in 1 .. n /\ m - 1 \in 0 .. n /\ m - 1 \notin S
    BY <1>1, <1>2, <1>4
  <2>2. PICK y : f[m - 1] = {y} /\ BuiltOf(g, y, m - 1)
    BY <2>1
  <2> DEFINE places == Placements(g)
  <2>3. f[m] = WithPlacement(w, places, m, f[m - 1])
    BY <2>1 DEF BuiltUpTo
  <2>4. f[m] = {InsertIntoNode(w, y, places[m][1], places[m][2])}
    BY <2>2, <2>3 DEF WithPlacement
  <2>5. BuiltOf(g, InsertIntoNode(w, y, places[m][1], places[m][2]), m)
    BY <2>1, <2>2, PlacementKeepsBuilt
  <2> QED
    BY <2>4, <2>5
<1> QED
  BY <1>3, <1>4

\* What schedule_from_groups returns, for any groups.
LEMMA ScheduleOfProperty ==
    ASSUME IsWorkflow(w), NEW g \in Groups(w)
    PROVE  LET y == ScheduleOf(g)
           IN  /\ y \in Schedules(w)
               /\ \A m \in Nodes : Disjoint(y.node[m])
               /\ Follows(g, y)
               /\ \A t \in Tasks(w) : Scheduled(y, t) <=> t \in UNION Range(g)
               /\ CanSchedule(g) => DataArrives(w, y)
<1> DEFINE q == Placements(g)
           n == Len(q)
           f == CHOOSE h : BuiltUpTo(w, q, h, n)
           y == ScheduleOf(g)
<1>1. /\ n \in Nat
      /\ \A j \in 1 .. n : q[j] \in Tasks(w) \X Nodes /\ q[j][1] \in g[q[j][2]]
      /\ \A m \in Nodes : \A u \in g[m] : \E j \in 1 .. n : q[j] = <<u, m>>
  BY PlacementsProperty
<1>2. BuiltUpTo(w, q, f, n)
  BY <1>1, BuiltExists
<1>3. y = CHOOSE x \in f[n] : TRUE
  BY ScheduleOfIsBuilt DEF ScheduleOfPlacements
<1>4. BuiltOf(g, y, n)
  <2>1. n \in 0 .. n /\ n = Len(Placements(g))
    BY <1>1
  <2> HIDE DEF f, n
  <2>2. PICK z : f[n] = {z} /\ BuiltOf(g, z, n)
    BY <1>2, <2>1, BuiltIsOne
  <2> QED
    BY <1>3, <2>2
<1> HIDE DEF f, n, q, y
<1>5. y \in Schedules(w) /\ y.task \in [Tasks(w) -> Seq(Interval)]
  BY <1>4 DEF BuiltOf, Schedules
<1>6. ASSUME NEW t \in Tasks(w), Scheduled(y, t) PROVE t \in UNION Range(g)
  <2>1. 1 \in Indices(y.task[t]) /\ y.task[t][1] \in Interval
    BY <1>5, <1>6 DEF Scheduled, Indices
  <2>2. t \in g[y.task[t][1].node] /\ y.task[t][1].node \in Nodes
    BY <1>4, <2>1 DEF BuiltOf, Follows, Interval
  <2> QED
    BY <2>2 DEF Range, Groups
<1>7. ASSUME NEW t \in Tasks(w), t \in UNION Range(g) PROVE Scheduled(y, t)
  <2>1. PICK m \in Nodes : t \in g[m]
    BY <1>7 DEF Range, Groups
  <2>2. PICK j \in 1 .. n : q[j] = <<t, m>>
    BY <1>1, <2>1
  <2>3. \E c \in Indices(y.task[t]) : TRUE
    BY <1>4, <2>2 DEF BuiltOf, Places, q
  <2> QED
    BY <2>3 DEF Scheduled, Indices
<1> QED
  BY <1>4, <1>6, <1>7 DEF BuiltOf, y

----------------------------------------------------------------------------
\* What the earliest times leave behind once all of them are computed: each
\* critical predecessor is one of the predecessors.
TimesKnown ==
    /\ computed = Tasks(w)
    /\ cpred \in [Tasks(w) -> Tasks(w) \cup {NoTask}]
    /\ \A t \in Tasks(w) : Predecessors(w, t) # {} => cpred[t] \in Predecessors(w, t)

Trails(f) ==
    f = [u \in Tasks(w) |-> IF Predecessors(w, u) = {} THEN {} ELSE {cpred[u]} \cup f[cpred[u]]]

LEMMA TrailIsOfTrails ==
    ASSUME NEW t
    PROVE  Trail(t) = (CHOOSE f : Trails(f))[t]
BY DEF Trail, Trails

\* A set with the critical predecessor of t and of each of its elements.
ClosedFrom(t, T) ==
    /\ Predecessors(w, t) # {} => cpred[t] \in T
    /\ \A u \in T : Predecessors(w, u) # {} => cpred[u] \in T

LEMMA TrailsExist == ASSUME TimesKnown PROVE \E f : Trails(f)
<1> DEFINE C(t) == {u \in Tasks(w) : \A T \in SUBSET Tasks(w) : ClosedFrom(t, T) => u \in T}
<1>1. \A t \in Tasks(w) : Predecessors(w, t) # {} =>
          cpred[t] \in Tasks(w) /\ cpred[t] \in Predecessors(w, t)
  BY DEF TimesKnown, Predecessors
<1>2. ASSUME NEW t \in Tasks(w), Predecessors(w, t) = {} PROVE C(t) = {}
  <2>1. ClosedFrom(t, {}) /\ {} \in SUBSET Tasks(w)
    BY <1>2 DEF ClosedFrom
  <2> QED
    BY <2>1
<1>3. ASSUME NEW t \in Tasks(w), Predecessors(w, t) # {}
      PROVE  C(t) = {cpred[t]} \cup C(cpred[t])
  <2> DEFINE c == cpred[t]
  <2>1. c \in Tasks(w)
    BY <1>1, <1>3
  <2>2. \A T \in SUBSET Tasks(w) : ClosedFrom(t, T) => c \in T /\ ClosedFrom(c, T)
    BY <1>3 DEF ClosedFrom
  <2>3. {c} \cup C(c) \subseteq C(t)
    BY <2>1, <2>2
  <2>4. {c} \cup C(c) \in SUBSET Tasks(w)
    BY <2>1
  <2>5. ASSUME NEW u \in {c} \cup C(c), Predecessors(w, u) # {} PROVE cpred[u] \in {c} \cup C(c)
    <3>1. cpred[u] \in Tasks(w)
      BY <1>1, <2>4, <2>5
    <3>2. ASSUME NEW T \in SUBSET Tasks(w), ClosedFrom(c, T) PROVE cpred[u] \in T
      <4>1. u = c \/ u \in T
        BY <3>2
      <4> QED
        BY <2>5, <3>2, <4>1 DEF ClosedFrom
    <3> QED
      BY <3>1, <3>2
  <2>6. ClosedFrom(t, {c} \cup C(c))
    BY <2>5 DEF ClosedFrom
  <2>7. C(t) \subseteq {c} \cup C(c)
    BY <2>4, <2>6
  <2> QED
    BY <2>3, <2>7
<1> HIDE DEF C
<1> DEFINE f == [t \in Tasks(w) |-> C(t)]
<1>4. \A t \in Tasks(w) : C(t) = IF Predecessors(w, t) = {} THEN {} ELSE {cpred[t]} \cup f[cpred[t]]
  BY <1>1, <1>2, <1>3
<1>5. Trails(f)
  BY <1>4 DEF Trails
<1> QED
  BY <1>5

\* A trail ascends the topological order, so that a first task whose trail
\* leaves the workflow would have a predecessor in front of it.
LEMMA TrailType ==
    ASSUME IsWorkflow(w), TimesKnown, NEW t \in Tasks(w)
    PROVE  Trail(t) \subseteq Tasks(w)
<1> DEFINE f == CHOOSE g : Trails(g)
           S == {u \in Tasks(w) : ~(f[u] \subseteq Tasks(w))}
<1>1. Trails(f)
  BY TrailsExist
<1> HIDE DEF f
<1>2. S = {}
  <2> SUFFICES ASSUME S # {} PROVE FALSE
    OBVIOUS
  <2> DEFINE key == [u \in S |-> w.position[u]]
  <2>1. S \in SUBSET Int /\ IsFiniteSet(S) /\ key \in [S -> Int]
    <3>1. S \in SUBSET Tasks(w) /\ Tasks(w) \in SUBSET Int
      BY DEF Tasks
    <3>2. IsFiniteSet(S)
      BY <3>1, TasksFinite, FS_Subset
    <3> QED
      BY <3>1, <3>2, PositionType
  <2> HIDE DEF S
  <2>2. PICK u \in S : \A v \in S : key[u] < key[v] \/ (key[u] = key[v] /\ u <= v)
    <3> HIDE DEF key
    <3> QED
      BY <2>1, LeastExists
  <2>3. u \in Tasks(w) /\ ~(f[u] \subseteq Tasks(w))
    BY DEF S
  <2>4. f[u] = IF Predecessors(w, u) = {} THEN {} ELSE {cpred[u]} \cup f[cpred[u]]
    BY <1>1, <2>3 DEF Trails
  <2>5. Predecessors(w, u) # {} /\ cpred[u] \in Predecessors(w, u)
    BY <2>3, <2>4 DEF TimesKnown
  <2>6. cpred[u] \in Tasks(w) /\ w.position[cpred[u]] < w.position[u]
    BY <2>3, <2>5 DEF Predecessors, IsWorkflow
  <2>7. cpred[u] \in S
    BY <2>3, <2>4, <2>5, <2>6 DEF S
  <2>8. w.position[cpred[u]] \in Int /\ w.position[u] \in Int
    BY <2>3, <2>6, PositionType
  <2> QED
    BY <2>2, <2>6, <2>7, <2>8
<1> QED
  BY <1>2, TrailIsOfTrails DEF f

----------------------------------------------------------------------------
\* Groups that have every task.
AllPlaced(g) == UNION Range(g) = Tasks(w)

LEMMA PlacedTasks ==
    ASSUME NEW g \in Groups(w)
    PROVE  /\ \A t : t \in UNION Range(g) <=> \E n \in Nodes : t \in g[n]
           /\ UNION Range(g) \subseteq Tasks(w)
           /\ AllPlaced(g) <=> \A t \in Tasks(w) : \E n \in Nodes : t \in g[n]
<1>1. \A t : t \in UNION Range(g) <=> \E n \in Nodes : t \in g[n]
  BY DEF Range, Groups
<1>2. \A n \in Nodes : g[n] \subseteq Tasks(w)
  BY DEF Groups
<1> QED
  BY <1>1, <1>2 DEF AllPlaced

LEMMA AllPlacedCanSchedule ==
    ASSUME NEW g \in Groups(w), AllPlaced(g)
    PROVE  CanSchedule(g)
BY DEF AllPlaced, CanSchedule, Predecessors

LEMMA AttemptEffect ==
    ASSUME NEW g \in Groups(w), AllPlaced(g), Attempt(g)
    PROVE  /\ phase' = phase
           /\ IF Improves(g) THEN groups' = g /\ s' = ScheduleOf(g)
              ELSE groups' = groups /\ s' = s
<1>1. CanSchedule(g)
  BY AllPlacedCanSchedule
<1> QED
  BY <1>1 DEF Attempt, Improves

\* Tasks that are moved arrive, and a trail is only added.
LEMMA SplitKeepsTasks ==
    ASSUME IsWorkflow(w), TimesKnown, groups \in Groups(w), node \in Nodes, NEW n \in Nodes,
           NEW tasks, \A k \in 1 .. index + 1 : tasks[k] \in groups[node], index \in Nat
    PROVE  /\ Split(tasks, n) \in Groups(w)
           /\ AllPlaced(groups) => AllPlaced(Split(tasks, n))
           /\ \A m \in Nodes \ {n, node} : Split(tasks, n)[m] = groups[m]
<1> DEFINE moved == {tasks[k] : k \in 1 .. index}
           trail == Trail(tasks[index + 1])
           removed == [groups EXCEPT ![node] = @ \ moved]
           relocated == [removed EXCEPT ![n] = @ \cup moved]
           new == Split(tasks, n)
<1>1. moved \subseteq groups[node] /\ tasks[index + 1] \in groups[node]
  OBVIOUS
<1>2. \A m \in Nodes : groups[m] \subseteq Tasks(w)
  BY DEF Groups
<1>3. trail \subseteq Tasks(w)
  BY <1>1, <1>2, TrailType
<1>4. new = [relocated EXCEPT ![node] = @ \cup trail]
  BY DEF Split
<1> HIDE DEF moved, trail, new
<1>5. new \in [Nodes -> SUBSET Tasks(w)]
  <2>1. moved \subseteq Tasks(w)
    BY <1>1, <1>2
  <2> QED
    BY <1>3, <1>4, <2>1 DEF Groups
<1>6. /\ \A m \in Nodes \ {node} : groups[m] \subseteq new[m]
      /\ groups[node] \ moved \subseteq new[node]
      /\ moved \subseteq new[n]
      /\ \A m \in Nodes \ {n, node} : new[m] = groups[m]
  BY <1>4 DEF Groups
<1>7. ASSUME NEW t \in Tasks(w), NEW m \in Nodes, t \in groups[m]
      PROVE  \E l \in Nodes : t \in new[l]
  BY <1>6, <1>7
<1>8. AllPlaced(groups) => AllPlaced(new)
  BY <1>5, <1>7, PlacedTasks DEF Groups
<1> QED
  BY <1>5, <1>6, <1>8 DEF new, Groups

LEMMA MergedKeepsTasks ==
    ASSUME groups \in Groups(w), node \in Nodes
    PROVE  /\ Merged \in Groups(w)
           /\ AllPlaced(groups) => AllPlaced(Merged)
<1>1. BestNode \in Nodes
  BY BestNodeProperty
<1>2. Merged \in Groups(w)
  BY <1>1 DEF Merged, Groups
<1>3. /\ \A m \in Nodes \ {node} : groups[m] \subseteq Merged[m]
      /\ groups[node] \subseteq Merged[BestNode]
  BY <1>1 DEF Merged, Groups
<1>4. \A t \in Tasks(w) : (\E m \in Nodes : t \in groups[m]) => \E m \in Nodes : t \in Merged[m]
  BY <1>1, <1>3
<1> QED
  BY <1>2, <1>4, PlacedTasks

LEMMA AddingKeepsTasks ==
    ASSUME groups \in Groups(w), NEW n \in Nodes, NEW more \in SUBSET Tasks(w),
           NEW new, new = [groups EXCEPT ![n] = groups[n] \cup more]
    PROVE  /\ new \in Groups(w)
           /\ AllPlaced(groups) => AllPlaced(new)
           /\ \A m \in Nodes : groups[m] \subseteq new[m]
           /\ \A m \in Nodes \ {n} : new[m] = groups[m]
           /\ new[n] = groups[n] \cup more
<1>1. /\ new \in Groups(w)
      /\ \A m \in Nodes : groups[m] \subseteq new[m]
      /\ \A m \in Nodes \ {n} : new[m] = groups[m]
      /\ new[n] = groups[n] \cup more
  BY DEF Groups
<1>2. AllPlaced(groups) => AllPlaced(new)
  BY <1>1, PlacedTasks
<1> QED
  BY <1>1, <1>2

----------------------------------------------------------------------------
\* Of two tasks that are neighbours in topological order the second depends on
\* the first.
IsTrail(x, S) ==
    \A t, u \in S :
        /\ x.position[t] < x.position[u]
        /\ \A v \in S : ~(x.position[t] < x.position[v] /\ x.position[v] < x.position[u])
        => <<t, u>> \in x.deps

LEMMA TrailInOrder ==
    ASSUME IsWorkflow(w), NEW S \in SUBSET Tasks(w), IsTrail(w, S)
    PROVE  LET tasks == InOrder(S)
           IN  \A k \in 1 .. Len(tasks) - 1 : <<tasks[k], tasks[k + 1]>> \in w.deps
<1> DEFINE q == InOrder(S)
<1>1. /\ q \in Seq(S) /\ Len(q) = Cardinality(S)
      /\ \A k \in 1 .. Len(q) : q[k] \in S
      /\ \A t \in S : \E k \in 1 .. Len(q) : q[k] = t
      /\ \A j, k \in 1 .. Len(q) : j < k <=> w.position[q[j]] < w.position[q[k]]
  BY InOrderProperty
<1> HIDE DEF q
<1>2. Len(q) \in Nat
  BY <1>1
<1> SUFFICES ASSUME NEW k \in 1 .. Len(q) - 1 PROVE <<q[k], q[k + 1]>> \in w.deps
  BY DEF q
<1>3. k \in 1 .. Len(q) /\ k + 1 \in 1 .. Len(q) /\ k < k + 1
  BY <1>2
<1>4. ASSUME NEW v \in S, w.position[q[k]] < w.position[v], w.position[v] < w.position[q[k + 1]]
      PROVE  FALSE
  <2>1. PICK j \in 1 .. Len(q) : q[j] = v
    BY <1>1
  <2>2. k < j /\ j < k + 1
    BY <1>1, <1>3, <1>4, <2>1
  <2> QED
    BY <1>3, <2>1, <2>2
<1> QED
  BY <1>1, <1>3, <1>4 DEF IsTrail

LEMMA FirstOfTrail ==
    ASSUME IsWorkflow(w), NEW t \in Tasks(w)
    PROVE  IsTrail(w, {} \cup {t})
<1>1. w.position[t] \in Int
  BY PositionType
<1> QED
  BY <1>1 DEF IsTrail

LEMMA TrailUpwards ==
    ASSUME IsWorkflow(w), NEW S \in SUBSET Tasks(w), IsTrail(w, S),
           NEW t \in S, \A u \in S : w.position[t] <= w.position[u],
           NEW p \in Predecessors(w, t)
    PROVE  /\ IsTrail(w, S \cup {p})
           /\ \A u \in S \cup {p} : w.position[p] <= w.position[u]
<1>1. /\ p \in Tasks(w) /\ t \in Tasks(w) /\ <<p, t>> \in w.deps
      /\ w.position[p] < w.position[t]
      /\ \A u \in Tasks(w) : w.position[u] \in Int
  BY PositionType DEF Predecessors, IsWorkflow
<1>2. \A u \in S : w.position[p] < w.position[u]
  BY <1>1
<1>3. ASSUME NEW u \in S \cup {p}, NEW v \in S \cup {p}, w.position[u] < w.position[v],
             \A x \in S \cup {p} : ~(w.position[u] < w.position[x] /\ w.position[x] < w.position[v])
      PROVE  <<u, v>> \in w.deps
  <2>1. v \in S
    BY <1>1, <1>2, <1>3
  <2>2. CASE u \in S
    BY <1>3, <2>1, <2>2 DEF IsTrail
  <2>3. CASE u = p
    <3>1. ~(w.position[t] < w.position[v])
      BY <1>1, <1>3, <2>3
    <3>2. w.position[t] = w.position[v]
      BY <1>1, <2>1, <3>1
    <3>3. t = v
      BY <1>1, <2>1, <3>2 DEF IsWorkflow
    <3> QED
      BY <1>1, <2>3, <3>3
  <2> QED
    BY <1>3, <2>2, <2>3
<1>4. IsTrail(w, S \cup {p})
  BY <1>3 DEF IsTrail
<1> QED
  BY <1>1, <1>2, <1>4

----------------------------------------------------------------------------
(***************************************************************************)
(* The inductive invariant of TDCA.  A trail grows at its first task, on a *)
(* node that is not free.  The tasks left over are placed in topological   *)
(* order behind a schedule of the groups.  From then on every task is in   *)
(* some group, so that the groups can be scheduled; a node is only split   *)
(* where it has a task behind the split; and the source of an edge that is *)
(* still to be refined has not left its node.                              *)
(***************************************************************************)
TrailsGrow ==
    /\ phase \in {"cluster", "bubble"} =>
           \A n \in Nodes : IsTrail(w, groups[n]) /\ (n \in free => groups[n] = {})
    /\ phase = "bubble" =>
           /\ node \notin free
           /\ current \in groups[node]
           /\ \A t \in groups[node] : w.position[current] <= w.position[t]

RestFollowsGroups ==
    phase = "rest" =>
        /\ \A n \in Nodes : Disjoint(s.node[n])
        /\ \A t \in Tasks(w) : Scheduled(s, t) <=> \E n \in Nodes : t \in groups[n]

GroupsScheduled ==
    phase \in {"duplicate", "merge", "refine", "done"} =>
        AllPlaced(groups) /\ s = ScheduleOf(groups)

SplitInside ==
    phase = "duplicate" =>
        /\ \A n \in free : groups[n] = {}
        /\ index = 0 \/ index + 1 <= Cardinality(groups[node])

SourcesStay == phase = "refine" => \A e \in edges : e.from \in groups[e.fromNode]

DInv ==
    /\ IsWorkflow(w)
    /\ TdcaTypeOK
    /\ phase = "times" => TInv /\ groups = [n \in Nodes |-> {}]
    /\ phase # "times" => TimesKnown
    /\ TrailsGrow
    /\ RestFollowsGroups
    /\ GroupsScheduled
    /\ SplitInside
    /\ SourcesStay
    /\ phase = "thrown" => ~UniformBandwidth

LEMMA TdcaInitEstablishesDInv == TdcaInit => DInv
<1> SUFFICES ASSUME TdcaInit PROVE DInv
  OBVIOUS
<1>1. TInv
  BY TimesInitEstablishesTInv DEF TdcaInit
<1>2. IsWorkflow(w) /\ s \in Schedules(w)
  BY <1>1 DEF TInv, IInv, TypeOK
<1>3. 0 \in Nodes
  BY ClusterAssumption DEF Nodes
<1>4. w.size \in Nat
  BY <1>2 DEF IsWorkflow
<1>5. TdcaTypeOK
  BY <1>2, <1>3, <1>4 DEF TdcaInit, TdcaTypeOK, NumIterations
<1> QED
  BY <1>1, <1>2, <1>5
     DEF TdcaInit, DInv, TrailsGrow, RestFollowsGroups, GroupsScheduled, SplitInside, SourcesStay

\* What all steps need.
LEMMA DInvTypes ==
    ASSUME DInv
    PROVE  /\ IsWorkflow(w) /\ w.size \in Nat
           /\ groups \in Groups(w) /\ node \in Nodes /\ s \in Schedules(w)
           /\ index \in 0 .. w.size /\ round \in 0 .. NumIterations
           /\ \A n \in Nodes : groups[n] \subseteq Tasks(w)
BY DEF DInv, TdcaTypeOK, Groups, IsWorkflow

\* The remaining parts of the invariant when only the groups, the schedule and
\* what counts turns change.
LEMMA TimesStayKnown == ASSUME TimesKnown, w' = w, UNCHANGED times PROVE TimesKnown'
BY DEF TimesKnown, times

----------------------------------------------------------------------------
LEMMA ComputeTimesKeepsDInv == DInv /\ ComputeTimes => DInv'
<1> SUFFICES ASSUME DInv, ComputeTimes PROVE DInv'
  OBVIOUS
<1>1. PICK t \in Tasks(w) : Compute(t)
  BY DEF ComputeTimes
<1>2. TInv'
  <2>1. TInv
    BY DEF DInv, ComputeTimes
  <2>2. TimesNext
    BY <1>1 DEF TimesNext
  <2> QED
    BY <2>1, <2>2, StepKeepsTInv
<1>3. /\ w' = w /\ s' = s /\ phase = "times" /\ phase' = phase /\ groups' = groups
      /\ UNCHANGED <<assigned, free, current, node, round, index, edges>>
  BY <1>1 DEF ComputeTimes, Compute
<1>4. TdcaTypeOK'
  BY <1>3 DEF DInv, TdcaTypeOK
<1> QED
  BY <1>2, <1>3, <1>4
     DEF DInv, TrailsGrow, RestFollowsGroups, GroupsScheduled, SplitInside, SourcesStay

LEMMA StartClusteringKeepsDInv == DInv /\ StartClustering => DInv'
<1> SUFFICES ASSUME DInv, StartClustering PROVE DInv'
  OBVIOUS
<1>1. /\ w' = w /\ s' = s /\ phase = "times" /\ phase' = "cluster" /\ groups' = groups
      /\ free' = Nodes /\ computed = Tasks(w)
      /\ UNCHANGED <<times, assigned, current, node, round, index, edges>>
  BY DEF StartClustering
<1>2. TimesKnown'
  <2>1. TimesTypeOK /\ CriticalTrailIsTight
    BY <1>1 DEF DInv, TInv
  <2>2. TimesKnown
    BY <1>1, <2>1 DEF TimesTypeOK, CriticalTrailIsTight, TimesKnown
  <2> QED
    BY <1>1, <2>2, TimesStayKnown
<1>3. TdcaTypeOK'
  BY <1>1 DEF DInv, TdcaTypeOK
<1>4. TrailsGrow'
  <2>1. \A n \in Nodes : groups[n] = {}
    BY <1>1 DEF DInv
  <2>2. IsTrail(w, {})'
    BY DEF IsTrail
  <2> QED
    BY <1>1, <2>1, <2>2 DEF TrailsGrow
<1> QED
  BY <1>1, <1>2, <1>3, <1>4
     DEF DInv, RestFollowsGroups, GroupsScheduled, SplitInside, SourcesStay

LEMMA AddTask ==
    ASSUME groups \in Groups(w), NEW n \in Nodes, NEW t \in Tasks(w),
           groups' = [groups EXCEPT ![n] = @ \cup {t}]
    PROVE  /\ groups' \in Groups(w)
           /\ \A m \in Nodes \ {n} : groups'[m] = groups[m]
           /\ groups'[n] = groups[n] \cup {t}
BY DEF Groups

LEMMA StartTrailKeepsDInv == DInv /\ StartTrail => DInv'
<1> SUFFICES ASSUME DInv, StartTrail PROVE DInv'
  OBVIOUS
<1>1. PICK t \in Tasks(w) \ assigned, n \in Fastest(free) :
          /\ groups' = [groups EXCEPT ![n] = @ \cup {t}]
          /\ assigned' = assigned \cup {t}
          /\ free' = free \ {n}
          /\ current' = t
          /\ node' = n
  BY DEF StartTrail
<1>2. /\ phase = "cluster" /\ phase' = "bubble"
      /\ UNCHANGED <<w, s, times, round, index, edges>>
  BY DEF StartTrail
<1>3. n \in free /\ n \in Nodes /\ t \in Tasks(w)
  BY <1>1 DEF Fastest, DInv, TdcaTypeOK
<1>4. /\ groups' \in Groups(w)
      /\ \A m \in Nodes \ {n} : groups'[m] = groups[m]
      /\ groups'[n] = groups[n] \cup {t}
  BY <1>1, <1>3, AddTask, DInvTypes
<1>5. TdcaTypeOK'
  BY <1>1, <1>2, <1>3, <1>4 DEF DInv, TdcaTypeOK, Groups
<1>6. groups'[n] = {} \cup {t}
  BY <1>2, <1>3, <1>4 DEF DInv, TrailsGrow
<1>7. TrailsGrow'
  <2>1. ASSUME NEW m \in Nodes
        PROVE  IsTrail(w, groups[m])' /\ (m \in free' => groups'[m] = {})
    <3>1. CASE m = n
      <4>1. IsTrail(w, {} \cup {t})
        BY <1>3, DInvTypes, FirstOfTrail
      <4> QED
        BY <1>1, <1>2, <1>6, <3>1, <4>1
    <3>2. CASE m # n
      <4>1. IsTrail(w, groups[m]) /\ (m \in free => groups[m] = {})
        BY <1>2 DEF DInv, TrailsGrow
      <4> QED
        BY <1>1, <1>2, <1>4, <3>2, <4>1
    <3> QED
      BY <3>1, <3>2
  <2>2. w.position[t] \in Int
    BY <1>3, DInvTypes, PositionType
  <2> QED
    BY <1>1, <1>2, <1>6, <2>1, <2>2, SMTT(30) DEF TrailsGrow
<1>8. TimesKnown'
  BY <1>2, TimesStayKnown DEF DInv
<1> QED
  BY <1>2, <1>5, <1>7, <1>8
     DEF DInv, RestFollowsGroups, GroupsScheduled, SplitInside, SourcesStay

\* The next task of a trail is a predecessor, critical or better.
LEMMA NextOnTrailProperty ==
    ASSUME DInv, phase # "times", NEW t \in Tasks(w), Predecessors(w, t) # {}, NEW n
    PROVE  NextOnTrail(t, n) \subseteq Predecessors(w, t)
<1>1. cpred[t] \in Predecessors(w, t)
  BY DEF DInv, TimesKnown
<1> QED
  BY <1>1 DEF NextOnTrail, BetterPredecessors

LEMMA BubbleKeepsDInv == DInv /\ Bubble => DInv'
<1> SUFFICES ASSUME DInv, Bubble PROVE DInv'
  OBVIOUS
<1>1. PICK p \in NextOnTrail(current, node) :
          /\ groups' = [groups EXCEPT ![node] = @ \cup {p}]
          /\ assigned' = assigned \cup {p}
          /\ current' = p
  BY DEF Bubble
<1>2. /\ phase = "bubble" /\ phase' = phase /\ Predecessors(w, current) # {}
      /\ UNCHANGED <<w, s, times, free, node, round, index, edges>>
  BY DEF Bubble
<1>3. /\ node \notin free /\ current \in groups[node] /\ node \in Nodes
      /\ \A t \in groups[node] : w.position[current] <= w.position[t]
      /\ groups[node] \in SUBSET Tasks(w) /\ current \in Tasks(w)
      /\ IsTrail(w, groups[node]) /\ IsWorkflow(w)
  BY <1>2, DInvTypes DEF DInv, TrailsGrow
<1>4. p \in Predecessors(w, current) /\ p \in Tasks(w)
  BY <1>1, <1>2, <1>3, NextOnTrailProperty DEF Predecessors
<1>5. /\ groups' \in Groups(w)
      /\ \A m \in Nodes \ {node} : groups'[m] = groups[m]
      /\ groups'[node] = groups[node] \cup {p}
  BY <1>1, <1>3, <1>4, AddTask, DInvTypes
<1>6. TdcaTypeOK'
  BY <1>1, <1>2, <1>4, <1>5 DEF DInv, TdcaTypeOK, Groups
<1>7. /\ IsTrail(w, groups'[node])
      /\ \A u \in groups'[node] : w.position[p] <= w.position[u]
  BY <1>3, <1>4, <1>5, TrailUpwards
<1>8. TrailsGrow'
  <2>1. ASSUME NEW m \in Nodes
        PROVE  IsTrail(w, groups[m])' /\ (m \in free' => groups'[m] = {})
    <3>1. IsTrail(w, groups[m]) /\ (m \in free => groups[m] = {})
      BY <1>2 DEF DInv, TrailsGrow
    <3> QED
      BY <1>2, <1>3, <1>5, <1>7, <3>1
  <2> QED
    BY <1>1, <1>2, <1>3, <1>5, <1>7, <2>1 DEF TrailsGrow
<1>9. TimesKnown'
  BY <1>2, TimesStayKnown DEF DInv
<1> QED
  BY <1>2, <1>6, <1>8, <1>9
     DEF DInv, RestFollowsGroups, GroupsScheduled, SplitInside, SourcesStay

LEMMA EndTrailKeepsDInv == DInv /\ EndTrail => DInv'
<1> SUFFICES ASSUME DInv, EndTrail PROVE DInv'
  OBVIOUS
<1>1. /\ phase = "bubble" /\ phase' = "cluster"
      /\ UNCHANGED <<w, s, times, groups, assigned, free, current, node, round, index, edges>>
  BY DEF EndTrail
<1>2. TdcaTypeOK'
  BY <1>1 DEF DInv, TdcaTypeOK
<1>3. TrailsGrow'
  <2>1. \A n \in Nodes : IsTrail(w, groups[n]) /\ (n \in free => groups[n] = {})
    BY <1>1 DEF DInv, TrailsGrow
  <2>2. \A n \in Nodes : IsTrail(w, groups[n])' /\ (n \in free' => groups'[n] = {})
    BY <1>1, <2>1
  <2> QED
    BY <1>1, <2>2 DEF TrailsGrow
<1>4. TimesKnown'
  BY <1>1, TimesStayKnown DEF DInv
<1> QED
  BY <1>1, <1>2, <1>3, <1>4
     DEF DInv, RestFollowsGroups, GroupsScheduled, SplitInside, SourcesStay

----------------------------------------------------------------------------
LEMMA ScheduleOfType ==
    ASSUME DInv
    PROVE  \A g \in Groups(w) : ScheduleOf(g) \in Schedules(w)
<1>1. IsWorkflow(w)
  BY DInvTypes
<1> QED
  BY <1>1, ScheduleOfProperty

LEMMA StartRestKeepsDInv == DInv /\ StartRest => DInv'
<1> SUFFICES ASSUME DInv, StartRest PROVE DInv'
  OBVIOUS
<1>1. /\ phase = "cluster" /\ phase' = "rest" /\ s' = ScheduleOf(groups)
      /\ UNCHANGED <<w, times, groups, assigned, free, current, node, round, index, edges>>
  BY DEF StartRest
<1>2. groups \in Groups(w) /\ IsWorkflow(w)
  BY DInvTypes
<1>3. s' \in Schedules(w)
  BY <1>1, <1>2, ScheduleOfType
<1>4. TdcaTypeOK'
  BY <1>1, <1>3 DEF DInv, TdcaTypeOK
<1>5. RestFollowsGroups'
  <2>1. /\ \A n \in Nodes : Disjoint(s'.node[n])
        /\ \A t \in Tasks(w) : Scheduled(s', t) <=> t \in UNION Range(groups)
    BY <1>1, <1>2, ScheduleOfProperty
  <2>2. \A t \in Tasks(w) : Scheduled(s', t) <=> \E n \in Nodes : t \in groups[n]
    BY <1>2, <2>1, PlacedTasks
  <2> QED
    BY <1>1, <2>1, <2>2 DEF RestFollowsGroups
<1>6. TimesKnown'
  BY <1>1, TimesStayKnown DEF DInv
<1> QED
  BY <1>1, <1>4, <1>5, <1>6 DEF DInv, TrailsGrow, GroupsScheduled, SplitInside, SourcesStay

LEMMA PlaceRestKeepsDInv == DInv /\ PlaceRest => DInv'
<1> SUFFICES ASSUME DInv, PlaceRest PROVE DInv'
  OBVIOUS
<1>1. PICK t \in Tasks(w) \ UNION Range(groups), n \in Nodes :
          /\ \A u \in Tasks(w) \ UNION Range(groups) : w.position[t] <= w.position[u]
          /\ groups' = [groups EXCEPT ![n] = @ \cup {t}]
          /\ s' = InsertIntoNode(w, s, t, n)
          /\ phase' = IF PredecessorsScheduled(w, s, t) THEN phase ELSE "thrown"
  BY DEF PlaceRest
<1>2. phase = "rest" /\ UNCHANGED <<w, times, assigned, free, current, node, round, index, edges>>
  BY DEF PlaceRest
<1>3. /\ groups \in Groups(w) /\ IsWorkflow(w) /\ s \in Schedules(w) /\ t \in Tasks(w)
      /\ \A m \in Nodes : Disjoint(s.node[m])
      /\ \A u \in Tasks(w) : Scheduled(s, u) <=> \E m \in Nodes : u \in groups[m]
  BY <1>2, DInvTypes DEF DInv, RestFollowsGroups
<1>4. PredecessorsScheduled(w, s, t)
  <2> SUFFICES ASSUME NEW p \in Predecessors(w, t), ~Scheduled(s, p) PROVE FALSE
    BY DEF PredecessorsScheduled
  <2>1. p \in Tasks(w) /\ w.position[p] < w.position[t]
    BY <1>3 DEF Predecessors, IsWorkflow
  <2>2. p \notin UNION Range(groups)
    BY <1>3, <2>1, PlacedTasks
  <2>3. w.position[t] <= w.position[p]
    BY <1>1, <2>1, <2>2
  <2>4. w.position[p] \in Int /\ w.position[t] \in Int
    BY <1>3, <2>1, PositionType
  <2> QED
    BY <2>1, <2>3, <2>4
<1>5. /\ groups' \in Groups(w)
      /\ \A m \in Nodes \ {n} : groups'[m] = groups[m]
      /\ groups'[n] = groups[n] \cup {t}
  BY <1>1, <1>3, AddTask
<1>6. /\ s' \in Schedules(w)
      /\ \A m \in Nodes : Disjoint(s'.node[m])
  BY <1>1, <1>3, InsertIntoNodeProperties
<1>7. \A u \in Tasks(w) : Scheduled(s', u) <=> Scheduled(s, u) \/ u = t
  BY <1>1, <1>3, InsertIntoNodeIntervals
<1>8. \A u \in Tasks(w) : Scheduled(s', u) <=> \E m \in Nodes : u \in groups'[m]
  BY <1>3, <1>5, <1>7
<1>9. TdcaTypeOK'
  BY <1>1, <1>2, <1>4, <1>5, <1>6 DEF DInv, TdcaTypeOK, Groups
<1>10. TimesKnown'
  BY <1>2, TimesStayKnown DEF DInv
<1> QED
  BY <1>1, <1>2, <1>4, <1>6, <1>8, <1>9, <1>10
     DEF DInv, TrailsGrow, RestFollowsGroups, GroupsScheduled, SplitInside, SourcesStay

\* The index before which a node's first split is tried has a task behind it.
LEMMA LastIndexProperty ==
    ASSUME IsWorkflow(w), NEW group \in SUBSET Tasks(w)
    PROVE  /\ LastIndex(group) \in 0 .. w.size
           /\ LastIndex(group) = 0 \/ LastIndex(group) + 1 <= Cardinality(group)
<1>1. IsFiniteSet(Tasks(w)) /\ Cardinality(Tasks(w)) = w.size /\ w.size \in Nat
  <2>1. 0 \in Int /\ w.size - 1 \in Int /\ w.size \in Nat
    BY DEF IsWorkflow
  <2>2. IsFiniteSet(0 .. w.size - 1)
        /\ Cardinality(0 .. w.size - 1) = IF 0 > w.size - 1 THEN 0 ELSE w.size - 1 - 0 + 1
    BY <2>1, FS_Interval
  <2> QED
    BY <2>1, <2>2 DEF Tasks
<1>2. IsFiniteSet(group) /\ Cardinality(group) <= w.size
  BY <1>1, FS_Subset
<1>3. Cardinality(group) \in Nat
  BY <1>2, FS_CardinalityType
<1>4. /\ LastIndex(group) \in {0, Cardinality(group) - 1}
      /\ LastIndex(group) >= 0
  <2>1. 0 \in Int /\ Cardinality(group) - 1 \in Int
    BY <1>3
  <2> QED
    BY <2>1, MaxOfTwo DEF LastIndex
<1> QED
  BY <1>1, <1>2, <1>3, <1>4

LEMMA StartDuplicationKeepsDInv == DInv /\ StartDuplication => DInv'
<1> SUFFICES ASSUME DInv, StartDuplication PROVE DInv'
  OBVIOUS
<1>1. /\ phase = "rest" /\ AllPlaced(groups) /\ s' = ScheduleOf(groups)
      /\ free' = {n \in Nodes : groups[n] = {}} /\ node' = 0 /\ index' = LastIndex(groups[0])
      /\ phase' = IF CanSchedule(groups) THEN "duplicate" ELSE "thrown"
      /\ UNCHANGED <<w, times, groups, assigned, current, round, edges>>
  BY DEF StartDuplication, AllPlaced
<1>2. groups \in Groups(w) /\ IsWorkflow(w) /\ 0 \in Nodes
  BY ClusterAssumption, DInvTypes DEF Nodes
<1>3. phase' = "duplicate"
  BY <1>1, <1>2, AllPlacedCanSchedule
<1>4. s' \in Schedules(w)
  BY <1>1, <1>2, ScheduleOfType
<1>5. /\ index' \in 0 .. w.size
      /\ index' = 0 \/ index' + 1 <= Cardinality(groups[0])
  <2>1. groups[0] \in SUBSET Tasks(w)
    BY <1>2 DEF Groups
  <2> QED
    BY <1>1, <1>2, <2>1, LastIndexProperty
<1>6. TdcaTypeOK'
  BY <1>1, <1>2, <1>3, <1>4, <1>5 DEF DInv, TdcaTypeOK
<1>7. GroupsScheduled'
  <2>1. ScheduleOf(groups)' = ScheduleOf(groups)
    BY <1>1, SameSchedule
  <2> QED
    BY <1>1, <2>1 DEF GroupsScheduled, AllPlaced
<1>8. SplitInside'
  BY <1>1, <1>5 DEF SplitInside
<1>9. TimesKnown'
  BY <1>1, TimesStayKnown DEF DInv
<1> QED
  BY <1>1, <1>3, <1>6, <1>7, <1>8, <1>9 DEF DInv, TrailsGrow, RestFollowsGroups, SourcesStay

(***************************************************************************)
(* A change of the groups that keeps all tasks, tried in one of the three  *)
(* phases: the schedule at hand stays that of the groups.                  *)
(***************************************************************************)
LEMMA TriedChange ==
    ASSUME DInv, phase \in {"duplicate", "merge", "refine"}, w' = w,
           NEW g \in Groups(w), AllPlaced(groups) => AllPlaced(g), Attempt(g)
    PROVE  /\ phase' = phase
           /\ groups' \in Groups(w) /\ s' \in Schedules(w)
           /\ IF Improves(g) THEN groups' = g ELSE groups' = groups
           /\ GroupsScheduled'
<1>1. AllPlaced(groups) /\ s = ScheduleOf(groups) /\ AllPlaced(g)
  BY DEF DInv, GroupsScheduled
<1>2. /\ phase' = phase
      /\ IF Improves(g) THEN groups' = g /\ s' = ScheduleOf(g)
         ELSE groups' = groups /\ s' = s
  BY <1>1, AttemptEffect
<1>3. groups' \in Groups(w) /\ AllPlaced(groups)' /\ s' = ScheduleOf(groups')
  BY <1>1, <1>2, DInvTypes DEF AllPlaced
<1>4. s' \in Schedules(w)
  BY <1>3, ScheduleOfType
<1>5. GroupsScheduled'
  <2>1. ScheduleOf(groups)' = ScheduleOf(groups')
    BY SameSchedule
  <2> QED
    BY <1>3, <2>1 DEF GroupsScheduled
<1> QED
  BY <1>2, <1>3, <1>4, <1>5

\* A node whose group is split or led by a task with a trail is not free.
LEMMA TasksOfNode ==
    ASSUME DInv
    PROVE  LET tasks == InOrder(groups[node])
           IN  /\ Len(tasks) = Cardinality(groups[node]) /\ Len(tasks) \in Nat
               /\ \A k \in 1 .. Len(tasks) : tasks[k] \in groups[node]
               /\ tasks # << >> => Len(tasks) >= 1 /\ Head(tasks) = tasks[1]
<1> DEFINE tasks == InOrder(groups[node])
<1>1. IsWorkflow(w) /\ groups[node] \in SUBSET Tasks(w)
  BY DInvTypes
<1>2. /\ tasks \in Seq(groups[node]) /\ Len(tasks) = Cardinality(groups[node])
      /\ \A k \in 1 .. Len(tasks) : tasks[k] \in groups[node]
  BY <1>1, InOrderProperty
<1> HIDE DEF tasks
<1>3. Len(tasks) \in Nat /\ (tasks # << >> => Len(tasks) >= 1 /\ Head(tasks) = tasks[1])
  BY <1>2
<1> QED
  BY <1>2, <1>3 DEF tasks

LEMMA TrySplitKeepsDInv == DInv /\ TrySplit => DInv'
<1> SUFFICES ASSUME DInv, TrySplit PROVE DInv'
  OBVIOUS
<1> DEFINE tasks == InOrder(groups[node])
<1>1. PICK n \in IF free = {} THEN {BestNode} ELSE Fastest(free) :
          /\ free' = free \ {n}
          /\ IF tasks[index] = cpred[tasks[index + 1]]
             THEN index' = index - 1 /\ UNCHANGED <<groups, s, phase>>
             ELSE /\ Attempt(Split(tasks, n))
                  /\ index' = IF Improves(Split(tasks, n)) THEN 0 ELSE index - 1
  BY DEF TrySplit, Unoccupied
<1>2. /\ phase = "duplicate" /\ index > 0
      /\ UNCHANGED <<w, times, assigned, current, node, round, edges>>
  BY DEF TrySplit
<1>3. /\ free \subseteq Nodes /\ \A m \in free : groups[m] = {}
      /\ index + 1 <= Cardinality(groups[node])
  BY <1>2 DEF DInv, TdcaTypeOK, SplitInside
<1>4. n \in Nodes
  BY <1>1, <1>3, BestNodeProperty DEF Fastest
<1>5. /\ IsWorkflow(w) /\ w.size \in Nat /\ groups \in Groups(w) /\ node \in Nodes
      /\ s \in Schedules(w) /\ index \in 0 .. w.size
  BY DInvTypes
<1>6. \A k \in 1 .. index + 1 : tasks[k] \in groups[node]
  <2>1. /\ Len(tasks) = Cardinality(groups[node]) /\ Len(tasks) \in Nat
        /\ \A k \in 1 .. Len(tasks) : tasks[k] \in groups[node]
    BY TasksOfNode
  <2> QED
    BY <1>3, <1>5, <2>1
<1>7. node \notin free
  BY <1>3, <1>5, <1>6
<1> HIDE DEF tasks
<1> DEFINE new == Split(tasks, n)
<1>8. /\ new \in Groups(w) /\ (AllPlaced(groups) => AllPlaced(new))
      /\ \A m \in Nodes \ {n, node} : new[m] = groups[m]
  <2>1. TimesKnown /\ index \in Nat
    BY <1>2, <1>5 DEF DInv
  <2> QED
    BY <1>4, <1>5, <1>6, <2>1, SplitKeepsTasks
<1> HIDE DEF new
<1>9. /\ phase' = phase /\ groups' \in Groups(w) /\ s' \in Schedules(w)
      /\ \/ groups' = new /\ index' = 0
         \/ groups' = groups /\ index' = index - 1
      /\ GroupsScheduled'
  <2>1. CASE tasks[index] = cpred[tasks[index + 1]]
    <3>1. index' = index - 1 /\ groups' = groups /\ s' = s /\ phase' = phase
      BY <1>1, <2>1
    <3>2. GroupsScheduled'
      <4>1. ScheduleOf(groups)' = ScheduleOf(groups)
        BY <1>2, <3>1, SameSchedule
      <4> QED
        BY <1>2, <3>1, <4>1 DEF DInv, GroupsScheduled, AllPlaced
    <3> QED
      BY <1>5, <3>1, <3>2
  <2>2. CASE tasks[index] # cpred[tasks[index + 1]]
    <3>1. Attempt(new) /\ index' = IF Improves(new) THEN 0 ELSE index - 1
      BY <1>1, <2>2 DEF new
    <3>2. /\ phase' = phase /\ groups' \in Groups(w) /\ s' \in Schedules(w)
          /\ IF Improves(new) THEN groups' = new ELSE groups' = groups
          /\ GroupsScheduled'
      BY <1>2, <1>8, <3>1, TriedChange
    <3> QED
      BY <3>1, <3>2
  <2> QED
    BY <2>1, <2>2
<1>10. index' \in 0 .. w.size
  BY <1>2, <1>5, <1>9
<1>11. TdcaTypeOK'
  BY <1>1, <1>2, <1>9, <1>10 DEF DInv, TdcaTypeOK, Groups
<1>12. SplitInside'
  <2>1. \A m \in free' : groups'[m] = {}
    BY <1>1, <1>3, <1>7, <1>8, <1>9
  <2>2. index' = 0 \/ index' + 1 <= Cardinality(groups'[node])
    <3>1. CASE index' = 0
      BY <3>1
    <3>2. CASE groups' = groups /\ index' = index - 1
      <4>1. index' + 1 = index /\ Cardinality(groups[node]) \in Nat
        <5>1. Len(tasks) = Cardinality(groups[node]) /\ Len(tasks) \in Nat
          BY TasksOfNode DEF tasks
        <5> QED
          BY <1>5, <3>2, <5>1
      <4> QED
        BY <1>3, <1>5, <3>2, <4>1
    <3> QED
      BY <1>9, <3>1, <3>2
  <2> QED
    BY <1>2, <2>1, <2>2 DEF SplitInside
<1>13. TimesKnown'
  BY <1>2, TimesStayKnown DEF DInv
<1> QED
  BY <1>2, <1>9, <1>11, <1>12, <1>13 DEF DInv, TrailsGrow, RestFollowsGroups, SourcesStay

\* Counting nodes and iterations stays inside both.
LEMMA NextTurnProperty ==
    ASSUME DInv, round < NumIterations, NextTurn
    PROVE  node' \in Nodes /\ round' \in 0 .. NumIterations
<1>1. node \in Nodes /\ round \in 0 .. NumIterations /\ NumNodes \in Nat \ {0}
  BY ClusterAssumption, DInvTypes
<1>2. node + 1 \in Int /\ node \in Nat
  BY <1>1 DEF Nodes
<1>3. (node + 1) % NumNodes \in 0 .. NumNodes - 1
  BY <1>1, <1>2
<1>4. round' \in 0 .. NumIterations
  BY <1>1 DEF NextTurn, NumIterations
<1> QED
  BY <1>3, <1>4 DEF NextTurn, Nodes

LEMMA TryTrailKeepsDInv == DInv /\ TryTrail => DInv'
<1> SUFFICES ASSUME DInv, TryTrail PROVE DInv'
  OBVIOUS
<1> DEFINE tasks == InOrder(groups[node])
           new == [groups EXCEPT ![node] = groups[node] \cup Trail(Head(tasks))]
<1>1. /\ phase = "duplicate" /\ round < NumIterations
      /\ NextTurn
      /\ index' = LastIndex(groups'[node'])
      /\ UNCHANGED <<w, times, assigned, free, current, edges>>
  BY DEF TryTrail
<1>2. IF tasks # << >> /\ Predecessors(w, Head(tasks)) # {}
      THEN Attempt(new)
      ELSE UNCHANGED <<groups, s, phase>>
  BY DEF TryTrail
<1>3. /\ IsWorkflow(w) /\ groups \in Groups(w) /\ node \in Nodes /\ s \in Schedules(w)
      /\ \A m \in Nodes : groups[m] \subseteq Tasks(w)
  BY DInvTypes
<1>4. \A m \in free : groups[m] = {}
  BY <1>1 DEF DInv, SplitInside
<1>5. free \subseteq Nodes
  BY DEF DInv, TdcaTypeOK
<1>6. tasks # << >> => Head(tasks) \in groups[node]
  <2>1. /\ Len(tasks) \in Nat
        /\ \A k \in 1 .. Len(tasks) : tasks[k] \in groups[node]
        /\ tasks # << >> => Len(tasks) >= 1 /\ Head(tasks) = tasks[1]
    BY TasksOfNode
  <2> HIDE DEF tasks
  <2> QED
    BY <2>1
<1> HIDE DEF tasks, new
<1>7. /\ phase' = phase /\ groups' \in Groups(w) /\ s' \in Schedules(w)
      /\ \A m \in free : groups'[m] = {}
      /\ GroupsScheduled'
  <2>1. CASE tasks # << >> /\ Predecessors(w, Head(tasks)) # {}
    <3>1. Trail(Head(tasks)) \in SUBSET Tasks(w)
      <4>1. Head(tasks) \in Tasks(w) /\ TimesKnown
        BY <1>1, <1>3, <1>6, <2>1 DEF DInv
      <4> QED
        BY <1>3, <4>1, TrailType
    <3>2. /\ new \in Groups(w)
          /\ AllPlaced(groups) => AllPlaced(new)
          /\ \A m \in Nodes \ {node} : new[m] = groups[m]
      BY <1>3, <3>1, AddingKeepsTasks DEF new
    <3>3. /\ phase' = phase /\ groups' \in Groups(w) /\ s' \in Schedules(w)
          /\ IF Improves(new) THEN groups' = new ELSE groups' = groups
          /\ GroupsScheduled'
      BY <1>1, <1>2, <2>1, <3>2, TriedChange
    <3>4. node \notin free
      BY <1>4, <1>6, <2>1
    <3>5. \A m \in free : groups'[m] = {}
      BY <1>4, <1>5, <3>2, <3>3, <3>4
    <3> QED
      BY <3>3, <3>5
  <2>2. CASE ~(tasks # << >> /\ Predecessors(w, Head(tasks)) # {})
    <3>1. groups' = groups /\ s' = s /\ phase' = phase
      BY <1>2, <2>2
    <3>2. GroupsScheduled'
      <4>1. ScheduleOf(groups)' = ScheduleOf(groups)
        BY <1>1, <3>1, SameSchedule
      <4> QED
        BY <1>1, <3>1, <4>1 DEF DInv, GroupsScheduled, AllPlaced
    <3> QED
      BY <1>3, <1>4, <3>1, <3>2
  <2> QED
    BY <2>1, <2>2
<1>8. node' \in Nodes /\ round' \in 0 .. NumIterations
  BY <1>1, NextTurnProperty
<1>9. /\ index' \in 0 .. w.size
      /\ index' = 0 \/ index' + 1 <= Cardinality(groups'[node'])
  <2>1. groups'[node'] \in SUBSET Tasks(w)
    BY <1>7, <1>8 DEF Groups
  <2> QED
    BY <1>1, <1>3, <2>1, LastIndexProperty
<1>10. TdcaTypeOK'
  BY <1>1, <1>7, <1>8, <1>9 DEF DInv, TdcaTypeOK, Groups
<1>11. SplitInside'
  BY <1>1, <1>7, <1>9 DEF SplitInside
<1>12. TimesKnown'
  BY <1>1, TimesStayKnown DEF DInv
<1> QED
  BY <1>1, <1>7, <1>10, <1>11, <1>12 DEF DInv, TrailsGrow, RestFollowsGroups, SourcesStay

LEMMA StartMergingKeepsDInv == DInv /\ StartMerging => DInv'
<1> SUFFICES ASSUME DInv, StartMerging PROVE DInv'
  OBVIOUS
<1>1. /\ phase = "duplicate" /\ s' = ScheduleOf(groups)
      /\ round' = 0 /\ index' = 0
      /\ phase' = IF CanSchedule(groups) THEN "merge" ELSE "thrown"
      /\ UNCHANGED <<w, times, groups, assigned, free, current, node, edges>>
  BY DEF StartMerging
<1>2. groups \in Groups(w) /\ IsWorkflow(w) /\ w.size \in Nat /\ AllPlaced(groups)
  BY <1>1, DInvTypes DEF DInv, GroupsScheduled
<1>3. phase' = "merge"
  BY <1>1, <1>2, AllPlacedCanSchedule
<1>4. s' \in Schedules(w)
  BY <1>1, <1>2, ScheduleOfType
<1>5. TdcaTypeOK'
  BY <1>1, <1>2, <1>3, <1>4 DEF DInv, TdcaTypeOK, NumIterations
<1>6. GroupsScheduled'
  <2>1. ScheduleOf(groups)' = ScheduleOf(groups)
    BY <1>1, SameSchedule
  <2> QED
    BY <1>1, <1>2, <2>1 DEF GroupsScheduled, AllPlaced
<1>7. TimesKnown'
  BY <1>1, TimesStayKnown DEF DInv
<1> QED
  BY <1>1, <1>3, <1>5, <1>6, <1>7
     DEF DInv, TrailsGrow, RestFollowsGroups, SplitInside, SourcesStay

LEMMA TryMergeKeepsDInv == DInv /\ TryMerge => DInv'
<1> SUFFICES ASSUME DInv, TryMerge PROVE DInv'
  OBVIOUS
<1>1. /\ phase = "merge" /\ round < NumIterations /\ Attempt(Merged)
      /\ NextTurn
      /\ UNCHANGED <<w, times, assigned, free, current, index, edges>>
  BY DEF TryMerge
<1>2. Merged \in Groups(w) /\ (AllPlaced(groups) => AllPlaced(Merged))
  BY DInvTypes, MergedKeepsTasks
<1>3. phase' = phase /\ groups' \in Groups(w) /\ s' \in Schedules(w) /\ GroupsScheduled'
  BY <1>1, <1>2, TriedChange
<1>4. node' \in Nodes /\ round' \in 0 .. NumIterations
  BY <1>1, NextTurnProperty
<1>5. TdcaTypeOK'
  BY <1>1, <1>3, <1>4 DEF DInv, TdcaTypeOK, Groups
<1>6. TimesKnown'
  BY <1>1, TimesStayKnown DEF DInv
<1> QED
  BY <1>1, <1>3, <1>5, <1>6
     DEF DInv, TrailsGrow, RestFollowsGroups, SplitInside, SourcesStay

----------------------------------------------------------------------------
\* The first copy that fits is a copy, on a node whose group has the task.
LEMMA EdgesProperty ==
    ASSUME IsWorkflow(w), NEW g \in Groups(w), NEW x \in Schedules(w),
           Follows(g, x), EveryPredecessorFits(x)
    PROVE  \A e \in DifferentNodeEdges(x) :
               /\ e \in [from : Tasks(w), fromNode : Nodes, to : Tasks(w), toNode : Nodes]
               /\ e.from \in g[e.fromNode]
<1> DEFINE source(p, i) == x.task[p][Min(FittingCopies(w, x, p, i))].node
<1>1. \A t \in Tasks(w) : x.task[t] \in Seq(Interval)
  BY DEF Schedules
<1>2. ASSUME NEW t \in Tasks(w), NEW i \in Range(x.task[t]), NEW p \in Predecessors(w, t)
      PROVE  source(p, i) \in Nodes /\ p \in g[source(p, i)]
  <2> DEFINE S == FittingCopies(w, x, p, i)
  <2>1. p \in Tasks(w) /\ x.task[p] \in Seq(Interval)
    BY <1>1 DEF Predecessors
  <2>2. S # {}
    BY DEF EveryPredecessorFits
  <2>3. S \subseteq Indices(x.task[p]) /\ Len(x.task[p]) \in Nat
    BY <2>1 DEF FittingCopies
  <2>4. IsFiniteSet(Indices(x.task[p])) /\ Indices(x.task[p]) \in SUBSET Int
    <3>1. 1 \in Int /\ Len(x.task[p]) \in Int
      BY <2>3
    <3>2. IsFiniteSet(1 .. Len(x.task[p]))
      BY <3>1, FS_Interval
    <3> QED
      BY <3>2 DEF Indices
  <2>5. S \in SUBSET Int /\ IsFiniteSet(S)
    BY <2>3, <2>4, FS_Subset
  <2> HIDE DEF S
  <2>6. Min(S) \in S
    BY <2>2, <2>5, MinProperty
  <2>7. Min(S) \in Indices(x.task[p])
    BY <2>3, <2>6
  <2>8. x.task[p][Min(S)] \in Interval
    BY <2>1, <2>7 DEF Indices
  <2> QED
    BY <2>1, <2>7, <2>8 DEF Follows, Interval, S
<1>3. ASSUME NEW e \in DifferentNodeEdges(x)
      PROVE  \E t \in Tasks(w) : \E i \in Range(x.task[t]) : \E p \in Predecessors(w, t) :
                 e = [from |-> p, fromNode |-> source(p, i), to |-> t, toNode |-> i.node]
  BY <1>3 DEF DifferentNodeEdges
<1> HIDE DEF source
<1>4. ASSUME NEW e \in DifferentNodeEdges(x)
      PROVE  /\ e \in [from : Tasks(w), fromNode : Nodes, to : Tasks(w), toNode : Nodes]
             /\ e.from \in g[e.fromNode]
  <2>1. PICK t \in Tasks(w) : \E i \in Range(x.task[t]) : \E p \in Predecessors(w, t) :
            e = [from |-> p, fromNode |-> source(p, i), to |-> t, toNode |-> i.node]
    BY <1>3
  <2>2. PICK i \in Range(x.task[t]) : \E p \in Predecessors(w, t) :
            e = [from |-> p, fromNode |-> source(p, i), to |-> t, toNode |-> i.node]
    BY <2>1
  <2>3. PICK p \in Predecessors(w, t) :
            e = [from |-> p, fromNode |-> source(p, i), to |-> t, toNode |-> i.node]
    BY <2>2
  <2>4. source(p, i) \in Nodes /\ p \in g[source(p, i)] /\ p \in Tasks(w)
    BY <1>2 DEF Predecessors
  <2>5. i.node \in Nodes
    <3>1. i \in Interval
      BY <1>1 DEF Range
    <3> QED
      BY <3>1 DEF Interval
  <2> QED
    BY <2>3, <2>4, <2>5
<1> QED
  BY <1>4

\* With equal bandwidths the schedule of groups with every task is valid.
LEMMA AllPlacedSchedule ==
    ASSUME IsWorkflow(w), NEW g \in Groups(w), AllPlaced(g)
    PROVE  /\ UniformBandwidth => EveryPredecessorFits(ScheduleOf(g))
           /\ UniformBandwidth => IsValid(w, ScheduleOf(g))
<1> DEFINE x == ScheduleOf(g)
<1>1. CanSchedule(g)
  BY AllPlacedCanSchedule
<1>2. /\ x \in Schedules(w)
      /\ \A m \in Nodes : Disjoint(x.node[m])
      /\ \A t \in Tasks(w) : Scheduled(x, t) <=> t \in UNION Range(g)
      /\ DataArrives(w, x)
  BY <1>1, ScheduleOfProperty
<1> HIDE DEF x
<1>3. UniformBandwidth =>
          \A t \in Tasks(w) : \A k \in Indices(x.task[t]) : \A p \in Predecessors(w, t) :
              FittingCopies(w, x, p, x.task[t][k]) # {}
  BY <1>2, ArrivedDataFit
<1>4. UniformBandwidth => EveryPredecessorFits(x)
  <2>1. ASSUME NEW t \in Tasks(w), NEW i \in Range(x.task[t])
        PROVE  \E k \in Indices(x.task[t]) : i = x.task[t][k]
    <3>1. x.task[t] \in Seq(Interval)
      BY <1>2 DEF Schedules
    <3> QED
      BY <3>1 DEF Range, Indices
  <2> QED
    BY <1>3, <2>1 DEF EveryPredecessorFits
<1>5. \A n \in Nodes : IsValidOnNode(x.node[n])
  <2>1. \A n \in Nodes : x.node[n] \in Seq(Interval)
    BY <1>2 DEF Schedules
  <2> QED
    BY <1>2, <2>1, DisjointIsValid
<1>6. AllScheduled(w, x)
  BY <1>2 DEF AllScheduled, AllPlaced
<1> QED
  BY <1>3, <1>4, <1>5, <1>6 DEF IsValid, x

LEMMA StartRefiningKeepsDInv == DInv /\ StartRefining => DInv'
<1> SUFFICES ASSUME DInv, StartRefining PROVE DInv'
  OBVIOUS
<1>1. /\ phase = "merge" /\ s' = ScheduleOf(groups)
      /\ edges' = IF EveryPredecessorFits(s') THEN DifferentNodeEdges(s') ELSE {}
      /\ phase' = IF CanSchedule(groups) /\ EveryPredecessorFits(s') THEN "refine" ELSE "thrown"
      /\ UNCHANGED <<w, times, groups, assigned, free, current, node, round, index>>
  BY DEF StartRefining
<1>2. groups \in Groups(w) /\ IsWorkflow(w) /\ AllPlaced(groups)
  BY <1>1, DInvTypes DEF DInv, GroupsScheduled
<1>3. s' \in Schedules(w) /\ Follows(groups, s')
  BY <1>1, <1>2, ScheduleOfProperty
<1>4. CanSchedule(groups) /\ (UniformBandwidth => EveryPredecessorFits(s'))
  BY <1>1, <1>2, AllPlacedCanSchedule, AllPlacedSchedule
<1>5. \A e \in edges' :
          /\ e \in [from : Tasks(w), fromNode : Nodes, to : Tasks(w), toNode : Nodes]
          /\ e.from \in groups[e.fromNode]
  BY <1>1, <1>2, <1>3, EdgesProperty
<1>6. TdcaTypeOK'
  BY <1>1, <1>3, <1>5 DEF DInv, TdcaTypeOK
<1>7. GroupsScheduled'
  <2>1. ScheduleOf(groups)' = ScheduleOf(groups)
    BY <1>1, SameSchedule
  <2> QED
    BY <1>1, <1>2, <2>1 DEF GroupsScheduled, AllPlaced
<1>8. SourcesStay'
  BY <1>1, <1>5 DEF SourcesStay
<1>9. TimesKnown'
  BY <1>1, TimesStayKnown DEF DInv
<1>10. phase' = "thrown" => ~UniformBandwidth
  BY <1>1, <1>4
<1> QED
  BY <1>1, <1>6, <1>7, <1>8, <1>9, <1>10
     DEF DInv, TrailsGrow, RestFollowsGroups, SplitInside, UniformBandwidth

\* The source of an edge is on its node, so that remove_tasks is never called.
LEMMA TryEdgeKeepsDInv == DInv /\ (\E e \in edges : TryEdge(e)) => DInv'
<1> SUFFICES ASSUME DInv, NEW e \in edges, TryEdge(e) PROVE DInv'
  OBVIOUS
<1> DEFINE new == [groups EXCEPT ![e.toNode] = groups[e.toNode] \cup {e.from}]
<1>1. /\ phase = "refine"
      /\ edges' = edges \ {e}
      /\ UNCHANGED <<w, times, assigned, free, current, node, round, index>>
  BY DEF TryEdge
<1>2. groups \in Groups(w) /\ IsWorkflow(w)
  BY DInvTypes
<1>3. /\ e.from \in Tasks(w) /\ e.fromNode \in Nodes /\ e.toNode \in Nodes
      /\ e.from \in groups[e.fromNode]
      /\ \A d \in edges : d.fromNode \in Nodes /\ d.from \in groups[d.fromNode]
  BY <1>1 DEF DInv, TdcaTypeOK, SourcesStay
<1>4. /\ new \in Groups(w)
      /\ AllPlaced(groups) => AllPlaced(new)
      /\ \A m \in Nodes : groups[m] \subseteq new[m]
  <2>1. {e.from} \in SUBSET Tasks(w)
    BY <1>3
  <2> QED
    BY <1>2, <1>3, <2>1, AddingKeepsTasks
<1>5. Attempt(new)
  <2>1. e.from \in new[e.fromNode]
    BY <1>3, <1>4
  <2> QED
    BY <2>1 DEF TryEdge
<1> HIDE DEF new
<1>6. /\ phase' = phase /\ groups' \in Groups(w) /\ s' \in Schedules(w)
      /\ IF Improves(new) THEN groups' = new ELSE groups' = groups
      /\ GroupsScheduled'
  BY <1>1, <1>4, <1>5, TriedChange
<1>7. TdcaTypeOK'
  BY <1>1, <1>6 DEF DInv, TdcaTypeOK, Groups
<1>8. SourcesStay'
  BY <1>1, <1>3, <1>4, <1>6 DEF SourcesStay
<1>9. TimesKnown'
  BY <1>1, TimesStayKnown DEF DInv
<1> QED
  BY <1>1, <1>6, <1>7, <1>8, <1>9 DEF DInv, TrailsGrow, RestFollowsGroups, SplitInside

LEMMA ReturnKeepsDInv == DInv /\ Return => DInv'
<1> SUFFICES ASSUME DInv, Return PROVE DInv'
  OBVIOUS
<1>1. /\ phase = "refine" /\ s' = ScheduleOf(groups)
      /\ phase' = IF CanSchedule(groups) THEN "done" ELSE "thrown"
      /\ UNCHANGED <<w, times, groups, assigned, free, current, node, round, index, edges>>
  BY DEF Return
<1>2. groups \in Groups(w) /\ IsWorkflow(w) /\ AllPlaced(groups)
  BY <1>1, DInvTypes DEF DInv, GroupsScheduled
<1>3. phase' = "done"
  BY <1>1, <1>2, AllPlacedCanSchedule
<1>4. s' \in Schedules(w)
  BY <1>1, <1>2, ScheduleOfType
<1>5. TdcaTypeOK'
  BY <1>1, <1>3, <1>4 DEF DInv, TdcaTypeOK
<1>6. GroupsScheduled'
  <2>1. ScheduleOf(groups)' = ScheduleOf(groups)
    BY <1>1, SameSchedule
  <2> QED
    BY <1>1, <1>2, <2>1 DEF GroupsScheduled, AllPlaced
<1>7. TimesKnown'
  BY <1>1, TimesStayKnown DEF DInv
<1> QED
  BY <1>1, <1>3, <1>5, <1>6, <1>7
     DEF DInv, TrailsGrow, RestFollowsGroups, SplitInside, SourcesStay

LEMMA StutterKeepsDInv == DInv /\ UNCHANGED tdcaVars => DInv'
<1> SUFFICES ASSUME DInv, UNCHANGED tdcaVars PROVE DInv'
  OBVIOUS
<1>1. /\ w' = w /\ s' = s /\ UNCHANGED times
      /\ UNCHANGED <<groups, assigned, free, current, node, round, index, edges, phase>>
  BY DEF tdcaVars
<1>2. TdcaTypeOK'
  BY <1>1 DEF DInv, TdcaTypeOK
<1>3. phase' = "times" => TInv' /\ groups' = [n \in Nodes |-> {}]
  <2>1. ASSUME phase = "times" PROVE TInv'
    <3>1. UNCHANGED <<vars, times>>
      BY <1>1 DEF vars
    <3> QED
      BY <2>1, <3>1, StepKeepsTInv DEF DInv
  <2> QED
    BY <1>1, <2>1 DEF DInv
<1>4. phase' # "times" => TimesKnown'
  BY <1>1, TimesStayKnown DEF DInv
<1>5. TrailsGrow'
  <2>1. \A n \in Nodes : IsTrail(w, groups[n])' <=> IsTrail(w, groups[n])
    BY <1>1
  <2> QED
    BY <1>1, <2>1 DEF DInv, TrailsGrow
<1>6. GroupsScheduled'
  <2>1. ScheduleOf(groups)' = ScheduleOf(groups)
    BY <1>1, SameSchedule
  <2> QED
    BY <1>1, <2>1 DEF DInv, GroupsScheduled, AllPlaced
<1>7. RestFollowsGroups' /\ SplitInside' /\ SourcesStay'
  BY <1>1 DEF DInv, RestFollowsGroups, SplitInside, SourcesStay
<1> QED
  BY <1>1, <1>2, <1>3, <1>4, <1>5, <1>6, <1>7 DEF DInv

LEMMA StepKeepsDInv == DInv /\ [TdcaNext]_tdcaVars => DInv'
<1> SUFFICES ASSUME DInv, [TdcaNext]_tdcaVars PROVE DInv'
  OBVIOUS
<1>1. CASE ComputeTimes
  BY <1>1, ComputeTimesKeepsDInv
<1>2. CASE StartClustering
  BY <1>2, StartClusteringKeepsDInv
<1>3. CASE StartTrail
  BY <1>3, StartTrailKeepsDInv
<1>4. CASE Bubble
  BY <1>4, BubbleKeepsDInv
<1>5. CASE EndTrail
  BY <1>5, EndTrailKeepsDInv
<1>6. CASE StartRest
  BY <1>6, StartRestKeepsDInv
<1>7. CASE PlaceRest
  BY <1>7, PlaceRestKeepsDInv
<1>8. CASE StartDuplication
  BY <1>8, StartDuplicationKeepsDInv
<1>9. CASE TrySplit
  BY <1>9, TrySplitKeepsDInv
<1>10. CASE TryTrail
  BY <1>10, TryTrailKeepsDInv
<1>11. CASE StartMerging
  BY <1>11, StartMergingKeepsDInv
<1>12. CASE TryMerge
  BY <1>12, TryMergeKeepsDInv
<1>13. CASE StartRefining
  BY <1>13, StartRefiningKeepsDInv
<1>14. CASE \E e \in edges : TryEdge(e)
  BY <1>14, TryEdgeKeepsDInv
<1>15. CASE Return
  BY <1>15, ReturnKeepsDInv
<1>16. CASE UNCHANGED tdcaVars
  BY <1>16, StutterKeepsDInv
<1> QED
  BY <1>1, <1>2, <1>3, <1>4, <1>5, <1>6, <1>7, <1>8, <1>9, <1>10, <1>11, <1>12, <1>13,
     <1>14, <1>15, <1>16 DEF TdcaNext

(***************************************************************************)
(* The invariant holds in every state of every run of TDCA.                *)
(***************************************************************************)
THEOREM TdcaInvariance == TdcaSpec => []DInv
<1> QED
  BY TdcaInitEstablishesDInv, StepKeepsDInv, PTL DEF TdcaSpec

\* Every variable of tdca keeps the type the code declares for it.
THEOREM TdcaTypeCorrect == TdcaSpec => []TdcaTypeOK
<1>1. DInv => TdcaTypeOK
  BY DEF DInv
<1> QED
  BY <1>1, TdcaInvariance, PTL

\* The groups that form_initial_clusters builds are trails at all times.
THEOREM GroupsAlwaysTrails == TdcaSpec => []InitialGroupsAreTrails
<1>1. DInv => InitialGroupsAreTrails
  <2> SUFFICES ASSUME DInv, phase \in {"cluster", "bubble"}, NEW n \in Nodes
               PROVE  LET tasks == InOrder(groups[n])
                      IN  \A k \in 1 .. Len(tasks) - 1 : <<tasks[k], tasks[k + 1]>> \in w.deps
    BY DEF InitialGroupsAreTrails
  <2>1. IsWorkflow(w) /\ groups[n] \in SUBSET Tasks(w) /\ IsTrail(w, groups[n])
    BY DInvTypes DEF DInv, TrailsGrow
  <2> QED
    BY <2>1, TrailInOrder
<1> QED
  BY <1>1, TdcaInvariance, PTL

\* Neither splitting nor merging nor refining loses the last copy of a task, and
\* with equal bandwidths none of the exceptions of tdca is thrown.
THEOREM TasksNeverLost == TdcaSpec => []NoTaskLost
<1>1. DInv => NoTaskLost
  BY DEF DInv, GroupsScheduled, AllPlaced, NoTaskLost
<1> QED
  BY <1>1, TdcaInvariance, PTL

\* curr_sched is the schedule of the groups whenever makespans are compared, and
\* the unoccupied nodes are empty.
THEOREM StateAlwaysMatchesGroups == TdcaSpec => []StateMatchesGroups
<1>1. DInv => StateMatchesGroups
  BY DEF DInv, GroupsScheduled, SplitInside, StateMatchesGroups
<1> QED
  BY <1>1, TdcaInvariance, PTL

\* What tdca returns is valid, if all bandwidths are equal.
THEOREM TdcaAlwaysReturnsValid ==
    TdcaSpec => [](phase = "done" /\ UniformBandwidth => IsValid(w, s))
<1>1. DInv => (phase = "done" /\ UniformBandwidth => IsValid(w, s))
  <2> SUFFICES ASSUME DInv, phase = "done", UniformBandwidth PROVE IsValid(w, s)
    OBVIOUS
  <2>1. IsWorkflow(w) /\ groups \in Groups(w) /\ AllPlaced(groups) /\ s = ScheduleOf(groups)
    BY DInvTypes DEF DInv, GroupsScheduled
  <2> QED
    BY <2>1, AllPlacedSchedule
<1> QED
  BY <1>1, TdcaInvariance, PTL
=============================================================================
