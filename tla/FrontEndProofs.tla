--------------------------- MODULE FrontEndProofs ---------------------------
(***************************************************************************)
(* The first half of main and the constructor of a workflow, for any bags  *)
(* and any dependency file.                                                *)
(*                                                                         *)
(* The constructor, for any number of tasks and any sequence of            *)
(* dependencies: the temporary edges of Kahn's algorithm are those whose   *)
(* source is not extracted yet; the independent vertices are those not     *)
(* extracted whose predecessors all are.  When none is left, either all    *)
(* vertices are extracted, or each of the others has a predecessor among   *)
(* the others, and so the graph has a cycle.                               *)
(*                                                                         *)
(* The inference: the shares of a division follow one another and together *)
(* are the total, so that every task of the divided bag falls into one     *)
(* share.  The ids of two bags have nothing in common and a pattern has    *)
(* one entry for two bags at most, so that no dependency comes from two    *)
(* entries.  Sources are in an earlier bag than targets: ids ascend along  *)
(* every dependency, and the least vertex of a cycle would need a lesser.  *)
(***************************************************************************)
EXTENDS FrontEnd, ScheduleProofs

Places == 1 .. Len(order)

Extracted == {order[i] : i \in Places}

KTypeOK ==
    /\ IsTaskInput(tasks)
    /\ dependencies \in Seq(Nat \X Nat)
    /\ added \in 0 .. Len(dependencies)
    /\ order \in Seq(Ids)
    /\ phase \in ConstructionPhases

\* What is known of the dependencies that are edges already.
EdgesAreChecked ==
    /\ edges = {<<dependencies[k][1], dependencies[k][2]>> : k \in 1 .. added}
    /\ \A k \in 1 .. added : KnownTasks(dependencies[k]) /\ SizesMatch(dependencies[k])
    /\ \A j, k \in 1 .. added : j # k => dependencies[j] # dependencies[k]

ChecksBehind ==
    /\ phase \notin {"check", "no_workload"} => \A t \in Ids : tasks.workload[t] # 0
    /\ phase \in {"order", "cyclic", "built"} => added = Len(dependencies)
    /\ phase \in {"check", "edges"} => order = << >>

IncomingLeft ==
    phase \in {"order", "cyclic", "built"} =>
        \A u, v \in Ids : <<u, v>> \in incoming <=> <<u, v>> \in edges /\ u \notin Extracted

IndependentReady ==
    /\ phase = "order" => independent \subseteq Ids
    /\ phase \in {"order", "cyclic", "built"} =>
           \A v \in Ids :
               v \in independent <=>
                   v \notin Extracted /\ \A u \in Ids : <<u, v>> \in edges => u \in Extracted

OrderTopological ==
    /\ \A i, j \in Places : order[i] = order[j] => i = j
    /\ \A j \in Places : \A u \in Ids :
           <<u, order[j]>> \in edges => \E i \in 1 .. j - 1 : order[i] = u

EndsForReason ==
    /\ phase # "out_of_sync"
    /\ phase \in Defects => Defective(phase)
    /\ phase = "built" => Len(order) = tasks.size

KInv ==
    /\ KTypeOK
    /\ EdgesAreChecked
    /\ ChecksBehind
    /\ IncomingLeft
    /\ IndependentReady
    /\ OrderTopological
    /\ EndsForReason

----------------------------------------------------------------------------
LEMMA InitEstablishesKInv == ConstructionInit => KInv
<1> SUFFICES ASSUME ConstructionInit PROVE KInv
  OBVIOUS
<1>1. Len(dependencies) \in Nat /\ dependencies \in Seq(Nat \X Nat)
  BY DEF ConstructionInit
<1>2. KTypeOK
  BY <1>1 DEF ConstructionInit, KTypeOK, ConstructionPhases
<1>3. EdgesAreChecked
  BY DEF ConstructionInit, EdgesAreChecked
<1>4. ChecksBehind /\ IncomingLeft /\ IndependentReady
  BY DEF ConstructionInit, ChecksBehind, IncomingLeft, IndependentReady
<1>5. OrderTopological
  BY DEF ConstructionInit, OrderTopological, Places
<1>6. EndsForReason
  BY DEF ConstructionInit, EndsForReason, Defects
<1> QED
  BY <1>2, <1>3, <1>4, <1>5, <1>6 DEF KInv

LEMMA CheckTasksKeepsKInv == KInv /\ CheckTasks => KInv'
<1> SUFFICES ASSUME KInv, CheckTasks PROVE KInv'
  OBVIOUS
<1>1. /\ phase = "check"
      /\ phase' = IF \E t \in Ids : tasks.workload[t] = 0 THEN "no_workload" ELSE "edges"
      /\ UNCHANGED <<tasks, dependencies, added, edges, independent, incoming, order>>
  BY DEF CheckTasks
<1>2. Ids' = Ids
  BY <1>1 DEF Ids
<1>3. KTypeOK'
  BY <1>1 DEF KInv, KTypeOK, Ids, ConstructionPhases, ConstructionOutcomes, Defects
<1>4. EdgesAreChecked'
  BY <1>1 DEF KInv, EdgesAreChecked, KnownTasks, SizesMatch, Ids
<1>5. ChecksBehind'
  BY <1>1, <1>2 DEF KInv, ChecksBehind
<1>6. IncomingLeft' /\ IndependentReady'
  BY <1>1 DEF IncomingLeft, IndependentReady
<1>7. OrderTopological'
  BY <1>1 DEF KInv, OrderTopological, Places, Ids
<1>8. EndsForReason'
  <2>1. phase' = "no_workload" => Defective("no_workload")'
    BY <1>1, <1>2 DEF Defective
  <2> QED
    BY <1>1, <2>1 DEF EndsForReason, Defects
<1> QED
  BY <1>3, <1>4, <1>5, <1>6, <1>7, <1>8 DEF KInv

LEMMA AddEdgeKeepsKInv == KInv /\ AddEdge => KInv'
<1> SUFFICES ASSUME KInv, AddEdge PROVE KInv'
  OBVIOUS
<1> DEFINE d == dependencies[added + 1]
<1>1. /\ phase = "edges" /\ added < Len(dependencies)
      /\ KnownTasks(d) /\ SizesMatch(d) /\ <<d[1], d[2]>> \notin edges
      /\ edges' = edges \cup {<<d[1], d[2]>>}
      /\ added' = added + 1
      /\ UNCHANGED <<tasks, dependencies, independent, incoming, order, phase>>
  BY DEF AddEdge, NextDependency, IsNew
<1>2. /\ dependencies \in Seq(Nat \X Nat)
      /\ added \in Nat /\ Len(dependencies) \in Nat
      /\ order = << >>
  BY <1>1 DEF KInv, KTypeOK, ChecksBehind
<1>3. KTypeOK'
  BY <1>1, <1>2 DEF KInv, KTypeOK, Ids
<1>4. 1 .. added' = (1 .. added) \cup {added + 1}
  BY <1>1, <1>2
<1>5. EdgesAreChecked'
  <2>1. edges' = {<<dependencies[k][1], dependencies[k][2]>> : k \in 1 .. added'}
    BY <1>1, <1>4 DEF KInv, EdgesAreChecked
  <2>2. \A k \in 1 .. added' : KnownTasks(dependencies[k]) /\ SizesMatch(dependencies[k])
    BY <1>1, <1>4 DEF KInv, EdgesAreChecked
  <2>3. \A k \in 1 .. added : dependencies[k] # d
    BY <1>1 DEF KInv, EdgesAreChecked
  <2>4. \A j, k \in 1 .. added' : j # k => dependencies[j] # dependencies[k]
    BY <1>4, <2>3 DEF KInv, EdgesAreChecked
  <2> QED
    BY <1>1, <2>1, <2>2, <2>4 DEF EdgesAreChecked, KnownTasks, SizesMatch, Ids
<1>6. ChecksBehind'
  BY <1>1, <1>2 DEF KInv, ChecksBehind, Ids
<1>7. IncomingLeft' /\ IndependentReady'
  BY <1>1 DEF IncomingLeft, IndependentReady
<1>8. OrderTopological'
  BY <1>1, <1>2 DEF OrderTopological, Places
<1>9. EndsForReason'
  BY <1>1 DEF EndsForReason, Defects
<1> QED
  BY <1>3, <1>5, <1>6, <1>7, <1>8, <1>9 DEF KInv

LEMMA RejectEdgeKeepsKInv == KInv /\ RejectEdge => KInv'
<1> SUFFICES ASSUME KInv, RejectEdge PROVE KInv'
  OBVIOUS
<1> DEFINE d == dependencies[added + 1]
<1>1. /\ phase = "edges" /\ added < Len(dependencies)
      /\ KnownTasks(d) => (SizesMatch(d) => <<d[1], d[2]>> \in edges)
      /\ phase' = IF ~KnownTasks(d) THEN "unknown_task"
                  ELSE IF ~SizesMatch(d) THEN "size_mismatch" ELSE "duplicate"
      /\ UNCHANGED <<tasks, dependencies, added, edges, independent, incoming, order>>
  BY DEF RejectEdge, NextDependency, IsNew
<1>2. /\ dependencies \in Seq(Nat \X Nat)
      /\ added \in Nat /\ Len(dependencies) \in Nat
      /\ added + 1 \in 1 .. Len(dependencies)
      /\ \A k \in 1 .. added : k \in 1 .. Len(dependencies) /\ k # added + 1
  <2>1. /\ dependencies \in Seq(Nat \X Nat)
        /\ added \in Nat /\ Len(dependencies) \in Nat
    BY DEF KInv, KTypeOK
  <2> DEFINE n == Len(dependencies)
  <2>2. added \in Nat /\ n \in Nat /\ added < n
    BY <1>1, <2>1
  <2> HIDE DEF n
  <2>3. added + 1 \in 1 .. n /\ \A k \in 1 .. added : k \in 1 .. n /\ k # added + 1
    BY <2>2
  <2> QED
    BY <2>1, <2>3 DEF n
<1>3. KTypeOK'
  BY <1>1 DEF KInv, KTypeOK, Ids, ConstructionPhases, ConstructionOutcomes, Defects
<1>4. EdgesAreChecked'
  BY <1>1 DEF KInv, EdgesAreChecked, KnownTasks, SizesMatch, Ids
<1>5. ChecksBehind'
  BY <1>1 DEF KInv, ChecksBehind, Ids
<1>6. IncomingLeft' /\ IndependentReady'
  BY <1>1 DEF IncomingLeft, IndependentReady
<1>7. OrderTopological'
  BY <1>1 DEF KInv, OrderTopological, Places, Ids
<1>8. EndsForReason'
  <2>1. CASE ~KnownTasks(d)
    <3>1. Defective("unknown_task")
      BY <1>2, <2>1 DEF Defective
    <3> QED
      BY <1>1, <2>1, <3>1 DEF EndsForReason, Defects, Defective, KnownTasks, Ids
  <2>2. CASE KnownTasks(d) /\ ~SizesMatch(d)
    <3>1. Defective("size_mismatch")
      BY <1>2, <2>2 DEF Defective
    <3> QED
      BY <1>1, <2>2, <3>1 DEF EndsForReason, Defects, Defective, KnownTasks, SizesMatch, Ids
  <2>3. CASE KnownTasks(d) /\ SizesMatch(d)
    <3>1. <<d[1], d[2]>> \in edges
      BY <1>1, <2>3
    <3>2. PICK k \in 1 .. added :
              <<dependencies[k][1], dependencies[k][2]>> = <<d[1], d[2]>>
      BY <3>1 DEF KInv, EdgesAreChecked
    <3>3. dependencies[k] \in Nat \X Nat /\ d \in Nat \X Nat
      <4>1. k \in 1 .. Len(dependencies) /\ added + 1 \in 1 .. Len(dependencies)
        BY <1>2
      <4>2. \A l \in 1 .. Len(dependencies) : dependencies[l] \in Nat \X Nat
        BY <1>2
      <4> QED
        BY <4>1, <4>2
    <3>4. dependencies[k] = d
      BY <3>2, <3>3
    <3>5. Defective("duplicate")
      BY <1>2, <3>2, <3>4 DEF Defective
    <3> QED
      BY <1>1, <2>3, <3>5 DEF EndsForReason, Defects, Defective
  <2> QED
    BY <2>1, <2>2, <2>3
<1> QED
  BY <1>3, <1>4, <1>5, <1>6, <1>7, <1>8 DEF KInv

LEMMA StartOrderKeepsKInv == KInv /\ StartOrder => KInv'
<1> SUFFICES ASSUME KInv, StartOrder PROVE KInv'
  OBVIOUS
<1>1. /\ phase = "edges" /\ added = Len(dependencies)
      /\ independent' = {v \in Ids : \A u \in Ids : <<u, v>> \notin edges}
      /\ incoming' = edges
      /\ phase' = "order"
      /\ UNCHANGED <<tasks, dependencies, added, edges, order>>
  BY DEF StartOrder
<1>2. order = << >>
  BY <1>1 DEF KInv, ChecksBehind
<1>3. Extracted' = {} /\ Ids' = Ids
  BY <1>1, <1>2 DEF Extracted, Places, Ids
<1>4. KTypeOK'
  BY <1>1 DEF KInv, KTypeOK, Ids, ConstructionPhases
<1>5. EdgesAreChecked'
  BY <1>1 DEF KInv, EdgesAreChecked, KnownTasks, SizesMatch, Ids
<1>6. ChecksBehind'
  BY <1>1 DEF KInv, ChecksBehind, Ids
<1>7. IncomingLeft'
  BY <1>1, <1>3 DEF IncomingLeft
<1>8. IndependentReady'
  BY <1>1, <1>3 DEF IndependentReady
<1>9. OrderTopological'
  BY <1>1, <1>2 DEF OrderTopological, Places
<1>10. EndsForReason'
  BY <1>1 DEF EndsForReason, Defects
<1> QED
  BY <1>4, <1>5, <1>6, <1>7, <1>8, <1>9, <1>10 DEF KInv

\* No vertex is extracted twice, none before a predecessor, and each of its
\* outgoing edges is there to be erased.
LEMMA ExtractKeepsKInv ==
    ASSUME KInv, NEW v \in Ids, Extract(v)
    PROVE  KInv'
<1>1. /\ phase = "order" /\ v \in independent
      /\ order' = Append(order, v)
      /\ IF \A c \in Outgoing(v) : <<v, c>> \in incoming
         THEN /\ incoming' = Remaining(v)
              /\ independent' = (independent \ {v}) \cup Freed(v)
              /\ UNCHANGED phase
         ELSE phase' = "out_of_sync" /\ UNCHANGED <<incoming, independent>>
      /\ UNCHANGED <<tasks, dependencies, added, edges>>
  BY DEF Extract
<1>2. order \in Seq(Ids) /\ Len(order) \in Nat
  BY DEF KInv, KTypeOK
<1>3. \A x, y \in Ids : <<x, y>> \in incoming <=> <<x, y>> \in edges /\ x \notin Extracted
  BY <1>1 DEF KInv, IncomingLeft
<1>4. /\ independent \subseteq Ids
      /\ \A x \in Ids :
             x \in independent <=>
                 x \notin Extracted /\ \A u \in Ids : <<u, x>> \in edges => u \in Extracted
  BY <1>1 DEF KInv, IndependentReady
<1>5. v \notin Extracted /\ \A u \in Ids : <<u, v>> \in edges => u \in Extracted
  BY <1>1, <1>4
<1>6. \A c \in Outgoing(v) : c \in Ids /\ <<v, c>> \in edges /\ <<v, c>> \in incoming
  BY <1>3, <1>5 DEF Outgoing
<1>7. /\ incoming' = Remaining(v)
      /\ independent' = (independent \ {v}) \cup Freed(v)
      /\ phase' = "order"
  BY <1>1, <1>6
<1>8. /\ Len(order') = Len(order) + 1 /\ Ids' = Ids
      /\ order' \in Seq(Ids)
      /\ order'[Len(order) + 1] = v
      /\ \A i \in 1 .. Len(order) : order'[i] = order[i]
  BY <1>1, <1>2 DEF Ids
<1>9. Places' = Places \cup {Len(order) + 1}
  BY <1>2, <1>8 DEF Places
<1>10. Extracted' = Extracted \cup {v}
  <2>1. \A i \in Places : order'[i] = order[i]
    BY <1>8 DEF Places
  <2>2. Extracted' = {order'[i] : i \in Places \cup {Len(order) + 1}}
    BY <1>9 DEF Extracted
  <2> QED
    BY <1>8, <2>1, <2>2 DEF Extracted
<1>11. ASSUME NEW i \in Places, NEW u \in Ids, <<u, order[i]>> \in edges
       PROVE  u \in Extracted
  <2>1. PICK j \in 1 .. i - 1 : order[j] = u
    BY <1>11 DEF KInv, OrderTopological
  <2>2. j \in Places
    BY <1>2 DEF Places
  <2> QED
    BY <2>1, <2>2 DEF Extracted
<1>12. \A x, y \in Ids : <<x, y>> \in Remaining(v) <=>
                             <<x, y>> \in edges /\ x \notin Extracted /\ x # v
  BY <1>3 DEF Remaining, Outgoing
<1>13. KTypeOK'
  BY <1>1, <1>7, <1>8 DEF KInv, KTypeOK
<1>14. EdgesAreChecked'
  BY <1>1 DEF KInv, EdgesAreChecked, KnownTasks, SizesMatch, Ids
<1>15. ChecksBehind'
  BY <1>1, <1>7 DEF KInv, ChecksBehind, Ids
<1>16. IncomingLeft'
  BY <1>1, <1>7, <1>8, <1>10, <1>12 DEF IncomingLeft
<1>17. IndependentReady'
  <2>1. ASSUME NEW x \in Ids
        PROVE  x \in independent' <=>
                   /\ x \notin Extracted'
                   /\ \A u \in Ids : <<u, x>> \in edges => u \in Extracted'
    <3>1. CASE x = v
      <4>1. <<v, v>> \notin edges
        BY <1>5
      <4> QED
        BY <1>7, <1>10, <3>1, <4>1 DEF Freed, Outgoing
    <3>2. CASE x # v /\ <<v, x>> \in edges
      <4>1. x \notin Extracted
        <5>1. ASSUME NEW i \in Places, order[i] = x PROVE FALSE
          BY <1>5, <1>11, <3>2, <5>1
        <5> QED
          BY <5>1 DEF Extracted
      <4>2. x \notin independent
        BY <1>4, <1>5, <3>2
      <4>3. x \in Freed(v) <=> \A u \in Ids : <<u, x>> \in edges => u \in Extracted \/ u = v
        BY <1>12, <3>2 DEF Freed, Outgoing
      <4> QED
        BY <1>7, <1>10, <3>2, <4>1, <4>2, <4>3
    <3>3. CASE x # v /\ <<v, x>> \notin edges
      <4>1. x \notin Freed(v)
        BY <3>3 DEF Freed, Outgoing
      <4> QED
        BY <1>4, <1>7, <1>10, <3>3, <4>1
    <3> QED
      BY <3>1, <3>2, <3>3
  <2>2. independent' \subseteq Ids
    BY <1>4, <1>7 DEF Freed, Outgoing
  <2> QED
    BY <1>1, <1>8, <2>1, <2>2 DEF IndependentReady
<1>18. OrderTopological'
  <2>1. ASSUME NEW i \in Places', NEW j \in Places', order'[i] = order'[j] PROVE i = j
    <3>1. \A k \in Places : order'[k] = order[k] /\ order[k] # v
      BY <1>5, <1>8 DEF Extracted, Places
    <3> QED
      BY <1>8, <1>9, <2>1, <3>1 DEF KInv, OrderTopological
  <2>2. ASSUME NEW j \in Places', NEW u \in Ids, <<u, order'[j]>> \in edges
        PROVE  \E i \in 1 .. j - 1 : order'[i] = u
    <3>1. CASE j \in Places
      <4>1. order'[j] = order[j]
        BY <1>8, <3>1 DEF Places
      <4>2. PICK i \in 1 .. j - 1 : order[i] = u
        BY <2>2, <3>1, <4>1 DEF KInv, OrderTopological
      <4>3. i \in 1 .. Len(order)
        BY <1>2, <3>1 DEF Places
      <4> QED
        BY <1>8, <4>2, <4>3
    <3>2. CASE j = Len(order) + 1
      <4>1. u \in Extracted
        BY <1>5, <1>8, <2>2, <3>2
      <4>2. PICK i \in Places : order[i] = u
        BY <4>1 DEF Extracted
      <4>3. i \in 1 .. Len(order) /\ i \in 1 .. j - 1
        BY <1>2, <3>2 DEF Places
      <4> QED
        BY <1>8, <4>2, <4>3
    <3> QED
      BY <1>9, <3>1, <3>2
  <2> QED
    BY <1>1, <1>8, <2>1, <2>2 DEF OrderTopological
<1>19. EndsForReason'
  BY <1>7 DEF EndsForReason, Defects
<1> QED
  BY <1>13, <1>14, <1>15, <1>16, <1>17, <1>18, <1>19 DEF KInv

\* As many vertices are extracted as there are exactly if all of them are.
LEMMA AllExtracted ==
    ASSUME KInv
    PROVE  Len(order) = tasks.size <=> Extracted = Ids
<1>1. order \in Seq(Ids) /\ Len(order) \in Nat /\ tasks.size \in Nat
  BY DEF KInv, KTypeOK, IsTaskInput
<1>2. order \in Injection(Places, Ids)
  <2>1. order \in [Places -> Ids]
    BY <1>1 DEF Places
  <2> QED
    BY <2>1 DEF KInv, OrderTopological, Injection, IsInjective
<1>3. IsFiniteSet(Ids) /\ Cardinality(Ids) = tasks.size
  <2>1. 0 \in Int /\ tasks.size - 1 \in Int
    BY <1>1
  <2>2. IsFiniteSet(0 .. tasks.size - 1)
        /\ Cardinality(0 .. tasks.size - 1) =
               IF 0 > tasks.size - 1 THEN 0 ELSE (tasks.size - 1) - 0 + 1
    BY <2>1, FS_Interval
  <2> QED
    BY <1>1, <2>2 DEF Ids
<1>4. Cardinality(Places) = Len(order)
  <2> DEFINE n == Len(order)
  <2>1. 1 \in Int /\ n \in Int /\ n \in Nat
    BY <1>1
  <2>2. Places = 1 .. n
    BY DEF Places
  <2> HIDE DEF n
  <2>3. Cardinality(1 .. n) = IF 1 > n THEN 0 ELSE n - 1 + 1
    BY <2>1, FS_Interval
  <2> QED
    BY <2>1, <2>2, <2>3 DEF n
<1>5. Cardinality(Places) = Cardinality(Ids) <=> order \in Surjection(Places, Ids)
  BY <1>2, <1>3, FS_Injection
<1>6. order \in Surjection(Places, Ids) <=> Extracted = Ids
  BY <1>2 DEF Surjection, Injection, Extracted
<1> QED
  BY <1>3, <1>4, <1>5, <1>6

LEMMA FinishOrderKeepsKInv == KInv /\ FinishOrder => KInv'
<1> SUFFICES ASSUME KInv, FinishOrder PROVE KInv'
  OBVIOUS
<1>1. /\ phase = "order" /\ independent = {}
      /\ phase' = IF Len(order) = tasks.size THEN "built" ELSE "cyclic"
      /\ UNCHANGED <<tasks, dependencies, added, edges, independent, incoming, order>>
  BY DEF FinishOrder
<1>2. Ids' = Ids /\ Extracted' = Extracted /\ Places' = Places
  BY <1>1 DEF Ids, Extracted, Places
<1>3. KTypeOK'
  BY <1>1 DEF KInv, KTypeOK, Ids, ConstructionPhases, ConstructionOutcomes, Defects
<1>4. EdgesAreChecked'
  BY <1>1 DEF KInv, EdgesAreChecked, KnownTasks, SizesMatch, Ids
<1>5. ChecksBehind'
  BY <1>1, <1>2 DEF KInv, ChecksBehind
<1>6. IncomingLeft' /\ IndependentReady'
  BY <1>1, <1>2 DEF KInv, IncomingLeft, IndependentReady
<1>7. OrderTopological'
  BY <1>1, <1>2 DEF KInv, OrderTopological
<1>8. EndsForReason'
  <2>1. CASE Len(order) = tasks.size
    BY <1>1, <2>1 DEF EndsForReason, Defects
  <2>2. CASE Len(order) # tasks.size
    <3> DEFINE c == Ids \ Extracted
    <3>1. order \in Seq(Ids)
      BY DEF KInv, KTypeOK
    <3>2. Extracted \subseteq Ids
      BY <3>1 DEF Extracted, Places
    <3>3. c # {}
      BY <2>2, <3>2, AllExtracted
    <3>4. \A v \in c : \E u \in c : <<u, v>> \in edges
      BY <1>1 DEF KInv, IndependentReady
    <3>5. HasCycle(edges)
      BY <3>3, <3>4 DEF HasCycle
    <3> HIDE DEF c
    <3>6. Defective("cyclic")'
      BY <1>1, <1>2, <3>5 DEF Defective, HasCycle
    <3> QED
      BY <1>1, <2>2, <3>6 DEF EndsForReason
  <2> QED
    BY <2>1, <2>2
<1> QED
  BY <1>3, <1>4, <1>5, <1>6, <1>7, <1>8 DEF KInv

LEMMA StepKeepsKInv == KInv /\ [ConstructionNext]_constructionVars => KInv'
<1> SUFFICES ASSUME KInv, [ConstructionNext]_constructionVars PROVE KInv'
  OBVIOUS
<1>1. CASE CheckTasks \/ AddEdge \/ RejectEdge
  BY <1>1, CheckTasksKeepsKInv, AddEdgeKeepsKInv, RejectEdgeKeepsKInv
<1>2. CASE StartOrder \/ FinishOrder
  BY <1>2, StartOrderKeepsKInv, FinishOrderKeepsKInv
<1>3. CASE \E v \in Ids : Extract(v)
  BY <1>3, ExtractKeepsKInv
<1>4. CASE UNCHANGED constructionVars
  <2>1. UNCHANGED <<tasks, dependencies, added, edges, independent, incoming, order, phase>>
    BY <1>4 DEF constructionVars
  <2>2. Ids' = Ids /\ Extracted' = Extracted /\ Places' = Places
    BY <2>1 DEF Ids, Extracted, Places
  <2>3. KTypeOK' /\ ChecksBehind' /\ IncomingLeft' /\ IndependentReady' /\ OrderTopological'
    BY <2>1, <2>2 DEF KInv, KTypeOK, ChecksBehind, IncomingLeft, IndependentReady, OrderTopological
  <2>4. EdgesAreChecked'
    BY <2>1, <2>2 DEF KInv, EdgesAreChecked, KnownTasks, SizesMatch
  <2>5. EndsForReason'
    BY <2>1, <2>2 DEF KInv, EndsForReason, Defective, KnownTasks, SizesMatch, HasCycle
  <2> QED
    BY <2>3, <2>4, <2>5 DEF KInv
<1> QED
  BY <1>1, <1>2, <1>3, <1>4 DEF ConstructionNext

\* The strengthened invariant holds in every reachable state of the constructor.
THEOREM ConstructionInvariance == ConstructionSpec => []KInv
<1> QED
  BY InitEstablishesKInv, StepKeepsKInv, PTL DEF ConstructionSpec

----------------------------------------------------------------------------
\* Once all dependencies are edges and none is left to check, nothing is wrong
\* with them; and a graph with a topological order has no cycle.
LEMMA BuiltHasNoDefect ==
    ASSUME KInv, phase = "built", NEW defect \in Defects
    PROVE  ~Defective(defect)
<1>1. /\ added = Len(dependencies)
      /\ \A t \in Ids : tasks.workload[t] # 0
      /\ Len(order) = tasks.size
  BY DEF KInv, ChecksBehind, EndsForReason
<1>2. /\ \A k \in 1 .. Len(dependencies) :
             KnownTasks(dependencies[k]) /\ SizesMatch(dependencies[k])
      /\ \A j, k \in 1 .. Len(dependencies) : j # k => dependencies[j] # dependencies[k]
  BY <1>1 DEF KInv, EdgesAreChecked
<1>3. ~HasCycle(edges)
  <2> SUFFICES ASSUME NEW c \in SUBSET Ids, c # {},
                      \A v \in c : \E u \in c : <<u, v>> \in edges
               PROVE  FALSE
    BY DEF HasCycle
  <2> DEFINE A == {i \in Places : order[i] \in c}
  <2>1. Extracted = Ids /\ Len(order) \in Nat
    BY <1>1, AllExtracted DEF KInv, KTypeOK
  <2>2. A \subseteq Nat /\ A # {}
    BY <2>1 DEF Extracted, Places
  <2>3. PICK i \in A : \A j \in A : i <= j
    <3> HIDE DEF A
    <3>1. \A x, y \in Nat : x <= y \/ y < x
      OBVIOUS
    <3>2. \E x \in A : \A y \in A : <<y, x>> \notin OpToRel(<, Nat)
      BY <2>2, NatLessThanWellFounded, WFMin
    <3>3. PICK x \in A : \A y \in A : <<y, x>> \notin OpToRel(<, Nat)
      BY <3>2
    <3>4. \A y \in A : ~(y < x)
      BY <2>2, <3>3 DEF OpToRel
    <3> QED
      BY <2>2, <3>1, <3>4
  <2>4. PICK u \in c : <<u, order[i]>> \in edges
    BY <2>3
  <2>5. PICK j \in 1 .. i - 1 : order[j] = u
    BY <2>3, <2>4 DEF KInv, OrderTopological
  <2>6. i \in 1 .. Len(order)
    BY <2>3 DEF Places
  <2>7. j \in A /\ j < i
    BY <2>1, <2>5, <2>6 DEF Places
  <2> HIDE DEF A
  <2> QED
    BY <2>2, <2>3, <2>7
<1> QED
  BY <1>1, <1>2, <1>3 DEF Defects, Defective

LEMMA KInvImpliesConstructorDecides == KInv => ConstructorDecides
<1> SUFFICES ASSUME KInv PROVE ConstructorDecides
  OBVIOUS
<1>1. phase # "out_of_sync" /\ (phase \in Defects => Defective(phase))
  BY DEF KInv, EndsForReason
<1> QED
  BY <1>1, BuiltHasNoDefect DEF ConstructorDecides

\* The constructor refuses an input for what is wrong with it, nullopt is
\* returned exactly for cyclic graphs, and no edge is ever missing.
THEOREM ConstructorAlwaysDecides == ConstructionSpec => []ConstructorDecides
<1> QED
  BY ConstructionInvariance, KInvImpliesConstructorDecides, PTL

LEMMA KInvImpliesBuildsWorkflow == KInv => BuildsWorkflow
<1> SUFFICES ASSUME KInv, phase = "built" PROVE
        /\ edges = {<<dependencies[k][1], dependencies[k][2]>> : k \in 1 .. Len(dependencies)}
        /\ (\A t \in Ids : tasks.workload[t] >= 0) => IsWorkflow(Built)
  BY DEF BuildsWorkflow
<1>1. /\ added = Len(dependencies)
      /\ \A t \in Ids : tasks.workload[t] # 0
      /\ Len(order) = tasks.size
  BY DEF KInv, ChecksBehind, EndsForReason
<1>2. edges = {<<dependencies[k][1], dependencies[k][2]>> : k \in 1 .. Len(dependencies)}
  BY <1>1 DEF KInv, EdgesAreChecked
<1>3. ASSUME \A t \in Ids : tasks.workload[t] >= 0 PROVE IsWorkflow(Built)
  <2> DEFINE W == Built
             place(t) == CHOOSE i \in Places : order[i] = t
  <2>1. /\ IsTaskInput(tasks) /\ order \in Seq(Ids) /\ Extracted = Ids
        /\ tasks.size \in Nat
    BY <1>1, AllExtracted DEF KInv, KTypeOK, IsTaskInput
  <2>2. Places = 1 .. tasks.size
    BY <1>1 DEF Places
  <2>3. ASSUME NEW t \in Ids PROVE place(t) \in Places /\ order[place(t)] = t
    <3>1. \E i \in Places : order[i] = t
      BY <2>1 DEF Extracted
    <3> QED
      BY <3>1
  <2>4. ASSUME NEW t \in Ids, NEW i \in Places, order[i] = t PROVE place(t) = i
    BY <2>3, <2>4 DEF KInv, OrderTopological
  <2>5. /\ W.size = tasks.size /\ W.workload = tasks.workload /\ W.memory = tasks.memory
        /\ W.input = tasks.input /\ W.output = tasks.output /\ W.deps = edges
        /\ W.position = [t \in Ids |-> place(t) - 1]
    BY DEF Built, Places
  <2>6. Tasks(W) = Ids
    BY <2>5 DEF Tasks, Ids
  <2> HIDE DEF W, place
  <2>7. W.size \in Nat /\ W.workload \in [Tasks(W) -> Nat \ {0}]
    <3>1. tasks.workload \in [Ids -> Int]
      BY <2>1 DEF IsTaskInput, Ids
    <3>2. \A t \in Ids : tasks.workload[t] \in Nat \ {0}
      BY <1>1, <1>3, <3>1
    <3> QED
      BY <2>1, <2>5, <2>6, <3>1, <3>2
  <2>8. /\ W.memory \in [Tasks(W) -> Nat] /\ W.input \in [Tasks(W) -> Nat]
        /\ W.output \in [Tasks(W) -> Nat]
    BY <2>1, <2>5, <2>6 DEF IsTaskInput, Ids
  <2>9. ASSUME NEW p, NEW t, <<p, t>> \in edges
        PROVE  p \in Ids /\ t \in Ids /\ tasks.output[p] = tasks.input[t]
    <3>1. PICK k \in 1 .. Len(dependencies) :
              <<p, t>> = <<dependencies[k][1], dependencies[k][2]>>
      BY <1>2, <2>9
    <3>2. KnownTasks(dependencies[k]) /\ SizesMatch(dependencies[k])
      BY <1>1 DEF KInv, EdgesAreChecked
    <3>3. p = dependencies[k][1] /\ t = dependencies[k][2]
      BY <3>1
    <3> QED
      BY <3>2, <3>3 DEF KnownTasks, SizesMatch
  <2>10. /\ W.deps \subseteq Tasks(W) \X Tasks(W)
         /\ \A p, t \in Tasks(W) : <<p, t>> \in W.deps => W.output[p] = W.input[t]
    <3>1. \A e \in edges : \E p, t \in Ids : e = <<p, t>>
      <4> SUFFICES ASSUME NEW e \in edges PROVE \E p, t \in Ids : e = <<p, t>>
        OBVIOUS
      <4>1. PICK k \in 1 .. Len(dependencies) :
                e = <<dependencies[k][1], dependencies[k][2]>>
        BY <1>2
      <4> QED
        BY <2>9, <4>1
    <3>2. edges \subseteq Ids \X Ids
      BY <3>1
    <3> QED
      BY <2>5, <2>6, <2>9, <3>2
  <2>11. W.position \in [Tasks(W) -> Tasks(W)]
    <3>1. \A t \in Ids : place(t) - 1 \in Ids
      BY <2>1, <2>2, <2>3 DEF Ids
    <3> QED
      BY <2>5, <2>6, <3>1
  <2>12. \A t, u \in Tasks(W) : W.position[t] = W.position[u] => t = u
    <3> SUFFICES ASSUME NEW t \in Ids, NEW u \in Ids, place(t) - 1 = place(u) - 1
                 PROVE  t = u
      BY <2>5, <2>6
    <3>1. place(t) = place(u)
      BY <2>1, <2>2, <2>3
    <3> QED
      BY <2>3, <3>1
  <2>13. \A p, t \in Tasks(W) : <<p, t>> \in W.deps => W.position[p] < W.position[t]
    <3> SUFFICES ASSUME NEW p \in Ids, NEW t \in Ids, <<p, t>> \in edges
                 PROVE  place(p) - 1 < place(t) - 1
      BY <2>5, <2>6
    <3>1. place(t) \in Places /\ order[place(t)] = t
      BY <2>3
    <3>2. PICK i \in 1 .. place(t) - 1 : order[i] = p
      BY <3>1 DEF KInv, OrderTopological
    <3>3. i \in Places /\ i < place(t)
      BY <2>1, <2>2, <3>1
    <3>4. place(p) = i
      BY <2>4, <3>2, <3>3
    <3> QED
      BY <2>1, <2>2, <3>1, <3>3, <3>4
  <2>14. IsWorkflow(W)
    BY <2>7, <2>8, <2>10, <2>11, <2>12, <2>13 DEF IsWorkflow
  <2> QED
    BY <2>14 DEF W
<1> QED
  BY <1>2, <1>3

\* What is built has all the properties the algorithms take for granted: above
\* all, topological_order returns every vertex once and in topological order,
\* whichever independent vertex it takes next.
THEOREM AlwaysBuildsWorkflow == ConstructionSpec => []BuildsWorkflow
<1> QED
  BY ConstructionInvariance, KInvImpliesBuildsWorkflow, PTL

----------------------------------------------------------------------------
\* Sequences: what FlattenSeq and SetToSeq return.

\* The elements of a concatenation.
LEMMA ConcatProperty ==
    ASSUME NEW T, NEW p \in Seq(T), NEW q \in Seq(T)
    PROVE  /\ p \o q \in Seq(T)
           /\ ToSet(p \o q) = ToSet(p) \cup ToSet(q)
<1> DEFINE r == p \o q
<1>1. Len(p) \in Nat /\ Len(q) \in Nat /\ DOMAIN p = 1 .. Len(p) /\ DOMAIN q = 1 .. Len(q)
  OBVIOUS
<1>2. r \in Seq(T) /\ Len(r) = Len(p) + Len(q) /\ DOMAIN r = 1 .. Len(p) + Len(q)
  OBVIOUS
<1>3. \A i \in 1 .. Len(p) : r[i] = p[i]
  OBVIOUS
<1>4. \A i \in 1 .. Len(q) : r[Len(p) + i] = q[i]
  OBVIOUS
<1> HIDE DEF r
<1>5. ASSUME NEW i \in 1 .. Len(p) + Len(q) PROVE r[i] \in ToSet(p) \cup ToSet(q)
  <2>1. CASE i <= Len(p)
    BY <1>1, <1>3, <2>1 DEF ToSet
  <2>2. CASE i > Len(p)
    <3>1. i - Len(p) \in 1 .. Len(q) /\ Len(p) + (i - Len(p)) = i
      BY <1>1, <2>2
    <3> QED
      BY <1>1, <1>4, <3>1 DEF ToSet
  <2> QED
    BY <1>1, <2>1, <2>2
<1>6. ASSUME NEW i \in 1 .. Len(p) PROVE p[i] \in ToSet(r)
  <2>1. i \in 1 .. Len(p) + Len(q)
    BY <1>1
  <2> QED
    BY <1>2, <1>3, <2>1 DEF ToSet
<1>7. ASSUME NEW i \in 1 .. Len(q) PROVE q[i] \in ToSet(r)
  <2>1. Len(p) + i \in 1 .. Len(p) + Len(q)
    BY <1>1
  <2> QED
    BY <1>2, <1>4, <2>1 DEF ToSet
<1>8. ToSet(r) = {r[i] : i \in 1 .. Len(p) + Len(q)}
  BY <1>2 DEF ToSet
<1>9. ToSet(p) = {p[i] : i \in 1 .. Len(p)} /\ ToSet(q) = {q[i] : i \in 1 .. Len(q)}
  BY <1>1 DEF ToSet
<1>10. ToSet(r) \subseteq ToSet(p) \cup ToSet(q)
  BY <1>5, <1>8
<1>11. ToSet(p) \subseteq ToSet(r) /\ ToSet(q) \subseteq ToSet(r)
  BY <1>6, <1>7, <1>9
<1> QED
  BY <1>2, <1>10, <1>11 DEF r

\* Nothing occurs twice in a concatenation of two sequences without common elements.
LEMMA ConcatInjective ==
    ASSUME NEW T, NEW p \in Seq(T), NEW q \in Seq(T), IsInjective(p), IsInjective(q),
           ToSet(p) \cap ToSet(q) = {}
    PROVE  IsInjective(p \o q)
<1> DEFINE r == p \o q
<1>1. Len(p) \in Nat /\ Len(q) \in Nat /\ DOMAIN p = 1 .. Len(p) /\ DOMAIN q = 1 .. Len(q)
  OBVIOUS
<1>2. DOMAIN r = 1 .. Len(p) + Len(q)
  OBVIOUS
<1>3. \A i \in 1 .. Len(p) : r[i] = p[i] /\ r[i] \in ToSet(p)
  BY DEF ToSet
<1>4. \A i \in 1 .. Len(p) + Len(q) :
          i > Len(p) => i - Len(p) \in 1 .. Len(q) /\ r[i] = q[i - Len(p)]
  OBVIOUS
<1>5. \A i \in 1 .. Len(p) + Len(q) : i > Len(p) => r[i] \in ToSet(q)
  BY <1>1, <1>4 DEF ToSet
<1> HIDE DEF r
<1> SUFFICES ASSUME NEW i \in 1 .. Len(p) + Len(q), NEW j \in 1 .. Len(p) + Len(q), r[i] = r[j]
             PROVE  i = j
  BY <1>2 DEF IsInjective, r
<1>6. CASE i <= Len(p) /\ j <= Len(p)
  <2>1. i \in 1 .. Len(p) /\ j \in 1 .. Len(p) /\ p[i] = p[j]
    BY <1>1, <1>3, <1>6
  <2> QED
    BY <1>1, <2>1 DEF IsInjective
<1>7. CASE i > Len(p) /\ j > Len(p)
  <2>1. i - Len(p) \in 1 .. Len(q) /\ j - Len(p) \in 1 .. Len(q) /\ q[i - Len(p)] = q[j - Len(p)]
    BY <1>4, <1>7
  <2>2. i - Len(p) = j - Len(p)
    BY <1>1, <2>1 DEF IsInjective
  <2> QED
    BY <1>1, <2>2
<1>8. ~(i <= Len(p) /\ j > Len(p))
  <2>1. ASSUME i <= Len(p), j > Len(p) PROVE FALSE
    <3>1. i \in 1 .. Len(p)
      BY <1>1, <2>1
    <3>2. r[i] \in ToSet(p) /\ r[j] \in ToSet(q)
      BY <1>3, <1>5, <2>1, <3>1
    <3> QED
      BY <3>2
  <2> QED
    BY <2>1
<1>9. ~(j <= Len(p) /\ i > Len(p))
  <2>1. ASSUME j <= Len(p), i > Len(p) PROVE FALSE
    <3>1. j \in 1 .. Len(p)
      BY <1>1, <2>1
    <3>2. r[j] \in ToSet(p) /\ r[i] \in ToSet(q)
      BY <1>3, <1>5, <2>1, <3>1
    <3> QED
      BY <3>2
  <2> QED
    BY <2>1
<1> QED
  BY <1>1, <1>6, <1>7, <1>8, <1>9

\* The first n sequences of q one after the other, as FlattenSeq computes them.
Flattens(f, q, n) ==
    f = [i \in 1 .. n |-> IF i = 1 THEN q[i] ELSE f[i - 1] \o q[i]]

LEMMA FlattensExists ==
    ASSUME NEW q, NEW n \in Nat
    PROVE  \E f : Flattens(f, q, n)
<1> DEFINE S == {m \in 0 .. n : ~\E f : Flattens(f, q, m)}
<1> SUFFICES ASSUME S # {} PROVE FALSE
  OBVIOUS
<1>0. S \in SUBSET Nat
  OBVIOUS
<1>1. PICK m \in S : \A k \in S : m <= k
  BY <1>0, LeastOf
<1>2. m # 0
  <2>1. Flattens([i \in 1 .. 0 |-> {}], q, 0)
    <3>1. [i \in 1 .. 0 |-> {}] = [i \in 1 .. 0 |-> IF i = 1 THEN q[i] ELSE [j \in 1 .. 0 |-> {}][i - 1] \o q[i]]
      OBVIOUS
    <3> QED
      BY <3>1 DEF Flattens
  <2> QED
    BY <2>1
<1>3. PICK f : Flattens(f, q, m - 1)
  BY <1>1, <1>2
<1>4. m \in Nat /\ m # 0
  BY <1>2
<1> DEFINE h == [k \in 1 .. m |-> IF k = 1 THEN q[k] ELSE f[k - 1] \o q[k]]
<1>5. \A k \in 1 .. m - 1 : f[k] = IF k = 1 THEN q[k] ELSE f[k - 1] \o q[k]
  BY <1>3 DEF Flattens
<1>6. \A k \in 1 .. m : h[k] = IF k = 1 THEN q[k] ELSE f[k - 1] \o q[k]
  BY <1>4
<1> HIDE DEF h
<1>7. \A k \in 1 .. m - 1 : h[k] = f[k]
  BY <1>4, <1>5, <1>6
<1>8. \A k \in 1 .. m : h[k] = IF k = 1 THEN q[k] ELSE h[k - 1] \o q[k]
  <2> SUFFICES ASSUME NEW k \in 1 .. m, k # 1 PROVE h[k] = h[k - 1] \o q[k]
    BY <1>6
  <2>1. k - 1 \in 1 .. m - 1
    BY <1>4
  <2> QED
    BY <1>6, <1>7, <2>1
<1>9. h = [k \in 1 .. m |-> IF k = 1 THEN q[k] ELSE h[k - 1] \o q[k]]
  <2>1. h = [k \in 1 .. m |-> h[k]]
    BY DEF h
  <2> QED
    BY <1>8, <2>1
<1> QED
  BY <1>9 DEF Flattens

\* What FlattenSeq returns is the last value of such a function.
LEMMA FlattenSeqIs ==
    ASSUME NEW q, Len(q) \in Nat, Len(q) # 0
    PROVE  \E f : Flattens(f, q, Len(q)) /\ FlattenSeq(q) = f[Len(q)]
<1> DEFINE flat == CHOOSE f : Flattens(f, q, Len(q))
<1>1. Flattens(flat, q, Len(q))
  BY FlattensExists
<1>2. FlattenSeq(q) = flat[Len(q)]
  BY DEF FlattenSeq, Flattens
<1> QED
  BY <1>1, <1>2

LEMMA FlattenProperty ==
    ASSUME NEW T, NEW q \in Seq(Seq(T))
    PROVE  /\ FlattenSeq(q) \in Seq(T)
           /\ \A t : t \in ToSet(FlattenSeq(q)) <=> \E i \in 1 .. Len(q) : t \in ToSet(q[i])
<1>1. CASE Len(q) = 0
  <2>1. q = << >> /\ FlattenSeq(q) = << >>
    BY <1>1 DEF FlattenSeq
  <2>2. ToSet(<< >>) = {} /\ << >> \in Seq(T) /\ 1 .. Len(q) = {}
    BY <1>1 DEF ToSet
  <2>3. FlattenSeq(q) \in Seq(T)
    BY <2>1, <2>2
  <2>4. ToSet(FlattenSeq(q)) = {}
    BY <2>1, <2>2
  <2> QED
    BY <2>2, <2>3, <2>4
<1>2. CASE Len(q) # 0
  <2>1. Len(q) \in Nat /\ \A i \in 1 .. Len(q) : q[i] \in Seq(T)
    OBVIOUS
  <2>2. PICK f : Flattens(f, q, Len(q)) /\ FlattenSeq(q) = f[Len(q)]
    BY <1>2, <2>1, FlattenSeqIs
  <2>3. \A i \in 1 .. Len(q) : f[i] = IF i = 1 THEN q[i] ELSE f[i - 1] \o q[i]
    BY <2>2 DEF Flattens
  <2> DEFINE Good(i) == f[i] \in Seq(T) /\ \A t : t \in ToSet(f[i]) <=> \E j \in 1 .. i : t \in ToSet(q[j])
             S == {i \in 1 .. Len(q) : ~Good(i)}
  <2>4. S = {}
    <3> SUFFICES ASSUME S # {} PROVE FALSE
      OBVIOUS
    <3>0. S \in SUBSET Nat
      BY <2>1
    <3>1. PICK i \in S : \A k \in S : i <= k
      BY <3>0, LeastOf
    <3>2. CASE i = 1
      <4>1. f[i] = q[1] /\ q[1] \in Seq(T)
        BY <2>1, <2>3, <3>2
      <4>2. 1 .. 1 = {1}
        OBVIOUS
      <4> QED
        BY <3>2, <4>1, <4>2
    <3>3. CASE i # 1
      <4>1. i - 1 \in 1 .. Len(q) /\ i \in 1 .. Len(q)
        BY <2>1, <3>3
      <4>2. Good(i - 1)
        <5>1. ~(i <= i - 1)
          BY <4>1
        <5> QED
          BY <3>1, <4>1, <5>1
      <4>3. f[i] = f[i - 1] \o q[i] /\ q[i] \in Seq(T)
        BY <2>1, <2>3, <3>3, <4>1
      <4>4. f[i] \in Seq(T) /\ ToSet(f[i]) = ToSet(f[i - 1]) \cup ToSet(q[i])
        BY <4>2, <4>3, ConcatProperty
      <4>5. 1 .. i = (1 .. i - 1) \cup {i}
        BY <2>1, <4>1
      <4> QED
        BY <4>2, <4>4, <4>5
    <3> QED
      BY <3>2, <3>3
  <2>5. Good(Len(q))
    <3>1. Len(q) \in 1 .. Len(q)
      BY <1>2, <2>1
    <3> QED
      BY <2>4, <3>1
  <2> QED
    BY <2>2, <2>5
<1> QED
  BY <1>1, <1>2

\* Nothing occurs twice if it does in none of the sequences and none shares an
\* element with another.
LEMMA FlattenInjective ==
    ASSUME NEW T, NEW q \in Seq(Seq(T)),
           \A i \in 1 .. Len(q) : IsInjective(q[i]),
           \A i, j \in 1 .. Len(q) : i # j => ToSet(q[i]) \cap ToSet(q[j]) = {}
    PROVE  IsInjective(FlattenSeq(q))
<1>1. CASE Len(q) = 0
  <2>1. q = << >> /\ FlattenSeq(q) = << >>
    BY <1>1 DEF FlattenSeq
  <2> QED
    BY <2>1 DEF IsInjective
<1>2. CASE Len(q) # 0
  <2>1. Len(q) \in Nat /\ \A i \in 1 .. Len(q) : q[i] \in Seq(T)
    OBVIOUS
  <2>2. PICK f : Flattens(f, q, Len(q)) /\ FlattenSeq(q) = f[Len(q)]
    BY <1>2, <2>1, FlattenSeqIs
  <2>3. \A i \in 1 .. Len(q) : f[i] = IF i = 1 THEN q[i] ELSE f[i - 1] \o q[i]
    BY <2>2 DEF Flattens
  <2> DEFINE Good(i) == /\ f[i] \in Seq(T)
                        /\ \A t : t \in ToSet(f[i]) <=> \E j \in 1 .. i : t \in ToSet(q[j])
                        /\ IsInjective(f[i])
             S == {i \in 1 .. Len(q) : ~Good(i)}
  <2>4. S = {}
    <3> SUFFICES ASSUME S # {} PROVE FALSE
      OBVIOUS
    <3>0. S \in SUBSET Nat
      BY <2>1
    <3>1. PICK i \in S : \A k \in S : i <= k
      BY <3>0, LeastOf
    <3>2. CASE i = 1
      <4>1. f[i] = q[1] /\ q[1] \in Seq(T) /\ IsInjective(q[1])
        BY <2>1, <2>3, <3>2
      <4>2. 1 .. 1 = {1}
        OBVIOUS
      <4> QED
        BY <3>2, <4>1, <4>2
    <3>3. CASE i # 1
      <4>1. i - 1 \in 1 .. Len(q) /\ i \in 1 .. Len(q)
        BY <2>1, <3>3
      <4>2. Good(i - 1)
        <5>1. ~(i <= i - 1)
          BY <4>1
        <5> QED
          BY <3>1, <4>1, <5>1
      <4>3. f[i] = f[i - 1] \o q[i] /\ q[i] \in Seq(T)
        BY <2>1, <2>3, <3>3, <4>1
      <4>4. f[i] \in Seq(T) /\ ToSet(f[i]) = ToSet(f[i - 1]) \cup ToSet(q[i])
        BY <4>2, <4>3, ConcatProperty
      <4>5. 1 .. i = (1 .. i - 1) \cup {i}
        BY <2>1, <4>1
      <4>7. ToSet(f[i - 1]) \cap ToSet(q[i]) = {}
        <5>1. \A j \in 1 .. i - 1 : j \in 1 .. Len(q) /\ j # i
          <6> DEFINE n == Len(q)
          <6>1. n \in Nat /\ i \in 1 .. n
            BY <2>1, <4>1
          <6> HIDE DEF n
          <6>2. \A j \in 1 .. i - 1 : j \in 1 .. n /\ j # i
            BY <6>1
          <6> QED
            BY <6>2 DEF n
        <5>2. \A j \in 1 .. i - 1 : ToSet(q[j]) \cap ToSet(q[i]) = {}
          BY <4>1, <5>1
        <5> QED
          BY <4>2, <5>2
      <4>8. IsInjective(f[i])
        BY <4>1, <4>2, <4>3, <4>7, ConcatInjective
      <4> QED
        BY <4>2, <4>4, <4>5, <4>8
    <3> QED
      BY <3>2, <3>3
  <2>5. Good(Len(q))
    <3>1. Len(q) \in 1 .. Len(q)
      BY <1>2, <2>1
    <3> QED
      BY <2>4, <3>1
  <2> QED
    BY <2>2, <2>5
<1> QED
  BY <1>1, <1>2

\* A sequence in which nothing occurs twice has as many elements as places.
LEMMA InjectiveCount ==
    ASSUME NEW T, NEW q \in Seq(T), IsInjective(q)
    PROVE  IsFiniteSet(ToSet(q)) /\ Cardinality(ToSet(q)) = Len(q)
<1>1. Len(q) \in Nat /\ DOMAIN q = 1 .. Len(q) /\ q = [i \in 1 .. Len(q) |-> q[i]]
  OBVIOUS
<1>2. q \in Bijection(1 .. Len(q), ToSet(q))
  <2>1. q \in [1 .. Len(q) -> ToSet(q)]
    BY <1>1 DEF ToSet
  <2>2. \A i, j \in 1 .. Len(q) : q[i] = q[j] => i = j
    BY <1>1 DEF IsInjective
  <2>3. \A t \in ToSet(q) : \E i \in 1 .. Len(q) : q[i] = t
    BY <1>1 DEF ToSet
  <2> QED
    BY <2>1, <2>2, <2>3 DEF Bijection, Injection, Surjection
<1>3. 1 \in Int /\ Len(q) \in Int
  BY <1>1
<1>4. IsFiniteSet(1 .. Len(q)) /\ Cardinality(1 .. Len(q)) = IF 1 > Len(q) THEN 0 ELSE Len(q) - 1 + 1
  BY <1>3, FS_Interval
<1>5. Cardinality(1 .. Len(q)) = Len(q)
  BY <1>1, <1>4
<1>6. ExistsBijection(1 .. Len(q), ToSet(q))
  BY <1>2 DEF ExistsBijection
<1>7. IsFiniteSet(ToSet(q)) /\ Cardinality(ToSet(q)) = Cardinality(1 .. Len(q))
  BY <1>4, <1>6, FS_Bijection
<1> QED
  BY <1>5, <1>7

LEMMA SetToSeqProperty ==
    ASSUME NEW S, IsFiniteSet(S)
    PROVE  /\ SetToSeq(S) \in Seq(S)
           /\ IsInjective(SetToSeq(S))
           /\ ToSet(SetToSeq(S)) = S
<1> DEFINE n == Cardinality(S)
           q == SetToSeq(S)
<1>1. n \in Nat /\ ExistsBijection(1 .. n, S)
  BY FS_CardinalityType
<1>2. PICK f : f \in Bijection(1 .. n, S)
  BY <1>1 DEF ExistsBijection
<1>3. f \in [1 .. n -> S] /\ IsInjective(f)
  BY <1>2 DEF Bijection, Injection, IsInjective
<1>4. q \in [1 .. n -> S] /\ IsInjective(q)
  BY <1>3 DEF SetToSeq
<1> HIDE DEF q
<1>5. q \in Seq(S) /\ Len(q) = n
  BY <1>1, <1>4
<1>6. ToSet(q) \in SUBSET S
  BY <1>1, <1>4 DEF ToSet
<1>7. Cardinality(ToSet(q)) = n
  BY <1>4, <1>5, InjectiveCount
<1>8. ToSet(q) = S
  BY <1>6, <1>7, FS_Subset
<1> QED
  BY <1>4, <1>5, <1>8 DEF q

----------------------------------------------------------------------------
\* Division of the tasks of one bag among those of another.

\* The shares are one after the other, as large as the quotient or by one larger,
\* and together they are the total.
LEMMA SharesProperty ==
    ASSUME NEW total \in Nat, NEW parts \in Nat \ {0}
    PROVE  /\ ShareStart(total, parts, 1) = 0
           /\ ShareStart(total, parts, parts + 1) = total
           /\ \A i \in 1 .. parts + 1 : ShareStart(total, parts, i) \in Nat
           /\ \A i \in 1 .. parts :
                  /\ Share(total, parts, i) \in {total \div parts, total \div parts + 1}
                  /\ Share(total, parts, i) \in Nat
                  /\ ShareStart(total, parts, i + 1) =
                         ShareStart(total, parts, i) + Share(total, parts, i)
<1> DEFINE q == total \div parts
           r == total % parts
<1>1. q \in Nat /\ r \in 0 .. parts - 1 /\ total = parts * q + r
  BY DivisionProperty
<1>2. \A i : ShareStart(total, parts, i) = (i - 1) * q + Min({i - 1, r})
  BY DEF ShareStart
<1>3. \A i : Share(total, parts, i) = q + IF i <= r THEN 1 ELSE 0
  BY DEF Share
<1> HIDE DEF q, r
<1>4. \A i \in 1 .. parts + 1 : Min({i - 1, r}) = IF i - 1 <= r THEN i - 1 ELSE r
  <2> SUFFICES ASSUME NEW i \in 1 .. parts + 1
               PROVE  Min({i - 1, r}) = IF i - 1 <= r THEN i - 1 ELSE r
    OBVIOUS
  <2>1. i - 1 \in Int /\ r \in Int
    BY <1>1
  <2>2. Min({i - 1, r}) \in {i - 1, r} /\ Min({i - 1, r}) <= i - 1 /\ Min({i - 1, r}) <= r
    BY <2>1, MinOfTwo
  <2> QED
    BY <2>1, <2>2
<1>5. \A i \in 1 .. parts + 1 : (i - 1) * q \in Nat
  BY <1>1
<1>6. \A i \in 1 .. parts : ((i + 1) - 1) * q = (i - 1) * q + q
  BY <1>1
<1>7. ShareStart(total, parts, 1) = 0
  <2>1. ShareStart(total, parts, 1) = (1 - 1) * q + Min({1 - 1, r})
    BY <1>2
  <2>2. Min({1 - 1, r}) = 0
    <3>1. 1 \in 1 .. parts + 1 /\ 1 - 1 <= r
      BY <1>1
    <3> QED
      BY <1>4, <3>1
  <2>3. (1 - 1) * q = 0
    BY <1>1
  <2> QED
    BY <2>1, <2>2, <2>3
<1>8. ShareStart(total, parts, parts + 1) = total
  <2>1. ShareStart(total, parts, parts + 1) = ((parts + 1) - 1) * q + Min({(parts + 1) - 1, r})
    BY <1>2
  <2>2. parts + 1 \in 1 .. parts + 1 /\ ~((parts + 1) - 1 <= r)
    BY <1>1
  <2>3. Min({(parts + 1) - 1, r}) = r
    BY <1>4, <2>2
  <2>4. ((parts + 1) - 1) * q = parts * q
    OBVIOUS
  <2> QED
    BY <1>1, <2>1, <2>3, <2>4
<1>9. ASSUME NEW i \in 1 .. parts + 1 PROVE ShareStart(total, parts, i) \in Nat
  <2> DEFINE a == (i - 1) * q
             b == Min({i - 1, r})
  <2>1. Min({i - 1, r}) = IF i - 1 <= r THEN i - 1 ELSE r
    BY <1>4
  <2>2. i - 1 \in Nat /\ r \in Nat
    BY <1>1
  <2>3. b \in Nat
    BY <2>1, <2>2
  <2>4. a \in Nat
    BY <1>5
  <2>5. ShareStart(total, parts, i) = a + b
    BY <1>2
  <2> HIDE DEF a, b
  <2> QED
    BY <2>3, <2>4, <2>5
<1>10. ASSUME NEW i \in 1 .. parts
       PROVE  /\ Share(total, parts, i) \in {q, q + 1}
              /\ Share(total, parts, i) \in Nat
              /\ ShareStart(total, parts, i + 1) = ShareStart(total, parts, i) + Share(total, parts, i)
  <2>1. Share(total, parts, i) \in {q, q + 1} /\ Share(total, parts, i) \in Nat
    BY <1>1, <1>3
  <2>2. i \in 1 .. parts + 1 /\ i + 1 \in 1 .. parts + 1
    OBVIOUS
  <2>3. /\ Min({i - 1, r}) = IF i - 1 <= r THEN i - 1 ELSE r
        /\ Min({(i + 1) - 1, r}) = IF (i + 1) - 1 <= r THEN (i + 1) - 1 ELSE r
    BY <1>4, <2>2
  <2>4. Min({(i + 1) - 1, r}) = Min({i - 1, r}) + IF i <= r THEN 1 ELSE 0
    BY <1>1, <2>3
  <2>5. /\ ShareStart(total, parts, i + 1) = ((i + 1) - 1) * q + Min({(i + 1) - 1, r})
        /\ ShareStart(total, parts, i) = (i - 1) * q + Min({i - 1, r})
        /\ Share(total, parts, i) = q + IF i <= r THEN 1 ELSE 0
    BY <1>2, <1>3
  <2>6. Min({i - 1, r}) \in Int /\ (i - 1) * q \in Int
    BY <1>1, <1>5, <2>2, <2>3
  <2>7. ShareStart(total, parts, i + 1) = ShareStart(total, parts, i) + Share(total, parts, i)
    BY <1>1, <1>6, <2>4, <2>5, <2>6
  <2> QED
    BY <2>1, <2>7
<1> QED
  BY <1>7, <1>8, <1>9, <1>10 DEF q

\* The places the i-th part gets.
Portion(total, parts, i) ==
    ShareStart(total, parts, i) + 1 .. ShareStart(total, parts, i) + Share(total, parts, i)

\* Each place is in the share of exactly one part, and the numbers of places
\* two parts have differ by at most one.
LEMMA SharesDivide ==
    ASSUME NEW total \in Nat, NEW parts \in Nat \ {0}
    PROVE  /\ \A i \in 1 .. parts : Portion(total, parts, i) \subseteq 1 .. total
           /\ \A k \in 1 .. total : \E i \in 1 .. parts : k \in Portion(total, parts, i)
           /\ \A i, j \in 1 .. parts : \A k \in Portion(total, parts, i) \cap Portion(total, parts, j) : i = j
           /\ \A i \in 1 .. parts : IsFiniteSet(Portion(total, parts, i))
           /\ \A i \in 1 .. parts :
                  Cardinality(Portion(total, parts, i)) \in {total \div parts, total \div parts + 1}
<1> DEFINE f == [i \in 1 .. parts + 1 |-> ShareStart(total, parts, i)]
           P(i) == Portion(total, parts, i)
<1>1. /\ \A i \in 1 .. parts + 1 : f[i] = ShareStart(total, parts, i) /\ f[i] \in Nat
      /\ f[1] = 0 /\ f[parts + 1] = total
      /\ \A i \in 1 .. parts : f[i + 1] = f[i] + Share(total, parts, i)
      /\ \A i \in 1 .. parts : Share(total, parts, i) \in Nat
  <2>1. \A i \in 1 .. parts + 1 : f[i] = ShareStart(total, parts, i)
    OBVIOUS
  <2>2. 1 \in 1 .. parts + 1 /\ parts + 1 \in 1 .. parts + 1
    OBVIOUS
  <2>3. \A i \in 1 .. parts : i \in 1 .. parts + 1 /\ i + 1 \in 1 .. parts + 1
    OBVIOUS
  <2> HIDE DEF f
  <2>4. /\ ShareStart(total, parts, 1) = 0
        /\ ShareStart(total, parts, parts + 1) = total
        /\ \A i \in 1 .. parts + 1 : ShareStart(total, parts, i) \in Nat
    BY SharesProperty
  <2>5. \A i \in 1 .. parts :
            /\ Share(total, parts, i) \in Nat
            /\ ShareStart(total, parts, i + 1) = ShareStart(total, parts, i) + Share(total, parts, i)
    BY SharesProperty
  <2>6. \A i \in 1 .. parts : f[i + 1] = f[i] + Share(total, parts, i)
    BY <2>1, <2>3, <2>5
  <2> QED
    BY <2>1, <2>2, <2>4, <2>5, <2>6
<1> HIDE DEF f
<1>2. \A i \in 1 .. parts : i \in 1 .. parts + 1 /\ i + 1 \in 1 .. parts + 1
  OBVIOUS
<1>3. Cuts(f, parts)
  BY <1>1, <1>2 DEF Cuts
<1>4. \A i \in 1 .. parts : P(i) = f[i] + 1 .. f[i + 1]
  BY <1>1, <1>2 DEF Portion
<1>5. \A i \in 1 .. parts : P(i) \subseteq 1 .. total
  <2> SUFFICES ASSUME NEW i \in 1 .. parts PROVE P(i) \subseteq 1 .. total
    OBVIOUS
  <2>1. parts + 1 \in i + 1 .. parts + 1
    OBVIOUS
  <2>2. f[i + 1] <= f[parts + 1]
    BY <1>2, <1>3, <2>1, CutsAscend
  <2>3. f[i] \in Nat /\ f[i + 1] \in Nat /\ f[i + 1] <= total
    BY <1>1, <1>2, <2>2
  <2>4. P(i) = f[i] + 1 .. f[i + 1]
    BY <1>4
  <2> HIDE DEF P
  <2> QED
    BY <2>3, <2>4
<1>6. \A k \in 1 .. total : \E i \in 1 .. parts : k \in P(i)
  <2> SUFFICES ASSUME NEW k \in 1 .. total PROVE \E i \in 1 .. parts : k \in P(i)
    OBVIOUS
  <2>1. k - 1 \in Nat /\ f[1] <= k - 1 /\ k - 1 < f[parts + 1]
    BY <1>1
  <2>2. PICK i \in 1 .. parts : f[i] <= k - 1 /\ k - 1 < f[i + 1]
    BY <1>3, <2>1, CutsCover
  <2>3. f[i] \in Nat /\ f[i + 1] \in Nat
    BY <1>1, <1>2
  <2>4. k \in f[i] + 1 .. f[i + 1]
    BY <2>2, <2>3
  <2> QED
    BY <1>4, <2>4
<1>7. ASSUME NEW i \in 1 .. parts, NEW j \in 1 .. parts, i < j, NEW k \in P(i), k \in P(j) PROVE FALSE
  <2>1. f[i] \in Nat /\ f[i + 1] \in Nat /\ f[j] \in Nat /\ f[j + 1] \in Nat
    BY <1>1, <1>2
  <2>2. k \in f[i] + 1 .. f[i + 1] /\ k \in f[j] + 1 .. f[j + 1]
    BY <1>4, <1>7
  <2>3. k - 1 \in Int /\ k - 1 < f[i + 1] /\ f[j] <= k - 1
    BY <2>1, <2>2
  <2> QED
    BY <1>3, <1>7, <2>3, CutsDisjoint
<1>8. \A i, j \in 1 .. parts : \A k \in P(i) \cap P(j) : i = j
  <2> SUFFICES ASSUME NEW i \in 1 .. parts, NEW j \in 1 .. parts, NEW k \in P(i) \cap P(j) PROVE i = j
    OBVIOUS
  <2>1. ~(i < j) /\ ~(j < i)
    BY <1>7
  <2> QED
    BY <2>1
<1>9. ASSUME NEW i \in 1 .. parts
      PROVE  IsFiniteSet(P(i)) /\ Cardinality(P(i)) = Share(total, parts, i)
  <2> DEFINE a == f[i] + 1
             b == f[i + 1]
  <2>1. a \in Int /\ b \in Int /\ b - a + 1 = Share(total, parts, i) /\ (a > b => Share(total, parts, i) = 0)
    BY <1>1, <1>2
  <2>2. P(i) = a .. b
    BY <1>4
  <2> HIDE DEF a, b
  <2>3. IsFiniteSet(a .. b) /\ Cardinality(a .. b) = IF a > b THEN 0 ELSE b - a + 1
    BY <2>1, FS_Interval
  <2> QED
    BY <2>1, <2>2, <2>3
<1>10. \A i \in 1 .. parts : Cardinality(P(i)) \in {total \div parts, total \div parts + 1}
  BY <1>9, SharesProperty
<1> QED
  BY <1>5, <1>6, <1>8, <1>9, <1>10

----------------------------------------------------------------------------
\* What Distribute and Aggregate build: the i-th part is linked to its portion.
SharedOut(total, parts, link) ==
    FlattenSeq([i \in 1 .. parts |->
        [j \in 1 .. Share(total, parts, i) |-> link[<<i, ShareStart(total, parts, i) + j>>]]])

\* The links of each part with its portion.
OfPortions(links, total, parts, link) ==
    \A t : t \in links <=>
        \E i \in 1 .. parts : \E k \in Portion(total, parts, i) : t = link[<<i, k>>]

LEMMA SharedOutProperty ==
    ASSUME NEW total \in Nat, NEW parts \in Nat \ {0}, NEW T,
           NEW link \in [(1 .. parts) \X (1 .. total) -> T], IsInjective(link)
    PROVE  /\ SharedOut(total, parts, link) \in Seq(T)
           /\ IsInjective(SharedOut(total, parts, link))
           /\ OfPortions(ToSet(SharedOut(total, parts, link)), total, parts, link)
<1> DEFINE start(i) == ShareStart(total, parts, i)
           share(i) == Share(total, parts, i)
           piece(i) == [j \in 1 .. share(i) |-> link[<<i, start(i) + j>>]]
           q == [i \in 1 .. parts |-> piece(i)]
<1>1. \A i \in 1 .. parts : share(i) \in Nat /\ start(i) \in Nat
  <2>1. \A i \in 1 .. parts : i \in 1 .. parts + 1
    OBVIOUS
  <2> QED
    BY <2>1, SharesProperty
<1>2. \A i \in 1 .. parts : Portion(total, parts, i) = start(i) + 1 .. start(i) + share(i)
  BY DEF Portion
<1>3. \A i \in 1 .. parts : Portion(total, parts, i) \subseteq 1 .. total
  BY SharesDivide
<1>4. SharedOut(total, parts, link) = FlattenSeq(q)
  BY DEF SharedOut
<1> HIDE DEF start, share
<1>5. \A i \in 1 .. parts : \A j \in 1 .. share(i) :
          start(i) + j \in Portion(total, parts, i) /\ start(i) + j \in 1 .. total
  <2> SUFFICES ASSUME NEW i \in 1 .. parts, NEW j \in 1 .. share(i)
               PROVE  start(i) + j \in Portion(total, parts, i) /\ start(i) + j \in 1 .. total
    OBVIOUS
  <2>1. start(i) \in Nat /\ share(i) \in Nat
    BY <1>1
  <2>2. start(i) + j \in start(i) + 1 .. start(i) + share(i)
    BY <2>1
  <2>3. start(i) + j \in Portion(total, parts, i)
    BY <1>2, <2>2
  <2> QED
    BY <1>3, <2>3
<1>6. \A i \in 1 .. parts : \A k \in Portion(total, parts, i) :
          k - start(i) \in 1 .. share(i) /\ start(i) + (k - start(i)) = k
  <2> SUFFICES ASSUME NEW i \in 1 .. parts, NEW k \in Portion(total, parts, i)
               PROVE  k - start(i) \in 1 .. share(i) /\ start(i) + (k - start(i)) = k
    OBVIOUS
  <2>1. start(i) \in Nat /\ share(i) \in Nat /\ k \in start(i) + 1 .. start(i) + share(i)
    BY <1>1, <1>2
  <2> QED
    BY <2>1
<1>7. \A i, m \in 1 .. parts : \A k, l \in 1 .. total : link[<<i, k>>] = link[<<m, l>>] => i = m /\ k = l
  <2> SUFFICES ASSUME NEW i \in 1 .. parts, NEW m \in 1 .. parts, NEW k \in 1 .. total, NEW l \in 1 .. total,
                      link[<<i, k>>] = link[<<m, l>>]
               PROVE  i = m /\ k = l
    OBVIOUS
  <2>1. <<i, k>> \in DOMAIN link /\ <<m, l>> \in DOMAIN link
    OBVIOUS
  <2>2. <<i, k>> = <<m, l>>
    BY <2>1 DEF IsInjective
  <2> QED
    BY <2>2
<1>8. ASSUME NEW i \in 1 .. parts
      PROVE  /\ q[i] \in Seq(T) /\ Len(q[i]) = share(i) /\ DOMAIN q[i] = 1 .. share(i)
             /\ \A j \in 1 .. share(i) : q[i][j] = link[<<i, start(i) + j>>]
  <2>1. q[i] = [j \in 1 .. share(i) |-> link[<<i, start(i) + j>>]]
    OBVIOUS
  <2> HIDE DEF q
  <2>2. \A j \in 1 .. share(i) : link[<<i, start(i) + j>>] \in T
    BY <1>5
  <2> DEFINE p == q[i]
  <2>3. p \in [1 .. share(i) -> T] /\ \A j \in 1 .. share(i) : p[j] = link[<<i, start(i) + j>>]
    BY <2>1, <2>2
  <2>4. share(i) \in Nat
    BY <1>1
  <2> HIDE DEF p
  <2>5. p \in Seq(T) /\ Len(p) = share(i) /\ DOMAIN p = 1 .. share(i)
    BY <2>3, <2>4
  <2> QED
    BY <2>3, <2>5 DEF p
<1>9. q \in Seq(Seq(T)) /\ Len(q) = parts
  <2>1. q = [i \in 1 .. parts |-> q[i]]
    OBVIOUS
  <2> HIDE DEF q
  <2>2. \A i \in 1 .. parts : q[i] \in Seq(T)
    BY <1>8
  <2>3. q \in [1 .. parts -> Seq(T)]
    BY <2>1, <2>2
  <2> DEFINE U == Seq(T)
  <2>4. q \in [1 .. parts -> U] /\ parts \in Nat
    BY <2>3
  <2> HIDE DEF U
  <2>5. q \in Seq(U)
    BY <2>4
  <2>6. Len(q) = parts
    BY <2>4
  <2> QED
    BY <2>5, <2>6 DEF U
<1> HIDE DEF q, piece
<1>10. ASSUME NEW i \in 1 .. parts, NEW t
       PROVE  t \in ToSet(q[i]) <=> \E k \in Portion(total, parts, i) : t = link[<<i, k>>]
  <2>1. t \in ToSet(q[i]) <=> \E j \in 1 .. share(i) : t = link[<<i, start(i) + j>>]
    <3>1. ToSet(q[i]) = {q[i][j] : j \in 1 .. share(i)}
      BY <1>8 DEF ToSet
    <3>2. \A j \in 1 .. share(i) : q[i][j] = link[<<i, start(i) + j>>]
      BY <1>8
    <3> QED
      BY <3>1, <3>2
  <2>2. ASSUME NEW j \in 1 .. share(i), t = link[<<i, start(i) + j>>]
        PROVE  \E k \in Portion(total, parts, i) : t = link[<<i, k>>]
    BY <1>5, <2>2
  <2>3. ASSUME NEW k \in Portion(total, parts, i), t = link[<<i, k>>]
        PROVE  \E j \in 1 .. share(i) : t = link[<<i, start(i) + j>>]
    BY <1>6, <2>3
  <2> QED
    BY <2>1, <2>2, <2>3
<1>11. ASSUME NEW i \in 1 .. parts PROVE IsInjective(q[i])
  <2> SUFFICES ASSUME NEW j \in 1 .. share(i), NEW l \in 1 .. share(i), q[i][j] = q[i][l] PROVE j = l
    BY <1>8 DEF IsInjective
  <2>1. link[<<i, start(i) + j>>] = link[<<i, start(i) + l>>]
    BY <1>8
  <2>2. start(i) + j = start(i) + l
    BY <1>5, <1>7, <2>1
  <2> QED
    BY <1>1, <2>2
<1>12. ASSUME NEW i \in 1 .. parts, NEW m \in 1 .. parts, i # m, NEW t \in ToSet(q[i]) \cap ToSet(q[m])
       PROVE  FALSE
  <2>1. PICK k \in Portion(total, parts, i) : t = link[<<i, k>>]
    BY <1>10
  <2>2. PICK l \in Portion(total, parts, m) : t = link[<<m, l>>]
    BY <1>10
  <2>3. k \in 1 .. total /\ l \in 1 .. total
    BY <1>3
  <2> QED
    BY <1>7, <1>12, <2>1, <2>2, <2>3
<1>13. \A i, m \in 1 .. Len(q) : i # m => ToSet(q[i]) \cap ToSet(q[m]) = {}
  BY <1>9, <1>12
<1>14. \A i \in 1 .. Len(q) : IsInjective(q[i])
  BY <1>9, <1>11
<1>15. IsInjective(FlattenSeq(q))
  BY <1>9, <1>13, <1>14, FlattenInjective
<1>16. /\ FlattenSeq(q) \in Seq(T)
       /\ \A t : t \in ToSet(FlattenSeq(q)) <=> \E i \in 1 .. parts : t \in ToSet(q[i])
  BY <1>9, FlattenProperty
<1>17. ASSUME NEW t
       PROVE  t \in ToSet(FlattenSeq(q)) <=>
                  \E i \in 1 .. parts : \E k \in Portion(total, parts, i) : t = link[<<i, k>>]
  <2>1. t \in ToSet(FlattenSeq(q)) <=> \E i \in 1 .. parts : t \in ToSet(q[i])
    BY <1>16
  <2>2. \A i \in 1 .. parts :
            t \in ToSet(q[i]) <=> \E k \in Portion(total, parts, i) : t = link[<<i, k>>]
    BY <1>10
  <2> QED
    BY <2>1, <2>2
<1> QED
  BY <1>4, <1>15, <1>16, <1>17 DEF OfPortions

\* The elements of a pair.
LEMMA PairElements == ASSUME NEW a, NEW b PROVE ToSet(<<a, b>>) = {a, b}
<1>1. DOMAIN <<a, b>> = {1, 2} /\ <<a, b>>[1] = a /\ <<a, b>>[2] = b
  OBVIOUS
<1> QED
  BY <1>1 DEF ToSet

Link(flip, giver, receiver) == IF flip THEN <<receiver, giver>> ELSE <<giver, receiver>>

LEMMA LinkProperty ==
    ASSUME NEW flip \in BOOLEAN, NEW g, NEW r
    PROVE  /\ ToSet(Link(flip, g, r)) = {g, r}
           /\ \A h, x : Link(flip, g, r) = Link(flip, h, x) => g = h /\ r = x
<1>1. ToSet(<<g, r>>) = {g, r} /\ ToSet(<<r, g>>) = {g, r}
  BY PairElements
<1>2. CASE flip = TRUE
  <2>1. \A h, x : Link(flip, h, x) = <<x, h>>
    BY <1>2 DEF Link
  <2> QED
    BY <1>1, <2>1
<1>3. CASE flip = FALSE
  <2>1. \A h, x : Link(flip, h, x) = <<h, x>>
    BY <1>3 DEF Link
  <2> QED
    BY <1>1, <2>1
<1> QED
  BY <1>2, <1>3

LinkOf(flip, givers, receivers) ==
    [x \in (1 .. Len(givers)) \X (1 .. Len(receivers)) |-> Link(flip, givers[x[1]], receivers[x[2]])]

\* The i-th of the givers and the k-th of the receivers make the link for i and k.
LinksAll(link, flip, givers, receivers) ==
    \A i \in 1 .. Len(givers), k \in 1 .. Len(receivers) :
        link[<<i, k>>] = Link(flip, givers[i], receivers[k])

\* The tasks of a bag: none occurs twice.
TaskSeq(q) == q \in Seq(Nat) /\ IsInjective(q)

LEMMA LinkOfProperty ==
    ASSUME NEW flip \in BOOLEAN, NEW givers, NEW receivers, TaskSeq(givers), TaskSeq(receivers)
    PROVE  LET link == LinkOf(flip, givers, receivers)
           IN  /\ link \in [(1 .. Len(givers)) \X (1 .. Len(receivers)) -> Nat \X Nat]
               /\ IsInjective(link)
               /\ LinksAll(link, flip, givers, receivers)
<1> DEFINE D == (1 .. Len(givers)) \X (1 .. Len(receivers))
           link == LinkOf(flip, givers, receivers)
<1>1. /\ \A i \in 1 .. Len(givers) : givers[i] \in Nat
      /\ \A k \in 1 .. Len(receivers) : receivers[k] \in Nat
      /\ DOMAIN givers = 1 .. Len(givers) /\ DOMAIN receivers = 1 .. Len(receivers)
  BY DEF TaskSeq
<1>2. \A x \in D : link[x] = Link(flip, givers[x[1]], receivers[x[2]])
  BY DEF LinkOf
<1>3. DOMAIN link = D /\ link = [x \in D |-> link[x]]
  BY DEF LinkOf
<1>4. \A x \in D : x[1] \in 1 .. Len(givers) /\ x[2] \in 1 .. Len(receivers) /\ x = <<x[1], x[2]>>
  OBVIOUS
<1>5. \A a, b \in Nat : Link(flip, a, b) \in Nat \X Nat
  BY DEF Link
<1>6. \A i \in 1 .. Len(givers), k \in 1 .. Len(receivers) :
          link[<<i, k>>] = Link(flip, givers[i], receivers[k])
  <2> SUFFICES ASSUME NEW i \in 1 .. Len(givers), NEW k \in 1 .. Len(receivers)
               PROVE  link[<<i, k>>] = Link(flip, givers[i], receivers[k])
    OBVIOUS
  <2>1. <<i, k>> \in D /\ <<i, k>>[1] = i /\ <<i, k>>[2] = k
    OBVIOUS
  <2> QED
    BY <1>2, <2>1
<1> HIDE DEF D, link
<1>7. \A x \in D : link[x] \in Nat \X Nat
  BY <1>1, <1>2, <1>4, <1>5
<1>8. link \in [D -> Nat \X Nat]
  BY <1>3, <1>7
<1>9. IsInjective(link)
  <2> SUFFICES ASSUME NEW x \in D, NEW y \in D, link[x] = link[y] PROVE x = y
    BY <1>3 DEF IsInjective
  <2>1. Link(flip, givers[x[1]], receivers[x[2]]) = Link(flip, givers[y[1]], receivers[y[2]])
    BY <1>2
  <2>2. givers[x[1]] = givers[y[1]] /\ receivers[x[2]] = receivers[y[2]]
    BY <2>1, LinkProperty
  <2>3. \A i, j \in 1 .. Len(givers) : givers[i] = givers[j] => i = j
    BY <1>1 DEF TaskSeq, IsInjective
  <2>4. \A k, l \in 1 .. Len(receivers) : receivers[k] = receivers[l] => k = l
    BY <1>1 DEF TaskSeq, IsInjective
  <2>5. x[1] = y[1] /\ x[2] = y[2]
    BY <1>4, <2>2, <2>3, <2>4
  <2> QED
    BY <1>4, <2>5
<1> QED
  BY <1>6, <1>8, <1>9 DEF D, link, LinksAll

\* Portions make an even division.
LEMMA PortionsDivideEvenly ==
    ASSUME NEW flip \in BOOLEAN, NEW givers, NEW receivers, TaskSeq(givers), TaskSeq(receivers),
           givers # << >>, ToSet(givers) \cap ToSet(receivers) = {}, NEW links,
           OfPortions(links, Len(receivers), Len(givers), LinkOf(flip, givers, receivers))
    PROVE  /\ DividedEvenly(links, givers, receivers)
           /\ \A d \in links : \E g \in ToSet(givers), r \in ToSet(receivers) : d = Link(flip, g, r)
<1> DEFINE parts == Len(givers)
           total == Len(receivers)
           link == LinkOf(flip, givers, receivers)
           P(i) == Portion(total, parts, i)
           L(i, k) == Link(flip, givers[i], receivers[k])
           Of(i) == {l \in links : givers[i] \in ToSet(l)}
<1>0. parts \in Nat \ {0} /\ total \in Nat /\ givers \in Seq(Nat) /\ receivers \in Seq(Nat)
  BY DEF TaskSeq
<1>1. /\ \A i \in 1 .. parts : P(i) \subseteq 1 .. total
      /\ \A k \in 1 .. total : \E i \in 1 .. parts : k \in P(i)
      /\ \A i, j \in 1 .. parts : \A k \in P(i) \cap P(j) : i = j
      /\ \A i \in 1 .. parts : IsFiniteSet(P(i))
      /\ \A i \in 1 .. parts : Cardinality(P(i)) \in {total \div parts, total \div parts + 1}
  BY <1>0, SharesDivide
<1>2. /\ DOMAIN givers = 1 .. parts /\ DOMAIN receivers = 1 .. total
      /\ ToSet(givers) = {givers[i] : i \in 1 .. parts}
      /\ ToSet(receivers) = {receivers[k] : k \in 1 .. total}
  <2>1. DOMAIN givers = 1 .. parts /\ DOMAIN receivers = 1 .. total
    BY <1>0
  <2> QED
    BY <2>1 DEF ToSet
<1>3. /\ \A i, j \in 1 .. parts : givers[i] = givers[j] => i = j
      /\ \A k, l \in 1 .. total : receivers[k] = receivers[l] => k = l
      /\ \A i \in 1 .. parts, k \in 1 .. total : givers[i] # receivers[k]
  <2>1. \A i, j \in 1 .. parts : givers[i] = givers[j] => i = j
    BY <1>2 DEF TaskSeq, IsInjective
  <2>2. \A k, l \in 1 .. total : receivers[k] = receivers[l] => k = l
    BY <1>2 DEF TaskSeq, IsInjective
  <2>3. \A i \in 1 .. parts, k \in 1 .. total :
            givers[i] \in ToSet(givers) /\ receivers[k] \in ToSet(receivers)
    BY <1>2
  <2> QED
    BY <2>1, <2>2, <2>3
<1>4. \A i, k : ToSet(L(i, k)) = {givers[i], receivers[k]}
  BY LinkProperty
<1>5. \A l : l \in links <=> \E i \in 1 .. parts : \E k \in P(i) : l = L(i, k)
  <2>1. LinksAll(link, flip, givers, receivers)
    BY LinkOfProperty
  <2>2. \A i \in 1 .. parts : \A k \in P(i) : link[<<i, k>>] = L(i, k)
    BY <1>1, <2>1 DEF LinksAll
  <2>3. \A l : l \in links <=> \E i \in 1 .. parts : \E k \in P(i) : l = link[<<i, k>>]
    BY DEF OfPortions
  <2> HIDE DEF P, L, link, parts
  <2> SUFFICES ASSUME NEW l PROVE l \in links <=> \E i \in 1 .. parts : \E k \in P(i) : l = L(i, k)
    OBVIOUS
  <2>4. ASSUME NEW i \in 1 .. parts PROVE (\E k \in P(i) : l = link[<<i, k>>]) <=> \E k \in P(i) : l = L(i, k)
    BY <2>2
  <2>5. l \in links <=> \E i \in 1 .. parts : \E k \in P(i) : l = link[<<i, k>>]
    BY <2>3
  <2> QED
    BY <2>4, <2>5
<1>6. total \div parts \in Nat
  BY <1>0, DivisionProperty
<1>7. \A i, k : L(i, k) \in {<<givers[i], receivers[k]>>, <<receivers[k], givers[i]>>}
  BY DEF Link
<1>8. \A i, k, m : L(i, k) = L(i, m) => receivers[k] = receivers[m]
  BY LinkProperty
<1> HIDE DEF P, L, parts, total, link
<1>9. ASSUME NEW r \in ToSet(receivers)
      PROVE  \E g \in ToSet(givers) : {l \in links : r \in ToSet(l)} \in {{<<g, r>>}, {<<r, g>>}}
  <2>1. PICK k \in 1 .. total : r = receivers[k]
    BY <1>2
  <2>2. PICK i \in 1 .. parts : k \in P(i)
    BY <1>1
  <2>3. L(i, k) \in links /\ r \in ToSet(L(i, k))
    BY <1>4, <1>5, <2>1, <2>2
  <2>4. ASSUME NEW l \in links, r \in ToSet(l) PROVE l = L(i, k)
    <3>1. PICK j \in 1 .. parts : \E m \in P(j) : l = L(j, m)
      BY <1>5
    <3>2. PICK m \in P(j) : l = L(j, m)
      BY <3>1
    <3>3. m \in 1 .. total
      BY <1>1
    <3>4. r \in {givers[j], receivers[m]}
      BY <1>4, <2>4, <3>2
    <3>5. m = k
      BY <1>3, <2>1, <3>3, <3>4
    <3>6. j = i
      BY <1>1, <2>2, <3>5
    <3> QED
      BY <3>2, <3>5, <3>6
  <2>5. {l \in links : r \in ToSet(l)} = {L(i, k)}
    BY <2>3, <2>4
  <2>6. L(i, k) \in {<<givers[i], r>>, <<r, givers[i]>>}
    BY <1>7, <2>1
  <2>7. givers[i] \in ToSet(givers)
    BY <1>2
  <2> QED
    BY <2>5, <2>6, <2>7
<1>10. ASSUME NEW i \in 1 .. parts
      PROVE  Cardinality(Of(i)) \in {total \div parts, total \div parts + 1}
  <2> DEFINE f == [k \in P(i) |-> L(i, k)]
  <2>1. \A k \in P(i) : f[k] \in Of(i)
    BY <1>4, <1>5
  <2>2. \A k, m \in P(i) : f[k] = f[m] => k = m
    <3> SUFFICES ASSUME NEW k \in P(i), NEW m \in P(i), f[k] = f[m] PROVE k = m
      OBVIOUS
    <3>1. L(i, k) = L(i, m)
      OBVIOUS
    <3>2. receivers[k] = receivers[m]
      BY <1>8, <3>1
    <3> QED
      BY <1>1, <1>3, <3>2
  <2>3. \A l \in Of(i) : \E k \in P(i) : f[k] = l
    <3> SUFFICES ASSUME NEW l \in links, givers[i] \in ToSet(l) PROVE \E k \in P(i) : f[k] = l
      OBVIOUS
    <3>1. PICK j \in 1 .. parts : \E m \in P(j) : l = L(j, m)
      BY <1>5
    <3>2. PICK m \in P(j) : l = L(j, m)
      BY <3>1
    <3>3. m \in 1 .. total
      BY <1>1
    <3>4. givers[i] \in {givers[j], receivers[m]}
      BY <1>4, <3>2
    <3>5. j = i
      BY <1>3, <3>3, <3>4
    <3> QED
      BY <3>2, <3>5
  <2>4. f \in [P(i) -> Of(i)]
    BY <2>1
  <2> HIDE DEF f, Of
  <2>5. f \in Bijection(P(i), Of(i))
    <3>1. f \in Injection(P(i), Of(i))
      BY <2>2, <2>4 DEF Injection, IsInjective
    <3>2. f \in Surjection(P(i), Of(i))
      BY <2>3, <2>4 DEF Surjection
    <3> QED
      BY <3>1, <3>2 DEF Bijection
  <2>6. ExistsBijection(P(i), Of(i))
    BY <2>5 DEF ExistsBijection
  <2>7. IsFiniteSet(P(i))
    BY <1>1
  <2>8. Cardinality(Of(i)) = Cardinality(P(i))
    BY <2>6, <2>7, FS_Bijection
  <2> QED
    BY <1>1, <2>8
<1>11. ASSUME NEW g \in ToSet(givers), NEW h \in ToSet(givers)
      PROVE  Cardinality({l \in links : g \in ToSet(l)}) <= Cardinality({l \in links : h \in ToSet(l)}) + 1
  <2>1. PICK i \in 1 .. parts : g = givers[i]
    BY <1>2
  <2>2. PICK j \in 1 .. parts : h = givers[j]
    BY <1>2
  <2>3. {l \in links : g \in ToSet(l)} = Of(i) /\ {l \in links : h \in ToSet(l)} = Of(j)
    BY <2>1, <2>2
  <2>4. /\ Cardinality(Of(i)) \in {total \div parts, total \div parts + 1}
        /\ Cardinality(Of(j)) \in {total \div parts, total \div parts + 1}
    BY <1>10
  <2> HIDE DEF Of
  <2>5. Cardinality(Of(i)) <= Cardinality(Of(j)) + 1
    BY <1>6, <2>4
  <2> QED
    BY <2>3, <2>5
<1>12. ASSUME NEW d \in links
       PROVE  \E g \in ToSet(givers), r \in ToSet(receivers) : d = Link(flip, g, r)
  <2>1. PICK i \in 1 .. parts : \E k \in P(i) : d = L(i, k)
    BY <1>5
  <2>2. PICK k \in P(i) : d = L(i, k)
    BY <2>1
  <2>3. k \in 1 .. total
    BY <1>1
  <2>4. givers[i] \in ToSet(givers) /\ receivers[k] \in ToSet(receivers)
    BY <1>2, <2>3
  <2> QED
    BY <2>2, <2>4 DEF L
<1> QED
  BY <1>9, <1>11, <1>12 DEF DividedEvenly

----------------------------------------------------------------------------
Kinds == {"one_to_one", "distribute", "aggregate"}

LEMMA SharedOutLinks ==
    ASSUME NEW flip \in BOOLEAN, NEW givers, NEW receivers, TaskSeq(givers), TaskSeq(receivers),
           givers # << >>, ToSet(givers) \cap ToSet(receivers) = {}
    PROVE  LET e == SharedOut(Len(receivers), Len(givers), LinkOf(flip, givers, receivers))
           IN  /\ e \in Seq(Nat \X Nat)
               /\ IsInjective(e)
               /\ DividedEvenly(ToSet(e), givers, receivers)
               /\ \A d \in ToSet(e) : \E g \in ToSet(givers), r \in ToSet(receivers) : d = Link(flip, g, r)
<1> DEFINE parts == Len(givers)
           total == Len(receivers)
           link == LinkOf(flip, givers, receivers)
           e == SharedOut(total, parts, link)
<1>1. parts \in Nat \ {0} /\ total \in Nat /\ givers \in Seq(Nat) /\ receivers \in Seq(Nat)
  BY DEF TaskSeq
<1>2. link \in [(1 .. parts) \X (1 .. total) -> Nat \X Nat] /\ IsInjective(link)
  BY LinkOfProperty
<1>3. OfPortions(ToSet(e), total, parts, link) /\ e \in Seq(Nat \X Nat) /\ IsInjective(e)
  <2> HIDE DEF link, total, parts
  <2> QED
    BY <1>1, <1>2, SharedOutProperty
<1> HIDE DEF e
<1>4. DividedEvenly(ToSet(e), givers, receivers)
  BY <1>3, PortionsDivideEvenly
<1>5. \A d \in ToSet(e) : \E g \in ToSet(givers), r \in ToSet(receivers) : d = Link(flip, g, r)
  BY <1>3, PortionsDivideEvenly
<1> QED
  BY <1>3, <1>4, <1>5 DEF e

\* Distribute and Aggregate share out, in opposite directions.
LEMMA SharingKinds ==
    ASSUME NEW sources, NEW targets, TaskSeq(sources), TaskSeq(targets)
    PROVE  /\ sources # << >> =>
                  Distribute(sources, targets)
                      = SharedOut(Len(targets), Len(sources), LinkOf(FALSE, sources, targets))
           /\ targets # << >> =>
                  Aggregate(sources, targets)
                      = SharedOut(Len(sources), Len(targets), LinkOf(TRUE, targets, sources))
<1>1. ASSUME NEW total \in Nat, NEW parts \in Nat \ {0}, NEW i \in 1 .. parts,
             NEW j \in 1 .. Share(total, parts, i)
      PROVE  ShareStart(total, parts, i) + j \in 1 .. total
  <2>1. i \in 1 .. parts + 1
    OBVIOUS
  <2>2. ShareStart(total, parts, i) \in Nat /\ Share(total, parts, i) \in Nat
    BY <2>1, SharesProperty
  <2>3. ShareStart(total, parts, i) + j \in Portion(total, parts, i)
    BY <2>2 DEF Portion
  <2> QED
    BY <2>3, SharesDivide
<1>2. ASSUME sources # << >>
      PROVE  Distribute(sources, targets)
                 = SharedOut(Len(targets), Len(sources), LinkOf(FALSE, sources, targets))
  <2> DEFINE parts == Len(sources)
             total == Len(targets)
             link == LinkOf(FALSE, sources, targets)
             start(i) == ShareStart(total, parts, i)
  <2>1. parts \in Nat \ {0} /\ total \in Nat
    BY <1>2 DEF TaskSeq
  <2>2. \A i \in 1 .. parts, k \in 1 .. total : link[<<i, k>>] = <<sources[i], targets[k]>>
    <3>1. LinksAll(link, FALSE, sources, targets)
      BY LinkOfProperty
    <3> QED
      BY <3>1 DEF LinksAll, Link
  <2>3. Distribute(sources, targets) =
            FlattenSeq([i \in 1 .. parts |->
                [j \in 1 .. Share(total, parts, i) |-> <<sources[i], targets[start(i) + j]>>]])
    BY DEF Distribute
  <2>4. SharedOut(total, parts, link) =
            FlattenSeq([i \in 1 .. parts |->
                [j \in 1 .. Share(total, parts, i) |-> link[<<i, start(i) + j>>]]])
    BY DEF SharedOut
  <2> HIDE DEF link
  <2>5. \A i \in 1 .. parts : \A j \in 1 .. Share(total, parts, i) :
            link[<<i, start(i) + j>>] = <<sources[i], targets[start(i) + j]>>
    BY <1>1, <2>1, <2>2
  <2> HIDE DEF parts, total, start
  <2>6. \A i \in 1 .. parts :
            [j \in 1 .. Share(total, parts, i) |-> <<sources[i], targets[start(i) + j]>>]
                = [j \in 1 .. Share(total, parts, i) |-> link[<<i, start(i) + j>>]]
    BY <2>5
  <2>7. [i \in 1 .. parts |-> [j \in 1 .. Share(total, parts, i) |-> <<sources[i], targets[start(i) + j]>>]]
            = [i \in 1 .. parts |-> [j \in 1 .. Share(total, parts, i) |-> link[<<i, start(i) + j>>]]]
    BY <2>6
  <2> QED
    BY <2>3, <2>4, <2>7 DEF parts, total, link
<1>3. ASSUME targets # << >>
      PROVE  Aggregate(sources, targets)
                 = SharedOut(Len(sources), Len(targets), LinkOf(TRUE, targets, sources))
  <2> DEFINE parts == Len(targets)
             total == Len(sources)
             link == LinkOf(TRUE, targets, sources)
             start(i) == ShareStart(total, parts, i)
  <2>1. parts \in Nat \ {0} /\ total \in Nat
    BY <1>3 DEF TaskSeq
  <2>2. \A i \in 1 .. parts, k \in 1 .. total : link[<<i, k>>] = <<sources[k], targets[i]>>
    <3>1. LinksAll(link, TRUE, targets, sources)
      BY LinkOfProperty
    <3> QED
      BY <3>1 DEF LinksAll, Link
  <2>3. Aggregate(sources, targets) =
            FlattenSeq([i \in 1 .. parts |->
                [j \in 1 .. Share(total, parts, i) |-> <<sources[start(i) + j], targets[i]>>]])
    BY DEF Aggregate
  <2>4. SharedOut(total, parts, link) =
            FlattenSeq([i \in 1 .. parts |->
                [j \in 1 .. Share(total, parts, i) |-> link[<<i, start(i) + j>>]]])
    BY DEF SharedOut
  <2> HIDE DEF link
  <2>5. \A i \in 1 .. parts : \A j \in 1 .. Share(total, parts, i) :
            link[<<i, start(i) + j>>] = <<sources[start(i) + j], targets[i]>>
    BY <1>1, <2>1, <2>2
  <2> HIDE DEF parts, total, start
  <2>6. \A i \in 1 .. parts :
            [j \in 1 .. Share(total, parts, i) |-> <<sources[start(i) + j], targets[i]>>]
                = [j \in 1 .. Share(total, parts, i) |-> link[<<i, start(i) + j>>]]
    BY <2>5
  <2>7. [i \in 1 .. parts |-> [j \in 1 .. Share(total, parts, i) |-> <<sources[start(i) + j], targets[i]>>]]
            = [i \in 1 .. parts |-> [j \in 1 .. Share(total, parts, i) |-> link[<<i, start(i) + j>>]]]
    BY <2>6
  <2> QED
    BY <2>3, <2>4, <2>7 DEF parts, total, link
<1> QED
  BY <1>2, <1>3

\* What the expansion of a bag dependency consists of.
Expands(kind, sources, targets, e) ==
    /\ e \in Seq(Nat \X Nat)
    /\ IsInjective(e)
    /\ \A d \in ToSet(e) : d[1] \in ToSet(sources) /\ d[2] \in ToSet(targets)
    /\ kind = "one_to_one" =>
           /\ Len(sources) = Len(targets)
           /\ ToSet(e) = {<<sources[i], targets[i]>> : i \in 1 .. Len(sources)}
    /\ kind = "distribute" /\ sources # << >> => DividedEvenly(ToSet(e), sources, targets)
    /\ kind = "aggregate" /\ targets # << >> => DividedEvenly(ToSet(e), targets, sources)

LEMMA ExpandProperty ==
    ASSUME NEW kind \in Kinds, NEW sources, NEW targets, TaskSeq(sources), TaskSeq(targets),
           ToSet(sources) \cap ToSet(targets) = {}, ~Refused(kind, sources, targets)
    PROVE  Expands(kind, sources, targets, ExpandBagDependency(kind, sources, targets))
<1> DEFINE e == ExpandBagDependency(kind, sources, targets)
<1>1. CASE kind = "one_to_one"
  <2> DEFINE n == Len(sources)
  <2>1. e = OneToOne(sources, targets) /\ Len(targets) = n
    BY <1>1 DEF ExpandBagDependency, DividesByZero, Refused
  <2>2. /\ n \in Nat /\ DOMAIN sources = 1 .. n /\ DOMAIN targets = 1 .. n
        /\ \A i \in 1 .. n : sources[i] \in Nat /\ targets[i] \in Nat
    BY <2>1 DEF TaskSeq
  <2>3. e = [i \in 1 .. n |-> <<sources[i], targets[i]>>]
    BY <2>1 DEF OneToOne
  <2> HIDE DEF e, n
  <2>4. e \in [1 .. n -> Nat \X Nat] /\ DOMAIN e = 1 .. n /\ \A i \in 1 .. n : e[i] = <<sources[i], targets[i]>>
    BY <2>2, <2>3
  <2>5. e \in Seq(Nat \X Nat)
    BY <2>2, <2>4
  <2>6. IsInjective(e)
    <3>1. \A i, j \in 1 .. n : sources[i] = sources[j] => i = j
      BY <2>2 DEF TaskSeq, IsInjective
    <3>2. \A i, j \in 1 .. n : e[i] = e[j] => sources[i] = sources[j]
      BY <2>4
    <3> QED
      BY <2>4, <3>1, <3>2 DEF IsInjective
  <2>7. ToSet(e) = {<<sources[i], targets[i]>> : i \in 1 .. n}
    BY <2>4 DEF ToSet
  <2>8. \A i \in 1 .. n : sources[i] \in ToSet(sources) /\ targets[i] \in ToSet(targets)
    BY <2>2 DEF ToSet
  <2>9. \A d \in ToSet(e) : d[1] \in ToSet(sources) /\ d[2] \in ToSet(targets)
    BY <2>7, <2>8
  <2> QED
    BY <1>1, <2>1, <2>5, <2>6, <2>7, <2>9 DEF Expands, e, n
<1>2. CASE kind = "distribute"
  <2>1. CASE sources = << >>
    <3>1. e = << >>
      BY <1>2, <2>1 DEF ExpandBagDependency, DividesByZero
    <3>2. ToSet(<< >>) = {} /\ IsInjective(<< >>) /\ << >> \in Seq(Nat \X Nat)
      BY DEF ToSet, IsInjective
    <3> QED
      BY <1>2, <2>1, <3>1, <3>2 DEF Expands
  <2>2. CASE sources # << >>
    <3>1. e = SharedOut(Len(targets), Len(sources), LinkOf(FALSE, sources, targets))
      BY <1>2, <2>2, SharingKinds DEF ExpandBagDependency, DividesByZero
    <3>2. /\ e \in Seq(Nat \X Nat) /\ IsInjective(e) /\ DividedEvenly(ToSet(e), sources, targets)
          /\ \A d \in ToSet(e) : \E g \in ToSet(sources), r \in ToSet(targets) : d = Link(FALSE, g, r)
      <4> DEFINE x == SharedOut(Len(targets), Len(sources), LinkOf(FALSE, sources, targets))
      <4>1. x \in Seq(Nat \X Nat) /\ IsInjective(x)
        BY <2>2, SharedOutLinks
      <4>2. DividedEvenly(ToSet(x), sources, targets)
        BY <2>2, SharedOutLinks
      <4>3. \A d \in ToSet(x) : \E g \in ToSet(sources), r \in ToSet(targets) : d = Link(FALSE, g, r)
        BY <2>2, SharedOutLinks
      <4> QED
        BY <3>1, <4>1, <4>2, <4>3
    <3>3. \A d \in ToSet(e) : d[1] \in ToSet(sources) /\ d[2] \in ToSet(targets)
      BY <3>2 DEF Link
    <3> QED
      BY <1>2, <3>2, <3>3 DEF Expands
  <2> QED
    BY <2>1, <2>2
<1>3. CASE kind = "aggregate"
  <2>1. CASE targets = << >>
    <3>1. e = << >>
      BY <1>3, <2>1 DEF ExpandBagDependency, DividesByZero
    <3>2. ToSet(<< >>) = {} /\ IsInjective(<< >>) /\ << >> \in Seq(Nat \X Nat)
      BY DEF ToSet, IsInjective
    <3> QED
      BY <1>3, <2>1, <3>1, <3>2 DEF Expands
  <2>2. CASE targets # << >>
    <3>1. e = SharedOut(Len(sources), Len(targets), LinkOf(TRUE, targets, sources))
      BY <1>3, <2>2, SharingKinds DEF ExpandBagDependency, DividesByZero
    <3>2. ToSet(targets) \cap ToSet(sources) = {}
      OBVIOUS
    <3>3. /\ e \in Seq(Nat \X Nat) /\ IsInjective(e) /\ DividedEvenly(ToSet(e), targets, sources)
          /\ \A d \in ToSet(e) : \E g \in ToSet(targets), r \in ToSet(sources) : d = Link(TRUE, g, r)
      <4> DEFINE x == SharedOut(Len(sources), Len(targets), LinkOf(TRUE, targets, sources))
      <4>1. x \in Seq(Nat \X Nat) /\ IsInjective(x)
        BY <2>2, <3>2, SharedOutLinks
      <4>2. DividedEvenly(ToSet(x), targets, sources)
        BY <2>2, <3>2, SharedOutLinks
      <4>3. \A d \in ToSet(x) : \E g \in ToSet(targets), r \in ToSet(sources) : d = Link(TRUE, g, r)
        BY <2>2, <3>2, SharedOutLinks
      <4> QED
        BY <3>1, <4>1, <4>2, <4>3
    <3>4. \A d \in ToSet(e) : d[1] \in ToSet(sources) /\ d[2] \in ToSet(targets)
      BY <3>3 DEF Link
    <3> QED
      BY <1>3, <3>3, <3>4 DEF Expands
  <2> QED
    BY <2>1, <2>2
<1> QED
  BY <1>1, <1>2, <1>3 DEF Kinds

----------------------------------------------------------------------------
\* The bags, and the tasks they are expanded to.

LEMMA BagTasks ==
    ASSUME NEW x \in Seq(TaskBag), NEW id \in Nat, IsBag(x, id)
    PROVE  /\ TaskSeq(TasksOfBag(x, id))
           /\ ToSet(TasksOfBag(x, id)) = IdsOf(x, id + 1)
<1> DEFINE q == TasksOfBag(x, id)
           b == id + 1
<1>1. b \in 1 .. Len(x) /\ q = TaskIdsPerBag(x)[b]
  BY DEF IsBag, TasksOfBag
<1> HIDE DEF b
<1>2. q = [i \in 1 .. x[b].cardinality |-> FirstId(x, b) + i - 1]
  BY <1>1 DEF TaskIdsPerBag
<1>3. x[b].cardinality \in Nat /\ FirstId(x, b) \in Nat /\ Range(q) = IdsOf(x, b)
  BY <1>1, TasksOfBagProperty
<1> HIDE DEF q
<1>4. DOMAIN q = 1 .. x[b].cardinality /\ \A i \in 1 .. x[b].cardinality : q[i] = FirstId(x, b) + i - 1
  BY <1>2
<1>5. \A i \in 1 .. x[b].cardinality : q[i] \in Nat
  BY <1>3, <1>4
<1>6. q \in [1 .. x[b].cardinality -> Nat]
  BY <1>2, <1>4, <1>5
<1>7. q \in Seq(Nat)
  BY <1>3, <1>6
<1>8. IsInjective(q)
  BY <1>3, <1>4 DEF IsInjective
<1>9. ToSet(q) = Range(q)
  BY DEF ToSet, Range
<1> QED
  BY <1>3, <1>7, <1>8, <1>9 DEF q, b, TaskSeq

\* The ids of the tasks ascend with the bags.
LEMMA BagsAscend ==
    ASSUME NEW x \in Seq(TaskBag), NEW a \in 1 .. Len(x), NEW b \in 1 .. Len(x), a < b,
           NEW t \in IdsOf(x, a), NEW u \in IdsOf(x, b)
    PROVE  t < u
<1>1. Len(x) \in Nat /\ Cuts(FirstIds(x), Len(x))
  BY FirstIdsCut
<1>2. a + 1 \in 1 .. Len(x) + 1 /\ b \in a + 1 .. Len(x) + 1 /\ b \in 1 .. Len(x) + 1 /\ a \in 1 .. Len(x) + 1
      /\ b + 1 \in 1 .. Len(x) + 1
  BY <1>1
<1>3. FirstIds(x)[a + 1] <= FirstIds(x)[b]
  BY <1>1, <1>2, CutsAscend
<1>4. FirstId(x, a + 1) <= FirstId(x, b)
  BY <1>2, <1>3 DEF FirstIds
<1>5. FirstId(x, a) \in Nat /\ FirstId(x, a + 1) \in Nat /\ FirstId(x, b) \in Nat /\ FirstId(x, b + 1) \in Nat
  BY <1>2, FirstIdProperty
<1> QED
  BY <1>4, <1>5 DEF IdsOf

LEMMA BagsApart ==
    ASSUME NEW x \in Seq(TaskBag), NEW a \in 1 .. Len(x), NEW b \in 1 .. Len(x),
           NEW t, t \in IdsOf(x, a), t \in IdsOf(x, b)
    PROVE  a = b
<1>1. BagOf(x, t) = a /\ BagOf(x, t) = b
  BY BagOfProperty
<1> QED
  BY <1>1

\* expand_task_bags returns what the constructor can be given.
LEMMA UnpackedTasksProperty ==
    ASSUME NEW x \in Seq(TaskBag)
    PROVE  IsTaskInput(UnpackedTasks(x)) /\ UnpackedTasks(x).size = FirstId(x, Len(x) + 1)
<1> DEFINE n == FirstId(x, Len(x) + 1)
           u == UnpackedTasks(x)
<1>1. n \in Nat
  BY FirstIdProperty
<1>2. \A t \in 0 .. n - 1 : BagOf(x, t) \in 1 .. Len(x) /\ x[BagOf(x, t)] \in TaskBag
  <2> SUFFICES ASSUME NEW t \in 0 .. n - 1 PROVE BagOf(x, t) \in 1 .. Len(x)
    OBVIOUS
  <2>1. PICK b \in 1 .. Len(x) : t \in IdsOf(x, b)
    BY EveryTaskInBag
  <2> QED
    BY <2>1, BagOfProperty
<1>3. /\ u.size = n
      /\ u.workload = [t \in 0 .. n - 1 |-> x[BagOf(x, t)].workload]
      /\ u.memory = [t \in 0 .. n - 1 |-> x[BagOf(x, t)].memory]
      /\ u.input = [t \in 0 .. n - 1 |-> x[BagOf(x, t)].input]
      /\ u.output = [t \in 0 .. n - 1 |-> x[BagOf(x, t)].output]
  BY DEF UnpackedTasks, ExpandTaskBags
<1> HIDE DEF n, u
<1>4. \A t \in 0 .. n - 1 : /\ x[BagOf(x, t)].workload \in Int /\ x[BagOf(x, t)].memory \in Nat
                            /\ x[BagOf(x, t)].input \in Nat /\ x[BagOf(x, t)].output \in Nat
  BY <1>2 DEF TaskBag
<1> QED
  BY <1>1, <1>3, <1>4 DEF IsTaskInput, n, u

----------------------------------------------------------------------------
\* The patterns of the topologies.

LEMMA PatternEntries ==
    ASSUME NEW p \in KnownTopologies, p # "montage", NEW x \in DependencyPattern[p]
    PROVE  /\ x[1] \in 0 .. 8 /\ x[2] \in 0 .. 8
           /\ x[1] < x[2] /\ x[3] \in Kinds
<1>1. p \in {"epigenome", "cybershake", "ligo"}
  BY DEF KnownTopologies, DependencyPattern
<1>2. CASE p = "epigenome"
  BY <1>2 DEF DependencyPattern, Kinds
<1>3. CASE p = "cybershake"
  BY <1>3 DEF DependencyPattern, Kinds
<1>4. CASE p = "ligo"
  BY <1>4 DEF DependencyPattern, Kinds
<1> QED
  BY <1>1, <1>2, <1>3, <1>4

\* No two dependencies of a pattern are between the same bags.
LEMMA PatternUnique ==
    ASSUME NEW p \in KnownTopologies, p # "montage",
           NEW x \in DependencyPattern[p], NEW y \in DependencyPattern[p],
           x[1] = y[1], x[2] = y[2]
    PROVE  x = y
<1>1. p \in {"epigenome", "cybershake", "ligo"}
  BY DEF KnownTopologies, DependencyPattern
<1>2. CASE p = "epigenome"
  BY <1>2 DEF DependencyPattern
<1>3. CASE p = "cybershake"
  BY <1>3 DEF DependencyPattern
<1>4. CASE p = "ligo"
  BY <1>4 DEF DependencyPattern
<1> QED
  BY <1>1, <1>2, <1>3, <1>4

LEMMA PatternFinite ==
    ASSUME NEW p \in KnownTopologies, p # "montage"
    PROVE  IsFiniteSet(DependencyPattern[p])
<1> DEFINE S == DependencyPattern[p]
           f == [x \in S |-> 9 * x[1] + x[2]]
<1>1. \A x \in S : x[1] \in 0 .. 8 /\ x[2] \in 0 .. 8
  BY PatternEntries
<1>2. f \in [S -> 0 .. 80]
  BY <1>1
<1>3. \A x, y \in S : f[x] = f[y] => x = y
  <2> SUFFICES ASSUME NEW x \in S, NEW y \in S, f[x] = f[y] PROVE x = y
    OBVIOUS
  <2>1. 9 * x[1] + x[2] = 9 * y[1] + y[2]
    OBVIOUS
  <2> DEFINE a == x[1]
             b == x[2]
             c == y[1]
             d == y[2]
  <2>2. a \in 0 .. 8 /\ b \in 0 .. 8 /\ c \in 0 .. 8 /\ d \in 0 .. 8 /\ 9 * a + b = 9 * c + d
    BY <1>1, <2>1
  <2>3. x[1] = y[1] /\ x[2] = y[2]
    <3> HIDE DEF a, b, c, d
    <3>1. a = c /\ b = d
      BY <2>2
    <3> QED
      BY <3>1 DEF a, b, c, d
  <2> QED
    BY <2>3, PatternUnique
<1> HIDE DEF f, S
<1>4. f \in Injection(S, 0 .. 80)
  BY <1>2, <1>3 DEF Injection, IsInjective
<1>5. 0 \in Int /\ 80 \in Int
  OBVIOUS
<1>6. IsFiniteSet(0 .. 80)
  BY <1>5, FS_Interval
<1> QED
  BY <1>4, <1>6, FS_Injection DEF S

LEMMA MontageHasComplex == <<0, 1, "complex">> \in DependencyPattern["montage"]
BY DEF DependencyPattern

----------------------------------------------------------------------------
\* The types of the graph's variables, and the whole program.

GraphTyped ==
    /\ independent \subseteq Ids
    /\ incoming \subseteq edges
    /\ phase \notin {"order", "cyclic", "built"} => order = << >>

LEMMA StepKeepsGraphTyped ==
    KInv /\ KInv' /\ GraphTyped /\ ConstructionNext => GraphTyped'
<1> SUFFICES ASSUME KInv, KInv', GraphTyped, ConstructionNext PROVE GraphTyped'
  OBVIOUS
<1>1. CASE CheckTasks
  BY <1>1 DEF CheckTasks, GraphTyped, Ids
<1>2. CASE AddEdge
  BY <1>2 DEF AddEdge, GraphTyped, Ids
<1>3. CASE RejectEdge
  BY <1>3 DEF RejectEdge, GraphTyped, Ids
<1>4. CASE StartOrder
  BY <1>4 DEF StartOrder, GraphTyped, Ids
<1>5. CASE \E v \in Ids : Extract(v)
  <2>1. PICK v \in Ids : Extract(v)
    BY <1>5
  <2>2. phase' # "out_of_sync"
    BY DEF KInv, EndsForReason
  <2>3. /\ phase = "order" /\ phase' = phase /\ tasks' = tasks /\ edges' = edges
        /\ incoming' = Remaining(v)
        /\ independent' = (independent \ {v}) \cup Freed(v)
    BY <2>1, <2>2 DEF Extract
  <2> QED
    BY <2>3 DEF GraphTyped, Ids, Remaining, Freed, Outgoing
<1>6. CASE FinishOrder
  BY <1>6 DEF FinishOrder, GraphTyped, Ids
<1> QED
  BY <1>1, <1>2, <1>3, <1>4, <1>5, <1>6 DEF ConstructionNext

\* No dependency is missing, and there is none but those of the pattern's entries
\* whose source is one of the bags gone through.
InferredUpTo ==
    /\ IsInjective(dependencies)
    /\ \A d : d \in ToSet(dependencies) <=>
                  \E x \in DependencyPattern[topology] : x[1] < bag /\ d \in ToSet(Expansion(x))
    /\ \A x \in DependencyPattern[topology] : x[1] < bag => ~Fails(x)

FrontTyped ==
    /\ bags \in Seq(TaskBag)
    /\ IsDependencyFile(file)
    /\ tasks = UnpackedTasks(bags)
    /\ dependencies \in Seq(Nat \X Nat)
    /\ bag \in 0 .. Len(bags)
    /\ phase \in FrontPhases \cup ConstructionPhases

\* Before the constructor is called the graph is empty.
GraphEmpty ==
    phase \in FrontPhases =>
        added = 0 /\ edges = {} /\ independent = {} /\ incoming = {} /\ order = << >>

SourceChosen ==
    /\ phase = "topology" => bag = 0 /\ dependencies = << >>
    /\ phase = "infer" => file = NoFile
    /\ phase = "read" => file # NoFile

\* A montage workflow does not get past its bag 0.
Inferred ==
    file = NoFile /\ phase \in {"infer", "remove"} \cup ConstructionPhases =>
        /\ topology \in KnownTopologies
        /\ topology = "montage" => bag = 0 /\ phase \in {"infer", "remove"}
        /\ topology # "montage" => InferredUpTo
        /\ phase # "infer" => bag = Len(bags)

FInv ==
    /\ FrontTyped
    /\ GraphEmpty
    /\ SourceChosen
    /\ Inferred
    /\ phase \in ConstructionPhases => KInv /\ GraphTyped

\* The phases are told apart in every step.
USE DEF ConstructionPhases, ConstructionOutcomes, Defects, FrontPhases, FrontOutcomes

LEMMA InitEstablishesFInv == Init => FInv
<1> SUFFICES ASSUME Init PROVE FInv
  OBVIOUS
<1>1. PICK x \in Inputs : bags = x.bags /\ topology = x.topology /\ file = x.file
  BY DEF Init
<1>2. bags \in Seq(TaskBag) /\ IsDependencyFile(file)
  BY <1>1, InputsAssumption
<1>3. FrontTyped
  BY <1>2 DEF Init, FrontTyped
<1> QED
  BY <1>3 DEF Init, FInv, GraphEmpty, SourceChosen, Inferred

\* What every step before the constructor keeps.
LEMMA FrontStepKeeps ==
    ASSUME FInv, phase \in FrontPhases, GraphUnchanged
    PROVE  /\ bags' = bags /\ topology' = topology /\ file' = file /\ tasks' = tasks
           /\ bags' \in Seq(TaskBag)
           /\ IsDependencyFile(file')
           /\ tasks' = UnpackedTasks(bags')
           /\ GraphEmpty'
           /\ added' = 0 /\ edges' = {} /\ independent' = {} /\ incoming' = {} /\ order' = << >>
BY DEF FInv, FrontTyped, GraphEmpty, GraphUnchanged

LEMMA ParseTopologyKeepsFInv == FInv /\ ParseTopology => FInv'
<1> SUFFICES ASSUME FInv, ParseTopology PROVE FInv'
  OBVIOUS
<1>1. /\ phase = "topology" /\ bag' = bag /\ dependencies' = dependencies
      /\ GraphUnchanged
      /\ phase' = IF topology \notin KnownTopologies \cup {"none"} THEN "bad_topology"
                  ELSE IF file # NoFile THEN "read"
                  ELSE IF topology = "none" THEN "bad_topology" ELSE "infer"
  BY DEF ParseTopology
<1>2. /\ bags' = bags /\ topology' = topology /\ file' = file /\ tasks' = tasks
      /\ bags' \in Seq(TaskBag) /\ IsDependencyFile(file') /\ tasks' = UnpackedTasks(bags')
      /\ GraphEmpty'
  BY <1>1, FrontStepKeeps
<1>3. bag = 0 /\ dependencies = << >>
  BY <1>1 DEF FInv, SourceChosen
<1>4. FrontTyped'
  BY <1>1, <1>2 DEF FInv, FrontTyped
<1>5. phase' \in {"bad_topology", "read", "infer"} /\ (phase' = "read" => file # NoFile)
      /\ (phase' = "infer" => file = NoFile /\ topology \in KnownTopologies)
  BY <1>1
<1>6. SourceChosen'
  BY <1>2, <1>5 DEF SourceChosen
<1>7. ASSUME topology \in KnownTopologies, topology # "montage" PROVE InferredUpTo'
  <2>1. \A x \in DependencyPattern[topology] : ~(x[1] < 0)
    BY <1>7, PatternEntries
  <2>2. ToSet(<< >>) = {} /\ IsInjective(<< >>)
    BY DEF ToSet, IsInjective
  <2>3. IsInjective(dependencies)'
    BY <1>1, <1>3, <2>2
  <2> QED
    BY <1>1, <1>2, <1>3, <2>1, <2>2, <2>3 DEF InferredUpTo
<1>8. Inferred'
  BY <1>1, <1>2, <1>3, <1>5, <1>7 DEF Inferred
<1> QED
  BY <1>2, <1>4, <1>5, <1>6, <1>8 DEF FInv

----------------------------------------------------------------------------
\* What an entry of the pattern is expanded to, if it is not refused.
Entry(x) ==
    /\ x[1] \in Nat /\ x[2] \in Nat /\ x[1] < x[2]
    /\ x[1] + 1 \in 1 .. Len(bags) /\ x[2] + 1 \in 1 .. Len(bags)
    /\ ToSet(TasksOfBag(bags, x[1])) = IdsOf(bags, x[1] + 1)
    /\ ToSet(TasksOfBag(bags, x[2])) = IdsOf(bags, x[2] + 1)
    /\ Expands(x[3], TasksOfBag(bags, x[1]), TasksOfBag(bags, x[2]), Expansion(x))

Inferable == bags \in Seq(TaskBag) /\ topology \in KnownTopologies /\ topology # "montage"

LEMMA EntryExpands ==
    ASSUME Inferable, NEW x \in DependencyPattern[topology], IsBag(bags, x[1]), ~Fails(x)
    PROVE  Entry(x)
<1> DEFINE S == TasksOfBag(bags, x[1])
           T == TasksOfBag(bags, x[2])
<1>1. x[1] \in Nat /\ x[2] \in Nat /\ x[1] < x[2] /\ x[3] \in Kinds
  BY PatternEntries DEF Inferable
<1>2. IsBag(bags, x[2]) /\ ~Refused(x[3], S, T)
  BY DEF Fails
<1>3. /\ TaskSeq(S) /\ ToSet(S) = IdsOf(bags, x[1] + 1)
      /\ TaskSeq(T) /\ ToSet(T) = IdsOf(bags, x[2] + 1)
  BY <1>1, <1>2, BagTasks DEF Inferable
<1>4. Len(bags) \in Nat
  BY DEF Inferable
<1>5. x[1] + 1 \in 1 .. Len(bags) /\ x[2] + 1 \in 1 .. Len(bags)
  BY <1>1, <1>2, <1>4 DEF IsBag
<1>6. ToSet(S) \cap ToSet(T) = {}
  <2> SUFFICES ASSUME NEW t, t \in IdsOf(bags, x[1] + 1), t \in IdsOf(bags, x[2] + 1) PROVE FALSE
    BY <1>3
  <2>1. x[1] + 1 = x[2] + 1
    BY <1>5, BagsApart DEF Inferable
  <2> QED
    BY <1>1, <2>1
<1>7. Expands(x[3], S, T, ExpandBagDependency(x[3], S, T))
  BY <1>1, <1>2, <1>3, <1>6, ExpandProperty
<1> QED
  BY <1>1, <1>3, <1>5, <1>7 DEF Entry, Expansion

\* No dependency comes from two entries.
LEMMA EntriesApart ==
    ASSUME Inferable,
           NEW x \in DependencyPattern[topology], NEW y \in DependencyPattern[topology],
           Entry(x), Entry(y), NEW d, d \in ToSet(Expansion(x)), d \in ToSet(Expansion(y))
    PROVE  x = y
<1>1. /\ d[1] \in IdsOf(bags, x[1] + 1) /\ d[2] \in IdsOf(bags, x[2] + 1)
      /\ d[1] \in IdsOf(bags, y[1] + 1) /\ d[2] \in IdsOf(bags, y[2] + 1)
  BY DEF Entry, Expands
<1>2. x[1] + 1 = y[1] + 1 /\ x[2] + 1 = y[2] + 1
  BY <1>1, BagsApart DEF Inferable, Entry
<1>3. x[1] = y[1] /\ x[2] = y[2]
  BY <1>2 DEF Entry
<1> QED
  BY <1>3, PatternUnique DEF Inferable

\* What one iteration appends.
LEMMA BagExpansion ==
    ASSUME Inferable, \A x \in BagDependencies : Entry(x)
    PROVE  LET new == FlattenSeq(SetToSeq({Expansion(x) : x \in BagDependencies}))
           IN  /\ new \in Seq(Nat \X Nat)
               /\ IsInjective(new)
               /\ \A d : d \in ToSet(new) <=> \E x \in BagDependencies : d \in ToSet(Expansion(x))
<1> DEFINE B == BagDependencies
           E == {Expansion(x) : x \in B}
           q == SetToSeq(E)
<1>1. IsFiniteSet(B)
  <2>1. IsFiniteSet(DependencyPattern[topology])
    BY PatternFinite DEF Inferable
  <2>2. B \in SUBSET DependencyPattern[topology]
    BY DEF BagDependencies
  <2> QED
    BY <2>1, <2>2, FS_Subset
<1>2. B \subseteq DependencyPattern[topology]
  BY DEF BagDependencies
<1> HIDE DEF B
<1>3. IsFiniteSet(E)
  <2> DEFINE f == [x \in B |-> Expansion(x)]
  <2>1. f \in [B -> E] /\ \A x \in B : f[x] = Expansion(x)
    OBVIOUS
  <2>2. \A e \in E : \E x \in B : f[x] = e
    OBVIOUS
  <2> HIDE DEF f, E
  <2>3. f \in Surjection(B, E)
    BY <2>1, <2>2 DEF Surjection
  <2> QED
    BY <1>1, <2>3, FS_Surjection
<1>4. \A e \in E : e \in Seq(Nat \X Nat) /\ IsInjective(e)
  BY DEF Entry, Expands, B
<1>5. q \in Seq(E) /\ IsInjective(q) /\ ToSet(q) = E
  BY <1>3, SetToSeqProperty
<1>6. ASSUME NEW e \in E, NEW f \in E, e # f PROVE ToSet(e) \cap ToSet(f) = {}
  <2> SUFFICES ASSUME NEW d, d \in ToSet(e), d \in ToSet(f) PROVE FALSE
    OBVIOUS
  <2>1. PICK x \in B : e = Expansion(x)
    OBVIOUS
  <2>2. PICK y \in B : f = Expansion(y)
    OBVIOUS
  <2>3. Entry(x) /\ Entry(y) /\ x \in DependencyPattern[topology] /\ y \in DependencyPattern[topology]
    BY <1>2 DEF B
  <2>4. x = y
    BY <2>1, <2>2, <2>3, EntriesApart
  <2> QED
    BY <1>6, <2>1, <2>2, <2>4
<1>7. \A d : (\E e \in E : d \in ToSet(e)) <=> \E x \in B : d \in ToSet(Expansion(x))
  OBVIOUS
<1> HIDE DEF E, q
<1>8. /\ Len(q) \in Nat /\ DOMAIN q = 1 .. Len(q)
      /\ \A i \in 1 .. Len(q) : q[i] \in E
  BY <1>5
<1>9. q \in Seq(Seq(Nat \X Nat))
  BY <1>4, <1>5, <1>8
<1>10. /\ FlattenSeq(q) \in Seq(Nat \X Nat)
       /\ \A d : d \in ToSet(FlattenSeq(q)) <=> \E i \in 1 .. Len(q) : d \in ToSet(q[i])
  BY <1>9, FlattenProperty
<1>11. \A d : (\E i \in 1 .. Len(q) : d \in ToSet(q[i])) <=> \E e \in E : d \in ToSet(e)
  BY <1>5, <1>8 DEF ToSet
<1>12. IsInjective(FlattenSeq(q))
  <2>1. \A i, j \in 1 .. Len(q) : i # j => q[i] # q[j]
    BY <1>5, <1>8 DEF IsInjective
  <2>2. \A i, j \in 1 .. Len(q) : i # j => ToSet(q[i]) \cap ToSet(q[j]) = {}
    BY <1>6, <1>8, <2>1
  <2>3. \A i \in 1 .. Len(q) : IsInjective(q[i])
    BY <1>4, <1>8
  <2> QED
    BY <1>9, <2>2, <2>3, FlattenInjective
<1> QED
  BY <1>7, <1>10, <1>11, <1>12 DEF q, E, B

LEMMA InferBagKeepsFInv == FInv /\ InferBag => FInv'
<1> SUFFICES ASSUME FInv, InferBag PROVE FInv'
  OBVIOUS
<1> DEFINE new == FlattenSeq(SetToSeq({Expansion(x) : x \in BagDependencies}))
<1>1. /\ phase = "infer" /\ bag < Len(bags) /\ bag' = bag + 1 /\ phase' = phase
      /\ GraphUnchanged
      /\ \A x \in BagDependencies : ~Fails(x)
      /\ dependencies' = dependencies \o new
  BY DEF InferBag, Inferring
<1> HIDE DEF new
<1>2. /\ bags' = bags /\ topology' = topology /\ file' = file /\ tasks' = tasks
      /\ bags' \in Seq(TaskBag) /\ IsDependencyFile(file') /\ tasks' = UnpackedTasks(bags')
      /\ GraphEmpty'
  BY <1>1, FrontStepKeeps
<1>3. /\ file = NoFile /\ topology \in KnownTopologies
      /\ topology = "montage" => bag = 0
      /\ topology # "montage" => InferredUpTo
      /\ bag \in Nat /\ Len(bags) \in Nat /\ bag \in 0 .. Len(bags)
      /\ dependencies \in Seq(Nat \X Nat)
  BY <1>1 DEF FInv, FrontTyped, SourceChosen, Inferred
<1>4. topology # "montage"
  <2> SUFFICES ASSUME topology = "montage" PROVE FALSE
    OBVIOUS
  <2> DEFINE x == <<0, 1, "complex">>
  <2>1. x \in BagDependencies
    BY <1>3, MontageHasComplex DEF BagDependencies
  <2>2. Fails(x)
    BY DEF Fails, Refused
  <2> QED
    BY <1>1, <2>1, <2>2
<1>5. Inferable /\ InferredUpTo
  BY <1>2, <1>3, <1>4 DEF Inferable
<1>6. \A x \in DependencyPattern[topology] : x[1] \in Nat
  BY <1>5, PatternEntries DEF Inferable
<1>7. ASSUME NEW x \in DependencyPattern[topology], x[1] <= bag PROVE ~Fails(x) /\ Entry(x)
  <2>1. ~Fails(x)
    BY <1>1, <1>3, <1>5, <1>6, <1>7 DEF InferredUpTo, BagDependencies
  <2>2. IsBag(bags, x[1])
    BY <1>1, <1>3, <1>6, <1>7 DEF IsBag
  <2> QED
    BY <1>5, <2>1, <2>2, EntryExpands
<1>8. \A x \in BagDependencies : Entry(x)
  BY <1>3, <1>7 DEF BagDependencies
<1>9. /\ new \in Seq(Nat \X Nat)
      /\ IsInjective(new)
      /\ \A d : d \in ToSet(new) <=> \E x \in BagDependencies : d \in ToSet(Expansion(x))
  BY <1>5, <1>8, BagExpansion DEF new
<1>10. dependencies' \in Seq(Nat \X Nat) /\ ToSet(dependencies') = ToSet(dependencies) \cup ToSet(new)
  BY <1>1, <1>3, <1>9, ConcatProperty
<1>11. IsInjective(dependencies')
  <2>1. ASSUME NEW d, d \in ToSet(dependencies), d \in ToSet(new) PROVE FALSE
    <3>1. PICK x \in DependencyPattern[topology] : x[1] < bag /\ d \in ToSet(Expansion(x))
      BY <1>5, <2>1 DEF InferredUpTo
    <3>2. PICK y \in DependencyPattern[topology] : y[1] = bag /\ d \in ToSet(Expansion(y))
      BY <1>9, <2>1 DEF BagDependencies
    <3>3. Entry(x) /\ Entry(y)
      BY <1>3, <1>6, <1>7, <3>1, <3>2
    <3>4. x = y
      BY <1>5, <3>1, <3>2, <3>3, EntriesApart
    <3> QED
      BY <1>3, <3>1, <3>2, <3>4
  <2>2. ToSet(dependencies) \cap ToSet(new) = {}
    BY <2>1
  <2>3. IsInjective(dependencies)
    BY <1>5 DEF InferredUpTo
  <2> QED
    BY <1>1, <1>3, <1>9, <2>2, <2>3, ConcatInjective
<1>12. \A x \in DependencyPattern[topology] : x[1] < bag + 1 <=> x[1] < bag \/ x[1] = bag
  BY <1>3, <1>6
<1>13. \A d : d \in ToSet(dependencies') <=>
                  \E x \in DependencyPattern[topology] : x[1] < bag + 1 /\ d \in ToSet(Expansion(x))
  <2>1. \A d : d \in ToSet(dependencies) <=>
                   \E x \in DependencyPattern[topology] : x[1] < bag /\ d \in ToSet(Expansion(x))
    BY <1>5 DEF InferredUpTo
  <2>2. \A d : d \in ToSet(new) <=>
                   \E x \in DependencyPattern[topology] : x[1] = bag /\ d \in ToSet(Expansion(x))
    BY <1>9 DEF BagDependencies
  <2> QED
    BY <1>10, <1>12, <2>1, <2>2
<1>14. \A x \in DependencyPattern[topology] : x[1] < bag + 1 => ~Fails(x)
  BY <1>3, <1>6, <1>7, <1>12
<1>15. InferredUpTo'
  <2>1. \A x : Expansion(x)' = Expansion(x) /\ Fails(x)' = Fails(x)
    BY <1>2 DEF Expansion, Fails
  <2> QED
    BY <1>1, <1>2, <1>11, <1>13, <1>14, <2>1 DEF InferredUpTo
<1>16. bag' \in 0 .. Len(bags')
  BY <1>1, <1>2, <1>3
<1>17. FrontTyped'
  BY <1>1, <1>2, <1>10, <1>16 DEF FrontTyped
<1>18. SourceChosen' /\ Inferred'
  BY <1>1, <1>2, <1>3, <1>4, <1>15 DEF SourceChosen, Inferred
<1> QED
  BY <1>1, <1>2, <1>17, <1>18 DEF FInv

----------------------------------------------------------------------------
\* A step that changes only phase, out of the steps before the constructor.
LEMMA EndKeepsFInv ==
    ASSUME FInv, phase \in FrontPhases, GraphUnchanged, UNCHANGED <<bag, dependencies>>,
           phase' \in FrontOutcomes
    PROVE  FInv'
<1>1. /\ bags' = bags /\ topology' = topology /\ file' = file /\ tasks' = tasks
      /\ bags' \in Seq(TaskBag) /\ IsDependencyFile(file') /\ tasks' = UnpackedTasks(bags')
      /\ GraphEmpty'
  BY FrontStepKeeps
<1>2. FrontTyped'
  BY <1>1 DEF FInv, FrontTyped
<1> QED
  BY <1>1, <1>2 DEF FInv, SourceChosen, Inferred

LEMMA InferEndsKeepsFInv == FInv /\ (InferThrows \/ InferCrashes) => FInv'
<1> SUFFICES ASSUME FInv, InferThrows \/ InferCrashes PROVE FInv'
  OBVIOUS
<1>1. /\ phase = "infer" /\ phase' \in {"refused", "bag_missing", "crash"}
      /\ GraphUnchanged /\ UNCHANGED <<bag, dependencies>>
  BY DEF InferThrows, InferCrashes, Inferring
<1> QED
  BY <1>1, EndKeepsFInv

LEMMA InferDoneKeepsFInv == FInv /\ InferDone => FInv'
<1> SUFFICES ASSUME FInv, InferDone PROVE FInv'
  OBVIOUS
<1>1. /\ phase = "infer" /\ bag = Len(bags) /\ phase' = "remove"
      /\ GraphUnchanged /\ UNCHANGED <<bag, dependencies>>
  BY DEF InferDone
<1>2. /\ bags' = bags /\ topology' = topology /\ file' = file /\ tasks' = tasks
      /\ bags' \in Seq(TaskBag) /\ IsDependencyFile(file') /\ tasks' = UnpackedTasks(bags')
      /\ GraphEmpty'
  BY <1>1, FrontStepKeeps
<1>3. FrontTyped'
  BY <1>1, <1>2 DEF FInv, FrontTyped
<1>4. InferredUpTo => InferredUpTo'
  <2>1. \A x : Expansion(x)' = Expansion(x) /\ Fails(x)' = Fails(x)
    BY <1>2 DEF Expansion, Fails
  <2> QED
    BY <1>1, <1>2, <2>1 DEF InferredUpTo
<1>5. SourceChosen' /\ Inferred'
  BY <1>1, <1>2, <1>4 DEF FInv, SourceChosen, Inferred
<1> QED
  BY <1>1, <1>2, <1>3, <1>5 DEF FInv

\* The ids a job file is translated to are positions in its sequence of jobs.
LEMMA InternalIdProperty ==
    ASSUME NEW jobs \in Seq(STRING), NEW id \in ToSet(jobs)
    PROVE  InternalId(jobs, id) \in Nat
<1> DEFINE S == {i \in 1 .. Len(jobs) : jobs[i] = id}
<1>1. Len(jobs) \in Nat /\ 1 \in Int /\ Len(jobs) \in Int
  OBVIOUS
<1>2. S \in SUBSET (1 .. Len(jobs)) /\ S \in SUBSET Int
  BY <1>1
<1>3. S # {}
  BY DEF ToSet
<1>4. IsFiniteSet(1 .. Len(jobs))
  BY <1>1, FS_Interval
<1>5. IsFiniteSet(S)
  BY <1>2, <1>4, FS_Subset
<1>6. InternalId(jobs, id) = Min(S) - 1
  BY DEF InternalId
<1> HIDE DEF S
<1>7. Min(S) \in 1 .. Len(jobs)
  BY <1>2, <1>3, <1>5, MinProperty
<1> DEFINE m == Min(S)
<1>8. m \in 1 .. Len(jobs) /\ InternalId(jobs, id) = m - 1
  BY <1>6, <1>7
<1> HIDE DEF m
<1> QED
  BY <1>1, <1>8

LEMMA XmlDependenciesProperty ==
    ASSUME IsDependencyFile(file), file.kind = "xml",
           Referenced(file.children) \subseteq ToSet(file.jobs)
    PROVE  XmlDependencies(file) \in Seq(Nat \X Nat)
<1> DEFINE c == file.children
           jobs == file.jobs
           n == Len(c)
           m(i) == Len(c[i][2])
           e(i, j) == <<InternalId(jobs, c[i][2][j]), InternalId(jobs, c[i][1])>>
           q == [i \in 1 .. n |-> [j \in 1 .. m(i) |-> e(i, j)]]
<1>1. jobs \in Seq(STRING) /\ c \in Seq(STRING \X Seq(STRING))
  BY DEF IsDependencyFile
<1>2. n \in Nat /\ DOMAIN c = 1 .. n /\ \A i \in 1 .. n : c[i] \in STRING \X Seq(STRING)
  BY <1>1
<1>3. \A i \in 1 .. n : m(i) \in Nat /\ c[i][2] \in Seq(STRING) /\ DOMAIN c[i][2] = 1 .. m(i)
  BY <1>2
<1>4. ASSUME NEW i \in 1 .. n, NEW j \in 1 .. m(i)
      PROVE  c[i][1] \in ToSet(jobs) /\ c[i][2][j] \in ToSet(jobs)
  <2>1. c[i] \in ToSet(c)
    BY <1>2 DEF ToSet
  <2>2. c[i][2] # << >>
    BY <1>3
  <2>3. {c[i][1]} \cup ToSet(c[i][2]) \subseteq Referenced(c)
    BY <2>1, <2>2 DEF Referenced
  <2>4. c[i][2][j] \in ToSet(c[i][2])
    BY <1>3 DEF ToSet
  <2> QED
    BY <2>3, <2>4
<1>5. \A i \in 1 .. n : \A j \in 1 .. m(i) : e(i, j) \in Nat \X Nat
  BY <1>1, <1>4, InternalIdProperty
<1>6. XmlDependencies(file) = FlattenSeq(q)
  BY DEF XmlDependencies
<1> HIDE DEF c, jobs, n, m, e
<1>7. \A i \in 1 .. n : q[i] \in Seq(Nat \X Nat)
  <2> SUFFICES ASSUME NEW i \in 1 .. n PROVE q[i] \in Seq(Nat \X Nat)
    OBVIOUS
  <2>1. q[i] = [j \in 1 .. m(i) |-> e(i, j)]
    OBVIOUS
  <2>2. q[i] \in [1 .. m(i) -> Nat \X Nat]
    BY <1>5, <2>1
  <2> QED
    BY <1>3, <2>2
<1>8. q \in [1 .. n -> Seq(Nat \X Nat)]
  BY <1>7
<1>9. q \in Seq(Seq(Nat \X Nat))
  BY <1>2, <1>8
<1> HIDE DEF q
<1> QED
  BY <1>6, <1>9, FlattenProperty

LEMMA ReadsKeepFInv == FInv /\ (ReadCsv \/ ReadXml \/ ReadOther) => FInv'
<1> SUFFICES ASSUME FInv, ReadCsv \/ ReadXml \/ ReadOther PROVE FInv'
  OBVIOUS
<1>1. phase = "read" /\ GraphUnchanged /\ bag' = bag
  BY DEF ReadCsv, ReadXml, ReadOther
<1>2. /\ bags' = bags /\ topology' = topology /\ file' = file /\ tasks' = tasks
      /\ bags' \in Seq(TaskBag) /\ IsDependencyFile(file') /\ tasks' = UnpackedTasks(bags')
      /\ GraphEmpty'
  BY <1>1, FrontStepKeeps
<1>3. file # NoFile /\ IsDependencyFile(file) /\ dependencies \in Seq(Nat \X Nat)
      /\ bag \in 0 .. Len(bags)
  BY <1>1 DEF FInv, SourceChosen, FrontTyped
<1>4. dependencies' \in Seq(Nat \X Nat) /\ phase' \in {"remove", "unknown_job", "bad_file"}
  <2>1. CASE ReadCsv
    BY <1>3, <2>1 DEF ReadCsv, IsDependencyFile
  <2>2. CASE ReadXml
    <3>1. CASE Referenced(file.children) \subseteq ToSet(file.jobs)
      BY <1>3, <2>2, <3>1, XmlDependenciesProperty DEF ReadXml
    <3>2. CASE ~(Referenced(file.children) \subseteq ToSet(file.jobs))
      BY <1>3, <2>2, <3>2 DEF ReadXml
    <3> QED
      BY <3>1, <3>2
  <2>3. CASE ReadOther
    BY <1>3, <2>3 DEF ReadOther
  <2> QED
    BY <2>1, <2>2, <2>3
<1>5. FrontTyped'
  BY <1>1, <1>2, <1>3, <1>4 DEF FrontTyped
<1>6. SourceChosen' /\ Inferred'
  BY <1>2, <1>3, <1>4 DEF SourceChosen, Inferred
<1> QED
  BY <1>2, <1>4, <1>5, <1>6 DEF FInv

\* remove_bag_dependencies only takes dependencies away.
LEMMA RemoveBagDependenciesProperty ==
    ASSUME NEW deps \in Seq(Nat \X Nat), NEW source, NEW target, NEW given
    PROVE  RemoveBagDependencies(deps, source, target, given) \in Seq(Nat \X Nat)
<1> DEFINE n == Len(deps)
           gone(k) == Linking(deps[k], TasksOfBag(given, source), TasksOfBag(given, target))
           q == [k \in 1 .. n |-> IF gone(k) THEN << >> ELSE <<deps[k]>>]
<1>1. RemoveBagDependencies(deps, source, target, given) = FlattenSeq(q)
  BY DEF RemoveBagDependencies
<1>2. n \in Nat /\ \A k \in 1 .. n : deps[k] \in Nat \X Nat
  OBVIOUS
<1> HIDE DEF n, gone
<1>3. \A k \in 1 .. n : <<deps[k]>> \in Seq(Nat \X Nat) /\ << >> \in Seq(Nat \X Nat)
  BY <1>2
<1>4. \A k \in 1 .. n : q[k] \in {<< >>, <<deps[k]>>}
  OBVIOUS
<1>5. \A k \in 1 .. n : q[k] \in Seq(Nat \X Nat)
  <2> HIDE DEF q
  <2> QED
    BY <1>3, <1>4
<1>6. q = [k \in 1 .. n |-> q[k]]
  OBVIOUS
<1> HIDE DEF q
<1>7. q \in [1 .. n -> Seq(Nat \X Nat)]
  BY <1>5, <1>6
<1>8. q \in Seq(Seq(Nat \X Nat))
  BY <1>2, <1>7
<1> QED
  BY <1>1, <1>8, FlattenProperty

LEMMA RemoveEdgesKeepsFInv == FInv /\ RemoveEdges => FInv'
<1> SUFFICES ASSUME FInv, RemoveEdges PROVE FInv'
  OBVIOUS
<1>1. phase = "remove" /\ GraphUnchanged /\ bag' = bag /\ phase' \in {"check", "bag_missing"}
  BY DEF RemoveEdges
<1>2. /\ bags' = bags /\ topology' = topology /\ file' = file /\ tasks' = tasks
      /\ bags' \in Seq(TaskBag) /\ IsDependencyFile(file') /\ tasks' = UnpackedTasks(bags')
      /\ GraphEmpty'
      /\ added' = 0 /\ edges' = {} /\ independent' = {} /\ incoming' = {} /\ order' = << >>
  BY <1>1, FrontStepKeeps
<1>3. dependencies \in Seq(Nat \X Nat) /\ bag \in 0 .. Len(bags) /\ bags \in Seq(TaskBag)
  BY DEF FInv, FrontTyped
<1>4. dependencies' \in Seq(Nat \X Nat)
  BY <1>3, RemoveBagDependenciesProperty DEF RemoveEdges
<1>5. FrontTyped'
  BY <1>1, <1>2, <1>3, <1>4 DEF FrontTyped
<1>6. ASSUME phase' = "check" PROVE KInv' /\ GraphTyped'
  <2>1. IsTaskInput(tasks')
    BY <1>2, UnpackedTasksProperty
  <2>2. ConstructionInit'
    BY <1>2, <1>4, <1>6, <2>1 DEF ConstructionInit
  <2>3. KInv'
    BY <2>2, InitEstablishesKInv, PTL
  <2> QED
    BY <1>2, <2>3 DEF GraphTyped
<1>7. ASSUME file = NoFile, phase' = "check" PROVE topology # "montage" /\ dependencies' = dependencies
  <2>1. topology = "montage" => bag = 0 /\ bag = Len(bags)
    BY <1>1, <1>7 DEF FInv, Inferred
  <2>2. topology = "montage" => ~IsBag(bags, 4)
    BY <2>1 DEF IsBag
  <2> QED
    BY <1>7, <2>2 DEF RemoveEdges
<1>8. InferredUpTo /\ dependencies' = dependencies => InferredUpTo'
  <2>1. \A x : Expansion(x)' = Expansion(x) /\ Fails(x)' = Fails(x)
    BY <1>2 DEF Expansion, Fails
  <2> QED
    BY <1>1, <1>2, <2>1 DEF InferredUpTo
<1>9. SourceChosen' /\ Inferred'
  BY <1>1, <1>2, <1>7, <1>8 DEF FInv, SourceChosen, Inferred
<1> QED
  BY <1>1, <1>2, <1>5, <1>6, <1>9 DEF FInv

LEMMA ConstructKeepsFInv == FInv /\ Construct => FInv'
<1> SUFFICES ASSUME FInv, Construct PROVE FInv'
  OBVIOUS
<1>1. ConstructionNext /\ bags' = bags /\ topology' = topology /\ file' = file /\ bag' = bag
  BY DEF Construct
<1>2. phase \in ConstructionPhases
  BY <1>1 DEF ConstructionNext, CheckTasks, AddEdge, RejectEdge, StartOrder, Extract, FinishOrder
<1>3. KInv /\ GraphTyped
  BY <1>2 DEF FInv
<1>4. KInv' /\ GraphTyped'
  BY <1>1, <1>3, StepKeepsKInv, StepKeepsGraphTyped
<1>5. tasks' = tasks /\ dependencies' = dependencies
  BY <1>1 DEF ConstructionNext, CheckTasks, AddEdge, RejectEdge, StartOrder, Extract, FinishOrder
<1>6. phase' \in ConstructionPhases /\ phase' # "topology" /\ phase' # "infer" /\ phase' # "read"
      /\ phase' \notin FrontPhases
  BY <1>4 DEF KInv, KTypeOK
<1>7. FrontTyped'
  BY <1>1, <1>5, <1>6 DEF FInv, FrontTyped
<1>8. InferredUpTo => InferredUpTo'
  <2>1. \A x : Expansion(x)' = Expansion(x) /\ Fails(x)' = Fails(x)
    BY <1>1 DEF Expansion, Fails
  <2> QED
    BY <1>1, <1>5, <2>1 DEF InferredUpTo
<1>9. Inferred'
  BY <1>1, <1>2, <1>6, <1>8 DEF FInv, Inferred
<1> QED
  BY <1>4, <1>6, <1>7, <1>9 DEF FInv, GraphEmpty, SourceChosen

LEMMA StepKeepsFInv == FInv /\ [Next]_vars => FInv'
<1> SUFFICES ASSUME FInv, [Next]_vars PROVE FInv'
  OBVIOUS
<1>1. CASE ParseTopology \/ InferBag \/ InferThrows \/ InferCrashes \/ InferDone
  BY <1>1, ParseTopologyKeepsFInv, InferBagKeepsFInv, InferEndsKeepsFInv, InferDoneKeepsFInv
<1>2. CASE ReadCsv \/ ReadXml \/ ReadOther \/ RemoveEdges
  BY <1>2, ReadsKeepFInv, RemoveEdgesKeepsFInv
<1>3. CASE Construct
  BY <1>3, ConstructKeepsFInv
<1>4. CASE UNCHANGED vars
  <2>1. /\ bags' = bags /\ topology' = topology /\ file' = file /\ bag' = bag
        /\ UNCHANGED constructionVars
    BY <1>4 DEF vars
  <2>2. /\ tasks' = tasks /\ dependencies' = dependencies /\ added' = added /\ edges' = edges
        /\ independent' = independent /\ incoming' = incoming /\ order' = order /\ phase' = phase
    BY <2>1 DEF constructionVars
  <2>3. InferredUpTo => InferredUpTo'
    <3>1. \A x : Expansion(x)' = Expansion(x) /\ Fails(x)' = Fails(x)
      BY <2>1 DEF Expansion, Fails
    <3> QED
      BY <2>1, <2>2, <3>1 DEF InferredUpTo
  <2>4. FrontTyped' /\ GraphEmpty' /\ SourceChosen' /\ Inferred'
    BY <2>1, <2>2, <2>3 DEF FInv, FrontTyped, GraphEmpty, SourceChosen, Inferred
  <2>5. KInv => KInv'
    BY <2>1, StepKeepsKInv
  <2>6. GraphTyped => GraphTyped'
    BY <2>2 DEF GraphTyped, Ids
  <2> QED
    BY <2>2, <2>4, <2>5, <2>6 DEF FInv
<1> QED
  BY <1>1, <1>2, <1>3, <1>4 DEF Next

\* Along all the program goes through, the strengthened invariant holds.
THEOREM Invariance == Spec => []FInv
<1> QED
  BY InitEstablishesFInv, StepKeepsFInv, PTL DEF Spec

HIDE DEF ConstructionPhases, ConstructionOutcomes, Defects, FrontPhases, FrontOutcomes

----------------------------------------------------------------------------
LEMMA FInvImpliesTypeOK == FInv => TypeOK
<1> SUFFICES ASSUME FInv PROVE TypeOK
  OBVIOUS
<1>1. /\ phase \in FrontPhases \cup ConstructionPhases
      /\ IsTaskInput(tasks) /\ dependencies \in Seq(Nat \X Nat)
  BY UnpackedTasksProperty DEF FInv, FrontTyped
<1>2. CASE phase \in FrontPhases
  <2>1. added = 0 /\ edges = {} /\ independent = {} /\ incoming = {} /\ order = << >>
    BY <1>2 DEF FInv, GraphEmpty
  <2>2. added \in 0 .. Len(dependencies) /\ order \in Seq(Ids)
    BY <1>1, <2>1
  <2> QED
    BY <1>1, <2>1, <2>2 DEF TypeOK
<1>3. CASE phase \notin FrontPhases
  <2>1. KInv /\ GraphTyped
    BY <1>1, <1>3 DEF FInv
  <2>2. added \in 0 .. Len(dependencies) /\ order \in Seq(Ids)
    BY <2>1 DEF KInv, KTypeOK
  <2>3. edges \subseteq Ids \X Ids
    BY <2>1 DEF KInv, EdgesAreChecked, KnownTasks
  <2>4. DOMAIN order = Places /\ ToSet(order) = Extracted
    <3>1. DOMAIN order = Places
      BY <2>2 DEF Places
    <3> QED
      BY <3>1 DEF ToSet, Extracted
  <2>5. independent \cap ToSet(order) = {}
    <3>1. CASE phase \in {"order", "cyclic", "built"}
      BY <2>1, <2>4, <3>1 DEF KInv, IndependentReady, GraphTyped
    <3>2. CASE phase \notin {"order", "cyclic", "built"}
      <4>1. order = << >>
        BY <2>1, <3>2 DEF GraphTyped
      <4> QED
        BY <4>1 DEF ToSet
    <3> QED
      BY <3>1, <3>2
  <2> QED
    BY <1>1, <1>3, <2>1, <2>2, <2>3, <2>5 DEF TypeOK, GraphTyped
<1> QED
  BY <1>2, <1>3

\* Every variable of the program has its type, whatever the bags and the file.
THEOREM FrontEndTypeOK == Spec => []TypeOK
<1> QED
  BY Invariance, FInvImpliesTypeOK, PTL

LEMMA FInvImpliesConstructorDecides == FInv => ConstructorDecides
<1> SUFFICES ASSUME FInv PROVE ConstructorDecides
  OBVIOUS
<1>1. CASE phase \in ConstructionPhases
  BY <1>1, KInvImpliesConstructorDecides DEF FInv
<1>2. CASE phase \in FrontPhases
  BY <1>2 DEF ConstructorDecides, FrontPhases, FrontOutcomes, Defects
<1> QED
  BY <1>1, <1>2 DEF FInv, FrontTyped

\* The constructor decides as in ConstructorAlwaysDecides, with the arguments
\* that main gives it.
THEOREM ProgramDecides == Spec => []ConstructorDecides
<1> QED
  BY Invariance, FInvImpliesConstructorDecides, PTL

LEMMA FInvImpliesBuildsWorkflow == FInv => BuildsWorkflow
<1> SUFFICES ASSUME FInv PROVE BuildsWorkflow
  OBVIOUS
<1>1. CASE phase \in ConstructionPhases
  BY <1>1, KInvImpliesBuildsWorkflow DEF FInv
<1>2. CASE phase \in FrontPhases
  BY <1>2 DEF BuildsWorkflow, FrontPhases, FrontOutcomes
<1> QED
  BY <1>1, <1>2 DEF FInv, FrontTyped

\* What the program goes on with is a workflow, wherever the dependencies are from.
THEOREM ProgramBuildsWorkflow == Spec => []BuildsWorkflow
<1> QED
  BY Invariance, FInvImpliesBuildsWorkflow, PTL

----------------------------------------------------------------------------
\* The dependencies that are inferred.

InferenceDone == FInv /\ file = NoFile /\ phase \in ConstructionPhases

LEMMA AllEntriesExpanded ==
    ASSUME InferenceDone
    PROVE  /\ Inferable
           /\ dependencies \in Seq(Nat \X Nat) /\ IsInjective(dependencies)
           /\ \A x \in DependencyPattern[topology] : IsBag(bags, x[1]) => Entry(x)
           /\ \A d \in ToSet(dependencies) : \E x \in DependencyPattern[topology] :
                  IsBag(bags, x[1]) /\ d \in ToSet(Expansion(x))
           /\ \A x \in DependencyPattern[topology] :
                  IsBag(bags, x[1]) => ToSet(Expansion(x)) \subseteq ToSet(dependencies)
<1>1. /\ topology \in KnownTopologies /\ topology # "montage" /\ InferredUpTo
      /\ bag = Len(bags) /\ bags \in Seq(TaskBag) /\ dependencies \in Seq(Nat \X Nat)
  BY DEF InferenceDone, FInv, FrontTyped, Inferred, ConstructionPhases, ConstructionOutcomes, Defects
<1>2. Inferable
  BY <1>1 DEF Inferable
<1>3. \A x \in DependencyPattern[topology] : IsBag(bags, x[1]) <=> x[1] < bag
  <2>1. \A x \in DependencyPattern[topology] : x[1] \in Nat
    BY <1>1, PatternEntries
  <2> QED
    BY <1>1, <2>1 DEF IsBag
<1>4. \A x \in DependencyPattern[topology] : IsBag(bags, x[1]) => Entry(x)
  BY <1>1, <1>2, <1>3, EntryExpands DEF InferredUpTo
<1> QED
  BY <1>1, <1>2, <1>3, <1>4 DEF InferredUpTo

\* Between two bags are exactly the dependencies of the entry for them.
LEMMA LinkedIsExpansion ==
    ASSUME InferenceDone, NEW x \in DependencyPattern[topology], IsBag(bags, x[1])
    PROVE  Linked(TasksOfBag(bags, x[1]), TasksOfBag(bags, x[2])) = ToSet(Expansion(x))
<1>1. Inferable /\ Entry(x)
  BY AllEntriesExpanded
<1>2. ASSUME NEW d \in ToSet(Expansion(x))
      PROVE  d \in Linked(TasksOfBag(bags, x[1]), TasksOfBag(bags, x[2]))
  <2>1. d \in ToSet(dependencies)
    BY AllEntriesExpanded
  <2> QED
    BY <1>1, <2>1 DEF Linked, Entry, Expands
<1>3. ASSUME NEW d \in Linked(TasksOfBag(bags, x[1]), TasksOfBag(bags, x[2]))
      PROVE  d \in ToSet(Expansion(x))
  <2>1. d \in ToSet(dependencies) /\ d[1] \in IdsOf(bags, x[1] + 1) /\ d[2] \in IdsOf(bags, x[2] + 1)
    BY <1>1 DEF Linked, Entry
  <2>2. PICK y \in DependencyPattern[topology] : IsBag(bags, y[1]) /\ d \in ToSet(Expansion(y))
    BY <2>1, AllEntriesExpanded
  <2>3. Entry(y)
    BY <2>2, AllEntriesExpanded
  <2>4. d[1] \in IdsOf(bags, y[1] + 1) /\ d[2] \in IdsOf(bags, y[2] + 1)
    BY <2>2, <2>3 DEF Entry, Expands
  <2>5. x[1] + 1 = y[1] + 1 /\ x[2] + 1 = y[2] + 1
    BY <1>1, <2>1, <2>3, <2>4, BagsApart DEF Inferable, Entry
  <2>6. x[1] = y[1] /\ x[2] = y[2]
    BY <1>1, <2>3, <2>5 DEF Entry
  <2>7. x = y
    BY <1>1, <2>6, PatternUnique DEF Inferable
  <2> QED
    BY <2>2, <2>7
<1> QED
  BY <1>2, <1>3

\* Every dependency leads from a bag to a later one.
LEMMA DependenciesAscend ==
    ASSUME InferenceDone, NEW k \in 1 .. Len(dependencies)
    PROVE  /\ dependencies[k][1] < dependencies[k][2]
           /\ KnownTasks(dependencies[k])
           /\ \E x \in DependencyPattern[topology] :
                  /\ IsBag(bags, x[1])
                  /\ dependencies[k] \in Linked(TasksOfBag(bags, x[1]), TasksOfBag(bags, x[2]))
<1> DEFINE d == dependencies[k]
<1>1. d \in ToSet(dependencies)
  <2>1. DOMAIN dependencies = 1 .. Len(dependencies)
    BY AllEntriesExpanded
  <2> QED
    BY <2>1 DEF ToSet
<1> HIDE DEF d
<1>2. PICK x \in DependencyPattern[topology] : IsBag(bags, x[1]) /\ d \in ToSet(Expansion(x))
  BY <1>1, AllEntriesExpanded
<1>3. Entry(x) /\ bags \in Seq(TaskBag)
  BY <1>2, AllEntriesExpanded DEF Inferable
<1>4. /\ d[1] \in IdsOf(bags, x[1] + 1) /\ d[2] \in IdsOf(bags, x[2] + 1)
      /\ x[1] + 1 < x[2] + 1 /\ x[1] + 1 \in 1 .. Len(bags) /\ x[2] + 1 \in 1 .. Len(bags)
  BY <1>2, <1>3 DEF Entry, Expands
<1>5. d[1] < d[2]
  BY <1>3, <1>4, BagsAscend
<1>6. KnownTasks(d)
  <2>1. Ids = 0 .. FirstId(bags, Len(bags) + 1) - 1
    BY <1>3, UnpackedTasksProperty DEF Ids, InferenceDone, FInv, FrontTyped
  <2>2. \A b \in 1 .. Len(bags) : IdsOf(bags, b) \subseteq Ids
    BY <1>3, <2>1, TasksOfBagProperty
  <2> QED
    BY <1>4, <2>2 DEF KnownTasks
<1>7. d \in Linked(TasksOfBag(bags, x[1]), TasksOfBag(bags, x[2]))
  BY <1>2, LinkedIsExpansion
<1> QED
  BY <1>2, <1>5, <1>6, <1>7 DEF d

\* Edges that ascend make no cycle: its least vertex would need a lesser one.
LEMMA InferredIsAcyclic == ASSUME InferenceDone PROVE ~HasCycle(edges)
<1> SUFFICES ASSUME NEW c \in SUBSET Ids, c # {}, \A v \in c : \E u \in c : <<u, v>> \in edges
             PROVE  FALSE
  BY DEF HasCycle
<1>1. /\ edges = {<<dependencies[k][1], dependencies[k][2]>> : k \in 1 .. added}
      /\ added \in 0 .. Len(dependencies) /\ dependencies \in Seq(Nat \X Nat)
  BY DEF InferenceDone, FInv, KInv, EdgesAreChecked, KTypeOK
<1>2. \A k \in 1 .. added : k \in 1 .. Len(dependencies)
  BY <1>1
<1>3. ASSUME NEW u, NEW v, <<u, v>> \in edges PROVE u < v
  <2>1. PICK k \in 1 .. added : <<u, v>> = <<dependencies[k][1], dependencies[k][2]>>
    BY <1>1, <1>3
  <2>2. u = dependencies[k][1] /\ v = dependencies[k][2]
    BY <2>1
  <2> QED
    BY <1>2, <2>2, DependenciesAscend
<1>4. c \in SUBSET Nat
  BY DEF Ids
<1>5. PICK v \in c : \A u \in c : v <= u
  BY <1>4, LeastOf
<1>6. PICK u \in c : <<u, v>> \in edges
  OBVIOUS
<1>7. u < v /\ v <= u
  BY <1>3, <1>5, <1>6
<1> QED
  BY <1>4, <1>7

LEMMA FInvImpliesInferredDividesEvenly == FInv => InferredDividesEvenly
<1> SUFFICES ASSUME InferenceDone PROVE InferredDividesEvenly
  BY DEF InferenceDone, InferredDividesEvenly
<1>1. ASSUME NEW x \in DependencyPattern[topology], IsBag(bags, x[1])
      PROVE  LET sources == TasksOfBag(bags, x[1])
                 targets == TasksOfBag(bags, x[2])
                 links == Linked(sources, targets)
             IN  CASE x[3] = "one_to_one" ->
                          /\ Len(sources) = Len(targets)
                          /\ links = {<<sources[i], targets[i]>> : i \in 1 .. Len(sources)}
                   [] x[3] = "distribute" -> sources # << >> => DividedEvenly(links, sources, targets)
                   [] x[3] = "aggregate"  -> targets # << >> => DividedEvenly(links, targets, sources)
  <2> DEFINE sources == TasksOfBag(bags, x[1])
             targets == TasksOfBag(bags, x[2])
             links == Linked(sources, targets)
  <2>1. links = ToSet(Expansion(x))
    BY <1>1, LinkedIsExpansion
  <2>2. Expands(x[3], sources, targets, Expansion(x))
    BY <1>1, AllEntriesExpanded DEF Entry
  <2>3. x[3] \in {"one_to_one", "distribute", "aggregate"}
    BY AllEntriesExpanded, PatternEntries DEF Inferable, Kinds
  <2> HIDE DEF sources, targets, links
  <2>4. CASE x[3] = "one_to_one"
    BY <2>1, <2>2, <2>4 DEF Expands, sources, targets, links
  <2>5. CASE x[3] = "distribute"
    BY <2>1, <2>2, <2>5 DEF Expands, sources, targets, links
  <2>6. CASE x[3] = "aggregate"
    BY <2>1, <2>2, <2>6 DEF Expands, sources, targets, links
  <2> QED
    BY <2>3, <2>4, <2>5, <2>6
<1>2. \A k \in 1 .. Len(dependencies) :
          /\ dependencies[k][1] < dependencies[k][2]
          /\ \E x \in DependencyPattern[topology] :
                 /\ IsBag(bags, x[1])
                 /\ dependencies[k] \in Linked(TasksOfBag(bags, x[1]), TasksOfBag(bags, x[2]))
  BY DependenciesAscend
<1>3. Cardinality(ToSet(dependencies)) = Len(dependencies)
  BY AllEntriesExpanded, InjectiveCount
<1>4. phase \in Defects => Defective(phase)
  BY DEF InferenceDone, FInv, KInv, EndsForReason
<1>5. phase # "cyclic"
  BY <1>4, InferredIsAcyclic DEF Defective, Defects
<1>6. phase # "duplicate"
  <2>1. DOMAIN dependencies = 1 .. Len(dependencies) /\ IsInjective(dependencies)
    BY AllEntriesExpanded
  <2>2. \A j, k \in 1 .. Len(dependencies) : dependencies[j] = dependencies[k] => j = k
    BY <2>1 DEF IsInjective
  <2> QED
    BY <1>4, <2>2 DEF Defective, Defects
<1>7. phase # "unknown_task"
  BY <1>4, DependenciesAscend DEF Defective, Defects
<1> QED
  BY <1>1, <1>2, <1>3, <1>5, <1>6, <1>7 DEF InferredDividesEvenly

\* Whatever the cardinalities of the bags, what is inferred from them and the
\* topology is what the comments describe, and the constructor does not refuse it
\* for a cycle, a duplicate or an unknown task.
THEOREM InferenceDividesEvenly == Spec => []InferredDividesEvenly
<1> QED
  BY Invariance, FInvImpliesInferredDividesEvenly, PTL
=============================================================================
