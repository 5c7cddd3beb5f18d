-------------------------- MODULE ClusteringProofs --------------------------
(***************************************************************************)
(* Theorems about RBCA and DBCA, for every cluster, every sequence of bags *)
(* and every workflow they expand to.  Between the loops over two bags the *)
(* tasks of the earlier bags are placed and no other.  While the groups of *)
(* a bag grow they are as full as split_most_evenly says, so that they     *)
(* divide the bag when the last is full; while its tasks are placed those  *)
(* of the i-th group are on the i-th node or still pending, and the groups *)
(* are in order, so that at the end of the bag the work on a node is that  *)
(* of its group.                                                           *)
(***************************************************************************)
EXTENDS Clustering, ScheduleProofs

NumTasks(b) == bags[b].cardinality

LEMMA NumGroupsProperty ==
    ASSUME bags \in Seq(TaskBag), NEW b \in 1 .. Len(bags)
    PROVE  /\ Len(TasksOf(b)) = NumTasks(b) /\ NumTasks(b) \in Nat
           /\ NumGroups(b) \in 0 .. NumTasks(b) /\ NumGroups(b) <= NumNodes
           /\ NumGroups(b) = 0 <=> NumTasks(b) = 0
<1>1. Len(TasksOf(b)) = NumTasks(b) /\ NumTasks(b) \in Nat
  BY TasksOfBagProperty DEF TasksOf, NumTasks
<1>2. NumNodes \in Nat \ {0}
  BY ClusterAssumption
<1> DEFINE S == {NumTasks(b), NumNodes}
<1>3. S \in SUBSET Int /\ S # {} /\ IsFiniteSet(S)
  <2>1. S = {NumTasks(b)} \cup {NumNodes}
    OBVIOUS
  <2>2. IsFiniteSet({NumTasks(b)})
    BY FS_Singleton
  <2>3. IsFiniteSet({NumTasks(b)} \cup {NumNodes})
    BY <2>2, FS_AddElement
  <2>4. NumTasks(b) \in Int /\ NumNodes \in Int
    BY <1>1, <1>2
  <2>5. S \in SUBSET Int
    BY <2>4
  <2>6. S # {}
    OBVIOUS
  <2> QED
    BY <2>1, <2>3, <2>5, <2>6
<1>4. NumGroups(b) = Min(S)
  BY <1>1 DEF NumGroups
<1> HIDE DEF S
<1>5. Min(S) \in S /\ \A y \in S : Min(S) <= y
  BY <1>3, MinProperty
<1> QED
  BY <1>1, <1>2, <1>4, <1>5 DEF S

\* split_most_evenly: the sizes are positive, differ by at most one, and add up.
LEMMA GroupSizeProperty ==
    ASSUME bags \in Seq(TaskBag), NEW b \in 1 .. Len(bags), NEW g \in 1 .. NumGroups(b)
    PROVE  LET q == NumTasks(b) \div NumGroups(b)
           IN  /\ q \in Nat \ {0} /\ GroupSize(b, g) - q \in {0, 1}
               /\ GroupSize(b, g) = q + IF g <= (NumTasks(b) % NumGroups(b)) THEN 1 ELSE 0
<1> DEFINE n == NumTasks(b)
           k == NumGroups(b)
           q == n \div k
           r == n % k
<1>1. n \in Nat /\ k \in Nat \ {0} /\ k <= n
  BY NumGroupsProperty
<1>2. GroupSize(b, g) = q + IF g <= r THEN 1 ELSE 0
  BY NumGroupsProperty DEF GroupSize
<1>3. q \in Nat /\ r \in 0 .. k - 1 /\ n = k * q + r
  <2> HIDE DEF n, k
  <2> QED
    BY <1>1, DivisionProperty
<1> HIDE DEF n, k, q, r
<1>4. q # 0
  BY <1>1, <1>3
<1>5. q \in Nat \ {0} /\ GroupSize(b, g) - q \in {0, 1} /\ GroupSize(b, g) = q + IF g <= r THEN 1 ELSE 0
  BY <1>2, <1>3, <1>4
<1> QED
  BY <1>5 DEF q, r, n, k

LEMMA GroupStartProperty ==
    ASSUME bags \in Seq(TaskBag), NEW b \in 1 .. Len(bags)
    PROVE  /\ GroupStart(b, 1) = 0
           /\ \A g \in 1 .. NumGroups(b) + 1 : GroupStart(b, g) \in Nat
           /\ \A g \in 1 .. NumGroups(b) : GroupStart(b, g + 1) = GroupStart(b, g) + GroupSize(b, g)
<1> DEFINE k == NumGroups(b)
           c == [h \in 1 .. k |-> GroupSize(b, h)]
<1>1. k \in Nat
  BY NumGroupsProperty
<1>2. \A h \in 1 .. k : c[h] = GroupSize(b, h) /\ c[h] \in Nat
  BY GroupSizeProperty
<1>3. \A g : GroupStart(b, g) = SumOver(c, 1 .. g - 1)
  BY DEF GroupStart, SumFunctionOnSet, FoldFunctionOnSet, SumOver, MapThenSumSet
<1> HIDE DEF k, c
<1>4. GroupStart(b, 1) = 0
  <2>1. 1 .. 1 - 1 = {}
    OBVIOUS
  <2> QED
    BY <1>3, <2>1, SumOverEmpty
<1>5. ASSUME NEW g \in 1 .. k + 1 PROVE GroupStart(b, g) \in Nat
  <2> DEFINE D == 1 .. g - 1
  <2>1. IsFiniteSet(D)
    BY <1>1, FS_Interval
  <2>2. \A i \in D : c[i] \in Nat
    BY <1>1, <1>2
  <2> HIDE DEF D
  <2>3. SumOver(c, D) \in Nat
    BY <2>1, <2>2, SumOverNat
  <2> QED
    BY <1>3, <2>3 DEF D
<1>6. ASSUME NEW g \in 1 .. k PROVE GroupStart(b, g + 1) = GroupStart(b, g) + GroupSize(b, g)
  <2>1. g - 1 \in Nat /\ (g - 1) + 1 = g /\ (g + 1) - 1 = g /\ g \in 1 .. k + 1
    BY <1>1
  <2>2. \A i \in 1 .. g : c[i] \in Int
    BY <1>1, <1>2
  <2>3. SumOver(c, 1 .. g) = SumOver(c, 1 .. g - 1) + c[g]
    BY <2>1, <2>2, SumOverInterval
  <2> QED
    BY <1>2, <1>3, <2>1, <2>3
<1> QED
  BY <1>4, <1>5, <1>6 DEF k

\* The groups before the g-th take the quotient each, and the first of them one more.
LEMMA GroupsFillBag ==
    ASSUME bags \in Seq(TaskBag), NEW b \in 1 .. Len(bags)
    PROVE  GroupStart(b, NumGroups(b) + 1) = NumTasks(b)
<1> DEFINE n == NumTasks(b)
           k == NumGroups(b)
           q == n \div k
           r == n % k
           f(g) == GroupStart(b, g + 1)
           closed(g) == g * q + IF g <= r THEN g ELSE r
           Wrong == {g \in Nat : g \in 0 .. k /\ f(g) # closed(g)}
<1>1. n \in Nat /\ k \in Nat /\ (k = 0 <=> n = 0)
  BY NumGroupsProperty
<1>2. CASE k = 0
  BY <1>1, <1>2, GroupStartProperty
<1>3. CASE k # 0
  <2>1. q \in Nat /\ r \in 0 .. k - 1 /\ n = k * q + r
    <3> HIDE DEF n, k
    <3> QED
      BY <1>1, <1>3, DivisionProperty
  <2>2. f(0) = 0 /\ \A g \in 0 .. k : f(g) \in Nat
    <3>1. f(0) = 0
      BY GroupStartProperty
    <3>2. \A g \in 0 .. k : g + 1 \in 1 .. k + 1
      BY <1>1
    <3> QED
      BY <3>1, <3>2, GroupStartProperty
  <2>3. ASSUME NEW g \in 1 .. k PROVE f(g) = f(g - 1) + q + IF g <= r THEN 1 ELSE 0
    <3>1. (g - 1) + 1 = g
      BY <1>1
    <3>2. GroupStart(b, g + 1) = GroupStart(b, g) + GroupSize(b, g)
      BY GroupStartProperty
    <3>3. GroupSize(b, g) = q + IF g <= r THEN 1 ELSE 0
      BY GroupSizeProperty
    <3>4. GroupStart(b, g) \in Nat
      BY <1>1, GroupStartProperty
    <3> QED
      BY <2>1, <3>1, <3>2, <3>3, <3>4
  <2> HIDE DEF n, k, q, r, f
  <2>4. ASSUME Wrong # {} PROVE FALSE
    <3>1. PICK g \in Wrong : \A h \in Wrong : <<h, g>> \notin OpToRel(<, Nat)
      BY <2>4, NatLessThanWellFounded, WFMin
    <3>2. g \in 0 .. k /\ g \in Nat /\ f(g) # closed(g)
      OBVIOUS
    <3>3. g # 0
      BY <2>1, <2>2, <3>2
    <3>4. g - 1 \in Nat /\ g - 1 \in 0 .. k /\ g \in 1 .. k
      BY <1>1, <3>2, <3>3
    <3>5. <<g - 1, g>> \in OpToRel(<, Nat)
      BY <3>2, <3>4 DEF OpToRel
    <3>6. f(g - 1) = closed(g - 1)
      BY <3>1, <3>4, <3>5
    <3>7. f(g) = f(g - 1) + q + IF g <= r THEN 1 ELSE 0
      BY <2>3, <3>4
    <3>8. (g - 1) * q = g * q - q /\ g * q \in Int
      BY <2>1, <3>2
    <3> QED
      BY <2>1, <3>2, <3>4, <3>6, <3>7, <3>8
  <2>5. f(k) = closed(k)
    BY <1>1, <2>4
  <2>6. closed(k) = n
    BY <1>1, <2>1
  <2> QED
    BY <2>5, <2>6 DEF f, k, n
<1> QED
  BY <1>2, <1>3

GroupStarts(b) == [g \in 1 .. NumGroups(b) + 1 |-> GroupStart(b, g)]

LEMMA GroupStartsCut ==
    ASSUME bags \in Seq(TaskBag), NEW b \in 1 .. Len(bags)
    PROVE  NumGroups(b) \in Nat /\ Cuts(GroupStarts(b), NumGroups(b))
<1>1. NumGroups(b) \in Nat
  BY NumGroupsProperty
<1>2. \A g \in 1 .. NumGroups(b) + 1 : GroupStarts(b)[g] = GroupStart(b, g) /\ GroupStart(b, g) \in Nat
  BY GroupStartProperty DEF GroupStarts
<1>3. ASSUME NEW g \in 1 .. NumGroups(b) PROVE GroupStarts(b)[g] <= GroupStarts(b)[g + 1]
  <2>1. g \in 1 .. NumGroups(b) + 1 /\ g + 1 \in 1 .. NumGroups(b) + 1
    BY <1>1
  <2>2. GroupStart(b, g + 1) = GroupStart(b, g) + GroupSize(b, g) /\ GroupSize(b, g) \in Nat
    BY GroupStartProperty, GroupSizeProperty
  <2> QED
    BY <1>2, <2>1, <2>2
<1> QED
  BY <1>1, <1>2, <1>3 DEF Cuts

\* The groups divide the bag, as evenly as possible.
DividesBag(gs, b) ==
    /\ gs \in Seq(SUBSET IdsOf(bags, b)) /\ Len(gs) = NumGroups(b)
    /\ \A t \in IdsOf(bags, b) : \E g \in 1 .. Len(gs) : t \in gs[g]
    /\ \A g, h \in 1 .. Len(gs) : g # h => gs[g] \cap gs[h] = {}
    /\ \A g \in 1 .. Len(gs) :
           gs[g] # {} /\ Cardinality(gs[g]) - (NumTasks(b) \div NumGroups(b)) \in {0, 1}

\* Consecutive pieces of a range of numbers divide it.
Pieces(gs, k, cut, first) == \A g \in 1 .. k : gs[g] = first + cut[g] .. first + cut[g + 1] - 1

LEMMA PiecesDivide ==
    ASSUME NEW k \in Nat, NEW cut, Cuts(cut, k), cut[1] = 0, NEW first \in Nat,
           NEW gs, Pieces(gs, k, cut, first)
    PROVE  /\ \A g \in 1 .. k : /\ gs[g] \subseteq first .. first + cut[k + 1] - 1
                               /\ Cardinality(gs[g]) = cut[g + 1] - cut[g]
           /\ \A t \in first .. first + cut[k + 1] - 1 : \E g \in 1 .. k : t \in gs[g]
           /\ \A g, h \in 1 .. k : g # h => gs[g] \cap gs[h] = {}
<1>1. ASSUME NEW g \in 1 .. k
      PROVE  /\ cut[g] \in Nat /\ cut[g + 1] \in Nat /\ cut[k + 1] \in Nat
             /\ cut[g] <= cut[g + 1] /\ cut[g + 1] <= cut[k + 1]
  <2>1. g \in 1 .. k + 1 /\ g + 1 \in 1 .. k + 1 /\ k + 1 \in g + 1 .. k + 1
    OBVIOUS
  <2>2. cut[g + 1] <= cut[k + 1]
    BY <2>1, CutsAscend
  <2> QED
    BY <2>1, <2>2 DEF Cuts
<1>2. ASSUME NEW g \in 1 .. k
      PROVE  gs[g] \subseteq first .. first + cut[k + 1] - 1 /\ Cardinality(gs[g]) = cut[g + 1] - cut[g]
  <2> DEFINE a == cut[g]
             c == cut[g + 1]
             x == first + a
             y == first + c - 1
             n == first + cut[k + 1] - 1
             card == Cardinality(x .. y)
  <2>1. gs[g] = x .. y
    BY DEF Pieces
  <2>2. a \in Nat /\ c \in Nat /\ a <= c /\ y <= n /\ n \in Int
    BY <1>1
  <2> HIDE DEF a, c
  <2>3. x \in Int /\ y \in Int /\ y - x + 1 = c - a /\ x >= first
    BY <2>2
  <2> HIDE DEF x, y, n
  <2>4. card = IF x > y THEN 0 ELSE y - x + 1
    BY <2>3, FS_Interval
  <2>5. x .. y \subseteq first .. n
    BY <2>2, <2>3
  <2> HIDE DEF card
  <2>6. card = c - a
    BY <2>2, <2>3, <2>4
  <2> QED
    BY <2>1, <2>5, <2>6 DEF n, card, a, c
<1>3. ASSUME NEW t \in first .. first + cut[k + 1] - 1 PROVE \E g \in 1 .. k : t \in gs[g]
  <2>1. cut[k + 1] \in Nat
    BY DEF Cuts
  <2>2. t - first \in Nat /\ cut[1] <= t - first /\ t - first < cut[k + 1]
    BY <2>1
  <2>3. PICK g \in 1 .. k : cut[g] <= t - first /\ t - first < cut[g + 1]
    BY <2>2, CutsCover
  <2>4. cut[g] \in Nat /\ cut[g + 1] \in Nat
    BY <1>1
  <2>5. t \in first + cut[g] .. first + cut[g + 1] - 1
    BY <2>1, <2>3, <2>4
  <2> QED
    BY <2>5 DEF Pieces
<1>4. ASSUME NEW i \in 1 .. k, NEW j \in 1 .. k, i < j, NEW t, t \in gs[i], t \in gs[j]
      PROVE  FALSE
  <2>1. cut[i] \in Nat /\ cut[i + 1] \in Nat /\ cut[j] \in Nat /\ cut[j + 1] \in Nat
    BY <1>1
  <2>2. t \in first + cut[i] .. first + cut[i + 1] - 1 /\ t \in first + cut[j] .. first + cut[j + 1] - 1
    BY <1>4 DEF Pieces
  <2>3. t - first \in Int /\ t - first < cut[i + 1] /\ cut[j] <= t - first
    BY <2>1, <2>2
  <2> QED
    BY <1>4, <2>3, CutsDisjoint
<1>5. ASSUME NEW g \in 1 .. k, NEW h \in 1 .. k, g # h PROVE gs[g] \cap gs[h] = {}
  <2>1. g < h \/ h < g
    BY <1>5
  <2> QED
    BY <1>4, <2>1
<1> QED
  BY <1>2, <1>3, <1>5

LEMMA RuntimeGroupsProperty ==
    ASSUME bags \in Seq(TaskBag), NEW b \in 1 .. Len(bags)
    PROVE  DividesBag(RuntimeBalancedGroups(b), b)
<1> DEFINE n == NumTasks(b)
           k == NumGroups(b)
           first == FirstId(bags, b)
           cut == GroupStarts(b)
           gs == RuntimeBalancedGroups(b)
           q == n \div k
<1>1. /\ n \in Nat /\ k \in Nat /\ first \in Nat
      /\ IdsOf(bags, b) = first .. first + n - 1
      /\ \A i \in 1 .. n : TasksOf(b)[i] = first + i - 1
  <2>1. n \in Nat /\ k \in Nat /\ Len(TasksOf(b)) = n
    BY NumGroupsProperty
  <2>2. FirstId(bags, b + 1) = first + n /\ first \in Nat
    BY FirstIdProperty DEF NumTasks
  <2>3. \A i \in 1 .. Len(TasksOf(b)) : TasksOf(b)[i] = first + i - 1
    BY TasksOfBagProperty DEF TasksOf
  <2> QED
    BY <2>1, <2>2, <2>3 DEF IdsOf
<1>2. Cuts(cut, k) /\ cut[1] = 0 /\ cut[k + 1] = n
  BY <1>1, GroupStartsCut, GroupStartProperty, GroupsFillBag DEF GroupStarts
<1>3. \A g \in 1 .. k : /\ GroupSize(b, g) \in Nat \ {0} /\ GroupSize(b, g) - q \in {0, 1}
                        /\ q \in Nat
                        /\ cut[g + 1] = cut[g] + GroupSize(b, g) /\ cut[g] = GroupStart(b, g)
                        /\ cut[g] \in Nat /\ cut[g] + GroupSize(b, g) <= n
  <2> SUFFICES ASSUME NEW g \in 1 .. k
               PROVE  /\ GroupSize(b, g) \in Nat \ {0} /\ GroupSize(b, g) - q \in {0, 1}
                      /\ q \in Nat
                      /\ cut[g + 1] = cut[g] + GroupSize(b, g) /\ cut[g] = GroupStart(b, g)
                      /\ cut[g] \in Nat /\ cut[g] + GroupSize(b, g) <= n
    OBVIOUS
  <2>1. g \in 1 .. k + 1 /\ g + 1 \in 1 .. k + 1 /\ k + 1 \in g + 1 .. k + 1
    BY <1>1
  <2>2. q \in Nat /\ GroupSize(b, g) \in Nat \ {0} /\ GroupSize(b, g) - q \in {0, 1}
    BY GroupSizeProperty
  <2>3. cut[g + 1] = GroupStart(b, g) + GroupSize(b, g) /\ cut[g] = GroupStart(b, g)
    BY <2>1, GroupStartProperty DEF GroupStarts
  <2>4. cut[g + 1] <= cut[k + 1]
    BY <1>1, <1>2, <2>1, CutsAscend
  <2>5. cut[g] \in Nat
    BY <2>1, <1>2 DEF Cuts
  <2> QED
    BY <1>2, <2>2, <2>3, <2>4, <2>5
<1>4. \A g \in 1 .. k : gs[g] = {TasksOf(b)[cut[g] + j] : j \in 1 .. GroupSize(b, g)}
  BY <1>3 DEF RuntimeBalancedGroups
<1>5. Len(gs) = k /\ DOMAIN gs = 1 .. k
  BY <1>1 DEF RuntimeBalancedGroups
<1> HIDE DEF n, k, first, cut, gs, q
<1>6. ASSUME NEW g \in 1 .. k PROVE gs[g] = first + cut[g] .. first + cut[g + 1] - 1
  <2> DEFINE size == GroupSize(b, g)
             c == cut[g]
             x == first + c
             y == first + cut[g + 1] - 1
  <2>1. c \in Nat /\ size \in Nat /\ cut[g + 1] = c + size /\ c + size <= n
    BY <1>3
  <2>2. y = x + size - 1 /\ x \in Nat
    BY <1>1, <2>1
  <2>3. gs[g] = {TasksOf(b)[c + j] : j \in 1 .. size}
    BY <1>4
  <2> HIDE DEF c, size
  <2>4. \A j \in 1 .. size : TasksOf(b)[c + j] = x + j - 1
    <3>1. \A j \in 1 .. size : c + j \in 1 .. n /\ first + (c + j) - 1 = x + j - 1
      BY <1>1, <2>1
    <3> QED
      BY <1>1, <3>1
  <2> HIDE DEF x, y
  <2>5. gs[g] = {x + j - 1 : j \in 1 .. size}
    BY <2>3, <2>4
  <2>6. ASSUME NEW t \in x .. y
        PROVE  \E j \in 1 .. size : t = x + j - 1
    <3>1. t - x + 1 \in 1 .. size /\ t = x + (t - x + 1) - 1
      BY <2>1, <2>2
    <3> QED
      BY <3>1
  <2>7. \A j \in 1 .. size : x + j - 1 \in x .. y
    BY <2>1, <2>2
  <2>8. gs[g] = x .. y
    BY <2>5, <2>6, <2>7
  <2> QED
    BY <2>8 DEF x, y, c
<1>7. /\ \A g \in 1 .. k : /\ gs[g] \subseteq first .. first + cut[k + 1] - 1
                          /\ Cardinality(gs[g]) = cut[g + 1] - cut[g]
      /\ \A t \in first .. first + cut[k + 1] - 1 : \E g \in 1 .. k : t \in gs[g]
      /\ \A g, h \in 1 .. k : g # h => gs[g] \cap gs[h] = {}
  <2>1. Cuts(cut, k) /\ cut[1] = 0 /\ k \in Nat /\ first \in Nat
    BY <1>1, <1>2
  <2>2. Pieces(gs, k, cut, first)
    BY <1>6 DEF Pieces
  <2> QED
    BY <2>1, <2>2, PiecesDivide
<1>8. first .. first + cut[k + 1] - 1 = IdsOf(bags, b)
  BY <1>1, <1>2
<1>9. ASSUME NEW g \in 1 .. k PROVE Cardinality(gs[g]) = GroupSize(b, g) /\ gs[g] # {}
  <2> DEFINE size == GroupSize(b, g)
             c == cut[g]
  <2>1. c \in Nat /\ size \in Nat \ {0} /\ cut[g + 1] = c + size
    BY <1>3
  <2>2. Cardinality(gs[g]) = cut[g + 1] - c
    BY <1>7
  <2> HIDE DEF c, size
  <2>3. Cardinality(gs[g]) = size
    BY <2>1, <2>2
  <2>4. size # 0
    BY <2>1
  <2>5. gs[g] # {}
    BY <2>3, <2>4, FS_EmptySet
  <2> QED
    BY <2>3, <2>5 DEF size
<1>10. gs \in Seq(SUBSET IdsOf(bags, b))
  <2>1. gs = [g \in 1 .. k |-> gs[g]]
    BY <1>1 DEF gs, k, RuntimeBalancedGroups
  <2>2. \A g \in 1 .. k : gs[g] \in SUBSET IdsOf(bags, b)
    BY <1>7, <1>8
  <2>3. gs \in [1 .. k -> SUBSET IdsOf(bags, b)]
    BY <2>1, <2>2
  <2> QED
    BY <1>1, <2>3
<1>11. \A g \in 1 .. k : gs[g] # {} /\ Cardinality(gs[g]) - q \in {0, 1}
  BY <1>3, <1>9
<1>12. \A t \in IdsOf(bags, b) : \E g \in 1 .. k : t \in gs[g]
  BY <1>7, <1>8
<1>13. DividesBag(gs, b)
  BY <1>5, <1>7, <1>10, <1>11, <1>12 DEF DividesBag, k, q, n
<1> QED
  BY <1>13 DEF gs

----------------------------------------------------------------------------
\* How many tasks of bag b the groups have taken.
Taken(gs, b) == IF gs = << >> THEN 0 ELSE GroupStart(b, Len(gs)) + Cardinality(Last(gs))

\* While DBCA forms them the groups take tasks from those that are free; all
\* but the last have the size they shall have.
Growing(gs, fr, b) ==
    /\ gs \in Seq(SUBSET IdsOf(bags, b)) /\ fr \subseteq IdsOf(bags, b)
    /\ gs # << >> => Len(gs) <= NumGroups(b) /\ Cardinality(Last(gs)) <= GroupSize(b, Len(gs))
    /\ \A t \in IdsOf(bags, b) : t \in fr <=> \A g \in 1 .. Len(gs) : t \notin gs[g]
    /\ \A g, h \in 1 .. Len(gs) : g # h => gs[g] \cap gs[h] = {}
    /\ \A g \in 1 .. Len(gs) : gs[g] # {}
    /\ \A g \in 1 .. Len(gs) - 1 : Cardinality(gs[g]) = GroupSize(b, g)
    /\ Cardinality(fr) + Taken(gs, b) = NumTasks(b)

LEMMA GrowingStarts ==
    ASSUME bags \in Seq(TaskBag), NEW b \in 1 .. Len(bags)
    PROVE  Growing(<< >>, IdsOf(bags, b), b)
<1>1. Cardinality(IdsOf(bags, b)) = NumTasks(b) /\ NumTasks(b) \in Nat
  BY TasksOfBagProperty DEF NumTasks
<1>2. Taken(<< >>, b) = 0
  BY DEF Taken
<1>3. 1 .. Len(<< >>) = {} /\ 1 .. Len(<< >>) - 1 = {} /\ << >> \in Seq(SUBSET IdsOf(bags, b))
  OBVIOUS
<1>4. Cardinality(IdsOf(bags, b)) + Taken(<< >>, b) = NumTasks(b)
  BY <1>1, <1>2
<1> QED
  BY <1>3, <1>4 DEF Growing

LEMMA GrowingFinite ==
    ASSUME bags \in Seq(TaskBag), NEW b \in 1 .. Len(bags), NEW gs, NEW fr, Growing(gs, fr, b)
    PROVE  /\ IsFiniteSet(fr) /\ Cardinality(fr) \in Nat
           /\ \A g \in 1 .. Len(gs) : IsFiniteSet(gs[g]) /\ Cardinality(gs[g]) \in Nat
<1>1. IsFiniteSet(IdsOf(bags, b))
  BY TasksOfBagProperty
<1>2. fr \subseteq IdsOf(bags, b) /\ \A g \in 1 .. Len(gs) : gs[g] \subseteq IdsOf(bags, b)
  BY DEF Growing
<1>3. \A S \in SUBSET IdsOf(bags, b) : IsFiniteSet(S) /\ Cardinality(S) \in Nat
  BY <1>1, FS_Subset, FS_CardinalityType
<1> QED
  BY <1>2, <1>3

\* A new group is begun once the last one is full.
LEMMA GroupBegun ==
    ASSUME bags \in Seq(TaskBag), NEW b \in 1 .. Len(bags), NEW gs, NEW fr, Growing(gs, fr, b),
           Len(gs) < NumGroups(b),
           gs # << >> => Cardinality(Last(gs)) >= GroupSize(b, Len(gs)),
           NEW x \in fr
    PROVE  Growing(Append(gs, {x}), fr \ {x}, b)
<1> DEFINE T == IdsOf(bags, b)
           l == Len(gs)
           r == Append(gs, {x})
<1>1. /\ gs \in Seq(SUBSET T) /\ fr \subseteq T /\ x \in T
      /\ gs # << >> => Len(gs) <= NumGroups(b) /\ Cardinality(Last(gs)) <= GroupSize(b, Len(gs))
      /\ \A t \in T : t \in fr <=> \A g \in 1 .. Len(gs) : t \notin gs[g]
      /\ \A g, h \in 1 .. Len(gs) : g # h => gs[g] \cap gs[h] = {}
      /\ \A g \in 1 .. Len(gs) : gs[g] # {}
      /\ \A g \in 1 .. Len(gs) - 1 : Cardinality(gs[g]) = GroupSize(b, g)
      /\ Cardinality(fr) + Taken(gs, b) = NumTasks(b)
  BY DEF Growing
<1>2. /\ l \in Nat /\ NumGroups(b) \in Nat /\ l + 1 \in 1 .. NumGroups(b)
      /\ gs = << >> <=> l = 0
  BY <1>1, NumGroupsProperty
<1> HIDE DEF T, l
<1>3. /\ r \in Seq(SUBSET T) /\ Len(r) = l + 1 /\ r[l + 1] = {x} /\ r # << >> /\ Last(r) = {x}
      /\ \A g \in 1 .. l : r[g] = gs[g]
  BY <1>1, <1>2 DEF l, Last
<1> HIDE DEF r
<1>4. Cardinality({x}) = 1
  BY FS_Singleton
<1>5. IsFiniteSet(fr) /\ Cardinality(fr) \in Nat /\ NumTasks(b) \in Nat
  BY GrowingFinite, NumGroupsProperty
<1>6. Cardinality(fr \ {x}) = Cardinality(fr) - 1
  BY <1>5, FS_RemoveElement
<1>7. gs # << >> => /\ Cardinality(Last(gs)) = GroupSize(b, l) /\ GroupSize(b, l) \in Nat
                    /\ l \in 1 .. l /\ Last(gs) = gs[l] /\ l \in 1 .. NumGroups(b)
  <2> SUFFICES ASSUME gs # << >>
               PROVE  /\ Cardinality(Last(gs)) = GroupSize(b, l) /\ GroupSize(b, l) \in Nat
                      /\ l \in 1 .. l /\ Last(gs) = gs[l] /\ l \in 1 .. NumGroups(b)
    OBVIOUS
  <2>1. l \in 1 .. l /\ Last(gs) = gs[l] /\ l \in 1 .. NumGroups(b)
    BY <1>2 DEF l, Last
  <2>2. GroupSize(b, l) \in Nat
    BY <2>1, GroupSizeProperty
  <2>3. Cardinality(Last(gs)) \in Nat
    BY <2>1, GrowingFinite DEF l
  <2> QED
    BY <1>1, <2>1, <2>2, <2>3 DEF l
<1>8. GroupStart(b, l + 1) = Taken(gs, b) /\ GroupStart(b, l + 1) \in Nat
  <2>1. GroupStart(b, l + 1) \in Nat
    BY <1>2, GroupStartProperty
  <2>2. CASE gs = << >>
    <3>1. l + 1 = 1
      BY <1>2, <2>2
    <3> QED
      BY <2>1, <2>2, <3>1, GroupStartProperty DEF Taken
  <2>3. CASE gs # << >>
    BY <1>7, <2>1, <2>3, GroupStartProperty DEF Taken, l
  <2> QED
    BY <2>2, <2>3
<1>9. Cardinality(fr \ {x}) + Taken(r, b) = NumTasks(b)
  <2>1. Taken(r, b) = GroupStart(b, l + 1) + 1
    BY <1>3, <1>4 DEF Taken
  <2> QED
    BY <1>1, <1>5, <1>6, <1>8, <2>1
<1>10. Len(r) <= NumGroups(b) /\ Cardinality(Last(r)) <= GroupSize(b, Len(r))
  <2>1. GroupSize(b, l + 1) \in Nat \ {0}
    BY <1>2, GroupSizeProperty
  <2> QED
    BY <1>2, <1>3, <1>4, <2>1
<1>11. \A g \in 1 .. l + 1 : g \in 1 .. l \/ g = l + 1
  BY <1>2
<1>12. \A t \in T : t \in fr \ {x} <=> \A g \in 1 .. l + 1 : t \notin r[g]
  <2>1. \A t \in T : t \in fr <=> \A g \in 1 .. l : t \notin r[g]
    BY <1>1, <1>3 DEF l
  <2>2. l + 1 \in 1 .. l + 1 /\ \A g \in 1 .. l : g \in 1 .. l + 1
    BY <1>2
  <2> QED
    BY <1>3, <1>11, <2>1, <2>2
<1>13. \A g \in 1 .. l : x \notin r[g]
  BY <1>1, <1>3 DEF l
<1>14. \A g, h \in 1 .. l + 1 : g # h => r[g] \cap r[h] = {}
  <2>1. \A g, h \in 1 .. l : g # h => r[g] \cap r[h] = {}
    BY <1>1, <1>3 DEF l
  <2> QED
    BY <1>3, <1>11, <1>13, <2>1
<1>15. \A g \in 1 .. l + 1 : r[g] # {}
  BY <1>1, <1>3, <1>11 DEF l
<1>16. \A g \in 1 .. (l + 1) - 1 : Cardinality(r[g]) = GroupSize(b, g)
  <2>1. ASSUME NEW g \in 1 .. l PROVE Cardinality(gs[g]) = GroupSize(b, g)
    <3>1. g \in 1 .. l - 1 \/ g = l
      BY <1>2
    <3>2. gs # << >>
      BY <1>2
    <3> QED
      BY <1>1, <1>7, <3>1, <3>2 DEF l
  <2>2. (l + 1) - 1 = l
    BY <1>2
  <2> QED
    BY <1>3, <2>1, <2>2
<1>17. fr \ {x} \subseteq T
  BY <1>1
<1>18. Growing(r, fr \ {x}, b)
  BY <1>3, <1>9, <1>10, <1>12, <1>14, <1>15, <1>16, <1>17 DEF Growing, T
<1> QED
  BY <1>18 DEF r

\* The last group grows while it is not full.
LEMMA GroupGrown ==
    ASSUME bags \in Seq(TaskBag), NEW b \in 1 .. Len(bags), NEW gs, NEW fr, Growing(gs, fr, b),
           gs # << >>, Cardinality(Last(gs)) < GroupSize(b, Len(gs)), NEW x \in fr
    PROVE  Growing([gs EXCEPT ![Len(gs)] = @ \cup {x}], fr \ {x}, b)
<1> DEFINE T == IdsOf(bags, b)
           l == Len(gs)
           r == [gs EXCEPT ![Len(gs)] = @ \cup {x}]
<1>1. /\ gs \in Seq(SUBSET T) /\ fr \subseteq T /\ x \in T
      /\ Len(gs) <= NumGroups(b) /\ Cardinality(Last(gs)) <= GroupSize(b, Len(gs))
      /\ \A t \in T : t \in fr <=> \A g \in 1 .. Len(gs) : t \notin gs[g]
      /\ \A g, h \in 1 .. Len(gs) : g # h => gs[g] \cap gs[h] = {}
      /\ \A g \in 1 .. Len(gs) : gs[g] # {}
      /\ \A g \in 1 .. Len(gs) - 1 : Cardinality(gs[g]) = GroupSize(b, g)
      /\ Cardinality(fr) + Taken(gs, b) = NumTasks(b)
  BY DEF Growing
<1>2. l \in 1 .. l /\ l \in Nat /\ NumGroups(b) \in Nat /\ l \in 1 .. NumGroups(b) /\ Last(gs) = gs[l]
  BY <1>1, NumGroupsProperty DEF Last
<1> HIDE DEF T, l
<1>3. /\ r \in Seq(SUBSET T) /\ Len(r) = l /\ r[l] = gs[l] \cup {x} /\ r # << >> /\ Last(r) = r[l]
      /\ \A g \in 1 .. l : g # l => r[g] = gs[g]
  <2>1. l \in DOMAIN gs /\ DOMAIN gs = 1 .. l
    BY <1>1, <1>2 DEF l
  <2>2. gs[l] \cup {x} \in SUBSET T
    BY <1>1, <2>1
  <2>3. r = [gs EXCEPT ![l] = gs[l] \cup {x}]
    BY DEF l
  <2> HIDE DEF r
  <2>4. r \in Seq(SUBSET T) /\ Len(r) = l /\ r[l] = gs[l] \cup {x}
    BY <1>1, <2>1, <2>2, <2>3 DEF l
  <2>5. \A g \in 1 .. l : g # l => r[g] = gs[g]
    BY <2>1, <2>3
  <2> QED
    BY <1>2, <2>4, <2>5 DEF Last
<1> HIDE DEF r
<1>4. IsFiniteSet(fr) /\ Cardinality(fr) \in Nat /\ NumTasks(b) \in Nat
  BY GrowingFinite, NumGroupsProperty
<1>5. Cardinality(fr \ {x}) = Cardinality(fr) - 1
  BY <1>4, FS_RemoveElement
<1>6. x \notin gs[l] /\ \A g \in 1 .. l : x \notin gs[g]
  BY <1>1, <1>2 DEF l
<1>7. IsFiniteSet(gs[l]) /\ Cardinality(gs[l]) \in Nat
  BY <1>2, GrowingFinite DEF l
<1>8. Cardinality(r[l]) = Cardinality(gs[l]) + 1
  BY <1>3, <1>6, <1>7, FS_AddElement, ZenonT(40)
<1>9. Cardinality(fr \ {x}) + Taken(r, b) = NumTasks(b)
  <2>1. GroupStart(b, l) \in Nat
    BY <1>2, GroupStartProperty
  <2>2. Taken(r, b) = GroupStart(b, l) + Cardinality(gs[l]) + 1 /\ Taken(gs, b) = GroupStart(b, l) + Cardinality(gs[l])
    BY <1>2, <1>3, <1>7, <1>8, <2>1 DEF Taken, l
  <2> QED
    BY <1>1, <1>4, <1>5, <1>7, <2>1, <2>2
<1>10. Len(r) <= NumGroups(b) /\ Cardinality(Last(r)) <= GroupSize(b, Len(r))
  <2>1. GroupSize(b, l) \in Nat
    BY <1>2, GroupSizeProperty
  <2>2. Cardinality(gs[l]) < GroupSize(b, l)
    BY <1>2 DEF l
  <2> QED
    BY <1>2, <1>3, <1>7, <1>8, <2>1, <2>2
<1>11. \A t \in T : t \in fr \ {x} <=> \A g \in 1 .. l : t \notin r[g]
  <2>1. \A t \in T : t \in fr <=> \A g \in 1 .. l : t \notin gs[g]
    BY <1>1 DEF l
  <2>2. \A g \in 1 .. l, t \in T : t \in r[g] <=> t \in gs[g] \/ (g = l /\ t = x)
    BY <1>3
  <2> QED
    BY <1>2, <2>1, <2>2
<1>12. \A g, h \in 1 .. l : g # h => r[g] \cap r[h] = {}
  <2> SUFFICES ASSUME NEW g \in 1 .. l, NEW h \in 1 .. l, g # h, NEW t, t \in r[g], t \in r[h]
               PROVE  FALSE
    OBVIOUS
  <2>1. gs[g] \cap gs[h] = {}
    BY <1>1 DEF l
  <2>2. g # l => r[g] = gs[g]
    BY <1>3
  <2>3. h # l => r[h] = gs[h]
    BY <1>3
  <2> QED
    BY <1>3, <1>6, <2>1, <2>2, <2>3
<1>13. \A g \in 1 .. l : r[g] # {}
  BY <1>1, <1>3 DEF l
<1>14. \A g \in 1 .. l - 1 : Cardinality(r[g]) = GroupSize(b, g)
  <2>1. \A g \in 1 .. l - 1 : g \in 1 .. l /\ g # l
    BY <1>2
  <2> QED
    BY <1>1, <1>3, <2>1 DEF l
<1>15. fr \ {x} \subseteq T
  BY <1>1
<1>16. Growing(r, fr \ {x}, b)
  BY <1>3, <1>9, <1>10, <1>11, <1>12, <1>13, <1>14, <1>15 DEF Growing, T
<1> QED
  BY <1>16 DEF r

\* When the groups are full no task is left, and when none is left they are full.
LEMMA GroupsFinished ==
    ASSUME bags \in Seq(TaskBag), NEW b \in 1 .. Len(bags), NEW gs, NEW fr, Growing(gs, fr, b),
           \/ fr = {}
           \/ /\ Len(gs) = NumGroups(b)
              /\ gs # << >> => Cardinality(Last(gs)) >= GroupSize(b, Len(gs))
    PROVE  /\ fr = {} /\ Len(gs) = NumGroups(b)
           /\ gs # << >> => Cardinality(Last(gs)) >= GroupSize(b, Len(gs))
           /\ DividesBag(gs, b)
<1> DEFINE T == IdsOf(bags, b)
           l == Len(gs)
           k == NumGroups(b)
           n == NumTasks(b)
           card == Cardinality(Last(gs))
           size == GroupSize(b, l)
           start == GroupStart(b, l)
<1>1. /\ gs \in Seq(SUBSET T)
      /\ gs # << >> => l <= k /\ card <= size
      /\ \A t \in T : t \in fr <=> \A g \in 1 .. l : t \notin gs[g]
      /\ \A g, h \in 1 .. l : g # h => gs[g] \cap gs[h] = {}
      /\ \A g \in 1 .. l : gs[g] # {}
      /\ \A g \in 1 .. l - 1 : Cardinality(gs[g]) = GroupSize(b, g)
      /\ Cardinality(fr) + Taken(gs, b) = n
  BY DEF Growing
<1>2. l \in Nat /\ k \in Nat /\ n \in Nat /\ (gs = << >> <=> l = 0) /\ (k = 0 <=> n = 0)
  BY <1>1, NumGroupsProperty
<1>3. IsFiniteSet(fr) /\ Cardinality(fr) \in Nat /\ (fr = {} <=> Cardinality(fr) = 0)
  BY GrowingFinite, FS_EmptySet
<1>4. GroupStart(b, k + 1) = n
  BY GroupsFillBag
<1>5. CASE gs = << >>
  <2>1. Taken(gs, b) = 0
    BY <1>5 DEF Taken
  <2>2. Cardinality(fr) = n
    BY <1>1, <1>2, <1>3, <2>1
  <2>3. l = 0
    BY <1>2, <1>5
  <2>4. fr = {} /\ l = k /\ (gs # << >> => card >= size)
    BY <1>2, <1>3, <1>5, <2>2, <2>3
  <2>5. 1 .. l = {}
    BY <2>3
  <2> QED
    BY <1>1, <2>4, <2>5 DEF DividesBag
<1>6. CASE gs # << >>
  <2>1. /\ l \in 1 .. k /\ l \in 1 .. k + 1 /\ l + 1 \in 1 .. k + 1 /\ k + 1 \in l + 1 .. k + 1
        /\ l \in 1 .. l /\ Last(gs) = gs[l]
    BY <1>1, <1>2, <1>6 DEF Last
  <2>2. size \in Nat /\ start \in Nat /\ GroupStart(b, l + 1) = start + size
    BY <2>1, GroupSizeProperty, GroupStartProperty, SMTT(30)
  <2>3. card \in Nat
    BY <2>1, GrowingFinite
  <2>4. Cardinality(fr) + start + card = n
    BY <1>1, <1>2, <1>3, <1>6, <2>2, <2>3 DEF Taken
  <2>5. l < k => start + size < n
    <3> SUFFICES ASSUME l < k PROVE start + size < n
      OBVIOUS
    <3>1. l + 1 \in 1 .. k /\ (l + 1) + 1 \in 1 .. k + 1 /\ k + 1 \in (l + 1) + 1 .. k + 1
      BY <1>2, <2>1
    <3>2. GroupStart(b, (l + 1) + 1) = GroupStart(b, l + 1) + GroupSize(b, l + 1)
      BY <3>1, GroupStartProperty
    <3>3. GroupSize(b, l + 1) \in Nat \ {0}
      BY <3>1, GroupSizeProperty
    <3>4. GroupStarts(b)[(l + 1) + 1] <= GroupStarts(b)[k + 1]
      BY <1>2, <3>1, GroupStartsCut, CutsAscend
    <3>5. GroupStart(b, (l + 1) + 1) <= n
      BY <1>2, <1>4, <3>1, <3>4 DEF GroupStarts
    <3> HIDE DEF start, size, n, l, k
    <3> QED
      BY <1>2, <2>2, <3>2, <3>3, <3>5
  <2>6. l = k => start + size = n
    BY <1>4, <2>2
  <2>7. card <= size /\ l <= k /\ (fr = {} \/ (l = k /\ card >= size))
    BY <1>1, <1>6
  <2> HIDE DEF card, size, start, l, k, n
  <2>8. fr = {} /\ l = k /\ card = size
    <3>1. CASE fr = {}
      <4>1. start + card = n
        BY <1>3, <2>2, <2>3, <2>4, <3>1
      <4>2. ~(l < k)
        BY <1>2, <2>2, <2>3, <2>5, <2>7, <4>1
      <4>3. l = k
        BY <1>2, <2>7, <4>2
      <4> QED
        BY <2>2, <2>3, <2>6, <3>1, <4>1, <4>3
    <3>2. CASE l = k /\ card >= size
      BY <1>2, <1>3, <2>2, <2>3, <2>4, <2>6, <2>7, <3>2
    <3> QED
      BY <2>7, <3>1, <3>2
  <2>9. \A g \in 1 .. l : Cardinality(gs[g]) = GroupSize(b, g)
    <3>1. \A g \in 1 .. l : g \in 1 .. l - 1 \/ g = l
      BY <1>2
    <3> QED
      BY <1>1, <2>1, <2>8, <3>1 DEF card, size
  <2>10. \A g \in 1 .. l : gs[g] # {} /\ Cardinality(gs[g]) - (n \div k) \in {0, 1}
    <3>1. \A g \in 1 .. l : GroupSize(b, g) - (n \div k) \in {0, 1}
      BY <2>8, GroupSizeProperty DEF k, n
    <3> QED
      BY <1>1, <2>9, <3>1
  <2>11. \A t \in T : \E g \in 1 .. l : t \in gs[g]
    BY <1>1, <2>8
  <2>12. DividesBag(gs, b)
    BY <1>1, <2>8, <2>10, <2>11 DEF DividesBag, l, k, n
  <2> QED
    BY <2>2, <2>8, <2>12 DEF l, k, card, size
<1> QED
  BY <1>5, <1>6

----------------------------------------------------------------------------
\* The bags are those w was expanded from.
InputsFit ==
    /\ bags \in Seq(TaskBag)
    /\ algorithm \in {"rbca", "dbca"}
    /\ w.size = FirstId(bags, Len(bags) + 1)
    /\ s.useMemory = FALSE

NodesDisjoint == \A n \in Nodes : Disjoint(s.node[n])

PhaseFitsBag ==
    /\ phase # "internal_bug"
    /\ phase \in {"match", "insert", "out_of_range"} => bag <= Len(bags)
    /\ phase = "done" => bag > Len(bags)

\* The tasks of later bags, and of the bag at hand those no loop has reached.
Unplaced ==
    IF phase \in {"insert", "out_of_range"}
    THEN {t \in Tasks(w) : \/ \E g \in 1 .. Len(pending) : t \in pending[g]
                           \/ t >= FirstId(bags, bag + 1)}
    ELSE {t \in Tasks(w) : t >= FirstId(bags, bag)}

PlacedOnce == \A t \in Tasks(w) : Len(s.task[t]) = IF t \in Unplaced THEN 0 ELSE 1

GroupsGrow == phase = "group" /\ bag <= Len(bags) => Growing(groups, free, bag)

GroupsDivide ==
    phase \in {"match", "insert", "out_of_range"} => DividesBag(groups, bag)

\* The groups are in order, and what was placed of a group is on its node.
GroupsMatched ==
    phase \in {"insert", "out_of_range"} =>
        /\ Len(pending) = Len(groups)
        /\ nodes \in NodeOrders
        /\ \A g, h \in 1 .. Len(groups) : g < h =>
               SumOver(w.workload, groups[g]) >= SumOver(w.workload, groups[h])
        /\ \A g \in 1 .. Len(groups) : pending[g] \subseteq groups[g]
        /\ \A g \in 1 .. Len(groups) : \A t \in groups[g] :
               t \notin pending[g] => s.task[t][1].node = nodes[g]

\* The tasks of bag b that node n has, and their work.
OnNodeOf(b, n) == {t \in IdsOf(bags, b) : \E k \in Indices(s.task[t]) : s.task[t][k].node = n}
WorkOn(b, n) == SumOver(w.workload, OnNodeOf(b, n))

FasterFirst ==
    \A b \in 1 .. bag - 1 : \A n, m \in Nodes :
        WorkOn(b, n) > WorkOn(b, m) => Performance[n] >= Performance[m]

EdgesForward ==
    \A e \in w.deps : Scheduled(s, e[2]) => BagOf(bags, e[1]) <= BagOf(bags, e[2])

ThrowsForEdge ==
    phase = "out_of_range" => \E e \in w.deps : BagOf(bags, e[1]) >= BagOf(bags, e[2])

CInv ==
    /\ TypeOK
    /\ InputsFit
    /\ NodesDisjoint
    /\ PhaseFitsBag
    /\ PlacedOnce
    /\ GroupsGrow
    /\ GroupsDivide
    /\ GroupsMatched
    /\ FasterFirst
    /\ EdgesForward
    /\ ThrowsForEdge

----------------------------------------------------------------------------
LEMMA BagAtHand ==
    ASSUME InputsFit, NEW b \in 1 .. Len(bags)
    PROVE  /\ Range(TasksOf(b)) = IdsOf(bags, b) /\ IdsOf(bags, b) \subseteq Tasks(w)
           /\ IsFiniteSet(IdsOf(bags, b)) /\ Cardinality(IdsOf(bags, b)) = NumTasks(b)
           /\ FirstId(bags, b) \in Nat /\ FirstId(bags, b + 1) \in Nat
           /\ FirstId(bags, b) <= FirstId(bags, b + 1)
           /\ \A t \in Tasks(w) :
                  t \in IdsOf(bags, b) <=> t >= FirstId(bags, b) /\ ~(t >= FirstId(bags, b + 1))
<1>1. bags \in Seq(TaskBag) /\ w.size = FirstId(bags, Len(bags) + 1)
  BY DEF InputsFit
<1>2. /\ Range(TasksOf(b)) = IdsOf(bags, b)
      /\ IdsOf(bags, b) \subseteq Tasks(w)
      /\ IsFiniteSet(IdsOf(bags, b)) /\ Cardinality(IdsOf(bags, b)) = NumTasks(b)
  BY <1>1, TasksOfBagProperty DEF TasksOf, NumTasks, Tasks
<1>3. FirstId(bags, b) \in Nat /\ FirstId(bags, b + 1) \in Nat /\ FirstId(bags, b) <= FirstId(bags, b + 1)
  BY <1>1, FirstIdProperty
<1>4. \A t \in Tasks(w) : t \in Int
  BY DEF Tasks
<1>5. \A t \in Tasks(w) :
          t \in IdsOf(bags, b) <=> t >= FirstId(bags, b) /\ ~(t >= FirstId(bags, b + 1))
  BY <1>3, <1>4 DEF IdsOf
<1> QED
  BY <1>2, <1>3, <1>5

\* Bags and tasks are in the same order.
LEMMA BagOfOrder ==
    ASSUME InputsFit, NEW t \in Tasks(w), NEW b \in 1 .. Len(bags)
    PROVE  /\ BagOf(bags, t) \in 1 .. Len(bags)
           /\ t < FirstId(bags, b + 1) => BagOf(bags, t) <= b
           /\ t >= FirstId(bags, b) => BagOf(bags, t) >= b
<1>1. bags \in Seq(TaskBag) /\ w.size = FirstId(bags, Len(bags) + 1)
  BY DEF InputsFit
<1>2. t \in 0 .. FirstId(bags, Len(bags) + 1) - 1
  BY <1>1 DEF Tasks
<1>3. PICK c \in 1 .. Len(bags) : t \in IdsOf(bags, c)
  BY <1>1, <1>2, EveryTaskInBag
<1>4. BagOf(bags, t) = c
  BY <1>1, <1>3, BagOfProperty
<1>5. /\ FirstIds(bags)[c] <= t /\ t < FirstIds(bags)[c + 1] /\ t \in Nat
      /\ FirstIds(bags)[b + 1] = FirstId(bags, b + 1) /\ FirstIds(bags)[b] = FirstId(bags, b)
  <2>1. FirstId(bags, c) \in Nat /\ FirstId(bags, c + 1) \in Nat
    BY BagAtHand
  <2>2. FirstId(bags, c) <= t /\ t < FirstId(bags, c + 1) /\ t \in Nat
    BY <1>3, <2>1 DEF IdsOf
  <2>3. c \in 1 .. Len(bags) + 1 /\ c + 1 \in 1 .. Len(bags) + 1 /\ b \in 1 .. Len(bags) + 1 /\ b + 1 \in 1 .. Len(bags) + 1
    OBVIOUS
  <2> QED
    BY <2>2, <2>3 DEF FirstIds
<1>6. Len(bags) \in Nat /\ Cuts(FirstIds(bags), Len(bags)) /\ t \in Int
  BY <1>1, <1>5, FirstIdsCut
<1>7. ~(b < c /\ t < FirstIds(bags)[b + 1])
  BY <1>5, <1>6, CutsDisjoint
<1>8. ~(c < b /\ FirstIds(bags)[b] <= t)
  BY <1>5, <1>6, CutsDisjoint
<1>9. FirstId(bags, b) \in Nat /\ FirstId(bags, b + 1) \in Nat
  BY BagAtHand
<1> QED
  BY <1>4, <1>5, <1>7, <1>8, <1>9

LEMMA SameBag ==
    ASSUME UNCHANGED <<bags, bag>>
    PROVE  /\ TasksOf(bag)' = TasksOf(bag) /\ NumGroups(bag)' = NumGroups(bag)
           /\ NumTasks(bag)' = NumTasks(bag)
           /\ \A g : GroupSize(bag, g)' = GroupSize(bag, g)
           /\ \A g : GroupStart(bag, g)' = GroupStart(bag, g)
<1>1. TasksOf(bag)' = TasksOf(bag) /\ NumTasks(bag)' = NumTasks(bag)
  BY DEF TasksOf, NumTasks
<1>2. NumGroups(bag)' = NumGroups(bag)
  BY <1>1 DEF NumGroups
<1>3. \A g : GroupSize(bag, g)' = GroupSize(bag, g)
  BY <1>1, <1>2 DEF GroupSize
<1>4. \A g : GroupStart(bag, g)' = GroupStart(bag, g)
  BY <1>2, <1>3 DEF GroupStart
<1> QED
  BY <1>1, <1>2, <1>3, <1>4

LEMMA SameDivision ==
    ASSUME UNCHANGED <<bags, bag>>
    PROVE  DividesBag(groups, bag)' <=> DividesBag(groups', bag)
<1>1. NumGroups(bag)' = NumGroups(bag) /\ NumTasks(bag)' = NumTasks(bag)
  BY SameBag
<1>2. IdsOf(bags, bag)' = IdsOf(bags, bag)
  OBVIOUS
<1> QED
  BY <1>1, <1>2 DEF DividesBag

\* Steps that leave the schedule and the bag alone.
LEMMA SameSchedule ==
    ASSUME CInv, UNCHANGED <<algorithm, bags, w, s, bag>>
    PROVE  InputsFit' /\ NodesDisjoint' /\ FasterFirst' /\ EdgesForward'
<1>1. ASSUME NEW b, NEW n PROVE WorkOn(b, n)' = WorkOn(b, n)
  <2>1. OnNodeOf(b, n)' = OnNodeOf(b, n)
    BY DEF OnNodeOf
  <2> QED
    BY <2>1 DEF WorkOn
<1> QED
  BY <1>1 DEF CInv, InputsFit, NodesDisjoint, FasterFirst, EdgesForward

----------------------------------------------------------------------------
LEMMA InitEstablishesCInv == Init => CInv
<1> SUFFICES ASSUME Init PROVE CInv
  OBVIOUS
<1>1. /\ algorithm \in Algorithms /\ bags \in BagInputs /\ w \in Workflows
      /\ w = ExpandTaskBags(bags, w.deps, w.position)
      /\ s = NewSchedule(w, FALSE)
      /\ bag = 1 /\ groups = << >>
      /\ free = IF bags = << >> THEN {} ELSE Range(TasksOf(1))
      /\ nodes = << >> /\ pending = << >> /\ phase = "group"
  BY DEF Init
<1>2. IsWorkflow(w) /\ bags \in Seq(TaskBag) /\ algorithm \in {"rbca", "dbca"}
  BY <1>1, BagInputsAssumption, WorkflowsAssumption, AlgorithmsAssumption
<1>3. w.size = FirstId(bags, Len(bags) + 1)
  <2>1. ExpandTaskBags(bags, w.deps, w.position).size = FirstId(bags, Len(bags) + 1)
    BY DEF ExpandTaskBags
  <2> QED
    BY <1>1, <2>1
<1>4. /\ s \in Schedules(w) /\ s.useMemory = FALSE
      /\ \A n \in Nodes : Disjoint(s.node[n])
      /\ \A t \in Tasks(w) : s.task[t] = << >>
  BY <1>1, NewScheduleProperties
<1>5. InputsFit /\ NodesDisjoint /\ PhaseFitsBag
  BY <1>1, <1>2, <1>3, <1>4 DEF InputsFit, NodesDisjoint, PhaseFitsBag
<1>6. bags # << >> => 1 \in 1 .. Len(bags) /\ free = IdsOf(bags, 1)
  <2>1. bags # << >> => 1 \in 1 .. Len(bags)
    BY <1>2
  <2> QED
    BY <1>1, <1>5, <2>1, BagAtHand
<1>7. TypeOK
  <2>1. free \subseteq Tasks(w)
    BY <1>1, <1>5, <1>6, BagAtHand
  <2>2. bag \in 1 .. Len(bags) + 1
    BY <1>1, <1>2
  <2>3. groups \in Seq(SUBSET Tasks(w)) /\ pending \in Seq(SUBSET Tasks(w))
    BY <1>1
  <2> QED
    BY <1>1, <1>2, <1>4, <2>1, <2>2, <2>3 DEF TypeOK
<1>8. PlacedOnce
  <2>1. FirstId(bags, 1) = 0
    BY <1>2, FirstIdProperty
  <2>2. \A t \in Tasks(w) : t \in Unplaced
    BY <1>1, <2>1 DEF Unplaced, Tasks
  <2> QED
    BY <1>4, <2>2 DEF PlacedOnce
<1>9. GroupsGrow
  <2>1. bag <= Len(bags) => bag \in 1 .. Len(bags) /\ bags # << >>
    BY <1>1, <1>2
  <2> QED
    BY <1>1, <1>2, <1>6, <2>1, GrowingStarts DEF GroupsGrow
<1>10. GroupsDivide /\ GroupsMatched /\ ThrowsForEdge
  BY <1>1 DEF GroupsDivide, GroupsMatched, ThrowsForEdge
<1>11. FasterFirst
  <2>1. 1 .. bag - 1 = {}
    BY <1>1
  <2> QED
    BY <2>1 DEF FasterFirst
<1>12. EdgesForward
  <2>1. w.deps \subseteq Tasks(w) \X Tasks(w)
    BY <1>2 DEF IsWorkflow
  <2> QED
    BY <1>4, <2>1 DEF EdgesForward, Scheduled
<1> QED
  BY <1>5, <1>7, <1>8, <1>9, <1>10, <1>11, <1>12 DEF CInv

----------------------------------------------------------------------------
LEMMA SameGrowth ==
    ASSUME UNCHANGED <<bags, bag>>
    PROVE  Growing(groups, free, bag)' <=> Growing(groups', free', bag)
<1>1. /\ NumGroups(bag)' = NumGroups(bag) /\ NumTasks(bag)' = NumTasks(bag)
      /\ \A g : GroupSize(bag, g)' = GroupSize(bag, g)
      /\ \A g : GroupStart(bag, g)' = GroupStart(bag, g)
  BY SameBag
<1>2. IdsOf(bags, bag)' = IdsOf(bags, bag)
  OBVIOUS
<1>3. GroupSize(bag, Len(groups))' = GroupSize(bag, Len(groups'))
  BY <1>1 DEF GroupSize, TasksOf
<1>4. GroupStart(bag, Len(groups))' = GroupStart(bag, Len(groups'))
  BY <1>1 DEF GroupStart
<1>5. Taken(groups, bag)' = Taken(groups', bag)
  BY <1>4 DEF Taken
<1> QED
  BY <1>1, <1>2, <1>3, <1>5 DEF Growing

\* A sum over no tasks.
LEMMA NoCorrelation == ASSUME NEW group, NEW t PROVE AddedCorrelation(group, t) = 0
<1> DEFINE Iter(h) == h = [T \in SUBSET {} |->
                              IF T = {} THEN 0
                              ELSE Correlation(CHOOSE x \in T : TRUE, t) + h[T \ {CHOOSE x \in T : TRUE}]]
           iter == CHOOSE h : Iter(h)
           zero == [T \in SUBSET {} |-> 0]
<1>1. AddedCorrelation(group, t) = iter[{}]
  BY DEF AddedCorrelation, Visited, MapThenSumSet, MapThenFoldSet
<1>2. \A T \in SUBSET {} : T = {}
  OBVIOUS
<1>3. Iter(zero)
  BY <1>2
<1>4. Iter(iter)
  BY <1>3
<1> HIDE DEF iter
<1>5. iter[{}] = 0
  BY <1>4
<1> QED
  BY <1>1, <1>5

LEMMA FreeFinite == TypeOK => free \in SUBSET Int /\ IsFiniteSet(free)
<1> SUFFICES ASSUME TypeOK PROVE free \in SUBSET Int /\ IsFiniteSet(free)
  OBVIOUS
<1>1. free \subseteq Tasks(w) /\ IsWorkflow(w)
  BY DEF TypeOK
<1>2. IsFiniteSet(Tasks(w))
  BY <1>1, TasksFinite
<1>3. Tasks(w) \subseteq Int
  BY DEF Tasks
<1> QED
  BY <1>1, <1>2, <1>3, FS_Subset

\* What the loop over the remaining tasks finds is one of them.
LEMMA BestFreeTaskProperty ==
    ASSUME TypeOK, free # {}, NEW group, IsFiniteSet(group)
    PROVE  BestFreeTask(group) \in free
<1> DEFINE c == Cardinality(group)
           f == [t \in free |-> 0 - w.workload[t] * c]
           Best(t) == \A u \in free :
               \/ AddedCorrelation(group, t) > AddedCorrelation(group, u)
               \/ /\ AddedCorrelation(group, t) = AddedCorrelation(group, u)
                  /\ \/ WorkloadDifference(group, t) < WorkloadDifference(group, u)
                     \/ WorkloadDifference(group, t) = WorkloadDifference(group, u) /\ t <= u
<1>1. free \subseteq Tasks(w) /\ IsWorkflow(w)
  BY DEF TypeOK
<1>2. free \in SUBSET Int /\ IsFiniteSet(free)
  BY <1>1, FreeFinite
<1>3. c \in Nat
  BY FS_CardinalityType
<1>4. \A t \in free : w.workload[t] \in Nat
  BY <1>1 DEF IsWorkflow
<1>5. AverageTotal(group) = 0
  <2>1. AverageTotal(group) = SumOver(w.workload, {})
    BY DEF AverageTotal, Visited, SumOver
  <2> QED
    BY <2>1, SumOverEmpty
<1>6. \A t \in free : WorkloadDifference(group, t) = 0 - w.workload[t] * c
  BY <1>5 DEF WorkloadDifference
<1> HIDE DEF c
<1>7. \A t \in free : 0 - w.workload[t] * c \in Int
  BY <1>3, <1>4
<1>8. f \in [free -> Int] /\ \A t \in free : f[t] = WorkloadDifference(group, t)
  BY <1>6, <1>7
<1> HIDE DEF f
<1>9. \E n \in free : \A m \in free : f[n] < f[m] \/ (f[n] = f[m] /\ n <= m)
  BY <1>2, <1>8, LeastExists
<1>10. \A t, u \in free : AddedCorrelation(group, t) = AddedCorrelation(group, u)
  BY NoCorrelation
<1>11. \E t \in free : Best(t)
  BY <1>8, <1>9, <1>10
<1>12. BestFreeTask(group) = CHOOSE t \in free : Best(t)
  BY DEF BestFreeTask
<1> HIDE DEF Best
<1> QED
  BY <1>11, <1>12

LEMMA StartGroupKeepsCInv == CInv /\ StartGroup => CInv'
<1> SUFFICES ASSUME CInv, StartGroup PROVE CInv'
  OBVIOUS
<1> DEFINE x == Min(free)
<1>1. /\ phase = "group" /\ bag <= Len(bags) /\ Len(groups) < NumGroups(bag) /\ free # {}
      /\ groups # << >> => Cardinality(Last(groups)) >= GroupSize(bag, Len(groups))
      /\ groups' = Append(groups, {x}) /\ free' = free \ {x}
      /\ UNCHANGED <<algorithm, bags, w, s, bag, nodes, pending, phase>>
  BY DEF StartGroup, Grouping, LastGroupFull
<1>2. TypeOK /\ InputsFit /\ IsWorkflow(w) /\ bags \in Seq(TaskBag) /\ bag \in 1 .. Len(bags)
  BY <1>1 DEF CInv, TypeOK, InputsFit
<1>3. x \in free
  <2>1. free \in SUBSET Int /\ IsFiniteSet(free)
    BY <1>2, FreeFinite
  <2> QED
    BY <1>1, <2>1, MinProperty
<1> HIDE DEF x
<1>4. GroupsGrow'
  <2>1. Growing(groups, free, bag)
    BY <1>1 DEF CInv, GroupsGrow
  <2>2. Growing(Append(groups, {x}), free \ {x}, bag)
    BY <1>1, <1>2, <1>3, <2>1, GroupBegun
  <2>3. Growing(groups, free, bag)'
    BY <1>1, <2>2, SameGrowth
  <2> QED
    BY <2>3 DEF GroupsGrow
<1>5. TypeOK'
  <2>1. {x} \in SUBSET Tasks(w) /\ groups \in Seq(SUBSET Tasks(w)) /\ free \subseteq Tasks(w)
    BY <1>2, <1>3 DEF TypeOK
  <2>2. groups' \in Seq(SUBSET Tasks(w)) /\ free' \subseteq Tasks(w)
    BY <1>1, <2>1
  <2> QED
    BY <1>1, <1>2, <2>2 DEF TypeOK
<1>6. InputsFit' /\ NodesDisjoint' /\ FasterFirst' /\ EdgesForward'
  BY <1>1, SameSchedule
<1>7. PhaseFitsBag' /\ PlacedOnce'
  BY <1>1 DEF CInv, PhaseFitsBag, PlacedOnce, Unplaced
<1>8. GroupsDivide' /\ GroupsMatched' /\ ThrowsForEdge'
  BY <1>1 DEF GroupsDivide, GroupsMatched, ThrowsForEdge
<1> QED
  BY <1>4, <1>5, <1>6, <1>7, <1>8 DEF CInv

LEMMA AddToGroupKeepsCInv == CInv /\ AddToGroup => CInv'
<1> SUFFICES ASSUME CInv, AddToGroup PROVE CInv'
  OBVIOUS
<1> DEFINE x == BestFreeTask(Last(groups))
<1>1. /\ phase = "group" /\ bag <= Len(bags) /\ free # {} /\ groups # << >>
      /\ ~(Cardinality(Last(groups)) >= GroupSize(bag, Len(groups)))
      /\ groups' = [groups EXCEPT ![Len(groups)] = @ \cup {x}] /\ free' = free \ {x}
      /\ UNCHANGED <<algorithm, bags, w, s, bag, nodes, pending, phase>>
  BY DEF AddToGroup, Grouping, LastGroupFull
<1>2. TypeOK /\ InputsFit /\ IsWorkflow(w) /\ bags \in Seq(TaskBag) /\ bag \in 1 .. Len(bags)
  BY <1>1 DEF CInv, TypeOK, InputsFit
<1>3. Growing(groups, free, bag)
  BY <1>1 DEF CInv, GroupsGrow
<1>4. Len(groups) \in 1 .. Len(groups) /\ Len(groups) \in 1 .. NumGroups(bag) /\ Last(groups) = groups[Len(groups)]
  <2>1. groups \in Seq(SUBSET Tasks(w)) /\ Len(groups) <= NumGroups(bag) /\ NumGroups(bag) \in Nat
    BY <1>1, <1>2, <1>3, NumGroupsProperty DEF Growing, TypeOK
  <2> QED
    BY <1>1, <2>1 DEF Last
<1>5. IsFiniteSet(Last(groups)) /\ Cardinality(Last(groups)) \in Nat
  BY <1>2, <1>3, <1>4, GrowingFinite
<1>6. Cardinality(Last(groups)) < GroupSize(bag, Len(groups))
  <2>1. GroupSize(bag, Len(groups)) \in Nat
    BY <1>2, <1>4, GroupSizeProperty
  <2> QED
    BY <1>1, <1>5, <2>1
<1>7. x \in free
  BY <1>1, <1>2, <1>5, BestFreeTaskProperty
<1> HIDE DEF x
<1>8. GroupsGrow'
  <2>1. Growing([groups EXCEPT ![Len(groups)] = @ \cup {x}], free \ {x}, bag)
    BY <1>1, <1>2, <1>3, <1>6, <1>7, GroupGrown
  <2>2. Growing(groups, free, bag)'
    BY <1>1, <2>1, SameGrowth
  <2> QED
    BY <2>2 DEF GroupsGrow
<1>9. TypeOK'
  <2>1. groups \in Seq(SUBSET Tasks(w)) /\ free \subseteq Tasks(w) /\ x \in Tasks(w)
    BY <1>2, <1>7 DEF TypeOK
  <2>2. groups[Len(groups)] \cup {x} \in SUBSET Tasks(w) /\ Len(groups) \in DOMAIN groups
    BY <1>4, <2>1
  <2>3. groups' \in Seq(SUBSET Tasks(w)) /\ free' \subseteq Tasks(w)
    BY <1>1, <2>1, <2>2
  <2> QED
    BY <1>1, <1>2, <2>3 DEF TypeOK
<1>10. InputsFit' /\ NodesDisjoint' /\ FasterFirst' /\ EdgesForward'
  BY <1>1, SameSchedule
<1>11. PhaseFitsBag' /\ PlacedOnce'
  BY <1>1 DEF CInv, PhaseFitsBag, PlacedOnce, Unplaced
<1>12. GroupsDivide' /\ GroupsMatched' /\ ThrowsForEdge'
  BY <1>1 DEF GroupsDivide, GroupsMatched, ThrowsForEdge
<1> QED
  BY <1>8, <1>9, <1>10, <1>11, <1>12 DEF CInv

LEMMA FinishGroupsKeepsCInv == CInv /\ FinishGroups => CInv'
<1> SUFFICES ASSUME CInv, FinishGroups PROVE CInv'
  OBVIOUS
<1>1. /\ phase = "group" /\ bag <= Len(bags)
      /\ AllGroupsFull \/ free = {}
      /\ phase' = IF AllGroupsFull /\ free = {} THEN "match" ELSE "internal_bug"
      /\ UNCHANGED <<algorithm, bags, w, s, bag, groups, free, nodes, pending>>
  BY DEF FinishGroups, Grouping
<1>2. TypeOK /\ InputsFit /\ bags \in Seq(TaskBag) /\ bag \in 1 .. Len(bags)
  BY <1>1 DEF CInv, TypeOK, InputsFit
<1>3. Growing(groups, free, bag)
  BY <1>1 DEF CInv, GroupsGrow
<1>4. AllGroupsFull <=> /\ Len(groups) = NumGroups(bag)
                        /\ groups # << >> => Cardinality(Last(groups)) >= GroupSize(bag, Len(groups))
  BY DEF AllGroupsFull, LastGroupFull
<1>5. free = {} /\ AllGroupsFull /\ DividesBag(groups, bag)
  BY <1>1, <1>2, <1>3, <1>4, GroupsFinished
<1>6. phase' = "match"
  BY <1>1, <1>5
<1>7. GroupsDivide'
  BY <1>1, <1>5, SameDivision DEF GroupsDivide
<1>8. TypeOK'
  BY <1>1, <1>2, <1>6 DEF TypeOK
<1>9. InputsFit' /\ NodesDisjoint' /\ FasterFirst' /\ EdgesForward'
  BY <1>1, SameSchedule
<1>10. PhaseFitsBag' /\ PlacedOnce'
  BY <1>1, <1>6 DEF CInv, PhaseFitsBag, PlacedOnce, Unplaced
<1>11. GroupsGrow' /\ GroupsMatched' /\ ThrowsForEdge'
  BY <1>6 DEF GroupsGrow, GroupsMatched, ThrowsForEdge
<1> QED
  BY <1>7, <1>8, <1>9, <1>10, <1>11 DEF CInv

\* Both functions divide the bag, RBCA at once.
LEMMA FormRuntimeGroupsKeepsCInv == CInv /\ FormRuntimeGroups => CInv'
<1> SUFFICES ASSUME CInv, FormRuntimeGroups PROVE CInv'
  OBVIOUS
<1>1. /\ phase = "group" /\ bag <= Len(bags)
      /\ groups' = RuntimeBalancedGroups(bag) /\ phase' = "match"
      /\ UNCHANGED <<algorithm, bags, w, s, bag, free, nodes, pending>>
  BY DEF FormRuntimeGroups, Grouping
<1>2. TypeOK /\ InputsFit /\ bags \in Seq(TaskBag) /\ bag \in 1 .. Len(bags)
  BY <1>1 DEF CInv, TypeOK, InputsFit
<1>3. DividesBag(groups', bag)
  BY <1>1, <1>2, RuntimeGroupsProperty
<1>4. GroupsDivide'
  BY <1>1, <1>3, SameDivision DEF GroupsDivide
<1>5. TypeOK'
  <2>1. groups' \in Seq(SUBSET IdsOf(bags, bag))
    BY <1>3 DEF DividesBag
  <2>2. IdsOf(bags, bag) \subseteq Tasks(w)
    BY <1>2, BagAtHand
  <2>3. groups' \in Seq(SUBSET Tasks(w))
    BY <2>1, <2>2
  <2> QED
    BY <1>1, <1>2, <2>3 DEF TypeOK
<1>6. InputsFit' /\ NodesDisjoint' /\ FasterFirst' /\ EdgesForward'
  BY <1>1, SameSchedule
<1>7. PhaseFitsBag' /\ PlacedOnce'
  BY <1>1 DEF CInv, PhaseFitsBag, PlacedOnce, Unplaced
<1>8. GroupsGrow' /\ GroupsMatched' /\ ThrowsForEdge'
  BY <1>1 DEF GroupsGrow, GroupsMatched, ThrowsForEdge
<1> QED
  BY <1>4, <1>5, <1>6, <1>7, <1>8 DEF CInv

LEMMA DivideByZeroKeepsCInv == CInv /\ DivideByZero => CInv'
<1> SUFFICES ASSUME CInv, DivideByZero PROVE CInv'
  OBVIOUS
<1>1. /\ phase = "group" /\ phase' = "crash"
      /\ UNCHANGED <<algorithm, bags, w, s, bag, groups, free, nodes, pending>>
  BY DEF DivideByZero, Grouping
<1>2. TypeOK' /\ PhaseFitsBag' /\ PlacedOnce'
  BY <1>1 DEF CInv, TypeOK, Outcomes, PhaseFitsBag, PlacedOnce, Unplaced
<1>3. InputsFit' /\ NodesDisjoint' /\ FasterFirst' /\ EdgesForward'
  BY <1>1, SameSchedule
<1>4. GroupsGrow' /\ GroupsDivide' /\ GroupsMatched' /\ ThrowsForEdge'
  BY <1>1 DEF GroupsGrow, GroupsDivide, GroupsMatched, ThrowsForEdge
<1> QED
  BY <1>2, <1>3, <1>4 DEF CInv

----------------------------------------------------------------------------
LEMMA WorkloadIsSum == ASSUME NEW A PROVE Workload(A) = SumOver(w.workload, A)
BY DEF Workload, SumOver

LEMMA SortGroupsKeepsCInv == CInv /\ SortGroups => CInv'
<1> SUFFICES ASSUME CInv, SortGroups PROVE CInv'
  OBVIOUS
<1> DEFINE l == Len(groups)
<1>1. /\ phase = "match" /\ nodes' \in NodeOrders /\ groups' \in GroupOrders
      /\ pending' = groups' /\ phase' = "insert"
      /\ UNCHANGED <<algorithm, bags, w, s, bag, free>>
  BY DEF SortGroups
<1>2. TypeOK /\ InputsFit /\ bags \in Seq(TaskBag) /\ bag \in 1 .. Len(bags)
  BY <1>1 DEF CInv, TypeOK, InputsFit, PhaseFitsBag
<1>3. DividesBag(groups, bag)
  BY <1>1 DEF CInv, GroupsDivide
<1>4. l \in Nat
  BY <1>3 DEF DividesBag
<1>5. PICK p \in Bijection(1 .. l, 1 .. l) :
          /\ groups' = [i \in 1 .. l |-> groups[p[i]]]
          /\ \A i, j \in 1 .. l : i < j => Workload(groups[p[i]]) >= Workload(groups[p[j]])
  BY <1>1 DEF GroupOrders
<1>6. /\ \A i \in 1 .. l : p[i] \in 1 .. l
      /\ \A i, j \in 1 .. l : p[i] = p[j] => i = j
      /\ \A j \in 1 .. l : \E i \in 1 .. l : p[i] = j
  BY DEF Bijection, Injection, IsInjective, Surjection
<1>7. DividesBag(groups', bag)
  <2>1. /\ groups \in Seq(SUBSET IdsOf(bags, bag)) /\ l = NumGroups(bag)
        /\ \A t \in IdsOf(bags, bag) : \E g \in 1 .. l : t \in groups[g]
        /\ \A g, h \in 1 .. l : g # h => groups[g] \cap groups[h] = {}
        /\ \A g \in 1 .. l :
               groups[g] # {} /\ Cardinality(groups[g]) - (NumTasks(bag) \div NumGroups(bag)) \in {0, 1}
    BY <1>3 DEF DividesBag
  <2> HIDE DEF l
  <2>2. \A g \in 1 .. l : groups'[g] = groups[p[g]]
    BY <1>5
  <2>3. groups' \in Seq(SUBSET IdsOf(bags, bag)) /\ Len(groups') = l
    <3>1. \A g \in 1 .. l : groups[g] \in SUBSET IdsOf(bags, bag)
      BY <2>1 DEF l
    <3>2. groups' \in [1 .. l -> SUBSET IdsOf(bags, bag)]
      BY <1>5, <1>6, <3>1
    <3> QED
      BY <1>4, <3>2
  <2>4. ASSUME NEW t \in IdsOf(bags, bag) PROVE \E g \in 1 .. l : t \in groups'[g]
    <3>1. PICK h \in 1 .. l : t \in groups[h]
      BY <2>1
    <3>2. PICK g \in 1 .. l : p[g] = h
      BY <1>6 DEF l
    <3> QED
      BY <2>2, <3>1, <3>2
  <2>5. \A g, h \in 1 .. l : g # h => groups'[g] \cap groups'[h] = {}
    <3> SUFFICES ASSUME NEW g \in 1 .. l, NEW h \in 1 .. l, g # h
                 PROVE  groups'[g] \cap groups'[h] = {}
      OBVIOUS
    <3>1. p[g] \in 1 .. l /\ p[h] \in 1 .. l /\ p[g] # p[h]
      BY <1>6 DEF l
    <3>2. groups[p[g]] \cap groups[p[h]] = {}
      BY <2>1, <3>1
    <3> QED
      BY <2>2, <3>2
  <2>6. \A g \in 1 .. l :
            groups'[g] # {} /\ Cardinality(groups'[g]) - (NumTasks(bag) \div NumGroups(bag)) \in {0, 1}
    <3> SUFFICES ASSUME NEW g \in 1 .. l
                 PROVE  /\ groups'[g] # {}
                        /\ Cardinality(groups'[g]) - (NumTasks(bag) \div NumGroups(bag)) \in {0, 1}
      OBVIOUS
    <3>1. p[g] \in 1 .. l /\ groups'[g] = groups[p[g]]
      BY <1>6, <2>2 DEF l
    <3>2. /\ groups[p[g]] # {}
          /\ Cardinality(groups[p[g]]) - (NumTasks(bag) \div NumGroups(bag)) \in {0, 1}
      BY <2>1, <3>1
    <3> QED
      BY <3>1, <3>2
  <2> QED
    BY <2>1, <2>3, <2>4, <2>5, <2>6 DEF DividesBag
<1>8. Len(groups') = l /\ \A i \in 1 .. l : groups'[i] = groups[p[i]]
  BY <1>4, <1>5
<1> HIDE DEF l
<1>9. TypeOK'
  <2>1. groups' \in Seq(SUBSET IdsOf(bags, bag)) /\ IdsOf(bags, bag) \subseteq Tasks(w)
    BY <1>2, <1>7, BagAtHand DEF DividesBag
  <2>2. groups' \in Seq(SUBSET Tasks(w))
    BY <2>1
  <2>3. nodes' \in Bijection(1 .. NumNodes, Nodes)
    BY <1>1 DEF NodeOrders
  <2> QED
    BY <1>1, <1>2, <2>2, <2>3 DEF TypeOK
<1>10. InputsFit' /\ NodesDisjoint' /\ FasterFirst' /\ EdgesForward'
  BY <1>1, SameSchedule
<1>11. PlacedOnce'
  <2>1. Unplaced = {t \in Tasks(w) : t >= FirstId(bags, bag)}
    BY <1>1 DEF Unplaced
  <2>2. Unplaced' = {t \in Tasks(w) : \/ \E g \in 1 .. Len(groups') : t \in groups'[g]
                                     \/ t >= FirstId(bags, bag + 1)}
    BY <1>1 DEF Unplaced
  <2>3. ASSUME NEW t \in Tasks(w)
        PROVE  t \in IdsOf(bags, bag) <=> \E g \in 1 .. Len(groups') : t \in groups'[g]
    BY <1>7 DEF DividesBag
  <2>4. /\ FirstId(bags, bag) \in Nat /\ FirstId(bags, bag + 1) \in Nat
        /\ FirstId(bags, bag) <= FirstId(bags, bag + 1)
        /\ \A t \in Tasks(w) :
               t \in IdsOf(bags, bag) <=> t >= FirstId(bags, bag) /\ ~(t >= FirstId(bags, bag + 1))
    BY <1>2, BagAtHand
  <2>5. \A t \in Tasks(w) : t \in Int
    BY DEF Tasks
  <2>6. Unplaced' = Unplaced
    BY <2>1, <2>2, <2>3, <2>4, <2>5
  <2> QED
    BY <1>1, <2>6 DEF CInv, PlacedOnce
<1>12. GroupsDivide'
  BY <1>1, <1>7, SameDivision DEF GroupsDivide
<1>13. GroupsMatched'
  <2>1. \A i, j \in 1 .. l : i < j =>
            SumOver(w.workload, groups'[i]) >= SumOver(w.workload, groups'[j])
    BY <1>5, <1>8, WorkloadIsSum
  <2> QED
    BY <1>1, <1>8, <2>1 DEF GroupsMatched
<1>14. PhaseFitsBag' /\ GroupsGrow' /\ ThrowsForEdge'
  BY <1>1 DEF CInv, PhaseFitsBag, GroupsGrow, ThrowsForEdge
<1> QED
  BY <1>9, <1>10, <1>11, <1>12, <1>13, <1>14 DEF CInv

\* The task the loop over a group has come to.
LEMMA TaskAtHand ==
    ASSUME CInv, NEW g \in 1 .. Len(pending), NEW t \in Tasks(w), IsNext(g, t)
    PROVE  /\ bag \in 1 .. Len(bags) /\ Len(pending) = Len(groups)
           /\ t \in groups[g] /\ t \in IdsOf(bags, bag) /\ t \in Unplaced
           /\ s.task[t] = << >>
           /\ g \in 1 .. NumNodes /\ nodes[g] \in Nodes
           /\ \A h \in 1 .. Len(pending) : t \in groups[h] => h = g
<1>1. phase = "insert" /\ t \in pending[g]
  BY DEF IsNext
<1>2. /\ TypeOK /\ InputsFit /\ bags \in Seq(TaskBag)
      /\ bag \in 1 .. Len(bags) /\ DividesBag(groups, bag)
      /\ Len(pending) = Len(groups) /\ nodes \in NodeOrders
      /\ \A h \in 1 .. Len(groups) : pending[h] \subseteq groups[h]
  BY <1>1 DEF CInv, TypeOK, InputsFit, PhaseFitsBag, GroupsDivide, GroupsMatched
<1>3. t \in groups[g] /\ t \in IdsOf(bags, bag)
  BY <1>1, <1>2 DEF DividesBag
<1>4. t \in Unplaced
  BY <1>1 DEF Unplaced
<1>5. s.task[t] = << >>
  <2>1. Len(s.task[t]) = 0 /\ s.task[t] \in Seq(Interval)
    BY <1>2, <1>4 DEF CInv, PlacedOnce, TypeOK, Schedules
  <2> QED
    BY <2>1
<1>6. g \in 1 .. NumNodes
  <2>1. Len(groups) = NumGroups(bag) /\ NumGroups(bag) \in Nat /\ NumGroups(bag) <= NumNodes
    BY <1>2, NumGroupsProperty DEF DividesBag
  <2>2. NumNodes \in Nat
    BY ClusterAssumption
  <2> QED
    BY <1>2, <2>1, <2>2
<1>7. nodes[g] \in Nodes
  BY <1>2, <1>6 DEF NodeOrders, Bijection, Injection
<1>8. \A h \in 1 .. Len(pending) : t \in groups[h] => h = g
  BY <1>2, <1>3 DEF DividesBag
<1> QED
  BY <1>2, <1>3, <1>4, <1>5, <1>6, <1>7, <1>8

LEMMA InsertTaskKeepsCInv ==
    ASSUME CInv, NEW g \in 1 .. Len(pending), NEW t \in Tasks(w), InsertTask(g, t)
    PROVE  CInv'
<1> DEFINE n == nodes[g]
<1>1. /\ IsNext(g, t) /\ phase = "insert" /\ PredecessorsScheduled(w, s, t)
      /\ s' = InsertIntoNode(w, s, t, n)
      /\ pending' = [pending EXCEPT ![g] = @ \ {t}]
      /\ UNCHANGED <<algorithm, bags, w, bag, groups, free, nodes, phase>>
  BY DEF InsertTask, IsNext
<1>2. /\ bag \in 1 .. Len(bags) /\ Len(pending) = Len(groups)
      /\ t \in groups[g] /\ t \in IdsOf(bags, bag) /\ t \in Unplaced
      /\ s.task[t] = << >>
      /\ n \in Nodes
      /\ \A h \in 1 .. Len(pending) : t \in groups[h] => h = g
  BY <1>1, TaskAtHand
<1>3. /\ TypeOK /\ InputsFit /\ IsWorkflow(w) /\ s \in Schedules(w) /\ bags \in Seq(TaskBag)
      /\ pending \in Seq(SUBSET Tasks(w))
      /\ \A m \in Nodes : Disjoint(s.node[m])
      /\ w.deps \subseteq Tasks(w) \X Tasks(w)
  BY DEF CInv, TypeOK, InputsFit, NodesDisjoint, IsWorkflow
<1> HIDE DEF n
<1>4. /\ s' \in Schedules(w)
      /\ s'.useMemory = s.useMemory
      /\ \A m \in Nodes : Disjoint(s'.node[m])
  <2> DEFINE r == InsertIntoNode(w, s, t, n)
  <2>1. /\ r \in Schedules(w)
        /\ r.useMemory = s.useMemory
        /\ r.original = Append(s.original, t)
        /\ r.task = [s.task EXCEPT ![t] = Append(s.task[t], NewInterval(w, s, t, n))]
        /\ r.node = [s.node EXCEPT ![n] =
                        InsertAt(s.node[n], SlotOn(w, s, t, n).at, NewInterval(w, s, t, n))]
        /\ \A m \in Nodes : Disjoint(r.node[m])
    BY <1>2, <1>3, InsertIntoNodeProperties
  <2> HIDE DEF r
  <2>2. s' = r
    BY <1>1 DEF r
  <2> QED
    BY <2>1, <2>2
<1>5. ASSUME NEW u \in Tasks(w)
      PROVE  /\ Scheduled(s', u) <=> Scheduled(s, u) \/ u = t
             /\ u # t => s'.task[u] = s.task[u]
             /\ Len(s'.task[t]) = Len(s.task[t]) + 1
             /\ \A k \in Indices(s'.task[u]) :
                    \/ k \in Indices(s.task[u]) /\ s'.task[u][k] = s.task[u][k]
                    \/ u = t /\ s'.task[u][k].node = n
  <2> DEFINE r == InsertIntoNode(w, s, t, n)
  <2>1. /\ Scheduled(r, u) <=> Scheduled(s, u) \/ u = t
        /\ u # t => r.task[u] = s.task[u]
        /\ Len(r.task[t]) = Len(s.task[t]) + 1
        /\ \A k \in Indices(r.task[u]) :
               \/ k \in Indices(s.task[u]) /\ r.task[u][k] = s.task[u][k]
               \/ u = t /\ r.task[u][k].node = n
    <3>1. IsWorkflow(w) /\ s \in Schedules(w) /\ \A m \in Nodes : Disjoint(s.node[m])
      BY <1>3
    <3>2. n \in Nodes
      BY <1>2
    <3> HIDE DEF r
    <3> QED
      BY <3>1, <3>2, InsertIntoNodeIntervals DEF r
  <2> HIDE DEF r
  <2>2. s' = r
    BY <1>1 DEF r
  <2> QED
    BY <2>1, <2>2
<1>6. Len(s'.task[t]) = 1 /\ s'.task[t][1].node = n
  <2>1. Len(s'.task[t]) = 1
    BY <1>2, <1>5
  <2>2. 1 \in Indices(s'.task[t]) /\ 1 \notin Indices(s.task[t])
    BY <1>2, <2>1 DEF Indices
  <2> QED
    BY <1>5, <2>1, <2>2
<1>7. /\ pending' \in Seq(SUBSET Tasks(w)) /\ Len(pending') = Len(pending)
      /\ pending'[g] = pending[g] \ {t}
      /\ \A h \in 1 .. Len(pending) : h # g => pending'[h] = pending[h]
  <2>1. g \in DOMAIN pending /\ DOMAIN pending = 1 .. Len(pending)
    BY <1>3
  <2>2. pending[g] \ {t} \in SUBSET Tasks(w)
    BY <1>3
  <2>3. pending' = [pending EXCEPT ![g] = pending[g] \ {t}]
    BY <1>1
  <2> QED
    BY <1>3, <2>1, <2>2, <2>3
<1>8. \A h \in 1 .. Len(groups) : pending[h] \subseteq groups[h]
  BY <1>1 DEF CInv, GroupsMatched
<1>9. TypeOK'
  BY <1>1, <1>3, <1>4, <1>7 DEF TypeOK
<1>10. InputsFit' /\ NodesDisjoint' /\ PhaseFitsBag'
  BY <1>1, <1>3, <1>4 DEF CInv, InputsFit, NodesDisjoint, PhaseFitsBag
<1>11. PlacedOnce'
  <2>1. ASSUME NEW u \in Tasks(w) PROVE u \in Unplaced' <=> u \in Unplaced /\ u # t
    <3>1. ~(t >= FirstId(bags, bag + 1))
      BY <1>2, <1>3, BagAtHand
    <3>2. u # t => \A h \in 1 .. Len(pending) : u \in pending'[h] <=> u \in pending[h]
      BY <1>7
    <3>3. \A h \in 1 .. Len(pending) : t \notin pending'[h]
      BY <1>2, <1>7, <1>8
    <3> QED
      BY <1>1, <1>7, <3>1, <3>2, <3>3 DEF Unplaced
  <2>2. \A u \in Tasks(w) : Len(s.task[u]) = IF u \in Unplaced THEN 0 ELSE 1
    BY DEF CInv, PlacedOnce
  <2>3. \A u \in Tasks(w) : Len(s'.task[u]) = IF u \in Unplaced' THEN 0 ELSE 1
    BY <1>5, <1>6, <2>1, <2>2
  <2> QED
    BY <1>1, <2>3 DEF PlacedOnce
<1>12. GroupsDivide'
  BY <1>1, SameDivision DEF CInv, GroupsDivide
<1>13. GroupsMatched'
  <2>1. /\ nodes \in NodeOrders
        /\ \A h, i \in 1 .. Len(groups) : h < i =>
               SumOver(w.workload, groups[h]) >= SumOver(w.workload, groups[i])
        /\ \A h \in 1 .. Len(groups) : \A u \in groups[h] :
               u \notin pending[h] => s.task[u][1].node = nodes[h]
    BY <1>1 DEF CInv, GroupsMatched
  <2>2. \A h \in 1 .. Len(groups) : pending'[h] \subseteq groups[h]
    BY <1>2, <1>7, <1>8
  <2>3. ASSUME NEW h \in 1 .. Len(groups), NEW u \in groups[h], u \notin pending'[h]
        PROVE  s'.task[u][1].node = nodes[h]
    <3>1. CASE u = t
      <4>1. h = g
        BY <1>2, <3>1
      <4> QED
        BY <1>6, <3>1, <4>1 DEF n
    <3>2. CASE u # t
      <4>1. u \in Tasks(w)
        <5>1. groups \in Seq(SUBSET Tasks(w))
          BY <1>3 DEF TypeOK
        <5> QED
          BY <5>1
      <4>2. u \notin pending[h]
        BY <1>2, <1>7, <2>3, <3>2
      <4>3. s'.task[u] = s.task[u]
        BY <1>5, <3>2, <4>1
      <4> QED
        BY <2>1, <4>2, <4>3
    <3> QED
      BY <3>1, <3>2
  <2> QED
    BY <1>1, <1>2, <1>7, <2>1, <2>2, <2>3 DEF GroupsMatched
<1>14. FasterFirst'
  <2>1. ASSUME NEW b \in 1 .. bag - 1, NEW m PROVE WorkOn(b, m)' = WorkOn(b, m)
    <3>1. b \in 1 .. Len(bags) /\ bag \in Int
      BY <1>2
    <3>2. IdsOf(bags, b) \subseteq Tasks(w)
      BY <1>3, <3>1, BagAtHand
    <3>3. t \notin IdsOf(bags, b)
      <4>1. b # bag
        BY <3>1
      <4> QED
        BY <1>2, <1>3, <3>1, <4>1, BagOfProperty
    <3>4. \A u \in IdsOf(bags, b) : s'.task[u] = s.task[u]
      BY <1>5, <3>2, <3>3
    <3>5. OnNodeOf(b, m)' = OnNodeOf(b, m)
      BY <1>1, <3>4 DEF OnNodeOf
    <3> QED
      BY <1>1, <3>5 DEF WorkOn
  <2> QED
    BY <1>1, <2>1 DEF CInv, FasterFirst
<1>15. EdgesForward'
  <2> SUFFICES ASSUME NEW e \in w.deps, Scheduled(s', e[2])
               PROVE  BagOf(bags, e[1]) <= BagOf(bags, e[2])
    BY <1>1 DEF EdgesForward
  <2>1. e[1] \in Tasks(w) /\ e[2] \in Tasks(w) /\ e = <<e[1], e[2]>>
    BY <1>3
  <2>2. CASE e[2] = t
    <3>1. e[1] \in Predecessors(w, t)
      BY <2>1, <2>2 DEF Predecessors
    <3>2. Scheduled(s, e[1])
      BY <1>1, <3>1 DEF PredecessorsScheduled
    <3>3. e[1] \notin Unplaced
      <4>1. Len(s.task[e[1]]) # 0
        BY <1>3, <2>1, <3>2 DEF Scheduled, Schedules
      <4> QED
        BY <2>1, <4>1 DEF CInv, PlacedOnce
    <3>4. ~(e[1] >= FirstId(bags, bag + 1))
      BY <1>1, <2>1, <3>3 DEF Unplaced
    <3>5. FirstId(bags, bag + 1) \in Nat /\ e[1] \in Int
      BY <1>2, <1>3, <2>1, BagAtHand DEF Tasks
    <3>6. BagOf(bags, e[1]) <= bag
      BY <1>2, <1>3, <2>1, <3>4, <3>5, BagOfOrder
    <3>7. BagOf(bags, t) = bag
      BY <1>2, <1>3, BagOfProperty
    <3> QED
      BY <2>2, <3>6, <3>7
  <2>3. CASE e[2] # t
    <3>1. Scheduled(s, e[2])
      BY <1>5, <2>1, <2>3
    <3> QED
      BY <3>1 DEF CInv, EdgesForward
  <2> QED
    BY <2>2, <2>3
<1>16. GroupsGrow' /\ ThrowsForEdge'
  BY <1>1 DEF GroupsGrow, ThrowsForEdge
<1> QED
  BY <1>9, <1>10, <1>11, <1>12, <1>13, <1>14, <1>15, <1>16 DEF CInv

LEMMA ThrowKeepsCInv ==
    ASSUME CInv, NEW g \in 1 .. Len(pending), NEW t \in Tasks(w), Throw(g, t)
    PROVE  CInv'
<1>1. /\ IsNext(g, t) /\ phase = "insert" /\ ~PredecessorsScheduled(w, s, t)
      /\ phase' = "out_of_range"
      /\ UNCHANGED <<algorithm, bags, w, s, bag, groups, free, nodes, pending>>
  BY DEF Throw, IsNext
<1>2. bag \in 1 .. Len(bags) /\ t \in IdsOf(bags, bag)
  BY <1>1, TaskAtHand
<1>3. TypeOK /\ InputsFit /\ bags \in Seq(TaskBag) /\ DividesBag(groups, bag)
  BY <1>1 DEF CInv, InputsFit, GroupsDivide
<1>4. PICK p \in Predecessors(w, t) : ~Scheduled(s, p)
  BY <1>1 DEF PredecessorsScheduled
<1>5. p \in Tasks(w) /\ <<p, t>> \in w.deps
  BY DEF Predecessors
<1>6. p \in Unplaced
  <2>1. Len(s.task[p]) = 0
    BY <1>4 DEF Scheduled
  <2> QED
    BY <1>5, <2>1 DEF CInv, PlacedOnce
<1>7. p >= FirstId(bags, bag)
  <2>1. /\ FirstId(bags, bag) \in Nat /\ FirstId(bags, bag + 1) \in Nat
        /\ FirstId(bags, bag) <= FirstId(bags, bag + 1)
        /\ p \in IdsOf(bags, bag) => p >= FirstId(bags, bag)
    BY <1>2, <1>3, <1>5, BagAtHand
  <2>2. (\E h \in 1 .. Len(pending) : p \in pending[h]) \/ p >= FirstId(bags, bag + 1)
    BY <1>1, <1>6 DEF Unplaced
  <2>3. ASSUME NEW h \in 1 .. Len(pending), p \in pending[h] PROVE p \in IdsOf(bags, bag)
    <3>1. Len(pending) = Len(groups) /\ pending[h] \subseteq groups[h]
      BY <1>1 DEF CInv, GroupsMatched
    <3> QED
      BY <1>3, <2>3, <3>1 DEF DividesBag
  <2>4. p \in Int
    BY <1>5 DEF Tasks
  <2> QED
    BY <2>1, <2>2, <2>3, <2>4
<1>8. ThrowsForEdge'
  <2>1. BagOf(bags, p) >= bag
    BY <1>2, <1>3, <1>5, <1>7, BagOfOrder
  <2>2. BagOf(bags, t) = bag
    BY <1>2, <1>3, BagOfProperty
  <2>3. <<p, t>>[1] = p /\ <<p, t>>[2] = t
    OBVIOUS
  <2>4. \E e \in w.deps : BagOf(bags, e[1]) >= BagOf(bags, e[2])
    BY <1>5, <2>1, <2>2, <2>3
  <2> QED
    BY <1>1, <2>4 DEF ThrowsForEdge
<1>9. InputsFit' /\ NodesDisjoint' /\ FasterFirst' /\ EdgesForward'
  BY <1>1, SameSchedule
<1>10. TypeOK' /\ PhaseFitsBag' /\ PlacedOnce'
  BY <1>1 DEF CInv, TypeOK, Outcomes, PhaseFitsBag, PlacedOnce, Unplaced
<1>11. GroupsDivide'
  BY <1>1, SameDivision DEF CInv, GroupsDivide
<1>12. GroupsGrow' /\ GroupsMatched'
  BY <1>1 DEF CInv, GroupsGrow, GroupsMatched
<1> QED
  BY <1>8, <1>9, <1>10, <1>11, <1>12 DEF CInv

\* Once a bag is finished its groups are on the nodes they were matched with.
LEMMA FinishedGroups ==
    ASSUME CInv, phase = "insert", \A g \in 1 .. Len(pending) : pending[g] = {}
    PROVE  /\ \A n \in Nodes : \E i \in 1 .. NumNodes : nodes[i] = n
           /\ \A g \in 1 .. Len(groups) : OnNodeOf(bag, nodes[g]) = groups[g]
           /\ \A i \in 1 .. NumNodes : i > Len(groups) => OnNodeOf(bag, nodes[i]) = {}
           /\ Len(groups) <= NumNodes /\ Len(groups) \in Nat
<1>1. /\ TypeOK /\ InputsFit /\ bags \in Seq(TaskBag)
      /\ bag \in 1 .. Len(bags) /\ DividesBag(groups, bag)
      /\ Len(pending) = Len(groups) /\ nodes \in NodeOrders
      /\ \A g \in 1 .. Len(groups) : \A t \in groups[g] :
             t \notin pending[g] => s.task[t][1].node = nodes[g]
  BY DEF CInv, TypeOK, InputsFit, PhaseFitsBag, GroupsDivide, GroupsMatched
<1>2. /\ nodes \in [1 .. NumNodes -> Nodes]
      /\ \A i, j \in 1 .. NumNodes : nodes[i] = nodes[j] => i = j
      /\ \A n \in Nodes : \E i \in 1 .. NumNodes : nodes[i] = n
  BY <1>1 DEF NodeOrders, Bijection, Injection, IsInjective, Surjection
<1>3. Len(groups) <= NumNodes /\ Len(groups) \in Nat /\ NumNodes \in Nat
  <2>1. Len(groups) = NumGroups(bag) /\ NumGroups(bag) \in Nat /\ NumGroups(bag) <= NumNodes
    BY <1>1, NumGroupsProperty DEF DividesBag
  <2> QED
    BY <2>1, ClusterAssumption
<1>4. ASSUME NEW t \in IdsOf(bags, bag)
      PROVE  Indices(s.task[t]) = {1}
  <2>1. t \in Tasks(w) /\ ~(t >= FirstId(bags, bag + 1))
    BY <1>1, BagAtHand
  <2>2. t \notin Unplaced
    BY <2>1 DEF Unplaced
  <2>3. Len(s.task[t]) = 1
    BY <2>1, <2>2 DEF CInv, PlacedOnce
  <2> QED
    BY <2>3 DEF Indices
<1>5. ASSUME NEW g \in 1 .. Len(groups), NEW t \in groups[g]
      PROVE  t \in IdsOf(bags, bag) /\ s.task[t][1].node = nodes[g] /\ g \in 1 .. NumNodes
  <2>1. groups[g] \subseteq IdsOf(bags, bag)
    BY <1>1 DEF DividesBag
  <2>2. pending[g] = {}
    BY <1>1
  <2> QED
    BY <1>1, <1>3, <2>1, <2>2
<1>6. \A t \in IdsOf(bags, bag) : \E g \in 1 .. Len(groups) : t \in groups[g]
  BY <1>1 DEF DividesBag
<1>7. ASSUME NEW i \in 1 .. NumNodes, NEW t
      PROVE  t \in OnNodeOf(bag, nodes[i]) <=> i \in 1 .. Len(groups) /\ t \in groups[i]
  <2>1. t \in OnNodeOf(bag, nodes[i]) <=> t \in IdsOf(bags, bag) /\ s.task[t][1].node = nodes[i]
    BY <1>4 DEF OnNodeOf
  <2>2. ASSUME t \in IdsOf(bags, bag), s.task[t][1].node = nodes[i]
        PROVE  i \in 1 .. Len(groups) /\ t \in groups[i]
    <3>1. PICK g \in 1 .. Len(groups) : t \in groups[g]
      BY <1>6, <2>2
    <3>2. nodes[g] = nodes[i] /\ g \in 1 .. NumNodes
      BY <1>5, <2>2, <3>1
    <3>3. g = i
      BY <1>2, <3>2
    <3> QED
      BY <3>1, <3>3
  <2>3. ASSUME i \in 1 .. Len(groups), t \in groups[i]
        PROVE  t \in IdsOf(bags, bag) /\ s.task[t][1].node = nodes[i]
    BY <1>5, <2>3
  <2> QED
    BY <2>1, <2>2, <2>3
<1>8. \A g \in 1 .. Len(groups) : g \in 1 .. NumNodes
  BY <1>3
<1>9. ASSUME NEW g \in 1 .. Len(groups) PROVE OnNodeOf(bag, nodes[g]) = groups[g]
  BY <1>7, <1>8
<1>10. ASSUME NEW i \in 1 .. NumNodes, i > Len(groups) PROVE OnNodeOf(bag, nodes[i]) = {}
  <2>1. i \notin 1 .. Len(groups)
    BY <1>3, <1>10
  <2> QED
    BY <1>7, <2>1
<1> QED
  BY <1>2, <1>3, <1>9, <1>10

LEMMA NextGrowth ==
    ASSUME bags' = bags, bag' = bag + 1
    PROVE  Growing(groups, free, bag)' <=> Growing(groups', free', bag + 1)
<1>1. TasksOf(bag)' = TasksOf(bag + 1) /\ NumTasks(bag)' = NumTasks(bag + 1)
  BY DEF TasksOf, NumTasks
<1>2. NumGroups(bag)' = NumGroups(bag + 1)
  BY <1>1 DEF NumGroups
<1>3. \A g : GroupSize(bag, g)' = GroupSize(bag + 1, g)
  BY <1>1, <1>2 DEF GroupSize
<1>4. \A g : GroupStart(bag, g)' = GroupStart(bag + 1, g)
  BY <1>2, <1>3 DEF GroupStart
<1>5. GroupSize(bag, Len(groups))' = GroupSize(bag + 1, Len(groups'))
  BY <1>1, <1>2 DEF GroupSize
<1>6. GroupStart(bag, Len(groups))' = GroupStart(bag + 1, Len(groups'))
  BY <1>2, <1>3 DEF GroupStart
<1>7. Taken(groups, bag)' = Taken(groups', bag + 1)
  BY <1>6 DEF Taken
<1>8. IdsOf(bags, bag)' = IdsOf(bags, bag + 1)
  BY DEF IdsOf
<1> QED
  BY <1>1, <1>2, <1>3, <1>5, <1>7, <1>8 DEF Growing

LEMMA NextBagKeepsCInv == CInv /\ NextBag => CInv'
<1> SUFFICES ASSUME CInv, NextBag PROVE CInv'
  OBVIOUS
<1>1. /\ phase = "insert" /\ \A g \in 1 .. Len(pending) : pending[g] = {}
      /\ bag' = bag + 1 /\ groups' = << >>
      /\ free' = IF bag < Len(bags) THEN Range(TasksOf(bag + 1)) ELSE {}
      /\ nodes' = << >> /\ pending' = << >> /\ phase' = "group"
      /\ UNCHANGED <<algorithm, bags, w, s>>
  BY DEF NextBag
<1>2. /\ TypeOK /\ InputsFit /\ IsWorkflow(w) /\ bags \in Seq(TaskBag) /\ bag \in 1 .. Len(bags)
      /\ nodes \in NodeOrders
      /\ \A g, h \in 1 .. Len(groups) : g < h =>
             SumOver(w.workload, groups[g]) >= SumOver(w.workload, groups[h])
  BY <1>1 DEF CInv, TypeOK, InputsFit, PhaseFitsBag, GroupsMatched
<1>3. bag < Len(bags) => bag + 1 \in 1 .. Len(bags) /\ free' = IdsOf(bags, bag + 1)
  <2>1. bag < Len(bags) => bag + 1 \in 1 .. Len(bags)
    BY <1>2
  <2> QED
    BY <1>1, <1>2, <2>1, BagAtHand
<1>4. TypeOK'
  <2>1. free' \subseteq Tasks(w)
    <3>1. CASE bag < Len(bags)
      BY <1>2, <1>3, <3>1, BagAtHand
    <3>2. CASE ~(bag < Len(bags))
      BY <1>1, <3>2
    <3> QED
      BY <3>1, <3>2
  <2>2. bag' \in 1 .. Len(bags) + 1
    BY <1>1, <1>2
  <2>3. groups' \in Seq(SUBSET Tasks(w)) /\ pending' \in Seq(SUBSET Tasks(w))
    BY <1>1
  <2> QED
    BY <1>1, <1>2, <2>1, <2>2, <2>3 DEF TypeOK
<1>5. InputsFit' /\ NodesDisjoint' /\ PhaseFitsBag' /\ EdgesForward'
  BY <1>1 DEF CInv, InputsFit, NodesDisjoint, PhaseFitsBag, EdgesForward
<1>6. PlacedOnce'
  <2>1. Unplaced' = Unplaced
    BY <1>1 DEF Unplaced
  <2> QED
    BY <1>1, <2>1 DEF CInv, PlacedOnce
<1>7. GroupsGrow'
  <2> SUFFICES ASSUME bag' <= Len(bags') PROVE Growing(groups, free, bag)'
    BY DEF GroupsGrow
  <2>1. bag < Len(bags)
    BY <1>1, <1>2
  <2>2. Growing(groups', free', bag + 1)
    BY <1>1, <1>2, <1>3, <2>1, GrowingStarts
  <2> QED
    BY <1>1, <2>2, NextGrowth
<1>8. FasterFirst'
  <2>1. ASSUME NEW b, NEW m PROVE WorkOn(b, m)' = WorkOn(b, m)
    BY <1>1 DEF WorkOn, OnNodeOf
  <2>2. ASSUME NEW n \in Nodes, NEW m \in Nodes, WorkOn(bag, n) > WorkOn(bag, m)
        PROVE  Performance[n] >= Performance[m]
    <3>1. /\ \A x \in Nodes : \E i \in 1 .. NumNodes : nodes[i] = x
          /\ \A g \in 1 .. Len(groups) : OnNodeOf(bag, nodes[g]) = groups[g]
          /\ \A i \in 1 .. NumNodes : i > Len(groups) => OnNodeOf(bag, nodes[i]) = {}
          /\ Len(groups) <= NumNodes /\ Len(groups) \in Nat
      BY <1>1, FinishedGroups
    <3>2. PICK i \in 1 .. NumNodes : nodes[i] = n
      BY <3>1
    <3>3. PICK j \in 1 .. NumNodes : nodes[j] = m
      BY <3>1
    <3>4. ASSUME NEW x PROVE WorkOn(bag, x) \in Nat
      <4>1. OnNodeOf(bag, x) \subseteq IdsOf(bags, bag)
        BY DEF OnNodeOf
      <4>2. IsFiniteSet(IdsOf(bags, bag)) /\ IdsOf(bags, bag) \subseteq Tasks(w)
        BY <1>2, BagAtHand
      <4>3. IsFiniteSet(OnNodeOf(bag, x))
        BY <4>1, <4>2, FS_Subset
      <4>4. \A t \in OnNodeOf(bag, x) : w.workload[t] \in Nat
        BY <1>2, <4>1, <4>2 DEF IsWorkflow
      <4> QED
        BY <4>3, <4>4, SumOverNat DEF WorkOn
    <3>5. i \in 1 .. Len(groups)
      <4>1. i > Len(groups) => WorkOn(bag, n) = 0
        BY <3>1, <3>2, SumOverEmpty DEF WorkOn
      <4>2. WorkOn(bag, n) # 0
        BY <2>2, <3>4
      <4> QED
        BY <3>1, <4>1, <4>2
    <3>6. i < j
      <4>1. CASE j \in 1 .. Len(groups)
        <5>1. WorkOn(bag, n) = SumOver(w.workload, groups[i]) /\ WorkOn(bag, m) = SumOver(w.workload, groups[j])
          BY <3>1, <3>2, <3>3, <3>5, <4>1 DEF WorkOn
        <5>2. i # j
          BY <2>2, <3>2, <3>3, <3>4
        <5>3. ~(j < i)
          <6>1. j < i => WorkOn(bag, m) >= WorkOn(bag, n)
            BY <1>2, <3>5, <4>1, <5>1
          <6> QED
            BY <2>2, <3>4, <6>1
        <5> QED
          BY <5>2, <5>3
      <4>2. CASE j \notin 1 .. Len(groups)
        BY <3>1, <3>5, <4>2
      <4> QED
        BY <4>1, <4>2
    <3>7. Performance[nodes[i]] >= Performance[nodes[j]]
      BY <1>2, <3>6 DEF NodeOrders
    <3> QED
      BY <3>2, <3>3, <3>7
  <2>3. \A b \in 1 .. bag' - 1 : b \in 1 .. bag - 1 \/ b = bag
    BY <1>1, <1>2
  <2> QED
    BY <1>1, <2>1, <2>2, <2>3 DEF CInv, FasterFirst
<1>9. GroupsDivide' /\ GroupsMatched' /\ ThrowsForEdge'
  BY <1>1 DEF GroupsDivide, GroupsMatched, ThrowsForEdge
<1> QED
  BY <1>4, <1>5, <1>6, <1>7, <1>8, <1>9 DEF CInv

LEMMA ReturnKeepsCInv == CInv /\ Return => CInv'
<1> SUFFICES ASSUME CInv, Return PROVE CInv'
  OBVIOUS
<1>1. /\ phase = "group" /\ bag > Len(bags) /\ phase' = "done"
      /\ UNCHANGED <<algorithm, bags, w, s, bag, groups, free, nodes, pending>>
  BY DEF Return
<1>2. TypeOK' /\ PhaseFitsBag' /\ PlacedOnce'
  BY <1>1 DEF CInv, TypeOK, Outcomes, PhaseFitsBag, PlacedOnce, Unplaced
<1>3. InputsFit' /\ NodesDisjoint' /\ FasterFirst' /\ EdgesForward'
  BY <1>1, SameSchedule
<1>4. GroupsGrow' /\ GroupsDivide' /\ GroupsMatched' /\ ThrowsForEdge'
  BY <1>1 DEF GroupsGrow, GroupsDivide, GroupsMatched, ThrowsForEdge
<1> QED
  BY <1>2, <1>3, <1>4 DEF CInv

LEMMA StutterKeepsCInv == CInv /\ UNCHANGED vars => CInv'
<1> SUFFICES ASSUME CInv, UNCHANGED vars PROVE CInv'
  OBVIOUS
<1>1. UNCHANGED <<algorithm, bags, w, s, bag, groups, free, nodes, pending, phase>>
  BY DEF vars
<1>2. TypeOK' /\ PhaseFitsBag' /\ PlacedOnce'
  BY <1>1 DEF CInv, TypeOK, PhaseFitsBag, PlacedOnce, Unplaced
<1>3. InputsFit' /\ NodesDisjoint' /\ FasterFirst' /\ EdgesForward'
  BY <1>1, SameSchedule
<1>4. GroupsDivide'
  BY <1>1, SameDivision DEF CInv, GroupsDivide
<1>5. GroupsGrow'
  BY <1>1, SameGrowth DEF CInv, GroupsGrow
<1>6. GroupsMatched' /\ ThrowsForEdge'
  BY <1>1 DEF CInv, GroupsMatched, ThrowsForEdge
<1> QED
  BY <1>2, <1>3, <1>4, <1>5, <1>6 DEF CInv

LEMMA StepKeepsCInv == CInv /\ [Next]_vars => CInv'
<1> SUFFICES ASSUME CInv, [Next]_vars PROVE CInv'
  OBVIOUS
<1>1. CASE FormRuntimeGroups
  BY <1>1, FormRuntimeGroupsKeepsCInv
<1>2. CASE DivideByZero
  BY <1>2, DivideByZeroKeepsCInv
<1>3. CASE StartGroup
  BY <1>3, StartGroupKeepsCInv
<1>4. CASE AddToGroup
  BY <1>4, AddToGroupKeepsCInv
<1>5. CASE FinishGroups
  BY <1>5, FinishGroupsKeepsCInv
<1>6. CASE SortGroups
  BY <1>6, SortGroupsKeepsCInv
<1>7. ASSUME NEW g \in 1 .. Len(pending), NEW t \in Tasks(w), InsertTask(g, t) PROVE CInv'
  BY <1>7, InsertTaskKeepsCInv
<1>8. ASSUME NEW g \in 1 .. Len(pending), NEW t \in Tasks(w), Throw(g, t) PROVE CInv'
  BY <1>8, ThrowKeepsCInv
<1>9. CASE NextBag
  BY <1>9, NextBagKeepsCInv
<1>10. CASE Return
  BY <1>10, ReturnKeepsCInv
<1>11. CASE UNCHANGED vars
  BY <1>11, StutterKeepsCInv
<1> QED
  BY <1>1, <1>2, <1>3, <1>4, <1>5, <1>6, <1>7, <1>8, <1>9, <1>10, <1>11 DEF Next

\* The strengthened invariant holds in every reachable state of RBCA and DBCA.
THEOREM ClusteringInvariance == Spec => []CInv
<1> QED
  BY InitEstablishesCInv, StepKeepsCInv, PTL DEF Spec

\* Every variable of rbca and dbca keeps the type the code declares for it.
THEOREM ClusteringTypeCorrect == Spec => []TypeOK
<1>1. CInv => TypeOK
  BY DEF CInv
<1> QED
  BY <1>1, ClusteringInvariance, PTL
\* Before any task of a bag is placed its groups divide it, as evenly as
\* possible, and DBCA neither runs out of tasks nor has one left.
THEOREM GroupsAlwaysDivideBag == Spec => []GroupsDivideBag
<1>1. CInv => GroupsDivideBag
  <2> SUFFICES ASSUME CInv, phase \in {"match", "insert"}
               PROVE  /\ UNION Range(groups) = Range(TasksOf(bag))
                      /\ Len(groups) = NumGroups(bag)
                      /\ \A g, h \in 1 .. Len(groups) :
                             /\ groups[g] # {}
                             /\ Cardinality(groups[g]) <= Cardinality(groups[h]) + 1
                             /\ g # h => groups[g] \cap groups[h] = {}
    <3>1. CInv => phase # "internal_bug"
      BY DEF CInv, PhaseFitsBag
    <3> QED
      BY <3>1 DEF GroupsDivideBag
  <2>1. /\ InputsFit /\ bags \in Seq(TaskBag)
        /\ bag \in 1 .. Len(bags) /\ DividesBag(groups, bag)
    BY DEF CInv, TypeOK, InputsFit, PhaseFitsBag, GroupsDivide
  <2>2. /\ Range(TasksOf(bag)) = IdsOf(bags, bag) /\ IsFiniteSet(IdsOf(bags, bag))
    BY <2>1, BagAtHand
  <2>3. UNION Range(groups) = IdsOf(bags, bag)
    <3>1. \A g \in 1 .. Len(groups) : groups[g] \in SUBSET IdsOf(bags, bag)
      BY <2>1 DEF DividesBag
    <3>2. Range(groups) = {groups[g] : g \in 1 .. Len(groups)}
      BY <2>1 DEF DividesBag, Range
    <3> QED
      BY <2>1, <3>1, <3>2 DEF DividesBag
  <2>4. \A g \in 1 .. Len(groups) : Cardinality(groups[g]) \in Nat
    BY <2>1, <2>2, FS_Subset, FS_CardinalityType DEF DividesBag
  <2>5. ASSUME NEW g \in 1 .. Len(groups), NEW h \in 1 .. Len(groups)
        PROVE  Cardinality(groups[g]) <= Cardinality(groups[h]) + 1
    <3> DEFINE q == NumTasks(bag) \div NumGroups(bag)
    <3>1. g \in 1 .. NumGroups(bag)
      BY <2>1 DEF DividesBag
    <3>2. q \in Nat
      BY <2>1, <3>1, GroupSizeProperty
    <3>3. Cardinality(groups[g]) - q \in {0, 1} /\ Cardinality(groups[h]) - q \in {0, 1}
      BY <2>1 DEF DividesBag
    <3> HIDE DEF q
    <3> QED
      BY <2>4, <3>2, <3>3
  <2> QED
    BY <2>1, <2>2, <2>3, <2>5 DEF DividesBag
<1> QED
  BY <1>1, ClusteringInvariance, PTL

\* Over every finished bag a node that has more work of it than another is
\* not slower: the i-th most expensive group went to the i-th best node.
THEOREM MoreWorkAlwaysOnFasterNodes == Spec => []MoreWorkOnFasterNodes
<1>1. CInv => MoreWorkOnFasterNodes
  <2> SUFFICES ASSUME CInv, NEW b \in 1 .. bag - 1, NEW n \in Nodes, NEW m \in Nodes
               PROVE  Workload({t \in Range(TasksOf(b)) : \E k \in Indices(s.task[t]) : s.task[t][k].node = n})
                          > Workload({t \in Range(TasksOf(b)) : \E k \in Indices(s.task[t]) : s.task[t][k].node = m})
                      => Performance[n] >= Performance[m]
    BY Zenon DEF MoreWorkOnFasterNodes
  <2>1. InputsFit /\ b \in 1 .. Len(bags)
    BY DEF CInv, TypeOK, InputsFit
  <2>2. Range(TasksOf(b)) = IdsOf(bags, b)
    BY <2>1, BagAtHand
  <2>3. ASSUME NEW x
        PROVE  Workload({t \in Range(TasksOf(b)) : \E k \in Indices(s.task[t]) : s.task[t][k].node = x})
                   = WorkOn(b, x)
    BY <2>2, WorkloadIsSum DEF WorkOn, OnNodeOf
  <2>4. WorkOn(b, n) > WorkOn(b, m) => Performance[n] >= Performance[m]
    BY DEF CInv, FasterFirst
  <2> QED
    BY <2>3, <2>4
<1> QED
  BY <1>1, ClusteringInvariance, PTL

\* RBCA and DBCA throw only where a task depends on one of its own or a later
\* bag, and return a schedule only where none depends on a later bag.
THEOREM BagOrderAlwaysDecides == Spec => []BagOrderDecides
<1>1. CInv => BagOrderDecides
  <2> SUFFICES ASSUME CInv, phase = "done", NEW e \in w.deps
               PROVE  BagOf(bags, e[1]) <= BagOf(bags, e[2])
    BY DEF CInv, ThrowsForEdge, BagOrderDecides
  <2>1. TypeOK /\ InputsFit /\ bags \in Seq(TaskBag) /\ bag = Len(bags) + 1
    BY DEF CInv, TypeOK, InputsFit, PhaseFitsBag
  <2>2. e[2] \in Tasks(w)
    BY <2>1 DEF TypeOK, IsWorkflow
  <2>3. w.size = FirstId(bags, bag)
    BY <2>1 DEF InputsFit
  <2>4. w.size \in Nat
    BY <2>1 DEF TypeOK, IsWorkflow
  <2>5. ~(e[2] >= FirstId(bags, bag))
    BY <2>2, <2>3, <2>4 DEF Tasks
  <2>6. e[2] \notin Unplaced
    BY <2>5 DEF Unplaced
  <2>7. Len(s.task[e[2]]) = 1
    BY <2>2, <2>6 DEF CInv, PlacedOnce
  <2>8. Scheduled(s, e[2])
    <3>1. s.task[e[2]] \in Seq(Interval)
      BY <2>1, <2>2 DEF TypeOK, Schedules
    <3>2. \A q \in Seq(Interval) : Len(q) = 1 => q # << >>
      OBVIOUS
    <3> QED
      BY <2>7, <3>1, <3>2 DEF Scheduled
  <2> QED
    BY <2>8 DEF CInv, EdgesForward
<1> QED
  BY <1>1, ClusteringInvariance, PTL

----------------------------------------------------------------------------
\* The abstract specification of list scheduling is built from the same
\* operators as this one.
LEMMA SameOperators ==
    /\ \A useMemory : LS!NewSchedule(w, useMemory) = NewSchedule(w, useMemory)
    /\ \A t, n : LS!InsertIntoNode(w, s, t, n) = InsertIntoNode(w, s, t, n)
    /\ \A t : LS!PredecessorsScheduled(w, s, t) <=> PredecessorsScheduled(w, s, t)
    /\ LS!Tasks(w) = Tasks(w) /\ LS!Nodes = Nodes
<1>1. ASSUME NEW useMemory PROVE LS!NewSchedule(w, useMemory) = NewSchedule(w, useMemory)
  BY DEF Nodes, Tasks, NewSchedule, LS!Nodes, LS!Tasks, LS!NewSchedule
<1>2. ASSUME NEW t, NEW n PROVE LS!TaskReadyTime(w, s, t, n) = TaskReadyTime(w, s, t, n)
  BY Zenon DEF Nodes, ExactQuotient, DataTime, Tasks, Predecessors, DataTransfer, Indices, Scheduled, TransferCost, ArrivalTime, EarliestDataAvailable, TaskReadyTime, Max, Min, LS!Nodes, LS!ExactQuotient, LS!DataTime, LS!Tasks, LS!Predecessors, LS!DataTransfer, LS!Indices, LS!Scheduled, LS!TransferCost, LS!ArrivalTime, LS!EarliestDataAvailable, LS!TaskReadyTime, LS!Max, LS!Min
<1>3. ASSUME NEW t, NEW n PROVE LS!ComputationTime(w, t, n) = ComputationTime(w, t, n)
  BY Zenon DEF Nodes, ExactQuotient, Performance, WorkTime, ComputationTime, LS!Nodes, LS!ExactQuotient, LS!Performance, LS!WorkTime, LS!ComputationTime
<1>4. ASSUME NEW q, NEW ready, NEW length PROVE LS!Slot(q, ready, length) = Slot(q, ready, length)
  BY Zenon DEF Slot, FirstNotEndingBefore, FirstGapFrom, TotalFinishTime, Indices, Min, Max, Last, LS!Slot, LS!FirstNotEndingBefore, LS!FirstGapFrom, LS!TotalFinishTime, LS!Indices, LS!Min, LS!Max, LS!Last
<1>5. ASSUME NEW t, NEW n PROVE LS!SlotOn(w, s, t, n) = SlotOn(w, s, t, n)
  BY <1>2, <1>3, <1>4, Zenon DEF SlotOn, LS!SlotOn
<1>6. ASSUME NEW t, NEW n PROVE LS!NewInterval(w, s, t, n) = NewInterval(w, s, t, n)
  BY <1>3, <1>5, Zenon DEF NewInterval, LS!NewInterval
<1>7. ASSUME NEW q, NEW i, NEW e PROVE LS!InsertAt(q, i, e) = InsertAt(q, i, e)
  BY Zenon DEF InsertAt, LS!InsertAt
<1>8. ASSUME NEW t, NEW n PROVE LS!InsertIntoNode(w, s, t, n) = InsertIntoNode(w, s, t, n)
  BY <1>5, <1>6, <1>7, Zenon DEF InsertIntoNode, LS!InsertIntoNode
<1>9. ASSUME NEW t PROVE LS!PredecessorsScheduled(w, s, t) <=> PredecessorsScheduled(w, s, t)
  BY Zenon DEF PredecessorsScheduled, Predecessors, Tasks, Scheduled, LS!PredecessorsScheduled, LS!Predecessors, LS!Tasks, LS!Scheduled
<1>10. LS!Tasks(w) = Tasks(w) /\ LS!Nodes = Nodes
  BY Zenon DEF Tasks, Nodes, LS!Tasks, LS!Nodes
<1> QED
  BY <1>1, <1>8, <1>9, <1>10

LEMMA InitRefines == Init => LS!Init
BY SameOperators DEF Init, LS!Init

LEMMA StepRefines == CInv /\ [Next]_vars => [LS!Next]_LS!vars
<1> SUFFICES ASSUME CInv, [Next]_vars PROVE [LS!Next]_LS!vars
  OBVIOUS
<1>1. ASSUME NEW g \in 1 .. Len(pending), NEW t \in Tasks(w), InsertTask(g, t)
      PROVE  LS!Next
  <2>1. /\ IsNext(g, t) /\ PredecessorsScheduled(w, s, t)
        /\ s' = InsertIntoNode(w, s, t, nodes[g])
        /\ UNCHANGED w
    BY <1>1 DEF InsertTask
  <2>2. s.task[t] = << >> /\ nodes[g] \in Nodes
    BY <2>1, TaskAtHand
  <2>3. ~LS!OnNode(t, nodes[g])
    BY <2>2 DEF LS!OnNode, LS!Indices
  <2>4. LS!Place(t, nodes[g])
    BY <2>1, <2>3, SameOperators DEF LS!Place
  <2> QED
    BY <2>2, <2>4, SameOperators DEF LS!Next
<1>2. CASE FormRuntimeGroups \/ DivideByZero \/ StartGroup \/ AddToGroup \/ FinishGroups
  BY <1>2 DEF FormRuntimeGroups, DivideByZero, StartGroup, AddToGroup, FinishGroups, LS!vars
<1>3. CASE SortGroups \/ NextBag \/ Return
  BY <1>3 DEF SortGroups, NextBag, Return, LS!vars
<1>4. ASSUME NEW g, NEW t, Throw(g, t) PROVE UNCHANGED LS!vars
  BY <1>4 DEF Throw, LS!vars
<1>5. CASE UNCHANGED vars
  BY <1>5 DEF vars, LS!vars
<1> QED
  BY <1>1, <1>2, <1>3, <1>4, <1>5 DEF Next

\* RBCA and DBCA are list scheduling algorithms: every insertion is one
\* ListScheduling allows, every other step leaves the schedule alone.
THEOREM ClusteringRefinesListScheduling == Spec => ImplementsListScheduling
<1> QED
  BY ClusteringInvariance, InitRefines, StepRefines, PTL DEF Spec, LS!Spec, ImplementsListScheduling
=============================================================================
