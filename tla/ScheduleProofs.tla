--------------------------- MODULE ScheduleProofs ---------------------------
(***************************************************************************)
(* What the proofs about the algorithms rest on: maxima, minima and sums   *)
(* over finite sets; insertion into a node, with the theorem that the slot *)
(* search of a node finds a slot that is free; and what one insertion into *)
(* a schedule does, for every workflow, schedule, task and node.           *)
(***************************************************************************)
EXTENDS Schedule, TaskBags, FiniteSetTheorems, WellFoundedInduction, TLAPS

(***************************************************************************)
(* A finite, nonempty set of integers has a maximum: a minimal             *)
(* counterexample would have one more element than a set that has one.     *)
(***************************************************************************)
LEMMA MaxExists ==
    ASSUME NEW S \in SUBSET Int, S # {}, IsFiniteSet(S)
    PROVE  \E x \in S : \A y \in S : x >= y
<1> DEFINE HasMax(T) == \E x \in T : \A y \in T : x >= y
           Bad == {T \in FiniteSubsetsOf(S) : T # {} /\ ~HasMax(T)}
<1>1. SUFFICES ASSUME ~HasMax(S) PROVE FALSE
  OBVIOUS
<1>2. S \in Bad
  BY <1>1 DEF FiniteSubsetsOf
<1>3. PICK T \in Bad : \A U \in Bad : ~ (<<U, T>> \in StrictSubsetOrdering(S))
  <2>1. IsWellFoundedOn(StrictSubsetOrdering(S), FiniteSubsetsOf(S))
    BY FS_StrictSubsetOrderingWellFounded
  <2>2. Bad \subseteq FiniteSubsetsOf(S) /\ Bad # {}
    BY <1>2
  <2> QED
    BY <2>1, <2>2, WFMin
<1>4. T \subseteq S /\ IsFiniteSet(T) /\ T # {} /\ ~HasMax(T)
  BY <1>3 DEF FiniteSubsetsOf
<1>5. PICK x \in T : TRUE
  BY <1>4
<1>6. T \ {x} \in FiniteSubsetsOf(S)
  BY <1>4, FS_RemoveElement DEF FiniteSubsetsOf
<1>7. <<T \ {x}, T>> \in StrictSubsetOrdering(S)
  BY <1>4, <1>5 DEF StrictSubsetOrdering
<1>8. T \ {x} \notin Bad
  BY <1>3, <1>7
<1>9. CASE T \ {x} = {}
  <2>1. \A y \in T : y = x
    BY <1>9
  <2>2. x \in Int
    BY <1>4, <1>5
  <2> QED
    BY <1>4, <1>5, <2>1, <2>2
<1>10. CASE T \ {x} # {}
  <2>1. PICK m \in T \ {x} : \A y \in T \ {x} : m >= y
    BY <1>6, <1>8, <1>10
  <2>2. x \in Int /\ m \in Int /\ \A y \in T : y \in Int
    BY <1>4, <1>5, <2>1
  <2>3. CASE m >= x
    BY <1>4, <2>1, <2>2, <2>3
  <2>4. CASE x >= m
    BY <1>4, <1>5, <2>1, <2>2, <2>4
  <2> QED
    BY <2>2, <2>3, <2>4
<1> QED
  BY <1>9, <1>10

LEMMA MaxProperty ==
    ASSUME NEW S \in SUBSET Int, S # {}, IsFiniteSet(S)
    PROVE  Max(S) \in S /\ \A y \in S : Max(S) >= y
BY MaxExists DEF Max

LEMMA MaxOfTwo ==
    ASSUME NEW a \in Int, NEW b \in Int
    PROVE  Max({a, b}) \in {a, b} /\ Max({a, b}) >= a /\ Max({a, b}) >= b
<1> DEFINE S == {a, b}
<1>1. IsFiniteSet({a}) /\ IsFiniteSet({b})
  BY FS_Singleton
<1>2. IsFiniteSet({a} \cup {b})
  BY <1>1, FS_Union
<1>3. S = {a} \cup {b}
  OBVIOUS
<1>4. S \in SUBSET Int /\ S # {} /\ IsFiniteSet(S) /\ a \in S /\ b \in S
  BY <1>2, <1>3
<1> HIDE DEF S
<1>5. Max(S) \in S /\ \A y \in S : Max(S) >= y
  BY <1>4, MaxProperty
<1> QED
  BY <1>4, <1>5 DEF S

LEMMA ImageFinite ==
    ASSUME NEW S, IsFiniteSet(S), NEW f, DOMAIN f = S
    PROVE  IsFiniteSet({f[x] : x \in S})
<1> DEFINE T == {f[x] : x \in S}
           g == [x \in S |-> f[x]]
<1>1. g \in Surjection(S, T)
  BY DEF Surjection
<1> QED
  BY <1>1, FS_Surjection

LEMMA MinExists ==
    ASSUME NEW S \in SUBSET Int, S # {}, IsFiniteSet(S)
    PROVE  \E x \in S : \A y \in S : x =< y
<1> DEFINE f == [x \in S |-> -x]
           T == {f[x] : x \in S}
<1>1. T \in SUBSET Int /\ T # {} /\ IsFiniteSet(T)
  <2>1. \A x \in S : f[x] \in Int
    OBVIOUS
  <2>2. IsFiniteSet(T)
    <3> HIDE DEF f
    <3>1. DOMAIN f = S
      BY DEF f
    <3> QED
      BY <3>1, ImageFinite
  <2> QED
    BY <2>1, <2>2
<1>2. PICK m \in T : \A y \in T : m >= y
  BY <1>1, MaxExists
<1>3. PICK x \in S : m = -x
  BY <1>2
<1>4. \A y \in S : -x >= -y
  <2> SUFFICES ASSUME NEW y \in S PROVE -x >= -y
    OBVIOUS
  <2>1. f[y] \in T /\ f[y] = -y
    OBVIOUS
  <2> QED
    BY <1>2, <1>3, <2>1
<1>5. \A y \in S : y \in Int /\ x \in Int
  OBVIOUS
<1> QED
  BY <1>4, <1>5

LEMMA MinProperty ==
    ASSUME NEW S \in SUBSET Int, S # {}, IsFiniteSet(S)
    PROVE  Min(S) \in S /\ \A y \in S : Min(S) =< y
BY MinExists DEF Min

LEMMA MinOfTwo ==
    ASSUME NEW a \in Int, NEW b \in Int
    PROVE  Min({a, b}) \in {a, b} /\ Min({a, b}) <= a /\ Min({a, b}) <= b
<1> DEFINE S == {a, b}
<1>1. IsFiniteSet({a}) /\ IsFiniteSet({b})
  BY FS_Singleton
<1>2. IsFiniteSet({a} \cup {b})
  BY <1>1, FS_Union
<1>3. S = {a} \cup {b}
  OBVIOUS
<1>4. S \in SUBSET Int /\ S # {} /\ IsFiniteSet(S)
  BY <1>2, <1>3
<1>5. a \in S /\ b \in S
  OBVIOUS
<1> HIDE DEF S
<1>6. Min(S) \in S /\ Min(S) <= a /\ Min(S) <= b
  BY <1>4, <1>5, MinProperty
<1> QED
  BY <1>6 DEF S

\* A nonempty set of numbers has a least element.
LEMMA LeastOf ==
    ASSUME NEW S \in SUBSET Nat, S # {}
    PROVE  \E m \in S : \A k \in S : m <= k
<1>1. PICK m \in S : \A k \in S : <<k, m>> \notin OpToRel(<, Nat)
  BY NatLessThanWellFounded, WFMin
<1>2. \A k \in S : ~(k < m)
  BY <1>1 DEF OpToRel
<1> QED
  BY <1>2

----------------------------------------------------------------------------
\* Inserting e before the i-th element of q shifts the elements from i on.
LEMMA InsertAtProperties ==
    ASSUME NEW S, NEW q \in Seq(S), NEW e \in S, NEW i \in 1 .. Len(q) + 1
    PROVE  /\ InsertAt(q, i, e) \in Seq(S)
           /\ Len(InsertAt(q, i, e)) = Len(q) + 1
           /\ \A j \in 1 .. Len(q) + 1 :
                  InsertAt(q, i, e)[j] = IF j < i THEN q[j] ELSE IF j = i THEN e ELSE q[j - 1]
<1> DEFINE a == SubSeq(q, 1, i - 1)
           b == SubSeq(q, i, Len(q))
<1>1. /\ a \in Seq(S) /\ Len(a) = i - 1
      /\ \A j \in 1 .. i - 1 : a[j] = q[j]
  OBVIOUS
<1>2. /\ b \in Seq(S) /\ Len(b) = Len(q) - i + 1
      /\ \A j \in 1 .. Len(q) - i + 1 : b[j] = q[i + j - 1]
  OBVIOUS
<1>3. InsertAt(q, i, e) = (a \o <<e>>) \o b
  BY DEF InsertAt
<1> HIDE DEF a, b
<1> DEFINE c == a \o <<e>>
<1>4. c \in Seq(S) /\ Len(c) = i
  BY <1>1
<1>5. \A j \in 1 .. i : c[j] = IF j < i THEN q[j] ELSE e
  BY <1>1
<1> HIDE DEF c
<1> DEFINE d == c \o b
<1>6. /\ d \in Seq(S) /\ Len(d) = Len(q) + 1
      /\ \A j \in 1 .. Len(q) + 1 : d[j] = IF j <= i THEN c[j] ELSE b[j - i]
  BY <1>2, <1>4
<1>7. InsertAt(q, i, e) = d
  BY <1>3 DEF c
<1> HIDE DEF d
<1>8. ASSUME NEW j \in 1 .. Len(q) + 1
      PROVE  d[j] = IF j < i THEN q[j] ELSE IF j = i THEN e ELSE q[j - 1]
  <2> DEFINE n == Len(q)
  <2>1. n \in Nat /\ i \in Int /\ j \in Int /\ i >= 1 /\ j >= 1 /\ j <= n + 1
    OBVIOUS
  <2> HIDE DEF n
  <2>2. CASE j <= i
    <3>1. j \in 1 .. i /\ (j = i <=> ~(j < i))
      BY <2>1, <2>2
    <3> QED
      BY <1>5, <1>6, <2>2, <3>1
  <2>3. CASE j > i
    <3>1. j - i \in 1 .. n - i + 1 /\ i + (j - i) - 1 = j - 1
      BY <2>1, <2>3
    <3>2. b[j - i] = q[j - 1]
      BY <1>2, <3>1 DEF n
    <3>3. ~(j <= i) /\ ~(j < i) /\ j # i
      BY <2>1, <2>3
    <3> QED
      BY <1>6, <3>2, <3>3
  <2> QED
    BY <2>1, <2>2, <2>3
<1> QED
  BY <1>6, <1>7, <1>8

----------------------------------------------------------------------------
\* What the first lines of compute_earliest_finish_time find.
LEMMA FirstNotEndingBeforeProperty ==
    ASSUME NEW R, \A r \in R : r.start \in Nat /\ r.end \in Nat,
           NEW q \in Seq(R), NEW ready \in Nat
    PROVE  LET i == FirstNotEndingBefore(q, ready)
           IN  /\ i \in 1 .. Len(q) + 1
               /\ i <= Len(q) => q[i].end >= ready
               /\ \A j \in 1 .. i - 1 : q[j].end < ready
<1> DEFINE S == {k \in Indices(q) : q[k].end >= ready} \cup {Len(q) + 1}
           i == Min(S)
<1>1. Len(q) \in Nat /\ \A k \in 1 .. Len(q) : q[k].end \in Nat
  OBVIOUS
<1>2. /\ S \in SUBSET Int /\ S # {} /\ S \subseteq 1 .. Len(q) + 1
      /\ \A k \in S : k <= Len(q) => q[k].end >= ready
      /\ \A k \in 1 .. Len(q) : k \notin S => q[k].end < ready
  BY <1>1 DEF Indices
<1>3. IsFiniteSet(S)
  <2>1. IsFiniteSet(1 .. Len(q) + 1)
    BY <1>1, FS_Interval
  <2> QED
    BY <1>2, <2>1, FS_Subset
<1>4. FirstNotEndingBefore(q, ready) = i
  BY DEF FirstNotEndingBefore
<1> HIDE DEF S
<1>5. i \in S /\ \A k \in S : i <= k
  BY <1>2, <1>3, MinProperty
<1> HIDE DEF i
<1>6. \A j \in 1 .. i - 1 : j \in 1 .. Len(q) /\ j \notin S
  BY <1>1, <1>2, <1>5
<1> QED
  BY <1>2, <1>4, <1>5, <1>6

LEMMA FirstGapFromProperty ==
    ASSUME NEW q, NEW i \in Int, NEW length, Len(q) \in Nat, i <= Len(q)
    PROVE  LET j == FirstGapFrom(q, i, length)
           IN  /\ j \in i .. Len(q)
               /\ j = Len(q) \/ q[j + 1].start - q[j].end >= length
<1> DEFINE S == {j \in i .. Len(q) : j = Len(q) \/ q[j + 1].start - q[j].end >= length}
<1>1. S \in SUBSET Int /\ S # {} /\ S \subseteq i .. Len(q)
  OBVIOUS
<1>2. IsFiniteSet(S)
  <2>1. IsFiniteSet(i .. Len(q))
    BY FS_Interval
  <2> QED
    BY <1>1, <2>1, FS_Subset
<1>3. Min(S) \in S
  BY <1>1, <1>2, MinProperty
<1> QED
  BY <1>3 DEF FirstGapFrom

(***************************************************************************)
(* compute_earliest_finish_time: on a node whose intervals do not overlap, *)
(* the slot starts no earlier than the ready time, every interval before   *)
(* the place of insertion has ended by then and every other one starts     *)
(* only after the task has run.                                            *)
(***************************************************************************)
THEOREM SlotIsFree ==
    ASSUME NEW R, \A r \in R : r.start \in Nat /\ r.end \in Nat,
           NEW q \in Seq(R), Disjoint(q),
           NEW ready \in Nat, NEW length \in Nat
    PROVE  LET slot == Slot(q, ready, length)
           IN  /\ slot.at \in 1 .. Len(q) + 1
               /\ slot.start \in Nat
               /\ slot.start >= ready
               /\ \A k \in 1 .. slot.at - 1 : q[k].end <= slot.start
               /\ \A k \in slot.at .. Len(q) : slot.start + length <= q[k].start
<1> DEFINE i == FirstNotEndingBefore(q, ready)
           j == FirstGapFrom(q, i, length)
           slot == Slot(q, ready, length)
<1>1. /\ Len(q) \in Nat
      /\ \A k \in 1 .. Len(q) : q[k].start \in Nat /\ q[k].end \in Nat
  OBVIOUS
<1>2. /\ \A k \in 1 .. Len(q) : q[k].start < q[k].end
      /\ \A k, l \in 1 .. Len(q) : k < l => q[k].end <= q[l].start
  BY DEF Disjoint, Indices
<1>3. /\ i \in 1 .. Len(q) + 1
      /\ i <= Len(q) => q[i].end >= ready
      /\ \A k \in 1 .. i - 1 : q[k].end < ready
  BY FirstNotEndingBeforeProperty
<1>4. \A k, l \in 1 .. Len(q) : k <= l => q[k].end <= q[l].end /\ q[k].start <= q[l].start
  <2>1. ASSUME NEW k \in 1 .. Len(q), NEW l \in 1 .. Len(q), k < l
        PROVE  q[k].end <= q[l].end /\ q[k].start <= q[l].start
    BY <1>1, <1>2, <2>1
  <2>2. \A k, l \in 1 .. Len(q) : k <= l => k < l \/ k = l
    BY <1>1
  <2> QED
    BY <1>1, <2>1, <2>2
<1>8. \A l \in 1 .. Len(q) : \A k \in 1 .. l : q[k].end <= q[l].end
  <2> TAKE l \in 1 .. Len(q)
  <2> TAKE k \in 1 .. l
  <2>1. k \in 1 .. Len(q) /\ k <= l
    BY <1>1
  <2> QED
    BY <1>4, <2>1
<1> HIDE DEF i
<1>5. CASE i > Len(q)
  <2> DEFINE T == {TotalFinishTime(q), ready}
  <2>1. slot.at = i /\ slot.start = Max(T)
    BY <1>5 DEF Slot, i
  <2>2. TotalFinishTime(q) \in Nat
    BY <1>1 DEF TotalFinishTime, Last
  <2>3. IsFiniteSet(T)
    <3>1. T = {TotalFinishTime(q)} \cup {ready}
      OBVIOUS
    <3>2. IsFiniteSet({TotalFinishTime(q)})
      BY FS_Singleton
    <3> HIDE DEF T
    <3> QED
      BY <3>1, <3>2, FS_AddElement
  <2>4. Max(T) \in T /\ Max(T) >= ready
    <3> HIDE DEF T
    <3>1. T \in SUBSET Int /\ ready \in T
      BY <2>2 DEF T
    <3> QED
      BY <2>3, <3>1, MaxProperty
  <2>5. Max(T) \in Nat
    BY <2>2, <2>4
  <2> HIDE DEF T
  <2>6. i = Len(q) + 1
    BY <1>1, <1>3, <1>5
  <2>7. \A k \in 1 .. i - 1 : q[k].end <= Max(T)
    BY <1>1, <1>3, <2>4, <2>5, <2>6
  <2> HIDE DEF slot
  <2> QED
    BY <1>1, <1>3, <2>1, <2>4, <2>5, <2>6, <2>7 DEF slot
<1>6. CASE i <= Len(q) /\ i = 1 /\ q[1].start >= ready + length
  <2>1. slot.at = 1 /\ slot.start = ready
    BY <1>1, <1>6 DEF Slot, i
  <2>2. \A k \in 1 .. Len(q) : ready + length <= q[k].start
    BY <1>1, <1>4, <1>6
  <2> HIDE DEF slot
  <2> QED
    BY <1>1, <2>1, <2>2 DEF slot
<1>7. CASE i <= Len(q) /\ ~(i = 1 /\ q[1].start >= ready + length)
  <2>1. slot.at = j + 1 /\ slot.start = q[j].end
    BY <1>1, <1>3, <1>7 DEF Slot, i
  <2>2. j \in i .. Len(q) /\ (j = Len(q) \/ q[j + 1].start - q[j].end >= length)
    BY <1>1, <1>3, <1>7, FirstGapFromProperty, SMTT(20)
  <2> HIDE DEF j, slot
  <2>3. j \in 1 .. Len(q) /\ q[j].end \in Nat /\ q[j].end >= ready
    <3>1. j \in 1 .. Len(q) /\ i \in 1 .. Len(q) /\ i \in 1 .. j
      BY <1>1, <1>3, <1>7, <2>2
    <3>2. q[j].end \in Nat /\ q[i].end \in Nat
      BY <1>1, <3>1
    <3>3. q[i].end <= q[j].end
      BY <1>8, <3>1, Zenon
    <3>4. q[i].end >= ready
      BY <1>3, <1>7
    <3> QED
      BY <3>1, <3>2, <3>3, <3>4
  <2>4. ASSUME NEW k \in 1 .. j PROVE q[k].end <= q[j].end
    <3>1. j \in 1 .. Len(q)
      BY <2>3
    <3> QED
      BY <1>8, <3>1, Zenon
  <2>5. ASSUME NEW k \in j + 1 .. Len(q) PROVE q[j].end + length <= q[k].start
    <3>1. j + 1 \in 1 .. Len(q) /\ k \in 1 .. Len(q) /\ j + 1 <= k
      BY <1>1, <2>3
    <3>2. q[j + 1].start <= q[k].start
      BY <1>4, <3>1
    <3>3. q[j + 1].start - q[j].end >= length
      BY <1>1, <2>2, <2>3, <3>1
    <3> QED
      BY <1>1, <2>3, <3>1, <3>2, <3>3, SMTT(30)
  <2> QED
    BY <1>1, <2>1, <2>3, <2>4, <2>5 DEF slot
<1> QED
  BY <1>1, <1>3, <1>5, <1>6, <1>7

\* Inserting an interval that fits before the i-th keeps the node's intervals
\* apart.
LEMMA InsertKeepsDisjoint ==
    ASSUME NEW R, \A r \in R : r.start \in Nat /\ r.end \in Nat,
           NEW q \in Seq(R), Disjoint(q),
           NEW e \in R, e.start < e.end,
           NEW i \in 1 .. Len(q) + 1,
           \A k \in 1 .. i - 1 : q[k].end <= e.start,
           \A k \in i .. Len(q) : e.end <= q[k].start
    PROVE  Disjoint(InsertAt(q, i, e))
<1> DEFINE p == InsertAt(q, i, e)
<1>1. /\ Len(q) \in Nat
      /\ \A k \in 1 .. Len(q) : q[k].start \in Nat /\ q[k].end \in Nat
  OBVIOUS
<1>2. /\ \A k \in 1 .. Len(q) : q[k].start < q[k].end
      /\ \A k, l \in 1 .. Len(q) : k < l => q[k].end <= q[l].start
  BY DEF Disjoint, Indices
<1>3. /\ Len(p) = Len(q) + 1
      /\ \A k \in 1 .. Len(q) + 1 :
             p[k] = IF k < i THEN q[k] ELSE IF k = i THEN e ELSE q[k - 1]
  BY InsertAtProperties
<1>4. e.start \in Nat /\ e.end \in Nat /\ i \in Int
  OBVIOUS
<1> HIDE DEF p
<1>5. ASSUME NEW k \in 1 .. Len(p) PROVE p[k].start < p[k].end
  <2>1. CASE k < i
    <3>1. p[k] = q[k] /\ k \in 1 .. Len(q)
      BY <1>1, <1>3, <1>4, <2>1
    <3> QED
      BY <1>2, <3>1
  <2>2. CASE k = i
    BY <1>3, <2>2
  <2>3. CASE k > i
    <3>1. p[k] = q[k - 1] /\ k - 1 \in 1 .. Len(q)
      BY <1>1, <1>3, <1>4, <2>3
    <3> QED
      BY <1>2, <3>1
  <2> QED
    BY <1>1, <1>3, <1>4, <2>1, <2>2, <2>3
<1>6. ASSUME NEW k \in 1 .. Len(p), NEW l \in 1 .. Len(p), k < l
      PROVE  p[k].end <= p[l].start
  <2> USE <1>1, <1>3, <1>4, <1>6
  <2>1. CASE l < i
    <3>1. p[k] = q[k] /\ p[l] = q[l] /\ k \in 1 .. Len(q) /\ l \in 1 .. Len(q)
      BY <2>1
    <3> QED
      BY <1>2, <3>1
  <2>2. CASE l = i
    <3>1. p[k] = q[k] /\ p[l] = e /\ k \in 1 .. i - 1
      BY <2>2
    <3> QED
      BY <3>1
  <2>3. CASE k = i
    <3>1. p[k] = e /\ p[l] = q[l - 1] /\ l - 1 \in i .. Len(q)
      BY <2>3
    <3> QED
      BY <3>1
  <2>4. CASE k < i /\ i < l
    <3>1. /\ p[k] = q[k] /\ p[l] = q[l - 1]
          /\ k \in 1 .. Len(q) /\ l - 1 \in 1 .. Len(q) /\ k < l - 1
      BY <2>4
    <3> QED
      BY <1>2, <2>4, <3>1
  <2>5. CASE i < k
    <3>1. /\ p[k] = q[k - 1] /\ p[l] = q[l - 1]
          /\ k - 1 \in 1 .. Len(q) /\ l - 1 \in 1 .. Len(q) /\ k - 1 < l - 1
      BY <2>5
    <3> QED
      BY <1>2, <3>1
  <2> QED
    BY <2>1, <2>2, <2>3, <2>4, <2>5
<1> QED
  BY <1>5, <1>6 DEF Disjoint, Indices, p

\* On a node whose intervals are in time order none ends after the last.
LEMMA LastEndsLast ==
    ASSUME NEW R, \A r \in R : r.start \in Nat /\ r.end \in Nat,
           NEW q \in Seq(R), Disjoint(q)
    PROVE  /\ TotalFinishTime(q) \in Nat
           /\ \A k \in Indices(q) : q[k].end <= TotalFinishTime(q)
           /\ q # << >> => Len(q) \in Indices(q) /\ TotalFinishTime(q) = q[Len(q)].end
<1>1. /\ Len(q) \in Nat
      /\ \A k \in 1 .. Len(q) : q[k].start \in Nat /\ q[k].end \in Nat
  OBVIOUS
<1>2. /\ \A k \in 1 .. Len(q) : q[k].start < q[k].end
      /\ \A k, l \in 1 .. Len(q) : k < l => q[k].end <= q[l].start
  BY DEF Disjoint, Indices
<1>3. CASE q = << >>
  <2>1. Len(q) = 0 /\ TotalFinishTime(q) = 0
    BY <1>3 DEF TotalFinishTime
  <2> QED
    BY <1>3, <2>1 DEF Indices
<1>4. CASE q # << >>
  <2>1. Len(q) \in 1 .. Len(q) /\ TotalFinishTime(q) = q[Len(q)].end
    BY <1>1, <1>4 DEF TotalFinishTime, Last
  <2>2. ASSUME NEW k \in 1 .. Len(q) PROVE q[k].end <= q[Len(q)].end
    <3>1. CASE k = Len(q)
      BY <1>1, <3>1
    <3>2. CASE k < Len(q)
      <4>1. /\ q[k].end <= q[Len(q)].start /\ q[Len(q)].start < q[Len(q)].end
        BY <1>2, <2>1, <3>2
      <4>2. q[k].end \in Nat /\ q[Len(q)].start \in Nat /\ q[Len(q)].end \in Nat
        BY <1>1, <2>1
      <4> QED
        BY <4>1, <4>2
    <3> QED
      BY <1>1, <3>1, <3>2
  <2> QED
    BY <1>1, <2>1, <2>2 DEF Indices
<1> QED
  BY <1>3, <1>4

\* Appending behind everything is always possible, and never better.
LEMMA SlotNotAfterAppending ==
    ASSUME NEW R, \A r \in R : r.start \in Nat /\ r.end \in Nat,
           NEW q \in Seq(R), Disjoint(q), NEW ready \in Nat, NEW length \in Nat
    PROVE  \/ Slot(q, ready, length).start <= TotalFinishTime(q)
           \/ Slot(q, ready, length).start <= ready
<1> DEFINE i == FirstNotEndingBefore(q, ready)
           j == FirstGapFrom(q, i, length)
<1>1. /\ TotalFinishTime(q) \in Nat
      /\ \A k \in Indices(q) : q[k].end <= TotalFinishTime(q)
  BY LastEndsLast
<1>2. i \in 1 .. Len(q) + 1 /\ Len(q) \in Nat
  BY FirstNotEndingBeforeProperty
<1>3. CASE i > Len(q)
  <2>1. Slot(q, ready, length).start = Max({TotalFinishTime(q), ready})
    BY <1>3 DEF Slot
  <2>2. Max({TotalFinishTime(q), ready}) \in {TotalFinishTime(q), ready}
    <3> DEFINE finish == TotalFinishTime(q)
    <3>1. finish \in Int /\ ready \in Int
      BY <1>1
    <3> HIDE DEF finish
    <3> QED
      BY <3>1, MaxOfTwo DEF finish
  <2>3. \/ Slot(q, ready, length).start = TotalFinishTime(q)
        \/ Slot(q, ready, length).start = ready
    BY <2>1, <2>2
  <2> QED
    BY <1>1, <2>3
<1>4. CASE i <= Len(q) /\ i = 1 /\ q[1].start >= ready + length
  BY <1>2, <1>4 DEF Slot
<1>5. CASE i <= Len(q) /\ ~(i = 1 /\ q[1].start >= ready + length)
  <2>1. j \in i .. Len(q)
    BY <1>2, <1>5, FirstGapFromProperty
  <2> HIDE DEF i
  <2>2. ~(i > Len(q)) /\ j \in Indices(q)
    BY <1>2, <1>5, <2>1 DEF Indices
  <2>3. Slot(q, ready, length).start = q[j].end
    BY <1>5, <2>2 DEF Slot, i
  <2> QED
    BY <1>1, <2>2, <2>3
<1> QED
  BY <1>2, <1>3, <1>4, <1>5

----------------------------------------------------------------------------
LEMMA ProductPositive ==
    ASSUME NEW a \in Nat \ {0}, NEW b \in Nat \ {0}
    PROVE  a * b \in Nat \ {0}
<1>1. a * b \in Int /\ a * b > 0
  OBVIOUS
<1> QED
  BY <1>1

LEMMA ProductNat ==
    ASSUME NEW a \in Nat, NEW b \in Nat
    PROVE  a * b \in Nat
<1>1. a * b \in Int /\ a * b >= 0
  OBVIOUS
<1> QED
  BY <1>1

\* A unit of work, and of data, takes a positive number of ticks.
LEMMA TicksPositive ==
    \A n \in Nodes : WorkTime[n] \in Nat \ {0} /\ DataTime[n] \in Nat \ {0}
<1> SUFFICES ASSUME NEW n \in Nodes
             PROVE  WorkTime[n] \in Nat \ {0} /\ DataTime[n] \in Nat \ {0}
  OBVIOUS
<1>1. ASSUME NEW b \in Nat, \E q \in 1 .. Scale : q * b = Scale
      PROVE  ExactQuotient(Scale, b) \in Nat \ {0}
  <2> DEFINE c == ExactQuotient(Scale, b)
  <2>1. Scale \in Nat \ {0}
    BY ScaleAssumption
  <2>2. c \in 0 .. Scale /\ c * b = Scale
    <3>1. PICK q \in 1 .. Scale : q * b = Scale
      BY <1>1
    <3>2. q \in 0 .. Scale
      BY <2>1
    <3> QED
      BY <3>1, <3>2, Zenon DEF ExactQuotient
  <2> HIDE DEF c
  <2>3. c # 0
    BY <2>1, <2>2
  <2> QED
    BY <2>1, <2>2, <2>3 DEF c
<1>2. Performance[n] \in Nat
  <2>1. CorePerformance[n] \in Nat /\ NumCores[n] \in Nat
    BY ClusterAssumption
  <2> QED
    BY <2>1, ProductNat DEF Performance
<1>3. NetworkBandwidth[n] \in Nat
  BY ClusterAssumption
<1> QED
  BY <1>1, <1>2, <1>3, ScaleAssumption DEF WorkTime, DataTime

LEMMA ComputationTimePositive ==
    ASSUME NEW w, IsWorkflow(w), NEW t \in Tasks(w), NEW n \in Nodes
    PROVE  ComputationTime(w, t, n) \in Nat \ {0}
<1>1. w.workload[t] \in Nat \ {0}
  BY DEF IsWorkflow
<1> QED
  BY <1>1, TicksPositive, ProductPositive DEF ComputationTime

LEMMA ArrivalTimeType ==
    ASSUME NEW w, IsWorkflow(w), NEW p \in Tasks(w), NEW i \in Interval, NEW n \in Nodes
    PROVE  ArrivalTime(w, p, i, n) \in Nat /\ ArrivalTime(w, p, i, n) >= i.end
<1>1. i.end \in Nat /\ i.node \in Nodes
  BY DEF Interval
<1>2. DataTransfer(w, p) \in Nat
  BY DEF IsWorkflow, DataTransfer
<1>3. DataTransfer(w, p) * DataTime[i.node] \in Nat
  BY <1>1, <1>2, TicksPositive, ProductNat
<1>4. TransferCost(i.node, n, DataTransfer(w, p), i.node) \in Nat
  BY <1>3 DEF TransferCost
<1> QED
  BY <1>1, <1>4 DEF ArrivalTime

LEMMA TasksFinite ==
    ASSUME NEW w, IsWorkflow(w)
    PROVE  IsFiniteSet(Tasks(w))
<1>1. 0 \in Int /\ w.size - 1 \in Int
  BY DEF IsWorkflow
<1> QED
  BY <1>1, FS_Interval DEF Tasks

\* get_earliest_data_available_time is the arrival of one of the copies.
LEMMA EarliestDataAvailableProperty ==
    ASSUME NEW w, IsWorkflow(w), NEW s \in Schedules(w),
           NEW p \in Tasks(w), Scheduled(s, p), NEW n \in Nodes
    PROVE  /\ EarliestDataAvailable(w, s, p, n) \in Nat
           /\ \E k \in Indices(s.task[p]) :
                  EarliestDataAvailable(w, s, p, n) = ArrivalTime(w, p, s.task[p][k], n)
           /\ \A k \in Indices(s.task[p]) :
                  EarliestDataAvailable(w, s, p, n) <= ArrivalTime(w, p, s.task[p][k], n)
<1> DEFINE q == s.task[p]
           f == [k \in Indices(q) |-> ArrivalTime(w, p, q[k], n)]
           S == {f[k] : k \in Indices(q)}
<1>1. q \in Seq(Interval) /\ q # << >>
  BY DEF Schedules, Scheduled
<1> HIDE DEF q
<1>2. Len(q) \in Nat /\ Len(q) > 0 /\ \A k \in Indices(q) : q[k] \in Interval
  BY <1>1 DEF Indices
<1>3. \A k \in Indices(q) : f[k] \in Nat
  BY <1>2, ArrivalTimeType
<1>4. IsFiniteSet(Indices(q)) /\ 1 \in Indices(q)
  BY <1>2, FS_Interval DEF Indices
<1>5. DOMAIN f = Indices(q)
  OBVIOUS
<1>6. EarliestDataAvailable(w, s, p, n) = Min(S)
  BY DEF EarliestDataAvailable, q
<1>7. \A k \in Indices(q) : f[k] = ArrivalTime(w, p, q[k], n)
  OBVIOUS
<1> HIDE DEF f
<1>8. S \in SUBSET Int /\ S # {}
  BY <1>3, <1>4
<1>9. IsFiniteSet(S)
  BY <1>4, <1>5, ImageFinite
<1>10. Min(S) \in S /\ \A y \in S : Min(S) =< y
  <2> HIDE DEF S
  <2> QED
    BY <1>8, <1>9, MinProperty
<1>11. \A k \in Indices(q) : f[k] \in S
  OBVIOUS
<1> QED
  BY <1>3, <1>6, <1>7, <1>10, <1>11 DEF q

\* task_ready_time is no earlier than the arrival of the data of any
\* predecessor that is scheduled.
LEMMA TaskReadyTimeProperty ==
    ASSUME NEW w, IsWorkflow(w), NEW s \in Schedules(w),
           NEW t \in Tasks(w), NEW n \in Nodes
    PROVE  /\ TaskReadyTime(w, s, t, n) \in Nat
           /\ \A p \in Predecessors(w, t) : Scheduled(s, p) =>
                  EarliestDataAvailable(w, s, p, n) <= TaskReadyTime(w, s, t, n)
<1> DEFINE P == {q \in Predecessors(w, t) : Scheduled(s, q)}
           f == [p \in P |-> EarliestDataAvailable(w, s, p, n)]
           T == {f[p] : p \in P}
           S == {0} \cup T
<1>1. P \subseteq Tasks(w) /\ IsFiniteSet(P)
  <2>1. P \subseteq Tasks(w)
    BY DEF Predecessors
  <2> HIDE DEF P
  <2> QED
    BY <2>1, TasksFinite, FS_Subset
<1>2. \A p \in P : f[p] \in Nat
  BY <1>1, EarliestDataAvailableProperty
<1>3. DOMAIN f = P /\ \A p \in P : f[p] = EarliestDataAvailable(w, s, p, n)
  OBVIOUS
<1>4. TaskReadyTime(w, s, t, n) = Max(S)
  BY DEF TaskReadyTime
<1>5. \A p \in Predecessors(w, t) : Scheduled(s, p) => p \in P
  OBVIOUS
<1> HIDE DEF P, f
<1>6. IsFiniteSet(T)
  BY <1>1, <1>3, ImageFinite
<1>7. S \in SUBSET Int /\ S # {} /\ \A x \in S : x \in Nat
  BY <1>2
<1>8. \A p \in P : f[p] \in S
  OBVIOUS
<1>9. IsFiniteSet(S)
  <2> HIDE DEF T
  <2>1. S = T \cup {0}
    OBVIOUS
  <2> HIDE DEF S
  <2> QED
    BY <1>6, <2>1, FS_AddElement
<1> HIDE DEF S
<1>10. Max(S) \in S /\ \A y \in S : Max(S) >= y
  BY <1>7, <1>9, MaxProperty
<1>11. ASSUME NEW p \in Predecessors(w, t), Scheduled(s, p)
       PROVE  EarliestDataAvailable(w, s, p, n) <= Max(S)
  <2>1. f[p] \in S /\ f[p] = EarliestDataAvailable(w, s, p, n)
    BY <1>3, <1>5, <1>8, <1>11
  <2> QED
    BY <1>7, <1>10, <2>1
<1> QED
  BY <1>4, <1>7, <1>10, <1>11

----------------------------------------------------------------------------
\* The interval an insertion places, and where.
LEMMA NewIntervalProperties ==
    ASSUME NEW w, IsWorkflow(w), NEW s \in Schedules(w),
           NEW t \in Tasks(w), NEW n \in Nodes, Disjoint(s.node[n])
    PROVE  LET i  == NewInterval(w, s, t, n)
               at == SlotOn(w, s, t, n).at
           IN  /\ i \in Interval
               /\ i.id = Len(s.original) /\ i.node = n
               /\ i.start < i.end
               /\ i.start >= TaskReadyTime(w, s, t, n)
               /\ at \in 1 .. Len(s.node[n]) + 1
               /\ \A k \in 1 .. at - 1 : s.node[n][k].end <= i.start
               /\ \A k \in at .. Len(s.node[n]) : i.end <= s.node[n][k].start
<1> DEFINE i == NewInterval(w, s, t, n)
           slot == SlotOn(w, s, t, n)
           q == s.node[n]
           ready == TaskReadyTime(w, s, t, n)
           length == ComputationTime(w, t, n)
<1>1. q \in Seq(Interval) /\ Len(s.original) \in Nat
  BY DEF Schedules
<1>2. ready \in Nat
  BY TaskReadyTimeProperty
<1>3. length \in Nat \ {0}
  BY ComputationTimePositive
<1>4. \A r \in Interval : r.start \in Nat /\ r.end \in Nat
  BY DEF Interval
<1>5. slot = Slot(q, ready, length)
  BY DEF SlotOn
<1>6. /\ i.start = slot.start /\ i.end = slot.start + length
      /\ i.id = Len(s.original) /\ i.node = n
      /\ i = [start |-> slot.start, end |-> slot.start + length, id |-> Len(s.original), node |-> n]
  BY DEF NewInterval
<1>7. Disjoint(q)
  OBVIOUS
<1> HIDE DEF i, slot, q, ready, length
<1>8. /\ slot.at \in 1 .. Len(q) + 1
      /\ slot.start \in Nat
      /\ slot.start >= ready
      /\ \A k \in 1 .. slot.at - 1 : q[k].end <= slot.start
      /\ \A k \in slot.at .. Len(q) : slot.start + length <= q[k].start
  BY <1>1, <1>2, <1>3, <1>4, <1>5, <1>7, SlotIsFree
<1>9. i \in Interval
  BY <1>1, <1>3, <1>6, <1>8 DEF Interval
<1>10. i.start < i.end
  BY <1>3, <1>6, <1>8
<1> QED
  BY <1>6, <1>8, <1>9, <1>10 DEF i, slot, q, ready

\* An insertion updates the three indices, and no overlap arises.
LEMMA InsertIntoNodeProperties ==
    ASSUME NEW w, IsWorkflow(w), NEW s \in Schedules(w),
           NEW t \in Tasks(w), NEW n \in Nodes,
           \A m \in Nodes : Disjoint(s.node[m])
    PROVE  LET i == NewInterval(w, s, t, n)
               r == InsertIntoNode(w, s, t, n)
           IN  /\ r \in Schedules(w)
               /\ r.useMemory = s.useMemory
               /\ r.original = Append(s.original, t)
               /\ r.task = [s.task EXCEPT ![t] = Append(s.task[t], i)]
               /\ r.node = [s.node EXCEPT ![n] = InsertAt(s.node[n], SlotOn(w, s, t, n).at, i)]
               /\ \A m \in Nodes : Disjoint(r.node[m])
<1> DEFINE i == NewInterval(w, s, t, n)
           at == SlotOn(w, s, t, n).at
           r == InsertIntoNode(w, s, t, n)
           q == s.node[n]
           p == InsertAt(q, at, i)
<1>1. /\ s.useMemory \in BOOLEAN
      /\ s.node \in [Nodes -> Seq(Interval)]
      /\ s.task \in [Tasks(w) -> Seq(Interval)]
      /\ s.original \in Seq(Tasks(w))
      /\ DOMAIN s = {"useMemory", "node", "task", "original"}
  BY DEF Schedules
<1>2. /\ i \in Interval /\ i.start < i.end
      /\ at \in 1 .. Len(q) + 1
      /\ \A k \in 1 .. at - 1 : q[k].end <= i.start
      /\ \A k \in at .. Len(q) : i.end <= q[k].start
  BY NewIntervalProperties
<1>3. r = [s EXCEPT !.node[n] = p, !.task[t] = Append(s.task[t], i), !.original = Append(s.original, t)]
  BY DEF InsertIntoNode
<1>4. q \in Seq(Interval) /\ Disjoint(q)
  BY <1>1
<1>5. \A x \in Interval : x.start \in Nat /\ x.end \in Nat
  BY DEF Interval
<1> HIDE DEF i, at, q
<1>6. p \in Seq(Interval)
  BY <1>2, <1>4, InsertAtProperties
<1>7. Disjoint(p)
  BY <1>2, <1>4, <1>5, InsertKeepsDisjoint
<1> HIDE DEF p, r
<1>8. /\ r.useMemory = s.useMemory
      /\ r.original = Append(s.original, t)
      /\ r.task = [s.task EXCEPT ![t] = Append(s.task[t], i)]
      /\ r.node = [s.node EXCEPT ![n] = p]
  BY <1>1, <1>3
<1>9. /\ r.original \in Seq(Tasks(w))
      /\ r.task \in [Tasks(w) -> Seq(Interval)]
      /\ r.node \in [Nodes -> Seq(Interval)]
  BY <1>1, <1>2, <1>6, <1>8
<1>10. r \in Schedules(w)
  <2>1. r = [useMemory |-> r.useMemory, node |-> r.node, task |-> r.task, original |-> r.original]
    BY <1>1, <1>3
  <2> QED
    BY <1>1, <1>8, <1>9, <2>1 DEF Schedules
<1>11. \A m \in Nodes : Disjoint(r.node[m])
  BY <1>1, <1>7, <1>8
<1> QED
  BY <1>8, <1>10, <1>11 DEF i, at, q, p, r

\* The elements of a sequence after an insertion.
LEMMA InsertAtElements ==
    ASSUME NEW S, NEW q \in Seq(S), NEW e \in S, NEW i \in 1 .. Len(q) + 1
    PROVE  LET p == InsertAt(q, i, e)
           IN  /\ \A k \in Indices(q) : \E j \in Indices(p) : p[j] = q[k]
               /\ i \in Indices(p) /\ p[i] = e
               /\ \A j \in Indices(p) : j # i => \E k \in Indices(q) : p[j] = q[k]
<1> DEFINE p == InsertAt(q, i, e)
<1>1. Len(q) \in Nat /\ i \in Int
  OBVIOUS
<1>2. /\ Len(p) = Len(q) + 1
      /\ \A j \in 1 .. Len(q) + 1 :
             p[j] = IF j < i THEN q[j] ELSE IF j = i THEN e ELSE q[j - 1]
  BY InsertAtProperties, SMTT(30)
<1> HIDE DEF p
<1>3. ASSUME NEW k \in Indices(q) PROVE \E j \in Indices(p) : p[j] = q[k]
  <2>1. CASE k < i
    <3>1. k \in Indices(p) /\ p[k] = q[k]
      BY <1>1, <1>2, <2>1 DEF Indices
    <3> QED
      BY <3>1
  <2>2. CASE k >= i
    <3>1. k + 1 \in Indices(p) /\ p[k + 1] = q[(k + 1) - 1] /\ (k + 1) - 1 = k
      BY <1>1, <1>2, <2>2 DEF Indices
    <3> QED
      BY <3>1
  <2> QED
    BY <1>1, <2>1, <2>2 DEF Indices
<1>4. i \in Indices(p) /\ p[i] = e
  BY <1>1, <1>2 DEF Indices
<1>5. ASSUME NEW j \in Indices(p), j # i PROVE \E k \in Indices(q) : p[j] = q[k]
  <2>1. CASE j < i
    <3>1. j \in Indices(q) /\ p[j] = q[j]
      BY <1>1, <1>2, <2>1 DEF Indices
    <3> QED
      BY <3>1
  <2>2. CASE j > i
    <3>1. j - 1 \in Indices(q) /\ p[j] = q[j - 1]
      BY <1>1, <1>2, <2>2 DEF Indices
    <3> QED
      BY <3>1
  <2> QED
    BY <1>1, <1>2, <1>5, <2>1, <2>2 DEF Indices
<1> QED
  BY <1>3, <1>4, <1>5 DEF p

\* Where they come from: those behind the new one move by one.
LEMMA InsertAtOrigin ==
    ASSUME NEW S, NEW q \in Seq(S), NEW e \in S, NEW i \in 1 .. Len(q) + 1
    PROVE  LET p == InsertAt(q, i, e)
           IN  \A j \in Indices(p) :
                   LET k == IF j > i THEN j - 1 ELSE j
                   IN  IF j = i THEN p[j] = e ELSE k \in Indices(q) /\ p[j] = q[k]
<1> DEFINE p == InsertAt(q, i, e)
<1>1. Len(q) \in Nat /\ i \in Int /\ i >= 1 /\ i <= Len(q) + 1
  OBVIOUS
<1>2. /\ Len(p) = Len(q) + 1
      /\ \A j \in 1 .. Len(q) + 1 :
             p[j] = IF j < i THEN q[j] ELSE IF j = i THEN e ELSE q[j - 1]
  BY InsertAtProperties, SMTT(30)
<1> HIDE DEF p
<1> SUFFICES ASSUME NEW j \in Indices(p)
             PROVE  LET k == IF j > i THEN j - 1 ELSE j
                    IN  IF j = i THEN p[j] = e ELSE k \in Indices(q) /\ p[j] = q[k]
  BY DEF p
<1>3. j \in 1 .. Len(q) + 1
  BY <1>2 DEF Indices
<1>4. CASE j < i
  <2>1. j \in Indices(q) /\ p[j] = q[j] /\ ~(j > i) /\ j # i
    BY <1>1, <1>2, <1>3, <1>4 DEF Indices
  <2> QED
    BY <2>1
<1>5. CASE j = i
  BY <1>1, <1>2, <1>3, <1>5
<1>6. CASE j > i
  <2>1. j - 1 \in Indices(q) /\ p[j] = q[j - 1] /\ j # i
    BY <1>1, <1>2, <1>3, <1>6 DEF Indices
  <2> QED
    BY <1>6, <2>1
<1> QED
  BY <1>1, <1>3, <1>4, <1>5, <1>6

----------------------------------------------------------------------------
\* The schedule an algorithm starts with.
LEMMA NewScheduleProperties ==
    ASSUME NEW w, NEW useMemory \in BOOLEAN
    PROVE  LET s == NewSchedule(w, useMemory)
           IN  /\ s \in Schedules(w)
               /\ s.useMemory = useMemory
               /\ \A n \in Nodes : Disjoint(s.node[n])
               /\ \A t \in Tasks(w) : s.task[t] = << >>
<1> DEFINE s == NewSchedule(w, useMemory)
           empty == [n \in Nodes |-> << >>]
           nothing == [t \in Tasks(w) |-> << >>]
<1>1. s = [useMemory |-> useMemory, node |-> empty, task |-> nothing, original |-> << >>]
  BY DEF NewSchedule
<1>2. << >> \in Seq(Interval) /\ << >> \in Seq(Tasks(w))
  OBVIOUS
<1>3. empty \in [Nodes -> Seq(Interval)] /\ nothing \in [Tasks(w) -> Seq(Interval)]
  BY <1>2
<1>4. Disjoint(<< >>)
  BY DEF Disjoint, Indices
<1>5. /\ \A n \in Nodes : empty[n] = << >>
      /\ \A t \in Tasks(w) : nothing[t] = << >>
  OBVIOUS
<1> HIDE DEF empty, nothing, s
<1>6. s \in Schedules(w)
  BY <1>1, <1>2, <1>3 DEF Schedules
<1> QED
  BY <1>1, <1>4, <1>5, <1>6 DEF s

\* What an insertion adds to the intervals of a task, and that it removes none.
LEMMA InsertIntoNodeIntervals ==
    ASSUME NEW w, IsWorkflow(w), NEW s \in Schedules(w),
           NEW t \in Tasks(w), NEW n \in Nodes,
           \A m \in Nodes : Disjoint(s.node[m]),
           NEW u \in Tasks(w)
    PROVE  LET r == InsertIntoNode(w, s, t, n)
           IN  /\ Scheduled(r, u) <=> Scheduled(s, u) \/ u = t
               /\ u # t => r.task[u] = s.task[u]
               /\ Len(r.task[t]) = Len(s.task[t]) + 1
               /\ \A k \in Indices(r.task[u]) :
                      \/ k \in Indices(s.task[u]) /\ r.task[u][k] = s.task[u][k]
                      \/ u = t /\ r.task[u][k].node = n
<1> DEFINE i == NewInterval(w, s, t, n)
           r == InsertIntoNode(w, s, t, n)
<1>1. /\ r.task = [s.task EXCEPT ![t] = Append(s.task[t], i)]
      /\ i \in Interval /\ i.node = n
  <2>1. IsWorkflow(w) /\ s \in Schedules(w) /\ \A m \in Nodes : Disjoint(s.node[m])
    OBVIOUS
  <2>2. /\ r \in Schedules(w)
        /\ r.original = Append(s.original, t)
        /\ r.task = [s.task EXCEPT ![t] = Append(s.task[t], i)]
        /\ r.node = [s.node EXCEPT ![n] = InsertAt(s.node[n], SlotOn(w, s, t, n).at, i)]
        /\ \A m \in Nodes : Disjoint(r.node[m])
    BY <2>1, InsertIntoNodeProperties
  <2>3. i \in Interval /\ i.node = n
    BY <2>1, NewIntervalProperties
  <2> QED
    BY <2>2, <2>3
<1>2. s.task \in [Tasks(w) -> Seq(Interval)]
  BY DEF Schedules
<1> HIDE DEF i, r
<1>3. /\ r.task[t] = Append(s.task[t], i)
      /\ u # t => r.task[u] = s.task[u]
      /\ s.task[t] \in Seq(Interval) /\ s.task[u] \in Seq(Interval)
  BY <1>1, <1>2
<1>4. /\ Len(r.task[t]) = Len(s.task[t]) + 1
      /\ r.task[t] # << >>
      /\ \A k \in 1 .. Len(s.task[t]) + 1 :
             r.task[t][k] = IF k = Len(s.task[t]) + 1 THEN i ELSE s.task[t][k]
  BY <1>1, <1>3
<1>5. Scheduled(r, u) <=> Scheduled(s, u) \/ u = t
  BY <1>3, <1>4 DEF Scheduled
<1>6. ASSUME NEW k \in Indices(r.task[u])
      PROVE  \/ k \in Indices(s.task[u]) /\ r.task[u][k] = s.task[u][k]
             \/ u = t /\ r.task[u][k].node = n
  <2>1. CASE u # t
    BY <1>3, <1>6, <2>1
  <2>2. CASE u = t
    <3>1. k \in 1 .. Len(s.task[t]) + 1 /\ Len(s.task[t]) \in Nat
      BY <1>3, <1>4, <1>6, <2>2 DEF Indices
    <3>2. CASE k = Len(s.task[t]) + 1
      BY <1>1, <1>4, <2>2, <3>1, <3>2
    <3>3. CASE k # Len(s.task[t]) + 1
      BY <1>4, <2>2, <3>1, <3>3 DEF Indices
    <3> QED
      BY <3>2, <3>3
  <2> QED
    BY <2>1, <2>2
<1> QED
  BY <1>3, <1>4, <1>5, <1>6 DEF r

----------------------------------------------------------------------------
\* The greatest of finitely many terms that are at least 0, and 0 if there are
\* none: the form of the ranks.
LEMMA MaxOfTerms ==
    ASSUME NEW P, IsFiniteSet(P), NEW f \in [P -> Nat]
    PROVE  LET max == Max({0} \cup {f[c] : c \in P})
           IN  /\ max \in Nat
               /\ \A c \in P : f[c] <= max
               /\ P # {} => \E c \in P : f[c] = max
<1> DEFINE T == {f[c] : c \in P}
           S == {0} \cup T
<1>1. IsFiniteSet(T)
  <2>1. DOMAIN f = P
    OBVIOUS
  <2> QED
    BY <2>1, ImageFinite
<1>2. S \in SUBSET Int /\ S # {} /\ \A x \in S : x \in Nat
  OBVIOUS
<1>3. /\ \A c \in P : f[c] \in S
      /\ \A x \in S : x = 0 \/ \E c \in P : f[c] = x
  OBVIOUS
<1>4. IsFiniteSet(S)
  <2> HIDE DEF T
  <2>1. S = T \cup {0}
    OBVIOUS
  <2> HIDE DEF S
  <2> QED
    BY <1>1, <2>1, FS_AddElement
<1> DEFINE max == Max(S)
<1> HIDE DEF S
<1>5. max \in S /\ \A y \in S : max >= y
  BY <1>2, <1>4, MaxProperty
<1> HIDE DEF max
<1>6. max \in Nat /\ \A c \in P : f[c] <= max /\ f[c] \in Nat
  BY <1>2, <1>3, <1>5
<1>7. ASSUME NEW x \in P PROVE \E c \in P : f[c] = max
  <2>1. CASE max = 0
    <3>1. f[x] = 0
      BY <1>6, <2>1
    <3> QED
      BY <2>1, <3>1
  <2>2. CASE max # 0
    BY <1>3, <1>5, <2>2
  <2> QED
    BY <2>1, <2>2
<1> QED
  BY <1>6, <1>7 DEF max, S

LEMMA MaxOfZero == Max({0}) = 0
<1>1. {0} \in SUBSET Int /\ {0} # {} /\ IsFiniteSet({0})
  BY FS_Singleton
<1>2. Max({0}) \in {0}
  BY <1>1, MaxProperty
<1> QED
  BY <1>2

\* What a task adds to the ranks of its neighbours: its work and its output.
RankCost(w, workCost, dataCost, t) == w.workload[t] * workCost + DataTransfer(w, t) * dataCost

LEMMA RankCostType ==
    ASSUME NEW w, IsWorkflow(w), NEW t \in Tasks(w),
           NEW workCost \in Nat \ {0}, NEW dataCost \in Nat
    PROVE  /\ w.workload[t] * workCost \in Nat \ {0}
           /\ DataTransfer(w, t) * dataCost \in Nat
           /\ RankCost(w, workCost, dataCost, t) \in Nat \ {0}
<1> DEFINE work == w.workload[t] * workCost
           data == DataTransfer(w, t) * dataCost
<1>1. w.workload[t] \in Nat \ {0} /\ DataTransfer(w, t) \in Nat
  BY DEF IsWorkflow, DataTransfer
<1>2. work \in Nat \ {0} /\ data \in Nat
  BY <1>1, ProductPositive, ProductNat
<1>3. RankCost(w, workCost, dataCost, t) = work + data
  BY DEF RankCost
<1> HIDE DEF work, data
<1>4. RankCost(w, workCost, dataCost, t) \in Nat \ {0}
  BY <1>2, <1>3
<1> QED
  BY <1>2, <1>4 DEF work, data

LEMMA PositionType ==
    ASSUME NEW w, IsWorkflow(w)
    PROVE  \A t \in Tasks(w) : w.position[t] \in Int
<1>1. w.position \in [Tasks(w) -> Tasks(w)]
  BY DEF IsWorkflow
<1>2. Tasks(w) \subseteq Int
  BY DEF Tasks
<1> QED
  BY <1>1, <1>2

LEMMA NeighboursFinite ==
    ASSUME NEW w, IsWorkflow(w), NEW t
    PROVE  /\ Predecessors(w, t) \subseteq Tasks(w) /\ IsFiniteSet(Predecessors(w, t))
           /\ Successors(w, t) \subseteq Tasks(w) /\ IsFiniteSet(Successors(w, t))
<1>1. Predecessors(w, t) \subseteq Tasks(w) /\ Successors(w, t) \subseteq Tasks(w)
  BY DEF Predecessors, Successors
<1> QED
  BY <1>1, TasksFinite, FS_Subset

\* An upward rank is a natural number, exceeds those of the successors by the
\* cost of the task at least, and that of one of them by just this cost.
LEMMA UpwardRankProperty ==
    ASSUME NEW w, IsWorkflow(w), NEW upward \in [Tasks(w) -> Nat],
           NEW workCost \in Nat \ {0}, NEW dataCost \in Nat, NEW t \in Tasks(w)
    PROVE  LET rank == UpwardRank(w, upward, workCost, dataCost, t)
               cost == RankCost(w, workCost, dataCost, t)
           IN  /\ rank \in Nat
               /\ \A c \in Successors(w, t) : rank >= cost + upward[c]
               /\ Successors(w, t) # {} =>
                      \E c \in Successors(w, t) : rank = cost + upward[c]
               /\ Successors(w, t) = {} => rank = w.workload[t] * workCost
<1> DEFINE P == Successors(w, t)
           work == w.workload[t] * workCost
           data == DataTransfer(w, t) * dataCost
           f == [c \in P |-> data + upward[c]]
           max == Max({0} \cup {f[c] : c \in P})
           rank == UpwardRank(w, upward, workCost, dataCost, t)
           cost == RankCost(w, workCost, dataCost, t)
<1>1. P \subseteq Tasks(w) /\ IsFiniteSet(P)
  BY NeighboursFinite
<1>2. work \in Nat \ {0} /\ data \in Nat /\ cost = work + data
  BY RankCostType DEF RankCost
<1>3. rank = work + max
  BY DEF UpwardRank
<1> HIDE DEF P, work, data, rank, cost
<1>4. \A c \in P : f[c] = data + upward[c] /\ upward[c] \in Nat /\ f[c] \in Nat
  BY <1>1, <1>2
<1>5. f \in [P -> Nat]
  BY <1>4
<1> HIDE DEF f
<1>6. max \in Nat /\ (\A c \in P : f[c] <= max) /\ (P # {} => \E c \in P : f[c] = max)
  BY <1>1, <1>5, MaxOfTerms, ZenonT(40)
<1>7. P = {} => max = 0
  <2>1. P = {} => {0} \cup {f[c] : c \in P} = {0}
    OBVIOUS
  <2> QED
    BY <2>1, MaxOfZero, Zenon
<1> HIDE DEF max
<1>8. rank \in Nat /\ (P = {} => rank = work)
  BY <1>2, <1>3, <1>6, <1>7
<1>9. ASSUME NEW c \in P PROVE rank >= cost + upward[c]
  <2>1. f[c] <= max /\ f[c] = data + upward[c] /\ upward[c] \in Nat
    BY <1>4, <1>6
  <2> QED
    BY <1>2, <1>3, <1>6, <2>1
<1>10. ASSUME P # {} PROVE \E c \in P : rank = cost + upward[c]
  <2>1. PICK c \in P : f[c] = max
    BY <1>6, <1>10
  <2>2. rank = cost + upward[c]
    BY <1>2, <1>3, <1>4, <1>6, <2>1
  <2> QED
    BY <2>2
<1> QED
  BY <1>8, <1>9, <1>10 DEF rank, cost, P, work

\* A downward rank exceeds those of the predecessors by their cost at least,
\* and that of one of them by just its cost.
LEMMA DownwardRankProperty ==
    ASSUME NEW w, IsWorkflow(w), NEW downward \in [Tasks(w) -> Nat],
           NEW workCost \in Nat \ {0}, NEW dataCost \in Nat, NEW t \in Tasks(w)
    PROVE  LET rank == DownwardRank(w, downward, workCost, dataCost, t)
               cost(p) == RankCost(w, workCost, dataCost, p)
           IN  /\ rank \in Nat
               /\ \A p \in Predecessors(w, t) : rank >= cost(p) + downward[p]
               /\ Predecessors(w, t) # {} =>
                      \E p \in Predecessors(w, t) : rank = cost(p) + downward[p]
<1> DEFINE P == Predecessors(w, t)
           f == [p \in P |-> w.workload[p] * workCost + DataTransfer(w, p) * dataCost + downward[p]]
           max == Max({0} \cup {f[p] : p \in P})
           rank == DownwardRank(w, downward, workCost, dataCost, t)
           cost(p) == RankCost(w, workCost, dataCost, p)
<1>1. P \subseteq Tasks(w) /\ IsFiniteSet(P)
  BY NeighboursFinite
<1>2. rank = max
  BY DEF DownwardRank
<1>3. \A p \in P : f[p] = cost(p) + downward[p]
  BY DEF RankCost
<1>4. \A p \in P : cost(p) \in Nat /\ downward[p] \in Nat
  <2> HIDE DEF P
  <2> QED
    BY <1>1, RankCostType
<1> HIDE DEF P, rank, cost
<1>5. DOMAIN f = P /\ f = [p \in P |-> f[p]]
  OBVIOUS
<1> HIDE DEF f
<1>6. f \in [P -> Nat]
  BY <1>3, <1>4, <1>5
<1>7. max \in Nat /\ (\A p \in P : f[p] <= max) /\ (P # {} => \E p \in P : f[p] = max)
  BY <1>1, <1>6, MaxOfTerms, ZenonT(40)
<1> HIDE DEF max
<1>8. ASSUME NEW p \in P PROVE rank >= cost(p) + downward[p]
  BY <1>2, <1>3, <1>4, <1>7
<1>9. P # {} => \E p \in P : rank = cost(p) + downward[p]
  BY <1>2, <1>3, <1>7
<1> QED
  BY <1>2, <1>7, <1>8, <1>9 DEF rank, cost, P

----------------------------------------------------------------------------
\* A finite set of numbers has a first one among those with the least value.
LEMMA LeastExists ==
    ASSUME NEW S \in SUBSET Int, IsFiniteSet(S), S # {}, NEW f \in [S -> Int]
    PROVE  \E n \in S : \A m \in S : f[n] < f[m] \/ (f[n] = f[m] /\ n <= m)
<1> DEFINE A == {f[n] : n \in S}
           T == {n \in S : f[n] = Min(A)}
<1>1. S \in SUBSET Int
  OBVIOUS
<1>2. IsFiniteSet(S) /\ DOMAIN f = S
  OBVIOUS
<1>3. A \in SUBSET Int /\ A # {} /\ IsFiniteSet(A) /\ \A n \in S : f[n] \in A
  <2>1. A \in SUBSET Int /\ A # {} /\ \A n \in S : f[n] \in A
    OBVIOUS
  <2>2. IsFiniteSet(A)
    BY <1>2, ImageFinite
  <2> QED
    BY <2>1, <2>2
<1>4. PICK x \in S : f[x] = Min(A)
  <2>1. Min(A) \in A
    <3> HIDE DEF A
    <3> QED
      BY <1>3, MinProperty
  <2> QED
    BY <2>1
<1>5. \A n \in S : f[n] >= Min(A) /\ f[n] \in Int
  <2>1. \A y \in A : Min(A) <= y
    <3> HIDE DEF A
    <3> QED
      BY <1>3, MinProperty
  <2> HIDE DEF A
  <2>2. Min(A) \in Int
    BY <1>4
  <2> QED
    BY <1>3, <2>1, <2>2
<1> HIDE DEF A
<1>6. T \in SUBSET Int /\ T # {} /\ T \subseteq S
  BY <1>1, <1>4
<1>7. IsFiniteSet(T)
  BY <1>2, <1>6, FS_Subset
<1>8. \A n \in S : n \in T <=> f[n] = Min(A)
  OBVIOUS
<1> HIDE DEF T
<1>9. Min(T) \in T /\ \A m \in T : Min(T) <= m
  BY <1>6, <1>7, MinProperty
<1>10. Min(T) \in S /\ f[Min(T)] = Min(A)
  BY <1>6, <1>8, <1>9
<1>11. ASSUME NEW m \in S
       PROVE  f[Min(T)] < f[m] \/ (f[Min(T)] = f[m] /\ Min(T) <= m)
  <2>1. f[m] >= Min(A) /\ f[m] \in Int /\ f[Min(T)] \in Int
    BY <1>5, <1>10
  <2>2. f[m] = Min(A) => Min(T) <= m
    BY <1>8, <1>9
  <2> QED
    BY <1>10, <2>1, <2>2
<1> QED
  BY <1>10, <1>11

\* A set of nodes has a first one among those with the least value.
LEMMA FirstLeastExists ==
    ASSUME NEW S \in SUBSET Nodes, S # {}, NEW f \in [S -> Int]
    PROVE  \E n \in S : \A m \in S : f[n] < f[m] \/ (f[n] = f[m] /\ n <= m)
<1>1. Nodes \in SUBSET Int /\ IsFiniteSet(Nodes)
  <2>1. NumNodes \in Nat /\ 0 \in Int /\ NumNodes - 1 \in Int
    BY ClusterAssumption
  <2> QED
    BY <2>1, FS_Interval DEF Nodes
<1>2. S \in SUBSET Int /\ IsFiniteSet(S)
  BY <1>1, FS_Subset
<1> QED
  BY <1>2, LeastExists

\* insert_into_best_eft_node_schedule finds a node whenever the filter leaves one.
LEMMA BestNodeExists ==
    ASSUME NEW w, IsWorkflow(w), NEW s \in Schedules(w), NEW t \in Tasks(w),
           \A n \in Nodes : Disjoint(s.node[n]), CandidateNodes(w, s, t) # {}
    PROVE  \E n \in CandidateNodes(w, s, t) : IsBestNode(w, s, t, n, FALSE)
<1> DEFINE S == CandidateNodes(w, s, t)
           f == [n \in S |-> NewInterval(w, s, t, n).end]
<1>1. S \subseteq Nodes
  BY DEF CandidateNodes, NodesWithMemory
<1> HIDE DEF S
<1>2. ASSUME NEW n \in S PROVE NewInterval(w, s, t, n).end \in Int
  <2>1. n \in Nodes /\ Disjoint(s.node[n])
    BY <1>1
  <2>2. NewInterval(w, s, t, n) \in Interval
    BY <2>1, NewIntervalProperties
  <2> QED
    BY <2>2 DEF Interval
<1>3. f \in [S -> Int] /\ \A n \in S : f[n] = NewInterval(w, s, t, n).end
  BY <1>2
<1> HIDE DEF f
<1>4. S # {}
  BY DEF S
<1>5. PICK n \in S : \A m \in S : f[n] < f[m] \/ (f[n] = f[m] /\ n <= m)
  BY <1>1, <1>3, <1>4, FirstLeastExists
<1>6. IsBestNode(w, s, t, n, FALSE)
  BY <1>3, <1>5 DEF IsBestNode, S
<1> QED
  BY <1>6 DEF S

LEMMA PerformancePositive == \A n \in Nodes : Performance[n] \in Nat \ {0}
<1> SUFFICES ASSUME NEW n \in Nodes PROVE Performance[n] \in Nat \ {0}
  OBVIOUS
<1>1. CorePerformance[n] \in Nat \ {0} /\ NumCores[n] \in Nat \ {0}
  BY ClusterAssumption
<1>2. CorePerformance[n] * NumCores[n] \in Nat \ {0}
  BY <1>1, ProductPositive
<1> QED
  BY <1>2 DEF Performance

\* best_performance_node: where max_element looks for it, there is one.
LEMMA BestPerformanceNodeProperty ==
    ASSUME NEW requirement, NodesWithMemory(requirement) # {}
    PROVE  LET best == BestPerformanceNode(requirement)
           IN  /\ best \in NodesWithMemory(requirement)
               /\ \A m \in NodesWithMemory(requirement) : Performance[m] <= Performance[best]
<1> DEFINE S == NodesWithMemory(requirement)
           f == [n \in S |-> 0 - Performance[n]]
           R(n) == \A m \in S : \/ Performance[n] > Performance[m]
                                \/ Performance[n] = Performance[m] /\ n <= m
<1>1. S \subseteq Nodes
  BY DEF NodesWithMemory
<1>2. BestPerformanceNode(requirement) = CHOOSE n \in S : R(n)
  BY DEF BestPerformanceNode
<1> HIDE DEF S
<1>3. \A n \in S : Performance[n] \in Nat
  BY <1>1, PerformancePositive
<1>4. f \in [S -> Int] /\ \A n \in S : f[n] = 0 - Performance[n]
  BY <1>3
<1> HIDE DEF f
<1>5. S # {}
  BY DEF S
<1>6. PICK n \in S : \A m \in S : f[n] < f[m] \/ (f[n] = f[m] /\ n <= m)
  BY <1>1, <1>4, <1>5, FirstLeastExists
<1>7. R(n)
  BY <1>3, <1>4, <1>6
<1> HIDE DEF R
<1>8. BestPerformanceNode(requirement) \in S /\ R(BestPerformanceNode(requirement))
  BY <1>2, <1>7
<1>9. \A m \in S : Performance[m] <= Performance[BestPerformanceNode(requirement)]
  BY <1>3, <1>8 DEF R
<1> QED
  BY <1>8, <1>9 DEF S

----------------------------------------------------------------------------
\* The sum of the values of f over a set, as every fold of the models computes it.
SumOver(f, S) == MapThenSumSet(LAMBDA x : f[x], S)

\* g maps each subset of S to the sum of f over it.
Sums(g, f, S) ==
    /\ g \in [SUBSET S -> Int]
    /\ g[{}] = 0
    /\ \A T \in SUBSET S : \A x \in T : g[T] = f[x] + g[T \ {x}]

(***************************************************************************)
(* There are such sums: a smallest set without them would have one element *)
(* more than a set that has them, and its sums are easily made of those.   *)
(***************************************************************************)
LEMMA SumsExist ==
    ASSUME NEW S, IsFiniteSet(S), NEW f, \A x \in S : f[x] \in Int
    PROVE  \E g : Sums(g, f, S)
<1> DEFINE Without == {T \in FiniteSubsetsOf(S) : ~ \E g : Sums(g, f, T)}
<1>1. S \in FiniteSubsetsOf(S)
  BY DEF FiniteSubsetsOf
<1>2. ASSUME Without # {} PROVE FALSE
  <2>1. PICK T \in Without : \A U \in Without : <<U, T>> \notin StrictSubsetOrdering(S)
    <3>1. IsWellFoundedOn(StrictSubsetOrdering(S), FiniteSubsetsOf(S))
      BY FS_StrictSubsetOrderingWellFounded
    <3>2. Without \subseteq FiniteSubsetsOf(S)
      OBVIOUS
    <3> HIDE DEF Without
    <3> QED
      BY <1>2, <3>1, <3>2, WFMin
  <2>2. T \in SUBSET S /\ IsFiniteSet(T) /\ ~ \E g : Sums(g, f, T)
    BY DEF FiniteSubsetsOf
  <2>3. CASE T = {}
    <3>1. Sums([U \in SUBSET {} |-> 0], f, {})
      BY DEF Sums
    <3> QED
      BY <2>2, <2>3, <3>1
  <2>4. CASE T # {}
    <3>1. PICK y \in T : TRUE
      BY <2>4
    <3> DEFINE U == T \ {y}
    <3>2. U \in SUBSET S /\ IsFiniteSet(U) /\ U # T /\ U \subseteq T
      BY <2>2, <3>1, FS_Subset
    <3>3. <<U, T>> \in StrictSubsetOrdering(S)
      BY <2>2, <3>2 DEF StrictSubsetOrdering
    <3>4. PICK g : Sums(g, f, U)
      <4>1. U \notin Without
        BY <2>1, <3>3
      <4> QED
        BY <3>2, <4>1 DEF FiniteSubsetsOf
    <3> DEFINE h == [V \in SUBSET T |-> IF y \in V THEN f[y] + g[V \ {y}] ELSE g[V]]
    <3>5. f[y] \in Int /\ \A V \in SUBSET U : g[V] \in Int
      BY <2>2, <3>1, <3>4 DEF Sums
    <3>6. \A V \in SUBSET T : V \ {y} \in SUBSET U /\ (y \notin V => V \in SUBSET U)
      OBVIOUS
    <3>7. h \in [SUBSET T -> Int]
      BY <3>5, <3>6
    <3>8. \A V \in SUBSET T : h[V] = IF y \in V THEN f[y] + g[V \ {y}] ELSE g[V]
      OBVIOUS
    <3> HIDE DEF h
    <3>9. h[{}] = 0
      BY <3>4, <3>8 DEF Sums
    <3>10. ASSUME NEW V \in SUBSET T, NEW x \in V
           PROVE  h[V] = f[x] + h[V \ {x}]
      <4>1. V \ {x} \in SUBSET T
        OBVIOUS
      <4>2. CASE x = y
        <5>1. h[V] = f[y] + g[V \ {y}] /\ h[V \ {x}] = g[V \ {x}]
          BY <3>8, <4>1, <4>2
        <5> QED
          BY <4>2, <5>1
      <4>3. CASE x # y /\ y \notin V
        <5>1. V \in SUBSET U /\ y \notin V \ {x}
          BY <3>6, <4>3
        <5>2. h[V] = g[V] /\ h[V \ {x}] = g[V \ {x}]
          BY <3>8, <4>1, <4>3, <5>1
        <5>3. g[V] = f[x] + g[V \ {x}]
          BY <3>4, <5>1 DEF Sums
        <5> QED
          BY <5>2, <5>3
      <4>4. CASE x # y /\ y \in V
        <5> DEFINE R == V \ {y}
                   Q == R \ {x}
        <5>1. R \in SUBSET U /\ x \in R /\ Q \in SUBSET U /\ (V \ {x}) \ {y} = Q
          BY <3>6, <4>4
        <5>2. h[V] = f[y] + g[R] /\ h[V \ {x}] = f[y] + g[Q]
          BY <3>8, <4>1, <4>4, <5>1
        <5>3. g[R] = f[x] + g[Q]
          BY <3>4, <5>1 DEF Sums
        <5>4. f[x] \in Int /\ f[y] \in Int /\ g[Q] \in Int
          BY <2>2, <3>5, <5>1
        <5> HIDE DEF R, Q
        <5> QED
          BY <5>2, <5>3, <5>4
      <4> QED
        BY <4>2, <4>3, <4>4
    <3>11. Sums(h, f, T)
      BY <3>7, <3>9, <3>10 DEF Sums
    <3> QED
      BY <2>2, <3>11
  <2> QED
    BY <2>3, <2>4
<1> QED
  BY <1>1, <1>2

\* h folds f over each subset of S, pick[T] being taken first from T.
FoldsFrom(h, pick, f, S) ==
    /\ h[{}] = 0
    /\ \A T \in SUBSET S :
           T # {} => /\ pick[T] \in T
                     /\ \/ h[T] = f[pick[T]] + h[T \ {pick[T]}]
                        \/ h[T] = h[T \ {pick[T]}] + f[pick[T]]

\* Whatever element is taken first, a fold arrives at the same sum.
LEMMA FoldIsSum ==
    ASSUME NEW S, IsFiniteSet(S), NEW f, \A x \in S : f[x] \in Int,
           NEW g, Sums(g, f, S),
           NEW pick, NEW h, FoldsFrom(h, pick, f, S)
    PROVE  \A T \in SUBSET S : h[T] = g[T]
<1> DEFINE Other == {T \in FiniteSubsetsOf(S) : h[T] # g[T]}
<1>1. ASSUME Other # {} PROVE FALSE
  <2>1. PICK T \in Other : \A U \in Other : <<U, T>> \notin StrictSubsetOrdering(S)
    <3>1. IsWellFoundedOn(StrictSubsetOrdering(S), FiniteSubsetsOf(S))
      BY FS_StrictSubsetOrderingWellFounded
    <3>2. Other \subseteq FiniteSubsetsOf(S)
      OBVIOUS
    <3> HIDE DEF Other
    <3> QED
      BY <1>1, <3>1, <3>2, WFMin
  <2>2. T \in SUBSET S /\ IsFiniteSet(T) /\ h[T] # g[T]
    BY DEF FiniteSubsetsOf
  <2>3. T # {}
    BY <2>2 DEF Sums, FoldsFrom
  <2> DEFINE x == pick[T]
             U == T \ {x}
  <2>4. x \in T /\ U \in SUBSET S /\ IsFiniteSet(U) /\ U # T /\ U \subseteq T
    BY <2>2, <2>3, FS_Subset DEF FoldsFrom
  <2>5. <<U, T>> \in StrictSubsetOrdering(S)
    BY <2>2, <2>4 DEF StrictSubsetOrdering
  <2>6. h[U] = g[U]
    BY <2>1, <2>4, <2>5 DEF FiniteSubsetsOf
  <2>7. /\ h[T] = f[x] + h[U] \/ h[T] = h[U] + f[x]
        /\ g[T] = f[x] + g[U]
        /\ f[x] \in Int /\ g[U] \in Int
    BY <2>2, <2>3, <2>4 DEF Sums, FoldsFrom
  <2> HIDE DEF U, x
  <2> QED
    BY <2>2, <2>6, <2>7
<1>2. \A T \in SUBSET S : IsFiniteSet(T)
  BY FS_Subset
<1> QED
  BY <1>1, <1>2 DEF FiniteSubsetsOf

LEMMA SumOverIsSum ==
    ASSUME NEW S, IsFiniteSet(S), NEW f, \A x \in S : f[x] \in Int,
           NEW g, Sums(g, f, S)
    PROVE  SumOver(f, S) = g[S]
<1> DEFINE Iter(h) == h = [T \in SUBSET S |->
                              IF T = {} THEN 0
                              ELSE f[CHOOSE x \in T : TRUE] + h[T \ {CHOOSE x \in T : TRUE}]]
           iter == CHOOSE h : Iter(h)
           pick == [T \in SUBSET S |-> CHOOSE x \in T : TRUE]
<1>1. SumOver(f, S) = iter[S]
  BY DEF SumOver, MapThenSumSet, MapThenFoldSet
<1>2. \A T \in SUBSET S : T # {} => (CHOOSE x \in T : TRUE) \in T
  OBVIOUS
<1>3. Iter(g)
  BY <1>2 DEF Sums
<1>4. Iter(iter)
  BY <1>3
<1>5. \A T \in SUBSET S : T # {} => pick[T] \in T
  BY <1>2
<1>6. iter[{}] = 0 /\ \A T \in SUBSET S : T # {} => iter[T] = f[pick[T]] + iter[T \ {pick[T]}]
  <2> HIDE DEF iter
  <2> QED
    BY <1>4
<1> HIDE DEF iter, pick, Iter
<1>7. \A T \in SUBSET S : iter[T] = g[T]
  <2>1. FoldsFrom(iter, pick, f, S)
    BY <1>5, <1>6 DEF FoldsFrom
  <2> QED
    BY <2>1, FoldIsSum
<1> QED
  BY <1>1, <1>7

LEMMA SumOverSubset ==
    ASSUME NEW S, IsFiniteSet(S), NEW f, \A x \in S : f[x] \in Int,
           NEW g, Sums(g, f, S), NEW T \in SUBSET S
    PROVE  SumOver(f, T) = g[T]
<1> DEFINE h == [U \in SUBSET T |-> g[U]]
<1>1. IsFiniteSet(T) /\ \A x \in T : f[x] \in Int
  BY FS_Subset
<1>2. \A U \in SUBSET T : U \in SUBSET S /\ h[U] = g[U]
  OBVIOUS
<1>3. Sums(h, f, T)
  <2>1. h \in [SUBSET T -> Int]
    BY <1>2 DEF Sums
  <2> HIDE DEF h
  <2>2. \A U \in SUBSET T : \A x \in U : U \ {x} \in SUBSET T
    OBVIOUS
  <2> QED
    BY <1>2, <2>1, <2>2 DEF Sums
<1> HIDE DEF h
<1> QED
  BY <1>1, <1>2, <1>3, SumOverIsSum

LEMMA SumOverEmpty == ASSUME NEW f PROVE SumOver(f, {}) = 0
<1>1. IsFiniteSet({}) /\ \A x \in {} : f[x] \in Int
  BY FS_EmptySet
<1>2. PICK g : Sums(g, f, {})
  BY <1>1, SumsExist
<1> QED
  BY <1>1, <1>2, SumOverIsSum DEF Sums

\* Any element may be taken out of a sum.
LEMMA SumOverElement ==
    ASSUME NEW S, IsFiniteSet(S), NEW f, \A x \in S : f[x] \in Int
    PROVE  /\ SumOver(f, S) \in Int
           /\ \A x \in S : SumOver(f, S) = f[x] + SumOver(f, S \ {x})
<1>1. PICK g : Sums(g, f, S)
  BY SumsExist
<1>2. \A T \in SUBSET S : SumOver(f, T) = g[T]
  BY <1>1, SumOverSubset
<1> QED
  BY <1>1, <1>2 DEF Sums

LEMMA SumOverNat ==
    ASSUME NEW S, IsFiniteSet(S), NEW f, \A x \in S : f[x] \in Nat
    PROVE  SumOver(f, S) \in Nat
<1> DEFINE Negative == {T \in FiniteSubsetsOf(S) : SumOver(f, T) \notin Nat}
<1>1. ASSUME Negative # {} PROVE FALSE
  <2>1. PICK T \in Negative : \A U \in Negative : <<U, T>> \notin StrictSubsetOrdering(S)
    <3>1. IsWellFoundedOn(StrictSubsetOrdering(S), FiniteSubsetsOf(S))
      BY FS_StrictSubsetOrderingWellFounded
    <3>2. Negative \subseteq FiniteSubsetsOf(S)
      OBVIOUS
    <3> HIDE DEF Negative
    <3> QED
      BY <1>1, <3>1, <3>2, WFMin
  <2>2. T \in SUBSET S /\ IsFiniteSet(T) /\ SumOver(f, T) \notin Nat
    BY DEF FiniteSubsetsOf
  <2>3. PICK x \in T : TRUE
    BY <2>2, SumOverEmpty
  <2> DEFINE U == T \ {x}
  <2>4. U \in SUBSET S /\ IsFiniteSet(U) /\ U # T /\ U \subseteq T
    BY <2>2, <2>3, FS_Subset
  <2>5. <<U, T>> \in StrictSubsetOrdering(S)
    BY <2>2, <2>4 DEF StrictSubsetOrdering
  <2>6. SumOver(f, U) \in Nat
    BY <2>1, <2>4, <2>5 DEF FiniteSubsetsOf
  <2>7. f[x] \in Nat /\ \A y \in T : f[y] \in Int
    BY <2>2, <2>3
  <2>8. SumOver(f, T) = f[x] + SumOver(f, U)
    BY <2>2, <2>3, <2>7, SumOverElement
  <2> HIDE DEF U
  <2> QED
    BY <2>2, <2>6, <2>7, <2>8
<1> QED
  BY <1>1, FS_Subset DEF FiniteSubsetsOf

\* The sum over 1 .. n grows by its last term.
LEMMA SumOverInterval ==
    ASSUME NEW n \in Nat, NEW f, \A i \in 1 .. n + 1 : f[i] \in Int
    PROVE  SumOver(f, 1 .. n + 1) = SumOver(f, 1 .. n) + f[n + 1] /\ SumOver(f, 1 .. n) \in Int
<1> DEFINE S == 1 .. n + 1
           T == 1 .. n
<1>1. IsFiniteSet(S) /\ IsFiniteSet(T)
  BY FS_Interval
<1>2. n + 1 \in S /\ S \ {n + 1} = T /\ T \subseteq S
  OBVIOUS
<1>3. f[n + 1] \in Int /\ \A i \in S : f[i] \in Int
  BY <1>2
<1> HIDE DEF S, T
<1>4. SumOver(f, S) = f[n + 1] + SumOver(f, T)
  BY <1>1, <1>2, <1>3, SumOverElement
<1>5. SumOver(f, T) \in Int
  BY <1>1, <1>2, <1>3, SumOverElement
<1> QED
  BY <1>3, <1>4, <1>5 DEF S, T
LEMMA SumOverPositive ==
    ASSUME NEW S, IsFiniteSet(S), S # {}, NEW f, \A x \in S : f[x] \in Nat \ {0}
    PROVE  SumOver(f, S) \in Nat \ {0}
<1>1. PICK x \in S : TRUE
  OBVIOUS
<1>2. \A y \in S : f[y] \in Int /\ f[y] \in Nat
  OBVIOUS
<1>3. SumOver(f, S) = f[x] + SumOver(f, S \ {x})
  BY <1>2, SumOverElement
<1>4. IsFiniteSet(S \ {x}) /\ \A y \in S \ {x} : f[y] \in Nat
  BY <1>2, FS_RemoveElement
<1>5. SumOver(f, S \ {x}) \in Nat
  BY <1>4, SumOverNat
<1>6. f[x] \in Nat \ {0}
  OBVIOUS
<1> QED
  BY <1>3, <1>5, <1>6

LEMMA SumFunctionIsSumOver == ASSUME NEW f PROVE SumFunction(f) = SumOver(f, DOMAIN f)
BY DEF SumFunction, SumFunctionOnSet, FoldFunctionOnSet, SumOver, MapThenSumSet

\* A sum of positive numbers is positive.
LEMMA ClusterSumsPositive == PerformanceSum \in Nat \ {0} /\ BandwidthSum \in Nat \ {0}
<1>1. IsFiniteSet(Nodes) /\ Nodes # {}
  <2>1. NumNodes \in Nat \ {0} /\ 0 \in Int /\ NumNodes - 1 \in Int
    BY ClusterAssumption
  <2>2. 0 \in Nodes
    BY <2>1 DEF Nodes
  <2>3. IsFiniteSet(Nodes)
    BY <2>1, FS_Interval DEF Nodes
  <2> QED
    BY <2>2, <2>3
<1>2. PerformanceSum \in Nat \ {0}
  <2>1. \A n \in Nodes : CorePerformance[n] \in Nat \ {0} /\ NumCores[n] \in Nat \ {0}
    BY ClusterAssumption
  <2>2. \A n \in Nodes : Performance[n] \in Nat \ {0}
    BY <2>1, ProductPositive DEF Performance
  <2>3. SumOver(Performance, Nodes) \in Nat \ {0}
    BY <1>1, <2>2, SumOverPositive
  <2>4. DOMAIN Performance = Nodes
    BY DEF Performance
  <2> QED
    BY <2>3, <2>4, SumFunctionIsSumOver DEF PerformanceSum
<1>3. BandwidthSum \in Nat \ {0}
  <2>1. NetworkBandwidth \in [Nodes -> Nat \ {0}]
    BY ClusterAssumption
  <2>2. SumOver(NetworkBandwidth, Nodes) \in Nat \ {0}
    BY <1>1, <2>1, SumOverPositive
  <2> QED
    BY <2>1, <2>2, SumFunctionIsSumOver DEF BandwidthSum
<1> QED
  BY <1>2, <1>3
\* A sum may be taken over any names of its terms.
Renames(h, f, g, S) ==
    /\ \A x \in S : f[x] = g[h[x]] /\ f[x] \in Int
    /\ \A x, y \in S : h[x] = h[y] => x = y

LEMMA SumOverRenamed ==
    ASSUME NEW S, IsFiniteSet(S), NEW f, NEW g, NEW h, Renames(h, f, g, S)
    PROVE  SumOver(f, S) = SumOver(g, {h[x] : x \in S})
<1> DEFINE Names(T) == {h[x] : x \in T}
           Other == {T \in FiniteSubsetsOf(S) : SumOver(f, T) # SumOver(g, Names(T))}
<1>1. ASSUME Other # {} PROVE FALSE
  <2>1. PICK T \in Other : \A U \in Other : <<U, T>> \notin StrictSubsetOrdering(S)
    <3>1. IsWellFoundedOn(StrictSubsetOrdering(S), FiniteSubsetsOf(S))
      BY FS_StrictSubsetOrderingWellFounded
    <3>2. Other \subseteq FiniteSubsetsOf(S)
      OBVIOUS
    <3> HIDE DEF Other
    <3> QED
      BY <1>1, <3>1, <3>2, WFMin
  <2>2. T \in SUBSET S /\ IsFiniteSet(T) /\ SumOver(f, T) # SumOver(g, Names(T))
    BY DEF FiniteSubsetsOf
  <2>3. T # {}
    <3>1. T = {} => Names(T) = {}
      OBVIOUS
    <3> QED
      BY <2>2, <3>1, SumOverEmpty
  <2>4. PICK x \in T : TRUE
    BY <2>3
  <2> DEFINE U == T \ {x}
  <2>5. U \in SUBSET S /\ IsFiniteSet(U) /\ U # T /\ U \subseteq T
    BY <2>2, <2>4, FS_Subset
  <2>6. <<U, T>> \in StrictSubsetOrdering(S)
    BY <2>2, <2>5 DEF StrictSubsetOrdering
  <2>7. SumOver(f, U) = SumOver(g, Names(U))
    BY <2>1, <2>5, <2>6 DEF FiniteSubsetsOf
  <2>8. /\ \A y \in T : f[y] = g[h[y]] /\ f[y] \in Int
        /\ \A y, z \in T : h[y] = h[z] => y = z
    BY <2>2 DEF Renames
  <2>9. SumOver(f, T) = f[x] + SumOver(f, U)
    BY <2>2, <2>4, <2>8, SumOverElement
  <2>10. IsFiniteSet(Names(T))
    <3> DEFINE k == [y \in T |-> h[y]]
    <3>1. DOMAIN k = T /\ Names(T) = {k[y] : y \in T}
      OBVIOUS
    <3> HIDE DEF k, Names
    <3> QED
      BY <2>2, <3>1, ImageFinite
  <2>11. h[x] \in Names(T) /\ (\A y \in Names(T) : g[y] \in Int) /\ Names(T) \ {h[x]} = Names(U)
    BY <2>4, <2>8
  <2> HIDE DEF Names, U
  <2>12. SumOver(g, Names(T)) = g[h[x]] + SumOver(g, Names(U))
    BY <2>10, <2>11, SumOverElement
  <2> QED
    BY <2>2, <2>4, <2>7, <2>8, <2>9, <2>12
<1>2. S \in FiniteSubsetsOf(S)
  BY FS_Subset DEF FiniteSubsetsOf
<1> QED
  BY <1>1, <1>2

----------------------------------------------------------------------------
\* find_predecessor_interval charges another node's bandwidth than the
\* scheduling did, which makes no difference if all bandwidths are the same.
LEMMA SameDataTime ==
    ASSUME UniformBandwidth, NEW n \in Nodes, NEW m \in Nodes
    PROVE  DataTime[n] = DataTime[m]
<1>1. NetworkBandwidth[n] = NetworkBandwidth[m]
  BY DEF UniformBandwidth
<1>2. /\ DataTime[n] = ExactQuotient(Scale, NetworkBandwidth[n])
      /\ DataTime[m] = ExactQuotient(Scale, NetworkBandwidth[m])
  BY DEF DataTime
<1> QED
  BY <1>1, <1>2

LEMMA ExactQuotientProperty ==
    ASSUME NEW a \in Nat, NEW b, \E q \in 1 .. a : q * b = a
    PROVE  ExactQuotient(a, b) * b = a
<1>1. \E q \in 0 .. a : q * b = a
  OBVIOUS
<1> QED
  BY <1>1 DEF ExactQuotient

LEMMA LargerDivisorSmallerQuotient ==
    ASSUME NEW a \in Nat \ {0}, NEW b \in Nat \ {0}, NEW c \in Nat \ {0}, NEW d \in Nat \ {0},
           a * b = c * d, d <= b
    PROVE  a <= c
<1> SUFFICES ASSUME c + 1 <= a PROVE FALSE
  OBVIOUS
<1>1. (c + 1) * b <= a * b
  OBVIOUS
<1>2. c * d <= c * b
  OBVIOUS
<1>3. (c + 1) * b = c * b + b
  OBVIOUS
<1> QED
  BY <1>1, <1>2, <1>3

\* Sending a unit of data takes longer only at a smaller bandwidth.
LEMMA LongerAtLessBandwidth ==
    ASSUME NEW n \in Nodes, NEW m \in Nodes, DataTime[m] < DataTime[n]
    PROVE  NetworkBandwidth[n] < NetworkBandwidth[m]
<1> DEFINE a == DataTime[n]
           b == NetworkBandwidth[n]
           c == DataTime[m]
           d == NetworkBandwidth[m]
<1>1. a \in Nat \ {0} /\ c \in Nat \ {0} /\ b \in Nat \ {0} /\ d \in Nat \ {0}
  BY TicksPositive, ClusterAssumption
<1>2. a * b = Scale /\ c * d = Scale
  BY ScaleAssumption, ExactQuotientProperty DEF DataTime
<1>3. c < a
  OBVIOUS
<1> HIDE DEF a, b, c, d
<1>4. ~(d <= b)
  BY <1>1, <1>2, <1>3, LargerDivisorSmallerQuotient
<1> QED
  BY <1>1, <1>4 DEF b, d

LEMMA DisjointIsValid ==
    ASSUME NEW q \in Seq(Interval), Disjoint(q)
    PROVE  IsValidOnNode(q)
<1>1. Len(q) \in Nat /\ \A k \in Indices(q) : q[k] \in Interval
  BY DEF Indices
<1> SUFFICES ASSUME NEW k \in Indices(q)
             PROVE  q[k].start <= q[k].end /\ (k < Len(q) => q[k].end <= q[k + 1].start)
  BY DEF IsValidOnNode
<1>2. q[k].start \in Nat /\ q[k].end \in Nat
  BY <1>1 DEF Interval
<1>3. q[k].start < q[k].end
  BY DEF Disjoint
<1>4. ASSUME k < Len(q) PROVE q[k].end <= q[k + 1].start
  <2>1. k + 1 \in Indices(q) /\ k < k + 1
    BY <1>1, <1>4 DEF Indices
  <2> QED
    BY <2>1 DEF Disjoint
<1> QED
  BY <1>2, <1>3, <1>4

----------------------------------------------------------------------------
\* The tasks per bag, as a function to sum over.
Cardinalities(given) == [b \in 1 .. Len(given) |-> given[b].cardinality]

LEMMA FirstIdIsSum ==
    ASSUME NEW given \in Seq(TaskBag), NEW b \in 1 .. Len(given) + 1
    PROVE  FirstId(given, b) = SumOver(Cardinalities(given), 1 .. b - 1)
<1> DEFINE c == Cardinalities(given)
           seq == SubSeq(given, 1, b - 1)
           D == DOMAIN seq
<1>1. Len(given) \in Nat /\ b - 1 \in Nat
  OBVIOUS
<1>2. D = 1 .. b - 1 /\ \A i \in D : seq[i] = given[i] /\ i \in 1 .. Len(given)
  BY <1>1
<1>3. \A i \in D : c[i] = given[i].cardinality /\ c[i] \in Nat
  <2>1. \A i \in D : given[i] \in TaskBag
    BY <1>2
  <2> QED
    BY <1>2, <2>1 DEF Cardinalities, TaskBag
<1>4. IsFiniteSet(D) /\ D \in SUBSET Int
  BY <1>1, <1>2, FS_Interval
<1> HIDE DEF c, D, seq
<1>5. \A i \in D : c[i] \in Int
  BY <1>3
<1>6. PICK g : Sums(g, c, D)
  BY <1>4, <1>5, SumsExist
<1>7. SumOver(c, D) = g[D]
  BY <1>4, <1>5, <1>6, SumOverIsSum
<1> DEFINE Iter(h) == h = [T \in SUBSET D |->
                              IF T = {} THEN 0
                              ELSE h[T \ {Max(T)}] + seq[Max(T)].cardinality]
           iter == CHOOSE h : Iter(h)
           pick == [T \in SUBSET D |-> Max(T)]
<1>8. FirstId(given, b) = iter[D]
  BY DEF FirstId, FoldLeft, MapThenFoldSet, seq, D
<1>9. ASSUME NEW T \in SUBSET D, T # {} PROVE Max(T) \in T
  <2>1. IsFiniteSet(T) /\ T \in SUBSET Int
    BY <1>4, FS_Subset
  <2> QED
    BY <1>9, <2>1, MaxProperty
<1>10. Iter(g)
  <2>1. g = [T \in SUBSET D |-> g[T]]
    BY <1>6 DEF Sums
  <2>2. ASSUME NEW T \in SUBSET D
        PROVE  g[T] = IF T = {} THEN 0 ELSE g[T \ {Max(T)}] + seq[Max(T)].cardinality
    <3>1. CASE T = {}
      BY <1>6, <3>1 DEF Sums
    <3>2. CASE T # {}
      <4> DEFINE x == Max(T)
      <4>1. x \in T /\ x \in D
        BY <1>9, <3>2
      <4> HIDE DEF x
      <4>2. g[T] = c[x] + g[T \ {x}] /\ g[T \ {x}] \in Int
        BY <1>6, <4>1 DEF Sums
      <4>3. c[x] = seq[x].cardinality /\ c[x] \in Int
        BY <1>2, <1>3, <4>1
      <4>4. g[T] = g[T \ {x}] + seq[x].cardinality
        BY <4>2, <4>3
      <4> QED
        BY <3>2, <4>4 DEF x
    <3> QED
      BY <3>1, <3>2
  <2> QED
    BY <2>1, <2>2
<1>11. Iter(iter)
  BY <1>10
<1>12. \A T \in SUBSET D : T # {} => pick[T] \in T /\ pick[T] = Max(T)
  BY <1>9
<1> HIDE DEF iter, pick
<1>13. FoldsFrom(iter, pick, c, D)
  <2>1. iter[{}] = 0
    BY <1>11
  <2>2. ASSUME NEW T \in SUBSET D, T # {}
        PROVE  pick[T] \in T /\ iter[T] = iter[T \ {pick[T]}] + c[pick[T]]
    <3>1. iter[T] = iter[T \ {Max(T)}] + seq[Max(T)].cardinality
      BY <1>11, <2>2
    <3> QED
      BY <1>2, <1>3, <1>12, <2>2, <3>1
  <2> QED
    BY <2>1, <2>2 DEF FoldsFrom
<1>14. \A T \in SUBSET D : iter[T] = g[T]
  <2>1. ASSUME NEW p, NEW h, FoldsFrom(h, p, c, D)
        PROVE  \A T \in SUBSET D : h[T] = g[T]
    <3>1. IsFiniteSet(D)
      BY <1>4
    <3> QED
      BY <1>5, <1>6, <2>1, <3>1, FoldIsSum
  <2> QED
    BY <1>13, <2>1
<1> QED
  BY <1>2, <1>7, <1>8, <1>14 DEF c

----------------------------------------------------------------------------
LEMMA DivisionProperty ==
    ASSUME NEW n \in Nat, NEW k \in Nat \ {0}
    PROVE  /\ n \div k \in Nat
           /\ n % k \in 0 .. k - 1
           /\ n = k * (n \div k) + (n % k)
<1>1. n % k \in 0 .. k - 1
  OBVIOUS
<1>2. n = k * (n \div k) + (n % k)
  OBVIOUS
<1>3. n \div k \in Int
  OBVIOUS
<1>4. n \div k >= 0
  OBVIOUS
<1> QED
  BY <1>1, <1>2, <1>3, <1>4

\* f[1], ..., f[k + 1] cut a range of numbers into k pieces.
Cuts(f, k) ==
    /\ \A i \in 1 .. k + 1 : f[i] \in Nat
    /\ \A i \in 1 .. k : f[i] <= f[i + 1]

LEMMA CutsAscend ==
    ASSUME NEW k \in Nat, NEW f, Cuts(f, k), NEW i \in 1 .. k + 1
    PROVE  \A j \in i .. k + 1 : f[i] <= f[j]
<1> DEFINE Less == {j \in Nat : j \in i .. k + 1 /\ ~(f[i] <= f[j])}
<1>1. ASSUME Less # {} PROVE FALSE
  <2>1. PICK j \in Less : \A l \in Less : <<l, j>> \notin OpToRel(<, Nat)
    BY <1>1, NatLessThanWellFounded, WFMin
  <2>2. j \in Nat /\ j \in i .. k + 1 /\ ~(f[i] <= f[j])
    OBVIOUS
  <2>3. f[i] \in Nat /\ f[j] \in Nat
    BY <2>2 DEF Cuts
  <2>4. j # i
    BY <2>2, <2>3
  <2>5. j - 1 \in Nat /\ j - 1 \in i .. k + 1 /\ j - 1 \in 1 .. k /\ (j - 1) + 1 = j
    BY <2>2, <2>4
  <2>6. <<j - 1, j>> \in OpToRel(<, Nat)
    BY <2>2, <2>5 DEF OpToRel
  <2>7. f[i] <= f[j - 1]
    BY <2>1, <2>5, <2>6
  <2>8. f[j - 1] <= f[j] /\ f[j - 1] \in Nat
    BY <2>5 DEF Cuts
  <2> QED
    BY <2>2, <2>3, <2>7, <2>8
<1> QED
  BY <1>1

\* Every number of the range is in one of the pieces, and in no other.
LEMMA CutsCover ==
    ASSUME NEW k \in Nat, NEW f, Cuts(f, k), NEW t \in Nat, f[1] <= t, t < f[k + 1]
    PROVE  \E i \in 1 .. k : f[i] <= t /\ t < f[i + 1]
<1> DEFINE Beyond == {i \in Nat : i \in 1 .. k + 1 /\ t < f[i]}
<1>1. k + 1 \in Beyond
  OBVIOUS
<1>2. PICK i \in Beyond : \A l \in Beyond : <<l, i>> \notin OpToRel(<, Nat)
  BY <1>1, NatLessThanWellFounded, WFMin
<1>3. i \in 1 .. k + 1 /\ i \in Nat /\ t < f[i]
  OBVIOUS
<1>4. f[1] \in Nat
  BY DEF Cuts
<1>5. i # 1
  BY <1>3, <1>4
<1>6. i - 1 \in 1 .. k /\ i - 1 \in Nat /\ (i - 1) + 1 = i /\ i - 1 \in 1 .. k + 1
  BY <1>3, <1>5
<1>7. <<i - 1, i>> \in OpToRel(<, Nat)
  BY <1>3, <1>6 DEF OpToRel
<1>8. ~(t < f[i - 1]) /\ f[i - 1] \in Nat
  BY <1>2, <1>6, <1>7 DEF Cuts
<1> QED
  BY <1>3, <1>6, <1>8

LEMMA CutsDisjoint ==
    ASSUME NEW k \in Nat, NEW f, Cuts(f, k), NEW i \in 1 .. k, NEW j \in 1 .. k, i < j, NEW t \in Int
    PROVE  ~(t < f[i + 1] /\ f[j] <= t)
<1>1. i + 1 \in 1 .. k + 1 /\ j \in i + 1 .. k + 1 /\ j \in 1 .. k + 1
  OBVIOUS
<1>2. f[i + 1] <= f[j] /\ f[i + 1] \in Nat /\ f[j] \in Nat
  <2>1. f[i + 1] <= f[j]
    BY <1>1, CutsAscend
  <2> QED
    BY <1>1, <2>1 DEF Cuts
<1> QED
  BY <1>2

----------------------------------------------------------------------------
\* Ids are handed out bag after bag.
LEMMA FirstIdProperty ==
    ASSUME NEW x \in Seq(TaskBag)
    PROVE  /\ FirstId(x, 1) = 0
           /\ \A b \in 1 .. Len(x) + 1 : FirstId(x, b) \in Nat
           /\ \A b \in 1 .. Len(x) : /\ x[b].cardinality \in Nat
                                     /\ FirstId(x, b + 1) = FirstId(x, b) + x[b].cardinality
<1> DEFINE c == Cardinalities(x)
<1>1. Len(x) \in Nat /\ \A b \in 1 .. Len(x) : c[b] = x[b].cardinality /\ c[b] \in Nat
  <2>1. Len(x) \in Nat /\ \A b \in 1 .. Len(x) : x[b] \in TaskBag
    OBVIOUS
  <2> QED
    BY <2>1 DEF Cardinalities, TaskBag
<1>2. \A b \in 1 .. Len(x) + 1 : FirstId(x, b) = SumOver(c, 1 .. b - 1)
  BY FirstIdIsSum
<1> HIDE DEF c
<1>3. FirstId(x, 1) = 0
  <2>1. 1 \in 1 .. Len(x) + 1 /\ 1 .. 1 - 1 = {}
    BY <1>1
  <2> QED
    BY <1>2, <2>1, SumOverEmpty
<1>4. ASSUME NEW b \in 1 .. Len(x) + 1 PROVE FirstId(x, b) \in Nat
  <2> DEFINE D == 1 .. b - 1
  <2>1. IsFiniteSet(D)
    BY FS_Interval
  <2>2. \A i \in D : c[i] \in Nat
    BY <1>1
  <2> HIDE DEF D
  <2>3. SumOver(c, D) \in Nat
    BY <2>1, <2>2, SumOverNat
  <2> QED
    BY <1>2, <2>3 DEF D
<1>5. ASSUME NEW b \in 1 .. Len(x)
      PROVE  FirstId(x, b + 1) = FirstId(x, b) + x[b].cardinality
  <2>1. b - 1 \in Nat /\ (b - 1) + 1 = b /\ b \in 1 .. Len(x) + 1 /\ b + 1 \in 1 .. Len(x) + 1
    BY <1>1
  <2>2. \A i \in 1 .. b : c[i] \in Int
    BY <1>1
  <2>3. SumOver(c, 1 .. b) = SumOver(c, 1 .. b - 1) + c[b]
    BY <2>1, <2>2, SumOverInterval
  <2>4. (b + 1) - 1 = b
    OBVIOUS
  <2> QED
    BY <1>1, <1>2, <2>1, <2>3, <2>4
<1> QED
  BY <1>1, <1>3, <1>4, <1>5

FirstIds(x) == [b \in 1 .. Len(x) + 1 |-> FirstId(x, b)]

LEMMA FirstIdsCut == ASSUME NEW x \in Seq(TaskBag) PROVE Len(x) \in Nat /\ Cuts(FirstIds(x), Len(x))
<1>1. Len(x) \in Nat /\ \A b \in 1 .. Len(x) : b \in 1 .. Len(x) + 1 /\ b + 1 \in 1 .. Len(x) + 1
  OBVIOUS
<1>2. \A b \in 1 .. Len(x) + 1 : FirstIds(x)[b] = FirstId(x, b) /\ FirstId(x, b) \in Nat
  BY FirstIdProperty DEF FirstIds
<1>3. ASSUME NEW b \in 1 .. Len(x) PROVE FirstId(x, b) <= FirstId(x, b + 1)
  <2>1. x[b].cardinality \in Nat /\ FirstId(x, b + 1) = FirstId(x, b) + x[b].cardinality
    BY FirstIdProperty
  <2> QED
    BY <1>1, <1>2, <2>1
<1> QED
  BY <1>1, <1>2, <1>3 DEF Cuts

\* The tasks of a bag.
IdsOf(x, b) == FirstId(x, b) .. FirstId(x, b + 1) - 1

LEMMA TasksOfBagProperty ==
    ASSUME NEW x \in Seq(TaskBag), NEW b \in 1 .. Len(x)
    PROVE  LET tasks == TaskIdsPerBag(x)[b]
           IN  /\ Len(tasks) = x[b].cardinality
               /\ x[b].cardinality \in Nat
               /\ FirstId(x, b) \in Nat
               /\ \A i \in 1 .. Len(tasks) : tasks[i] = FirstId(x, b) + i - 1
               /\ Range(tasks) = IdsOf(x, b)
               /\ IdsOf(x, b) \subseteq 0 .. FirstId(x, Len(x) + 1) - 1
               /\ IsFiniteSet(IdsOf(x, b)) /\ Cardinality(IdsOf(x, b)) = x[b].cardinality
<1> DEFINE first == FirstId(x, b)
           n == x[b].cardinality
           tasks == TaskIdsPerBag(x)[b]
<1>1. first \in Nat /\ n \in Nat /\ FirstId(x, b + 1) = first + n
  BY FirstIdProperty
<1>2. tasks = [i \in 1 .. n |-> first + i - 1]
  BY DEF TaskIdsPerBag
<1>3. IdsOf(x, b) = first .. first + n - 1
  BY <1>1 DEF IdsOf
<1>4. IdsOf(x, b) \subseteq 0 .. FirstId(x, Len(x) + 1) - 1
  <2>1. b + 1 \in 1 .. Len(x) + 1 /\ Len(x) + 1 \in b + 1 .. Len(x) + 1
    OBVIOUS
  <2>2. FirstIds(x)[b + 1] <= FirstIds(x)[Len(x) + 1]
    BY <2>1, FirstIdsCut, CutsAscend
  <2>3. FirstId(x, b + 1) <= FirstId(x, Len(x) + 1) /\ FirstId(x, Len(x) + 1) \in Nat
    BY <2>1, <2>2, FirstIdProperty DEF FirstIds
  <2> QED
    BY <1>1, <2>3 DEF IdsOf
<1> HIDE DEF first, n, tasks
<1>5. DOMAIN tasks = 1 .. n /\ Len(tasks) = n /\ \A i \in 1 .. n : tasks[i] = first + i - 1
  BY <1>1, <1>2
<1>6. Range(tasks) = IdsOf(x, b)
  <2>1. Range(tasks) = {tasks[i] : i \in 1 .. n}
    BY <1>5 DEF Range
  <2>2. ASSUME NEW t \in first .. first + n - 1 PROVE \E i \in 1 .. n : tasks[i] = t
    <3>1. t - first + 1 \in 1 .. n
      BY <1>1
    <3>2. tasks[t - first + 1] = t
      BY <1>1, <1>5, <3>1
    <3> QED
      BY <3>1, <3>2
  <2>3. \A i \in 1 .. n : tasks[i] \in first .. first + n - 1
    BY <1>1, <1>5
  <2> QED
    BY <1>3, <2>1, <2>2, <2>3
<1>7. IsFiniteSet(IdsOf(x, b)) /\ Cardinality(IdsOf(x, b)) = n
  <2> DEFINE last == first + n - 1
  <2>1. first \in Int /\ last \in Int /\ last - first + 1 = n
    BY <1>1
  <2>2. n = 0 <=> first > last
    BY <1>1
  <2> HIDE DEF last
  <2>3. IsFiniteSet(first .. last)
    BY <2>1, FS_Interval
  <2>4. Cardinality(first .. last) = IF first > last THEN 0 ELSE last - first + 1
    BY <2>1, FS_Interval
  <2> QED
    BY <1>3, <2>1, <2>2, <2>3, <2>4 DEF last
<1> QED
  BY <1>1, <1>4, <1>5, <1>6, <1>7 DEF first, n, tasks

LEMMA BagOfProperty ==
    ASSUME NEW x \in Seq(TaskBag), NEW b \in 1 .. Len(x), NEW t \in IdsOf(x, b)
    PROVE  BagOf(x, t) = b
<1> DEFINE In(d) == t \in FirstId(x, d) .. FirstId(x, d) + x[d].cardinality - 1
<1>1. \A d \in 1 .. Len(x) : In(d) <=> t \in IdsOf(x, d)
  BY FirstIdProperty DEF IdsOf
<1>2. ASSUME NEW c \in 1 .. Len(x), NEW d \in 1 .. Len(x), c < d, t \in IdsOf(x, c), t \in IdsOf(x, d)
      PROVE  FALSE
  <2>1. c + 1 \in 1 .. Len(x) + 1 /\ d \in 1 .. Len(x) + 1
    OBVIOUS
  <2>2. FirstId(x, c + 1) \in Nat /\ FirstId(x, d) \in Nat
    BY <2>1, FirstIdProperty
  <2>3. t \in Int /\ t < FirstId(x, c + 1) /\ FirstId(x, d) <= t
    BY <1>2, <2>2 DEF IdsOf
  <2>4. t < FirstIds(x)[c + 1] /\ FirstIds(x)[d] <= t
    BY <2>1, <2>3 DEF FirstIds
  <2> QED
    BY <1>2, <2>3, <2>4, FirstIdsCut, CutsDisjoint
<1>3. \A d \in 1 .. Len(x) : In(d) => d = b
  BY <1>1, <1>2
<1>4. BagOf(x, t) = CHOOSE d \in 1 .. Len(x) : In(d)
  BY DEF BagOf
<1>5. In(b)
  BY <1>1
<1> HIDE DEF In
<1> QED
  BY <1>3, <1>4, <1>5

LEMMA EveryTaskInBag ==
    ASSUME NEW x \in Seq(TaskBag), NEW t \in 0 .. FirstId(x, Len(x) + 1) - 1
    PROVE  \E b \in 1 .. Len(x) : t \in IdsOf(x, b)
<1>1. 1 \in 1 .. Len(x) + 1 /\ Len(x) + 1 \in 1 .. Len(x) + 1
  OBVIOUS
<1>2. FirstId(x, 1) = 0 /\ FirstId(x, Len(x) + 1) \in Nat
  BY <1>1, FirstIdProperty
<1>3. t \in Nat /\ FirstIds(x)[1] <= t /\ t < FirstIds(x)[Len(x) + 1]
  BY <1>1, <1>2 DEF FirstIds
<1>4. PICK b \in 1 .. Len(x) : FirstIds(x)[b] <= t /\ t < FirstIds(x)[b + 1]
  BY <1>3, FirstIdsCut, CutsCover
<1>5. b \in 1 .. Len(x) + 1 /\ b + 1 \in 1 .. Len(x) + 1
  OBVIOUS
<1>6. FirstId(x, b) <= t /\ t < FirstId(x, b + 1) /\ FirstId(x, b) \in Nat /\ FirstId(x, b + 1) \in Nat
  BY <1>4, <1>5, FirstIdProperty DEF FirstIds
<1> QED
  BY <1>3, <1>6 DEF IdsOf
=============================================================================
