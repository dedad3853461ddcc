------------------------------ MODULE KeysProofs ------------------------------
(***************************************************************************)
(* Theorems about SubnetKeys: its keys find what routing by subnets asks   *)
(* for, and its heaps are the peers of RouteTable, for any number of hosts *)
(* and announcements.                                                      *)
(***************************************************************************)
EXTENDS SubnetKeys, FiniteSetTheorems, TLAPS

-----------------------------------------------------------------------------
\* Every set of naturals that is not empty has a least member: of the intervals
\* from 0 to its members one is not larger than the others.
LEMMA LeastNatural ==
    ASSUME NEW S \in SUBSET Nat, S # {}
    PROVE  \E n \in S : \A m \in S : n <= m
<1> DEFINE T == {0 .. n : n \in S}
<1>1. T \subseteq FiniteSubsetsOf(Nat)
  <2>1. ASSUME NEW n \in S PROVE 0 .. n \in FiniteSubsetsOf(Nat)
    <3>1. IsFiniteSet(0 .. n)
      BY FS_Interval
    <3> QED
      BY <3>1 DEF FiniteSubsetsOf
  <2> QED
    BY <2>1
<1>2. PICK t \in T : \A s \in T : <<s, t>> \notin StrictSubsetOrdering(Nat)
  <2>1. T # {}
    OBVIOUS
  <2>2. IsWellFoundedOn(StrictSubsetOrdering(Nat), FiniteSubsetsOf(Nat))
    BY FS_StrictSubsetOrderingWellFounded
  <2> HIDE DEF T
  <2> QED
    BY <1>1, <2>1, <2>2, WFMin
<1>3. PICK n \in S : t = 0 .. n
  OBVIOUS
<1>4. ASSUME NEW m \in S, m < n PROVE FALSE
  <2>1. 0 .. m \subseteq 0 .. n /\ n \in 0 .. n /\ n \notin 0 .. m
    BY <1>4
  <2>2. <<0 .. m, t>> \in StrictSubsetOrdering(Nat)
    BY <1>3, <2>1 DEF StrictSubsetOrdering
  <2> QED
    BY <1>2, <2>2
<1> QED
  BY <1>4

-----------------------------------------------------------------------------
(***************************************************************************)
(* The heap.                                                               *)
(***************************************************************************)
LEMMA GreaterOrders ==
    ASSUME NEW x \in Entry, NEW y \in Entry, NEW z \in Entry
    PROVE  /\ Greater(x, y) => ~Greater(y, x)
           /\ Greater(x, y) /\ Greater(y, z) => Greater(x, z)
           /\ ~Greater(x, y) /\ ~Greater(y, z) => ~Greater(x, z)
BY HostsDistinct DEF Greater, Entry, Host

\* The last place is on the way; it goes on from a place to its parent exactly
\* if the element does not stay.
LEMMA WaySteps ==
    ASSUME NEW heap \in Seq(Entry), NEW x
    PROVE  /\ Way(heap, x) \subseteq 1 .. Len(heap) + 1
           /\ Len(heap) + 1 \in Way(heap, x)
           /\ \A j \in Way(heap, x) : Stays(heap, x, j) \/ j \div 2 \in Way(heap, x)
           /\ \A j \in Way(heap, x) \ {Len(heap) + 1} :
                 \E c \in Way(heap, x) : j = c \div 2 /\ ~Stays(heap, x, c)
<1> DEFINE n == Len(heap) + 1
           places == 1 .. n
           Closed(S) == n \in S /\ \A j \in S : Stays(heap, x, j) \/ j \div 2 \in S
           way == Way(heap, x)
<1>n. n \in Nat \ {0} /\ n \in places
  OBVIOUS
<1>1. way = {i \in places : \A S \in SUBSET places : Closed(S) => i \in S}
  BY DEF Way
<1> HIDE DEF way, n
<1>2. way \subseteq places /\ n \in way
  BY <1>1, <1>n
<1>3. ASSUME NEW j \in way, ~Stays(heap, x, j) PROVE j \div 2 \in way
  <2>1. j # 1
    BY <1>3 DEF Stays
  <2>2. j \div 2 \in places
    BY <2>1, <1>2, <1>n
  <2>3. ASSUME NEW S \in SUBSET places, Closed(S) PROVE j \div 2 \in S
    BY <1>1, <1>3, <2>3
  <2> QED
    BY <1>1, <2>2, <2>3
<1>4. ASSUME NEW j \in way \ {n}, \A c \in way : j = c \div 2 => Stays(heap, x, c)
      PROVE  FALSE
  <2> DEFINE S == way \ {j}
  <2>1. n \in S
    BY <1>2, <1>4
  <2>2. \A c \in S : Stays(heap, x, c) \/ c \div 2 \in S
    BY <1>3, <1>4
  <2>3. S \in SUBSET places
    BY <1>2
  <2>4. Closed(S)
    BY <2>1, <2>2
  <2> HIDE DEF Closed, S
  <2>5. j \in S
    BY <1>1, <2>3, <2>4
  <2> QED
    BY <2>5 DEF S
<1> QED
  BY <1>2, <1>3, <1>4 DEF way, n

\* A set that holds the last place and is not left by going up holds the way.
LEMMA WayLeast ==
    ASSUME NEW heap \in Seq(Entry), NEW x, NEW S,
           Len(heap) + 1 \in S,
           \A j \in S \cap Way(heap, x) : Stays(heap, x, j) \/ j \div 2 \in S
    PROVE  Way(heap, x) \subseteq S
<1> DEFINE n == Len(heap) + 1
           places == 1 .. n
           Closed(T) == n \in T /\ \A j \in T : Stays(heap, x, j) \/ j \div 2 \in T
           way == Way(heap, x)
           R == S \cap way
<1>1. way = {i \in places : \A T \in SUBSET places : Closed(T) => i \in T}
  BY DEF Way
<1>2. way \subseteq places /\ n \in way /\ \A j \in way : Stays(heap, x, j) \/ j \div 2 \in way
  BY WaySteps
<1>3. Closed(R)
  BY <1>2
<1>4. R \in SUBSET places
  BY <1>2
<1> HIDE DEF Closed, R, way
<1>5. \A i \in way : i \in R
  BY <1>1, <1>3, <1>4
<1> QED
  BY <1>5 DEF R, way

\* The way is a path: of two of its places the lower comes to the upper one or
\* to one above it.
LEMMA WayIsPath ==
    ASSUME NEW heap \in Seq(Entry), NEW x,
           NEW k \in Way(heap, x), NEW m \in Way(heap, x), m < k
    PROVE  m <= k \div 2
<1> DEFINE n == Len(heap) + 1
           way == Way(heap, x)
           S == {i \in way : \A j \in way : j < i => j <= i \div 2}
<1>n. n \in Nat \ {0}
  OBVIOUS
<1>w. /\ way \subseteq 1 .. n
      /\ n \in way
      /\ \A j \in way : Stays(heap, x, j) \/ j \div 2 \in way
  BY WaySteps
<1>1. n \in S
  <2> DEFINE T == {n} \cup {j \in way : j <= n \div 2}
  <2>1. \A j \in T : j \in way /\ (Stays(heap, x, j) \/ j \div 2 \in way)
    BY <1>w
  <2>2. \A j \in T : j \div 2 <= n \div 2
    BY <1>w, <1>n
  <2>3. \A j \in T : Stays(heap, x, j) \/ j \div 2 \in T
    BY <2>1, <2>2
  <2>4. way \subseteq T
    <3>1. n \in T
      OBVIOUS
    <3> HIDE DEF T
    <3> QED
      BY <2>3, <3>1, WayLeast
  <2> QED
    BY <2>4, <1>w
<1>2. ASSUME NEW i \in S, ~Stays(heap, x, i) PROVE i \div 2 \in S
  <2> DEFINE p == i \div 2
             T == {j \in way : j >= p \/ j <= p \div 2}
  <2>1. p \in way /\ i \in way /\ i \in 1 .. n /\ p \in 1 .. n
    BY <1>2, <1>w
  <2>2. n \in T
    BY <2>1, <1>w, <1>n
  <2>3. ASSUME NEW j \in T, ~Stays(heap, x, j) PROVE j \div 2 \in T
    <3>1. j \in way /\ j \div 2 \in way /\ j \in 1 .. n
      BY <2>3, <1>w
    <3>2. j < i => j <= p
      BY <3>1, <1>2
    <3>3. CASE j <= p
      <4>1. j = p \/ j <= p \div 2
        BY <3>1, <3>3, <2>1, <2>3, <1>n
      <4>2. j \div 2 <= p \div 2
        BY <4>1, <3>1, <2>1, <1>n
      <4> QED
        BY <4>2, <3>1
    <3>4. CASE j > p
      <4>1. j >= i
        BY <3>1, <3>2, <3>4, <2>1, <1>n
      <4>2. j \div 2 >= p
        BY <4>1, <3>1, <2>1, <1>n
      <4> QED
        BY <4>2, <3>1
    <3> QED
      BY <3>1, <3>3, <3>4, <2>1, <1>n
  <2>4. way \subseteq T
    <3> HIDE DEF T
    <3> QED
      BY <2>2, <2>3, WayLeast
  <2>5. \A j \in way : j < p => j <= p \div 2
    <3> SUFFICES ASSUME NEW j \in way, j < p PROVE j <= p \div 2
      OBVIOUS
    <3>1. j >= p \/ j <= p \div 2
      BY <2>4
    <3>2. j \in 1 .. n
      BY <1>w
    <3> QED
      BY <3>1, <3>2, <2>1, <1>n
  <2> QED
    BY <2>1, <2>5
<1>3. way \subseteq S
  <2> HIDE DEF S
  <2> QED
    BY <1>1, <1>2, WayLeast
<1> QED
  BY <1>3

\* The element comes to rest at the highest place of its way, the only one
\* where it stays.
LEMMA WayEnds ==
    ASSUME NEW heap \in Seq(Entry), NEW x
    PROVE  /\ Min(Way(heap, x)) \in Way(heap, x)
           /\ \A j \in Way(heap, x) : Min(Way(heap, x)) <= j
           /\ \A j \in Way(heap, x) : Stays(heap, x, j) <=> j = Min(Way(heap, x))
<1> DEFINE n == Len(heap) + 1
           way == Way(heap, x)
           r == Min(way)
<1>n. n \in Nat \ {0}
  OBVIOUS
<1>w. /\ way \subseteq 1 .. n
      /\ n \in way
      /\ \A j \in way : Stays(heap, x, j) \/ j \div 2 \in way
  BY WaySteps
<1>1. r \in way /\ \A j \in way : r <= j
  <2>1. way \in SUBSET Nat /\ way # {}
    BY <1>w, <1>n
  <2>2. \E i \in way : \A j \in way : i <= j
    BY <2>1, LeastNatural
  <2> QED
    BY <2>2 DEF Min
<1>2. Stays(heap, x, r)
  <2>1. r \div 2 \in way => r <= r \div 2
    BY <1>1
  <2>2. r \in 1 .. n
    BY <1>1, <1>w
  <2>3. ~(r <= r \div 2)
    BY <2>2, <1>n
  <2> QED
    BY <1>1, <1>w, <2>1, <2>3
<1>3. ASSUME NEW j \in way, Stays(heap, x, j) PROVE j = r
  <2> DEFINE T == {k \in way : k >= j}
  <2>j. j \in 1 .. n
    BY <1>w
  <2>1. n \in T
    BY <1>w, <1>n, <2>j
  <2>2. ASSUME NEW k \in T, ~Stays(heap, x, k) PROVE k \div 2 \in T
    <3>1. k \in way /\ k \div 2 \in way /\ k # j
      BY <2>2, <1>3, <1>w
    <3>2. k \in 1 .. n /\ k > j
      BY <3>1, <1>w, <2>j
    <3>3. j <= k \div 2
      BY <3>1, <3>2, WayIsPath
    <3> QED
      BY <3>1, <3>2, <3>3
  <2>3. way \subseteq T
    <3> HIDE DEF T
    <3> QED
      BY <2>1, <2>2, WayLeast
  <2>4. r >= j /\ r <= j /\ r \in 1 .. n
    BY <2>3, <1>1, <1>w
  <2> QED
    BY <2>4, <2>j
<1> QED
  BY <1>1, <1>2, <1>3

\* The root of a heap is a greatest element.
LEMMA RootIsGreatest ==
    ASSUME NEW heap, IsHeap(heap), NEW i \in DOMAIN heap
    PROVE  ~Greater(heap[i], heap[1])
<1> DEFINE S == {j \in DOMAIN heap : Greater(heap[j], heap[1])}
<1>1. SUFFICES ASSUME S # {} PROVE FALSE
  OBVIOUS
<1>2. heap \in Seq(Entry)
  BY DEF IsHeap
<1>3. DOMAIN heap = 1 .. Len(heap) /\ Len(heap) \in Nat
  BY <1>2
<1>4. PICK j \in S : \A m \in S : j <= m
  <2>1. S \in SUBSET Nat
    BY <1>3
  <2> HIDE DEF S
  <2> QED
    BY <1>1, <2>1, LeastNatural
<1>5. j \in 1 .. Len(heap) /\ heap[j] \in Entry /\ heap[1] \in Entry /\ Greater(heap[j], heap[1])
  BY <1>2, <1>3
<1>6. j # 1
  BY <1>5, GreaterOrders
<1>7. j \in 2 .. Len(heap) /\ j \div 2 \in 1 .. Len(heap) /\ j \div 2 < j
  BY <1>3, <1>5, <1>6
<1>8. ~Greater(heap[j], heap[j \div 2])
  BY <1>7 DEF IsHeap
<1>9. j \div 2 \notin S
  BY <1>4, <1>7, <1>3
<1>10. heap[j \div 2] \in Entry
  BY <1>2, <1>7
<1>11. ~Greater(heap[j \div 2], heap[1])
  BY <1>9, <1>7, <1>3
<1> QED
  BY <1>5, <1>8, <1>10, <1>11, GreaterOrders

\* push, place by place.
LEMMA PushPlaces ==
    ASSUME NEW heap \in Seq(Entry), NEW x \in Entry
    PROVE  LET n == Len(heap) + 1
               way == Way(heap, x)
               r == Min(way)
               new == Push(heap, x)
           IN  /\ new \in Seq(Entry) /\ Len(new) = n
               /\ r \in way /\ way \subseteq 1 .. n /\ n \in way
               /\ new[r] = x
               /\ \A j \in way \ {r} : /\ j \in 2 .. n /\ j \div 2 \in way
                                       /\ Greater(x, heap[j \div 2]) /\ new[j] = heap[j \div 2]
               /\ \A j \in (1 .. n) \ way : j \in 1 .. Len(heap) /\ new[j] = heap[j]
               /\ \A j \in way \ {n} : j \in 1 .. Len(heap) /\ \E c \in way \ {r} : j = c \div 2
<1> DEFINE n == Len(heap) + 1
           way == Way(heap, x)
           r == Min(way)
           new == Push(heap, x)
<1>n. n \in Nat \ {0} /\ Len(heap) = n - 1 /\ Len(heap) \in Nat
  OBVIOUS
<1>w. /\ way \subseteq 1 .. n
      /\ n \in way
      /\ \A j \in way : Stays(heap, x, j) \/ j \div 2 \in way
      /\ \A j \in way \ {n} : \E c \in way : j = c \div 2 /\ ~Stays(heap, x, c)
  BY WaySteps
<1>r. r \in way /\ \A j \in way : Stays(heap, x, j) <=> j = r
  BY WayEnds
<1>new. new = [j \in 1 .. n |-> IF j = r THEN x ELSE IF j \in way THEN heap[j \div 2] ELSE heap[j]]
  BY DEF Push
<1> HIDE DEF n, way, r, new
<1>1. ASSUME NEW j \in way \ {r}
      PROVE  /\ j \in 2 .. n /\ j \div 2 \in way /\ j \div 2 \in 1 .. Len(heap)
             /\ Greater(x, heap[j \div 2]) /\ new[j] = heap[j \div 2]
  <2>1. ~Stays(heap, x, j)
    BY <1>r
  <2>2. j \div 2 \in way /\ j # 1 /\ Greater(x, heap[j \div 2])
    BY <2>1, <1>w DEF Stays
  <2>3. j \in 1 .. n
    BY <1>w
  <2>4. j \in 2 .. n /\ j \div 2 \in 1 .. Len(heap)
    BY <2>2, <2>3, <1>n
  <2> QED
    BY <2>2, <2>4, <2>3, <1>new
<1>2. ASSUME NEW j \in (1 .. n) \ way
      PROVE  j \in 1 .. Len(heap) /\ new[j] = heap[j]
  BY <1>2, <1>n, <1>w, <1>r, <1>new
<1>3. ASSUME NEW j \in way \ {n}
      PROVE  j \in 1 .. Len(heap) /\ \E c \in way \ {r} : j = c \div 2
  <2>1. j \in 1 .. Len(heap)
    BY <1>w, <1>n
  <2>2. PICK c \in way : j = c \div 2 /\ ~Stays(heap, x, c)
    BY <1>w
  <2>3. c # r
    BY <2>2, <1>r
  <2> QED
    BY <2>1, <2>2, <2>3
<1>4. new[r] = x
  BY <1>r, <1>w, <1>new
<1>5. ASSUME NEW j \in 1 .. n PROVE new[j] \in Entry
  <2>1. CASE j = r
    BY <2>1, <1>4
  <2>2. CASE j \in way \ {r}
    <3>1. heap[j \div 2] \in Entry
      BY <1>1, <2>2
    <3> QED
      BY <1>1, <2>2, <3>1
  <2>3. CASE j \notin way
    BY <2>3, <1>2
  <2> QED
    BY <2>1, <2>2, <2>3
<1>6. new \in Seq(Entry) /\ Len(new) = n
  <2>1. new \in [1 .. n -> Entry]
    BY <1>5, <1>new
  <2> QED
    BY <2>1, <1>n
<1> QED
  BY <1>w, <1>r, <1>1, <1>2, <1>3, <1>4, <1>6 DEF n, way, r, new

\* Pushing a host the heap does not have keeps it a heap.
LEMMA PushKeepsHeap ==
    ASSUME NEW heap, IsHeap(heap), NEW x \in Entry,
           \A i \in DOMAIN heap : heap[i].host # x.host
    PROVE  IsHeap(Push(heap, x))
<1> DEFINE n == Len(heap) + 1
           way == Way(heap, x)
           r == Min(way)
           new == Push(heap, x)
<1>h. heap \in Seq(Entry) /\ n \in Nat \ {0} /\ Len(heap) = n - 1 /\ DOMAIN heap = 1 .. Len(heap)
  BY DEF IsHeap
<1>p. /\ new \in Seq(Entry) /\ Len(new) = n
      /\ r \in way /\ way \subseteq 1 .. n /\ n \in way
      /\ new[r] = x
      /\ \A j \in way \ {r} : /\ j \in 2 .. n /\ j \div 2 \in way
                              /\ Greater(x, heap[j \div 2]) /\ new[j] = heap[j \div 2]
      /\ \A j \in (1 .. n) \ way : j \in 1 .. Len(heap) /\ new[j] = heap[j]
      /\ \A j \in way \ {n} : j \in 1 .. Len(heap) /\ \E c \in way \ {r} : j = c \div 2
  BY <1>h, PushPlaces
<1>s. \A j \in way : Stays(heap, x, j) <=> j = r
  BY <1>h, WayEnds
<1>l. \A j \in way : r <= j
  BY <1>h, WayEnds
<1>path. \A k, m \in way : m < k => m <= k \div 2
  BY <1>h, WayIsPath
<1>e. /\ \A j \in 1 .. Len(heap) : heap[j] \in Entry
      /\ \A j \in 2 .. Len(heap) : ~Greater(heap[j], heap[j \div 2])
      /\ \A i, j \in 1 .. Len(heap) : heap[i].host = heap[j].host => i = j
      /\ \A i \in 1 .. Len(heap) : heap[i].host # x.host
  BY <1>h DEF IsHeap
<1> HIDE DEF n, way, r, new
<1>up. \A j \in way \ {r} : j \div 2 \in 1 .. Len(heap)
  BY <1>h, <1>p
<1>1. ASSUME NEW i \in 2 .. n PROVE ~Greater(new[i], new[i \div 2])
  <2> DEFINE p == i \div 2
  <2>i. i \in 1 .. n /\ p \in 1 .. n /\ p < i /\ p # n
    BY <1>h
  <2> HIDE DEF p
  <2>1. CASE i \in way \ {r}
    <3>1. p \in way /\ Greater(x, heap[p]) /\ new[i] = heap[p] /\ p \in 1 .. Len(heap) /\ heap[p] \in Entry
      BY <2>1, <1>p, <1>up, <1>e DEF p
    <3>2. CASE p = r
      BY <3>1, <3>2, <1>p, GreaterOrders DEF p
    <3>3. CASE p # r
      <4>1. new[p] = heap[p \div 2] /\ p \in 2 .. n
        BY <3>1, <3>3, <1>p
      <4>2. p \in 2 .. Len(heap)
        BY <4>1, <2>i, <1>h
      <4> QED
        BY <3>1, <4>1, <4>2, <1>e DEF p
    <3> QED
      BY <3>2, <3>3
  <2>2. CASE i = r
    <3>1. p \notin way
      BY <2>2, <2>i, <1>l, <1>h
    <3>2. new[p] = heap[p]
      BY <3>1, <2>i, <1>p
    <3>3. ~Greater(x, heap[p])
      BY <2>2, <1>s, <1>p DEF Stays, p
    <3> QED
      BY <2>2, <3>2, <3>3, <1>p DEF p
  <2>3. CASE i \notin way
    <3>1. i \in 1 .. Len(heap) /\ new[i] = heap[i]
      BY <2>3, <2>i, <1>p
    <3>2. i \in 2 .. Len(heap) /\ p \in 1 .. Len(heap) /\ heap[i] \in Entry /\ heap[p] \in Entry
      BY <3>1, <2>i, <1>e, <1>h
    <3>3. ~Greater(heap[i], heap[p])
      BY <3>2, <1>e DEF p
    <3>4. CASE p \notin way
      BY <3>1, <3>3, <3>4, <2>i, <1>p DEF p
    <3>5. CASE p = r
      <4>1. PICK c \in way \ {r} : p = c \div 2
        BY <3>5, <2>i, <1>p
      <4>2. Greater(x, heap[p])
        BY <4>1, <1>p
      <4>3. ~Greater(heap[i], x)
        BY <3>2, <3>3, <4>2, GreaterOrders
      <4> QED
        BY <3>1, <3>5, <4>3, <1>p DEF p
    <3>6. CASE p \in way \ {r}
      <4>1. new[p] = heap[p \div 2] /\ p \in 2 .. n /\ p \div 2 \in 1 .. Len(heap)
        BY <3>6, <1>p, <1>up
      <4>2. p \in 2 .. Len(heap) /\ heap[p \div 2] \in Entry
        BY <4>1, <3>2, <1>e
      <4>3. ~Greater(heap[p], heap[p \div 2])
        BY <4>2, <1>e
      <4>4. ~Greater(heap[i], heap[p \div 2])
        BY <3>2, <3>3, <4>2, <4>3, GreaterOrders
      <4> QED
        BY <3>1, <4>1, <4>4 DEF p
    <3> QED
      BY <3>4, <3>5, <3>6
  <2> QED
    BY <2>1, <2>2, <2>3
<1>2. ASSUME NEW i \in 1 .. n, NEW j \in 1 .. n, new[i].host = new[j].host
      PROVE  i = j
  <2>1. ASSUME NEW k \in (1 .. n) \ {r}
        PROVE  \E o \in 1 .. Len(heap) : /\ new[k] = heap[o]
                                        /\ \/ k \in way /\ o \in way /\ o = k \div 2
                                           \/ k \notin way /\ o = k
    BY <1>p, <1>up
  <2>2. \A k \in (1 .. n) \ {r} : new[k].host # x.host
    BY <2>1, <1>e
  <2>3. i = r <=> j = r
    BY <2>2, <1>2, <1>p
  <2>4. ASSUME i # r, j # r PROVE i = j
    <3>1. PICK o \in 1 .. Len(heap) : /\ new[i] = heap[o]
                                     /\ \/ i \in way /\ o \in way /\ o = i \div 2
                                        \/ i \notin way /\ o = i
      BY <2>1, <2>4
    <3>2. PICK q \in 1 .. Len(heap) : /\ new[j] = heap[q]
                                     /\ \/ j \in way /\ q \in way /\ q = j \div 2
                                        \/ j \notin way /\ q = j
      BY <2>1, <2>4
    <3>3. o = q
      BY <3>1, <3>2, <1>2, <1>e
    <3>4. i \in way /\ j \in way => i \div 2 = j \div 2
      BY <3>1, <3>2, <3>3
    <3>5. i \in way /\ j \in way => ~(i < j) /\ ~(j < i)
      <4>1. i \in way /\ j \in way /\ i < j => i <= j \div 2
        BY <1>path
      <4>2. i \in way /\ j \in way /\ j < i => j <= i \div 2
        BY <1>path
      <4> QED
        BY <4>1, <4>2, <3>4, <1>h
    <3> QED
      BY <3>1, <3>2, <3>3, <3>5, <1>h
  <2> QED
    BY <2>3, <2>4
<1> QED
  <2>1. new \in Seq(Entry) /\ Len(new) = n /\ DOMAIN new = 1 .. n
    BY <1>p
  <2> QED
    BY <2>1, <1>1, <1>2 DEF IsHeap, new

\* Pushing loses no host and adds one.
LEMMA PushAddsEntry ==
    ASSUME NEW heap \in Seq(Entry), NEW x \in Entry
    PROVE  LET new == Push(heap, x)
           IN  {new[j] : j \in DOMAIN new} = {heap[j] : j \in DOMAIN heap} \cup {x}
<1> DEFINE n == Len(heap) + 1
           way == Way(heap, x)
           r == Min(way)
           new == Push(heap, x)
<1>h. n \in Nat \ {0} /\ Len(heap) = n - 1 /\ DOMAIN heap = 1 .. Len(heap)
  OBVIOUS
<1>p. /\ new \in Seq(Entry) /\ Len(new) = n
      /\ r \in way /\ way \subseteq 1 .. n /\ n \in way
      /\ new[r] = x
      /\ \A j \in way \ {r} : /\ j \in 2 .. n /\ j \div 2 \in way
                              /\ Greater(x, heap[j \div 2]) /\ new[j] = heap[j \div 2]
      /\ \A j \in (1 .. n) \ way : j \in 1 .. Len(heap) /\ new[j] = heap[j]
      /\ \A j \in way \ {n} : j \in 1 .. Len(heap) /\ \E c \in way \ {r} : j = c \div 2
  BY PushPlaces
<1> HIDE DEF n, way, r, new
<1>d. DOMAIN new = 1 .. n
  BY <1>p
<1>1. ASSUME NEW j \in 1 .. n PROVE new[j] \in {heap[i] : i \in 1 .. Len(heap)} \cup {x}
  <2>1. CASE j \in way \ {r}
    <3>1. j \div 2 \in 1 .. Len(heap) /\ new[j] = heap[j \div 2]
      BY <2>1, <1>p, <1>h
    <3> QED
      BY <3>1
  <2>2. CASE j = r
    BY <2>2, <1>p
  <2>3. CASE j \notin way
    BY <2>3, <1>p
  <2> QED
    BY <2>1, <2>2, <2>3
<1>2. ASSUME NEW i \in 1 .. Len(heap) PROVE \E j \in 1 .. n : new[j] = heap[i]
  <2>1. i \in 1 .. n /\ i # n
    BY <1>h
  <2>2. CASE i \in way
    <3>1. PICK c \in way \ {r} : i = c \div 2
      BY <2>1, <2>2, <1>p
    <3> QED
      BY <3>1, <1>p
  <2>3. CASE i \notin way
    BY <2>1, <2>3, <1>p
  <2> QED
    BY <2>2, <2>3
<1>3. x \in {new[j] : j \in 1 .. n}
  BY <1>p
<1> QED
  BY <1>1, <1>2, <1>3, <1>d, <1>h DEF new

\* The element pushed becomes the root exactly if it is greater than the root,
\* or there was none.
LEMMA PushRoot ==
    ASSUME NEW heap, IsHeap(heap), NEW x \in Entry
    PROVE  Push(heap, x)[1] = IF heap = << >> \/ Greater(x, heap[1]) THEN x ELSE heap[1]
<1> DEFINE n == Len(heap) + 1
           way == Way(heap, x)
           r == Min(way)
           new == Push(heap, x)
<1>h. heap \in Seq(Entry) /\ n \in Nat \ {0} /\ Len(heap) = n - 1 /\ DOMAIN heap = 1 .. Len(heap)
  BY DEF IsHeap
<1>p. /\ new \in Seq(Entry) /\ Len(new) = n
      /\ r \in way /\ way \subseteq 1 .. n /\ n \in way
      /\ new[r] = x
      /\ \A j \in way \ {r} : /\ j \in 2 .. n /\ j \div 2 \in way
                              /\ Greater(x, heap[j \div 2]) /\ new[j] = heap[j \div 2]
      /\ \A j \in (1 .. n) \ way : j \in 1 .. Len(heap) /\ new[j] = heap[j]
      /\ \A j \in way \ {n} : j \in 1 .. Len(heap) /\ \E c \in way \ {r} : j = c \div 2
  BY <1>h, PushPlaces
<1>s. \A j \in way : Stays(heap, x, j) <=> j = r
  BY <1>h, WayEnds
<1>empty. heap = << >> <=> n = 1
  BY <1>h
<1> HIDE DEF n, way, r, new
<1>1. CASE r = 1 /\ n = 1
  BY <1>1, <1>p, <1>empty DEF new
<1>2. CASE r = 1 /\ n # 1
  <2>1. PICK c \in way \ {r} : 1 = c \div 2
    BY <1>2, <1>p
  <2> QED
    BY <1>2, <2>1, <1>p, <1>empty DEF new
<1>3. CASE r # 1
  <2>1. 1 \notin way
    BY <1>3, <1>s DEF Stays
  <2>2. new[1] = heap[1] /\ 1 \in 1 .. Len(heap)
    BY <2>1, <1>p, <1>h
  <2>3. r \in 2 .. n /\ r \div 2 \in 1 .. Len(heap)
    BY <1>3, <1>p, <1>h
  <2>4. ~Greater(x, heap[r \div 2])
    BY <1>3, <1>s, <1>p DEF Stays
  <2>5. heap[1] \in Entry /\ heap[r \div 2] \in Entry
    BY <2>2, <2>3, <1>h
  <2>6. ~Greater(heap[r \div 2], heap[1])
    BY <2>3, <1>h, RootIsGreatest
  <2>7. ~Greater(x, heap[1])
    BY <2>4, <2>5, <2>6, GreaterOrders
  <2>8. n # 1
    BY <2>2, <1>h
  <2> QED
    BY <2>2, <2>7, <2>8, <1>empty DEF new
<1> QED
  BY <1>1, <1>2, <1>3

-----------------------------------------------------------------------------
(***************************************************************************)
(* The bits.                                                               *)
(***************************************************************************)
LEMMA BitsAreBits ==
    ASSUME NEW u \in 0 .. 255, NEW m \in 1 .. 8
    PROVE  SplitU8(u)[m] \in {0, 1}
<1>1. \A w \in Nat : w % 2 \in {0, 1}
  OBVIOUS
<1>2. u \div 128 \in {0, 1}
  OBVIOUS
<1>3. /\ u \div 64 \in Nat /\ u \div 32 \in Nat /\ u \div 16 \in Nat
      /\ u \div 8 \in Nat /\ u \div 4 \in Nat /\ u \div 2 \in Nat /\ u \in Nat
  OBVIOUS
<1>4. m \in {1, 2, 3, 4, 5, 6, 7, 8}
  OBVIOUS
<1> QED
  BY <1>1, <1>2, <1>3, <1>4 DEF SplitU8

FirstBitsAgree(u, v, r) == \A m \in 1 .. r : SplitU8(u)[m] = SplitU8(v)[m]

\* The r high bits of two octets are the same if and only if the first r are.
LEMMA SplitKeepsHighBits ==
    ASSUME NEW u \in 0 .. 255, NEW v \in 0 .. 255, NEW r \in 1 .. 7
    PROVE  FirstBitsAgree(u, v, r) <=> (HighBits(u, r) = HighBits(v, r))
<1> DEFINE B(m) == SplitU8(u)[m] = SplitU8(v)[m]
           High(d) == u \div d = v \div d
           Low(d) == (u \div d) % 2 = (v \div d) % 2
<1>1. /\ B(1) <=> High(128)
      /\ B(2) <=> Low(64)
      /\ B(3) <=> Low(32)
      /\ B(4) <=> Low(16)
      /\ B(5) <=> Low(8)
      /\ B(6) <=> Low(4)
      /\ B(7) <=> Low(2)
  BY DEF SplitU8
\* One bit more is the same if and only if the next bit is.
<1>2. /\ High(64) <=> High(128) /\ Low(64)
      /\ High(32) <=> High(64) /\ Low(32)
      /\ High(16) <=> High(32) /\ Low(16)
      /\ High(8) <=> High(16) /\ Low(8)
      /\ High(4) <=> High(8) /\ Low(4)
      /\ High(2) <=> High(4) /\ Low(2)
  <2>1. High(64) <=> High(128) /\ Low(64)
    OBVIOUS
  <2>2. High(32) <=> High(64) /\ Low(32)
    OBVIOUS
  <2>3. High(16) <=> High(32) /\ Low(16)
    OBVIOUS
  <2>4. High(8) <=> High(16) /\ Low(8)
    OBVIOUS
  <2>5. High(4) <=> High(8) /\ Low(4)
    OBVIOUS
  <2>6. High(2) <=> High(4) /\ Low(2)
    OBVIOUS
  <2> HIDE DEF High, Low
  <2> QED
    BY <2>1, <2>2, <2>3, <2>4, <2>5, <2>6
<1> HIDE DEF B, High, Low
<1>3. /\ High(128) <=> B(1)
      /\ High(64) <=> B(1) /\ B(2)
      /\ High(32) <=> B(1) /\ B(2) /\ B(3)
      /\ High(16) <=> B(1) /\ B(2) /\ B(3) /\ B(4)
      /\ High(8) <=> B(1) /\ B(2) /\ B(3) /\ B(4) /\ B(5)
      /\ High(4) <=> B(1) /\ B(2) /\ B(3) /\ B(4) /\ B(5) /\ B(6)
      /\ High(2) <=> B(1) /\ B(2) /\ B(3) /\ B(4) /\ B(5) /\ B(6) /\ B(7)
  BY <1>1, <1>2
<1>4. (\A m \in 1 .. r : B(m)) <=> HighBits(u, r) = HighBits(v, r)
  <2>1. /\ 1 .. 1 = {1} /\ 1 .. 2 = {1, 2} /\ 1 .. 3 = {1, 2, 3} /\ 1 .. 4 = {1, 2, 3, 4}
        /\ 1 .. 5 = {1, 2, 3, 4, 5} /\ 1 .. 6 = {1, 2, 3, 4, 5, 6}
        /\ 1 .. 7 = {1, 2, 3, 4, 5, 6, 7}
    OBVIOUS
  <2>2. \A w : /\ HighBits(w, 1) = w \div 128 /\ HighBits(w, 2) = w \div 64
               /\ HighBits(w, 3) = w \div 32 /\ HighBits(w, 4) = w \div 16
               /\ HighBits(w, 5) = w \div 8 /\ HighBits(w, 6) = w \div 4 /\ HighBits(w, 7) = w \div 2
    BY DEF HighBits
  <2> DEFINE Same(d) == HighBits(u, d) = HighBits(v, d)
  <2>3. /\ Same(1) <=> High(128)
        /\ Same(2) <=> High(64)
        /\ Same(3) <=> High(32)
        /\ Same(4) <=> High(16)
        /\ Same(5) <=> High(8)
        /\ Same(6) <=> High(4)
        /\ Same(7) <=> High(2)
    BY <2>2 DEF High
  <2>4. r = 1 \/ r = 2 \/ r = 3 \/ r = 4 \/ r = 5 \/ r = 6 \/ r = 7
    OBVIOUS
  <2> HIDE DEF Same
  <2>5. (\A m \in 1 .. r : B(m)) <=> Same(r)
    BY <2>1, <2>3, <2>4, <1>3
  <2> QED
    BY <2>5 DEF Same
<1> QED
  BY <1>4 DEF B, FirstBitsAgree

\* Two octets are the same if and only if their bits are.
LEMMA SplitKeepsOctet ==
    ASSUME NEW u \in 0 .. 255, NEW v \in 0 .. 255
    PROVE  FirstBitsAgree(u, v, 8) <=> (u = v)
<1> DEFINE B(m) == SplitU8(u)[m] = SplitU8(v)[m]
<1>1. B(8) <=> u % 2 = v % 2
  BY DEF SplitU8
<1>2. u = v <=> u \div 2 = v \div 2 /\ u % 2 = v % 2
  OBVIOUS
<1>3. HighBits(u, 7) = u \div 2 /\ HighBits(v, 7) = v \div 2
  BY DEF HighBits
<1>4. FirstBitsAgree(u, v, 7) <=> (HighBits(u, 7) = HighBits(v, 7))
  <2>1. 7 \in 1 .. 7
    OBVIOUS
  <2> QED
    BY <2>1, SplitKeepsHighBits
<1>5. FirstBitsAgree(u, v, 8) <=> FirstBitsAgree(u, v, 7) /\ B(8)
  <2>1. 1 .. 8 = 1 .. 7 \cup {8}
    OBVIOUS
  <2> QED
    BY <2>1 DEF FirstBitsAgree
<1> QED
  BY <1>1, <1>2, <1>3, <1>4, <1>5

-----------------------------------------------------------------------------
(***************************************************************************)
(* The keys.                                                               *)
(***************************************************************************)
LEMMA Tuples ==
    ASSUME NEW S, NEW n \in Nat, NEW f \in [1 .. n -> S]
    PROVE  f \in Seq(S) /\ Len(f) = n /\ \A i \in 1 .. n : f[i] \in S
OBVIOUS

LEMMA OctetsOf ==
    ASSUME NEW ip, NEW n \in Nat, NEW B, ip.octets \in [1 .. n -> B]
    PROVE  ip.octets \in Seq(B) /\ Len(ip.octets) = n /\ \A j \in 1 .. n : ip.octets[j] \in B
<1> DEFINE o == ip.octets
<1>1. o \in [1 .. n -> B]
  OBVIOUS
<1> HIDE DEF o
<1>2. o \in Seq(B) /\ Len(o) = n /\ \A j \in 1 .. n : o[j] \in B
  BY <1>1, Tuples
<1> QED
  BY <1>2 DEF o

LEMMA Octets ==
    ASSUME NEW ip \in Ip
    PROVE  /\ ip.family \in {4, 6}
           /\ ip.octets \in Seq(0 .. 255)
           /\ Len(ip.octets) = IF ip.family = 4 THEN 4 ELSE 16
           /\ Len(ip.octets) \in {4, 16}
           /\ \A j \in 1 .. Len(ip.octets) : ip.octets[j] \in 0 .. 255
<1> DEFINE B == 0 .. 255
<1>1. \/ ip.family = 4 /\ ip.octets \in [1 .. 4 -> B]
      \/ ip.family = 6 /\ ip.octets \in [1 .. 16 -> B]
  BY DEF Ip
<1> HIDE DEF B
<1>2. CASE ip.family = 4 /\ ip.octets \in [1 .. 4 -> B]
  <2>1. 4 \in Nat
    OBVIOUS
  <2>2. ip.octets \in Seq(B) /\ Len(ip.octets) = 4 /\ \A j \in 1 .. 4 : ip.octets[j] \in B
    BY <1>2, <2>1, OctetsOf
  <2> QED
    BY <1>2, <2>2 DEF B
<1>3. CASE ip.family = 6 /\ ip.octets \in [1 .. 16 -> B]
  <2>1. 16 \in Nat
    OBVIOUS
  <2>2. ip.octets \in Seq(B) /\ Len(ip.octets) = 16 /\ \A j \in 1 .. 16 : ip.octets[j] \in B
    BY <1>3, <2>1, OctetsOf
  <2> QED
    BY <1>3, <2>2 DEF B
<1> QED
  BY <1>1, <1>2, <1>3

\* The bits of octet j follow those of the octets before it and the family.
LEMMA EncodedBits ==
    ASSUME NEW ip \in Ip
    PROVE  LET E == EncodeBytes(ip)
               n == Len(ip.octets)
           IN  /\ E \in Seq(Nat) /\ Len(E) = 1 + 8 * n
               /\ E[1] = ip.family
               /\ \A j \in 1 .. n : \A m \in 1 .. 8 :
                     E[1 + 8 * (j - 1) + m] = SplitU8(ip.octets[j])[m]
               /\ \A i \in 2 .. 1 + 8 * n : E[i] \in {0, 1}
<1> DEFINE E == EncodeBytes(ip)
           n == Len(ip.octets)
<1>n. n \in {4, 16} /\ ip.family \in {4, 6} /\ \A j \in 1 .. n : ip.octets[j] \in 0 .. 255
  BY Octets
<1>1. E = [i \in 1 .. 1 + 8 * n |->
             IF i = 1 THEN ip.family
             ELSE SplitU8(ip.octets[1 + ((i - 2) \div 8)])[1 + ((i - 2) % 8)]]
  BY DEF EncodeBytes
<1> HIDE DEF E, n
<1>2. E[1] = ip.family
  BY <1>1, <1>n
<1>3. ASSUME NEW i \in 2 .. 1 + 8 * n PROVE E[i] \in {0, 1}
  <2> DEFINE j == 1 + ((i - 2) \div 8)
             m == 1 + ((i - 2) % 8)
  <2>1. E[i] = SplitU8(ip.octets[j])[m]
    BY <1>1, <1>n
  <2>2. j \in 1 .. n /\ m \in 1 .. 8
    BY <1>n
  <2> HIDE DEF j, m
  <2> QED
    BY <2>1, <2>2, <1>n, BitsAreBits
<1>4. ASSUME NEW j \in 1 .. n, NEW m \in 1 .. 8
      PROVE  E[1 + 8 * (j - 1) + m] = SplitU8(ip.octets[j])[m]
  <2> DEFINE i == 1 + 8 * (j - 1) + m
  <2>1. i \in 2 .. 1 + 8 * n
    BY <1>n
  <2>2. 1 + ((i - 2) \div 8) = j /\ 1 + ((i - 2) % 8) = m
    BY <1>n
  <2> HIDE DEF i
  <2>3. E[i] = SplitU8(ip.octets[1 + ((i - 2) \div 8)])[1 + ((i - 2) % 8)]
    BY <1>1, <1>n, <2>1
  <2>4. E[i] = SplitU8(ip.octets[j])[m]
    BY <2>2, <2>3
  <2> QED
    BY <2>4 DEF i
<1>5. E \in Seq(Nat) /\ Len(E) = 1 + 8 * n
  <2>1. \A i \in 1 .. 1 + 8 * n : E[i] \in Nat
    BY <1>2, <1>3, <1>n
  <2>2. E \in [1 .. 1 + 8 * n -> Nat] /\ 1 + 8 * n \in Nat
    BY <1>1, <2>1, <1>n
  <2> QED
    BY <2>2
<1> QED
  BY <1>2, <1>3, <1>4, <1>5 DEF E, n

LEMMA Beginnings ==
    ASSUME NEW t \in Seq(Nat), NEW n \in 0 .. Len(t)
    PROVE  LET u == SubSeq(t, 1, n)
           IN  u \in Seq(Nat) /\ Len(u) = n /\ \A i \in 1 .. n : u[i] = t[i]
OBVIOUS

LEMMA SameElements ==
    ASSUME NEW s \in Seq(Nat), NEW u \in Seq(Nat), Len(u) = Len(s)
    PROVE  s = u <=> \A i \in 1 .. Len(s) : s[i] = u[i]
<1>1. s \in [1 .. Len(s) -> Nat] /\ u \in [1 .. Len(s) -> Nat]
  OBVIOUS
<1> QED
  BY <1>1

LEMMA PrefixElements ==
    ASSUME NEW s \in Seq(Nat), NEW t \in Seq(Nat)
    PROVE  IsPrefix(s, t) <=> Len(s) <= Len(t) /\ \A i \in 1 .. Len(s) : s[i] = t[i]
<1> DEFINE a == SubSeq(s, 1, Len(s))
           b == SubSeq(t, 1, Len(s))
<1>1. IsPrefix(s, t) <=> Len(s) <= Len(t) /\ a = b
  BY DEF IsPrefix
<1>2. a = s
  <2>1. Len(s) \in 0 .. Len(s)
    OBVIOUS
  <2>2. a \in Seq(Nat) /\ Len(a) = Len(s) /\ \A i \in 1 .. Len(s) : a[i] = s[i]
    BY <2>1, Beginnings
  <2> HIDE DEF a
  <2> QED
    BY <2>2, SameElements
<1>3. ASSUME Len(s) <= Len(t) PROVE s = b <=> \A i \in 1 .. Len(s) : s[i] = t[i]
  <2>1. b \in Seq(Nat) /\ Len(b) = Len(s) /\ \A i \in 1 .. Len(s) : b[i] = t[i]
    <3>1. Len(s) \in 0 .. Len(t)
      BY <1>3
    <3> QED
      BY <3>1, Beginnings
  <2> HIDE DEF b
  <2> QED
    BY <2>1, SameElements
<1> HIDE DEF a, b
<1> QED
  BY <1>1, <1>2, <1>3

LEMMA KeyBits ==
    ASSUME NEW net \in Ip, NEW mask \in 0 .. 8 * Len(net.octets)
    PROVE  /\ Key(net, mask) \in Seq(Nat) /\ Len(Key(net, mask)) = 1 + mask
           /\ \A i \in 1 .. 1 + mask : Key(net, mask)[i] = EncodeBytes(net)[i]
<1> DEFINE E == EncodeBytes(net)
<1>1. E \in Seq(Nat) /\ Len(E) = 1 + 8 * Len(net.octets)
  BY EncodedBits
<1>2. mask \in Nat /\ 1 + mask <= Len(E)
  BY <1>1, Octets
<1>3. Key(net, mask) = SubSeq(E, 1, 1 + mask)
  BY DEF Key
<1> HIDE DEF E
<1> QED
  BY <1>1, <1>2, <1>3 DEF E

\* A key is a prefix of the bits of an address if and only if the address lies
\* in the subnet.
LEMMA PrefixIsSubnet ==
    ASSUME NEW net \in Ip, NEW mask \in 0 .. 8 * Len(net.octets), NEW ip \in Ip
    PROVE  IsPrefix(Key(net, mask), EncodeBytes(ip)) <=> Holds(net, mask, ip)
<1> DEFINE K == Key(net, mask)
           D == EncodeBytes(net)
           E == EncodeBytes(ip)
           n == Len(net.octets)
           whole == mask \div 8
           split == mask % 8
           Agree(j, m) == SplitU8(net.octets[j])[m] = SplitU8(ip.octets[j])[m]
<1>n. /\ n \in {4, 16} /\ mask \in 0 .. 8 * n
      /\ whole \in 0 .. n /\ split \in 0 .. 7 /\ mask = 8 * whole + split
      /\ split # 0 => whole + 1 \in 1 .. n
  <2>1. n = 4 \/ n = 16
    BY Octets
  <2> QED
    BY <2>1
<1>f. net.family = ip.family => Len(ip.octets) = n
  BY Octets
<1>o. /\ \A j \in 1 .. n : net.octets[j] \in 0 .. 255
      /\ net.family = ip.family => \A j \in 1 .. n : ip.octets[j] \in 0 .. 255
  <2>1. \A j \in 1 .. Len(ip.octets) : ip.octets[j] \in 0 .. 255
    BY Octets
  <2>2. \A j \in 1 .. Len(net.octets) : net.octets[j] \in 0 .. 255
    BY Octets
  <2> QED
    BY <2>1, <2>2, <1>f
<1>d. /\ D[1] = net.family
      /\ \A j \in 1 .. n : \A m \in 1 .. 8 : D[1 + 8 * (j - 1) + m] = SplitU8(net.octets[j])[m]
  BY EncodedBits
<1>e. /\ E \in Seq(Nat) /\ Len(E) = 1 + 8 * Len(ip.octets) /\ E[1] = ip.family
      /\ net.family = ip.family =>
            \A j \in 1 .. n : \A m \in 1 .. 8 : E[1 + 8 * (j - 1) + m] = SplitU8(ip.octets[j])[m]
  BY <1>f, EncodedBits
<1>k. K \in Seq(Nat) /\ Len(K) = 1 + mask /\ \A i \in 1 .. 1 + mask : K[i] = D[i]
  BY KeyBits
<1> HIDE DEF K, D, E, n, whole, split, Agree
<1>1. IsPrefix(K, E) <=> 1 + mask <= Len(E) /\ \A i \in 1 .. 1 + mask : D[i] = E[i]
  <2>1. IsPrefix(K, E) <=> Len(K) <= Len(E) /\ \A i \in 1 .. Len(K) : K[i] = E[i]
    <3>1. K \in Seq(Nat) /\ E \in Seq(Nat)
      BY <1>k, <1>e
    <3> QED
      BY <3>1, PrefixElements
  <2> QED
    BY <2>1, <1>k
<1>2. Holds(net, mask, ip) <=>
          /\ net.family = ip.family
          /\ \A j \in 1 .. whole : net.octets[j] = ip.octets[j]
          /\ split # 0 => HighBits(net.octets[whole + 1], split) = HighBits(ip.octets[whole + 1], split)
  BY DEF Holds, whole, split
<1>3. ASSUME net.family = ip.family, NEW j \in 1 .. n
      PROVE  /\ net.octets[j] = ip.octets[j] <=> \A m \in 1 .. 8 : Agree(j, m)
             /\ \A r \in 1 .. 7 : HighBits(net.octets[j], r) = HighBits(ip.octets[j], r)
                                     <=> \A m \in 1 .. r : Agree(j, m)
  <2> DEFINE u == net.octets[j]
             v == ip.octets[j]
  <2>1. u \in 0 .. 255 /\ v \in 0 .. 255
    BY <1>3, <1>o
  <2>2. \A r : FirstBitsAgree(u, v, r) <=> \A m \in 1 .. r : Agree(j, m)
    BY DEF Agree, FirstBitsAgree
  <2> HIDE DEF u, v
  <2>3. FirstBitsAgree(u, v, 8) <=> u = v
    BY <2>1, SplitKeepsOctet
  <2>4. \A r \in 1 .. 7 : FirstBitsAgree(u, v, r) <=> (HighBits(u, r) = HighBits(v, r))
    BY <2>1, SplitKeepsHighBits
  <2>5. /\ u = v <=> \A m \in 1 .. 8 : Agree(j, m)
        /\ \A r \in 1 .. 7 : HighBits(u, r) = HighBits(v, r) <=> \A m \in 1 .. r : Agree(j, m)
    BY <2>2, <2>3, <2>4
  <2> QED
    BY <2>5 DEF u, v
<1>4. Holds(net, mask, ip) <=>
          /\ net.family = ip.family
          /\ \A j \in 1 .. whole : \A m \in 1 .. 8 : Agree(j, m)
          /\ split # 0 => \A m \in 1 .. split : Agree(whole + 1, m)
  <2>1. 1 .. whole \subseteq 1 .. n
    BY <1>n
  <2>2. net.family = ip.family =>
           ((\A j \in 1 .. whole : net.octets[j] = ip.octets[j])
              <=> (\A j \in 1 .. whole : \A m \in 1 .. 8 : Agree(j, m)))
    BY <2>1, <1>3
  <2>3. net.family = ip.family /\ split # 0 =>
           (HighBits(net.octets[whole + 1], split) = HighBits(ip.octets[whole + 1], split)
              <=> (\A m \in 1 .. split : Agree(whole + 1, m)))
    <3>1. split # 0 => split \in 1 .. 7
      BY <1>n
    <3> QED
      BY <3>1, <1>n, <1>3
  <2> QED
    BY <2>2, <2>3, <1>2
<1>5. ASSUME net.family = ip.family, NEW j \in 1 .. n, NEW m \in 1 .. 8
      PROVE  Agree(j, m) <=> D[1 + 8 * (j - 1) + m] = E[1 + 8 * (j - 1) + m]
  BY <1>5, <1>d, <1>e DEF Agree
<1>6. ASSUME IsPrefix(K, E) PROVE Holds(net, mask, ip)
  <2>1. net.family = ip.family
    <3>1. 1 \in 1 .. 1 + mask
      BY <1>n
    <3> QED
      BY <3>1, <1>1, <1>6, <1>d, <1>e
  <2>2. ASSUME NEW j \in 1 .. n, NEW m \in 1 .. 8, 8 * (j - 1) + m <= mask
        PROVE  Agree(j, m)
    <3>1. 1 + 8 * (j - 1) + m \in 1 .. 1 + mask
      BY <2>2, <1>n
    <3>2. D[1 + 8 * (j - 1) + m] = E[1 + 8 * (j - 1) + m]
      BY <3>1, <1>1, <1>6
    <3> QED
      BY <3>2, <2>1, <1>5
  <2>3. ASSUME NEW j \in 1 .. whole, NEW m \in 1 .. 8
        PROVE  j \in 1 .. n /\ 8 * (j - 1) + m <= mask
    BY <1>n
  <2>4. ASSUME split # 0, NEW m \in 1 .. split
        PROVE  whole + 1 \in 1 .. n /\ m \in 1 .. 8 /\ 8 * ((whole + 1) - 1) + m <= mask
    BY <2>4, <1>n
  <2> QED
    BY <2>1, <2>2, <2>3, <2>4, <1>4
<1>7. ASSUME Holds(net, mask, ip) PROVE IsPrefix(K, E)
  <2>f. net.family = ip.family /\ Len(ip.octets) = n
    BY <1>7, <1>2, <1>f
  <2>1. 1 + mask <= Len(E)
    BY <2>f, <1>e, <1>n
  <2>2. ASSUME NEW i \in 2 .. 1 + mask PROVE D[i] = E[i]
    <3> DEFINE j == 1 + ((i - 2) \div 8)
               m == 1 + ((i - 2) % 8)
    <3>1. j \in 1 .. n /\ m \in 1 .. 8 /\ i = 1 + 8 * (j - 1) + m
      BY <1>n
    <3>2. j <= whole \/ (j = whole + 1 /\ m <= split)
      BY <1>n
    <3> HIDE DEF j, m
    <3>3. Agree(j, m)
      <4>1. CASE j <= whole
        <5>1. j \in 1 .. whole
          BY <4>1, <3>1, <1>n
        <5> QED
          BY <5>1, <3>1, <1>7, <1>4
      <4>2. CASE j = whole + 1 /\ m <= split
        <5>1. split # 0 /\ m \in 1 .. split
          BY <4>2, <3>1, <1>n
        <5> QED
          BY <5>1, <4>2, <1>7, <1>4
      <4> QED
        BY <4>1, <4>2, <3>2
    <3> QED
      BY <3>1, <3>3, <2>f, <1>5
  <2>3. D[1] = E[1]
    BY <2>f, <1>d, <1>e
  <2>4. \A i \in 1 .. 1 + mask : i = 1 \/ i \in 2 .. 1 + mask
    BY <1>n
  <2> QED
    BY <2>1, <2>2, <2>3, <2>4, <1>1
<1> QED
  BY <1>6, <1>7 DEF K, E

-----------------------------------------------------------------------------
(***************************************************************************)
(* Peers.                                                                  *)
(***************************************************************************)
\* The array of a peer: a heap of hosts of rank 1.
HeapOK(heap) ==
    /\ IsHeap(heap)
    /\ \A i \in DOMAIN heap : heap[i].rank = 1 /\ heap[i].host \in Addr \cup {Localhost}

PeerOK(peer) == DOMAIN peer = {"name", "heap"} /\ HeapOK(peer.heap)

LEMMA EmptyPeerOK ==
    ASSUME NEW name
    PROVE  /\ PeerOK(EmptyPeer(name)) /\ EmptyPeer(name).heap = << >>
           /\ HostsOf(EmptyPeer(name)) = {}
           /\ PeerView(EmptyPeer(name)) = NewPeer(name)
<1>1. DOMAIN EmptyPeer(name) = {"name", "heap"}
      /\ EmptyPeer(name).heap = << >> /\ EmptyPeer(name).name = name
  BY DEF EmptyPeer
<1>2. HeapOK(<< >>)
  BY DEF HeapOK, IsHeap
<1>3. HostsOf(EmptyPeer(name)) = {}
  BY <1>1 DEF HostsOf
<1> QED
  BY <1>1, <1>2, <1>3 DEF PeerOK, PeerView, GetHost, NewPeer

\* add_host of a host that is new is AddHost of RouteTable.
LEMMA GainOK ==
    ASSUME NEW peer, PeerOK(peer),
           NEW host \in Addr \cup {Localhost}, host \notin HostsOf(peer)
    PROVE  /\ PeerOK(Gain(peer, host)) /\ Gain(peer, host).heap # << >>
           /\ HostsOf(Gain(peer, host)) = HostsOf(peer) \cup {host}
           /\ PeerView(Gain(peer, host)) = AddHost(PeerView(peer), host)
<1> DEFINE heap == peer.heap
           x == [host |-> host, rank |-> 1]
           new == Push(heap, x)
           q == Gain(peer, host)
<1>1. /\ IsHeap(heap) /\ heap \in Seq(Entry)
      /\ \A i \in DOMAIN heap : heap[i].rank = 1 /\ heap[i].host \in Addr \cup {Localhost}
  BY DEF PeerOK, HeapOK, IsHeap
<1>2. x \in Entry /\ x.host = host /\ x.rank = 1
  BY DEF Entry, Host
<1>3. DOMAIN q = {"name", "heap"} /\ q.heap = new /\ q.name = peer.name
  BY DEF Gain, PeerOK
<1> HIDE DEF heap, x, new, q
<1>4. \A i \in DOMAIN heap : heap[i].host # x.host
  BY <1>2 DEF HostsOf, heap
<1>5. IsHeap(new) /\ new \in Seq(Entry)
  <2>1. IsHeap(new)
    BY <1>1, <1>2, <1>4, PushKeepsHeap DEF new
  <2> QED
    BY <2>1 DEF IsHeap
<1>6. {new[j] : j \in DOMAIN new} = {heap[j] : j \in DOMAIN heap} \cup {x}
  BY <1>1, <1>2, PushAddsEntry DEF new
<1>7. \A j \in DOMAIN new : new[j] = x \/ \E i \in DOMAIN heap : new[j] = heap[i]
  BY <1>6
<1>8. /\ \E j \in DOMAIN new : new[j] = x
      /\ \A i \in DOMAIN heap : \E j \in DOMAIN new : new[j] = heap[i]
  <2>1. x \in {new[j] : j \in DOMAIN new}
    BY <1>6
  <2>2. \A i \in DOMAIN heap : heap[i] \in {new[j] : j \in DOMAIN new}
    BY <1>6
  <2> QED
    BY <2>1, <2>2
<1>9. new # << >>
  BY <1>8
<1>10. HeapOK(new)
  BY <1>1, <1>2, <1>5, <1>7 DEF HeapOK
<1>11. HostsOf(q) = HostsOf(peer) \cup {host}
  <2>1. \A h \in HostsOf(q) : h \in HostsOf(peer) \cup {host}
    BY <1>2, <1>3, <1>7 DEF HostsOf, heap
  <2>2. \A h \in HostsOf(peer) \cup {host} : h \in HostsOf(q)
    BY <1>2, <1>3, <1>8 DEF HostsOf, heap
  <2> QED
    BY <2>1, <2>2
<1>12. GetHost(q) = IF Outranks(host, GetHost(peer)) THEN host ELSE GetHost(peer)
  <2>1. new[1] = IF heap = << >> \/ Greater(x, heap[1]) THEN x ELSE heap[1]
    BY <1>1, <1>2, PushRoot DEF new
  <2>2. GetHost(q) = new[1].host
    BY <1>3, <1>9 DEF GetHost
  <2>3. CASE heap = << >>
    <3>1. GetHost(peer) = Unreachable
      BY <2>3 DEF GetHost, heap
    <3>2. Outranks(host, Unreachable)
      BY HostsDistinct DEF Outranks
    <3> QED
      BY <2>1, <2>2, <2>3, <3>1, <3>2, <1>2
  <2>4. CASE heap # << >>
    <3>1. GetHost(peer) = heap[1].host
      BY <2>4 DEF GetHost, heap
    <3>2. 1 \in DOMAIN heap
      BY <2>4, <1>1
    <3>3. heap[1].rank = 1 /\ heap[1].host \in Addr \cup {Localhost}
      BY <1>1, <3>2
    <3>4. Greater(x, heap[1]) <=> Outranks(host, heap[1].host)
      BY <1>2, <3>3, HostsDistinct DEF Greater, Outranks
    <3> QED
      BY <2>1, <2>2, <2>4, <3>1, <3>4, <1>2
  <2> QED
    BY <2>3, <2>4
<1>13. PeerView(q) = AddHost(PeerView(peer), host)
  <2>1. PeerView(q) = [name |-> peer.name, hosts |-> HostsOf(peer) \cup {host}, top |-> GetHost(q)]
    BY <1>3, <1>11 DEF PeerView
  <2>2. PeerView(peer).name = peer.name /\ PeerView(peer).hosts = HostsOf(peer)
        /\ PeerView(peer).top = GetHost(peer)
    BY DEF PeerView
  <2> QED
    BY <2>1, <2>2, <1>12 DEF AddHost
<1> QED
  BY <1>3, <1>9, <1>10, <1>11, <1>13 DEF PeerOK, q

-----------------------------------------------------------------------------
(***************************************************************************)
(* The invariant.                                                          *)
(***************************************************************************)
\* The announcements in effect for a key.
Current(k) == {e \in DOMAIN announced : KeyOf[e] = k}

\* Of two announcements one came before the other.
Ordered ==
    /\ DOMAIN announced \subseteq Announced
    /\ \A e \in DOMAIN announced : announced[e] \subseteq DOMAIN announced \ {e}
    /\ \A e, f \in DOMAIN announced : e = f \/ e \in announced[f] \/ f \in announced[e]

\* The peer of key k has the hosts announced for it, and on top the interface,
\* or the host that was announced first.
Represents(k) ==
    LET peer == table[k]
    IN  /\ PeerOK(peer) /\ peer.heap # << >>
        /\ HostsOf(peer) = {e.host : e \in Current(k)}
        /\ \/ Localhost \in HostsOf(peer) /\ GetHost(peer) = Localhost
           \/ Localhost \notin HostsOf(peer) /\ \E e \in First(Current(k)) : GetHost(peer) = e.host

KeysInv ==
    /\ Ordered
    /\ DOMAIN table = {KeyOf[e] : e \in DOMAIN announced}
    /\ \A k \in DOMAIN table : Represents(k)

\* What KeysAssumption says of one announcement.
LEMMA AnnouncementOK ==
    ASSUME NEW e \in Announced
    PROVE  /\ e.net \in Ip /\ e.mask \in 0 .. 8 * Len(e.net.octets) /\ e.host \in Addr \cup {Localhost}
           /\ KeyOf[e] = Key(e.net, e.mask)
           /\ KeyOf[e] \in Seq(Nat) /\ Len(KeyOf[e]) = 1 + e.mask /\ e.mask \in Nat
<1>1. e.net \in Ip /\ e.mask \in 0 .. 8 * Len(e.net.octets) /\ e.host \in Addr \cup {Localhost}
  BY KeysAssumption
<1>2. KeyOf[e] = Key(e.net, e.mask)
  BY DEF KeyOf
<1>3. e.mask \in Nat
  <2>1. Len(e.net.octets) \in Nat
    BY <1>1, Octets
  <2> QED
    BY <1>1, <2>1
<1>4. Key(e.net, e.mask) \in Seq(Nat) /\ Len(Key(e.net, e.mask)) = 1 + e.mask
  BY <1>1, KeyBits
<1> QED
  BY <1>1, <1>2, <1>3, <1>4

\* Two announcements have one key if and only if one's mask is the other's and
\* its subnet holds the other's address.
LEMMA SameKey ==
    ASSUME NEW e \in Announced, NEW o \in Announced
    PROVE  o.mask = e.mask /\ Holds(e.net, e.mask, o.net) <=> KeyOf[o] = KeyOf[e]
<1> DEFINE E == EncodeBytes(o.net)
<1>1. /\ e.net \in Ip /\ e.mask \in 0 .. 8 * Len(e.net.octets)
      /\ KeyOf[e] = Key(e.net, e.mask) /\ KeyOf[e] \in Seq(Nat) /\ Len(KeyOf[e]) = 1 + e.mask
  BY AnnouncementOK
<1>2. /\ o.net \in Ip /\ o.mask \in 0 .. 8 * Len(o.net.octets)
      /\ KeyOf[o] = Key(o.net, o.mask) /\ KeyOf[o] \in Seq(Nat) /\ Len(KeyOf[o]) = 1 + o.mask
  BY AnnouncementOK
<1>3. e.mask \in Nat /\ o.mask \in Nat
  BY AnnouncementOK
<1>4. Holds(e.net, e.mask, o.net) <=> IsPrefix(KeyOf[e], E)
  BY <1>1, <1>2, PrefixIsSubnet
<1>5. E \in Seq(Nat) /\ Len(E) = 1 + 8 * Len(o.net.octets)
  BY <1>2, EncodedBits
<1>6. \A i \in 1 .. 1 + o.mask : KeyOf[o][i] = E[i]
  BY <1>2, KeyBits
<1>7. 1 + o.mask <= Len(E)
  BY <1>2, <1>5, Octets
<1> HIDE DEF E
<1>8. IsPrefix(KeyOf[e], E) <=> 1 + e.mask <= Len(E) /\ \A i \in 1 .. 1 + e.mask : KeyOf[e][i] = E[i]
  BY <1>1, <1>5, PrefixElements
<1>9. ASSUME o.mask = e.mask, IsPrefix(KeyOf[e], E) PROVE KeyOf[o] = KeyOf[e]
  <2> DEFINE s == KeyOf[o]
             u == KeyOf[e]
  <2>1. \A i \in 1 .. 1 + e.mask : s[i] = u[i]
    BY <1>6, <1>8, <1>9
  <2>2. s \in Seq(Nat) /\ u \in Seq(Nat) /\ Len(s) = 1 + e.mask /\ Len(u) = 1 + e.mask
    BY <1>1, <1>2, <1>9
  <2> HIDE DEF s, u
  <2>3. s = u
    BY <2>1, <2>2, SameElements
  <2> QED
    BY <2>3 DEF s, u
<1>10. ASSUME KeyOf[o] = KeyOf[e] PROVE o.mask = e.mask /\ IsPrefix(KeyOf[e], E)
  <2>1. o.mask = e.mask
    BY <1>1, <1>2, <1>3, <1>10
  <2> QED
    BY <2>1, <1>6, <1>7, <1>8, <1>10
<1> QED
  BY <1>4, <1>9, <1>10

-----------------------------------------------------------------------------
LEMMA KeysInit == Init => KeysInv
<1> SUFFICES ASSUME Init PROVE KeysInv
  OBVIOUS
<1>1. DOMAIN table = {} /\ DOMAIN announced = {}
  BY DEF Init, EmptyTable
<1> QED
  BY <1>1 DEF KeysInv, Ordered

\* An announcement in effect has its host in the table.
LEMMA InEffect ==
    ASSUME KeysInv, NEW e \in DOMAIN announced
    PROVE  Has(e)
<1>1. KeyOf[e] \in DOMAIN table
  BY DEF KeysInv
<1>2. HostsOf(table[KeyOf[e]]) = {o.host : o \in Current(KeyOf[e])}
  BY <1>1 DEF KeysInv, Represents
<1>3. e \in Current(KeyOf[e])
  BY DEF Current
<1> QED
  BY <1>1, <1>2, <1>3 DEF Has

\* Table::insert of a new host.
LEMMA AnnounceStep ==
    ASSUME KeysInv, NEW e \in Announced, Announce(e)
    PROVE  /\ KeysInv'
           /\ ~Known(TableView, KeyOf[e], e.host)
           /\ TableView' = Insert(TableView, KeyOf[e], e.name, e.host)
<1> DEFINE k == KeyOf[e]
           D == DOMAIN announced
           old == IF k \in DOMAIN table THEN table[k] ELSE EmptyPeer(e.name)
           new == Gain(old, e.host)
<1>1. /\ ~Has(e)
      /\ table' = [j \in DOMAIN table \cup {k} |-> IF j = k THEN new ELSE table[j]]
      /\ announced' = [o \in D \cup {e} |-> IF o = e THEN D ELSE announced[o]]
  BY DEF Announce
<1>2. e \notin D
  BY <1>1, InEffect
<1>3. /\ D \subseteq Announced
      /\ \A o \in D : announced[o] \subseteq D \ {o}
      /\ \A o, f \in D : o = f \/ o \in announced[f] \/ f \in announced[o]
      /\ DOMAIN table = {KeyOf[o] : o \in D}
      /\ \A j \in DOMAIN table : Represents(j)
  BY DEF KeysInv, Ordered
<1>4. e.host \in Addr \cup {Localhost}
  BY AnnouncementOK
<1>5. /\ PeerOK(old) /\ e.host \notin HostsOf(old)
      /\ HostsOf(old) = {o.host : o \in Current(k)}
      /\ k \in DOMAIN table => old = table[k]
      /\ k \notin DOMAIN table => old = EmptyPeer(e.name) /\ Current(k) = {}
  <2>1. CASE k \in DOMAIN table
    <3>1. old = table[k] /\ Represents(k)
      BY <2>1, <1>3
    <3> QED
      BY <2>1, <3>1, <1>1 DEF Represents, Has
  <2>2. CASE k \notin DOMAIN table
    <3>1. old = EmptyPeer(e.name)
      BY <2>2
    <3>2. Current(k) = {}
      BY <2>2, <1>3 DEF Current
    <3> QED
      BY <2>2, <3>1, <3>2, EmptyPeerOK
  <2> QED
    BY <2>1, <2>2
<1> HIDE DEF old
<1>6. /\ PeerOK(new) /\ new.heap # << >>
      /\ HostsOf(new) = HostsOf(old) \cup {e.host}
      /\ PeerView(new) = AddHost(PeerView(old), e.host)
  BY <1>4, <1>5, GainOK
<1> HIDE DEF new, k, D
<1>7. /\ DOMAIN announced' = D \cup {e}
      /\ announced'[e] = D
      /\ \A o \in D : announced'[o] = announced[o]
      /\ DOMAIN table' = DOMAIN table \cup {k}
      /\ table'[k] = new
      /\ \A j \in DOMAIN table \ {k} : table'[j] = table[j]
  BY <1>1, <1>2
<1>8. Ordered'
  BY <1>2, <1>3, <1>7 DEF Ordered
<1>9. DOMAIN table' = {KeyOf[o] : o \in DOMAIN announced'}
  BY <1>3, <1>7 DEF k
<1>10. \A j : Current(j)' = IF j = k THEN Current(j) \cup {e} ELSE Current(j)
  BY <1>7 DEF Current, k, D
<1>11. \A j : \A o \in Current(j) : announced'[o] = announced[o] /\ e \notin announced[o]
  BY <1>2, <1>3, <1>7 DEF Current, D
<1>12. ASSUME NEW j PROVE First(Current(j)) \subseteq First(Current(j))'
  <2> SUFFICES ASSUME NEW o \in First(Current(j)) PROVE o \in First(Current(j))'
    OBVIOUS
  <2>1. o \in Current(j) /\ announced[o] \cap Current(j) = {}
    BY DEF First
  <2>2. o \in Current(j)' /\ announced'[o] \cap Current(j)' = {}
    BY <2>1, <1>10, <1>11
  <2> QED
    BY <2>2 DEF First
<1>13. ASSUME NEW j \in DOMAIN table \ {k} PROVE Represents(j)'
  <2>1. Represents(j) /\ table'[j] = table[j] /\ Current(j)' = Current(j)
    BY <1>3, <1>7, <1>10
  <2> QED
    BY <2>1, <1>12 DEF Represents
<1>14. Represents(k)'
  <2>1. HostsOf(new) = {o.host : o \in Current(k)'}
    BY <1>5, <1>6, <1>10
  <2>2. GetHost(new) = IF Outranks(e.host, GetHost(old)) THEN e.host ELSE GetHost(old)
    BY <1>6 DEF PeerView, AddHost
  <2>3. CASE e.host = Localhost
    <3>1. GetHost(old) # Localhost
      <4>1. CASE k \in DOMAIN table
        BY <4>1, <2>3, <1>3, <1>5, HostsDistinct DEF Represents, First
      <4>2. CASE k \notin DOMAIN table
        BY <4>2, <1>5, HostsDistinct DEF EmptyPeer, GetHost
      <4> QED
        BY <4>1, <4>2
    <3>2. GetHost(new) = Localhost /\ Localhost \in HostsOf(new)
      BY <2>2, <2>3, <3>1, <1>6 DEF Outranks
    <3> QED
      BY <2>1, <3>2, <1>6, <1>7 DEF Represents
  <2>4. CASE e.host \in Addr /\ k \in DOMAIN table
    <3>1. Represents(k) /\ old = table[k]
      BY <2>4, <1>3, <1>5
    <3>2. GetHost(old) \in Addr \cup {Localhost}
      <4>1. 1 \in DOMAIN old.heap /\ GetHost(old) = old.heap[1].host
        BY <3>1 DEF Represents, PeerOK, HeapOK, IsHeap, GetHost
      <4> QED
        BY <4>1, <1>5 DEF PeerOK, HeapOK
    <3>3. GetHost(new) = GetHost(old)
      BY <2>2, <2>4, <3>2, HostsDistinct DEF Outranks
    <3>4. Localhost \in HostsOf(new) <=> Localhost \in HostsOf(old)
      BY <2>4, <1>6, HostsDistinct
    <3> QED
      BY <2>1, <3>1, <3>3, <3>4, <1>6, <1>7, <1>12 DEF Represents
  <2>5. CASE e.host \in Addr /\ k \notin DOMAIN table
    <3>1. GetHost(old) = Unreachable /\ Current(k)' = {e}
      BY <2>5, <1>5, <1>10 DEF EmptyPeer, GetHost
    <3>2. GetHost(new) = e.host
      BY <2>2, <2>5, <3>1, HostsDistinct DEF Outranks
    <3>3. e \in First(Current(k))'
      BY <3>1, <1>2, <1>7 DEF First
    <3>4. Localhost \notin HostsOf(new)
      BY <2>1, <2>5, <3>1, HostsDistinct
    <3> QED
      BY <2>1, <3>2, <3>3, <3>4, <1>6, <1>7 DEF Represents
  <2> QED
    BY <2>3, <2>4, <2>5, <1>4
<1>15. KeysInv'
  BY <1>7, <1>8, <1>9, <1>13, <1>14 DEF KeysInv
<1>16. ~Known(TableView, k, e.host)
  BY <1>5 DEF Known, TableView, PeerView
<1>17. TableView' = Insert(TableView, k, e.name, e.host)
  <2>1. TableView' = [j \in DOMAIN table \cup {k} |-> PeerView(table'[j])]
    BY <1>7 DEF TableView
  <2>2. DOMAIN TableView = DOMAIN table /\ \A j \in DOMAIN table : TableView[j] = PeerView(table[j])
    BY DEF TableView
  <2>3. PeerView(old) = IF k \in DOMAIN table THEN TableView[k] ELSE NewPeer(e.name)
    BY <1>5, <2>2, EmptyPeerOK
  <2>4. ASSUME NEW j \in DOMAIN table \cup {k}
        PROVE  PeerView(table'[j]) =
                  IF j # k THEN TableView[j]
                  ELSE AddHost(IF k \in DOMAIN TableView THEN TableView[k] ELSE NewPeer(e.name), e.host)
    BY <1>6, <1>7, <2>2, <2>3
  <2> QED
    BY <2>1, <2>2, <2>4 DEF Insert
<1> QED
  BY <1>15, <1>16, <1>17 DEF k

\* Table::insert of a host the key has: nothing is changed.
LEMMA RepeatStep ==
    ASSUME KeysInv, NEW e \in Announced, Repeat(e)
    PROVE  KeysInv' /\ TableView' = TableView
<1>1. /\ announced' = announced /\ DOMAIN table' = DOMAIN table
      /\ \A k \in DOMAIN table : table'[k] = table[k]
  BY DEF Repeat, GainAgain
<1>2. \A k : Current(k)' = Current(k) /\ First(Current(k))' = First(Current(k))
  BY <1>1 DEF Current, First
<1>3. Ordered'
  BY <1>1 DEF KeysInv, Ordered
<1>4. \A k \in DOMAIN table : Represents(k)'
  BY <1>1, <1>2 DEF KeysInv, Represents
<1>5. KeysInv'
  BY <1>1, <1>3, <1>4 DEF KeysInv
<1>6. TableView' = TableView
  BY <1>1 DEF TableView
<1> QED
  BY <1>5, <1>6

\* Table::delete: the announcements of one key are forgotten.
LEMMA WithdrawStep ==
    ASSUME KeysInv, NEW e \in Announced, Withdraw(e)
    PROVE  KeysInv' /\ TableView' = Delete(TableView, KeyOf[e])
<1> DEFINE k == KeyOf[e]
           D == DOMAIN announced
           left == {o \in D : KeyOf[o] # k}
<1>1. /\ D \subseteq Announced
      /\ \A o \in D : announced[o] \subseteq D \ {o}
      /\ \A o, f \in D : o = f \/ o \in announced[f] \/ f \in announced[o]
      /\ DOMAIN table = {KeyOf[o] : o \in D}
      /\ \A j \in DOMAIN table : Represents(j)
  BY DEF KeysInv, Ordered
<1>2. left = {o \in D : ~(o.mask = e.mask /\ Holds(e.net, e.mask, o.net))}
  <2>1. \A o \in D : o.mask = e.mask /\ Holds(e.net, e.mask, o.net) <=> KeyOf[o] = k
    BY <1>1, SameKey
  <2> QED
    BY <2>1
<1>3. announced' = [o \in left |-> announced[o] \cap left]
  BY <1>2 DEF Withdraw
<1>4. table' = [j \in DOMAIN table \ {k} |-> table[j]]
  BY DEF Withdraw, Delete
<1> HIDE DEF k, D, left
<1>5. DOMAIN announced' = left /\ \A o \in left : announced'[o] = announced[o] \cap left
  BY <1>3
<1>6. DOMAIN table' = DOMAIN table \ {k} /\ \A j \in DOMAIN table \ {k} : table'[j] = table[j]
  BY <1>4
<1>7. left \subseteq D /\ left \subseteq Announced
  BY <1>1 DEF left
<1>8. Ordered'
  BY <1>1, <1>5, <1>7 DEF Ordered
<1>9. DOMAIN table' = {KeyOf[o] : o \in DOMAIN announced'}
  BY <1>1, <1>5, <1>6 DEF left
<1>10. ASSUME NEW j \in DOMAIN table \ {k}
       PROVE  Current(j)' = Current(j) /\ Current(j) \subseteq left
  BY <1>5, <1>10 DEF Current, left, D
<1>11. ASSUME NEW j \in DOMAIN table \ {k} PROVE First(Current(j))' = First(Current(j))
  <2>1. \A o \in Current(j) : announced'[o] \cap Current(j)' = announced[o] \cap Current(j)
    BY <1>5, <1>10
  <2> QED
    BY <2>1, <1>10 DEF First
<1>12. ASSUME NEW j \in DOMAIN table' PROVE Represents(j)'
  <2>1. j \in DOMAIN table \ {k} /\ table'[j] = table[j] /\ Represents(j)
    BY <1>1, <1>6
  <2> QED
    BY <2>1, <1>10, <1>11 DEF Represents
<1>13. KeysInv'
  BY <1>8, <1>9, <1>12 DEF KeysInv
<1>14. TableView' = Delete(TableView, k)
  <2>1. TableView' = [j \in DOMAIN table \ {k} |-> PeerView(table[j])]
    BY <1>6 DEF TableView
  <2>2. DOMAIN TableView = DOMAIN table /\ \A j \in DOMAIN table : TableView[j] = PeerView(table[j])
    BY DEF TableView
  <2> QED
    BY <2>1, <2>2 DEF Delete
<1> QED
  BY <1>13, <1>14 DEF k

LEMMA KeysStep == KeysInv /\ [Next]_keyVars => KeysInv'
<1> SUFFICES ASSUME KeysInv, [Next]_keyVars PROVE KeysInv'
  OBVIOUS
<1>1. CASE Next
  <2> PICK e \in Announced : Announce(e) \/ Repeat(e) \/ Withdraw(e)
    BY <1>1 DEF Next
  <2> QED
    BY AnnounceStep, RepeatStep, WithdrawStep
<1>2. CASE UNCHANGED keyVars
  <2>1. table' = table /\ announced' = announced
    BY <1>2 DEF keyVars
  <2> QED
    BY <2>1 DEF KeysInv, Ordered, Represents, Current, First
<1> QED
  BY <1>1, <1>2

LEMMA KeysInvariant == Spec => []KeysInv
<1>1. Init => KeysInv
  BY KeysInit
<1>2. KeysInv /\ [Next]_keyVars => KeysInv'
  BY KeysStep
<1> QED
  BY <1>1, <1>2, PTL DEF Spec

-----------------------------------------------------------------------------
(***************************************************************************)
(* What the table promises.                                                *)
(***************************************************************************)
\* KeysTypeOK: keys are families and bits, and the array of a peer is a heap
\* of the hosts that were announced for its key, each once, whatever the
\* order in which they came.
THEOREM KeysAreTyped == Spec => []KeysTypeOK
<1>1. KeysInv => KeysTypeOK
  <2> SUFFICES ASSUME KeysInv, NEW k \in DOMAIN table
               PROVE  /\ k[1] \in {4, 6} /\ \A i \in 2 .. Len(k) : k[i] \in {0, 1}
                      /\ IsHeap(table[k].heap)
                      /\ HostsOf(table[k]) = {e.host : e \in {f \in DOMAIN announced : KeyOf[f] = k}}
    BY DEF KeysTypeOK
  <2>1. PICK e \in DOMAIN announced : k = KeyOf[e]
    BY DEF KeysInv
  <2>2. e \in Announced
    BY DEF KeysInv, Ordered
  <2>3. /\ e.net \in Ip /\ e.mask \in 0 .. 8 * Len(e.net.octets)
        /\ k = Key(e.net, e.mask) /\ Len(k) = 1 + e.mask /\ e.mask \in Nat
    BY <2>1, <2>2, AnnouncementOK
  <2>4. \A i \in 1 .. 1 + e.mask : k[i] = EncodeBytes(e.net)[i]
    BY <2>3, KeyBits
  <2>5. /\ EncodeBytes(e.net)[1] = e.net.family /\ e.net.family \in {4, 6}
        /\ \A i \in 2 .. 1 + 8 * Len(e.net.octets) : EncodeBytes(e.net)[i] \in {0, 1}
    BY <2>3, EncodedBits, Octets
  <2>6. Len(e.net.octets) \in Nat
    BY <2>3, Octets
  <2>7. k[1] \in {4, 6} /\ \A i \in 2 .. Len(k) : k[i] \in {0, 1}
    <3> DEFINE E == EncodeBytes(e.net)
               n == Len(e.net.octets)
               mask == e.mask
    <3>1. /\ mask \in 0 .. 8 * n /\ n \in Nat /\ Len(k) = 1 + mask
          /\ \A i \in 1 .. 1 + mask : k[i] = E[i]
          /\ E[1] \in {4, 6} /\ \A i \in 2 .. 1 + 8 * n : E[i] \in {0, 1}
      BY <2>3, <2>4, <2>5, <2>6
    <3> HIDE DEF E, n, mask
    <3>2. 1 \in 1 .. 1 + mask /\ \A i \in 2 .. Len(k) : i \in 1 .. 1 + mask /\ i \in 2 .. 1 + 8 * n
      BY <3>1
    <3> QED
      BY <3>1, <3>2
  <2>8. Represents(k)
    BY DEF KeysInv
  <2> QED
    BY <2>7, <2>8 DEF Represents, PeerOK, HeapOK, Current
<1> QED
  BY <1>1, KeysInvariant, PTL

\* KeepsTable: the trie of heaps implements the tables the models of the mesh
\* use; each step is an Insert of a new host, a Delete, or nothing.
THEOREM TableIsKept == Spec => KeepsTable
<1> DEFINE Kept ==
        \/ TableView' = TableView
        \/ \E e \in Announced :
              \/ /\ ~Known(TableView, KeyOf[e], e.host)
                 /\ TableView' = Insert(TableView, KeyOf[e], e.name, e.host)
              \/ TableView' = Delete(TableView, KeyOf[e])
<1>1. KeysInv /\ [Next]_keyVars => [Kept]_keyVars
  <2> SUFFICES ASSUME KeysInv, Next PROVE Kept
    OBVIOUS
  <2>1. PICK e \in Announced : Announce(e) \/ Repeat(e) \/ Withdraw(e)
    BY DEF Next
  <2>2. CASE Announce(e)
    BY <2>2, AnnounceStep
  <2>3. CASE Repeat(e)
    BY <2>3, RepeatStep
  <2>4. CASE Withdraw(e)
    BY <2>4, WithdrawStep
  <2> QED
    BY <2>1, <2>2, <2>3, <2>4
<1> QED
  BY <1>1, KeysInvariant, PTL DEF Spec, KeepsTable

\* FindsSubnet: the longest key that is a prefix of a destination's bits is the
\* key of the smallest announced subnet that holds it, and the top of its heap
\* the interface, or the host announced first.
THEOREM FindIsLongestPrefix == Spec => []FindsSubnet
<1>1. ASSUME KeysInv, NEW ip \in Asked PROVE {Find(ip)} = Wanted(ip)
  <2> DEFINE bits == BitsOf[ip]
             D == DOMAIN announced
             holding == {e \in D : Holds(e.net, e.mask, ip)}
             found == LongestMatch(table, bits)
             es == MostSpecific(ip)
  <2>1. /\ D \subseteq Announced
        /\ \A o, f \in D : o = f \/ o \in announced[f] \/ f \in announced[o]
        /\ DOMAIN table = {KeyOf[o] : o \in D}
        /\ \A j \in DOMAIN table : Represents(j)
    BY <1>1 DEF KeysInv, Ordered
  <2>2. ip \in Ip /\ bits = EncodeBytes(ip) /\ bits \in Seq(Nat)
    <3>1. ip \in Ip /\ bits = EncodeBytes(ip)
      BY KeysAssumption DEF BitsOf
    <3> QED
      BY <3>1, EncodedBits
  <2>3. ASSUME NEW e \in D
        PROVE  /\ IsPrefix(KeyOf[e], bits) <=> e \in holding
               /\ KeyOf[e] \in Seq(Nat) /\ Len(KeyOf[e]) = 1 + e.mask /\ e.mask \in Nat
    <3>1. /\ e.net \in Ip /\ e.mask \in 0 .. 8 * Len(e.net.octets)
          /\ KeyOf[e] = Key(e.net, e.mask)
          /\ KeyOf[e] \in Seq(Nat) /\ Len(KeyOf[e]) = 1 + e.mask /\ e.mask \in Nat
      BY <2>1, AnnouncementOK
    <3>2. IsPrefix(KeyOf[e], bits) <=> Holds(e.net, e.mask, ip)
      BY <3>1, <2>2, PrefixIsSubnet
    <3> QED
      BY <3>1, <3>2
  <2>4. Matching(table, bits) = {KeyOf[e] : e \in holding}
    BY <2>1, <2>3 DEF Matching
  <2>5. es = {e \in holding : \A f \in holding : f.mask <= e.mask}
    BY DEF MostSpecific
  <2>6. found = {KeyOf[e] : e \in es}
    <3>1. found = {k \in Matching(table, bits) : \A j \in Matching(table, bits) : Len(j) <= Len(k)}
      BY DEF LongestMatch
    <3>2. \A e, f \in holding : Len(KeyOf[f]) <= Len(KeyOf[e]) <=> f.mask <= e.mask
      BY <2>3
    <3> HIDE DEF found, holding, es
    <3> QED
      BY <3>1, <3>2, <2>4, <2>5
  <2> HIDE DEF bits, D, holding, found, es
  <2>7. holding \subseteq D /\ es \subseteq holding
    BY <2>5 DEF holding
  <2>8. ASSUME holding # {} PROVE es # {}
    <3> DEFINE rest == {Len(bits) - Len(KeyOf[e]) : e \in holding}
    <3>1. ASSUME NEW e \in holding
          PROVE  Len(bits) - Len(KeyOf[e]) \in Nat /\ Len(KeyOf[e]) = 1 + e.mask /\ e.mask \in Nat
      <4>1. IsPrefix(KeyOf[e], bits) /\ KeyOf[e] \in Seq(Nat) /\ Len(KeyOf[e]) = 1 + e.mask /\ e.mask \in Nat
        BY <2>3, <2>7
      <4>2. Len(KeyOf[e]) <= Len(bits)
        BY <4>1, <2>2, PrefixElements
      <4> QED
        BY <4>1, <4>2, <2>2
    <3>2. rest \in SUBSET Nat /\ rest # {}
      BY <3>1, <2>8
    <3>3. PICK r \in rest : \A m \in rest : r <= m
      <4> HIDE DEF rest
      <4> QED
        BY <3>2, LeastNatural
    <3>4. PICK e \in holding : r = Len(bits) - Len(KeyOf[e])
      BY <3>3
    <3>5. \A f \in holding : f.mask <= e.mask
      <4> SUFFICES ASSUME NEW f \in holding PROVE f.mask <= e.mask
        OBVIOUS
      <4>1. Len(bits) - Len(KeyOf[e]) <= Len(bits) - Len(KeyOf[f])
        BY <3>3, <3>4
      <4>2. /\ Len(KeyOf[e]) = 1 + e.mask /\ e.mask \in Nat
            /\ Len(KeyOf[f]) = 1 + f.mask /\ f.mask \in Nat
        BY <3>1
      <4>3. Len(bits) \in Nat
        BY <2>2
      <4> QED
        BY <4>1, <4>2, <4>3
    <3> QED
      BY <3>5, <2>5
  <2>9. CASE holding = {}
    <3>1. es = {} /\ found = {}
      BY <2>9, <2>6, <2>7
    <3>2. Find(ip) = Unreachable
      BY <3>1 DEF Find, found, bits
    <3>3. Wanted(ip) = {Unreachable}
      BY <3>1 DEF Wanted, es
    <3> QED
      BY <3>2, <3>3
  <2>10. CASE holding # {}
    <3>1. PICK e \in es : TRUE
      BY <2>8, <2>10
    <3> DEFINE k == KeyOf[e]
    <3>2. ASSUME NEW f \in es PROVE KeyOf[f] = k
      <4> DEFINE s == KeyOf[f]
                 u == KeyOf[e]
      <4>1. e \in D /\ f \in D /\ e \in holding /\ f \in holding
        BY <2>7
      <4>2. e.mask <= f.mask /\ f.mask <= e.mask
        BY <4>1, <2>5
      <4>3. /\ s \in Seq(Nat) /\ Len(s) = 1 + f.mask /\ f.mask \in Nat /\ IsPrefix(s, bits)
            /\ u \in Seq(Nat) /\ Len(u) = 1 + e.mask /\ e.mask \in Nat /\ IsPrefix(u, bits)
        BY <4>1, <2>3
      <4> HIDE DEF s, u
      <4>4. Len(s) = Len(u)
        BY <4>2, <4>3
      <4>5. \A i \in 1 .. Len(u) : s[i] = bits[i] /\ u[i] = bits[i]
        BY <4>3, <4>4, <2>2, PrefixElements
      <4>6. s = u
        BY <4>3, <4>4, <4>5, SameElements
      <4> QED
        BY <4>6 DEF s, u
    <3>3. found = {k} /\ k \in DOMAIN table
      BY <3>1, <3>2, <2>1, <2>6, <2>7
    <3>4. es = Current(k)
      <4>1. es \subseteq Current(k)
        BY <3>2, <2>7 DEF Current, D
      <4>2. ASSUME NEW f \in Current(k) PROVE f \in es
        <5>1. f \in D /\ KeyOf[f] = k /\ e \in D /\ e \in holding
          BY <2>7 DEF Current, D
        <5>2. f \in holding
          BY <5>1, <2>3
        <5>3. f.mask = e.mask
          <6>1. Len(KeyOf[f]) = 1 + f.mask /\ f.mask \in Nat /\ Len(KeyOf[e]) = 1 + e.mask /\ e.mask \in Nat
            BY <5>1, <2>3
          <6> QED
            BY <6>1, <5>1
        <5>4. \A h \in holding : h.mask <= e.mask
          BY <2>5
        <5> QED
          BY <5>2, <5>3, <5>4, <2>5
      <4> QED
        BY <4>1, <4>2
    <3>5. Represents(k)
      BY <3>3, <2>1
    <3> HIDE DEF k
    <3>6. Find(ip) = GetHost(table[k])
      BY <3>3 DEF Find, found, bits
    <3>7. Wanted(ip) = IF \E f \in es : f.host = Localhost THEN {Localhost} ELSE {f.host : f \in First(es)}
      BY <3>1 DEF Wanted, es
    <3>8. (\E f \in es : f.host = Localhost) <=> Localhost \in HostsOf(table[k])
      BY <3>4, <3>5 DEF Represents
    <3>9. CASE Localhost \in HostsOf(table[k])
      BY <3>5, <3>6, <3>7, <3>8, <3>9 DEF Represents
    <3>10. CASE Localhost \notin HostsOf(table[k])
      <4>1. PICK f \in First(es) : GetHost(table[k]) = f.host
        BY <3>4, <3>5, <3>10 DEF Represents
      <4>2. \A h \in First(es) : h = f
        BY <2>1, <2>7 DEF First
      <4> QED
        BY <3>6, <3>7, <3>8, <3>10, <4>1, <4>2
    <3> QED
      BY <3>9, <3>10
  <2> QED
    BY <2>9, <2>10
<1>2. KeysInv => FindsSubnet
  BY <1>1 DEF FindsSubnet
<1> QED
  BY <1>2, KeysInvariant, PTL
=============================================================================
