-------------------------- MODULE CacheCluster_proof --------------------------
(***************************************************************************)
(* Proofs about CacheCluster for any number of nodes, goroutines and keys, *)
(* and about Lru for any keys, values and budget.                          *)
(***************************************************************************)
EXTENDS CacheCluster, Lru, FiniteSetTheorems, SequenceTheorems, WellFoundedInduction,
        NaturalsInduction, TLAPS

-----------------------------------------------------------------------------
(* The ring.                                                               *)

LEMMA Least ==
  ASSUME NEW T, T \subseteq Nat, T # {}
  PROVE  \E n \in T : \A o \in T : n <= o
<1> DEFINE R == OpToRel(<, Nat)
<1>1. IsWellFoundedOn(R, Nat)
  BY NatLessThanWellFounded
<1> HIDE DEF R
<1>2. PICK n \in T : \A o \in T : ~ (<<o, n>> \in R)
  BY <1>1, WFMin
<1>3. ASSUME NEW o \in T PROVE n <= o
  <2>1. ~ (<<o, n>> \in R)
    BY <1>2
  <2>2. ~ (o < n)
    BY <2>1 DEF R, OpToRel
  <2> QED BY <2>2
<1> QED BY <1>3

Sortable(n) ==
  \A s \in [1..n -> Int] : \E p \in Bijection(1..n, 1..n) :
    \A i, j \in 1..n : i < j => s[p[i]] <= s[p[j]]

(* One more element is put behind all that are not greater.                *)
LEMMA SortOneMore ==
  ASSUME NEW n \in Nat, Sortable(n)
  PROVE  Sortable(n + 1)
<1> SUFFICES ASSUME NEW s \in [1..n + 1 -> Int]
             PROVE  \E p \in Bijection(1..n + 1, 1..n + 1) :
                      \A i, j \in 1..n + 1 : i < j => s[p[i]] <= s[p[j]]
  BY DEF Sortable
<1> DEFINE t == [i \in 1..n |-> s[i]]
<1>0. t \in [1..n -> Int] /\ \A i \in 1..n : t[i] = s[i]
  OBVIOUS
<1> HIDE DEF t
<1>1. PICK p \in Bijection(1..n, 1..n) : \A i, j \in 1..n : i < j => t[p[i]] <= t[p[j]]
  BY <1>0 DEF Sortable
<1>2. /\ p \in [1..n -> 1..n]
      /\ \A i, j \in 1..n : p[i] = p[j] => i = j
      /\ \A x \in 1..n : \E i \in 1..n : p[i] = x
  BY DEF Bijection, Injection, Surjection, IsInjective
<1>3. /\ \A i, j \in 1..n : i < j => s[p[i]] <= s[p[j]]
      /\ \A i \in 1..n : s[p[i]] \in Int
      /\ s[n + 1] \in Int
  <2>1. \A i \in 1..n : p[i] \in 1..n /\ t[p[i]] = s[p[i]] /\ t[p[i]] \in Int
    BY <1>0, <1>2
  <2>2. n + 1 \in 1..n + 1
    OBVIOUS
  <2>3. \A i, j \in 1..n : i < j => s[p[i]] <= s[p[j]]
    BY <1>1, <2>1
  <2> QED BY <2>1, <2>2, <2>3
<1> DEFINE T == {i \in 1..n + 1 : i = n + 1 \/ s[p[i]] > s[n + 1]}
<1>4. PICK k \in T : \A i \in T : k <= i
  <2>1. T \subseteq Nat /\ T # {}
    <3>1. n + 1 \in T
      OBVIOUS
    <3> QED BY <3>1
  <2> HIDE DEF T
  <2> QED BY <2>1, Least
<1>5. /\ k \in 1..n + 1
      /\ \A i \in 1..n : i < k => s[p[i]] <= s[n + 1]
      /\ k <= n => s[p[k]] > s[n + 1]
  BY <1>3, <1>4
<1> HIDE DEF T
<1>6. \A i \in 1..n : k <= i => s[n + 1] <= s[p[i]]
  <2> SUFFICES ASSUME NEW i \in 1..n, k <= i  PROVE s[n + 1] <= s[p[i]]
    OBVIOUS
  <2>1. k \in 1..n /\ s[p[k]] > s[n + 1]
    BY <1>5
  <2>2. s[p[k]] <= s[p[i]]
    BY <1>3, <2>1
  <2> QED BY <1>3, <2>1, <2>2
<1> DEFINE q == [i \in 1..n + 1 |-> IF i < k THEN p[i] ELSE IF i = k THEN n + 1 ELSE p[i - 1]]
<1>d. q = [i \in 1..n + 1 |-> q[i]]
  OBVIOUS
<1>q. /\ q[k] = n + 1
      /\ \A i \in 1..n + 1 : i < k => i \in 1..n /\ q[i] = p[i] /\ p[i] \in 1..n
      /\ \A i \in 1..n + 1 : i > k => i - 1 \in 1..n /\ q[i] = p[i - 1] /\ p[i - 1] \in 1..n
  <2>1. q[k] = n + 1
    BY <1>5
  <2>2. \A i \in 1..n + 1 : i < k => i \in 1..n /\ q[i] = p[i]
    BY <1>5
  <2>3. \A i \in 1..n + 1 : i > k => i - 1 \in 1..n /\ q[i] = p[i - 1]
    BY <1>5
  <2> HIDE DEF q
  <2> QED BY <1>2, <2>1, <2>2, <2>3
<1> HIDE DEF q
<1>7. q \in [1..n + 1 -> 1..n + 1]
  <2>1. ASSUME NEW i \in 1..n + 1  PROVE q[i] \in 1..n + 1
    <3>1. i < k \/ i = k \/ i > k
      BY <1>5
    <3>2. 1..n \subseteq 1..n + 1 /\ n + 1 \in 1..n + 1
      OBVIOUS
    <3> QED BY <1>q, <3>1, <3>2
  <2> QED BY <1>d, <2>1
<1>8. \A i, j \in 1..n + 1 : q[i] = q[j] => i = j
  <2>1. \A i, j \in 1..n + 1 : i < k /\ j < k /\ q[i] = q[j] => i = j
    BY <1>2, <1>q
  <2>2. \A i, j \in 1..n + 1 : i > k /\ j > k /\ q[i] = q[j] => i = j
    <3> SUFFICES ASSUME NEW i \in 1..n + 1, NEW j \in 1..n + 1, i > k, j > k, q[i] = q[j]
                 PROVE  i = j
      OBVIOUS
    <3>1. i - 1 = j - 1
      BY <1>2, <1>q
    <3> QED BY <3>1
  <2>3. \A i, j \in 1..n + 1 : i < k /\ j > k /\ q[i] = q[j] => FALSE
    <3> SUFFICES ASSUME NEW i \in 1..n + 1, NEW j \in 1..n + 1, i < k, j > k, q[i] = q[j]
                 PROVE  FALSE
      OBVIOUS
    <3>1. i = j - 1
      BY <1>2, <1>q
    <3> QED BY <1>5, <3>1
  <2>4. \A i \in 1..n + 1 : i # k => q[i] # n + 1
    <3>1. \A x \in 1..n : x # n + 1
      OBVIOUS
    <3>2. \A i \in 1..n + 1 : i # k => i < k \/ i > k
      BY <1>5
    <3> QED BY <1>q, <3>1, <3>2
  <2>5. \A i \in 1..n + 1 : i < k \/ i = k \/ i > k
    BY <1>5
  <2> QED BY <1>q, <2>1, <2>2, <2>3, <2>4, <2>5
<1>9. \A x \in 1..n + 1 : \E i \in 1..n + 1 : q[i] = x
  <2>1. q[k] = n + 1
    BY <1>q
  <2>2. ASSUME NEW x \in 1..n PROVE \E i \in 1..n + 1 : q[i] = x
    <3>1. PICK i \in 1..n : p[i] = x
      BY <1>2
    <3>2. CASE i < k
      BY <1>q, <3>1, <3>2
    <3>3. CASE k <= i
      <4>1. i + 1 \in 1..n + 1 /\ q[i + 1] = x
        BY <1>5, <1>q, <3>1, <3>3
      <4> QED BY <4>1
    <3> QED BY <1>5, <3>2, <3>3
  <2> QED BY <1>5, <2>1, <2>2
<1>10. \A i, j \in 1..n + 1 : i < j => s[q[i]] <= s[q[j]]
  <2> SUFFICES ASSUME NEW i \in 1..n + 1, NEW j \in 1..n + 1, i < j
               PROVE  s[q[i]] <= s[q[j]]
    OBVIOUS
  <2>1. CASE j < k
    <3>1. i < k
      BY <1>5, <2>1
    <3> QED BY <1>3, <1>q, <2>1, <3>1
  <2>2. CASE j = k
    BY <1>5, <1>q, <2>2
  <2>3. CASE j > k
    <3>1. j - 1 \in 1..n /\ q[j] = p[j - 1]
      BY <1>5, <1>q, <2>3
    <3>2. CASE i < k
      <4>1. i \in 1..n /\ q[i] = p[i] /\ k <= j - 1
        BY <1>5, <1>q, <2>3, <3>2
      <4>2. s[p[i]] <= s[n + 1] /\ s[n + 1] <= s[p[j - 1]]
        BY <1>5, <1>6, <3>1, <3>2, <4>1
      <4> QED BY <1>3, <3>1, <4>1, <4>2
    <3>3. CASE i = k
      BY <1>5, <1>6, <1>q, <2>3, <3>1, <3>3
    <3>4. CASE i > k
      <4>1. i - 1 \in 1..n /\ q[i] = p[i - 1] /\ i - 1 < j - 1
        BY <1>5, <1>q, <3>1, <3>4
      <4> QED BY <1>3, <3>1, <4>1
    <3> QED BY <1>5, <3>2, <3>3, <3>4
  <2> QED BY <1>5, <2>1, <2>2, <2>3
<1>11. q \in Bijection(1..n + 1, 1..n + 1)
  BY <1>7, <1>8, <1>9 DEF Bijection, Injection, Surjection, IsInjective
<1> QED BY <1>10, <1>11

LEMMA AllSortable ==
  ASSUME NEW n \in Nat  PROVE Sortable(n)
<1> DEFINE T == {o \in Nat : ~ Sortable(o)}
<1>1. Sortable(0)
  <2>1. SUFFICES ASSUME NEW s \in [1..0 -> Int]
               PROVE  \E p \in Bijection(1..0, 1..0) :
                        \A i, j \in 1..0 : i < j => s[p[i]] <= s[p[j]]
    BY DEF Sortable
  <2>2. [i \in 1..0 |-> i] \in Bijection(1..0, 1..0)
    BY DEF Bijection, Injection, Surjection, IsInjective
  <2> QED BY <2>2
<1>2. SUFFICES ASSUME T # {} PROVE FALSE
  OBVIOUS
<1>3. T \subseteq Nat
  OBVIOUS
<1>4. PICK o \in T : \A i \in T : o <= i
  <2> HIDE DEF T
  <2> QED BY <1>2, <1>3, Least
<1>5. o # 0 /\ o - 1 \in Nat /\ o - 1 \notin T
  BY <1>1, <1>3, <1>4
<1>6. Sortable(o - 1)
  BY <1>5
<1>7. (o - 1) + 1 = o
  BY <1>3
<1>8. Sortable(o)
  BY <1>5, <1>6, <1>7, SortOneMore
<1> QED BY <1>4, <1>8

LEMMA SortedSorts ==
  ASSUME NEW n \in Nat, NEW s \in [1..n -> Int]
  PROVE  /\ DOMAIN Sorted(s) = 1..n
         /\ \A i, j \in 1..n : i < j => Sorted(s)[i] <= Sorted(s)[j]
         /\ \A i \in 1..n : \E j \in 1..n : Sorted(s)[i] = s[j]
         /\ \A j \in 1..n : \E i \in 1..n : Sorted(s)[i] = s[j]
<1> DEFINE P == Bijection(DOMAIN s, DOMAIN s)
           perm(p) == [i \in DOMAIN s |-> s[p[i]]]
<1>1. PICK p \in P : \A i, j \in 1..n : i < j => s[p[i]] <= s[p[j]]
  BY AllSortable DEF Sortable
<1>2. \E t \in {perm(o) : o \in P} : \A i, j \in DOMAIN s : i < j => t[i] <= t[j]
  <2>1. perm(p) \in {perm(o) : o \in P}
    OBVIOUS
  <2>2. \A i, j \in DOMAIN s : i < j => perm(p)[i] <= perm(p)[j]
    BY <1>1
  <2> QED BY <2>1, <2>2
<1>3. /\ Sorted(s) \in {perm(o) : o \in P}
      /\ \A i, j \in DOMAIN s : i < j => Sorted(s)[i] <= Sorted(s)[j]
  BY <1>2 DEF Sorted
<1>4. PICK o \in P : Sorted(s) = perm(o)
  BY <1>3
<1>5. o \in [1..n -> 1..n] /\ \A j \in 1..n : \E i \in 1..n : o[i] = j
  BY DEF Bijection, Surjection, Injection
<1>6. DOMAIN Sorted(s) = 1..n /\ \A i \in 1..n : Sorted(s)[i] = s[o[i]]
  BY <1>4
<1>7. \A i, j \in 1..n : i < j => Sorted(s)[i] <= Sorted(s)[j]
  BY <1>3
<1> QED BY <1>5, <1>6, <1>7

(* Quotients and rests.                                                    *)
LEMMA Monotone ==
  ASSUME NEW r \in Nat, NEW x \in Int, NEW y \in Int, x <= y
  PROVE  r * x <= r * y /\ r * x \in Int /\ r * y \in Int
<1>1. r * (y - x) >= 0 /\ r * (y - x) = r * y - r * x
  OBVIOUS
<1> QED BY <1>1

LEMMA RoundOf ==
  ASSUME NEW n \in Nat, NEW r \in Nat \ {0}, NEW j \in 1..n * r
  PROVE  (j - 1) \div r \in 0..n - 1 /\ (j - 1) % r \in 0..r - 1
<1> DEFINE q == (j - 1) \div r
           e == (j - 1) % r
<1>1. j - 1 = r * q + e
  OBVIOUS
<1>2. /\ q \in Int /\ e \in 0..r - 1
      /\ 1 <= j /\ j <= n * r /\ n * r \in Int /\ r * q \in Int
  OBVIOUS
<1> HIDE DEF q, e
<1>3. 0 <= q
  <2> SUFFICES ASSUME q <= -1  PROVE FALSE
    BY <1>2
  <2>1. r * q <= r * (-1) /\ r * (-1) = - r
    BY <1>2, Monotone
  <2> QED BY <1>1, <1>2, <2>1
<1>4. q < n
  <2> SUFFICES ASSUME n <= q  PROVE FALSE
    BY <1>2
  <2>1. r * n <= r * q
    BY <1>2, Monotone
  <2> QED BY <1>1, <1>2, <2>1
<1> QED BY <1>2, <1>3, <1>4 DEF q, e

LEMMA PlaceOf ==
  ASSUME NEW n \in Nat, NEW r \in Nat \ {0}, NEW l \in 1..n, NEW i \in 0..r - 1
  PROVE  /\ (l - 1) * r + i + 1 \in 1..n * r
         /\ ((l - 1) * r + i) % r = i
         /\ ((l - 1) * r + i) \div r = l - 1
<1>1. /\ r * 0 <= r * (l - 1) /\ r * (l - 1) <= r * (n - 1)
      /\ r * (l - 1) \in Int /\ r * (n - 1) \in Int
  <2>1. 0 <= l - 1 /\ l - 1 <= n - 1 /\ l - 1 \in Int /\ n - 1 \in Int
    OBVIOUS
  <2> QED BY <2>1, Monotone
<1>2. /\ r * (n - 1) = n * r - r /\ (l - 1) * r = r * (l - 1)
      /\ r * 0 = 0 /\ n * r \in Int
  OBVIOUS
<1>3. (l - 1) * r + i + 1 \in 1..n * r
  BY <1>1, <1>2
<1> QED BY <1>3

(* What Add puts on an empty ring.                                         *)
IsRing(r) ==
  /\ r = [keys |-> r.keys, hashMap |-> r.hashMap]
  /\ \E n \in Nat \ {0} :
       /\ DOMAIN r.keys = 1..n /\ Len(r.keys) = n
       /\ \A i, j \in 1..n : i < j => r.keys[i] <= r.keys[j]
       /\ \A i \in 1..n : \E v \in Virtual : r.keys[i] = HashOf(v)
       /\ \A v \in Virtual : \E i \in 1..n : r.keys[i] = HashOf(v)
  /\ \A v \in Virtual : r.hashMap[HashOf(v)] = v[1]

LEMMA VirtualsInTurn ==
  ASSUME NEW n \in Nat, NEW a \in [1..n -> Nodes],
         \A x \in Nodes : \E i \in 1..n : a[i] = x
  PROVE  /\ n * Replicas \in Nat
         /\ VirtualSeq(a) \in [1..n * Replicas -> Virtual]
         /\ \A v \in Virtual : \E j \in 1..n * Replicas : VirtualSeq(a)[j] = v
<1>1. Replicas \in Nat \ {0} /\ Peers = Nodes
  BY HashAssumption, RingAssumption
<1>2. Len(a) = n
  <2>1. a \in Seq(Nodes) /\ DOMAIN a = 1..n
    OBVIOUS
  <2> QED BY <2>1, LenProperties
<1>3. n * Replicas \in Nat
  BY <1>1
<1>4. ASSUME NEW j \in 1..n * Replicas
      PROVE  /\ (j - 1) \div Replicas + 1 \in 1..n
             /\ (j - 1) % Replicas \in 0..Replicas - 1
  <2>1. (j - 1) \div Replicas \in 0..n - 1 /\ (j - 1) % Replicas \in 0..Replicas - 1
    BY <1>1, RoundOf
  <2> DEFINE q == (j - 1) \div Replicas
  <2> HIDE DEF q
  <2>2. \A x \in 0..n - 1 : x + 1 \in 1..n
    OBVIOUS
  <2> QED BY <2>1, <2>2
<1>v. VirtualSeq(a) = [j \in 1..n * Replicas |->
                        <<a[(j - 1) \div Replicas + 1], (j - 1) % Replicas>>]
  BY <1>2, Zenon DEF VirtualSeq
<1>5. VirtualSeq(a) \in [1..n * Replicas -> Virtual]
  <2>1. ASSUME NEW x \in Nodes, NEW i \in 0..Replicas - 1  PROVE <<x, i>> \in Virtual
    BY <1>1 DEF Virtual
  <2>2. ASSUME NEW j \in 1..n * Replicas
        PROVE  <<a[(j - 1) \div Replicas + 1], (j - 1) % Replicas>> \in Virtual
    <3>1. a[(j - 1) \div Replicas + 1] \in Nodes
      BY <1>4
    <3> QED BY <1>4, <2>1, <3>1
  <2> QED BY <1>v, <2>2
<1>p. \A l \in 1..n, i \in 0..Replicas - 1 :
        /\ (l - 1) * Replicas + i + 1 \in 1..n * Replicas
        /\ ((l - 1) * Replicas + i) % Replicas = i
        /\ ((l - 1) * Replicas + i) \div Replicas = l - 1
  BY <1>1, PlaceOf
<1>6. ASSUME NEW v \in Virtual
      PROVE  \E j \in 1..n * Replicas : VirtualSeq(a)[j] = v
  <2>1. PICK x \in Nodes, i \in 0..Replicas - 1 : v = <<x, i>>
    BY <1>1 DEF Virtual
  <2>2. PICK l \in 1..n : a[l] = x
    OBVIOUS
  <2> DEFINE j == (l - 1) * Replicas + i + 1
  <2> HIDE DEF j
  <2>3. j \in 1..n * Replicas /\ (j - 1) % Replicas = i /\ (j - 1) \div Replicas = l - 1
    <3>1. j = (l - 1) * Replicas + i + 1 /\ j - 1 = (l - 1) * Replicas + i
      BY <1>1 DEF j
    <3>2. /\ (l - 1) * Replicas + i + 1 \in 1..n * Replicas
          /\ ((l - 1) * Replicas + i) % Replicas = i
          /\ ((l - 1) * Replicas + i) \div Replicas = l - 1
      BY <1>p, <2>1, <2>2, Zenon
    <3> DEFINE y == (l - 1) * Replicas + i
    <3>3. y % Replicas = i /\ y \div Replicas = l - 1 /\ y = j - 1 /\ j \in 1..n * Replicas
      BY <3>1, <3>2
    <3> HIDE DEF y
    <3> QED BY <3>3
  <2>4. VirtualSeq(a)[j] = <<a[l], i>>
    <3>1. VirtualSeq(a)[j] = <<a[(j - 1) \div Replicas + 1], (j - 1) % Replicas>>
      BY <1>v, <2>3, Zenon
    <3>2. (l - 1) + 1 = l
      OBVIOUS
    <3> QED BY <2>3, <3>1, <3>2, Zenon
  <2> QED BY <2>1, <2>2, <2>3, <2>4
<1> QED BY <1>3, <1>5, <1>6

(* Add puts each virtual node of each address on the ring, in order.       *)
LEMMA AddMakesRing ==
  ASSUME NEW a \in AddrOrders, Nodes # {}
  PROVE  IsRing(RingAdd(EmptyRing, a))
<1> DEFINE n == Cardinality(Nodes)
           L == n * Replicas
           vs == VirtualSeq(a)
           hs == [j \in DOMAIN vs |-> HashOf(vs[j])]
           put == PutAll(EmptyRing, a)
<1>1. n \in Nat \ {0}
  BY ProcAssumption, FS_CardinalityType, FS_EmptySet
<1>2. a \in Injection(1..n, Nodes)
  BY DEF AddrOrders, SetToSeqs, Injection, IsInjective
<1>3. a \in [1..n -> Nodes] /\ \A x \in Nodes : \E i \in 1..n : a[i] = x
  <2>1. Cardinality(1..n) = n
    BY <1>1, FS_Interval
  <2>2. a \in Surjection(1..n, Nodes)
    BY <1>2, <2>1, ProcAssumption, FS_Injection
  <2> QED BY <2>2 DEF Surjection
<1>4. /\ L \in Nat /\ vs \in [1..L -> Virtual]
      /\ \A v \in Virtual : \E j \in 1..L : vs[j] = v
  BY <1>1, <1>3, VirtualsInTurn
<1>5. L # 0
  BY <1>1, HashAssumption
<1> HIDE DEF n, L, vs
<1>6. /\ hs \in [1..L -> Int] /\ hs \in Seq(Int) /\ \A j \in 1..L : hs[j] = HashOf(vs[j])
  BY <1>4, HashAssumption
<1>7. /\ put = [keys |-> put.keys, hashMap |-> put.hashMap]
      /\ put.keys = hs
  <2>1. << >> \o hs = hs
    BY <1>6, ConcatEmptySeq
  <2> QED BY <2>1 DEF PutAll, EmptyRing, vs
<1>8. ASSUME NEW v \in Virtual
      PROVE  put.hashMap[HashOf(v)] = v[1]
  <2>1. PICK j \in 1..L : vs[j] = v
    BY <1>4
  <2>2. \A i \in 1..L : hs[i] = HashOf(v) <=> vs[i] = v
    BY <1>4, <1>6, HashAssumption
  <2>3. PICK last \in 1..L :
          hs[last] = HashOf(v) /\ \A o \in 1..L : hs[o] = HashOf(v) => o <= last
    <3> DEFINE T == {L - i : i \in {o \in 1..L : hs[o] = HashOf(v)}}
    <3>1. T \subseteq Nat /\ L - j \in T
      <4>1. \A i \in 1..L : L - i \in Nat
        BY <1>4
      <4>2. hs[j] = HashOf(v)
        BY <2>1, <2>2
      <4> QED BY <4>1, <4>2
    <3>2. PICK d \in T : \A o \in T : d <= o
      <4> HIDE DEF T
      <4> QED BY <3>1, Least
    <3>3. PICK i \in 1..L : d = L - i /\ hs[i] = HashOf(v)
      OBVIOUS
    <3>4. ASSUME NEW o \in 1..L, hs[o] = HashOf(v)  PROVE o <= i
      <4>1. L - o \in T
        BY <3>4
      <4>2. L - i <= L - o
        BY <3>2, <3>3, <4>1
      <4> QED BY <1>4, <4>2
    <3> QED BY <3>3, <3>4
  <2> HIDE DEF hs
  <2> DEFINE is(i) == hs[i] = HashOf(v) /\ \A o \in DOMAIN vs : hs[o] = HashOf(v) => o <= i
             latest == CHOOSE i \in DOMAIN vs : is(i)
  <2>4. DOMAIN vs = 1..L
    BY <1>4
  <2>5. latest \in 1..L /\ hs[latest] = HashOf(v)
    <3>1. \E i \in DOMAIN vs : is(i)
      BY <2>3, <2>4
    <3>2. latest \in DOMAIN vs /\ is(latest)
      BY <3>1
    <3> QED BY <2>4, <3>2
  <2>6. vs[latest] = v
    BY <2>2, <2>5
  <2>7. put.hashMap[HashOf(v)] = vs[latest][1]
    <3>1. HashOf(v) \in {hs[i] : i \in DOMAIN vs} /\ \E i \in DOMAIN vs : hs[i] = HashOf(v)
      BY <2>3, <2>4
    <3>2. put.hashMap = [h \in DOMAIN EmptyRing.hashMap \cup {hs[i] : i \in DOMAIN vs} |->
                           IF \E i \in DOMAIN vs : hs[i] = h
                           THEN vs[CHOOSE i \in DOMAIN vs :
                                     /\ hs[i] = h
                                     /\ \A o \in DOMAIN vs : hs[o] = h => o <= i][1]
                           ELSE EmptyRing.hashMap[h]]
      BY DEF PutAll, vs, hs
    <3> HIDE DEF put
    <3> QED BY <3>1, <3>2
  <2> QED BY <2>6, <2>7
<1> HIDE DEF put, hs
<1>9. RingAdd(EmptyRing, a) = [keys |-> Sorted(hs), hashMap |-> put.hashMap]
  <2>1. RingAdd(EmptyRing, a) = [put EXCEPT !.keys = Sorted(put.keys)]
    BY DEF RingAdd, put
  <2>2. \A x, y, z : [[keys |-> x, hashMap |-> y] EXCEPT !.keys = z] = [keys |-> z, hashMap |-> y]
    OBVIOUS
  <2> QED BY <1>7, <2>1, <2>2
<1> DEFINE ks == Sorted(hs)
<1>10. /\ DOMAIN ks = 1..L
       /\ \A i, j \in 1..L : i < j => ks[i] <= ks[j]
       /\ \A i \in 1..L : \E j \in 1..L : ks[i] = hs[j]
       /\ \A j \in 1..L : \E i \in 1..L : ks[i] = hs[j]
  BY <1>4, <1>6, SortedSorts
<1> HIDE DEF ks
<1>11. Len(ks) = L
  BY <1>4, <1>10
<1>12. /\ \A i \in 1..L : \E v \in Virtual : ks[i] = HashOf(v)
       /\ \A v \in Virtual : \E i \in 1..L : ks[i] = HashOf(v)
  <2>1. \A j \in 1..L : vs[j] \in Virtual /\ hs[j] = HashOf(vs[j])
    BY <1>4, <1>6
  <2>2. \A i \in 1..L : \E v \in Virtual : ks[i] = HashOf(v)
    <3> SUFFICES ASSUME NEW i \in 1..L  PROVE \E v \in Virtual : ks[i] = HashOf(v)
      OBVIOUS
    <3>1. PICK j \in 1..L : ks[i] = hs[j]
      BY <1>10
    <3> QED BY <2>1, <3>1
  <2>3. \A v \in Virtual : \E i \in 1..L : ks[i] = HashOf(v)
    <3> SUFFICES ASSUME NEW v \in Virtual  PROVE \E i \in 1..L : ks[i] = HashOf(v)
      OBVIOUS
    <3>1. PICK j \in 1..L : vs[j] = v
      BY <1>4
    <3>2. PICK i \in 1..L : ks[i] = hs[j]
      BY <1>10
    <3> QED BY <2>1, <3>1, <3>2
  <2> QED BY <2>2, <2>3
<1>13. RingAdd(EmptyRing, a) = [keys |-> ks, hashMap |-> put.hashMap]
  BY <1>9 DEF ks
<1> DEFINE r == RingAdd(EmptyRing, a)
<1>14. r = [keys |-> r.keys, hashMap |-> r.hashMap] /\ r.keys = ks /\ r.hashMap = put.hashMap
  BY <1>13
<1> HIDE DEF r
<1>15. L \in Nat \ {0}
  BY <1>4, <1>5
<1>16. \E o \in Nat \ {0} :
         /\ DOMAIN r.keys = 1..o /\ Len(r.keys) = o
         /\ \A i, j \in 1..o : i < j => r.keys[i] <= r.keys[j]
         /\ \A i \in 1..o : \E v \in Virtual : r.keys[i] = HashOf(v)
         /\ \A v \in Virtual : \E i \in 1..o : r.keys[i] = HashOf(v)
  <2>1. /\ DOMAIN r.keys = 1..L /\ Len(r.keys) = L
        /\ \A i, j \in 1..L : i < j => r.keys[i] <= r.keys[j]
        /\ \A i \in 1..L : \E v \in Virtual : r.keys[i] = HashOf(v)
        /\ \A v \in Virtual : \E i \in 1..L : r.keys[i] = HashOf(v)
    BY <1>10, <1>11, <1>12, <1>14
  <2> QED BY <1>15, <2>1, Zenon
<1>17. IsRing(r)
  BY <1>8, <1>14, <1>16, Zenon DEF IsRing
<1> QED BY <1>17 DEF r

(* The first hash from h on, if there is one.                              *)
LEMMA FirstIs ==
  ASSUME NEW n \in Nat, NEW keys, DOMAIN keys = 1..n, Len(keys) = n,
         \A i \in 1..n : keys[i] \in Int, NEW h \in Int
  PROVE  \/ /\ FirstAtLeast(keys, h) = n + 1
            /\ \A i \in 1..n : keys[i] < h
         \/ /\ FirstAtLeast(keys, h) \in 1..n
            /\ keys[FirstAtLeast(keys, h)] >= h
            /\ \A i \in 1..n : keys[i] >= h => FirstAtLeast(keys, h) <= i
<1> DEFINE found == {i \in DOMAIN keys : keys[i] >= h}
<1>1. CASE found = {}
  <2>1. \A i \in 1..n : keys[i] < h
    BY <1>1
  <2> QED BY <1>1, <2>1 DEF FirstAtLeast
<1>2. CASE found # {}
  <2>1. found \subseteq Nat
    OBVIOUS
  <2>2. \E i \in found : \A j \in found : i <= j
    <3> HIDE DEF found
    <3> QED BY <1>2, <2>1, Least
  <2>3. FirstAtLeast(keys, h) \in found /\ \A j \in found : FirstAtLeast(keys, h) <= j
    <3>1. FirstAtLeast(keys, h) = CHOOSE i \in found : \A j \in found : i <= j
      BY <1>2 DEF FirstAtLeast
    <3> HIDE DEF found
    <3> QED BY <2>2, <3>1
  <2> QED BY <2>3
<1> QED BY <1>1, <1>2

(* The way round the circle, of HashSize hashes.                           *)
LEMMA ClockwiseIs ==
  ASSUME NEW x \in 0..HashSize - 1, NEW y \in 0..HashSize - 1
  PROVE  Clockwise(x, y) = IF y >= x THEN y - x ELSE y - x + HashSize
<1>1. HashSize \in Nat \ {0}
  BY HashAssumption
<1> QED BY <1>1 DEF Clockwise

LEMMA RingGivesNext ==
  ASSUME NEW r, IsRing(r), NEW k \in Keys
  PROVE  RingGet(r, k) = NextPeer[k] /\ RingGet(r, k) \in Nodes
<1> DEFINE H == HashSize
           h == HashKey[k]
           keys == r.keys
           first == FirstAtLeast(keys, h)
           clockwise(v) == Clockwise(h, HashOf(v))
<1>1. /\ H \in Nat /\ h \in 0..H - 1 /\ RingKeys = Keys /\ Peers = Nodes
      /\ \A v \in Virtual : HashOf(v) \in 0..H - 1
      /\ \A v, w \in Virtual : HashOf(v) = HashOf(w) => v = w
  BY HashAssumption, RingAssumption
<1>2. PICK n \in Nat \ {0} :
        /\ DOMAIN keys = 1..n /\ Len(keys) = n
        /\ \A i, j \in 1..n : i < j => keys[i] <= keys[j]
        /\ \A i \in 1..n : \E v \in Virtual : keys[i] = HashOf(v)
        /\ \A v \in Virtual : \E i \in 1..n : keys[i] = HashOf(v)
  BY DEF IsRing
<1>3. \A v \in Virtual : r.hashMap[HashOf(v)] = v[1]
  BY DEF IsRing
<1>4. \A i \in 1..n : keys[i] \in 0..H - 1
  BY <1>1, <1>2
<1>5. \/ first = n + 1 /\ \A i \in 1..n : keys[i] < h
      \/ /\ first \in 1..n /\ keys[first] >= h
         /\ \A i \in 1..n : keys[i] >= h => first <= i
  <2>1. \A i \in 1..n : keys[i] \in Int
    BY <1>1, <1>4
  <2>2. n \in Nat /\ h \in Int
    BY <1>1
  <2>3. DOMAIN keys = 1..n /\ Len(keys) = n
    BY <1>2
  <2> HIDE DEF keys, h
  <2> QED BY <2>1, <2>2, <2>3, FirstIs
<1> HIDE DEF H, h, keys, first
<1> DEFINE place == ((first - 1) % n) + 1
<1>6. /\ first = n + 1 => place = 1
      /\ first \in 1..n => place = first
      /\ place \in 1..n
  <2>1. CASE first = n + 1
    BY <2>1
  <2>2. CASE first \in 1..n
    BY <2>2
  <2> QED BY <1>5, <2>1, <2>2
<1> HIDE DEF place
<1>7. PICK v \in Virtual : keys[place] = HashOf(v)
  BY <1>2, <1>6
<1>8. ASSUME NEW w \in Virtual  PROVE clockwise(v) <= clockwise(w)
  <2>1. PICK i \in 1..n : keys[i] = HashOf(w)
    BY <1>2
  <2>2. /\ clockwise(v) = IF HashOf(v) >= h THEN HashOf(v) - h ELSE HashOf(v) - h + H
        /\ clockwise(w) = IF HashOf(w) >= h THEN HashOf(w) - h ELSE HashOf(w) - h + H
    BY <1>1, ClockwiseIs DEF H
  <2>3. i > place => keys[place] <= keys[i]
    BY <1>2, <1>6
  <2>4. CASE first = n + 1
    BY <1>1, <1>5, <1>6, <1>7, <2>1, <2>2, <2>3, <2>4
  <2>5. CASE first \in 1..n
    <3>1. CASE keys[i] >= h
      BY <1>1, <1>5, <1>6, <1>7, <2>1, <2>2, <2>3, <2>5, <3>1
    <3>2. CASE keys[i] < h
      BY <1>1, <1>5, <1>6, <1>7, <2>1, <2>2, <2>5, <3>2
    <3> QED BY <1>1, <1>4, <3>1, <3>2
  <2> QED BY <1>5, <2>4, <2>5
<1>9. ASSUME NEW w \in Virtual, \A u \in Virtual : clockwise(w) <= clockwise(u)
      PROVE  w = v
  <2>1. /\ clockwise(v) = IF HashOf(v) >= h THEN HashOf(v) - h ELSE HashOf(v) - h + H
        /\ clockwise(w) = IF HashOf(w) >= h THEN HashOf(w) - h ELSE HashOf(w) - h + H
    BY <1>1, ClockwiseIs DEF H
  <2>2. clockwise(w) <= clockwise(v) /\ clockwise(v) <= clockwise(w)
    BY <1>8, <1>9
  <2> HIDE DEF clockwise
  <2>3. HashOf(v) = HashOf(w)
    BY <1>1, <2>1, <2>2
  <2> QED BY <1>1, <2>3
<1>10. NextPeer[k] = v[1]
  <2>1. NextPeer[k] = (CHOOSE u \in Virtual : \A w \in Virtual : clockwise(u) <= clockwise(w))[1]
    BY <1>1 DEF NextPeer, h
  <2> HIDE DEF clockwise
  <2> QED BY <1>8, <1>9, <2>1
<1>11. RingGet(r, k) = r.hashMap[keys[place]]
  <2>1. keys # << >>
    BY <1>2
  <2> QED BY <1>2, <2>1 DEF RingGet, keys, place, first, h
<1>12. v[1] \in Nodes
  BY <1>1 DEF Virtual
<1> QED BY <1>3, <1>7, <1>10, <1>11, <1>12

-----------------------------------------------------------------------------
(* The LRU store.                                                          *)

IsLru(c) ==
  /\ c = [list |-> c.list, cache |-> c.cache, used |-> c.used, calls |-> c.calls]
  /\ c.list \in Seq(Keys)

(* d holds nothing that c does not.                                        *)
Within(d, c) ==
  Cached(d) \subseteq Cached(c) /\ \A k \in Cached(d) : d.cache[k] = c.cache[k]

LEMMA EmptyIsLru == IsLru(EmptyLru) /\ Cached(EmptyLru) = {}
BY EmptySeq DEF IsLru, EmptyLru, Cached

LEMMA GetKeeps ==
  ASSUME NEW c, IsLru(c), NEW k \in Keys
  PROVE  IsLru(LruGet(c, k)) /\ LruGet(c, k).cache = c.cache
<1> DEFINE l == MoveToFront(c.list, k)
<1>1. l \in Seq(Keys)
  <2>1. Len(c.list) \in Nat /\ DOMAIN c.list = 1..Len(c.list)
        /\ \A j \in DOMAIN c.list : c.list[j] \in Keys
    BY LenProperties DEF IsLru
  <2> DEFINE i == CHOOSE j \in DOMAIN c.list : c.list[j] = k
  <2>2. ASSUME NEW j \in DOMAIN c.list, j # 1  PROVE c.list[j - 1] \in Keys
    BY <2>1, <2>2
  <2>3. l = [j \in DOMAIN c.list |-> IF j = 1 THEN k
                                     ELSE IF j <= i THEN c.list[j - 1] ELSE c.list[j]]
    BY DEF MoveToFront
  <2> HIDE DEF i, l
  <2>4. l \in [1..Len(c.list) -> Keys]
    BY <2>1, <2>2, <2>3
  <2> QED BY <2>1, <2>4
<1> HIDE DEF l
<1>2. CASE k \in Cached(c)
  <2>1. LruGet(c, k) = [c EXCEPT !.list = l]
    BY <1>2 DEF LruGet, l
  <2>2. \A a, b, d, e : [[list |-> a, cache |-> b, used |-> d, calls |-> e] EXCEPT !.list = l]
                          = [list |-> l, cache |-> b, used |-> d, calls |-> e]
    OBVIOUS
  <2>3. LruGet(c, k) = [list |-> l, cache |-> c.cache, used |-> c.used, calls |-> c.calls]
    BY <2>1, <2>2 DEF IsLru
  <2> QED BY <1>1, <2>3 DEF IsLru
<1>3. CASE k \notin Cached(c)
  BY <1>3 DEF LruGet
<1> QED BY <1>2, <1>3

LEMMA RemoveKeeps ==
  ASSUME NEW c, IsLru(c)
  PROVE  IsLru(LruRemoveOldest(c)) /\ Within(LruRemoveOldest(c), c)
<1>1. CASE c.list = <<>>
  BY <1>1 DEF LruRemoveOldest, Within
<1>2. CASE c.list # <<>>
  <2> DEFINE d == LruRemoveOldest(c)
             k == Last(c.list)
             rest == Front(c.list)
  <2>1. rest \in Seq(Keys)
    <3>1. Len(c.list) \in Nat \ {0} /\ c.list \in Seq(Keys)
      BY <1>2, EmptySeq, LenProperties DEF IsLru
    <3> QED BY <3>1 DEF Front
  <2> HIDE DEF rest, k
  <2>2. /\ d = [list |-> d.list, cache |-> d.cache, used |-> d.used, calls |-> d.calls]
        /\ d.list = rest
        /\ d.cache = [j \in Cached(c) \ {k} |-> c.cache[j]]
    BY <1>2 DEF LruRemoveOldest, rest, k
  <2> HIDE DEF d
  <2>3. IsLru(d) /\ Within(d, c)
    BY <2>1, <2>2 DEF IsLru, Within, Cached
  <2> QED BY <2>3 DEF d
<1> QED BY <1>1, <1>2

(* The rounds of the loop of Set: there are always so many.                *)
Smaller(c) == IF TooBig(c) THEN LruRemoveOldest(c) ELSE c

Rounds(f, c, n) == f = [i \in 0..n |-> IF i = 0 THEN c ELSE Smaller(f[i - 1])]

LEMMA OneMoreRound ==
  ASSUME NEW c, NEW n \in Nat, NEW f, Rounds(f, c, n)
  PROVE  \E g : Rounds(g, c, n + 1)
<1> DEFINE g == [i \in 0..n + 1 |-> IF i <= n THEN f[i] ELSE Smaller(f[n])]
<1>1. \A i \in 0..n : f[i] = IF i = 0 THEN c ELSE Smaller(f[i - 1])
  BY DEF Rounds
<1>2. ASSUME NEW i \in 0..n + 1
      PROVE  g[i] = IF i = 0 THEN c ELSE Smaller(g[i - 1])
  <2>1. CASE i = 0
    BY <1>1, <2>1
  <2>2. CASE i \in 1..n
    <3>1. g[i] = f[i] /\ g[i - 1] = f[i - 1]
      BY <2>2
    <3> QED BY <1>1, <2>2, <3>1
  <2>3. CASE i = n + 1
    <3>1. g[i] = Smaller(f[n]) /\ g[i - 1] = f[n] /\ i # 0
      BY <2>3
    <3> QED BY <3>1
  <2> QED BY <2>1, <2>2, <2>3
<1> DEFINE h == [i \in 0..n + 1 |-> IF i = 0 THEN c ELSE Smaller(g[i - 1])]
<1>3. g = h
  BY <1>2
<1> QED BY <1>3 DEF Rounds

LEMMA RoundsEnd ==
  ASSUME NEW c, NEW n \in Nat
  PROVE  \E f : Rounds(f, c, n)
<1> DEFINE T == {o \in Nat : ~ \E f : Rounds(f, c, o)}
<1>1. SUFFICES ASSUME T # {} PROVE FALSE
  OBVIOUS
<1>2. T \subseteq Nat
  OBVIOUS
<1>3. PICK o \in T : \A i \in T : o <= i
  <2> HIDE DEF T
  <2> QED BY <1>1, <1>2, Least
<1>4. CASE o = 0
  <2>1. Rounds([i \in 0..0 |-> c], c, 0)
    BY DEF Rounds
  <2> QED BY <1>4, <2>1
<1>5. CASE o # 0
  <2>1. o - 1 \in Nat /\ o - 1 \notin T /\ (o - 1) + 1 = o
    BY <1>3, <1>5
  <2>2. PICK f : Rounds(f, c, o - 1)
    BY <2>1
  <2>3. \E g : Rounds(g, c, o)
    BY <2>1, <2>2, OneMoreRound
  <2> QED BY <2>3
<1> QED BY <1>4, <1>5

LEMMA ShrinkKeeps ==
  ASSUME NEW c, IsLru(c)
  PROVE  IsLru(Shrink(c)) /\ Within(Shrink(c), c)
<1> DEFINE n == Len(c.list)
           Def(g) == [i \in 0..n |-> IF i = 0 THEN c ELSE Smaller(g[i - 1])]
           round == CHOOSE g : g = Def(g)
<1>1. n \in Nat
  BY LenProperties DEF IsLru
<1>2. Shrink(c) = round[n]
  BY DEF Shrink, Smaller
<1>3. round = Def(round)
  <2>1. PICK f : f = Def(f)
    BY <1>1, RoundsEnd DEF Rounds
  <2> HIDE DEF Def
  <2> QED BY <2>1
<1> HIDE DEF round, n
<1> DEFINE T == {i \in 0..n : ~ (IsLru(round[i]) /\ Within(round[i], c))}
<1>4. T = {}
  <2> SUFFICES ASSUME T # {} PROVE FALSE
    OBVIOUS
  <2>1. T \subseteq Nat
    OBVIOUS
  <2>2. PICK i \in T : \A j \in T : i <= j
    <3> HIDE DEF T
    <3> QED BY <2>1, Least
  <2>3. CASE i = 0
    <3>1. round[0] = c
      BY <1>1, <1>3
    <3> QED BY <2>2, <2>3, <3>1 DEF Within
  <2>4. CASE i # 0
    <3>1. i - 1 \in 0..n /\ i \in 0..n /\ i - 1 \notin T
      BY <1>1, <2>2, <2>4
    <3> DEFINE d == round[i - 1]
    <3>2. round[i] = Smaller(d)
      BY <1>3, <2>4, <3>1
    <3>3. IsLru(d) /\ Within(d, c)
      BY <3>1
    <3> HIDE DEF d
    <3>4. IsLru(Smaller(d)) /\ Within(Smaller(d), d)
      BY <3>3, RemoveKeeps DEF Smaller, Within
    <3>5. Within(Smaller(d), c)
      BY <3>3, <3>4 DEF Within
    <3> QED BY <2>2, <3>2, <3>4, <3>5
  <2> QED BY <2>3, <2>4
<1> QED BY <1>1, <1>2, <1>4

LEMMA SetKeeps ==
  ASSUME NEW c, IsLru(c), NEW k \in Keys, NEW v
  PROVE  /\ IsLru(LruSet(c, k, v))
         /\ \A j \in Cached(LruSet(c, k, v)) :
              IF j = k THEN LruSet(c, k, v).cache[j] = v
              ELSE j \in Cached(c) /\ LruSet(c, k, v).cache[j] = c.cache[j]
<1> DEFINE d == LruStore(c, k, v)
           l == IF k \in Cached(c) THEN c.list ELSE <<k>> \o c.list
<1>1. l \in Seq(Keys)
  BY DEF IsLru
<1> HIDE DEF l
<1>2. /\ d = [list |-> d.list, cache |-> d.cache, used |-> d.used, calls |-> d.calls]
      /\ d.list = l
      /\ d.cache = [j \in Cached(c) \cup {k} |-> IF j = k THEN v ELSE c.cache[j]]
  BY DEF LruStore, l
<1> HIDE DEF d
<1>3. IsLru(d) /\ Cached(d) = Cached(c) \cup {k}
  BY <1>1, <1>2 DEF IsLru, Cached
<1>4. LruSet(c, k, v) = Shrink(d)
  BY DEF LruSet, d
<1>5. IsLru(Shrink(d)) /\ Within(Shrink(d), d)
  BY <1>3, ShrinkKeeps
<1> QED BY <1>2, <1>3, <1>4, <1>5 DEF Within

-----------------------------------------------------------------------------
(* The flights of all nodes: SingleFlight as in SingleFlight_proof, but fn *)
(* does not panic, its result is the source's value of the flight's key,   *)
(* and a crash ends all flights of a node.                                 *)

Flights == Nodes \X Keys

HoldsCall ==
  \A p \in Procs :
    /\ pc[p] # "out" => ca[p] \in CallIds /\ arg[p] \in Flights
    /\ pc[p] = "out" => ca[p] = NoCall

OneFlightPerCall ==
  /\ \A p, q \in Procs : ca[p] = ca[q] /\ ca[p] # NoCall => arg[p] = arg[q]
  /\ \A p \in Procs, f \in Flights : ca[p] = m[f] /\ ca[p] # NoCall => arg[p] = f
  /\ \A f, g \in Flights : m[f] = m[g] /\ m[f] # NoCall => f = g

LeaderInv ==
  \A p \in Procs :
    /\ SF!Leading(p) => m[arg[p]] = ca[p]
    /\ pc[p] \in {"fn", "done"} => wg[ca[p]] = 1
    /\ pc[p] = "forget" => wg[ca[p]] = 0
    /\ pc[p] \in {"done", "forget"} => val[ca[p]] = Source[arg[p][2]]

EntryInv ==
  \A f \in Flights :
    m[f] # NoCall => \E p \in Procs : SF!Leading(p) /\ arg[p] = f /\ ca[p] = m[f]

CounterInv ==
  \A c \in CallIds :
    wg[c] = 1 => \E p \in Procs : pc[p] \in {"fn", "done"} /\ ca[p] = c

WaiterInv ==
  \A p \in Procs :
    pc[p] = "wait" /\ wg[ca[p]] = 0 => val[ca[p]] = Source[arg[p][2]]

FlightTypes ==
  /\ m \in [Flights -> CallIds \cup {NoCall}]
  /\ wg \in [CallIds -> {0, 1}]
  /\ val \in [CallIds -> {Source[k] : k \in Keys} \cup {NoResult}]
  /\ pc \in [Procs -> {"out", "wait", "fn", "done", "forget"}]
  /\ arg \in [Procs -> Flights \cup {NoKey}]
  /\ ca \in [Procs -> CallIds \cup {NoCall}]

FlightInv ==
  /\ FlightTypes /\ HoldsCall /\ OneFlightPerCall /\ SF!OneFlight
  /\ LeaderInv /\ EntryInv /\ CounterInv /\ WaiterInv

LEMMA FlightsStart == ASSUME SF!Init PROVE FlightInv
BY NilAssumption DEF SF!Init, FlightInv, FlightTypes, HoldsCall, OneFlightPerCall,
   SF!OneFlight, LeaderInv, EntryInv, CounterInv, WaiterInv, SF!Leading, Flights

LEMMA FlightsStay == ASSUME FlightInv, UNCHANGED loaders PROVE FlightInv'
BY DEF loaders, FlightInv, FlightTypes, HoldsCall, OneFlightPerCall,
   SF!OneFlight, LeaderInv, EntryInv, CounterInv, WaiterInv, SF!Leading

LEMMA JoinKeeps ==
  ASSUME FlightInv, NEW p \in Procs, NEW f \in Flights, SF!Join(p, f)
  PROVE  FlightInv'
<1> USE NilAssumption DEF FlightInv, SF!Join
<1>1. FlightTypes'
  BY DEF FlightTypes
<1>2. HoldsCall'
  BY DEF FlightTypes, HoldsCall
<1>3. OneFlightPerCall'
  BY DEF FlightTypes, OneFlightPerCall
<1>4. SF!OneFlight'
  BY DEF SF!OneFlight, SF!Leading
<1>5. LeaderInv'
  BY DEF LeaderInv, SF!Leading
<1>6. EntryInv'
  BY DEF EntryInv, SF!Leading
<1>7. CounterInv'
  BY DEF CounterInv
<1>8. WaiterInv'
  BY DEF FlightTypes, LeaderInv, EntryInv, WaiterInv, SF!Leading
<1> QED
  BY <1>1, <1>2, <1>3, <1>4, <1>5, <1>6, <1>7, <1>8

LEMMA LeadKeeps ==
  ASSUME FlightInv, NEW p \in Procs, NEW f \in Flights, SF!Lead(p, f)
  PROVE  FlightInv'
<1> USE NilAssumption DEF FlightInv
<1> DEFINE c == SF!NewCall
<1>1. c \in CallIds /\ ~ SF!Referenced(c)
  BY DEF SF!Lead, SF!Free, SF!NewCall
<1>2. wg[c] = 0
  BY <1>1 DEF FlightTypes, CounterInv, SF!Referenced
<1>3. /\ pc[p] = "out" /\ m[f] = NoCall
      /\ ca' = [ca EXCEPT ![p] = c]
      /\ m' = [m EXCEPT ![f] = c]
      /\ wg' = [wg EXCEPT ![c] = 1]
      /\ arg' = [arg EXCEPT ![p] = f]
      /\ pc' = [pc EXCEPT ![p] = "fn"]
      /\ val' = val
  BY <1>2 DEF SF!Lead
<1>4. (\A q \in Procs : ca[q] # c) /\ (\A g \in Flights : m[g] # c)
  BY <1>1 DEF SF!Referenced, Flights
<1> HIDE DEF c
<1>5. FlightTypes'
  BY <1>1, <1>3 DEF FlightTypes
<1>6. HoldsCall'
  BY <1>1, <1>3 DEF FlightTypes, HoldsCall
<1>7. OneFlightPerCall'
  BY <1>1, <1>3, <1>4 DEF FlightTypes, OneFlightPerCall
<1>8. SF!OneFlight'
  BY <1>3 DEF FlightTypes, HoldsCall, SF!OneFlight, LeaderInv, SF!Leading
<1>9. LeaderInv'
  BY <1>1, <1>3, <1>4 DEF FlightTypes, HoldsCall, LeaderInv, SF!Leading
<1>10. EntryInv'
  BY <1>3 DEF FlightTypes, EntryInv, SF!Leading
<1>11. CounterInv'
  BY <1>3 DEF FlightTypes, CounterInv
<1>12. WaiterInv'
  BY <1>3, <1>4 DEF HoldsCall, WaiterInv
<1> QED
  BY <1>5, <1>6, <1>7, <1>8, <1>9, <1>10, <1>11, <1>12

LEMMA FnReturnKeeps ==
  ASSUME FlightInv, NEW p \in Procs, NEW r, SF!FnReturn(p, r),
         r = Source[arg[p][2]]
  PROVE  FlightInv'
<1> USE NilAssumption DEF FlightInv
<1>1. /\ pc[p] = "fn" /\ ca[p] \in CallIds /\ arg[p] \in Flights /\ arg[p][2] \in Keys
      /\ val' = [val EXCEPT ![ca[p]] = r]
      /\ pc' = [pc EXCEPT ![p] = "done"]
      /\ m' = m /\ wg' = wg /\ arg' = arg /\ ca' = ca
  BY DEF SF!FnReturn, HoldsCall, Flights
<1>2. FlightTypes'
  BY <1>1 DEF FlightTypes
<1>3. HoldsCall'
  BY <1>1 DEF HoldsCall
<1>4. OneFlightPerCall'
  BY <1>1 DEF OneFlightPerCall
<1>5. SF!OneFlight'
  BY <1>1 DEF SF!OneFlight, SF!Leading
<1>6. LeaderInv'
  BY <1>1 DEF FlightTypes, HoldsCall, OneFlightPerCall, LeaderInv, SF!Leading
<1>7. EntryInv'
  BY <1>1 DEF EntryInv, SF!Leading
<1>8. CounterInv'
  BY <1>1 DEF CounterInv
<1>9. WaiterInv'
  BY <1>1 DEF LeaderInv, WaiterInv
<1> QED
  BY <1>2, <1>3, <1>4, <1>5, <1>6, <1>7, <1>8, <1>9

LEMMA DoneKeeps ==
  ASSUME FlightInv, NEW p \in Procs, SF!Done(p)
  PROVE  FlightInv'
<1> USE NilAssumption DEF FlightInv, SF!Done
<1>1. FlightTypes'
  BY DEF FlightTypes, HoldsCall, LeaderInv
<1>2. HoldsCall'
  BY DEF HoldsCall
<1>3. OneFlightPerCall'
  BY DEF OneFlightPerCall
<1>4. SF!OneFlight'
  BY DEF SF!OneFlight, SF!Leading
<1>5. LeaderInv'
  BY DEF FlightTypes, HoldsCall, OneFlightPerCall, SF!OneFlight, LeaderInv, SF!Leading
<1>6. EntryInv'
  BY DEF EntryInv, SF!Leading
<1>7. CounterInv'
  BY DEF FlightTypes, CounterInv
<1>8. WaiterInv'
  BY DEF HoldsCall, OneFlightPerCall, LeaderInv, WaiterInv
<1> QED
  BY <1>1, <1>2, <1>3, <1>4, <1>5, <1>6, <1>7, <1>8

LEMMA LeaveKeeps ==
  ASSUME FlightInv, NEW p \in Procs, SF!Forget(p) \/ SF!Wake(p)
  PROVE  FlightInv'
<1> USE NilAssumption DEF FlightInv
<1>1. /\ pc[p] \in {"forget", "wait"}
      /\ m' = IF pc[p] = "forget" THEN [m EXCEPT ![arg[p]] = NoCall] ELSE m
      /\ wg' = wg
      /\ pc' = [pc EXCEPT ![p] = "out"]
      /\ arg' = [arg EXCEPT ![p] = NoKey]
      /\ ca' = [ca EXCEPT ![p] = NoCall]
      /\ val' = [c \in CallIds |-> IF SF!Referenced(c)' THEN val[c] ELSE NoResult]
  BY DEF SF!Forget, SF!Wake, SF!Leave
<1>2. /\ \A q \in Procs : ca'[q] \in CallIds => val'[ca'[q]] = val[ca'[q]]
      /\ val' \in [CallIds -> {Source[k] : k \in Keys} \cup {NoResult}]
  BY <1>1 DEF SF!Referenced, FlightTypes
<1>3. FlightTypes'
  BY <1>1, <1>2 DEF FlightTypes
<1>4. HoldsCall'
  BY <1>1 DEF FlightTypes, HoldsCall
<1>5. OneFlightPerCall'
  BY <1>1 DEF FlightTypes, OneFlightPerCall
<1>6. SF!OneFlight'
  BY <1>1 DEF FlightTypes, HoldsCall, SF!OneFlight, SF!Leading
<1>7. LeaderInv'
  BY <1>1, <1>2 DEF FlightTypes, HoldsCall, SF!OneFlight, LeaderInv, SF!Leading
<1>8. EntryInv'
  BY <1>1 DEF FlightTypes, EntryInv, LeaderInv, SF!Leading
<1>9. CounterInv'
  BY <1>1 DEF FlightTypes, LeaderInv, CounterInv, SF!Leading
<1>10. WaiterInv'
  BY <1>1, <1>2 DEF FlightTypes, HoldsCall, WaiterInv
<1> QED
  BY <1>3, <1>4, <1>5, <1>6, <1>7, <1>8, <1>9, <1>10

(* The flights of n end with it, and those of other nodes go on.           *)
LEMMA CrashKeepsFlights ==
  ASSUME FlightInv, NEW n \in Nodes, Crash(n),
         \A p \in Procs : pc[p] # "out" => at[p] = arg[p][1]
  PROVE  FlightInv'
<1> USE NilAssumption DEF FlightInv
<1>1. /\ m' = [f \in Flights |-> IF f[1] = n THEN NoCall ELSE m[f]]
      /\ pc' = [p \in Procs |-> IF at[p] = n THEN "out" ELSE pc[p]]
      /\ arg' = [p \in Procs |-> IF at[p] = n THEN NoKey ELSE arg[p]]
      /\ ca' = [p \in Procs |-> IF at[p] = n THEN NoCall ELSE ca[p]]
      /\ wg' = [c \in CallIds |-> IF SF!Referenced(c)' THEN wg[c] ELSE 0]
      /\ val' = [c \in CallIds |-> IF SF!Referenced(c)' THEN val[c] ELSE NoResult]
  BY DEF Crash, Flights
<1>2. /\ \A q \in Procs : ca'[q] \in CallIds =>
           val'[ca'[q]] = val[ca'[q]] /\ wg'[ca'[q]] = wg[ca'[q]]
      /\ val' \in [CallIds -> {Source[k] : k \in Keys} \cup {NoResult}]
      /\ wg' \in [CallIds -> {0, 1}]
  BY <1>1 DEF SF!Referenced, FlightTypes
<1>11. ASSUME NEW p \in Procs, pc'[p] # "out"
      PROVE  /\ pc'[p] = pc[p] /\ arg'[p] = arg[p] /\ ca'[p] = ca[p]
             /\ m'[arg[p]] = m[arg[p]]
             /\ val'[ca[p]] = val[ca[p]] /\ wg'[ca[p]] = wg[ca[p]]
  <2>1. at[p] # n /\ pc[p] # "out"
    BY <1>1, <1>11
  <2>2. pc'[p] = pc[p] /\ arg'[p] = arg[p] /\ ca'[p] = ca[p]
    BY <1>1, <2>1
  <2>3. ca[p] \in CallIds /\ arg[p] \in Flights /\ arg[p][1] # n
    BY <2>1 DEF HoldsCall
  <2>4. m'[arg[p]] = m[arg[p]]
    BY <1>1, <2>3
  <2> QED BY <1>2, <2>2, <2>3, <2>4
<1>3. FlightTypes'
  BY <1>1, <1>2 DEF FlightTypes
<1>4. HoldsCall'
  BY <1>1 DEF FlightTypes, HoldsCall
<1>5. OneFlightPerCall'
  BY <1>1 DEF FlightTypes, OneFlightPerCall
<1>6. SF!OneFlight'
  BY <1>1 DEF FlightTypes, HoldsCall, SF!OneFlight, SF!Leading
<1>7. LeaderInv'
  BY <1>11 DEF LeaderInv, SF!Leading
<1>8. EntryInv'
  BY <1>1 DEF FlightTypes, EntryInv, SF!Leading, HoldsCall
<1>9. CounterInv'
  <2> SUFFICES ASSUME NEW c \in CallIds, wg'[c] = 1
               PROVE  \E p \in Procs : pc'[p] \in {"fn", "done"} /\ ca'[p] = c
    BY DEF CounterInv
  <2>1. SF!Referenced(c)' /\ wg[c] = 1
    BY <1>1
  <2>2. PICK p \in Procs : pc[p] \in {"fn", "done"} /\ ca[p] = c
    BY <2>1 DEF CounterInv
  <2>3. at[p] # n
    <3> SUFFICES ASSUME at[p] = n  PROVE FALSE
      OBVIOUS
    <3>1. arg[p][1] = n /\ arg[p] \in Flights
      BY <2>2 DEF HoldsCall
    <3>2. CASE \E q \in Procs : ca'[q] = c
      BY <1>1, <2>2, <3>1, <3>2 DEF OneFlightPerCall, HoldsCall, FlightTypes
    <3>3. CASE \E f \in Flights : m'[f] = c
      BY <1>1, <2>2, <3>1, <3>3 DEF OneFlightPerCall, HoldsCall, FlightTypes
    <3> QED BY <2>1, <3>2, <3>3 DEF SF!Referenced, Flights
  <2> QED BY <1>1, <2>2, <2>3
<1>10. WaiterInv'
  BY <1>11 DEF WaiterInv
<1> QED
  BY <1>3, <1>4, <1>5, <1>6, <1>7, <1>8, <1>9, <1>10

-----------------------------------------------------------------------------
(* The cluster.  OnlySourceValues says what answers and caches hold; it    *)
(* rests on which request a handler works for and which key it was given.  *)

Answers == {Source[k] : k \in Keys}

ClusterTypes ==
  /\ DOMAIN cache = Nodes /\ DOMAIN ring = Nodes
  /\ at \in [Procs -> Nodes \cup {NoNode}]
  /\ stage \in [Procs -> Stages]
  /\ key \in [Procs -> Keys \cup {NoKey}]
  /\ res \in [Procs -> Answers \cup {NoResult}]
  /\ caller \in [Handlers -> Procs \cup {NoProc}]
  /\ faults \in Nat

(* What stage says, and the place of a goroutine in Do.                    *)
PlaceInv ==
  \A p \in Procs :
    /\ p \in Clients => at[p] = NodeOf[p]
    /\ stage[p] # "idle" => at[p] \in Nodes /\ key[p] \in Keys
    /\ pc[p] = "out" <=> stage[p] \in {"idle", "do", "answer"}
    /\ pc[p] = "fn" <=> stage[p] \in {"pick", "rpc", "local"}
    /\ pc[p] # "out" => arg[p] = <<at[p], key[p]>>

(* A request that is waited for is worked on by one handler.               *)
CallerInv ==
  /\ \A h \in Handlers : caller[h] # NoProc =>
       /\ stage[h] # "idle" /\ stage[caller[h]] = "rpc"
       /\ key[h] = Wire[key[caller[h]]]
  /\ \A h, i \in Handlers : caller[h] = caller[i] /\ caller[h] # NoProc => h = i

CacheInv ==
  /\ \A n \in Nodes : IsLru(cache[n]) /\ Cached(cache[n]) \subseteq Keys
  /\ CachesSource

(* Whoever loads a key it does not own was refused it, or saw a failure.   *)
OwnerInv ==
  faults = 0 =>
    /\ \A n \in Nodes : IsRing(ring[n])
    /\ \A n \in Nodes : \A k \in Cached(cache[n]) : NextPeer[k] = n \/ Wire[k] # k
    /\ \A p \in Procs : stage[p] = "local" =>
         NextPeer[key[p]] = at[p] \/ Wire[key[p]] # key[p] \/ Source[key[p]] = Missing

RingInv == \A n \in Nodes : ring[n] = EmptyRing \/ IsRing(ring[n])

CInv ==
  /\ FlightInv /\ ClusterTypes /\ PlaceInv /\ CallerInv
  /\ AnswersSource /\ CacheInv /\ OwnerInv /\ RingInv

LEMMA EmptyRingIsNone == ASSUME NEW r, IsRing(r) PROVE r # EmptyRing /\ r.keys # << >>
BY EmptySeq DEF IsRing, EmptyRing

(* A ring that is there gives a node of the cluster.                       *)
LEMMA OwnerIsNode ==
  ASSUME RingInv, NEW n \in registered, NEW k \in Keys
  PROVE  Owner(n, k) = NextPeer[k] /\ Owner(n, k) \in Nodes
<1>1. n \in Nodes /\ ring[n].keys # << >>
  BY DEF registered
<1>2. IsRing(ring[n])
  BY <1>1 DEF RingInv, EmptyRing
<1> QED BY <1>2, RingGivesNext DEF Owner

(* With no failure yet, all nodes serve and agree on the owners.           *)
LEMMA AllServe ==
  ASSUME CInv, faults = 0
  PROVE  registered = Nodes /\ \A n \in Nodes, k \in Keys : Owner(n, k) = NextPeer[k]
<1>1. registered = Nodes
  BY EmptyRingIsNone DEF CInv, OwnerInv, registered
<1> QED BY <1>1, OwnerIsNode DEF CInv

(* Caches that lose entries, or move them, keep what is said of the rest.  *)
LEMMA CachesKeep ==
  ASSUME CacheInv, \A n \in Nodes : IsLru(cache'[n]) /\ Within(cache'[n], cache[n])
  PROVE  CacheInv'
BY DEF CacheInv, CachesSource, Within

LEMMA StillKnown ==
  ASSUME CInv, UNCHANGED <<ring, faults>>,
         \A n \in Nodes : Within(cache'[n], cache[n]),
         \A p \in Procs : stage'[p] = "local" =>
           stage[p] = "local" /\ at'[p] = at[p] /\ key'[p] = key[p]
  PROVE  OwnerInv'
BY DEF CInv, OwnerInv, Within

LEMMA CInit == ASSUME Init PROVE CInv
<1> USE DEF Init
<1>1. FlightInv
  BY FlightsStart
<1>2. ClusterTypes
  BY ProcAssumption DEF ClusterTypes, Stages, Procs
<1>3. PlaceInv
  BY NilAssumption DEF PlaceInv, SF!Init
<1>4. CallerInv /\ AnswersSource
  BY DEF CallerInv, AnswersSource
<1>5. CacheInv
  BY EmptyIsLru DEF CacheInv, CachesSource
<1>6. ASSUME NEW n \in Nodes PROVE IsRing(ring[n])
  BY <1>6, AddMakesRing
<1>7. OwnerInv /\ RingInv
  BY <1>6, EmptyIsLru DEF OwnerInv, RingInv
<1> QED BY <1>1, <1>2, <1>3, <1>4, <1>5, <1>7 DEF CInv

LEMMA StutterKeeps == ASSUME CInv, UNCHANGED vars PROVE CInv'
<1>1. FlightInv'
  BY FlightsStay DEF CInv, vars
<1>2. UNCHANGED <<pc, arg, cache, ring, at, stage, key, res, caller, faults>>
  BY DEF vars, loaders
<1> QED BY <1>1, <1>2 DEF CInv, ClusterTypes, PlaceInv, CallerInv, AnswersSource,
        CacheInv, CachesSource, OwnerInv, RingInv

LEMMA RegisterKeeps == ASSUME CInv, NEW n \in Nodes, Register(n) PROVE CInv'
<1> USE DEF CInv
<1>1. PICK addrs \in AddrOrders : ring' = [ring EXCEPT ![n] = RingAdd(EmptyRing, addrs)]
  BY DEF Register
<1>2. UNCHANGED loaders /\ UNCHANGED <<pc, arg, cache, at, stage, key, res, caller, faults>>
  BY DEF Register, loaders
<1>3. FlightInv'
  BY <1>2, FlightsStay
<1>4. IsRing(RingAdd(EmptyRing, addrs))
  BY AddMakesRing
<1>5. ClusterTypes' /\ RingInv'
  BY <1>1, <1>2, <1>4 DEF ClusterTypes, RingInv
<1>6. PlaceInv' /\ CallerInv' /\ AnswersSource' /\ CacheInv'
  BY <1>2 DEF PlaceInv, CallerInv, AnswersSource, CacheInv, CachesSource
<1>7. faults # 0
  BY AllServe DEF Register
<1> QED BY <1>2, <1>3, <1>5, <1>6, <1>7 DEF OwnerInv

(* What Get changes up to load.                                            *)
LEMMA GetStarts ==
  ASSUME CInv, NEW p \in Procs, NEW n \in Nodes, NEW k \in Keys, Get(p, n, k)
  PROVE  /\ stage[p] = "idle"
         /\ key' = [key EXCEPT ![p] = k]
         /\ \/ /\ stage' = [stage EXCEPT ![p] = "answer"]
               /\ res' = [res EXCEPT ![p] = Source[k]]
            \/ stage' = [stage EXCEPT ![p] = "do"] /\ res' = res
         /\ DOMAIN cache' = Nodes
         /\ \A i \in Nodes : IsLru(cache'[i]) /\ Within(cache'[i], cache[i])
<1> DEFINE c == cache[n]
<1>1. DOMAIN cache = Nodes /\ \A i \in Nodes : IsLru(cache[i]) /\ Within(cache[i], cache[i])
  BY DEF CInv, ClusterTypes, CacheInv, Within
<1>2. stage[p] = "idle" /\ key' = [key EXCEPT ![p] = k]
  BY DEF Get
<1>3. CASE k = EmptyKey /\ Answer(p, Missing) /\ UNCHANGED cache
  BY <1>1, <1>2, <1>3, KeyAssumption DEF Answer, Goto
<1>4. CASE /\ k \in Cached(c) /\ Answer(p, c.cache[k])
           /\ cache' = [cache EXCEPT ![n] = LruGet(c, k)]
  <2>1. IsLru(LruGet(c, k)) /\ LruGet(c, k).cache = c.cache
    BY <1>1, GetKeeps
  <2>2. IsLru(LruGet(c, k)) /\ Within(LruGet(c, k), c)
    BY <2>1 DEF Within, Cached
  <2>3. c.cache[k] = Source[k]
    BY <1>4 DEF CInv, CacheInv, CachesSource
  <2> QED BY <1>1, <1>2, <1>4, <2>2, <2>3 DEF Answer, Goto
<1>5. CASE Goto(p, "do") /\ UNCHANGED <<cache, res>>
  BY <1>1, <1>2, <1>5 DEF Goto
<1> QED BY <1>3, <1>4, <1>5 DEF Get

LEMMA AskKeeps ==
  ASSUME CInv, NEW p \in Clients, NEW k \in Keys, Ask(p, k)
  PROVE  CInv'
<1> DEFINE n == NodeOf[p]
<1>1. n \in Nodes /\ p \in Procs /\ Get(p, n, k)
  BY ProcAssumption DEF Ask, Procs
<1>2. UNCHANGED loaders /\ UNCHANGED <<pc, arg, ring, at, caller, faults>>
  BY DEF Ask, loaders
<1> HIDE DEF n
<1>3. /\ stage[p] = "idle" /\ key' = [key EXCEPT ![p] = k]
      /\ \/ /\ stage' = [stage EXCEPT ![p] = "answer"]
            /\ res' = [res EXCEPT ![p] = Source[k]]
         \/ stage' = [stage EXCEPT ![p] = "do"] /\ res' = res
      /\ DOMAIN cache' = Nodes
      /\ \A i \in Nodes : IsLru(cache'[i]) /\ Within(cache'[i], cache[i])
  BY <1>1, GetStarts
<1> USE DEF CInv
<1>4. FlightInv'
  BY <1>2, FlightsStay
<1>5. ClusterTypes'
  <2>1. Source[k] \in Answers /\ {"do", "answer"} \subseteq Stages
    BY DEF Answers, Stages
  <2>2. stage' \in [Procs -> Stages] /\ res' \in [Procs -> Answers \cup {NoResult}]
    BY <1>3, <2>1 DEF ClusterTypes
  <2> QED BY <1>2, <1>3, <2>2 DEF ClusterTypes
<1>6. at[p] \in Nodes
  BY <1>1, ProcAssumption DEF PlaceInv
<1>7. PlaceInv'
  BY <1>2, <1>3, <1>6 DEF ClusterTypes, PlaceInv
<1>8. CallerInv'
  <2>1. \A h \in Handlers : caller[h] # NoProc =>
          h # p /\ caller[h] # p /\ caller[h] \in Procs /\ h \in Procs
    BY <1>3, ProcAssumption DEF ClusterTypes, CallerInv, Procs
  <2>2. \A q \in Procs : q # p => stage'[q] = stage[q] /\ key'[q] = key[q]
    BY <1>3 DEF ClusterTypes
  <2> QED BY <1>2, <2>1, <2>2 DEF CallerInv
<1>9. AnswersSource'
  BY <1>2, <1>3 DEF ClusterTypes, AnswersSource
<1>10. CacheInv' /\ OwnerInv'
  <2>1. \A q \in Procs : stage'[q] = "local" =>
          stage[q] = "local" /\ at'[q] = at[q] /\ key'[q] = key[q]
    BY <1>2, <1>3 DEF ClusterTypes
  <2> QED BY <1>2, <1>3, <2>1, CachesKeep, StillKnown
<1>11. RingInv'
  BY <1>2 DEF RingInv
<1> QED BY <1>4, <1>5, <1>7, <1>8, <1>9, <1>10, <1>11

LEMMA DoKeeps == ASSUME CInv, NEW p \in Procs, Do(p) PROVE CInv'
<1> DEFINE f == <<at[p], key[p]>>
<1> USE DEF CInv
<1>1. /\ stage[p] = "do" /\ f \in Flights
      /\ UNCHANGED <<cache, ring, at, key, res, caller, faults>>
      /\ \/ SF!Join(p, f) /\ stage' = [stage EXCEPT ![p] = "wait"]
         \/ SF!Lead(p, f) /\ stage' = [stage EXCEPT ![p] = "pick"]
  BY DEF Do, Goto, PlaceInv, Flights
<1>2. FlightInv'
  BY <1>1, JoinKeeps, LeadKeeps
<1>3. /\ arg' = [arg EXCEPT ![p] = f]
      /\ \/ pc' = [pc EXCEPT ![p] = "wait"] /\ stage' = [stage EXCEPT ![p] = "wait"]
         \/ pc' = [pc EXCEPT ![p] = "fn"] /\ stage' = [stage EXCEPT ![p] = "pick"]
  BY <1>1 DEF SF!Join, SF!Lead
<1>4. ClusterTypes'
  BY <1>1, <1>3 DEF ClusterTypes, Stages
<1>5. PlaceInv'
  <2>1. /\ pc \in [Procs -> {"out", "wait", "fn", "done", "forget"}]
        /\ arg \in [Procs -> Flights \cup {NoKey}]
    BY DEF FlightInv, FlightTypes
  <2>2. CASE /\ pc' = [pc EXCEPT ![p] = "wait"]
             /\ stage' = [stage EXCEPT ![p] = "wait"]
    BY <1>1, <1>3, <2>1, <2>2 DEF ClusterTypes, PlaceInv
  <2>3. CASE /\ pc' = [pc EXCEPT ![p] = "fn"]
             /\ stage' = [stage EXCEPT ![p] = "pick"]
    BY <1>1, <1>3, <2>1, <2>3 DEF ClusterTypes, PlaceInv
  <2> QED BY <1>3, <2>2, <2>3
<1>6. CallerInv'
  <2>1. \A q \in Procs : q # p => stage'[q] = stage[q]
    BY <1>3 DEF ClusterTypes
  <2>2. stage'[p] # "idle"
    BY <1>3 DEF ClusterTypes
  <2>3. \A i \in Handlers : caller[i] # NoProc =>
          caller[i] # p /\ caller[i] \in Procs /\ i \in Procs
    BY <1>1 DEF ClusterTypes, CallerInv, Procs
  <2> QED BY <1>1, <2>1, <2>2, <2>3 DEF CallerInv
<1>7. AnswersSource' /\ CacheInv' /\ RingInv'
  BY <1>1, <1>3 DEF ClusterTypes, AnswersSource, CacheInv, CachesSource, RingInv
<1>8. OwnerInv'
  BY <1>1, <1>3, StillKnown DEF ClusterTypes, Within
<1> QED BY <1>2, <1>4, <1>5, <1>6, <1>7, <1>8

(* A goroutine goes on inside fn, and nobody works for it any longer.      *)
LEMMA GoingOnKeeps ==
  ASSUME CInv, NEW p \in Procs, NEW s \in {"rpc", "local"}, stage[p] \in {"pick", "rpc"},
         stage' = [stage EXCEPT ![p] = s],
         UNCHANGED loaders, UNCHANGED <<cache, ring, at, key, res>>,
         caller' = [h \in Handlers |-> IF caller[h] = p THEN NoProc ELSE caller[h]],
         faults' \in Nat, faults' = 0 => faults = 0,
         faults' = 0 /\ s = "local" => \/ NextPeer[key[p]] = at[p]
                                       \/ Wire[key[p]] # key[p]
                                       \/ Source[key[p]] = Missing
  PROVE  CInv'
<1> USE DEF CInv
<1>1. UNCHANGED <<pc, arg>> /\ FlightInv'
  BY FlightsStay DEF loaders
<1>2. ClusterTypes'
  BY DEF ClusterTypes, Stages
<1>3. PlaceInv'
  BY <1>1 DEF ClusterTypes, PlaceInv
<1>4. CallerInv'
  BY ProcAssumption DEF ClusterTypes, CallerInv
<1>5. AnswersSource' /\ CacheInv' /\ RingInv'
  BY DEF ClusterTypes, AnswersSource, CacheInv, CachesSource, RingInv
<1>6. OwnerInv'
  BY DEF ClusterTypes, OwnerInv
<1> QED BY <1>1, <1>2, <1>3, <1>4, <1>5, <1>6

LEMMA NoneCalled ==
  ASSUME CInv, NEW p, UNCHANGED caller, stage[p] # "rpc" \/ ~ Called(p), p \in Procs
  PROVE  caller' = [h \in Handlers |-> IF caller[h] = p THEN NoProc ELSE caller[h]]
<1>1. \A h \in Handlers : caller[h] # p
  BY ProcAssumption DEF CInv, CallerInv, Called, Procs
<1> QED BY <1>1 DEF CInv, ClusterTypes

LEMMA PickPeerKeeps == ASSUME CInv, NEW p \in Procs, PickPeer(p) PROVE CInv'
<1> DEFINE s == IF at[p] \in registered /\ Owner(at[p], key[p]) # at[p] THEN "rpc" ELSE "local"
<1>1. /\ stage[p] = "pick" /\ stage' = [stage EXCEPT ![p] = s]
      /\ UNCHANGED loaders /\ UNCHANGED <<cache, ring, at, key, res, caller, faults>>
  BY DEF PickPeer, Goto
<1>2. faults = 0 /\ s = "local" => NextPeer[key[p]] = at[p]
  BY <1>1, AllServe DEF CInv, PlaceInv
<1>3. faults \in Nat /\ s \in {"rpc", "local"}
  BY DEF CInv, ClusterTypes
<1> HIDE DEF s
<1>4. caller' = [h \in Handlers |-> IF caller[h] = p THEN NoProc ELSE caller[h]]
  BY <1>1, NoneCalled
<1> QED BY <1>1, <1>2, <1>3, <1>4, GoingOnKeeps

LEMMA RefusedKeeps == ASSUME CInv, NEW p \in Procs, Refused(p) PROVE CInv'
<1>1. /\ stage[p] = "rpc" /\ stage' = [stage EXCEPT ![p] = "local"]
      /\ UNCHANGED loaders /\ UNCHANGED <<cache, ring, at, key, res, caller, faults>>
  BY DEF Refused, Goto
<1>2. faults # 0
  <2> SUFFICES ASSUME faults = 0 PROVE FALSE
    OBVIOUS
  <2>1. at[p] \in Nodes /\ key[p] \in Keys
    BY <1>1 DEF CInv, PlaceInv
  <2>2. registered = Nodes
    BY AllServe
  <2>3. Owner(at[p], key[p]) \in Nodes
    BY <2>1, <2>2, OwnerIsNode DEF CInv
  <2> QED BY <2>2, <2>3 DEF Refused
<1>3. faults \in Nat
  BY DEF CInv, ClusterTypes
<1>4. caller' = [h \in Handlers |-> IF caller[h] = p THEN NoProc ELSE caller[h]]
  BY <1>1, NoneCalled DEF Refused
<1> QED BY <1>1, <1>2, <1>3, <1>4, GoingOnKeeps

LEMMA NetworkErrorKeeps == ASSUME CInv, NEW p \in Procs, NetworkError(p) PROVE CInv'
<1>1. /\ stage[p] = "rpc" /\ stage' = [stage EXCEPT ![p] = "local"]
      /\ UNCHANGED loaders /\ UNCHANGED <<cache, ring, at, key, res>>
      /\ caller' = [h \in Handlers |-> IF caller[h] = p THEN NoProc ELSE caller[h]]
      /\ faults' = faults + 1
  BY DEF NetworkError, Goto
<1>2. faults' \in Nat /\ faults' # 0
  BY <1>1 DEF CInv, ClusterTypes
<1> QED BY <1>1, <1>2, GoingOnKeeps

LEMMA RequestKeeps ==
  ASSUME CInv, NEW p \in Procs, NEW h \in Handlers, Request(p, h)
  PROVE  CInv'
<1> DEFINE n == Owner(at[p], key[p])
           k == Wire[key[p]]
<1> USE DEF CInv
<1>1. /\ stage[p] = "rpc" /\ ~ Called(p) /\ h \in Procs /\ h \notin Clients
      /\ n \in Nodes /\ k \in Keys
      /\ Get(h, n, k)
      /\ at' = [at EXCEPT ![h] = n] /\ caller' = [caller EXCEPT ![h] = p]
  <2>1. n \in Nodes
    BY DEF Request, registered
  <2>2. key[p] \in Keys
    BY DEF Request, PlaceInv
  <2> QED BY <2>1, <2>2, WireAssumption, ProcAssumption DEF Request, Procs
<1>2. UNCHANGED loaders /\ UNCHANGED <<pc, arg, ring, faults>>
  BY DEF Request, loaders
<1>3. k = Wire[key[p]]
  OBVIOUS
<1> HIDE DEF n, k
<1>4. /\ stage[h] = "idle" /\ key' = [key EXCEPT ![h] = k]
      /\ \/ /\ stage' = [stage EXCEPT ![h] = "answer"]
            /\ res' = [res EXCEPT ![h] = Source[k]]
         \/ stage' = [stage EXCEPT ![h] = "do"] /\ res' = res
      /\ DOMAIN cache' = Nodes
      /\ \A i \in Nodes : IsLru(cache'[i]) /\ Within(cache'[i], cache[i])
  BY <1>1, GetStarts
<1>5. FlightInv'
  BY <1>2, FlightsStay
<1>6. ClusterTypes'
  <2>1. Source[k] \in Answers /\ {"do", "answer"} \subseteq Stages
    BY <1>1 DEF Answers, Stages
  <2>2. stage' \in [Procs -> Stages] /\ res' \in [Procs -> Answers \cup {NoResult}]
    BY <1>4, <2>1 DEF ClusterTypes
  <2> QED BY <1>1, <1>2, <1>4, <2>2 DEF ClusterTypes
<1>7. PlaceInv'
  BY <1>1, <1>2, <1>4 DEF ClusterTypes, PlaceInv
<1>8. CallerInv'
  <2>1. \A i \in Handlers : caller[i] # NoProc =>
          i # h /\ caller[i] # h /\ caller[i] # p /\ caller[i] \in Procs /\ i \in Procs
    BY <1>1, <1>4 DEF ClusterTypes, CallerInv, Procs, Called
  <2>2. \A q \in Procs : q # h => stage'[q] = stage[q] /\ key'[q] = key[q]
    BY <1>4 DEF ClusterTypes
  <2>3. stage'[h] # "idle" /\ key'[h] = k /\ caller'[h] = p /\ p # h
    BY <1>1, <1>4 DEF ClusterTypes
  <2>4. \A i \in Handlers : i # h => caller'[i] = caller[i]
    BY <1>1 DEF ClusterTypes
  <2> QED BY <1>1, <1>3, <2>1, <2>2, <2>3, <2>4 DEF CallerInv
<1>9. AnswersSource'
  BY <1>2, <1>4 DEF ClusterTypes, AnswersSource
<1>10. CacheInv' /\ OwnerInv'
  <2>1. \A q \in Procs : stage'[q] = "local" =>
          stage[q] = "local" /\ at'[q] = at[q] /\ key'[q] = key[q]
    BY <1>1, <1>4 DEF ClusterTypes
  <2> QED BY <1>2, <1>4, <2>1, CachesKeep, StillKnown
<1>11. RingInv'
  BY <1>2 DEF RingInv
<1> QED BY <1>5, <1>6, <1>7, <1>8, <1>9, <1>10, <1>11

(* The getter's value is cached where it was got, and ends fn.             *)
LEMMA LoadLocallyKeeps == ASSUME CInv, NEW p \in Procs, LoadLocally(p) PROVE CInv'
<1> DEFINE n == at[p]
           k == key[p]
<1> USE DEF CInv
<1>1. /\ stage[p] = "local" /\ n \in Nodes /\ k \in Keys /\ arg[p] = <<n, k>>
      /\ SF!FnReturn(p, Source[k])
      /\ stage' = [stage EXCEPT ![p] = "wait"]
      /\ UNCHANGED <<ring, at, key, res, caller, faults>>
  BY DEF LoadLocally, Goto, PlaceInv
<1>2. pc' = [pc EXCEPT ![p] = "done"] /\ pc[p] = "fn" /\ arg' = arg
  BY <1>1 DEF SF!FnReturn
<1>3. FlightInv'
  BY <1>1, FnReturnKeeps
<1>4. /\ DOMAIN cache' = Nodes
      /\ \A i \in Nodes : IsLru(cache'[i]) /\ Cached(cache'[i]) \subseteq Keys
      /\ \A i \in Nodes : \A j \in Cached(cache'[i]) :
           \/ j \in Cached(cache[i]) /\ cache'[i].cache[j] = cache[i].cache[j]
           \/ i = n /\ j = k /\ cache'[i].cache[j] = Source[k] /\ Source[k] # Missing
  <2>1. CASE UNCHANGED cache
    BY <2>1 DEF ClusterTypes, CacheInv
  <2>2. CASE /\ Source[k] # Missing
             /\ cache' = [cache EXCEPT ![n] = LruSet(@, k, Source[k])]
    <3> DEFINE d == LruSet(cache[n], k, Source[k])
    <3>1. /\ IsLru(d)
          /\ \A j \in Cached(d) : IF j = k THEN d.cache[j] = Source[k]
               ELSE j \in Cached(cache[n]) /\ d.cache[j] = cache[n].cache[j]
      BY <1>1, SetKeeps DEF CacheInv
    <3> HIDE DEF d
    <3>2. DOMAIN cache' = Nodes /\ cache'[n] = d
          /\ \A i \in Nodes : i # n => cache'[i] = cache[i]
      BY <1>1, <2>2 DEF ClusterTypes, d
    <3>3. Cached(d) \subseteq Keys
      BY <1>1, <3>1 DEF CacheInv
    <3> QED BY <1>1, <2>2, <3>1, <3>2, <3>3 DEF CacheInv
  <2> QED BY <2>1, <2>2 DEF LoadLocally
<1>5. ClusterTypes'
  BY <1>1, <1>4 DEF ClusterTypes, Stages
<1>6. PlaceInv'
  BY <1>1, <1>2 DEF ClusterTypes, PlaceInv, FlightInv, FlightTypes
<1>7. CallerInv'
  BY <1>1 DEF ClusterTypes, CallerInv, Procs
<1>8. AnswersSource' /\ RingInv'
  BY <1>1 DEF ClusterTypes, AnswersSource, RingInv
<1>9. CacheInv'
  BY <1>4 DEF CacheInv, CachesSource
<1>10. OwnerInv'
  <2> SUFFICES ASSUME faults = 0 PROVE OwnerInv'
    BY <1>1 DEF OwnerInv
  <2>1. \A q \in Procs : stage'[q] = "local" => stage[q] = "local"
    BY <1>1 DEF ClusterTypes
  <2>2. NextPeer[k] = n \/ Wire[k] # k \/ Source[k] = Missing
    BY <1>1 DEF OwnerInv
  <2> QED BY <1>1, <1>4, <2>1, <2>2 DEF OwnerInv
<1> QED BY <1>3, <1>5, <1>6, <1>7, <1>8, <1>9, <1>10

LEMMA DoneStays == ASSUME CInv, NEW p \in Procs, Done(p) PROVE CInv'
<1> USE DEF CInv
<1>1. FlightInv'
  BY DoneKeeps DEF Done
<1>2. /\ pc[p] = "done" /\ pc' = [pc EXCEPT ![p] = "forget"] /\ arg' = arg
      /\ UNCHANGED <<cache, ring, at, stage, key, res, caller, faults>>
  BY DEF Done, SF!Done
<1>3. PlaceInv'
  BY <1>2 DEF PlaceInv, FlightInv, FlightTypes
<1> QED BY <1>1, <1>2, <1>3 DEF ClusterTypes, CallerInv, AnswersSource,
        CacheInv, CachesSource, OwnerInv, RingInv

(* What a call holds when its goroutine leaves Do is the source's value.   *)
LEMMA ReturnKeeps == ASSUME CInv, NEW p \in Procs, Return(p) PROVE CInv'
<1> USE DEF CInv
<1>1. /\ stage[p] = "wait" /\ stage' = [stage EXCEPT ![p] = "answer"]
      /\ res' = [res EXCEPT ![p] = val[ca[p]]]
      /\ UNCHANGED <<cache, ring, at, key, caller, faults>>
      /\ SF!Forget(p) \/ SF!Wake(p)
  BY DEF Return, Answer, Goto
<1>2. /\ pc[p] \in {"forget", "wait"} /\ (pc[p] = "wait" => wg[ca[p]] = 0)
      /\ pc' = [pc EXCEPT ![p] = "out"] /\ arg' = [arg EXCEPT ![p] = NoKey]
  BY <1>1 DEF SF!Forget, SF!Wake, SF!Leave
<1>3. FlightInv'
  BY <1>1, LeaveKeeps
<1>4. val[ca[p]] = Source[key[p]] /\ key[p] \in Keys
  <2>1. val[ca[p]] = Source[arg[p][2]]
    BY <1>2 DEF FlightInv, LeaderInv, WaiterInv
  <2>2. arg[p] = <<at[p], key[p]>> /\ key[p] \in Keys
    BY <1>1, <1>2 DEF PlaceInv
  <2> QED BY <2>1, <2>2
<1>5. ClusterTypes'
  BY <1>1, <1>4 DEF ClusterTypes, Stages, Answers
<1>6. PlaceInv'
  BY <1>1, <1>2 DEF ClusterTypes, PlaceInv, FlightInv, FlightTypes
<1>7. CallerInv'
  BY <1>1 DEF ClusterTypes, CallerInv, Procs
<1>8. AnswersSource'
  BY <1>1, <1>4 DEF ClusterTypes, AnswersSource
<1>9. CacheInv' /\ RingInv'
  BY <1>1 DEF CacheInv, CachesSource, RingInv
<1>10. OwnerInv'
  BY <1>1, StillKnown DEF ClusterTypes, Within
<1> QED BY <1>3, <1>5, <1>6, <1>7, <1>8, <1>9, <1>10

LEMMA FinishKeeps == ASSUME CInv, NEW p \in Procs, Finish(p) PROVE CInv'
<1> USE DEF CInv
<1>1. /\ p \in Clients /\ stage[p] = "answer" /\ stage' = [stage EXCEPT ![p] = "idle"]
      /\ key' = [key EXCEPT ![p] = NoKey] /\ res' = [res EXCEPT ![p] = NoResult]
      /\ UNCHANGED loaders /\ UNCHANGED <<pc, arg, cache, ring, at, caller, faults>>
  BY DEF Finish, Goto, loaders
<1>2. FlightInv'
  BY <1>1, FlightsStay
<1>3. ClusterTypes'
  BY <1>1 DEF ClusterTypes, Stages
<1>4. PlaceInv'
  BY <1>1 DEF ClusterTypes, PlaceInv
<1>5. CallerInv'
  <2>1. \A q \in Procs : q # p => stage'[q] = stage[q] /\ key'[q] = key[q]
    BY <1>1 DEF ClusterTypes
  <2>2. \A i \in Handlers : i # p
    BY <1>1, ProcAssumption
  <2>3. \A i \in Handlers : caller[i] # NoProc =>
          caller[i] # p /\ caller[i] \in Procs /\ i \in Procs
    BY <1>1 DEF ClusterTypes, CallerInv, Procs
  <2> QED BY <1>1, <2>1, <2>2, <2>3 DEF CallerInv
<1>6. AnswersSource' /\ CacheInv' /\ RingInv'
  BY <1>1 DEF ClusterTypes, AnswersSource, CacheInv, CachesSource, RingInv
<1>7. OwnerInv'
  <2>1. \A q \in Procs : stage'[q] = "local" =>
          stage[q] = "local" /\ at'[q] = at[q] /\ key'[q] = key[q]
    BY <1>1 DEF ClusterTypes
  <2> QED BY <1>1, <2>1, StillKnown DEF Within
<1> QED BY <1>2, <1>3, <1>4, <1>5, <1>6, <1>7

(* A value is the source's for the key that was asked for, an error means  *)
(* that the source has none under the key the URL carried.                 *)
LEMMA ReplyKeeps == ASSUME CInv, NEW h \in Procs, Reply(h) PROVE CInv'
<1> DEFINE p == caller[h]
<1> USE DEF CInv
<1>1. /\ h \in Handlers /\ stage[h] = "answer" /\ EndHandler(h)
      /\ UNCHANGED <<cache, ring, faults>>
  BY DEF Reply
<1>2. /\ key' = [key EXCEPT ![h] = NoKey] /\ res' = [res EXCEPT ![h] = NoResult]
      /\ at' = [at EXCEPT ![h] = NoNode] /\ caller' = [caller EXCEPT ![h] = NoProc]
      /\ h \notin Clients
  BY <1>1, ProcAssumption DEF EndHandler
<1>3. p # NoProc => /\ p \in Procs /\ p # h /\ stage[p] = "rpc" /\ pc[p] = "fn"
                    /\ key[p] \in Keys /\ arg[p] = <<at[p], key[p]>>
                    /\ key[h] = Wire[key[p]] /\ res[h] = Source[Wire[key[p]]]
  <2> SUFFICES ASSUME p # NoProc PROVE /\ p \in Procs /\ p # h /\ stage[p] = "rpc" /\ pc[p] = "fn"
                    /\ key[p] \in Keys /\ arg[p] = <<at[p], key[p]>>
                    /\ key[h] = Wire[key[p]] /\ res[h] = Source[Wire[key[p]]]
    OBVIOUS
  <2>1. p \in Procs /\ stage[p] = "rpc" /\ key[h] = Wire[key[p]]
    BY <1>1 DEF ClusterTypes, CallerInv
  <2>2. pc[p] = "fn" /\ key[p] \in Keys /\ arg[p] = <<at[p], key[p]>>
    BY <2>1 DEF PlaceInv
  <2> QED BY <1>1, <2>1, <2>2 DEF AnswersSource
<1>4. \A i \in Handlers : i # h /\ caller[i] # NoProc =>
        caller[i] # h /\ caller[i] # p /\ caller[i] \in Procs /\ i \in Procs
  BY <1>1 DEF ClusterTypes, CallerInv, Procs
<1>5. stage[h] \in {"idle", "do", "answer"} /\ pc[h] = "out"
  BY <1>1 DEF PlaceInv
<1> HIDE DEF p
(* Everything that does not depend on what becomes of the caller.          *)
<1>6. CacheInv' /\ RingInv'
  BY <1>1 DEF CacheInv, CachesSource, RingInv
<1>7. CASE p = NoProc /\ stage' = [stage EXCEPT ![h] = "idle"] /\ UNCHANGED loaders
  <2>1. UNCHANGED <<pc, arg>> /\ FlightInv'
    BY <1>7, FlightsStay DEF loaders
  <2>2. ClusterTypes'
    BY <1>1, <1>2, <1>7 DEF ClusterTypes, Stages
  <2>3. PlaceInv'
    BY <1>2, <1>5, <1>7, <2>1 DEF ClusterTypes, PlaceInv
  <2>4. CallerInv'
    BY <1>2, <1>4, <1>7 DEF ClusterTypes, CallerInv
  <2>5. AnswersSource'
    BY <1>2, <1>7 DEF ClusterTypes, AnswersSource
  <2>6. OwnerInv'
    BY <1>1, <1>2, <1>7, StillKnown DEF ClusterTypes, Within
  <2> QED BY <1>6, <2>1, <2>2, <2>3, <2>4, <2>5, <2>6
<1>8. CASE /\ p # NoProc /\ res[h] # Missing /\ SF!FnReturn(p, res[h])
           /\ stage' = [stage EXCEPT ![p] = "wait", ![h] = "idle"]
  <2>1. res[h] = Source[arg[p][2]]
    BY <1>3, <1>8, WireAssumption
  <2>2. FlightInv' /\ pc' = [pc EXCEPT ![p] = "done"] /\ arg' = arg
    BY <1>3, <1>8, <2>1, FnReturnKeeps DEF SF!FnReturn
  <2>3. ClusterTypes'
    BY <1>1, <1>2, <1>8 DEF ClusterTypes, Stages
  <2>4. PlaceInv'
    BY <1>2, <1>3, <1>5, <1>8, <2>2 DEF ClusterTypes, PlaceInv, FlightInv, FlightTypes
  <2>5. CallerInv'
    BY <1>2, <1>4, <1>8 DEF ClusterTypes, CallerInv
  <2>6. AnswersSource'
    BY <1>2, <1>8 DEF ClusterTypes, AnswersSource
  <2>7. OwnerInv'
    <3>1. \A q \in Procs : stage'[q] = "local" =>
            stage[q] = "local" /\ at'[q] = at[q] /\ key'[q] = key[q]
      BY <1>2, <1>8 DEF ClusterTypes
    <3> QED BY <1>1, <3>1, StillKnown DEF Within
  <2> QED BY <1>6, <2>2, <2>3, <2>4, <2>5, <2>6, <2>7
<1>9. CASE /\ p # NoProc /\ res[h] = Missing /\ UNCHANGED loaders
           /\ stage' = [stage EXCEPT ![p] = "local", ![h] = "idle"]
  <2>1. UNCHANGED <<pc, arg>> /\ FlightInv'
    BY <1>9, FlightsStay DEF loaders
  <2>2. Wire[key[p]] # key[p] \/ Source[key[p]] = Missing
    BY <1>3, <1>9
  <2>3. ClusterTypes'
    BY <1>1, <1>2, <1>9 DEF ClusterTypes, Stages
  <2>4. PlaceInv'
    BY <1>2, <1>3, <1>5, <1>9, <2>1 DEF ClusterTypes, PlaceInv
  <2>5. CallerInv'
    BY <1>2, <1>4, <1>9 DEF ClusterTypes, CallerInv
  <2>6. AnswersSource'
    BY <1>2, <1>9 DEF ClusterTypes, AnswersSource
  <2>7. OwnerInv'
    <3>1. \A q \in Procs : stage'[q] = "local" =>
            /\ q = p \/ stage[q] = "local"
            /\ at'[q] = at[q] /\ key'[q] = key[q]
      BY <1>2, <1>9 DEF ClusterTypes
    <3> QED BY <1>1, <2>2, <3>1 DEF OwnerInv
  <2> QED BY <1>6, <2>1, <2>3, <2>4, <2>5, <2>6, <2>7
<1> QED BY <1>7, <1>8, <1>9 DEF Reply, Goto, p

LEMMA CrashKeeps == ASSUME CInv, NEW n \in Nodes, Crash(n) PROVE CInv'
<1> DEFINE dead(p) == at[p] = n
           orphan(p) == \E h \in Handlers : dead(h) /\ caller[h] = p
<1> USE DEF CInv
<1>1. /\ pc' = [p \in Procs |-> IF dead(p) THEN "out" ELSE pc[p]]
      /\ arg' = [p \in Procs |-> IF dead(p) THEN NoKey ELSE arg[p]]
      /\ stage' = [p \in Procs |-> IF dead(p) THEN "idle"
                                   ELSE IF orphan(p) THEN "local" ELSE stage[p]]
      /\ key' = [p \in Procs |-> IF dead(p) THEN NoKey ELSE key[p]]
      /\ res' = [p \in Procs |-> IF dead(p) THEN NoResult ELSE res[p]]
      /\ at' = [p \in Procs |-> IF dead(p) /\ p \in Handlers THEN NoNode ELSE at[p]]
      /\ caller' = [h \in Handlers |->
                      IF dead(h) \/ (caller[h] # NoProc /\ dead(caller[h]))
                      THEN NoProc ELSE caller[h]]
  BY DEF Crash
<1>2. /\ ring' = [ring EXCEPT ![n] = EmptyRing] /\ cache' = [cache EXCEPT ![n] = EmptyLru]
      /\ faults' = faults + 1
  BY DEF Crash
<1>3. \A p \in Procs : orphan(p) => stage[p] = "rpc"
  BY ProcAssumption DEF CallerInv, Procs
<1>4. FlightInv'
  BY CrashKeepsFlights DEF PlaceInv
<1>5. ClusterTypes'
  BY <1>1, <1>2 DEF ClusterTypes, Stages
<1>6. PlaceInv'
  BY <1>1, <1>3, ProcAssumption DEF ClusterTypes, PlaceInv
<1>7. CallerInv'
  <2> SUFFICES ASSUME NEW h \in Handlers, caller'[h] # NoProc
               PROVE  /\ stage'[h] # "idle" /\ stage'[caller'[h]] = "rpc"
                      /\ key'[h] = Wire[key'[caller'[h]]]
                      /\ \A i \in Handlers : caller'[h] = caller'[i] => h = i
    BY DEF CallerInv
  <2>1. /\ caller'[h] = caller[h] /\ ~ dead(h) /\ ~ dead(caller[h])
        /\ caller[h] \in Procs /\ h \in Procs
    BY <1>1 DEF ClusterTypes, Procs
  <2>2. ~ orphan(caller[h])
    BY <2>1 DEF CallerInv
  <2>3. /\ stage[h] # "idle" /\ stage[caller[h]] = "rpc"
        /\ key[h] = Wire[key[caller[h]]]
    BY <2>1 DEF CallerInv
  <2>4. \A i \in Handlers : caller'[h] = caller'[i] => caller[i] = caller[h]
    BY <1>1, <2>1
  <2>5. stage'[h] # "idle" /\ key'[h] = key[h]
    BY <1>1, <2>1, <2>3
  <2>6. stage'[caller[h]] = "rpc" /\ key'[caller[h]] = key[caller[h]]
    BY <1>1, <2>1, <2>2, <2>3
  <2> QED BY <2>1, <2>3, <2>4, <2>5, <2>6 DEF CallerInv
<1>8. AnswersSource'
  BY <1>1 DEF AnswersSource
<1>9. CacheInv'
  BY <1>2, EmptyIsLru DEF ClusterTypes, CacheInv, CachesSource
<1>10. OwnerInv' /\ RingInv'
  BY <1>2 DEF ClusterTypes, OwnerInv, RingInv
<1> QED BY <1>4, <1>5, <1>6, <1>7, <1>8, <1>9, <1>10

(* Each action keeps the invariant.                                        *)
LEMMA NextKeeps == ASSUME CInv, [Next]_vars PROVE CInv'
<1>1. CASE UNCHANGED vars
  BY <1>1, StutterKeeps
<1>2. CASE \E n \in Nodes : Register(n) \/ Crash(n)
  BY <1>2, RegisterKeeps, CrashKeeps
<1>3. CASE \E p \in Clients : \E k \in ClientKeys[p] : Ask(p, k)
  BY <1>3, AskKeeps, KeyAssumption
<1>4. CASE \E p \in Procs : Step(p) \/ NetworkError(p)
  <2> PICK p \in Procs : Step(p) \/ NetworkError(p)
    BY <1>4
  <2> QED BY DoKeeps, PickPeerKeeps, RequestKeeps, RefusedKeeps, LoadLocallyKeeps,
          DoneStays, ReturnKeeps, FinishKeeps, ReplyKeeps, NetworkErrorKeeps DEF Step
<1> QED BY <1>1, <1>2, <1>3, <1>4 DEF Next

-----------------------------------------------------------------------------
(* The invariant of the cluster: the flights and their leaders, where each *)
(* Get of geecache.go is in Do and in fn, which handler works for whom,    *)
(* what answers and caches hold, and whose entries they are.               *)
THEOREM Invariance == Spec => []CInv
<1>1. Init => CInv
  BY CInit
<1>2. CInv /\ [Next]_vars => CInv'
  BY NextKeeps
<1> QED BY <1>1, <1>2, PTL DEF Spec

(* However many nodes, goroutines and keys there are, every Get answers    *)
(* and every cache holds what the data source has for the key, by whatever *)
(* way of geecache.go:13-19 it came, flights shared, networks failing and  *)
(* nodes crashing.                                                         *)
THEOREM Values == Spec => []OnlySourceValues
<1>1. CInv => OnlySourceValues
  BY DEF CInv, CacheInv, OnlySourceValues
<1> QED BY <1>1, Invariance, PTL

(* In a cluster of any size that is up and saw no failure, a key is cached *)
(* by its owner alone (geecache.go:130-133), unless the URL changes it.    *)
THEOREM Owners == Spec => []OnlyOwnerCaches
<1>1. CInv => OnlyOwnerCaches
  <2> SUFFICES ASSUME CInv, faults = 0, NEW n \in Nodes, NEW k \in Cached(cache[n])
               PROVE  Owner(n, k) = n \/ Wire[k] # k
    BY DEF OnlyOwnerCaches
  <2>1. k \in Keys /\ (NextPeer[k] = n \/ Wire[k] # k)
    BY DEF CInv, CacheInv, OwnerInv
  <2> QED BY <2>1, AllServe
<1> QED BY <1>1, Invariance, PTL

(* Sorting the hashes and searching them (consistenthash.go:55-86) finds   *)
(* the peer next to the key on the circle, for any hash function without   *)
(* collisions, any number of virtual nodes and any order of the addresses. *)
THEOREM OwnersAreNext == Spec => []OwnerIsNext
<1>1. CInv => OwnerIsNext
  BY OwnerIsNode, RingAssumption DEF CInv, OwnerIsNext
<1> QED BY <1>1, Invariance, PTL

(* Between crashes, the loaders of all nodes together run as one           *)
(* SingleFlight whose keys are the pairs of a node and a key: whatever the *)
(* cluster does of geecache.go:100-133, it takes a step of Group.Do or     *)
(* leaves the flights alone.                                               *)
THEOREM FlightsShared ==
  Spec => SF!Init /\ [][SF!Next \/ \E n \in Nodes : Crash(n)]_loaders
<1>1. Init => SF!Init
  BY DEF Init
<1>2. ASSUME CInv, [Next]_vars
      PROVE  [SF!Next \/ \E n \in Nodes : Crash(n)]_loaders
  <2> SUFFICES SF!Next \/ (\E n \in Nodes : Crash(n)) \/ UNCHANGED loaders
    OBVIOUS
  <2> DEFINE Sources == [f \in Flights |-> Answers]
  <2>1. UNION {Sources[f] : f \in Flights} = SF!Results
    BY DEF SF!Results, Flights, Answers
  <2>2. ASSUME NEW p \in Procs, NEW r, SF!FnReturn(p, r)
        PROVE  SF!Next
    <3>1. pc[p] = "fn"
      BY <2>2 DEF SF!FnReturn
    <3>2. arg[p] \in Flights
      BY <1>2, <3>1 DEF CInv, FlightInv, HoldsCall
    <3>3. r \in Sources[arg[p]]
      BY <2>2, <3>2 DEF SF!FnReturn, Flights, Answers
    <3>4. r \in SF!Results
      BY <2>1, <3>2, <3>3
    <3> QED BY <2>2, <3>4 DEF SF!Next
  <2>3. CASE UNCHANGED vars
    BY <2>3 DEF vars
  <2>4. CASE \E n \in Nodes : Register(n) \/ Crash(n)
    BY <2>4 DEF Register
  <2>5. CASE \E p \in Clients : \E k \in ClientKeys[p] : Ask(p, k)
    BY <2>5 DEF Ask
  <2>6. ASSUME NEW p \in Procs, Step(p) \/ NetworkError(p)
        PROVE  SF!Next \/ UNCHANGED loaders
    <3>1. CASE Do(p)
      <4>1. <<at[p], key[p]>> \in Nodes \X Keys
        BY <1>2, <3>1 DEF Do, CInv, PlaceInv
      <4> QED BY <3>1, <4>1 DEF Do, SF!Next
    <3>2. CASE PickPeer(p) \/ Refused(p) \/ NetworkError(p) \/ Finish(p)
      BY <3>2 DEF PickPeer, Refused, NetworkError, Finish
    <3>3. CASE \E h \in Handlers : Request(p, h)
      BY <3>3 DEF Request
    <3>4. CASE LoadLocally(p)
      BY <2>2, <3>4 DEF LoadLocally
    <3>5. CASE Done(p)
      BY <3>5 DEF Done, SF!Next
    <3>6. CASE Return(p)
      BY <3>6 DEF Return, SF!Next
    <3>7. CASE Reply(p)
      <4>1. UNCHANGED loaders \/ (caller[p] # NoProc /\ SF!FnReturn(caller[p], res[p]))
        BY <3>7 DEF Reply
      <4>2. caller[p] # NoProc => caller[p] \in Procs
        BY <1>2, <3>7 DEF CInv, ClusterTypes, Reply
      <4> QED BY <2>2, <4>1, <4>2
    <3> QED BY <2>6, <3>1, <3>2, <3>3, <3>4, <3>5, <3>6, <3>7 DEF Step
  <2> QED BY <1>2, <2>3, <2>4, <2>5, <2>6 DEF Next
<1> QED BY <1>1, <1>2, Invariance, PTL DEF Spec

-----------------------------------------------------------------------------
(* One LRU cache, of any keys and values: list, map and bytes.             *)

(* f[i] is the size of the first i entries of the list.                    *)
Counts(f, c) ==
  /\ f \in [0..Len(c.list) -> Nat]
  /\ f[0] = 0
  /\ \A i \in 1..Len(c.list) : f[i] = f[i - 1] + Size(c.list[i], c.cache[c.list[i]])

Whole(c) ==
  /\ c = [list |-> c.list, cache |-> c.cache, used |-> c.used, calls |-> c.calls]
  /\ c.list \in Seq(LruKeys)
  /\ \A i, j \in 1..Len(c.list) : c.list[i] = c.list[j] => i = j
  /\ Cached(c) = {c.list[i] : i \in 1..Len(c.list)}
  /\ \A k \in Cached(c) : c.cache[k] \in LruValues
  /\ \E f : Counts(f, c) /\ c.used = f[Len(c.list)]

LEMMA ListOf ==
  ASSUME NEW c, Whole(c)
  PROVE  /\ Len(c.list) \in Nat /\ DOMAIN c.list = 1..Len(c.list)
         /\ c.used \in Nat
         /\ \A i \in 1..Len(c.list) :
              /\ c.list[i] \in LruKeys /\ c.list[i] \in Cached(c)
              /\ Size(c.list[i], c.cache[c.list[i]]) \in Nat
<1>1. Len(c.list) \in Nat /\ DOMAIN c.list = 1..Len(c.list)
      /\ \A i \in 1..Len(c.list) : c.list[i] \in LruKeys
  BY LenProperties, ElementOfSeq DEF Whole
<1>2. \A i \in 1..Len(c.list) : c.list[i] \in Cached(c) /\ c.cache[c.list[i]] \in LruValues
  BY DEF Whole
<1>3. \A i \in 1..Len(c.list) : Size(c.list[i], c.cache[c.list[i]]) \in Nat
  BY <1>1, <1>2, SizeAssumption DEF Size
<1>4. c.used \in Nat
  BY <1>1 DEF Whole, Counts
<1> QED BY <1>1, <1>2, <1>3, <1>4

LEMMA EmptyIsWhole == Whole(EmptyLru) /\ Len(EmptyLru.list) = 0
<1>1. Counts([i \in 0..0 |-> 0], EmptyLru)
  BY DEF Counts, EmptyLru
<1>2. EmptyLru.used = [i \in 0..0 |-> 0][0] /\ Len(EmptyLru.list) = 0
  BY DEF EmptyLru
<1> QED BY <1>1, <1>2 DEF Whole, EmptyLru, Cached

(* What is left of d when only the first n entries stay; the others went   *)
(* to the callback, the last one first.                                    *)
Gone(d, n) == [j \in 1..Len(d.list) - n |->
                 <<d.list[Len(d.list) + 1 - j], d.cache[d.list[Len(d.list) + 1 - j]]>>]

Left(e, d, n) ==
  /\ n \in 0..Len(d.list)
  /\ Len(e.list) = n
  /\ \A i \in 1..n : e.list[i] = d.list[i]
  /\ \A k \in Cached(e) : e.cache[k] = d.cache[k]
  /\ e.calls = IF HasCallback THEN Gone(d, n) ELSE << >>

LEMMA AllIsLeft ==
  ASSUME NEW d, Whole(d), d.calls = << >>
  PROVE  Left(d, d, Len(d.list))
<1>1. Len(d.list) \in Nat
  BY ListOf
<1>2. Gone(d, Len(d.list)) = << >>
  BY <1>1 DEF Gone
<1> QED BY <1>1, <1>2 DEF Left

LEMMA RemoveLeaves ==
  ASSUME NEW d, Whole(d), NEW e, Whole(e), NEW n \in Nat \ {0}, Left(e, d, n)
  PROVE  /\ Whole(LruRemoveOldest(e)) /\ Left(LruRemoveOldest(e), d, n - 1)
         /\ e.used = LruRemoveOldest(e).used + Size(d.list[n], d.cache[d.list[n]])
<1> DEFINE L == Len(d.list)
           k == e.list[n]
           r == LruRemoveOldest(e)
<1>1. /\ L \in Nat /\ n \in 1..L /\ Len(e.list) = n /\ DOMAIN e.list = 1..n
      /\ e.list \in Seq(LruKeys) /\ e.list # << >>
      /\ \A i \in 1..n : e.list[i] \in LruKeys /\ e.list[i] = d.list[i]
  BY ListOf DEF Left, Whole
<1>2. /\ Last(e.list) = k
      /\ Front(e.list) \in Seq(LruKeys) /\ Len(Front(e.list)) = n - 1
      /\ \A i \in 1..n - 1 : Front(e.list)[i] = e.list[i]
  BY <1>1, SubSeqProperties DEF Front, Last
<1>3. /\ r = [list |-> r.list, cache |-> r.cache, used |-> r.used, calls |-> r.calls]
      /\ r.list = Front(e.list)
      /\ r.cache = [j \in Cached(e) \ {k} |-> e.cache[j]]
      /\ r.used = e.used - (ValueLen(e.cache[k]) + KeyLen(k))
      /\ r.calls = IF HasCallback THEN Append(e.calls, <<k, e.cache[k]>>) ELSE e.calls
  BY <1>1, <1>2 DEF LruRemoveOldest
<1> HIDE DEF r
<1>4. /\ k \in Cached(e) /\ k = d.list[n] /\ e.cache[k] = d.cache[k]
      /\ Size(k, e.cache[k]) \in Nat /\ KeyLen(k) \in Nat /\ ValueLen(e.cache[k]) \in Nat
  BY <1>1, SizeAssumption DEF Whole, Left, Size
<1>5. \A i, j \in 1..n : e.list[i] = e.list[j] => i = j
  BY <1>1 DEF Whole
<1>6. Cached(r) = {r.list[i] : i \in 1..n - 1}
  <2>1. Cached(e) = {e.list[i] : i \in 1..n}
    BY <1>1 DEF Whole
  <2>2. Cached(r) = Cached(e) \ {k}
    BY <1>3 DEF Cached
  <2>3. \A i \in 1..n - 1 : i \in 1..n /\ i # n /\ r.list[i] = e.list[i]
    BY <1>1, <1>2, <1>3
  <2>4. \A i \in 1..n : i # n => i \in 1..n - 1
    BY <1>1
  <2>5. \A i \in 1..n - 1 : e.list[i] # k
    BY <1>1, <1>5, <2>3
  <2> QED BY <2>1, <2>2, <2>3, <2>4, <2>5
<1>7. \A j \in Cached(r) : r.cache[j] = e.cache[j] /\ j \in Cached(e)
  BY <1>3 DEF Cached
<1>8. /\ \E f : Counts(f, r) /\ r.used = f[n - 1]
      /\ e.used = r.used + Size(k, e.cache[k])
  <2>1. PICK f : Counts(f, e) /\ e.used = f[n]
    BY <1>1 DEF Whole
  <2> DEFINE g == [i \in 0..n - 1 |-> f[i]]
  <2>2. /\ f \in [0..n -> Nat] /\ f[0] = 0
        /\ \A i \in 1..n : f[i] = f[i - 1] + Size(e.list[i], e.cache[e.list[i]])
    BY <1>1, <2>1 DEF Counts
  <2>3. \A i \in 1..n - 1 : r.list[i] = e.list[i] /\ r.cache[r.list[i]] = e.cache[e.list[i]]
    BY <1>2, <1>3, <1>6, <1>7
  <2>4. Counts(g, r)
    <3>1. Len(r.list) = n - 1 /\ n - 1 \in Nat
      BY <1>2, <1>3
    <3>2. g \in [0..n - 1 -> Nat] /\ g[0] = 0
      BY <2>2
    <3>3. ASSUME NEW i \in 1..n - 1
          PROVE  g[i] = g[i - 1] + Size(r.list[i], r.cache[r.list[i]])
      <4>1. i \in 1..n /\ i \in 0..n - 1 /\ i - 1 \in 0..n - 1
        BY <3>1
      <4> QED BY <2>2, <2>3, <4>1
    <3> HIDE DEF g
    <3> QED BY <3>1, <3>2, <3>3 DEF Counts
  <2>5. n \in 1..n /\ n - 1 \in 0..n - 1
    BY <1>1
  <2>6. f[n] = f[n - 1] + Size(k, e.cache[k]) /\ g[n - 1] = f[n - 1] /\ f[n - 1] \in Nat
    BY <2>2, <2>5
  <2>7. r.used = e.used - Size(k, e.cache[k])
    BY <1>3, <1>4 DEF Size
  <2>8. r.used = g[n - 1] /\ e.used = r.used + Size(k, e.cache[k])
    BY <1>4, <2>1, <2>6, <2>7
  <2> QED BY <2>4, <2>8
<1>9. Whole(r)
  <2>1. \A i, j \in 1..n - 1 : r.list[i] = r.list[j] => i = j
    BY <1>2, <1>3, <1>5
  <2>2. \A j \in Cached(r) : r.cache[j] \in LruValues
    BY <1>7 DEF Whole
  <2>3. r.list \in Seq(LruKeys) /\ Len(r.list) = n - 1
    BY <1>2, <1>3
  <2> QED BY <1>3, <1>6, <1>8, <2>1, <2>2, <2>3 DEF Whole
<1>10. HasCallback => r.calls = Gone(d, n - 1)
  <2> SUFFICES ASSUME HasCallback PROVE r.calls = Gone(d, n - 1)
    OBVIOUS
  <2>1. e.calls = Gone(d, n) /\ r.calls = Append(e.calls, <<k, d.cache[k]>>)
    BY <1>3, <1>4 DEF Left
  <2>2. L - n \in Nat /\ L - (n - 1) = (L - n) + 1 /\ L + 1 - ((L - n) + 1) = n
    BY <1>1
  <2>6. ASSUME NEW j \in 1..L - n
        PROVE  /\ d.list[L + 1 - j] \in LruKeys
               /\ d.cache[d.list[L + 1 - j]] \in LruValues
    <3>1. L + 1 - j \in 1..L
      BY <1>1
    <3> QED BY <3>1, ListOf DEF Whole
  <2>3. Gone(d, n) \in Seq(LruKeys \X LruValues) /\ Len(Gone(d, n)) = L - n
    <3>1. Gone(d, n) \in [1..L - n -> LruKeys \X LruValues]
      BY <2>6 DEF Gone
    <3> QED BY <2>2, <3>1, IsASeq, LenProperties
  <2>4. r.calls = [j \in 1..(L - n) + 1 |-> IF j = (L - n) + 1 THEN <<k, d.cache[k]>> ELSE Gone(d, n)[j]]
    BY <2>1, <2>2, <2>3
  <2>5. \A j \in 1..(L - n) + 1 :
          (IF j = (L - n) + 1 THEN <<k, d.cache[k]>> ELSE Gone(d, n)[j])
            = <<d.list[L + 1 - j], d.cache[d.list[L + 1 - j]]>>
    <3> SUFFICES ASSUME NEW j \in 1..(L - n) + 1
                 PROVE  (IF j = (L - n) + 1 THEN <<k, d.cache[k]>> ELSE Gone(d, n)[j])
                          = <<d.list[L + 1 - j], d.cache[d.list[L + 1 - j]]>>
      OBVIOUS
    <3>1. CASE j = (L - n) + 1
      BY <1>4, <2>2, <3>1
    <3>2. CASE j # (L - n) + 1
      <4>1. j \in 1..L - n
        BY <2>2, <3>2
      <4> QED BY <3>2, <4>1 DEF Gone
    <3> QED BY <3>1, <3>2
  <2> QED BY <2>2, <2>4, <2>5 DEF Gone
<1>11. Left(r, d, n - 1)
  <2>1. n - 1 \in 0..L /\ Len(r.list) = n - 1
    BY <1>1, <1>2, <1>3
  <2>2. \A i \in 1..n - 1 : r.list[i] = d.list[i]
    BY <1>1, <1>2, <1>3
  <2>3. \A j \in Cached(r) : r.cache[j] = d.cache[j]
    BY <1>7 DEF Left
  <2>4. ~ HasCallback => r.calls = << >>
    BY <1>3 DEF Left
  <2> QED BY <1>10, <2>1, <2>2, <2>3, <2>4 DEF Left
<1> QED BY <1>4, <1>8, <1>9, <1>11 DEF r

(* Set's loop drops entries from the back until the rest fits, and no more. *)
Trimmed(e, d, n) ==
  /\ Whole(e) /\ Left(e, d, n)
  /\ n < Len(d.list) => e.used + Size(d.list[n + 1], d.cache[d.list[n + 1]]) > MaxBytes

LEMMA TrimOnce ==
  ASSUME NEW d, Whole(d), NEW e, NEW n, Trimmed(e, d, n)
  PROVE  IF TooBig(e) THEN n # 0 /\ Trimmed(Smaller(e), d, n - 1)
         ELSE Trimmed(Smaller(e), d, n)
<1>1. CASE ~ TooBig(e)
  BY <1>1 DEF Smaller
<1>2. CASE TooBig(e)
  <2>1. n \in 0..Len(d.list) /\ Len(d.list) \in Nat /\ Len(e.list) = n
    BY ListOf DEF Trimmed, Left
  <2>2. n # 0
    <3> SUFFICES ASSUME n = 0 PROVE FALSE
      OBVIOUS
    <3>1. e.used = 0
      BY <2>1 DEF Trimmed, Whole, Counts
    <3> QED BY <1>2, <3>1, LruAssumption DEF TooBig
  <2> DEFINE r == LruRemoveOldest(e)
  <2>3. /\ Whole(r) /\ Left(r, d, n - 1)
        /\ e.used = r.used + Size(d.list[n], d.cache[d.list[n]])
    BY <2>1, <2>2, RemoveLeaves DEF Trimmed
  <2> HIDE DEF r
  <2>4. n - 1 < Len(d.list) => r.used + Size(d.list[(n - 1) + 1], d.cache[d.list[(n - 1) + 1]]) > MaxBytes
    <3>1. (n - 1) + 1 = n
      BY <2>1
    <3>2. e.used > MaxBytes
      <4>1. e.used \in Nat
        BY ListOf DEF Trimmed
      <4> QED BY <1>2, <4>1, LruAssumption DEF TooBig
    <3> QED BY <2>3, <3>1, <3>2
  <2> QED BY <1>2, <2>2, <2>3, <2>4 DEF Trimmed, Smaller, r
<1> QED BY <1>1, <1>2

LEMMA ShrinkTrims ==
  ASSUME NEW d, Whole(d), d.calls = << >>
  PROVE  \E n : Trimmed(Shrink(d), d, n) /\ ~ TooBig(Shrink(d))
<1> DEFINE L == Len(d.list)
           Def(g) == [i \in 0..L |-> IF i = 0 THEN d ELSE Smaller(g[i - 1])]
           round == CHOOSE g : g = Def(g)
<1>1. L \in Nat
  BY ListOf
<1>2. Shrink(d) = round[L]
  BY DEF Shrink, Smaller
<1>3. round = Def(round)
  <2>1. PICK g : g = Def(g)
    BY <1>1, RoundsEnd DEF Rounds
  <2> HIDE DEF Def
  <2> QED BY <2>1
<1> HIDE DEF round, L
<1> DEFINE Good(i) == \E n : Trimmed(round[i], d, n) /\ (TooBig(round[i]) => n = L - i)
           T == {i \in 0..L : ~ Good(i)}
<1>4. T = {}
  <2> SUFFICES ASSUME T # {} PROVE FALSE
    OBVIOUS
  <2>1. T \subseteq Nat
    OBVIOUS
  <2>2. PICK i \in T : \A j \in T : i <= j
    <3> HIDE DEF T
    <3> QED BY <2>1, Least
  <2>3. CASE i = 0
    <3>1. round[0] = d
      BY <1>1, <1>3
    <3>2. Trimmed(d, d, L)
      BY <1>1, AllIsLeft DEF Trimmed, L
    <3>3. L = L - 0
      BY <1>1
    <3>4. Good(0)
      BY <3>1, <3>2, <3>3
    <3> QED BY <2>2, <2>3, <3>4
  <2>4. CASE i # 0
    <3>1. i - 1 \in 0..L /\ i \in 0..L /\ i - 1 \notin T
      BY <1>1, <2>2, <2>4
    <3>2. Good(i - 1)
      BY <3>1
    <3> DEFINE e == round[i - 1]
    <3>3. round[i] = Smaller(e)
      BY <1>3, <2>4, <3>1
    <3>4. PICK n : Trimmed(e, d, n) /\ (TooBig(e) => n = L - (i - 1))
      BY <3>2
    <3> HIDE DEF e
    <3>5. IF TooBig(e) THEN n # 0 /\ Trimmed(Smaller(e), d, n - 1)
          ELSE Trimmed(Smaller(e), d, n)
      BY <3>4, TrimOnce
    <3>6. CASE TooBig(e)
      <4>1. n - 1 = L - i
        BY <1>1, <3>1, <3>4, <3>6
      <4> QED BY <2>2, <3>3, <3>5, <3>6, <4>1
    <3>7. CASE ~ TooBig(e)
      <4>1. Smaller(e) = e
        BY <3>7 DEF Smaller
      <4> QED BY <2>2, <3>3, <3>5, <3>7, <4>1
    <3> QED BY <3>6, <3>7
  <2> QED BY <2>3, <2>4
<1>5. PICK n : Trimmed(round[L], d, n) /\ (TooBig(round[L]) => n = L - L)
  <2>1. L \in 0..L
    BY <1>1
  <2>2. Good(L)
    BY <1>4, <2>1
  <2> QED BY <2>2
<1>6. ~ TooBig(round[L])
  <2> SUFFICES ASSUME TooBig(round[L]) PROVE FALSE
    OBVIOUS
  <2>1. n = 0
    BY <1>1, <1>5
  <2>2. IF TooBig(round[L]) THEN n # 0 /\ Trimmed(Smaller(round[L]), d, n - 1)
        ELSE Trimmed(Smaller(round[L]), d, n)
    BY <1>5, TrimOnce
  <2> QED BY <2>1, <2>2
<1> QED BY <1>2, <1>5, <1>6

(* A found key goes to the front; the bytes stay the same.                 *)
LEMMA GetMoves ==
  ASSUME NEW c, Whole(c), NEW k \in Cached(c)
  PROVE  \E i \in 1..Len(c.list) :
           LET d == LruGet(c, k)
           IN /\ Whole(d) /\ d.cache = c.cache /\ d.calls = c.calls /\ d.used = c.used
              /\ c.list[i] = k /\ Len(d.list) = Len(c.list)
              /\ \A j \in 1..Len(c.list) :
                   d.list[j] = IF j = 1 THEN k ELSE IF j <= i THEN c.list[j - 1] ELSE c.list[j]
<1> DEFINE L == Len(c.list)
           i == CHOOSE i \in DOMAIN c.list : c.list[i] = k
           d == LruGet(c, k)
           S(j) == Size(c.list[j], c.cache[c.list[j]])
<1>1. /\ L \in Nat /\ DOMAIN c.list = 1..L
      /\ \A j \in 1..L : c.list[j] \in LruKeys /\ S(j) \in Nat
  BY ListOf
<1>2. i \in 1..L /\ c.list[i] = k
  BY <1>1 DEF Whole
<1>3. /\ d = [list |-> MoveToFront(c.list, k), cache |-> c.cache,
              used |-> c.used, calls |-> c.calls]
      /\ MoveToFront(c.list, k)
           = [j \in 1..L |-> IF j = 1 THEN k ELSE IF j <= i THEN c.list[j - 1] ELSE c.list[j]]
  BY <1>1 DEF LruGet, MoveToFront, Whole
<1> HIDE DEF i, d
<1>4. \A j \in 1..L : d.list[j] = IF j = 1 THEN k ELSE IF j <= i THEN c.list[j - 1] ELSE c.list[j]
  BY <1>3
<1> DEFINE from(j) == IF j = 1 THEN i ELSE IF j <= i THEN j - 1 ELSE j
<1>7. \A j \in 1..L : from(j) \in 1..L /\ d.list[j] = c.list[from(j)]
  BY <1>1, <1>2, <1>4
<1>5. \A j \in 1..L : d.list[j] \in LruKeys
  <2> HIDE DEF from
  <2> QED BY <1>1, <1>7
<1>6. d.list \in Seq(LruKeys) /\ Len(d.list) = L
  <2>1. d.list \in [1..L -> LruKeys]
    BY <1>3, <1>5
  <2> QED BY <1>1, <2>1, IsASeq, LenProperties
<1>8. \A a, b \in 1..L : d.list[a] = d.list[b] => a = b
  <2> SUFFICES ASSUME NEW a \in 1..L, NEW b \in 1..L, d.list[a] = d.list[b] PROVE a = b
    OBVIOUS
  <2>1. from(a) = from(b)
    BY <1>7 DEF Whole
  <2> QED BY <1>1, <1>2, <2>1
<1>9. Cached(d) = {d.list[j] : j \in 1..L}
  <2>1. Cached(d) = {c.list[j] : j \in 1..L}
    BY <1>3 DEF Whole, Cached
  <2>2. \A j \in 1..L : \E a \in 1..L : from(a) = j
    <3> SUFFICES ASSUME NEW j \in 1..L PROVE \E a \in 1..L : from(a) = j
      OBVIOUS
    <3>1. CASE j = i
      BY <1>2, <3>1
    <3>2. CASE j < i
      <4>1. j + 1 \in 1..L /\ from(j + 1) = j
        BY <1>1, <1>2, <3>2
      <4> QED BY <4>1
    <3>3. CASE j > i
      <4>1. from(j) = j
        BY <1>1, <1>2, <3>3
      <4> QED BY <4>1
    <3> QED BY <1>1, <1>2, <3>1, <3>2, <3>3
  <2> HIDE DEF from
  <2>3. \A j \in 1..L : \E a \in 1..L : d.list[a] = c.list[j]
    BY <1>7, <2>2
  <2>4. \A j \in 1..L : \E a \in 1..L : c.list[a] = d.list[j]
    BY <1>7
  <2>5. ASSUME NEW x \in Cached(d) PROVE \E a \in 1..L : x = d.list[a]
    BY <2>1, <2>3
  <2>6. ASSUME NEW a \in 1..L PROVE d.list[a] \in Cached(d)
    BY <2>1, <2>4
  <2> QED BY <2>5, <2>6
<1>10. \E f : Counts(f, d) /\ d.used = f[L]
  <2>1. PICK f : Counts(f, c) /\ c.used = f[L]
    BY DEF Whole
  <2>2. /\ f \in [0..L -> Nat] /\ f[0] = 0
        /\ \A j \in 1..L : f[j] = f[j - 1] + S(j) /\ f[j] \in Nat /\ f[j - 1] \in Nat
    BY <1>1, <2>1 DEF Counts
  <2> DEFINE g == [j \in 0..L |-> IF j = 0 THEN 0
                                  ELSE IF j < i THEN S(i) + f[j - 1] ELSE f[j]]
  <2>3. \A j \in 1..L : Size(d.list[j], d.cache[d.list[j]]) = S(from(j))
    BY <1>3, <1>7
  <2> HIDE DEF S
  <2>4. ASSUME NEW j \in 1..L PROVE g[j] = g[j - 1] + S(from(j)) /\ g[j] \in Nat
    <3>1. j - 1 \in 0..L /\ j \in 0..L /\ S(i) \in Nat
      BY <1>1, <1>2
    <3>2. CASE j = 1
      <4>1. g[0] = 0 /\ g[1] = IF 1 < i THEN S(i) + f[0] ELSE f[1]
        BY <3>1, <3>2
      <4> QED BY <1>1, <1>2, <2>2, <3>1, <3>2, <4>1
    <3>3. CASE j # 1 /\ j < i
      <4>1. g[j - 1] = S(i) + f[(j - 1) - 1] /\ g[j] = S(i) + f[j - 1]
        BY <1>1, <1>2, <3>1, <3>3
      <4>2. j - 1 \in 1..L /\ from(j) = j - 1
        BY <1>1, <1>2, <3>3
      <4>3. /\ f[j - 1] = f[(j - 1) - 1] + S(j - 1) /\ f[j - 1] \in Nat
            /\ f[(j - 1) - 1] \in Nat /\ S(j - 1) \in Nat
        BY <1>1, <2>2, <4>2
      <4> HIDE DEF from, g
      <4> QED BY <3>1, <4>1, <4>2, <4>3
    <3>4. CASE j # 1 /\ j = i
      <4>1. g[j - 1] = S(i) + f[(j - 1) - 1] /\ g[j] = f[j]
        BY <1>1, <1>2, <3>1, <3>4
      <4>2. j - 1 \in 1..L /\ from(j) = j - 1
        BY <1>1, <1>2, <3>4
      <4>3. /\ f[j - 1] = f[(j - 1) - 1] + S(j - 1) /\ f[j - 1] \in Nat
            /\ f[(j - 1) - 1] \in Nat /\ S(j - 1) \in Nat
        BY <1>1, <2>2, <4>2
      <4>4. f[j] = f[j - 1] + S(i) /\ f[j] \in Nat
        BY <2>2, <3>4
      <4> HIDE DEF from, g
      <4> QED BY <3>1, <4>1, <4>2, <4>3, <4>4
    <3>5. CASE j # 1 /\ j > i
      <4>1. g[j - 1] = f[j - 1] /\ g[j] = f[j] /\ from(j) = j
        BY <1>1, <1>2, <3>1, <3>5
      <4> QED BY <2>2, <4>1
    <3> QED BY <1>1, <1>2, <3>2, <3>3, <3>4, <3>5
  <2>5. g[0] = 0 /\ g[L] = f[L] /\ g \in [0..L -> Nat]
    <3>1. g[0] = 0
      BY <1>1
    <3>2. \A j \in 0..L : g[j] \in Nat
      <4> HIDE DEF g, from
      <4>1. \A j \in 0..L : j = 0 \/ j \in 1..L
        BY <1>1
      <4> QED BY <2>4, <3>1, <4>1
    <3>3. g[L] = f[L]
      BY <1>1, <1>2
    <3> QED BY <3>1, <3>2, <3>3
  <2> HIDE DEF g, from
  <2>6. Counts(g, d)
    BY <1>6, <2>3, <2>4, <2>5 DEF Counts
  <2> QED BY <1>3, <2>1, <2>5, <2>6
<1>11. Whole(d)
  <2>1. \A j \in Cached(d) : d.cache[j] \in LruValues
    BY <1>3 DEF Whole, Cached
  <2>2. d = [list |-> d.list, cache |-> d.cache, used |-> d.used, calls |-> d.calls]
    BY <1>3
  <2> QED BY <1>6, <1>8, <1>9, <1>10, <2>1, <2>2 DEF Whole
<1>12. d.cache = c.cache /\ d.calls = c.calls /\ d.used = c.used
  BY <1>3
<1> QED BY <1>2, <1>4, <1>6, <1>11, <1>12 DEF d

(* Sums of sizes are natural numbers.                                      *)
LEMMA SumsAreNat ==
  ASSUME NEW n \in Nat, NEW f \in [0..n -> Int], f[0] = 0,
         \A i \in 1..n : f[i] - f[i - 1] \in Nat
  PROVE  f \in [0..n -> Nat]
<1> DEFINE T == {i \in 0..n : f[i] \notin Nat}
<1>1. SUFFICES ASSUME T # {} PROVE FALSE
  OBVIOUS
<1>2. PICK i \in T : \A j \in T : i <= j
  <2>1. T \subseteq Nat
    OBVIOUS
  <2> HIDE DEF T
  <2> QED BY <1>1, <2>1, Least
<1>3. i \in 1..n /\ i - 1 \in 0..n /\ i - 1 \notin T
  BY <1>2
<1>4. f[i - 1] \in Nat /\ f[i] \in Int /\ f[i] - f[i - 1] \in Nat
  BY <1>3
<1> QED BY <1>2, <1>4

LEMMA StoreIsWhole ==
  ASSUME NEW c, Whole(c), NEW k \in LruKeys, NEW v \in LruValues
  PROVE  LET d == LruStore(c, k, v)
         IN /\ Whole(d) /\ d.calls = c.calls /\ Cached(d) = Cached(c) \cup {k}
            /\ IF k \in Cached(c) THEN d.list = c.list
               ELSE /\ Len(d.list) = Len(c.list) + 1 /\ d.list[1] = k
                    /\ \A j \in 2..Len(c.list) + 1 : d.list[j] = c.list[j - 1]
<1> DEFINE L == Len(c.list)
           d == LruStore(c, k, v)
           S(j) == Size(c.list[j], c.cache[c.list[j]])
<1>1. /\ L \in Nat /\ DOMAIN c.list = 1..L /\ c.used \in Nat
      /\ \A j \in 1..L : c.list[j] \in LruKeys /\ c.list[j] \in Cached(c) /\ S(j) \in Nat
  BY ListOf
<1>2. /\ d = [list |-> d.list, cache |-> d.cache, used |-> d.used, calls |-> d.calls]
      /\ d.list = IF k \in Cached(c) THEN c.list ELSE <<k>> \o c.list
      /\ d.cache = [j \in Cached(c) \cup {k} |-> IF j = k THEN v ELSE c.cache[j]]
      /\ d.used = c.used + ValueLen(v)
                    + (IF k \in Cached(c) THEN -ValueLen(c.cache[k]) ELSE KeyLen(k))
      /\ d.calls = c.calls
  BY DEF LruStore
<1> HIDE DEF d
<1>3. /\ Cached(d) = Cached(c) \cup {k}
      /\ \A j \in Cached(d) : d.cache[j] = IF j = k THEN v ELSE c.cache[j]
  BY <1>2 DEF Cached
<1>4. \A j \in Cached(d) : d.cache[j] \in LruValues
  BY <1>3 DEF Whole
<1>5. PICK f : Counts(f, c) /\ c.used = f[L]
  BY DEF Whole
<1>6. /\ f \in [0..L -> Nat] /\ f[0] = 0
      /\ \A j \in 1..L : f[j] = f[j - 1] + S(j)
  BY <1>5 DEF Counts
<1>7. KeyLen(k) \in Nat /\ ValueLen(v) \in Nat /\ Size(k, v) = KeyLen(k) + ValueLen(v)
  BY SizeAssumption DEF Size
<1>8. CASE k \in Cached(c)
  <2>1. PICK i \in 1..L : c.list[i] = k
    BY <1>8 DEF Whole
  <2>2. \A j \in 1..L : c.list[j] = k => j = i
    BY <2>1 DEF Whole
  <2>3. c.cache[k] \in LruValues /\ ValueLen(c.cache[k]) \in Nat
    BY <1>8, SizeAssumption DEF Whole
  <2> DEFINE more == ValueLen(v) - ValueLen(c.cache[k])
             g == [j \in 0..L |-> IF j < i THEN f[j] ELSE f[j] + more]
             N(j) == Size(d.list[j], d.cache[d.list[j]])
  <2>4. \A j \in 1..L : N(j) = IF j = i THEN S(j) + more ELSE S(j)
    <3> SUFFICES ASSUME NEW j \in 1..L PROVE N(j) = IF j = i THEN S(j) + more ELSE S(j)
      OBVIOUS
    <3>1. d.list[j] = c.list[j] /\ c.list[j] \in Cached(d) /\ c.list[j] \in Cached(c)
      BY <1>1, <1>2, <1>3, <1>8
    <3>2. CASE j = i
      <4>1. N(j) = KeyLen(k) + ValueLen(v) /\ S(j) = KeyLen(k) + ValueLen(c.cache[k])
        BY <1>3, <2>1, <3>1, <3>2 DEF Size
      <4> QED BY <1>7, <2>3, <3>2, <4>1
    <3>3. CASE j # i
      <4>1. c.list[j] # k
        BY <2>2, <3>3
      <4> QED BY <1>3, <3>1, <3>3, <4>1
    <3> QED BY <3>2, <3>3
  <2>5. \A j \in 1..L : N(j) \in Nat
    BY <1>1, <1>2, <1>3, <1>4, <1>8, SizeAssumption DEF Size
  <2> HIDE DEF S, N
  <2>6. g \in [0..L -> Int] /\ g[0] = 0 /\ \A j \in 1..L : g[j] = g[j - 1] + N(j)
    <3>1. \A j \in 0..L : f[j] \in Int /\ f[j] + more \in Int
      BY <1>6, <1>7, <2>3
    <3>2. g \in [0..L -> Int] /\ g[0] = 0
      BY <1>1, <1>6, <2>1, <3>1
    <3>3. ASSUME NEW j \in 1..L PROVE g[j] = g[j - 1] + N(j)
      <4>1. j \in 0..L /\ j - 1 \in 0..L /\ more \in Int
        BY <1>1, <1>7, <2>3
      <4>2. f[j] = f[j - 1] + S(j) /\ f[j] \in Int /\ f[j - 1] \in Int /\ S(j) \in Nat
        BY <1>1, <1>6, <3>1, <4>1
      <4>3. g[j] = (IF j < i THEN f[j] ELSE f[j] + more)
            /\ g[j - 1] = (IF j - 1 < i THEN f[j - 1] ELSE f[j - 1] + more)
        BY <4>1
      <4>4. N(j) = IF j = i THEN S(j) + more ELSE S(j)
        BY <2>4
      <4> HIDE DEF g, more
      <4> QED BY <2>1, <4>1, <4>2, <4>3, <4>4
    <3> QED BY <3>2, <3>3
  <2>7. g[L] = d.used
    <3>1. L \in 0..L /\ ~ (L < i) /\ g[L] = f[L] + more
      BY <1>1, <2>1
    <3> QED BY <1>1, <1>2, <1>5, <1>7, <1>8, <2>3, <3>1
  <2> HIDE DEF g
  <2>8. g \in [0..L -> Nat]
    <3>1. \A j \in 1..L : g[j] - g[j - 1] \in Nat
      <4> SUFFICES ASSUME NEW j \in 1..L PROVE g[j] - g[j - 1] \in Nat
        OBVIOUS
      <4>0. j \in 0..L /\ j - 1 \in 0..L
        BY <1>1
      <4>1. g[j] \in Int /\ g[j - 1] \in Int
        BY <2>6, <4>0
      <4>2. N(j) \in Nat /\ g[j] = g[j - 1] + N(j)
        BY <2>5, <2>6
      <4> QED BY <4>1, <4>2
    <3> QED BY <1>1, <2>6, <3>1, SumsAreNat
  <2>9. Counts(g, d)
    BY <1>2, <1>8, <2>6, <2>8 DEF Counts, N
  <2>10. Len(d.list) = L /\ \E h : Counts(h, d) /\ d.used = h[L]
    BY <1>2, <1>8, <2>7, <2>9
  <2>11. Cached(d) = Cached(c)
    BY <1>3, <1>8
  <2>12. /\ d.list \in Seq(LruKeys) /\ Cached(d) = {d.list[j] : j \in 1..L}
         /\ \A a, b \in 1..L : d.list[a] = d.list[b] => a = b
    BY <1>2, <1>8, <2>11 DEF Whole
  <2>13. Whole(d)
    BY <1>2, <1>4, <2>10, <2>12 DEF Whole
  <2> QED BY <1>2, <1>3, <1>8, <2>13 DEF d
<1>9. CASE k \notin Cached(c)
  <2>1. /\ d.list \in Seq(LruKeys) /\ Len(d.list) = L + 1 /\ d.list[1] = k
        /\ \A j \in 2..L + 1 : d.list[j] = c.list[j - 1]
    BY <1>1, <1>2, <1>9 DEF Whole
  <2>2. \A j \in 2..L + 1 : j - 1 \in 1..L /\ d.list[j] \in Cached(c) /\ d.list[j] # k
    BY <1>1, <1>9, <2>1
  <2>3. \A a, b \in 1..L + 1 : d.list[a] = d.list[b] => a = b
    <3> SUFFICES ASSUME NEW a \in 1..L + 1, NEW b \in 1..L + 1, d.list[a] = d.list[b]
                 PROVE  a = b
      OBVIOUS
    <3>1. CASE a = 1
      BY <1>1, <2>1, <2>2, <3>1
    <3>2. CASE b = 1
      BY <1>1, <2>1, <2>2, <3>2
    <3>3. CASE a # 1 /\ b # 1
      <4>1. a \in 2..L + 1 /\ b \in 2..L + 1
        BY <1>1, <3>3
      <4>2. c.list[a - 1] = c.list[b - 1] /\ a - 1 \in 1..L /\ b - 1 \in 1..L
        BY <2>1, <2>2, <4>1
      <4>3. a - 1 = b - 1
        BY <4>2 DEF Whole
      <4> QED BY <1>1, <4>1, <4>3
    <3> QED BY <3>1, <3>2, <3>3
  <2>4. Cached(d) = {d.list[j] : j \in 1..L + 1}
    <3>1. ASSUME NEW x \in Cached(d) PROVE \E j \in 1..L + 1 : x = d.list[j]
      <4>1. CASE x = k
        BY <1>1, <2>1, <4>1
      <4>2. CASE x \in Cached(c)
        <5>1. PICK j \in 1..L : x = c.list[j]
          BY <4>2 DEF Whole
        <5>2. j + 1 \in 2..L + 1 /\ j + 1 \in 1..L + 1 /\ (j + 1) - 1 = j
          BY <1>1
        <5> QED BY <2>1, <5>1, <5>2
      <4> QED BY <1>3, <4>1, <4>2
    <3>2. ASSUME NEW j \in 1..L + 1 PROVE d.list[j] \in Cached(d)
      <4>1. j = 1 \/ j \in 2..L + 1
        BY <1>1
      <4> QED BY <1>3, <2>1, <2>2, <4>1
    <3> QED BY <3>1, <3>2
  <2> DEFINE g == [j \in 0..L + 1 |-> IF j = 0 THEN 0 ELSE f[j - 1] + Size(k, v)]
             N(j) == Size(d.list[j], d.cache[d.list[j]])
  <2>5. N(1) = Size(k, v) /\ \A j \in 2..L + 1 : N(j) = S(j - 1)
    BY <1>3, <2>1, <2>2
  <2> HIDE DEF S, N
  <2>6. g \in [0..L + 1 -> Nat] /\ g[0] = 0 /\ \A j \in 1..L + 1 : g[j] = g[j - 1] + N(j)
    <3>1. ASSUME NEW j \in 1..L + 1
          PROVE  j - 1 \in 0..L /\ g[j] = f[j - 1] + Size(k, v) /\ f[j - 1] \in Nat
      BY <1>1, <1>6
    <3>2. g \in [0..L + 1 -> Nat] /\ g[0] = 0
      BY <1>1, <1>6, <1>7
    <3>3. ASSUME NEW j \in 1..L + 1 PROVE g[j] = g[j - 1] + N(j)
      <4>1. CASE j = 1
        <5>1. g[1] = f[0] + Size(k, v) /\ g[0] = 0
          BY <3>1, <3>2, <4>1
        <5> HIDE DEF g
        <5> QED BY <1>6, <1>7, <2>5, <4>1, <5>1
      <4>2. CASE j # 1
        <5>1. j \in 2..L + 1 /\ j - 1 \in 1..L + 1 /\ j - 1 \in 1..L
          BY <1>1, <4>2
        <5>2. f[j - 1] = f[(j - 1) - 1] + S(j - 1) /\ f[(j - 1) - 1] \in Nat /\ S(j - 1) \in Nat
          BY <1>1, <1>6, <3>1, <5>1
        <5>3. g[j] = f[j - 1] + Size(k, v) /\ g[j - 1] = f[(j - 1) - 1] + Size(k, v)
          BY <3>1, <5>1
        <5>4. N(j) = S(j - 1)
          BY <2>5, <5>1
        <5> HIDE DEF g
        <5> QED BY <1>7, <5>2, <5>3, <5>4
      <4> QED BY <4>1, <4>2
    <3> QED BY <3>2, <3>3
  <2>7. g[L + 1] = d.used
    <3>1. g[L + 1] = f[L] + Size(k, v)
      BY <1>1
    <3> QED BY <1>1, <1>2, <1>5, <1>7, <1>9, <3>1
  <2> HIDE DEF g
  <2>8. Counts(g, d)
    BY <1>1, <2>1, <2>6 DEF Counts, N
  <2>9. \E h : Counts(h, d) /\ d.used = h[L + 1]
    BY <2>7, <2>8
  <2>10. Whole(d)
    BY <1>2, <1>4, <2>1, <2>3, <2>4, <2>9 DEF Whole
  <2> QED BY <1>2, <1>3, <1>9, <2>1, <2>10 DEF d
<1> QED BY <1>8, <1>9

-----------------------------------------------------------------------------
(* The invariant of one cache: the list is ordered by the time of use.     *)

Ordered(c, y) ==
  \A i, j \in 1..Len(c.list) : i < j => c.list[i] \in y[c.list[j]]

Fits(c) == MaxBytes # 0 => c.used <= MaxBytes

LruInv ==
  /\ Whole(lru) /\ Fits(lru)
  /\ lru.calls \in Seq(LruKeys \X LruValues)
  /\ younger \in [LruKeys -> SUBSET LruKeys]
  /\ Ordered(lru, younger)

(* What every operation does: it makes the cache d, and evicts all but the *)
(* first n entries of it.                                                  *)
Evicts(d, n) ==
  /\ Whole(d) /\ Ordered(d, younger') /\ Cached(lru) \subseteq Cached(d)
  /\ Whole(lru') /\ Left(lru', d, n)

LEMMA FreshIsWhole ==
  ASSUME Whole(lru)
  PROVE  /\ Whole(Fresh) /\ Fresh.calls = << >> /\ Fresh.list = lru.list
         /\ Fresh.cache = lru.cache /\ Fresh.used = lru.used /\ Cached(Fresh) = Cached(lru)
<1>1. Fresh = [list |-> lru.list, cache |-> lru.cache, used |-> lru.used, calls |-> << >>]
  BY DEF Fresh, Whole
<1> HIDE DEF Fresh
<1>2. /\ Fresh.calls = << >> /\ Fresh.list = lru.list
      /\ Fresh.cache = lru.cache /\ Fresh.used = lru.used
  BY <1>1
<1>3. Cached(Fresh) = Cached(lru)
  BY <1>2 DEF Cached
<1>4. \A f : Counts(f, lru) => Counts(f, Fresh)
  BY <1>2 DEF Counts
<1> QED BY <1>1, <1>2, <1>3, <1>4 DEF Whole

LEMMA LeftIsOrdered ==
  ASSUME NEW d, NEW e, NEW n, NEW y, Whole(d), Left(e, d, n), Ordered(d, y)
  PROVE  Ordered(e, y)
<1>1. n \in 0..Len(d.list) /\ Len(d.list) \in Nat /\ Len(e.list) = n
  BY ListOf DEF Left
<1>2. \A i \in 1..n : i \in 1..Len(d.list) /\ e.list[i] = d.list[i]
  BY <1>1 DEF Left
<1> QED BY <1>1, <1>2 DEF Ordered

(* The calls are of entries of the cache. *)
LEMMA CallsAreEntries ==
  ASSUME NEW d, Whole(d), NEW e, NEW n, Left(e, d, n)
  PROVE  e.calls \in Seq(LruKeys \X LruValues)
<1> DEFINE L == Len(d.list)
<1>1. L \in Nat /\ n \in 0..L /\ L - n \in Nat
  BY ListOf DEF Left
<1>2. ASSUME NEW j \in 1..L - n
      PROVE  /\ d.list[L + 1 - j] \in LruKeys
             /\ d.cache[d.list[L + 1 - j]] \in LruValues
  <2>1. L + 1 - j \in 1..L
    BY <1>1
  <2> QED BY <2>1, ListOf DEF Whole
<1>3. Gone(d, n) \in [1..L - n -> LruKeys \X LruValues]
  BY <1>2 DEF Gone
<1>4. Gone(d, n) \in Seq(LruKeys \X LruValues)
  BY <1>1, <1>3, IsASeq
<1>5. << >> \in Seq(LruKeys \X LruValues)
  OBVIOUS
<1> QED BY <1>4, <1>5 DEF Left

(* k, used now, is younger than all others. *)
LEMMA UseTypes ==
  ASSUME younger \in [LruKeys -> SUBSET LruKeys], NEW k \in LruKeys, Use(k)
  PROVE  /\ younger' \in [LruKeys -> SUBSET LruKeys]
         /\ \A x \in LruKeys : x # k => younger'[x] = younger[x] \cup {k}
BY DEF Use

LEMMA GetEvicts ==
  ASSUME LruInv, NEW k \in LruKeys, GetStep(k)
  PROVE  /\ \E d, n : Evicts(d, n)
         /\ Fits(lru') /\ younger' \in [LruKeys -> SUBSET LruKeys]
<1>1. /\ Whole(Fresh) /\ Fresh.calls = << >> /\ Fresh.list = lru.list
      /\ Fresh.cache = lru.cache /\ Fresh.used = lru.used /\ Cached(Fresh) = Cached(lru)
  BY FreshIsWhole DEF LruInv
<1>2. lru' = LruGet(Fresh, k)
  BY DEF GetStep
<1>3. CASE k \notin Cached(lru)
  <2>1. lru' = Fresh /\ younger' = younger
    BY <1>1, <1>2, <1>3 DEF LruGet, GetStep
  <2>2. Ordered(lru', younger')
    BY <1>1, <2>1 DEF LruInv, Ordered
  <2>3. Left(lru', lru', Len(lru'.list))
    BY <1>1, <2>1, AllIsLeft
  <2>4. Evicts(lru', Len(lru'.list))
    BY <1>1, <2>1, <2>2, <2>3 DEF Evicts
  <2> QED BY <1>1, <2>1, <2>4 DEF LruInv, Fits
<1>4. CASE k \in Cached(lru)
  <2> DEFINE L == Len(lru.list)
  <2>1. PICK i \in 1..L :
          /\ Whole(lru') /\ lru'.cache = lru.cache /\ lru'.calls = << >> /\ lru'.used = lru.used
          /\ lru.list[i] = k /\ Len(lru'.list) = L
          /\ \A j \in 1..L :
               lru'.list[j] = IF j = 1 THEN k ELSE IF j <= i THEN lru.list[j - 1] ELSE lru.list[j]
    <3> HIDE DEF Fresh
    <3> QED BY <1>1, <1>2, <1>4, GetMoves
  <2>2. /\ L \in Nat
        /\ \A j \in 1..L : lru.list[j] \in LruKeys
        /\ \A a, b \in 1..L : lru.list[a] = lru.list[b] => a = b
    BY ListOf DEF LruInv, Whole
  <2>3. /\ younger' \in [LruKeys -> SUBSET LruKeys]
        /\ \A x \in LruKeys : x # k => younger'[x] = younger[x] \cup {k}
    BY <1>4, UseTypes DEF LruInv, GetStep
  <2>4. ASSUME NEW a \in 1..L, NEW b \in 1..L, a < b
        PROVE  lru'.list[a] \in younger'[lru'.list[b]]
    <3> DEFINE from(j) == IF j <= i THEN j - 1 ELSE j
    <3>1. from(b) \in 1..L /\ from(b) # i /\ lru'.list[b] = lru.list[from(b)]
      BY <2>1, <2>2, <2>4
    <3>2. lru.list[from(b)] \in LruKeys /\ lru.list[from(b)] # k
      <4> HIDE DEF from
      <4> QED BY <2>1, <2>2, <3>1
    <3>3. younger'[lru'.list[b]] = younger[lru.list[from(b)]] \cup {k}
      BY <2>3, <3>1, <3>2
    <3>4. CASE a = 1
      BY <2>1, <3>3, <3>4
    <3>5. CASE a # 1
      <4>1. from(a) \in 1..L /\ from(a) < from(b) /\ lru'.list[a] = lru.list[from(a)]
        BY <2>1, <2>2, <2>4, <3>5
      <4> HIDE DEF from
      <4>2. lru.list[from(a)] \in younger[lru.list[from(b)]]
        BY <3>1, <4>1 DEF LruInv, Ordered
      <4> QED BY <3>3, <4>1, <4>2
    <3> QED BY <3>4, <3>5
  <2>5. Ordered(lru', younger')
    BY <2>1, <2>4 DEF Ordered
  <2>6. Left(lru', lru', Len(lru'.list))
    BY <2>1, AllIsLeft
  <2>7. Cached(lru) \subseteq Cached(lru')
    BY <2>1 DEF Cached
  <2>8. Evicts(lru', Len(lru'.list))
    BY <2>1, <2>5, <2>6, <2>7 DEF Evicts
  <2>9. Fits(lru')
    BY <2>1 DEF LruInv, Fits
  <2> QED BY <2>3, <2>8, <2>9
<1> QED BY <1>3, <1>4

LEMMA RemoveEvicts ==
  ASSUME LruInv, RemoveStep
  PROVE  /\ \E d, n : Evicts(d, n)
         /\ Fits(lru') /\ younger' \in [LruKeys -> SUBSET LruKeys]
<1>1. /\ Whole(Fresh) /\ Fresh.calls = << >> /\ Fresh.list = lru.list
      /\ Fresh.cache = lru.cache /\ Fresh.used = lru.used /\ Cached(Fresh) = Cached(lru)
  BY FreshIsWhole DEF LruInv
<1> DEFINE L == Len(Fresh.list)
<1>2. lru' = LruRemoveOldest(Fresh) /\ younger' = younger
  BY DEF RemoveStep
<1>3. Ordered(Fresh, younger') /\ Cached(lru) \subseteq Cached(Fresh)
  BY <1>1, <1>2 DEF LruInv, Ordered
<1>4. L \in Nat /\ Fresh.used \in Nat /\ Left(Fresh, Fresh, L)
  BY <1>1, ListOf, AllIsLeft
<1> HIDE DEF Fresh
<1>5. CASE L = 0
  <2>1. lru' = Fresh
    BY <1>1, <1>2, <1>5 DEF LruRemoveOldest, Whole
  <2>2. Evicts(Fresh, L)
    BY <1>1, <1>3, <1>4, <2>1 DEF Evicts
  <2> QED BY <1>1, <1>2, <2>1, <2>2 DEF LruInv, Fits
<1>6. CASE L # 0
  <2>1. /\ Whole(lru') /\ Left(lru', Fresh, L - 1)
        /\ Fresh.used = lru'.used + Size(Fresh.list[L], Fresh.cache[Fresh.list[L]])
    BY <1>1, <1>2, <1>4, <1>6, RemoveLeaves
  <2>2. Evicts(Fresh, L - 1)
    BY <1>1, <1>3, <2>1 DEF Evicts
  <2>3. lru'.used \in Nat /\ Size(Fresh.list[L], Fresh.cache[Fresh.list[L]]) \in Nat
    <3>1. L \in 1..L
      BY <1>4, <1>6
    <3>2. Size(Fresh.list[L], Fresh.cache[Fresh.list[L]]) \in Nat
      BY <1>1, <3>1, ListOf
    <3>3. lru'.used \in Nat
      <4> DEFINE e == lru'
      <4>1. Whole(e)
        BY <2>1
      <4> HIDE DEF e
      <4>2. e.used \in Nat
        BY <4>1, ListOf
      <4> QED BY <4>2 DEF e
    <3> QED BY <3>2, <3>3
  <2>4. Fits(lru')
    <3>1. lru'.used <= lru.used
      BY <1>1, <1>4, <2>1, <2>3
    <3> QED BY <1>1, <1>4, <2>3, <3>1, LruAssumption DEF LruInv, Fits
  <2> QED BY <1>2, <2>2, <2>4 DEF LruInv
<1> QED BY <1>5, <1>6

LEMMA SetEvicts ==
  ASSUME LruInv, NEW k \in LruKeys, NEW v \in LruValues, SetStep(k, v)
  PROVE  /\ \E d, n : Evicts(d, n) /\ Trimmed(lru', d, n)
         /\ Fits(lru') /\ younger' \in [LruKeys -> SUBSET LruKeys]
<1> DEFINE d == LruStore(Fresh, k, v)
           L == Len(lru.list)
<1>1. /\ Whole(Fresh) /\ Fresh.calls = << >> /\ Fresh.list = lru.list
      /\ Fresh.cache = lru.cache /\ Fresh.used = lru.used /\ Cached(Fresh) = Cached(lru)
  BY FreshIsWhole DEF LruInv
<1>2. lru' = Shrink(d)
  BY DEF SetStep, LruSet
<1> HIDE DEF Fresh
<1>3. /\ Whole(d) /\ d.calls = << >> /\ Cached(d) = Cached(lru) \cup {k}
      /\ IF k \in Cached(lru) THEN d.list = lru.list
         ELSE /\ Len(d.list) = L + 1 /\ d.list[1] = k
              /\ \A j \in 2..L + 1 : d.list[j] = lru.list[j - 1]
  BY <1>1, StoreIsWhole
<1> HIDE DEF d
<1>4. PICK n : Trimmed(lru', d, n) /\ ~ TooBig(lru')
  BY <1>2, <1>3, ShrinkTrims
<1>5. Fits(lru')
  <2> DEFINE e == lru'
  <2>1. Whole(e) /\ ~ TooBig(e)
    BY <1>4 DEF Trimmed
  <2> HIDE DEF e
  <2>2. e.used \in Nat
    BY <2>1, ListOf
  <2>3. Fits(e)
    BY <2>1, <2>2, LruAssumption DEF Fits, TooBig
  <2> QED BY <2>3 DEF e
<1>6. younger' \in [LruKeys -> SUBSET LruKeys] /\ Ordered(d, younger')
  <2>1. CASE k \in Cached(lru)
    <3>1. younger' = younger /\ d.list = lru.list
      BY <1>3, <2>1 DEF SetStep
    <3> QED BY <3>1 DEF LruInv, Ordered
  <2>2. CASE k \notin Cached(lru)
    <3>1. /\ younger' \in [LruKeys -> SUBSET LruKeys]
          /\ \A x \in LruKeys : x # k => younger'[x] = younger[x] \cup {k}
      BY <2>2, UseTypes DEF LruInv, SetStep
    <3>2. /\ L \in Nat
          /\ \A j \in 1..L : lru.list[j] \in LruKeys /\ lru.list[j] # k
      BY <2>2, ListOf DEF LruInv
    <3>3. /\ Len(d.list) = L + 1 /\ d.list[1] = k
          /\ \A j \in 2..L + 1 : d.list[j] = lru.list[j - 1]
      BY <1>3, <2>2
    <3>4. ASSUME NEW a \in 1..L + 1, NEW b \in 1..L + 1, a < b
          PROVE  d.list[a] \in younger'[d.list[b]]
      <4>1. b - 1 \in 1..L /\ d.list[b] = lru.list[b - 1]
        BY <3>2, <3>3, <3>4
      <4>2. younger'[d.list[b]] = younger[lru.list[b - 1]] \cup {k}
        BY <3>1, <3>2, <4>1
      <4>3. CASE a = 1
        BY <3>3, <4>2, <4>3
      <4>4. CASE a # 1
        <5>1. a - 1 \in 1..L /\ d.list[a] = lru.list[a - 1] /\ a - 1 < b - 1
          BY <3>2, <3>3, <3>4, <4>4
        <5>2. lru.list[a - 1] \in younger[lru.list[b - 1]]
          BY <4>1, <5>1 DEF LruInv, Ordered
        <5> QED BY <4>2, <5>1, <5>2
      <4> QED BY <4>3, <4>4
    <3>5. Ordered(d, younger')
      BY <3>3, <3>4 DEF Ordered
    <3> QED BY <3>1, <3>5
  <2> QED BY <2>1, <2>2
<1>7. Evicts(d, n)
  BY <1>3, <1>4, <1>6 DEF Evicts, Trimmed
<1> QED BY <1>4, <1>5, <1>6, <1>7

LEMMA LruStep ==
  ASSUME LruInv, LruNext
  PROVE  /\ \E d, n : Evicts(d, n)
         /\ Fits(lru') /\ younger' \in [LruKeys -> SUBSET LruKeys]
<1>1. ASSUME NEW k \in LruKeys, GetStep(k)
      PROVE  /\ \E d, n : Evicts(d, n)
             /\ Fits(lru') /\ younger' \in [LruKeys -> SUBSET LruKeys]
  BY <1>1, GetEvicts
<1>2. ASSUME RemoveStep
      PROVE  /\ \E d, n : Evicts(d, n)
             /\ Fits(lru') /\ younger' \in [LruKeys -> SUBSET LruKeys]
  BY <1>2, RemoveEvicts
<1>3. ASSUME NEW k \in LruKeys, NEW v \in LruValues, SetStep(k, v)
      PROVE  /\ \E d, n : Evicts(d, n)
             /\ Fits(lru') /\ younger' \in [LruKeys -> SUBSET LruKeys]
  BY <1>3, SetEvicts
<1> QED BY <1>1, <1>2, <1>3 DEF LruNext

(* The invariant of one cache of lru.go: its list holds the keys of its    *)
(* map, each once, ordered by their last insertion or Get (lru.go:49-102), *)
(* usedBytes is the sum of their sizes, and at most maxBytes.              *)
THEOREM LruInvariance == LruSpec => []LruInv
<1>1. LruInit => LruInv
  <2> SUFFICES ASSUME LruInit PROVE LruInv
    OBVIOUS
  <2>1. Whole(lru) /\ Len(lru.list) = 0 /\ lru.used = 0 /\ lru.calls = << >>
    BY EmptyIsWhole DEF LruInit, EmptyLru
  <2>2. younger \in [LruKeys -> SUBSET LruKeys]
    BY DEF LruInit
  <2>3. Ordered(lru, younger)
    BY <2>1 DEF Ordered
  <2>4. Fits(lru)
    BY <2>1, LruAssumption DEF Fits
  <2> QED BY <2>1, <2>2, <2>3, <2>4 DEF LruInv
<1>2. LruInv /\ [LruNext]_lruVars => LruInv'
  <2> SUFFICES ASSUME LruInv, [LruNext]_lruVars PROVE LruInv'
    OBVIOUS
  <2>1. CASE UNCHANGED lruVars
    <3>1. lru' = lru /\ younger' = younger
      BY <2>1 DEF lruVars
    <3> QED BY <3>1 DEF LruInv
  <2>2. CASE LruNext
    <3>1. PICK d, n : Evicts(d, n)
      BY <2>2, LruStep
    <3>2. Fits(lru') /\ younger' \in [LruKeys -> SUBSET LruKeys]
      BY <2>2, LruStep
    <3>3. Whole(lru') /\ Ordered(lru', younger') /\ lru'.calls \in Seq(LruKeys \X LruValues)
      BY <3>1, LeftIsOrdered, CallsAreEntries DEF Evicts
    <3> QED BY <3>2, <3>3 DEF LruInv
  <2> QED BY <2>1, <2>2
<1> QED BY <1>1, <1>2, PTL DEF LruSpec

(* Bytes, the sum along the list, is what every count of it ends with.     *)
LEMMA BytesAreCounted ==
  ASSUME NEW c, Whole(c)
  PROVE  c.used = Bytes(c)
<1> DEFINE L == Len(c.list)
           S(j) == Size(c.list[j], c.cache[c.list[j]])
           Def(g) == [j \in 0..L |-> IF j = 0 THEN 0 ELSE g[j - 1] + S(j)]
           g == CHOOSE g : g = Def(g)
<1>1. L \in Nat /\ Bytes(c) = g[L]
  BY ListOf DEF Bytes
<1>2. PICK f : Counts(f, c) /\ c.used = f[L]
  BY DEF Whole
<1>3. /\ f \in [0..L -> Nat] /\ f[0] = 0
      /\ \A j \in 1..L : f[j] = f[j - 1] + S(j)
  BY <1>2 DEF Counts
<1> HIDE DEF S
<1>4. f = Def(f)
  <2>1. \A j \in 0..L : f[j] = IF j = 0 THEN 0 ELSE f[j - 1] + S(j)
    BY <1>1, <1>3
  <2> QED BY <1>3, <2>1
<1>5. g = Def(g)
  <2> HIDE DEF Def
  <2> QED BY <1>4
<1> HIDE DEF g
<1> DEFINE T == {j \in 0..L : g[j] # f[j]}
<1>6. T = {}
  <2> SUFFICES ASSUME T # {} PROVE FALSE
    OBVIOUS
  <2>1. PICK j \in T : \A o \in T : j <= o
    <3>1. T \subseteq Nat
      OBVIOUS
    <3> HIDE DEF T
    <3> QED BY <3>1, Least
  <2>2. \A o \in 0..L : g[o] = IF o = 0 THEN 0 ELSE g[o - 1] + S(o)
    BY <1>5
  <2>3. CASE j = 0
    <3>1. 0 \in 0..L
      BY <1>1
    <3>2. g[0] = 0
      BY <2>2, <3>1
    <3> QED BY <1>3, <2>1, <2>3, <3>2
  <2>4. CASE j # 0
    <3>1. j \in 1..L /\ j - 1 \in 0..L /\ j - 1 \notin T
      BY <1>1, <2>1, <2>4
    <3>2. g[j - 1] = f[j - 1] /\ g[j] = g[j - 1] + S(j) /\ f[j] = f[j - 1] + S(j)
      BY <1>3, <2>2, <2>4, <3>1
    <3> QED BY <2>1, <3>2
  <2> QED BY <2>3, <2>4
<1>7. g[L] = f[L]
  BY <1>1, <1>6
<1> QED BY <1>1, <1>2, <1>7

LEMMA WholeIsConsistent == LruInv => Consistent
<1> SUFFICES ASSUME LruInv PROVE Consistent
  OBVIOUS
<1> DEFINE L == Len(lru.list)
<1>1. /\ L \in Nat /\ DOMAIN lru.list = 1..L /\ lru.used \in Nat
      /\ \A i \in 1..L : lru.list[i] \in LruKeys /\ lru.list[i] \in Cached(lru)
  BY ListOf DEF LruInv
<1>2. /\ Cached(lru) = {lru.list[i] : i \in 1..L}
      /\ \A i, j \in 1..L : lru.list[i] = lru.list[j] => i = j
      /\ \A k \in Cached(lru) : lru.cache[k] \in LruValues
      /\ lru.list \in Seq(LruKeys)
  BY DEF LruInv, Whole
<1>3. LruTypes
  BY <1>1, <1>2 DEF LruInv, LruTypes
<1>4. ToSet(lru.list) = Cached(lru)
  BY <1>1, <1>2 DEF ToSet
<1>5. Cardinality(Cached(lru)) = L
  <2>1. lru.list \in [1..L -> Cached(lru)]
    <3>1. lru.list \in [1..L -> LruKeys]
      BY <1>1, <1>2, LenProperties
    <3> QED BY <1>1, <3>1
  <2>2. lru.list \in Bijection(1..L, Cached(lru))
    BY <1>2, <2>1 DEF Bijection, Injection, Surjection, IsInjective
  <2>3. ExistsBijection(1..L, Cached(lru))
    BY <2>2 DEF ExistsBijection
  <2> QED BY <1>1, <2>3, FS_CountingElements
<1>6. UsedIsExact
  BY BytesAreCounted DEF LruInv, Fits, UsedIsExact
<1> QED BY <1>3, <1>4, <1>5, <1>6 DEF Consistent, ListMatchesMap

(* The map, the list and usedBytes of a cache agree after every Get, Set   *)
(* and RemoveOldest, and usedBytes is within maxBytes (lru.go:49-102).     *)
THEOREM LruConsistent == LruSpec => []Consistent
<1> QED BY LruInvariance, WholeIsConsistent, PTL

(* Who leaves had a place behind those that stay.                          *)
LEMMA GoneIsOlder ==
  ASSUME NEW d, NEW n, Evicts(d, n)
  PROVE  /\ n \in 0..Len(d.list) /\ Len(d.list) \in Nat
         /\ Cached(lru') = {d.list[i] : i \in 1..n}
         /\ \A k \in Cached(lru) \ Cached(lru') :
              \E j \in n + 1..Len(d.list) : d.list[j] = k
<1> DEFINE L == Len(d.list)
<1>1. n \in 0..L /\ L \in Nat /\ Len(lru'.list) = n
  BY ListOf DEF Evicts, Left
<1>2. \A i \in 1..n : lru'.list[i] = d.list[i]
  BY DEF Evicts, Left
<1>3. Cached(lru') = {d.list[i] : i \in 1..n}
  <2>1. Cached(lru') = {lru'.list[i] : i \in 1..n}
    BY <1>1 DEF Evicts, Whole
  <2> QED BY <1>2, <2>1
<1>4. ASSUME NEW k \in Cached(lru) \ Cached(lru')
      PROVE  \E j \in n + 1..L : d.list[j] = k
  <2>1. PICK j \in 1..L : d.list[j] = k
    BY <1>4 DEF Evicts, Whole
  <2>2. j \notin 1..n
    BY <1>3, <1>4, <2>1
  <2> QED BY <1>1, <2>1, <2>2
<1> QED BY <1>1, <1>3, <1>4

(* LRU order (lru.go:7): a key leaves the cache only when every key that   *)
(* stays was inserted or found after it.                                   *)
THEOREM LruOrder == LruSpec => EvictsLeastRecent
<1>1. LruInv /\ [LruNext]_lruVars =>
        [\A k \in Cached(lru) \ Cached(lru') : Cached(lru') \subseteq younger'[k]]_lruVars
  <2> SUFFICES ASSUME LruInv, LruNext, NEW k \in Cached(lru) \ Cached(lru'),
                      NEW x \in Cached(lru')
               PROVE  x \in younger'[k]
    BY DEF lruVars
  <2>1. PICK d, n : Evicts(d, n)
    BY LruStep
  <2>2. /\ n \in 0..Len(d.list) /\ Len(d.list) \in Nat
        /\ Cached(lru') = {d.list[i] : i \in 1..n}
        /\ \E j \in n + 1..Len(d.list) : d.list[j] = k
    BY <2>1, GoneIsOlder
  <2>3. PICK i \in 1..n : d.list[i] = x
    BY <2>2
  <2>4. PICK j \in n + 1..Len(d.list) : d.list[j] = k
    BY <2>2
  <2>5. i \in 1..Len(d.list) /\ j \in 1..Len(d.list) /\ i < j
    BY <2>2
  <2> QED BY <2>1, <2>3, <2>4, <2>5 DEF Evicts, Ordered
<1> QED BY <1>1, LruInvariance, PTL DEF LruSpec, EvictsLeastRecent

(* The calls of onCallback, the oldest entry first.                        *)
LEMMA CallsOfGone ==
  ASSUME NEW d, NEW n, Evicts(d, n), HasCallback
  PROVE  /\ Len(d.list) - n \in Nat
         /\ lru'.calls = Gone(d, n) /\ DOMAIN lru'.calls = 1..Len(d.list) - n
         /\ \A j \in 1..Len(d.list) - n :
              /\ Len(d.list) + 1 - j \in n + 1..Len(d.list)
              /\ lru'.calls[j] = <<d.list[Len(d.list) + 1 - j], d.cache[d.list[Len(d.list) + 1 - j]]>>
<1>1. n \in 0..Len(d.list) /\ Len(d.list) \in Nat
  BY GoneIsOlder
<1>2. lru'.calls = Gone(d, n)
  BY DEF Evicts, Left
<1>3. \A j \in 1..Len(d.list) - n : Len(d.list) + 1 - j \in n + 1..Len(d.list)
  BY <1>1
<1> QED BY <1>1, <1>2, <1>3 DEF Gone

(* onCallback hears of each entry that leaves, once, oldest first          *)
(* (lru.go:62-80).                                                         *)
LEMMA CallbackStep ==
  ASSUME LruInv, LruNext, HasCallback
  PROVE  LET gone == [i \in DOMAIN lru'.calls |-> lru'.calls[i][1]]
         IN /\ IsInjective(gone)
            /\ Cached(lru) \ Cached(lru') \subseteq ToSet(gone)
            /\ ToSet(gone) \cap Cached(lru') = {}
            /\ \A i, j \in DOMAIN gone : i < j => gone[j] \in younger'[gone[i]]
<1> DEFINE gone == [i \in DOMAIN lru'.calls |-> lru'.calls[i][1]]
<1>1. PICK d, n : Evicts(d, n)
  BY LruStep
<1> DEFINE L == Len(d.list)
<1>2. /\ n \in 0..L /\ L \in Nat
      /\ Cached(lru') = {d.list[i] : i \in 1..n}
      /\ \A k \in Cached(lru) \ Cached(lru') : \E j \in n + 1..L : d.list[j] = k
  BY <1>1, GoneIsOlder
<1>3. /\ DOMAIN gone = 1..L - n
      /\ \A j \in 1..L - n : L + 1 - j \in n + 1..L /\ gone[j] = d.list[L + 1 - j]
  BY <1>1, CallsOfGone
<1>4. \A i, j \in 1..L : d.list[i] = d.list[j] => i = j
  BY <1>1 DEF Evicts, Whole
<1> HIDE DEF gone
<1>5. IsInjective(gone)
  <2> SUFFICES ASSUME NEW a \in 1..L - n, NEW b \in 1..L - n, gone[a] = gone[b]
               PROVE  a = b
    BY <1>3 DEF IsInjective
  <2>1. L + 1 - a \in 1..L /\ L + 1 - b \in 1..L
    BY <1>2, <1>3
  <2>2. L + 1 - a = L + 1 - b
    BY <1>3, <1>4, <2>1
  <2> QED BY <1>2, <2>2
<1>6. ASSUME NEW k \in Cached(lru) \ Cached(lru') PROVE k \in ToSet(gone)
  <2>1. PICK j \in n + 1..L : d.list[j] = k
    BY <1>2
  <2>2. L + 1 - j \in 1..L - n /\ L + 1 - (L + 1 - j) = j
    BY <1>2
  <2>3. gone[L + 1 - j] = k
    BY <1>3, <2>1, <2>2
  <2> QED BY <1>3, <2>2, <2>3 DEF ToSet
<1>7. ASSUME NEW x \in ToSet(gone), x \in Cached(lru') PROVE FALSE
  <2>1. PICK j \in 1..L - n : gone[j] = x
    BY <1>3, <1>7 DEF ToSet
  <2>2. PICK i \in 1..n : d.list[i] = x
    BY <1>2, <1>7
  <2>3. L + 1 - j \in 1..L /\ i \in 1..L /\ i # L + 1 - j
    BY <1>2, <1>3
  <2> QED BY <1>3, <1>4, <2>1, <2>2, <2>3
<1>8. ASSUME NEW i \in 1..L - n, NEW j \in 1..L - n, i < j
      PROVE  gone[j] \in younger'[gone[i]]
  <2>1. L + 1 - i \in 1..L /\ L + 1 - j \in 1..L /\ L + 1 - j < L + 1 - i
    BY <1>2, <1>3, <1>8
  <2>2. d.list[L + 1 - j] \in younger'[d.list[L + 1 - i]]
    BY <1>1, <2>1 DEF Evicts, Ordered
  <2> QED BY <1>3, <2>2
<1> QED BY <1>3, <1>5, <1>6, <1>7, <1>8 DEF gone

LEMMA NoMoreStep ==
  ASSUME LruInv, NEW k \in LruKeys, NEW v \in LruValues, SetStep(k, v), lru'.calls # << >>
  PROVE  lru'.used + Size(Last(lru'.calls)[1], Last(lru'.calls)[2]) > MaxBytes
<1>1. PICK d, n : Evicts(d, n) /\ Trimmed(lru', d, n)
  BY SetEvicts
<1> DEFINE L == Len(d.list)
<1>2. HasCallback
  BY <1>1 DEF Evicts, Left
<1>3. /\ L - n \in Nat /\ n \in 0..L /\ L \in Nat
      /\ lru'.calls = Gone(d, n)
      /\ \A j \in 1..L - n :
           lru'.calls[j] = <<d.list[L + 1 - j], d.cache[d.list[L + 1 - j]]>>
  BY <1>1, <1>2, CallsOfGone, GoneIsOlder
<1>4. Len(lru'.calls) = L - n
  <2>1. lru'.calls \in Seq(LruKeys \X LruValues)
    BY <1>1, CallsAreEntries DEF Evicts
  <2>2. DOMAIN lru'.calls = 1..L - n
    BY <1>1, <1>2, CallsOfGone
  <2> QED BY <1>3, <2>1, <2>2, LenProperties
<1>5. L - n # 0
  <2> SUFFICES ASSUME L - n = 0 PROVE FALSE
    OBVIOUS
  <2>1. lru'.calls \in Seq(LruKeys \X LruValues)
    BY <1>1, CallsAreEntries DEF Evicts
  <2> QED BY <1>4, <2>1, EmptySeq
<1>6. L - n \in 1..L - n /\ L + 1 - (L - n) = n + 1 /\ n < L
  BY <1>3, <1>5
<1>7. Last(lru'.calls) = <<d.list[n + 1], d.cache[d.list[n + 1]]>>
  BY <1>3, <1>4, <1>6 DEF Last
<1> QED BY <1>1, <1>6, <1>7 DEF Trimmed

(* Set evicts no more than the budget forces it to, and onCallback hears   *)
(* of each entry that leaves, once and in LRU order (lru.go:62-102).       *)
THEOREM LruEviction == LruSpec => EvictsExactly
<1>1. LruInv /\ [LruNext]_lruVars =>
        [(\E k \in LruKeys, v \in LruValues : SetStep(k, v)) /\ lru'.calls # << >>
           => lru'.used + Size(Last(lru'.calls)[1], Last(lru'.calls)[2]) > MaxBytes]_lruVars
  BY NoMoreStep
<1>2. LruInv /\ [LruNext]_lruVars =>
        [HasCallback =>
           LET gone == [i \in DOMAIN lru'.calls |-> lru'.calls[i][1]]
           IN /\ IsInjective(gone)
              /\ Cached(lru) \ Cached(lru') \subseteq ToSet(gone)
              /\ ToSet(gone) \cap Cached(lru') = {}
              /\ \A i, j \in DOMAIN gone : i < j => gone[j] \in younger'[gone[i]]]_lruVars
  BY CallbackStep
<1>3. LruSpec => EvictsNoMoreThanNeeded
  BY <1>1, LruInvariance, PTL DEF LruSpec, EvictsNoMoreThanNeeded
<1>4. LruSpec => CallbackPerEviction
  BY <1>2, LruInvariance, PTL DEF LruSpec, CallbackPerEviction
<1> QED BY <1>3, <1>4 DEF EvictsExactly
=============================================================================
