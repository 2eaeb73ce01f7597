------------------------------ MODULE Gee_proof ------------------------------
(***************************************************************************)
(* Proofs about Gee for any engine, any routes and any functions of the    *)
(* user's.  First the trie: what a node stands for, what insert keeps of   *)
(* it, what search finds, and what that is worth to getRoute.  Then a      *)
(* request that is served, the engine that is set up, and the middlewares  *)
(* of groups.                                                              *)
(***************************************************************************)
EXTENDS Gee, SequenceTheorems, WellFoundedInduction, NaturalsInduction, TLAPS

Mws == [kind : {"logger", "recovery", "user"}, of : Nat]

(* Only the last function of a chain is a handler.                         *)
Chained(c) ==
  /\ Len(c) \in Nat \ {0}
  /\ \A i \in 1 .. Len(c) - 1 : c[i].kind \in {"logger", "recovery", "user"}

GroupsInv ==
  /\ groups \in Seq(Range(groups))
  /\ \A g \in 1..Len(groups) : groups[g].middlewares \in Seq(Mws)

BusyInv ==
  /\ Chained(chain) /\ index \in Nat
  /\ stack \in Seq(1..Len(chain))
  /\ \A i \in 1..Len(stack) : stack[i] - 1 <= index
  /\ {status, wire} \cap Errors # {} => index >= Len(chain) - 1
  /\ panicking /\ guarded => OnStack(Recovery)
  /\ outcome = "none"

GInv ==
  /\ GroupsInv
  /\ panicking \in BOOLEAN /\ guarded \in BOOLEAN
  /\ phase = "busy" => BusyInv
  /\ phase \in {"setup", "ready"} => ~ panicking
  /\ phase = "dead" => wire = NoContent
  /\ outcome = "aborted" => ~ guarded

-----------------------------------------------------------------------------
LEMMA Least ==
  ASSUME NEW T, T \subseteq Nat, T # {}
  PROVE  \E n \in T : \A o \in T : n <= o
<1> DEFINE R == OpToRel(<, Nat)
<1>1. IsWellFoundedOn(R, Nat)
  BY NatLessThanWellFounded
<1> HIDE DEF R
<1>2. PICK n \in T : \A o \in T : ~ (<<o, n>> \in R)
  BY <1>1, WFMin
<1>3. ASSUME NEW o \in T PROVE n <= o
  <2>1. ~ (<<o, n>> \in R)
    BY <1>2
  <2>2. ~ (o < n)
    BY <2>1 DEF R, OpToRel
  <2> QED BY <2>2
<1> QED BY <1>3

(* The segments that an engine meets.                                      *)
Segs ==
  {FilePath} \cup
    (UNION {Range(s) : s \in GroupPrefixes \cup Patterns \cup Directories \cup Paths})

-----------------------------------------------------------------------------
(* What Filter keeps.                                                      *)
Kept(f, s, T, n) ==
  f = [i \in 0..n |->
         IF i = 0 THEN << >>
         ELSE IF s[i] \in T THEN Append(f[i - 1], s[i]) ELSE f[i - 1]]

LEMMA OneMoreKept ==
  ASSUME NEW s, NEW T, NEW n \in Nat, NEW f, Kept(f, s, T, n)
  PROVE  \E g : Kept(g, s, T, n + 1)
<1> DEFINE more == IF s[n + 1] \in T THEN Append(f[n], s[n + 1]) ELSE f[n]
           g == [i \in 0..n + 1 |-> IF i = n + 1 THEN more ELSE f[i]]
<1>1. \A i \in 0..n : g[i] = f[i]
  OBVIOUS
<1>2. g[n + 1] = more
  OBVIOUS
<1>3. \A i \in 0..n : f[i] = IF i = 0 THEN << >>
                            ELSE IF s[i] \in T THEN Append(f[i - 1], s[i]) ELSE f[i - 1]
  BY DEF Kept
<1>4. g = [i \in 0..n + 1 |-> g[i]]
  OBVIOUS
<1> HIDE DEF g
<1>5. ASSUME NEW i \in 0..n + 1
      PROVE  g[i] = IF i = 0 THEN << >>
                    ELSE IF s[i] \in T THEN Append(g[i - 1], s[i]) ELSE g[i - 1]
  <2>1. CASE i = n + 1
    <3>1. i # 0 /\ i - 1 = n /\ g[n] = f[n]
      BY <1>1, <2>1
    <3> QED BY <1>2, <2>1, <3>1
  <2>2. CASE i # n + 1
    <3>1. i \in 0..n /\ (i # 0 => i - 1 \in 0..n)
      BY <2>2
    <3>2. i # 0 => g[i - 1] = f[i - 1]
      BY <1>1, <3>1
    <3> QED BY <1>1, <1>3, <3>1, <3>2
  <2> QED BY <2>1, <2>2
<1>6. Kept(g, s, T, n + 1)
  BY <1>4, <1>5 DEF Kept
<1> QED BY <1>6

LEMMA KeptEnds ==
  ASSUME NEW s, NEW T, NEW n \in Nat
  PROVE  \E f : Kept(f, s, T, n)
<1> DEFINE M == {o \in Nat : ~ \E f : Kept(f, s, T, o)}
<1>1. SUFFICES ASSUME M # {} PROVE FALSE
  OBVIOUS
<1>2. PICK o \in M : \A i \in M : o <= i
  <2>1. M \subseteq Nat
    OBVIOUS
  <2> HIDE DEF M
  <2> QED BY <1>1, <2>1, Least
<1>3. CASE o = 0
  <2>1. Kept([i \in 0..0 |-> << >>], s, T, 0)
    BY DEF Kept
  <2> QED BY <1>3, <2>1
<1>4. CASE o # 0
  <2>1. o - 1 \in Nat /\ o - 1 \notin M /\ (o - 1) + 1 = o
    BY <1>2, <1>4
  <2>2. PICK f : Kept(f, s, T, o - 1)
    BY <2>1
  <2>3. \E g : Kept(g, s, T, o)
    BY <2>1, <2>2, OneMoreKept
  <2> QED BY <2>3
<1> QED BY <1>3, <1>4

LEMMA FilterIsKept ==
  ASSUME NEW s, NEW T, Len(s) \in Nat
  PROVE  \E f : Kept(f, s, T, Len(s)) /\ Filter(s, T) = f[Len(s)]
<1> DEFINE n == Len(s)
           Def(g) == [i \in 0..n |->
                        IF i = 0 THEN << >>
                        ELSE IF s[i] \in T THEN Append(g[i - 1], s[i]) ELSE g[i - 1]]
           f == CHOOSE g : g = Def(g)
<1>1. Filter(s, T) = f[n]
  BY DEF Filter
<1>2. f = Def(f)
  <2>1. PICK g : Kept(g, s, T, n)
    BY KeptEnds
  <2>2. g = Def(g)
    BY <2>1 DEF Kept
  <2> HIDE DEF Def
  <2> QED BY <2>2
<1> HIDE DEF f
<1> QED BY <1>1, <1>2 DEF Kept

(* r has the elements of s up to m that are in T: g says from where.       *)
Picks(g, r, s, m, T) ==
  /\ Len(r) \in Nat /\ g \in [1..Len(r) -> 1..m]
  /\ \A i, j \in 1..Len(r) : i < j => g[i] < g[j]
  /\ \A i \in 1..Len(r) : r[i] = s[g[i]] /\ s[g[i]] \in T
  /\ \A j \in 1..m : s[j] \in T => \E i \in 1..Len(r) : g[i] = j

LEMMA PickOneMore ==
  ASSUME NEW S, NEW s \in Seq(S), NEW T, NEW m \in Nat, m + 1 <= Len(s),
         NEW r \in Seq(S), NEW g, Picks(g, r, s, m, T), s[m + 1] \in T
  PROVE  /\ Append(r, s[m + 1]) \in Seq(S)
         /\ \E h : Picks(h, Append(r, s[m + 1]), s, m + 1, T)
<1> DEFINE e == s[m + 1]
           q == Append(r, e)
           L == Len(r)
           h == [i \in 1..L + 1 |-> IF i = L + 1 THEN m + 1 ELSE g[i]]
<1>1. e \in S /\ L \in Nat
  BY LenProperties, ElementOfSeq
<1>2. /\ q \in Seq(S) /\ Len(q) = L + 1
      /\ \A i \in 1..L : q[i] = r[i]
      /\ q[L + 1] = e
  <2> HIDE DEF e, L
  <2>1. /\ Append(r, e) \in Seq(S) /\ Len(Append(r, e)) = Len(r) + 1
        /\ \A i \in 1..Len(r) : Append(r, e)[i] = r[i]
        /\ Append(r, e)[Len(r) + 1] = e
    BY <1>1, AppendProperties
  <2> QED BY <2>1 DEF L
<1>3. /\ h \in [1..L + 1 -> 1..m + 1]
      /\ \A i \in 1..L : h[i] = g[i] /\ h[i] \in 1..m
      /\ h[L + 1] = m + 1
  <2>1. L \in Nat /\ g \in [1..L -> 1..m]
    BY DEF Picks
  <2> HIDE DEF L
  <2> QED BY <2>1
<1> HIDE DEF h, q
<1>4. \A i, j \in 1..L + 1 : i < j => h[i] < h[j]
  <2> SUFFICES ASSUME NEW i \in 1..L + 1, NEW j \in 1..L + 1, i < j PROVE h[i] < h[j]
    OBVIOUS
  <2>1. i \in 1..L
    BY <1>1
  <2>2. CASE j = L + 1
    BY <1>3, <2>1, <2>2
  <2>3. CASE j # L + 1
    <3>1. j \in 1..L
      BY <1>1, <2>3
    <3> QED BY <1>3, <2>1, <3>1 DEF Picks
  <2> QED BY <2>2, <2>3
<1>5. \A i \in 1..L + 1 : q[i] = s[h[i]] /\ s[h[i]] \in T
  <2> SUFFICES ASSUME NEW i \in 1..L + 1 PROVE q[i] = s[h[i]] /\ s[h[i]] \in T
    OBVIOUS
  <2>1. CASE i = L + 1
    BY <1>2, <1>3, <2>1
  <2>2. CASE i # L + 1
    <3>1. i \in 1..L
      BY <1>1, <2>2
    <3> QED BY <1>2, <1>3, <3>1 DEF Picks
  <2> QED BY <2>1, <2>2
<1>6. \A j \in 1..m + 1 : s[j] \in T => \E i \in 1..L + 1 : h[i] = j
  <2> SUFFICES ASSUME NEW j \in 1..m + 1, s[j] \in T PROVE \E i \in 1..L + 1 : h[i] = j
    OBVIOUS
  <2>1. CASE j = m + 1
    <3>1. L + 1 \in 1..L + 1
      BY <1>1
    <3> QED BY <1>3, <2>1, <3>1
  <2>2. CASE j # m + 1
    <3>1. PICK i \in 1..L : g[i] = j
      BY <2>2 DEF Picks
    <3>2. i \in 1..L + 1 /\ h[i] = j
      BY <1>1, <1>3, <3>1
    <3> QED BY <3>2
  <2> QED BY <2>1, <2>2
<1>7. Picks(h, q, s, m + 1, T)
  <2>1. Len(q) = L + 1 /\ L + 1 \in Nat
    BY <1>1, <1>2
  <2> HIDE DEF L
  <2> QED BY <1>3, <1>4, <1>5, <1>6, <2>1 DEF Picks
<1> QED BY <1>2, <1>7 DEF q

LEMMA FilterPicks ==
  ASSUME NEW S, NEW s \in Seq(S), NEW T
  PROVE  Filter(s, T) \in Seq(S) /\ \E g : Picks(g, Filter(s, T), s, Len(s), T)
<1> DEFINE n == Len(s)
<1>1. n \in Nat
  BY LenProperties
<1>2. PICK f : Kept(f, s, T, n) /\ Filter(s, T) = f[n]
  BY <1>1, FilterIsKept
<1>3. \A i \in 0..n : f[i] = IF i = 0 THEN << >>
                            ELSE IF s[i] \in T THEN Append(f[i - 1], s[i]) ELSE f[i - 1]
  BY <1>2 DEF Kept
<1> DEFINE Bad == {i \in 0..n : ~ (f[i] \in Seq(S) /\ \E g : Picks(g, f[i], s, i, T))}
<1>4. Bad = {}
  <2> SUFFICES ASSUME Bad # {} PROVE FALSE
    OBVIOUS
  <2>1. PICK i \in Bad : \A o \in Bad : i <= o
    <3>1. Bad \subseteq Nat
      OBVIOUS
    <3> HIDE DEF Bad
    <3> QED BY <3>1, Least
  <2>2. CASE i = 0
    <3>1. f[0] = << >>
      BY <1>1, <1>3
    <3>2. << >> \in Seq(S) /\ Len(<< >>) = 0
      BY EmptySeq
    <3>3. Picks([j \in 1..0 |-> j], << >>, s, 0, T)
      BY <3>2 DEF Picks
    <3> QED BY <2>1, <2>2, <3>1, <3>2, <3>3
  <2>3. CASE i # 0
    <3>0. i \in 0..n
      BY <2>1
    <3>1. i - 1 \in 0..n /\ i - 1 \notin Bad /\ i \in 1..n /\ (i - 1) + 1 = i
      <4> HIDE DEF Bad, n
      <4> QED BY <1>1, <2>1, <2>3, <3>0
    <3>2. f[i - 1] \in Seq(S) /\ \E g : Picks(g, f[i - 1], s, i - 1, T)
      BY <3>1
    <3>3. PICK g : Picks(g, f[i - 1], s, i - 1, T)
      BY <3>2
    <3> DEFINE m == i - 1
               r == f[i - 1]
    <3>4. m \in Nat /\ m + 1 = i /\ m + 1 <= Len(s) /\ r \in Seq(S) /\ Picks(g, r, s, m, T)
      BY <3>1, <3>2, <3>3
    <3>5. f[i] = IF s[m + 1] \in T THEN Append(r, s[m + 1]) ELSE r
      BY <1>3, <2>3, <3>1
    <3> HIDE DEF m, r
    <3>6. CASE s[m + 1] \in T
      <4>0. /\ Append(r, s[m + 1]) \in Seq(S)
            /\ \E h : Picks(h, Append(r, s[m + 1]), s, m + 1, T)
        BY <3>4, <3>6, PickOneMore
      <4>1. f[i] \in Seq(S) /\ \E h : Picks(h, f[i], s, m + 1, T)
        BY <3>5, <3>6, <4>0
      <4> QED BY <2>1, <3>4, <4>1
    <3>7. CASE s[m + 1] \notin T
      <4>1. \A j \in 1..i : j \in 1..m \/ j = m + 1
        BY <3>4
      <4>2. Picks(g, r, s, i, T)
        BY <3>4, <3>7, <4>1 DEF Picks
      <4> QED BY <2>1, <3>4, <3>5, <3>7, <4>2
    <3> QED BY <3>6, <3>7
  <2> QED BY <2>2, <2>3
<1>5. n \in 0..n /\ n \notin Bad
  BY <1>1, <1>4
<1>6. f[n] \in Seq(S) /\ \E g : Picks(g, f[n], s, n, T)
  BY <1>5
<1> QED BY <1>2, <1>6

(* The sets may differ on what is not in s.                                *)
LEMMA FilterAppend ==
  ASSUME NEW S, NEW s \in Seq(S), NEW e \in S, NEW T, NEW U,
         \A i \in 1..Len(s) : s[i] \in T <=> s[i] \in U
  PROVE  Filter(Append(s, e), U) = IF e \in U THEN Append(Filter(s, T), e) ELSE Filter(s, T)
<1> DEFINE n == Len(s)
           a == Append(s, e)
<1>1. n \in Nat
  BY LenProperties
<1>2. a \in Seq(S) /\ Len(a) = n + 1 /\ a[n + 1] = e /\ \A i \in 1..n : a[i] = s[i]
  BY AppendProperties
<1>3. PICK f : Kept(f, s, T, n) /\ Filter(s, T) = f[n]
  BY <1>1, FilterIsKept
<1> HIDE DEF a
<1>4. PICK h : Kept(h, a, U, n + 1) /\ Filter(a, U) = h[n + 1]
  BY <1>1, <1>2, FilterIsKept
<1>5. \A i \in 0..n : f[i] = IF i = 0 THEN << >>
                            ELSE IF s[i] \in T THEN Append(f[i - 1], s[i]) ELSE f[i - 1]
  BY <1>3 DEF Kept
<1>6. \A i \in 0..n + 1 : h[i] = IF i = 0 THEN << >>
                                ELSE IF a[i] \in U THEN Append(h[i - 1], a[i]) ELSE h[i - 1]
  BY <1>4 DEF Kept
<1> DEFINE Bad == {i \in 0..n : h[i] # f[i]}
<1>7. Bad = {}
  <2> SUFFICES ASSUME Bad # {} PROVE FALSE
    OBVIOUS
  <2>1. PICK i \in Bad : \A o \in Bad : i <= o
    <3>1. Bad \subseteq Nat
      OBVIOUS
    <3> HIDE DEF Bad
    <3> QED BY <3>1, Least
  <2>2. i \in 0..n + 1
    BY <1>1
  <2>3. CASE i = 0
    BY <1>5, <1>6, <2>1, <2>2, <2>3
  <2>4. CASE i # 0
    <3>1. i - 1 \in 0..n /\ i - 1 \notin Bad /\ i \in 1..n
      BY <2>1, <2>4
    <3>2. h[i - 1] = f[i - 1] /\ a[i] = s[i]
      BY <1>2, <3>1
    <3> QED BY <1>5, <1>6, <2>1, <2>2, <2>4, <3>1, <3>2
  <2> QED BY <2>3, <2>4
<1>8. h[n] = f[n]
  BY <1>1, <1>7
<1>9. h[n + 1] = IF e \in U THEN Append(h[n], e) ELSE h[n]
  <2>1. n + 1 \in 0..n + 1 /\ n + 1 # 0 /\ (n + 1) - 1 = n
    BY <1>1
  <2> QED BY <1>2, <1>6, <2>1
<1> QED BY <1>3, <1>4, <1>8, <1>9 DEF a

(* A beginning of s that is in T is the beginning of what is kept.         *)
Leads(s, T, m) == \A i \in 1..m : s[i] \in T
Led(g, r, s, m) == m <= Len(r) /\ \A i \in 1..m : g[i] = i /\ r[i] = s[i]

LEMMA FilterStart ==
  ASSUME NEW r, NEW s, NEW T, NEW n \in Nat, NEW g, Picks(g, r, s, n, T),
         NEW m \in 0..n, Leads(s, T, m)
  PROVE  Led(g, r, s, m)
<1> DEFINE L == Len(r)
           Bad == {i \in 1..m : ~ (i <= L /\ g[i] = i)}
<1>1. /\ L \in Nat /\ g \in [1..L -> 1..n]
      /\ \A i, j \in 1..L : i < j => g[i] < g[j]
      /\ \A i \in 1..L : r[i] = s[g[i]]
      /\ \A j \in 1..n : s[j] \in T => \E i \in 1..L : g[i] = j
  BY DEF Picks
<1>2. Bad = {}
  <2> SUFFICES ASSUME Bad # {} PROVE FALSE
    OBVIOUS
  <2>1. PICK i \in Bad : \A o \in Bad : i <= o
    <3>1. Bad \subseteq Nat
      OBVIOUS
    <3> HIDE DEF Bad
    <3> QED BY <3>1, Least
  <2>2. \A j \in 1..i - 1 : j <= L /\ g[j] = j
    <3> SUFFICES ASSUME NEW j \in 1..i - 1 PROVE j <= L /\ g[j] = j
      OBVIOUS
    <3>1. j \in 1..m /\ j \notin Bad
      BY <2>1
    <3> QED BY <3>1
  <2>3. PICK k \in 1..L : g[k] = i
    <3>1. i \in 1..n /\ s[i] \in T
      BY <2>1 DEF Leads
    <3> QED BY <1>1, <3>1
  <2>4. k \notin 1..i - 1
    BY <2>2, <2>3
  <2>5. i <= k
    BY <2>4
  <2>6. i \in 1..L
    BY <1>1, <2>1, <2>5
  <2>7. g[i] <= i
    <3>1. i = k \/ i < k
      BY <2>5
    <3>2. i < k => g[i] < g[k]
      BY <1>1, <2>6
    <3>3. g[i] \in 1..n
      BY <1>1, <2>6
    <3> QED BY <2>1, <2>3, <3>1, <3>2, <3>3
  <2>8. g[i] >= i
    <3>1. CASE i = 1
      BY <1>1, <2>6, <3>1
    <3>2. CASE i # 1
      <4>1. i - 1 \in 1..i - 1 /\ i - 1 \in 1..L /\ i - 1 < i
        BY <2>6, <3>2
      <4>2. g[i - 1] = i - 1 /\ g[i - 1] < g[i]
        BY <1>1, <2>2, <2>6, <4>1
      <4>3. g[i] \in 1..n
        BY <1>1, <2>6
      <4> QED BY <4>2, <4>3
    <3> QED BY <3>1, <3>2
  <2>9. g[i] = i
    <3>1. g[i] \in 1..n
      BY <1>1, <2>6
    <3> QED BY <2>7, <2>8, <3>1
  <2> QED BY <2>1, <2>6, <2>9
<1>3. m <= L
  <2>1. CASE m = 0
    BY <1>1, <2>1
  <2>2. CASE m # 0
    <3>1. m \in 1..m /\ m \notin Bad
      BY <1>2, <2>2
    <3> QED BY <3>1
  <2> QED BY <2>1, <2>2
<1>4. \A i \in 1..m : i \in 1..L /\ g[i] = i
  <2> SUFFICES ASSUME NEW i \in 1..m PROVE i \in 1..L /\ g[i] = i
    OBVIOUS
  <2>1. i \notin Bad
    BY <1>2
  <2> QED BY <1>1, <2>1
<1> QED BY <1>1, <1>3, <1>4 DEF Led


-----------------------------------------------------------------------------
(* Parts of patterns and paths.                                            *)
Parts == Segs \ {Empty}

LEMMA MinOf ==
  ASSUME NEW I, I \subseteq Nat, I # {}
  PROVE  Min(I) \in I /\ \A i \in I : Min(I) <= i
<1>1. \E n \in I : \A o \in I : n <= o
  BY Least
<1> QED BY <1>1 DEF Min

LEMMA MaxOf ==
  ASSUME NEW n \in Nat, NEW I, I \subseteq 1..n, I # {}
  PROVE  Max(I) \in I /\ \A i \in I : i <= Max(I)
<1> DEFINE J == {k \in Nat : n - k \in I}
<1>1. J # {}
  <2>1. PICK i \in I : TRUE
    OBVIOUS
  <2>2. n - i \in Nat /\ n - (n - i) = i
    BY <2>1
  <2> QED BY <2>2
<1>2. PICK k \in J : \A o \in J : k <= o
  <2>1. J \subseteq Nat
    OBVIOUS
  <2> HIDE DEF J
  <2> QED BY <1>1, <2>1, Least
<1>3. ASSUME NEW i \in I PROVE i <= n - k
  <2>1. n - i \in Nat /\ n - (n - i) = i
    OBVIOUS
  <2>2. n - i \in J
    BY <2>1
  <2>3. k <= n - i
    BY <1>2, <2>2
  <2> QED BY <2>1, <2>3
<1>4. n - k \in I
  BY <1>2
<1>5. \E x \in I : \A y \in I : x >= y
  <2>1. \A y \in I : n - k >= y
    BY <1>3
  <2> QED BY <1>4, <2>1
<1>6. Max(I) \in I /\ \A y \in I : Max(I) >= y
  BY <1>5 DEF Max
<1> QED BY <1>6

LEMMA SeqOver ==
  ASSUME NEW S, NEW s \in Seq(S), NEW T, \A i \in 1..Len(s) : s[i] \in T
  PROVE  s \in Seq(T)
<1>1. Len(s) \in Nat /\ s \in [1..Len(s) -> S]
  BY LenProperties
<1>2. s \in [1..Len(s) -> T]
  BY <1>1
<1> QED BY <1>1, <1>2, SeqDef

LEMMA BeginningOf ==
  ASSUME NEW S, NEW s \in Seq(S), NEW n \in 0..Len(s)
  PROVE  /\ SubSeq(s, 1, n) \in Seq(S) /\ Len(SubSeq(s, 1, n)) = n
         /\ \A i \in 1..n : SubSeq(s, 1, n)[i] = s[i]
<1>1. Len(s) \in Nat /\ n \in Nat /\ \A i \in 1..n : s[i] \in S
  BY LenProperties, ElementOfSeq
<1>2. /\ SubSeq(s, 1, n) \in Seq(S)
      /\ Len(SubSeq(s, 1, n)) = IF 1 <= n THEN n - 1 + 1 ELSE 0
      /\ \A i \in 1..n - 1 + 1 : SubSeq(s, 1, n)[i] = s[1 + i - 1]
  BY <1>1, SubSeqProperties
<1>3. n - 1 + 1 = n /\ \A i \in 1..n : 1 + i - 1 = i
  BY <1>1
<1> QED BY <1>1, <1>2, <1>3

(* parsePattern (router.go:30-45): all segments that are not empty, or     *)
(* those up to the first that begins with `*'.                             *)
Cut(q, kept) ==
  /\ q \in Seq(Parts) /\ Len(q) \in Nat /\ Len(q) <= Len(kept)
  /\ \A i \in 1..Len(q) : q[i] = kept[i]
  /\ \A i \in 1..Len(q) - 1 : q[i] \notin Stars
  /\ Len(q) < Len(kept) => Len(q) # 0 /\ q[Len(q)] \in Stars

LEMMA ParseIs ==
  ASSUME NEW p \in Seq(Segs)
  PROVE  Cut(ParsePattern(p), Filter(p, Range(p) \ {Empty}))
<1> DEFINE T == Range(p) \ {Empty}
           kept == Filter(p, T)
           n == Len(kept)
           I == {i \in 1..n : kept[i] \in Stars}
           q == ParsePattern(p)
<1>1. PICK g : kept \in Seq(Segs) /\ Picks(g, kept, p, Len(p), T)
  BY FilterPicks
<1>2. kept \in Seq(Parts) /\ n \in Nat
  <2>1. \A i \in 1..n : kept[i] \in Segs
    BY <1>1, ElementOfSeq
  <2>2. \A i \in 1..n : kept[i] \in T
    BY <1>1 DEF Picks
  <2>3. \A i \in 1..n : kept[i] \in Parts
    BY <2>1, <2>2 DEF Parts
  <2> HIDE DEF kept
  <2> QED BY <1>1, <2>3, SeqOver, LenProperties
<1>3. q = IF I = {} THEN kept ELSE SubSeq(kept, 1, Min(I))
  <2>1. I # {} => Min(I) \in I /\ Min(I) # 0
    <3>1. I # {} => Min(I) \in I
      <4>1. I \subseteq Nat
        OBVIOUS
      <4> HIDE DEF I
      <4> QED BY <4>1, MinOf
    <3> DEFINE m == Min(I)
    <3>2. ASSUME I # {} PROVE m # 0
      <4>1. m \in I
        BY <3>1, <3>2
      <4> HIDE DEF m, n
      <4>2. m \in 1..n
        BY <4>1
      <4> QED BY <4>2
    <3> QED BY <3>1, <3>2
  <2>2. q = IF (IF I # {} THEN Min(I) ELSE 0) = 0 THEN kept
            ELSE SubSeq(kept, 1, IF I # {} THEN Min(I) ELSE 0)
    BY DEF ParsePattern, SelectInSeq
  <2> HIDE DEF I, kept, q
  <2> QED BY <2>1, <2>2
<1> HIDE DEF kept, q
<1>4. CASE I = {}
  <2>1. q = kept
    BY <1>3, <1>4
  <2>2. \A i \in 1..n : kept[i] \notin Stars
    BY <1>4
  <2>3. Cut(q, kept)
    BY <1>2, <2>1, <2>2 DEF Cut
  <2> QED BY <2>3 DEF kept, q
<1>5. CASE I # {}
  <2> DEFINE m == Min(I)
  <2>1. m \in I /\ \A i \in I : m <= i
    <3>1. I \subseteq Nat
      OBVIOUS
    <3> HIDE DEF I
    <3> QED BY <1>5, <3>1, MinOf
  <2>2. m \in 1..n /\ kept[m] \in Stars /\ \A i \in 1..m - 1 : kept[i] \notin Stars
    <3>1. m \in 1..n /\ kept[m] \in Stars
      BY <2>1
    <3>2. \A i \in 1..m - 1 : i \in 1..n /\ i \notin I
      BY <1>2, <2>1, <3>1
    <3> QED BY <3>1, <3>2
  <2>3. q = SubSeq(kept, 1, m)
    BY <1>3, <1>5
  <2> HIDE DEF m
  <2>4. q \in Seq(Parts) /\ Len(q) = m /\ \A i \in 1..m : q[i] = kept[i]
    <3>1. m \in 0..Len(kept)
      BY <1>2, <2>2
    <3> QED BY <1>2, <2>3, <3>1, BeginningOf
  <2>5. m \in 1..m
    BY <2>2
  <2>6. \A i \in 1..m - 1 : q[i] = kept[i]
    BY <2>2, <2>4
  <2>7. Cut(q, kept)
    BY <1>2, <2>2, <2>4, <2>5, <2>6 DEF Cut
  <2> QED BY <2>7 DEF kept, q
<1> QED BY <1>4, <1>5

LEMMA Parsed ==
  ASSUME NEW p \in Seq(Segs)
  PROVE  LET q == ParsePattern(p)
         IN /\ q \in Seq(Parts) /\ Len(q) \in Nat
            /\ \A i \in 1..Len(q) : q[i] \in Parts
            /\ \A i \in 1..Len(q) - 1 : q[i] \notin Stars
BY ParseIs, ElementOfSeq DEF Cut

(* The empty string has no parts.                                          *)
LEMMA ParseEmpty ==
  ASSUME NEW p \in Seq(Segs), ParsePattern(p) # << >>
  PROVE  p # << >>
<1>1. SUFFICES ASSUME p = << >> PROVE FALSE
  OBVIOUS
<1> DEFINE kept == Filter(p, Range(p) \ {Empty})
<1>2. Len(p) = 0
  BY <1>1
<1>3. PICK f : Kept(f, p, Range(p) \ {Empty}, Len(p)) /\ kept = f[Len(p)]
  BY <1>2, FilterIsKept
<1>4. kept = << >>
  BY <1>2, <1>3 DEF Kept
<1>5. Len(ParsePattern(p)) = 0 /\ ParsePattern(p) \in Seq(Parts)
  <2>1. Len(kept) = 0
    BY <1>4
  <2>2. Len(ParsePattern(p)) \in Nat /\ Len(ParsePattern(p)) <= Len(kept)
    BY ParseIs DEF Cut
  <2> QED BY <2>1, <2>2, ParseIs DEF Cut
<1> QED BY <1>5, EmptySeq

-----------------------------------------------------------------------------
(* Kinds of parts.                                                         *)
LEMMA KindFacts ==
  /\ \A a : SameKind(a, a)
  /\ \A a, b : SameKind(a, b) => SameKind(b, a)
  /\ \A a, b, c : SameKind(a, b) /\ SameKind(b, c) => SameKind(a, c)
  /\ \A a, b : SameKind(a, b) => /\ IsWild(a) <=> IsWild(b)
                                 /\ a \in Stars <=> b \in Stars
                                 /\ ~IsWild(a) => a = b
BY SegmentAssumption DEF SameKind, IsWild, Wild

LEMMA AgreeFacts ==
  ASSUME NEW ps \in Seq(Parts), NEW qs \in Seq(Parts), NEW i \in Nat, AgreeUpTo(ps, qs, i)
  PROVE  /\ AgreeUpTo(qs, ps, i)
         /\ \A k \in 0..i : AgreeUpTo(ps, qs, k)
         /\ \A rs \in Seq(Parts) : AgreeUpTo(qs, rs, i) => AgreeUpTo(ps, rs, i)
<1>1. Len(ps) \in Nat /\ Len(qs) \in Nat
  BY LenProperties
<1>2. AgreeUpTo(qs, ps, i)
  BY KindFacts DEF AgreeUpTo
<1>3. ASSUME NEW k \in 0..i PROVE AgreeUpTo(ps, qs, k)
  BY <1>1, <1>3 DEF AgreeUpTo
<1>4. ASSUME NEW rs \in Seq(Parts), AgreeUpTo(qs, rs, i) PROVE AgreeUpTo(ps, rs, i)
  <2>1. \A j \in 1..i : SameKind(ps[j], qs[j]) /\ SameKind(qs[j], rs[j])
    BY <1>4 DEF AgreeUpTo
  <2>2. \A j \in 1..i : SameKind(ps[j], rs[j])
    BY <2>1, KindFacts
  <2> QED BY <1>4, <2>2 DEF AgreeUpTo
<1> QED BY <1>2, <1>3, <1>4

Kin(ps, qs) == Len(ps) = Len(qs) /\ AgreeUpTo(ps, qs, Len(ps))

LEMMA KinFacts ==
  ASSUME NEW ps \in Seq(Parts)
  PROVE  /\ Kin(ps, ps)
         /\ \A qs \in Seq(Parts) : Kin(ps, qs) => Kin(qs, ps)
         /\ \A qs, rs \in Seq(Parts) : Kin(ps, qs) /\ Kin(qs, rs) => Kin(ps, rs)
<1>1. Len(ps) \in Nat
  BY LenProperties
<1>2. Kin(ps, ps)
  BY <1>1, KindFacts DEF Kin, AgreeUpTo
<1>3. ASSUME NEW qs \in Seq(Parts), Kin(ps, qs) PROVE Kin(qs, ps)
  <2>1. Len(qs) = Len(ps) /\ AgreeUpTo(ps, qs, Len(ps))
    BY <1>3 DEF Kin
  <2>2. AgreeUpTo(qs, ps, Len(ps))
    BY <1>1, <2>1, AgreeFacts
  <2> QED BY <2>1, <2>2 DEF Kin
<1>4. ASSUME NEW qs \in Seq(Parts), NEW rs \in Seq(Parts), Kin(ps, qs), Kin(qs, rs)
      PROVE  Kin(ps, rs)
  <2>1. /\ Len(qs) = Len(ps) /\ AgreeUpTo(ps, qs, Len(ps))
        /\ Len(rs) = Len(ps) /\ AgreeUpTo(qs, rs, Len(ps))
    BY <1>4 DEF Kin
  <2>2. AgreeUpTo(ps, rs, Len(ps))
    BY <1>1, <2>1, AgreeFacts
  <2> QED BY <2>1, <2>2 DEF Kin
<1> QED BY <1>2, <1>3, <1>4

(* Kin are as specific as each other.                                      *)
LEMMA KinBeats ==
  ASSUME NEW ps \in Seq(Parts), NEW qs \in Seq(Parts), NEW rs \in Seq(Parts),
         NEW us \in Seq(Parts), Kin(ps, rs), Kin(qs, us), Beats(ps, qs)
  PROVE  Beats(rs, us)
<1>1. /\ Len(ps) \in Nat /\ Len(rs) = Len(ps) /\ DOMAIN ps = 1..Len(ps) /\ DOMAIN rs = 1..Len(ps)
      /\ Len(qs) \in Nat /\ Len(us) = Len(qs)
      /\ AgreeUpTo(ps, rs, Len(ps)) /\ AgreeUpTo(qs, us, Len(qs))
  BY LenProperties DEF Kin
<1>2. PICK i \in DOMAIN ps : /\ i <= Len(qs) /\ AgreeUpTo(ps, qs, i - 1)
                             /\ ~IsWild(ps[i]) /\ IsWild(qs[i])
  BY DEF Beats
<1>3. i \in Nat /\ i - 1 \in Nat /\ i \in 1..Len(ps) /\ i \in 1..Len(qs)
  BY <1>1, <1>2
<1>4. AgreeUpTo(rs, ps, i - 1) /\ AgreeUpTo(qs, us, i - 1)
  <2>1. i - 1 \in 0..Len(ps) /\ i - 1 \in 0..Len(qs)
    BY <1>3
  <2>2. AgreeUpTo(ps, rs, i - 1) /\ AgreeUpTo(qs, us, i - 1)
    BY <1>1, <2>1, AgreeFacts
  <2> QED BY <1>3, <2>2, AgreeFacts
<1>5. AgreeUpTo(rs, us, i - 1)
  <2>1. AgreeUpTo(rs, qs, i - 1)
    BY <1>2, <1>3, <1>4, AgreeFacts
  <2> QED BY <1>3, <1>4, <2>1, AgreeFacts
<1>6. SameKind(ps[i], rs[i]) /\ SameKind(qs[i], us[i])
  BY <1>1, <1>3 DEF AgreeUpTo
<1>7. ~IsWild(rs[i]) /\ IsWild(us[i])
  BY <1>2, <1>6, KindFacts
<1> QED BY <1>1, <1>3, <1>5, <1>7 DEF Beats

LEMMA BeatsOneWay ==
  ASSUME NEW ps \in Seq(Parts), NEW qs \in Seq(Parts), Beats(ps, qs)
  PROVE  ~Beats(qs, ps)
<1>1. SUFFICES ASSUME Beats(qs, ps) PROVE FALSE
  OBVIOUS
<1>2. DOMAIN ps = 1..Len(ps) /\ DOMAIN qs = 1..Len(qs) /\ Len(ps) \in Nat /\ Len(qs) \in Nat
  BY LenProperties
<1>3. PICK i \in 1..Len(ps) : /\ i <= Len(qs) /\ AgreeUpTo(ps, qs, i - 1)
                              /\ ~IsWild(ps[i]) /\ IsWild(qs[i])
  BY <1>2 DEF Beats
<1>4. PICK j \in 1..Len(qs) : /\ j <= Len(ps) /\ AgreeUpTo(qs, ps, j - 1)
                              /\ ~IsWild(qs[j]) /\ IsWild(ps[j])
  BY <1>1, <1>2 DEF Beats
<1>5. CASE i < j
  <2>1. i \in 1..j - 1
    BY <1>2, <1>3, <1>4, <1>5
  <2>2. SameKind(qs[i], ps[i])
    BY <1>4, <2>1 DEF AgreeUpTo
  <2> QED BY <1>3, <2>2, KindFacts
<1>6. CASE j < i
  <2>1. j \in 1..i - 1
    BY <1>2, <1>3, <1>4, <1>6
  <2>2. SameKind(ps[j], qs[j])
    BY <1>3, <2>1 DEF AgreeUpTo
  <2> QED BY <1>4, <2>2, KindFacts
<1>7. CASE i = j
  BY <1>3, <1>4, <1>7
<1> QED BY <1>3, <1>4, <1>5, <1>6, <1>7

LEMMA KinUnbeaten ==
  ASSUME NEW ps \in Seq(Parts), NEW qs \in Seq(Parts), Kin(ps, qs)
  PROVE  ~Beats(ps, qs)
<1>1. SUFFICES ASSUME Beats(ps, qs) PROVE FALSE
  OBVIOUS
<1>2. PICK i \in DOMAIN ps : ~IsWild(ps[i]) /\ IsWild(qs[i])
  BY <1>1 DEF Beats
<1>3. i \in 1..Len(ps)
  BY <1>2, LenProperties
<1>4. SameKind(ps[i], qs[i])
  BY <1>3 DEF Kin, AgreeUpTo
<1> QED BY <1>2, <1>4, KindFacts

(* A route of parts ps answers a path of parts ss.                         *)
FitsParts(ps, ss) ==
  /\ Len(ps) <= Len(ss)
  /\ Len(ps) = Len(ss) \/ (Len(ps) # 0 /\ ps[Len(ps)] \in Stars)
  /\ \A i \in 1..Len(ps) : ps[i] = ss[i] \/ IsWild(ps[i])

LEMMA KinFits ==
  ASSUME NEW ps \in Seq(Parts), NEW qs \in Seq(Parts), NEW ss \in Seq(Parts), Kin(ps, qs),
         FitsParts(ps, ss)
  PROVE  FitsParts(qs, ss)
<1>1. Len(ps) \in Nat /\ Len(qs) = Len(ps) /\ AgreeUpTo(ps, qs, Len(ps))
  BY LenProperties DEF Kin
<1>2. Len(ps) # 0 => Len(ps) \in 1..Len(ps)
  BY <1>1
<1>3. \A i \in 1..Len(ps) : SameKind(ps[i], qs[i])
  BY <1>1 DEF AgreeUpTo
<1>4. \A i \in 1..Len(ps) : qs[i] = ss[i] \/ IsWild(qs[i])
  <2> SUFFICES ASSUME NEW i \in 1..Len(ps) PROVE qs[i] = ss[i] \/ IsWild(qs[i])
    OBVIOUS
  <2>1. ps[i] = ss[i] \/ IsWild(ps[i])
    BY DEF FitsParts
  <2> QED BY <1>3, <2>1, KindFacts
<1>5. Len(ps) # 0 /\ ps[Len(ps)] \in Stars => qs[Len(ps)] \in Stars
  BY <1>2, <1>3, KindFacts
<1> QED BY <1>1, <1>4, <1>5 DEF FitsParts

LEMMA FitsIs ==
  ASSUME NEW pattern \in Seq(Segs), NEW path \in Seq(Segs)
  PROVE  Fits(pattern, path) <=> FitsParts(ParsePattern(pattern), ParsePattern(path))
<1> DEFINE ps == ParsePattern(pattern)
           ss == ParsePattern(path)
<1>1. /\ ps \in Seq(Parts) /\ ss \in Seq(Parts) /\ Len(ps) \in Nat /\ Len(ss) \in Nat
      /\ DOMAIN ps = 1..Len(ps) /\ (ps # << >> <=> Len(ps) # 0)
  BY Parsed, LenProperties, EmptySeq
<1>2. Fits(pattern, path) <=>
        /\ \/ Len(ps) = Len(ss)
           \/ ps # << >> /\ Last(ps) \in Stars /\ Len(ps) <= Len(ss)
        /\ \A i \in DOMAIN ps : ps[i] = ss[i] \/ IsWild(ps[i])
  BY DEF Fits
<1> HIDE DEF ps, ss
<1>3. Fits(pattern, path) <=> FitsParts(ps, ss)
  BY <1>1, <1>2 DEF FitsParts, Last
<1> QED BY <1>3 DEF ps, ss

-----------------------------------------------------------------------------
(* The nodes of a trie: each has its children as nodes, and is a child of  *)
(* what it begins with.                                                    *)
Kids(t, n) == t[n].children

Shape(t) ==
  /\ << >> \in DOMAIN t /\ DOMAIN t \subseteq Seq(Parts)
  /\ \A n \in DOMAIN t :
       /\ t[n] = [pattern |-> t[n].pattern, children |-> t[n].children]
       /\ Kids(t, n) \in Seq(Parts)
       /\ \A k \in 1..Len(Kids(t, n)) : Append(n, Kids(t, n)[k]) \in DOMAIN t
       /\ \A k \in 1..Len(n) :
            /\ SubSeq(n, 1, k - 1) \in DOMAIN t
            /\ \E j \in 1..Len(Kids(t, SubSeq(n, 1, k - 1))) :
                 Kids(t, SubSeq(n, 1, k - 1))[j] = n[k]

LEMMA NodeFacts ==
  ASSUME NEW t, Shape(t), NEW n \in DOMAIN t
  PROVE  /\ n \in Seq(Parts) /\ Len(n) \in Nat /\ DOMAIN n = 1..Len(n)
         /\ \A i \in 1..Len(n) : n[i] \in Parts
         /\ n = << >> <=> Len(n) = 0
         /\ Kids(t, n) \in Seq(Parts) /\ Len(Kids(t, n)) \in Nat
         /\ \A k \in 1..Len(Kids(t, n)) :
              /\ Kids(t, n)[k] \in Parts /\ Append(n, Kids(t, n)[k]) \in DOMAIN t
BY LenProperties, ElementOfSeq, EmptySeq DEF Shape

(* A node that goes on from another goes on with one of its children.      *)
LEMMA ChildOn ==
  ASSUME NEW t, Shape(t), NEW n \in DOMAIN t, NEW d \in DOMAIN t, Len(n) < Len(d),
         \A i \in 1..Len(n) : d[i] = n[i]
  PROVE  \E j \in 1..Len(Kids(t, n)) : Kids(t, n)[j] = d[Len(n) + 1]
<1> DEFINE k == Len(n) + 1
<1>1. /\ n \in Seq(Parts) /\ d \in Seq(Parts) /\ Len(n) \in Nat /\ Len(d) \in Nat
      /\ k \in 1..Len(d) /\ k - 1 = Len(n) /\ Len(n) \in 0..Len(d)
  BY NodeFacts
<1>2. SubSeq(d, 1, k - 1) = n
  <2> DEFINE s == SubSeq(d, 1, Len(n))
  <2>1. s \in Seq(Parts) /\ Len(s) = Len(n) /\ \A i \in 1..Len(n) : s[i] = d[i]
    BY <1>1, BeginningOf
  <2> HIDE DEF s
  <2>2. s = n
    BY <1>1, <2>1, SeqEqual
  <2> QED BY <1>1, <2>2 DEF s
<1> HIDE DEF k
<1>3. \E j \in 1..Len(Kids(t, SubSeq(d, 1, k - 1))) :
        Kids(t, SubSeq(d, 1, k - 1))[j] = d[k]
  BY <1>1 DEF Shape
<1> QED BY <1>2, <1>3 DEF k

(* Every node but the root is a child.                                     *)
LEMMA ParentOf ==
  ASSUME NEW t, Shape(t), NEW d \in DOMAIN t, NEW l \in Nat, Len(d) = l + 1
  PROVE  \E m \in DOMAIN t : \E j \in 1..Len(Kids(t, m)) :
           Len(m) = l /\ d = Append(m, Kids(t, m)[j]) /\ d[l + 1] = Kids(t, m)[j]
<1> DEFINE m == SubSeq(d, 1, l)
<1>1. d \in Seq(Parts) /\ Len(d) \in Nat /\ l + 1 \in 1..Len(d) /\ (l + 1) - 1 = l /\ l \in 0..Len(d)
  BY NodeFacts
<1>2. m \in Seq(Parts) /\ Len(m) = l /\ \A i \in 1..l : m[i] = d[i]
  BY <1>1, BeginningOf
<1>3. m \in DOMAIN t /\ \E j \in 1..Len(Kids(t, m)) : Kids(t, m)[j] = d[l + 1]
  BY <1>1 DEF Shape
<1> HIDE DEF m
<1>4. PICK j \in 1..Len(Kids(t, m)) : Kids(t, m)[j] = d[l + 1]
  BY <1>3
<1> DEFINE c == Kids(t, m)[j]
<1>5. c \in Parts /\ c = d[l + 1]
  BY <1>3, <1>4, NodeFacts
<1> HIDE DEF c
<1>6. /\ Append(m, c) \in Seq(Parts) /\ Len(Append(m, c)) = l + 1
      /\ \A i \in 1..l : Append(m, c)[i] = m[i]
      /\ Append(m, c)[l + 1] = c
  BY <1>2, <1>5, AppendProperties
<1>7. \A i \in 1..l + 1 : d[i] = Append(m, c)[i]
  <2> SUFFICES ASSUME NEW i \in 1..l + 1 PROVE d[i] = Append(m, c)[i]
    OBVIOUS
  <2>1. i \in 1..l \/ i = l + 1
    OBVIOUS
  <2> QED BY <1>2, <1>5, <1>6, <2>1
<1>8. d = Append(m, c)
  BY <1>1, <1>6, <1>7, SeqEqual
<1> QED BY <1>2, <1>3, <1>4, <1>8 DEF c

(* A trie with one more node, below n.                                     *)
Grown(t, u, n, part) ==
  /\ DOMAIN u = DOMAIN t \cup {Append(n, part)} /\ Append(n, part) \notin DOMAIN t
  /\ u[Append(n, part)] = NewNode
  /\ \A m \in DOMAIN t :
       u[m] = [pattern  |-> t[m].pattern,
               children |-> IF m = n THEN Append(Kids(t, n), part) ELSE Kids(t, m)]

NoneFits(t, n, part) ==
  \A k \in 1..Len(Kids(t, n)) : Kids(t, n)[k] # part /\ ~IsWild(Kids(t, n)[k])

FirstFit(t, n, part, i) ==
  /\ i \in 1..Len(Kids(t, n))
  /\ Kids(t, n)[i] = part \/ IsWild(Kids(t, n)[i])
  /\ \A k \in 1..i - 1 : Kids(t, n)[k] # part /\ ~IsWild(Kids(t, n)[k])

LEMMA DescendIs ==
  ASSUME NEW t, Shape(t), NEW n \in DOMAIN t, NEW part \in Parts
  PROVE  LET r == Descend(t, n, part)
         IN \/ /\ r.trie = t
               /\ \E i : FirstFit(t, n, part, i) /\ r.at = Append(n, Kids(t, n)[i])
            \/ NoneFits(t, n, part) /\ Grown(t, r.trie, n, part) /\ r.at = Append(n, part)
<1> DEFINE cs == Kids(t, n)
           I == {i \in 1..Len(cs) : cs[i] = part \/ IsWild(cs[i])}
           r == Descend(t, n, part)
           f == MatchFirstChild(t[n], part)
<1>1. /\ n \in Seq(Parts) /\ Len(n) \in Nat /\ cs \in Seq(Parts) /\ Len(cs) \in Nat
  BY NodeFacts
<1>2. f = IF I # {} THEN Min(I) ELSE 0
  BY DEF MatchFirstChild, SelectInSeq, Kids
<1>3. r = IF f # 0
          THEN [trie |-> t, at |-> Append(n, cs[f])]
          ELSE [trie |-> Put([t EXCEPT ![n].children = Append(@, part)],
                             Append(n, part), NewNode),
                at   |-> Append(n, part)]
  BY DEF Descend, Kids
<1> HIDE DEF f, r
<1>4. CASE I # {}
  <2> DEFINE i == Min(I)
  <2>1. i \in I /\ \A k \in I : i <= k
    <3>1. I \subseteq Nat
      OBVIOUS
    <3> HIDE DEF I
    <3> QED BY <1>4, <3>1, MinOf
  <2>2. f = i
    BY <1>2, <1>4
  <2> HIDE DEF i, cs
  <2>3. i \in 1..Len(cs) /\ (cs[i] = part \/ IsWild(cs[i]))
    BY <2>1
  <2>4. ASSUME NEW k \in 1..i - 1 PROVE cs[k] # part /\ ~IsWild(cs[k])
    <3>1. k \in 1..Len(cs) /\ k \notin I
      BY <1>1, <2>1, <2>3
    <3> QED BY <3>1
  <2>5. FirstFit(t, n, part, i)
    BY <2>3, <2>4 DEF FirstFit, cs
  <2>6. r.trie = t /\ r.at = Append(n, cs[i])
    BY <1>3, <2>2, <2>3
  <2> QED BY <2>5, <2>6 DEF r, cs
<1>5. CASE I = {}
  <2> DEFINE e == Append(n, part)
             v == [t EXCEPT ![n].children = Append(@, part)]
             u == Put(v, e, NewNode)
  <2>1. f = 0
    BY <1>2, <1>5
  <2>2. r.trie = u /\ r.at = e
    BY <1>3, <2>1
  <2>3. NoneFits(t, n, part)
    BY <1>5 DEF NoneFits
  <2>4. e \in Seq(Parts) /\ Len(e) = Len(n) + 1 /\ e[Len(n) + 1] = part
        /\ \A i \in 1..Len(n) : e[i] = n[i]
    BY <1>1, AppendProperties
  <2> HIDE DEF e
  <2>5. e \notin DOMAIN t
    <3> SUFFICES ASSUME e \in DOMAIN t PROVE FALSE
      OBVIOUS
    <3>1. Len(n) < Len(e)
      BY <1>1, <2>4
    <3>2. PICK j \in 1..Len(Kids(t, n)) : Kids(t, n)[j] = e[Len(n) + 1]
      BY <2>4, <3>1, ChildOn
    <3> QED BY <2>3, <2>4, <3>2 DEF NoneFits
  <2>6. /\ DOMAIN v = DOMAIN t
        /\ \A m \in DOMAIN t : m # n => v[m] = t[m]
        /\ v[n] = [t[n] EXCEPT !.children = Append(Kids(t, n), part)]
    BY DEF Kids
  <2>7. \A m \in DOMAIN t : t[m] = [pattern |-> t[m].pattern, children |-> Kids(t, m)]
    BY DEF Shape, Kids
  <2>8. \A m \in DOMAIN t :
          v[m] = [pattern  |-> t[m].pattern,
                  children |-> IF m = n THEN Append(Kids(t, n), part) ELSE Kids(t, m)]
    <3> HIDE DEF v
    <3> SUFFICES ASSUME NEW m \in DOMAIN t
                 PROVE v[m] = [pattern  |-> t[m].pattern,
                  children |-> IF m = n THEN Append(Kids(t, n), part) ELSE Kids(t, m)]
      OBVIOUS
    <3>1. CASE m = n
      BY <2>6, <2>7, <3>1
    <3>2. CASE m # n
      BY <2>6, <2>7, <3>2
    <3> QED BY <3>1, <3>2
  <2> HIDE DEF v
  <2>9. DOMAIN u = DOMAIN t \cup {e} /\ u[e] = NewNode /\ \A m \in DOMAIN t : u[m] = v[m]
    BY <2>5, <2>6 DEF Put
  <2> HIDE DEF u
  <2>10. Grown(t, u, n, part)
    BY <2>5, <2>8, <2>9 DEF Grown, e
  <2> QED BY <2>2, <2>3, <2>10 DEF r, e
<1> QED BY <1>4, <1>5

LEMMA GrownFacts ==
  ASSUME NEW t, NEW u, NEW n, NEW part, Grown(t, u, n, part)
  PROVE  /\ DOMAIN t \subseteq DOMAIN u
         /\ Kids(u, Append(n, part)) = << >> /\ u[Append(n, part)].pattern = << >>
         /\ \A m \in DOMAIN t :
              /\ u[m].pattern = t[m].pattern
              /\ Kids(u, m) = IF m = n THEN Append(Kids(t, n), part) ELSE Kids(t, m)
              /\ u[m] = [pattern |-> u[m].pattern, children |-> Kids(u, m)]
         /\ u[Append(n, part)] = [pattern |-> << >>, children |-> << >>]
<1>1. u[Append(n, part)] = [pattern |-> << >>, children |-> << >>]
  BY DEF Grown, NewNode
<1>2. ASSUME NEW m \in DOMAIN t
      PROVE  /\ u[m].pattern = t[m].pattern
             /\ Kids(u, m) = IF m = n THEN Append(Kids(t, n), part) ELSE Kids(t, m)
             /\ u[m] = [pattern |-> u[m].pattern, children |-> Kids(u, m)]
  <2> DEFINE cs == IF m = n THEN Append(Kids(t, n), part) ELSE Kids(t, m)
  <2>1. u[m] = [pattern |-> t[m].pattern, children |-> cs]
    BY DEF Grown
  <2> HIDE DEF cs
  <2>2. u[m].pattern = t[m].pattern /\ u[m].children = cs
    BY <2>1
  <2> QED BY <2>1, <2>2 DEF cs, Kids
<1>3. DOMAIN t \subseteq DOMAIN u
  BY DEF Grown
<1> QED BY <1>1, <1>2, <1>3 DEF Kids

LEMMA GrownPatterns ==
  ASSUME NEW t, NEW u, NEW n, NEW part, Grown(t, u, n, part)
  PROVE  \A m \in DOMAIN t : u[m].pattern = t[m].pattern
BY DEF Grown

LEMMA GrownShape ==
  ASSUME NEW t, Shape(t), NEW n \in DOMAIN t, NEW part \in Parts, NEW u, Grown(t, u, n, part)
  PROVE  Shape(u)
<1> DEFINE e == Append(n, part)
<1>1. /\ n \in Seq(Parts) /\ Len(n) \in Nat
      /\ Kids(t, n) \in Seq(Parts) /\ Len(Kids(t, n)) \in Nat
  BY NodeFacts
<1>2. /\ e \in Seq(Parts) /\ Len(e) = Len(n) + 1 /\ e[Len(n) + 1] = part
      /\ \A i \in 1..Len(n) : e[i] = n[i]
  BY <1>1, AppendProperties
<1>3. /\ Append(Kids(t, n), part) \in Seq(Parts)
      /\ Len(Append(Kids(t, n), part)) = Len(Kids(t, n)) + 1
      /\ Append(Kids(t, n), part)[Len(Kids(t, n)) + 1] = part
      /\ \A i \in 1..Len(Kids(t, n)) : Append(Kids(t, n), part)[i] = Kids(t, n)[i]
  BY <1>1, AppendProperties
<1>4. /\ DOMAIN u = DOMAIN t \cup {e}
      /\ Kids(u, e) = << >> /\ u[e] = [pattern |-> u[e].pattern, children |-> Kids(u, e)]
      /\ \A m \in DOMAIN t :
           /\ Kids(u, m) = IF m = n THEN Append(Kids(t, n), part) ELSE Kids(t, m)
           /\ u[m] = [pattern |-> u[m].pattern, children |-> Kids(u, m)]
  <2>1. DOMAIN u = DOMAIN t \cup {e}
    BY DEF Grown
  <2>2. Kids(u, e) = << >> /\ u[e] = [pattern |-> u[e].pattern, children |-> Kids(u, e)]
    BY GrownFacts
  <2>3. \A m \in DOMAIN t :
           /\ Kids(u, m) = IF m = n THEN Append(Kids(t, n), part) ELSE Kids(t, m)
           /\ u[m] = [pattern |-> u[m].pattern, children |-> Kids(u, m)]
    BY GrownFacts
  <2> HIDE DEF e
  <2> QED BY <2>1, <2>2, <2>3
<1>5. \A m \in DOMAIN t : \A j \in 1..Len(Kids(t, m)) :
        j \in 1..Len(Kids(u, m)) /\ Kids(u, m)[j] = Kids(t, m)[j]
  <2> SUFFICES ASSUME NEW m \in DOMAIN t, NEW j \in 1..Len(Kids(t, m))
               PROVE  j \in 1..Len(Kids(u, m)) /\ Kids(u, m)[j] = Kids(t, m)[j]
    OBVIOUS
  <2>1. CASE m = n
    <3>1. Kids(u, m) = Append(Kids(t, n), part) /\ j \in 1..Len(Kids(t, n))
      BY <1>4, <2>1
    <3> QED BY <1>1, <1>3, <2>1, <3>1
  <2>2. CASE m # n
    BY <1>4, <2>2
  <2> QED BY <2>1, <2>2
<1>6. ASSUME NEW m \in DOMAIN u
      PROVE  /\ u[m] = [pattern |-> u[m].pattern, children |-> u[m].children]
             /\ Kids(u, m) \in Seq(Parts)
             /\ \A k \in 1..Len(Kids(u, m)) : Append(m, Kids(u, m)[k]) \in DOMAIN u
  <2> HIDE DEF e
  <2>1. CASE m = e
    <3>1. Kids(u, m) = << >> /\ u[m] = [pattern |-> u[m].pattern, children |-> u[m].children]
      BY <1>4, <2>1 DEF Kids
    <3>2. << >> \in Seq(Parts) /\ Len(<< >>) = 0
      BY EmptySeq
    <3> QED BY <3>1, <3>2
  <2>2. CASE m \in DOMAIN t
    <3>1. u[m] = [pattern |-> u[m].pattern, children |-> u[m].children]
      BY <1>4, <2>2 DEF Kids
    <3>2. Kids(t, m) \in Seq(Parts)
          /\ \A k \in 1..Len(Kids(t, m)) : Append(m, Kids(t, m)[k]) \in DOMAIN t
      BY <2>2, NodeFacts
    <3>3. CASE m # n
      BY <1>4, <2>2, <3>1, <3>2, <3>3
    <3>4. CASE m = n
      <4>1. Kids(u, m) = Append(Kids(t, n), part)
        BY <1>4, <2>2, <3>4
      <4>2. ASSUME NEW k \in 1..Len(Kids(u, m)) PROVE Append(m, Kids(u, m)[k]) \in DOMAIN u
        <5>1. k \in 1..Len(Kids(t, n)) \/ k = Len(Kids(t, n)) + 1
          BY <1>1, <1>3, <4>1
        <5>2. CASE k \in 1..Len(Kids(t, n))
          BY <1>3, <1>4, <3>2, <3>4, <4>1, <5>2
        <5>3. CASE k = Len(Kids(t, n)) + 1
          BY <1>3, <1>4, <3>4, <4>1, <5>3 DEF e
        <5> QED BY <5>1, <5>2, <5>3
      <4> QED BY <1>3, <3>1, <4>1, <4>2
    <3> QED BY <3>3, <3>4
  <2> QED BY <1>4, <2>1, <2>2
<1>7. ASSUME NEW m \in DOMAIN u, NEW k \in 1..Len(m)
      PROVE  /\ SubSeq(m, 1, k - 1) \in DOMAIN u
             /\ \E j \in 1..Len(Kids(u, SubSeq(m, 1, k - 1))) :
                  Kids(u, SubSeq(m, 1, k - 1))[j] = m[k]
  <2>1. ASSUME NEW d \in DOMAIN t, NEW i \in 1..Len(d)
        PROVE  /\ SubSeq(d, 1, i - 1) \in DOMAIN u
               /\ \E j \in 1..Len(Kids(u, SubSeq(d, 1, i - 1))) :
                    Kids(u, SubSeq(d, 1, i - 1))[j] = d[i]
    <3> DEFINE s == SubSeq(d, 1, i - 1)
    <3>1. s \in DOMAIN t /\ \E j \in 1..Len(Kids(t, s)) : Kids(t, s)[j] = d[i]
      BY DEF Shape
    <3> HIDE DEF s
    <3>2. \E j \in 1..Len(Kids(u, s)) : Kids(u, s)[j] = d[i]
      BY <1>5, <3>1
    <3> QED BY <1>4, <3>1, <3>2 DEF s
  <2>2. CASE m \in DOMAIN t
    BY <2>1, <2>2
  <2>3. CASE m = e
    <3> DEFINE s == SubSeq(e, 1, k - 1)
    <3>1. k \in 1..Len(n) + 1 /\ k - 1 \in 0..Len(n) /\ k - 1 \in 0..Len(e) /\ k - 1 \in Nat
      <4> HIDE DEF e
      <4> QED BY <1>1, <1>2, <2>3
    <3>2. s \in Seq(Parts) /\ Len(s) = k - 1 /\ \A i \in 1..k - 1 : s[i] = e[i]
      <4> DEFINE o == k - 1
      <4> HIDE DEF e, o
      <4>1. o \in 0..Len(e)
        BY <3>1 DEF o
      <4>2. SubSeq(e, 1, o) \in Seq(Parts) /\ Len(SubSeq(e, 1, o)) = o
            /\ \A i \in 1..o : SubSeq(e, 1, o)[i] = e[i]
        BY <1>2, <4>1, BeginningOf
      <4> QED BY <4>2 DEF o
    <3>3. /\ SubSeq(n, 1, k - 1) \in Seq(Parts) /\ Len(SubSeq(n, 1, k - 1)) = k - 1
          /\ \A i \in 1..k - 1 : SubSeq(n, 1, k - 1)[i] = n[i]
      BY <1>1, <3>1, BeginningOf
    <3> HIDE DEF s, e
    <3>4. s = SubSeq(n, 1, k - 1)
      <4>1. \A i \in 1..k - 1 : s[i] = SubSeq(n, 1, k - 1)[i]
        BY <1>1, <1>2, <3>1, <3>2, <3>3
      <4> QED BY <3>2, <3>3, <4>1, SeqEqual
    <3>5. CASE k = Len(n) + 1
      <4>1. s = n
        <5>1. k - 1 = Len(n)
          BY <1>1, <3>5
        <5> QED BY <1>1, <3>4, <5>1, SubSeqFull
      <4>2. Len(Kids(t, n)) + 1 \in 1..Len(Kids(u, n)) /\ Kids(u, n)[Len(Kids(t, n)) + 1] = e[k]
        BY <1>1, <1>2, <1>3, <1>4, <3>5
      <4> QED BY <1>4, <2>3, <4>1, <4>2 DEF s
    <3>6. CASE k # Len(n) + 1
      <4>1. k \in 1..Len(n)
        BY <1>1, <3>1, <3>6
      <4>2. e[k] = n[k]
        BY <1>2, <4>1
      <4>3. /\ SubSeq(n, 1, k - 1) \in DOMAIN u
            /\ \E j \in 1..Len(Kids(u, SubSeq(n, 1, k - 1))) :
                 Kids(u, SubSeq(n, 1, k - 1))[j] = n[k]
        BY <2>1, <4>1
      <4>4. s \in DOMAIN u /\ \E j \in 1..Len(Kids(u, s)) : Kids(u, s)[j] = e[k]
        BY <3>4, <4>2, <4>3
      <4> QED BY <2>3, <4>4 DEF s
    <3> QED BY <3>5, <3>6
  <2> QED BY <1>4, <2>2, <2>3
<1>8. << >> \in DOMAIN u /\ DOMAIN u \subseteq Seq(Parts)
  BY <1>2, <1>4 DEF Shape
<1> QED BY <1>6, <1>7, <1>8 DEF Shape

-----------------------------------------------------------------------------
(* The nodes against the parts rt[1], ..., rt[J] of registered patterns.   *)

(* One node for each kind, and a wildcard behind the others.               *)
Narrow(t) ==
  /\ \A n \in DOMAIN t : \A k \in 1..Len(Kids(t, n)) - 1 : ~IsWild(Kids(t, n)[k])
  /\ \A n, m \in DOMAIN t : Kin(n, m) => n = m

(* Each beginning of a pattern has its node.                               *)
Reaches(t, ps, l) ==
  \A i \in 0..l : \E n \in DOMAIN t : Len(n) = i /\ AgreeUpTo(n, ps, i)

Covers(t, rt, J) == \A i \in 1..J : Reaches(t, rt[i], Len(rt[i]))

(* Each node begins a pattern, or the one whose first l parts are in.      *)
Within(t, rt, J, ps, l) ==
  \A n \in DOMAIN t : \/ n = << >>
                      \/ \E i \in 1..J : AgreeUpTo(n, rt[i], Len(n))
                      \/ Len(n) <= l /\ AgreeUpTo(n, ps, Len(n))

(* A node has the last pattern that ends there.                            *)
Holds(t, tab, rt, J) ==
  \A n \in DOMAIN t :
    \/ t[n].pattern = << >> /\ \A i \in 1..J : ~Kin(n, rt[i])
    \/ \E i \in 1..J : /\ Kin(n, rt[i]) /\ t[n].pattern = tab[i]
                       /\ \A k \in 1..J : Kin(n, rt[k]) => k <= i

(* What insert has done after l parts of ps.                               *)
Walked(t, at, l, tab, rt, J, ps) ==
  /\ Shape(t) /\ Narrow(t) /\ Covers(t, rt, J) /\ Holds(t, tab, rt, J)
  /\ Within(t, rt, J, ps, l) /\ Reaches(t, ps, l)
  /\ at \in DOMAIN t /\ Len(at) = l /\ AgreeUpTo(at, ps, l)

Straight(rt, J, ps) ==
  \A i \in 1..J : \A l \in 1..Len(ps) :
    /\ l <= Len(rt[i]) /\ AgreeUpTo(rt[i], ps, l - 1)
    /\ IsWild(rt[i][l]) /\ ~SameKind(rt[i][l], ps[l])
    => \E k \in 1..J : AgreeUpTo(rt[k], ps, l)

LEMMA AgreeAppend ==
  ASSUME NEW n \in Seq(Parts), NEW c \in Parts, NEW ps \in Seq(Parts), NEW l \in Nat, Len(n) = l
  PROVE  AgreeUpTo(Append(n, c), ps, l + 1)
           <=> l + 1 <= Len(ps) /\ AgreeUpTo(n, ps, l) /\ SameKind(c, ps[l + 1])
<1> DEFINE e == Append(n, c)
<1>1. /\ e \in Seq(Parts) /\ Len(e) = l + 1 /\ \A i \in 1..l : e[i] = n[i]
      /\ e[l + 1] = c
  BY AppendProperties
<1>2. Len(ps) \in Nat
  BY LenProperties
<1> HIDE DEF e
<1>3. ASSUME AgreeUpTo(e, ps, l + 1)
      PROVE  l + 1 <= Len(ps) /\ AgreeUpTo(n, ps, l) /\ SameKind(c, ps[l + 1])
  <2>1. l + 1 <= Len(ps) /\ \A j \in 1..l + 1 : SameKind(e[j], ps[j])
    BY <1>3 DEF AgreeUpTo
  <2>2. l + 1 \in 1..l + 1 /\ \A j \in 1..l : j \in 1..l + 1
    OBVIOUS
  <2> QED BY <1>1, <1>2, <2>1, <2>2 DEF AgreeUpTo
<1>4. ASSUME l + 1 <= Len(ps), AgreeUpTo(n, ps, l), SameKind(c, ps[l + 1])
      PROVE  AgreeUpTo(e, ps, l + 1)
  <2>1. ASSUME NEW j \in 1..l + 1 PROVE SameKind(e[j], ps[j])
    <3>1. j \in 1..l \/ j = l + 1
      OBVIOUS
    <3> QED BY <1>1, <1>4, <3>1 DEF AgreeUpTo
  <2> QED BY <1>1, <1>4, <2>1 DEF AgreeUpTo
<1> QED BY <1>3, <1>4 DEF e

(* Of two nodes that agree the parents are one.                            *)
LEMMA SameParent ==
  ASSUME NEW t, Shape(t), Narrow(t), NEW n \in DOMAIN t, NEW l \in Nat, Len(n) = l,
         NEW m \in DOMAIN t, Len(m) = l + 1, AgreeUpTo(n, m, l)
  PROVE  \E j \in 1..Len(Kids(t, n)) : Kids(t, n)[j] = m[l + 1]
<1>1. PICK o \in DOMAIN t : \E j \in 1..Len(Kids(t, o)) :
        Len(o) = l /\ m = Append(o, Kids(t, o)[j]) /\ m[l + 1] = Kids(t, o)[j]
  BY ParentOf
<1>2. PICK j \in 1..Len(Kids(t, o)) :
        Len(o) = l /\ m = Append(o, Kids(t, o)[j]) /\ m[l + 1] = Kids(t, o)[j]
  BY <1>1
<1> DEFINE c == Kids(t, o)[j]
<1>3. n \in Seq(Parts) /\ o \in Seq(Parts) /\ c \in Parts
  BY NodeFacts
<1>4. m = Append(o, c)
  BY <1>2
<1> HIDE DEF c
<1>5. \A i \in 1..l : m[i] = o[i]
  BY <1>2, <1>3, <1>4, AppendProperties
<1>6. Kin(n, o)
  BY <1>2, <1>5 DEF Kin, AgreeUpTo
<1>7. n = o
  BY <1>6 DEF Narrow
<1> QED BY <1>2, <1>7

LEMMA WalkNew ==
  ASSUME NEW tab, NEW J \in Nat, NEW rt \in [1..J -> Seq(Parts)], NEW ps \in Seq(Parts),
         NEW t, NEW at, NEW l \in Nat, Walked(t, at, l, tab, rt, J, ps), l + 1 <= Len(ps),
         NEW u, NoneFits(t, at, ps[l + 1]), Grown(t, u, at, ps[l + 1])
  PROVE  Walked(u, Append(at, ps[l + 1]), l + 1, tab, rt, J, ps)
<1> DEFINE p == ps[l + 1]
           e == Append(at, p)
<1>1. /\ Shape(t) /\ Narrow(t) /\ Covers(t, rt, J) /\ Holds(t, tab, rt, J)
      /\ Within(t, rt, J, ps, l) /\ Reaches(t, ps, l)
      /\ at \in DOMAIN t /\ Len(at) = l /\ AgreeUpTo(at, ps, l)
  BY DEF Walked
<1>2. at \in Seq(Parts) /\ p \in Parts /\ Len(ps) \in Nat
  <2>1. Len(ps) \in Nat
    BY LenProperties
  <2>2. l + 1 \in 1..Len(ps)
    BY <2>1
  <2> QED BY <1>1, <2>1, <2>2, NodeFacts, ElementOfSeq
<1>3. /\ DOMAIN u = DOMAIN t \cup {e} /\ e \notin DOMAIN t
      /\ NoneFits(t, at, p) /\ Grown(t, u, at, p)
  BY DEF Grown
<1>4. /\ Kids(u, e) = << >> /\ u[e].pattern = << >>
      /\ \A m \in DOMAIN t :
           /\ u[m].pattern = t[m].pattern
           /\ Kids(u, m) = IF m = at THEN Append(Kids(t, at), p) ELSE Kids(t, m)
  <2> HIDE DEF p
  <2>1. /\ Kids(u, Append(at, p)) = << >> /\ u[Append(at, p)].pattern = << >>
        /\ \A m \in DOMAIN t :
             /\ u[m].pattern = t[m].pattern
             /\ Kids(u, m) = IF m = at THEN Append(Kids(t, at), p) ELSE Kids(t, m)
    <3>1. Grown(t, u, at, p)
      BY <1>3
    <3>2. Kids(u, Append(at, p)) = << >> /\ u[Append(at, p)].pattern = << >>
      BY <3>1, GrownFacts
    <3>3. \A m \in DOMAIN t :
            /\ u[m].pattern = t[m].pattern
            /\ Kids(u, m) = IF m = at THEN Append(Kids(t, at), p) ELSE Kids(t, m)
            /\ u[m] = [pattern |-> u[m].pattern, children |-> Kids(u, m)]
      BY <3>1, GrownFacts
    <3> QED BY <3>2, <3>3
  <2> QED BY <2>1
<1>5. Shape(u)
  BY <1>1, <1>2, <1>3, GrownShape
<1> HIDE DEF p
<1>6. /\ e \in Seq(Parts) /\ Len(e) = l + 1
      /\ \A i \in 1..l : e[i] = at[i]
      /\ e[l + 1] = p
  BY <1>1, <1>2, AppendProperties
<1>7. AgreeUpTo(e, ps, l + 1)
  BY <1>1, <1>2, AgreeAppend, KindFacts DEF p
<1> HIDE DEF e
<1>8. ASSUME NEW m \in DOMAIN t PROVE ~Kin(e, m)
  <2> SUFFICES ASSUME Kin(e, m) PROVE FALSE
    OBVIOUS
  <2>1. Len(m) = l + 1 /\ AgreeUpTo(e, m, l + 1) /\ m \in Seq(Parts)
    BY <1>1, <1>6, NodeFacts DEF Kin
  <2>2. AgreeUpTo(at, m, l) /\ SameKind(p, m[l + 1])
    BY <1>1, <1>2, <2>1, AgreeAppend DEF e
  <2>3. PICK j \in 1..Len(Kids(t, at)) : Kids(t, at)[j] = m[l + 1]
    BY <1>1, <2>1, <2>2, SameParent
  <2>4. Kids(t, at)[j] # p /\ ~IsWild(Kids(t, at)[j])
    BY <1>3 DEF NoneFits
  <2> QED BY <2>2, <2>3, <2>4, KindFacts
<1>9. Narrow(u)
  <2>1. ASSUME NEW n \in DOMAIN u, NEW k \in 1..Len(Kids(u, n)) - 1
        PROVE  ~IsWild(Kids(u, n)[k])
    <3>1. CASE n = e
      <4>1. Len(Kids(u, n)) = 0
        BY <1>4, <3>1
      <4> QED BY <4>1
    <3>2. CASE n \in DOMAIN t /\ n # at
      BY <1>1, <1>4, <3>2 DEF Narrow
    <3>3. CASE n = at
      <4> DEFINE cs == Kids(t, at)
      <4>1. cs \in Seq(Parts) /\ Len(cs) \in Nat /\ Kids(u, n) = Append(cs, p)
        BY <1>1, <1>4, <3>3, NodeFacts
      <4> HIDE DEF cs
      <4>2. Len(Append(cs, p)) = Len(cs) + 1 /\ \A i \in 1..Len(cs) : Append(cs, p)[i] = cs[i]
        BY <1>2, <4>1, AppendProperties
      <4>3. k \in 1..Len(cs) /\ Kids(u, n)[k] = cs[k]
        BY <4>1, <4>2
      <4> QED BY <1>3, <4>3 DEF NoneFits, cs
    <3> QED BY <1>1, <1>3, <3>1, <3>2, <3>3
  <2>2. ASSUME NEW n \in DOMAIN u, NEW m \in DOMAIN u, Kin(n, m) PROVE n = m
    <3>1. CASE n \in DOMAIN t /\ m \in DOMAIN t
      BY <1>1, <2>2, <3>1 DEF Narrow
    <3>2. CASE n = e /\ m \in DOMAIN t
      BY <1>8, <2>2, <3>2
    <3>3. CASE m = e /\ n \in DOMAIN t
      <4>1. Kin(m, n)
        BY <1>1, <1>6, <2>2, <3>3, NodeFacts, KinFacts
      <4> QED BY <1>8, <3>3, <4>1
    <3> QED BY <1>3, <3>1, <3>2, <3>3
  <2> QED BY <2>1, <2>2 DEF Narrow
<1>10. Covers(u, rt, J)
  BY <1>1, <1>3 DEF Covers, Reaches
<1>11. Holds(u, tab, rt, J)
  <2> SUFFICES ASSUME NEW n \in DOMAIN u
               PROVE  \/ u[n].pattern = << >> /\ \A i \in 1..J : ~Kin(n, rt[i])
                      \/ \E i \in 1..J : /\ Kin(n, rt[i]) /\ u[n].pattern = tab[i]
                                         /\ \A k \in 1..J : Kin(n, rt[k]) => k <= i
    BY DEF Holds
  <2>1. CASE n \in DOMAIN t
    BY <1>1, <1>4, <2>1 DEF Holds
  <2>2. CASE n = e
    <3>1. ASSUME NEW i \in 1..J, Kin(e, rt[i]) PROVE FALSE
      <4>1. rt[i] \in Seq(Parts) /\ Len(rt[i]) \in Nat
        BY LenProperties
      <4>2. PICK m \in DOMAIN t : Len(m) = Len(rt[i]) /\ AgreeUpTo(m, rt[i], Len(rt[i]))
        <5>1. Len(rt[i]) \in 0..Len(rt[i])
          BY <4>1
        <5> QED BY <1>1, <5>1 DEF Covers, Reaches
      <4>3. m \in Seq(Parts) /\ Kin(m, rt[i])
        BY <1>1, <4>2, NodeFacts DEF Kin
      <4>4. Kin(e, m)
        BY <1>6, <3>1, <4>1, <4>3, KinFacts
      <4> QED BY <1>8, <4>4
    <3> QED BY <1>4, <2>2, <3>1
  <2> QED BY <1>3, <2>1, <2>2
<1>12. Within(u, rt, J, ps, l + 1)
  <2> SUFFICES ASSUME NEW n \in DOMAIN u
               PROVE  \/ n = << >>
                      \/ \E i \in 1..J : AgreeUpTo(n, rt[i], Len(n))
                      \/ Len(n) <= l + 1 /\ AgreeUpTo(n, ps, Len(n))
    BY DEF Within
  <2>1. CASE n \in DOMAIN t
    <3>1. Len(n) \in Nat
      BY <1>1, <2>1, NodeFacts
    <3> QED BY <1>1, <2>1, <3>1 DEF Within
  <2>2. CASE n = e
    BY <1>6, <1>7, <2>2
  <2> QED BY <1>3, <2>1, <2>2
<1>13. Reaches(u, ps, l + 1)
  <2> SUFFICES ASSUME NEW i \in 0..l + 1
               PROVE  \E n \in DOMAIN u : Len(n) = i /\ AgreeUpTo(n, ps, i)
    BY DEF Reaches
  <2>1. CASE i = l + 1
    BY <1>3, <1>6, <1>7, <2>1
  <2>2. CASE i # l + 1
    <3>1. i \in 0..l
      BY <2>2
    <3> QED BY <1>1, <1>3, <3>1 DEF Reaches
  <2> QED BY <2>1, <2>2
<1>14. Walked(u, e, l + 1, tab, rt, J, ps)
  BY <1>3, <1>5, <1>6, <1>7, <1>9, <1>10, <1>11, <1>12, <1>13 DEF Walked
<1> QED BY <1>14 DEF e, p

LEMMA WalkFound ==
  ASSUME NEW tab, NEW J \in Nat, NEW rt \in [1..J -> Seq(Parts)], NEW ps \in Seq(Parts),
         Straight(rt, J, ps),
         NEW t, NEW at, NEW l \in Nat, Walked(t, at, l, tab, rt, J, ps), l + 1 <= Len(ps),
         NEW i, FirstFit(t, at, ps[l + 1], i)
  PROVE  Walked(t, Append(at, Kids(t, at)[i]), l + 1, tab, rt, J, ps)
<1> DEFINE p == ps[l + 1]
           c == Kids(t, at)[i]
           e == Append(at, c)
<1>1. /\ Shape(t) /\ Narrow(t) /\ Covers(t, rt, J) /\ Holds(t, tab, rt, J)
      /\ Within(t, rt, J, ps, l) /\ Reaches(t, ps, l)
      /\ at \in DOMAIN t /\ Len(at) = l /\ AgreeUpTo(at, ps, l)
  BY DEF Walked
<1>2. /\ i \in 1..Len(Kids(t, at)) /\ (c = p \/ IsWild(c))
      /\ \A k \in 1..i - 1 : Kids(t, at)[k] # p /\ ~IsWild(Kids(t, at)[k])
  BY DEF FirstFit
<1>3. /\ at \in Seq(Parts) /\ c \in Parts /\ p \in Parts /\ Len(ps) \in Nat /\ e \in DOMAIN t
      /\ Len(Kids(t, at)) \in Nat
  <2>1. Len(ps) \in Nat
    BY LenProperties
  <2>2. l + 1 \in 1..Len(ps)
    BY <2>1
  <2> QED BY <1>1, <1>2, <2>1, <2>2, NodeFacts, ElementOfSeq
<1> HIDE DEF c
<1>4. e \in Seq(Parts) /\ Len(e) = l + 1
  BY <1>1, <1>3, AppendProperties
<1>5. SameKind(c, p)
  <2> SUFFICES ASSUME ~SameKind(c, p) PROVE FALSE
    OBVIOUS
  <2>1. c # p /\ IsWild(c)
    BY <1>2, KindFacts
  <2>2. PICK o \in 1..J : AgreeUpTo(e, rt[o], l + 1)
    <3>1. e # << >> /\ ~(Len(e) <= l)
      <4> HIDE DEF e
      <4> QED BY <1>4, EmptySeq
    <3> QED BY <1>1, <1>3, <1>4, <3>1 DEF Within
  <2>3. rt[o] \in Seq(Parts)
    OBVIOUS
  <2>4. l + 1 <= Len(rt[o]) /\ AgreeUpTo(at, rt[o], l) /\ SameKind(c, rt[o][l + 1])
    BY <1>1, <1>3, <2>2, <2>3, AgreeAppend
  <2>5. IsWild(rt[o][l + 1]) /\ ~SameKind(rt[o][l + 1], p)
    BY <2>1, <2>4, KindFacts
  <2>6. AgreeUpTo(rt[o], ps, l)
    <3>1. AgreeUpTo(rt[o], at, l)
      BY <1>3, <2>3, <2>4, AgreeFacts
    <3> QED BY <1>1, <1>3, <2>3, <3>1, AgreeFacts
  <2>7. PICK k \in 1..J : AgreeUpTo(rt[k], ps, l + 1)
    <3>1. l + 1 \in 1..Len(ps) /\ (l + 1) - 1 = l
      BY <1>3
    <3> QED BY <2>4, <2>5, <2>6, <3>1 DEF Straight
  <2>8. rt[k] \in Seq(Parts) /\ Len(rt[k]) \in Nat
    BY LenProperties
  <2>9. PICK m \in DOMAIN t : Len(m) = l + 1 /\ AgreeUpTo(m, rt[k], l + 1)
    <3>1. l + 1 \in 0..Len(rt[k])
      BY <2>7, <2>8 DEF AgreeUpTo
    <3> QED BY <1>1, <3>1 DEF Covers, Reaches
  <2>10. m \in Seq(Parts) /\ AgreeUpTo(m, ps, l + 1)
    <3>1. m \in Seq(Parts) /\ l + 1 \in Nat
      BY <1>1, NodeFacts
    <3>2. \A rs \in Seq(Parts) : AgreeUpTo(rt[k], rs, l + 1) => AgreeUpTo(m, rs, l + 1)
      BY <2>8, <2>9, <3>1, AgreeFacts
    <3> QED BY <2>7, <3>1, <3>2
  <2>11. AgreeUpTo(at, m, l) /\ SameKind(m[l + 1], p)
    <3>1. AgreeUpTo(m, ps, l)
      <4>1. l \in 0..l + 1 /\ l + 1 \in Nat
        OBVIOUS
      <4> QED BY <2>10, <4>1, AgreeFacts
    <3>2. AgreeUpTo(ps, m, l)
      BY <2>10, <3>1, AgreeFacts
    <3>3. l + 1 \in 1..l + 1
      OBVIOUS
    <3>4. AgreeUpTo(at, m, l)
      BY <1>1, <1>3, <2>10, <3>2, AgreeFacts
    <3> QED BY <2>10, <3>3, <3>4 DEF AgreeUpTo
  <2>12. PICK j \in 1..Len(Kids(t, at)) : Kids(t, at)[j] = m[l + 1]
    <3>1. /\ Shape(t) /\ Narrow(t) /\ at \in DOMAIN t /\ Len(at) = l
          /\ m \in DOMAIN t /\ Len(m) = l + 1 /\ AgreeUpTo(at, m, l) /\ l \in Nat
      BY <1>1, <2>9, <2>11
    <3> QED BY ONLY <3>1, SameParent
  <2>13. ~(i < Len(Kids(t, at)))
    <3>1. i < Len(Kids(t, at)) => i \in 1..Len(Kids(t, at)) - 1
      BY <1>2, <1>3
    <3> QED BY <1>1, <2>1, <3>1 DEF Narrow, c
  <2>14. i # j
    BY <2>11, <2>12 DEF c
  <2>15. j \in 1..i - 1
    BY <1>2, <1>3, <2>13, <2>14
  <2>16. Kids(t, at)[j] # p /\ ~IsWild(Kids(t, at)[j])
    BY <1>2, <2>15
  <2> QED BY <2>11, <2>12, <2>16, KindFacts
<1>6. AgreeUpTo(e, ps, l + 1)
  BY <1>1, <1>3, <1>5, AgreeAppend
<1> HIDE DEF e
<1>7. Within(t, rt, J, ps, l + 1)
  <2>1. \A n \in DOMAIN t : Len(n) \in Nat
    BY <1>1, NodeFacts
  <2> QED BY <1>1, <2>1 DEF Within
<1>8. Reaches(t, ps, l + 1)
  <2> SUFFICES ASSUME NEW k \in 0..l + 1
               PROVE  \E n \in DOMAIN t : Len(n) = k /\ AgreeUpTo(n, ps, k)
    BY DEF Reaches
  <2>1. CASE k = l + 1
    BY <1>3, <1>4, <1>6, <2>1
  <2>2. CASE k # l + 1
    <3>1. k \in 0..l
      BY <2>2
    <3> QED BY <1>1, <3>1 DEF Reaches
  <2> QED BY <2>1, <2>2
<1>9. Walked(t, e, l + 1, tab, rt, J, ps)
  BY <1>1, <1>3, <1>4, <1>6, <1>7, <1>8 DEF Walked
<1> QED BY <1>9 DEF e, c

-----------------------------------------------------------------------------
(* The levels of insert (trie.go:42-62), and what the last one does.       *)
SetAt(v, at, pattern) == [v EXCEPT ![at].pattern = pattern]

Levels(w, t, ps, n) ==
  w = [i \in 0..n |->
         IF i = 0 THEN [trie |-> t, at |-> << >>]
         ELSE Descend(w[i - 1].trie, w[i - 1].at, ps[i])]

LEMMA OneMoreLevel ==
  ASSUME NEW t, NEW ps, NEW n \in Nat, NEW w, Levels(w, t, ps, n)
  PROVE  \E v : Levels(v, t, ps, n + 1)
<1> DEFINE more == Descend(w[n].trie, w[n].at, ps[n + 1])
           v == [i \in 0..n + 1 |-> IF i = n + 1 THEN more ELSE w[i]]
<1>1. \A i \in 0..n : v[i] = w[i]
  OBVIOUS
<1>2. v[n + 1] = more
  OBVIOUS
<1>3. \A i \in 0..n : w[i] = IF i = 0 THEN [trie |-> t, at |-> << >>]
                            ELSE Descend(w[i - 1].trie, w[i - 1].at, ps[i])
  BY DEF Levels
<1>4. v = [i \in 0..n + 1 |-> v[i]]
  OBVIOUS
<1> HIDE DEF v
<1>5. ASSUME NEW i \in 0..n + 1
      PROVE  v[i] = IF i = 0 THEN [trie |-> t, at |-> << >>]
                    ELSE Descend(v[i - 1].trie, v[i - 1].at, ps[i])
  <2>1. CASE i = n + 1
    <3>1. i # 0 /\ i - 1 = n /\ v[n] = w[n]
      BY <1>1, <2>1
    <3> QED BY <1>2, <2>1, <3>1
  <2>2. CASE i # n + 1
    <3>1. i \in 0..n /\ (i # 0 => i - 1 \in 0..n)
      BY <2>2
    <3>2. i # 0 => v[i - 1] = w[i - 1]
      BY <1>1, <3>1
    <3> QED BY <1>1, <1>3, <3>1, <3>2
  <2> QED BY <2>1, <2>2
<1>6. Levels(v, t, ps, n + 1)
  BY <1>4, <1>5 DEF Levels
<1> QED BY <1>6

LEMMA LevelsEnd ==
  ASSUME NEW t, NEW ps, NEW n \in Nat
  PROVE  \E w : Levels(w, t, ps, n)
<1> DEFINE M == {o \in Nat : ~ \E w : Levels(w, t, ps, o)}
<1>1. SUFFICES ASSUME M # {} PROVE FALSE
  OBVIOUS
<1>2. PICK o \in M : \A i \in M : o <= i
  <2>1. M \subseteq Nat
    OBVIOUS
  <2> HIDE DEF M
  <2> QED BY <1>1, <2>1, Least
<1>3. CASE o = 0
  <2>1. Levels([i \in 0..0 |-> [trie |-> t, at |-> << >>]], t, ps, 0)
    BY DEF Levels
  <2> QED BY <1>3, <2>1
<1>4. CASE o # 0
  <2>1. o - 1 \in Nat /\ o - 1 \notin M /\ (o - 1) + 1 = o
    BY <1>2, <1>4
  <2>2. PICK w : Levels(w, t, ps, o - 1)
    BY <2>1
  <2>3. \E v : Levels(v, t, ps, o)
    BY <2>1, <2>2, OneMoreLevel
  <2> QED BY <2>3
<1> QED BY <1>3, <1>4

LEMMA InsertIs ==
  ASSUME NEW t, NEW pattern, NEW ps, ps = ParsePattern(pattern), NEW n \in Nat, n = Len(ps)
  PROVE  \E w : /\ Levels(w, t, ps, n)
                /\ Insert(t, pattern) = SetAt(w[n].trie, w[n].at, pattern)
<1> DEFINE Def(g) == [i \in 0..n |->
                        IF i = 0 THEN [trie |-> t, at |-> << >>]
                        ELSE Descend(g[i - 1].trie, g[i - 1].at, ps[i])]
           w == CHOOSE g : g = Def(g)
<1>1. Insert(t, pattern) = SetAt(w[n].trie, w[n].at, pattern)
  BY DEF Insert, SetAt
<1>2. w = Def(w)
  <2>1. PICK g : Levels(g, t, ps, n)
    BY LevelsEnd
  <2>2. g = Def(g)
    BY <2>1 DEF Levels
  <2> HIDE DEF Def
  <2> QED BY <2>2
<1> HIDE DEF w
<1>3. Levels(w, t, ps, n)
  BY <1>2 DEF Levels
<1> QED BY <1>1, <1>3

(* A level grows the trie or not; patterns stay.                           *)
Older(t, v) ==
  \A m \in DOMAIN v : v[m].pattern = << >> \/ (m \in DOMAIN t /\ v[m].pattern = t[m].pattern)

LEMMA LevelsShape ==
  ASSUME NEW t, Shape(t), NEW ps \in Seq(Parts), NEW w, Levels(w, t, ps, Len(ps)),
         NEW i \in 0..Len(ps)
  PROVE  /\ Shape(w[i].trie) /\ Older(t, w[i].trie)
         /\ w[i].at \in DOMAIN w[i].trie /\ Len(w[i].at) = i
<1> DEFINE n == Len(ps)
           Fine(o) == /\ Shape(w[o].trie) /\ Older(t, w[o].trie)
                      /\ w[o].at \in DOMAIN w[o].trie /\ Len(w[o].at) = o
           Bad == {o \in 0..n : ~Fine(o)}
<1>1. n \in Nat
  BY LenProperties
<1>2. \A o \in 0..n : w[o] = IF o = 0 THEN [trie |-> t, at |-> << >>]
                            ELSE Descend(w[o - 1].trie, w[o - 1].at, ps[o])
  BY DEF Levels
<1>3. Bad = {}
  <2> SUFFICES ASSUME Bad # {} PROVE FALSE
    OBVIOUS
  <2>1. PICK o \in Bad : \A k \in Bad : o <= k
    <3>1. Bad \subseteq Nat
      OBVIOUS
    <3> HIDE DEF Bad
    <3> QED BY <3>1, Least
  <2>2. o \in 0..n /\ ~Fine(o)
    BY <2>1
  <2>3. CASE o = 0
    <3>1. w[0].trie = t /\ w[0].at = << >>
      BY <1>1, <1>2
    <3>2. << >> \in DOMAIN t /\ Len(<< >>) = 0
      BY EmptySeq DEF Shape
    <3>3. Fine(0)
      BY <3>1, <3>2 DEF Older
    <3> QED BY <2>2, <2>3, <3>3
  <2>4. CASE o # 0
    <3> DEFINE l == o - 1
               v == w[l].trie
               at == w[l].at
               p == ps[l + 1]
               r == Descend(v, at, p)
    <3>1. l \in 0..n /\ l \in Nat /\ l + 1 = o /\ l + 1 \in 1..n
      BY <1>1, <2>2, <2>4
    <3>2. Fine(l)
      <4> HIDE DEF Fine
      <4>1. l \notin Bad
        <5> HIDE DEF Bad
        <5> QED BY <1>1, <2>1, <2>2, <3>1
      <4> QED BY <3>1, <4>1
    <3>3. /\ Shape(v) /\ Older(t, v) /\ at \in DOMAIN v /\ Len(at) = l
          /\ p \in Parts /\ at \in Seq(Parts)
      <4>1. Shape(v) /\ Older(t, v) /\ at \in DOMAIN v /\ Len(at) = l
        BY <3>2
      <4>2. p \in Parts
        <5> HIDE DEF l
        <5> QED BY <3>1, ElementOfSeq
      <4> HIDE DEF v, at
      <4> QED BY <4>1, <4>2, NodeFacts
    <3>4. w[o] = r
      BY <1>2, <2>2, <2>4, <3>1
    <3> HIDE DEF l, v, at, p, Fine
    <3>5. \/ /\ r.trie = v
             /\ \E k : FirstFit(v, at, p, k) /\ r.at = Append(at, Kids(v, at)[k])
          \/ NoneFits(v, at, p) /\ Grown(v, r.trie, at, p) /\ r.at = Append(at, p)
      BY <3>3, DescendIs
    <3> HIDE DEF r
    <3>6. CASE \E k : r.trie = v /\ FirstFit(v, at, p, k) /\ r.at = Append(at, Kids(v, at)[k])
      <4>1. PICK k : r.trie = v /\ FirstFit(v, at, p, k) /\ r.at = Append(at, Kids(v, at)[k])
        BY <3>6
      <4> DEFINE c == Kids(v, at)[k]
      <4>2. k \in 1..Len(Kids(v, at))
        BY <4>1 DEF FirstFit
      <4>3. c \in Parts /\ Append(at, c) \in DOMAIN v
        BY <3>3, <4>2, NodeFacts
      <4> HIDE DEF c
      <4>4. Len(Append(at, c)) = o
        BY <3>1, <3>3, <4>3, AppendProperties
      <4>5. r.at = Append(at, c)
        BY <4>1 DEF c
      <4>6. Fine(o)
        BY <3>3, <3>4, <4>1, <4>3, <4>4, <4>5 DEF Fine
      <4> QED BY <2>2, <4>6
    <3>7. CASE NoneFits(v, at, p) /\ Grown(v, r.trie, at, p) /\ r.at = Append(at, p)
      <4> DEFINE u == r.trie
      <4>1. Shape(u)
        BY <3>3, <3>7, GrownShape
      <4>2. DOMAIN u = DOMAIN v \cup {Append(at, p)} /\ u[Append(at, p)].pattern = << >>
            /\ \A m \in DOMAIN v : u[m].pattern = v[m].pattern
        <5>1. DOMAIN u = DOMAIN v \cup {Append(at, p)}
          BY <3>7 DEF Grown
        <5>2. u[Append(at, p)].pattern = << >>
          BY <3>7, GrownFacts
        <5>3. \A m \in DOMAIN v :
                u[m].pattern = v[m].pattern
          BY <3>7, GrownPatterns
        <5> QED BY <5>1, <5>2, <5>3
      <4>3. Older(t, u)
        BY <3>3, <4>2 DEF Older
      <4>4. Len(Append(at, p)) = o
        BY <3>1, <3>3, AppendProperties
      <4>5. Fine(o)
        BY <3>4, <3>7, <4>1, <4>2, <4>3, <4>4 DEF Fine
      <4> QED BY <2>2, <4>5
    <3> QED BY <3>5, <3>6, <3>7
  <2> QED BY <2>3, <2>4
<1>4. Fine(i)
  <2> HIDE DEF Fine
  <2> QED BY <1>3
<1> QED BY <1>4

LEMMA LevelsWalked ==
  ASSUME NEW tab, NEW J \in Nat, NEW rt \in [1..J -> Seq(Parts)], NEW ps \in Seq(Parts),
         Straight(rt, J, ps), NEW t, Walked(t, << >>, 0, tab, rt, J, ps),
         NEW w, Levels(w, t, ps, Len(ps)), NEW i \in 0..Len(ps)
  PROVE  Walked(w[i].trie, w[i].at, i, tab, rt, J, ps)
<1> DEFINE n == Len(ps)
           Fine(o) == Walked(w[o].trie, w[o].at, o, tab, rt, J, ps)
           Bad == {o \in 0..n : ~Fine(o)}
<1>1. n \in Nat
  BY LenProperties
<1>2. \A o \in 0..n : w[o] = IF o = 0 THEN [trie |-> t, at |-> << >>]
                            ELSE Descend(w[o - 1].trie, w[o - 1].at, ps[o])
  BY DEF Levels
<1>3. Bad = {}
  <2> SUFFICES ASSUME Bad # {} PROVE FALSE
    OBVIOUS
  <2>1. PICK o \in Bad : \A k \in Bad : o <= k
    <3>1. Bad \subseteq Nat
      OBVIOUS
    <3> HIDE DEF Bad
    <3> QED BY <3>1, Least
  <2>2. o \in 0..n /\ ~Fine(o)
    BY <2>1
  <2>3. CASE o = 0
    <3>1. w[0].trie = t /\ w[0].at = << >>
      BY <1>1, <1>2
    <3> QED BY <2>2, <2>3, <3>1
  <2>4. CASE o # 0
    <3> DEFINE l == o - 1
               v == w[l].trie
               at == w[l].at
               p == ps[l + 1]
               r == Descend(v, at, p)
    <3>1. l \in 0..n /\ l \in Nat /\ l + 1 = o /\ l + 1 \in 1..n /\ l + 1 <= Len(ps)
      BY <1>1, <2>2, <2>4
    <3>2. Fine(l)
      <4> HIDE DEF Fine
      <4>1. l \notin Bad
        <5> HIDE DEF Bad
        <5> QED BY <1>1, <2>1, <2>2, <3>1
      <4> QED BY <3>1, <4>1
    <3>3. /\ Walked(v, at, l, tab, rt, J, ps) /\ Shape(v) /\ at \in DOMAIN v /\ p \in Parts
      <4>1. Walked(v, at, l, tab, rt, J, ps)
        BY <3>2
      <4>2. p \in Parts
        <5> HIDE DEF l
        <5> QED BY <3>1, ElementOfSeq
      <4> HIDE DEF v, at
      <4> QED BY <4>1, <4>2 DEF Walked
    <3>4. w[o] = r
      BY <1>2, <2>2, <2>4, <3>1
    <3> HIDE DEF l, v, at, Fine
    <3>5. \/ /\ r.trie = v
             /\ \E k : FirstFit(v, at, p, k) /\ r.at = Append(at, Kids(v, at)[k])
          \/ NoneFits(v, at, p) /\ Grown(v, r.trie, at, p) /\ r.at = Append(at, p)
      <4> HIDE DEF p
      <4> QED BY <3>3, DescendIs
    <3> HIDE DEF r
    <3>6. CASE \E k : r.trie = v /\ FirstFit(v, at, p, k) /\ r.at = Append(at, Kids(v, at)[k])
      <4>1. PICK k : r.trie = v /\ FirstFit(v, at, p, k) /\ r.at = Append(at, Kids(v, at)[k])
        BY <3>6
      <4>2. Walked(v, Append(at, Kids(v, at)[k]), l + 1, tab, rt, J, ps)
        BY <3>1, <3>3, <4>1, WalkFound
      <4>3. Fine(o)
        BY <3>1, <3>4, <4>1, <4>2 DEF Fine
      <4> QED BY <2>2, <4>3
    <3>7. CASE NoneFits(v, at, p) /\ Grown(v, r.trie, at, p) /\ r.at = Append(at, p)
      <4>1. Walked(r.trie, Append(at, p), l + 1, tab, rt, J, ps)
        BY <3>1, <3>3, <3>7, WalkNew
      <4>2. Fine(o)
        BY <3>1, <3>4, <3>7, <4>1 DEF Fine
      <4> QED BY <2>2, <4>2
    <3> QED BY <3>5, <3>6, <3>7
  <2> QED BY <2>3, <2>4
<1>4. Fine(i)
  <2> HIDE DEF Fine
  <2> QED BY <1>3
<1> QED BY <1>4

LEMMA SetPattern ==
  ASSUME NEW v, Shape(v), NEW at \in DOMAIN v, NEW pattern, NEW u,
         u = SetAt(v, at, pattern)
  PROVE  /\ Shape(u) /\ DOMAIN u = DOMAIN v
         /\ \A m \in DOMAIN v : /\ Kids(u, m) = Kids(v, m)
                                /\ m = at => u[m].pattern = pattern
                                /\ m # at => u[m].pattern = v[m].pattern
<1>1. /\ DOMAIN u = DOMAIN v /\ \A m \in DOMAIN v : m # at => u[m] = v[m]
      /\ u[at] = [v[at] EXCEPT !.pattern = pattern]
  BY DEF SetAt
<1>2. \A m \in DOMAIN v : v[m] = [pattern |-> v[m].pattern, children |-> v[m].children]
  BY DEF Shape
<1>3. u[at] = [pattern |-> pattern, children |-> v[at].children]
  BY <1>1, <1>2
<1>4. \A m \in DOMAIN v : /\ u[m] = [pattern |-> u[m].pattern, children |-> u[m].children]
                          /\ Kids(u, m) = Kids(v, m)
                          /\ u[m].pattern = IF m = at THEN pattern ELSE v[m].pattern
  <2> SUFFICES ASSUME NEW m \in DOMAIN v
               PROVE  /\ u[m] = [pattern |-> u[m].pattern, children |-> u[m].children]
                      /\ Kids(u, m) = Kids(v, m)
                      /\ u[m].pattern = IF m = at THEN pattern ELSE v[m].pattern
    OBVIOUS
  <2>1. CASE m = at
    BY <1>3, <2>1 DEF Kids
  <2>2. CASE m # at
    BY <1>1, <1>2, <2>2 DEF Kids
  <2> QED BY <2>1, <2>2
<1>5. Shape(u)
  <2>1. << >> \in DOMAIN u /\ DOMAIN u \subseteq Seq(Parts)
    BY <1>1 DEF Shape
  <2>2. ASSUME NEW n \in DOMAIN v
        PROVE  /\ Kids(u, n) \in Seq(Parts)
               /\ \A k \in 1..Len(Kids(u, n)) : Append(n, Kids(u, n)[k]) \in DOMAIN u
    BY <1>1, <1>4 DEF Shape
  <2>3. ASSUME NEW n \in DOMAIN v, NEW k \in 1..Len(n)
        PROVE  /\ SubSeq(n, 1, k - 1) \in DOMAIN u
               /\ \E j \in 1..Len(Kids(u, SubSeq(n, 1, k - 1))) :
                    Kids(u, SubSeq(n, 1, k - 1))[j] = n[k]
    <3> DEFINE s == SubSeq(n, 1, k - 1)
    <3>1. s \in DOMAIN v /\ \E j \in 1..Len(Kids(v, s)) : Kids(v, s)[j] = n[k]
      BY DEF Shape
    <3> HIDE DEF s
    <3>2. s \in DOMAIN u /\ Kids(u, s) = Kids(v, s)
      BY <1>1, <1>4, <3>1
    <3> QED BY <3>1, <3>2 DEF s
  <2> QED BY <1>1, <1>4, <2>1, <2>2, <2>3 DEF Shape
<1> QED BY <1>1, <1>4, <1>5

-----------------------------------------------------------------------------
(* Insert as a whole.                                                      *)
Begun(t, rt, J) ==
  \A n \in DOMAIN t : n = << >> \/ \E i \in 1..J : AgreeUpTo(n, rt[i], Len(n))

Agrees(t, tab, rt, J) ==
  Narrow(t) /\ Covers(t, rt, J) /\ Holds(t, tab, rt, J) /\ Begun(t, rt, J)

LEMMA InsertShape ==
  ASSUME NEW t, Shape(t), NEW pattern \in Seq(Segs), NEW u, u = Insert(t, pattern)
  PROVE  /\ Shape(u)
         /\ \E leaf \in DOMAIN u :
              /\ Len(leaf) = Len(ParsePattern(pattern)) /\ u[leaf].pattern = pattern
              /\ \A m \in DOMAIN u : m # leaf =>
                   \/ u[m].pattern = << >>
                   \/ m \in DOMAIN t /\ u[m].pattern = t[m].pattern
<1> DEFINE ps == ParsePattern(pattern)
           n == Len(ps)
<1>1. ps \in Seq(Parts) /\ n \in Nat /\ n \in 0..n
  BY Parsed
<1>2. PICK w : /\ Levels(w, t, ps, n)
               /\ Insert(t, pattern) = SetAt(w[n].trie, w[n].at, pattern)
  <2>1. ps = ParsePattern(pattern) /\ n = Len(ps)
    OBVIOUS
  <2> HIDE DEF ps, n
  <2> QED BY <1>1, <2>1, InsertIs
<1> DEFINE v == w[n].trie
           at == w[n].at
<1> HIDE DEF ps
<1>3. Shape(v) /\ Older(t, v) /\ at \in DOMAIN v /\ Len(at) = n
  BY <1>1, <1>2, LevelsShape
<1>4. u = SetAt(v, at, pattern)
  BY <1>2
<1> HIDE DEF v, at, n
<1>5. /\ Shape(u) /\ DOMAIN u = DOMAIN v
      /\ \A m \in DOMAIN v : /\ Kids(u, m) = Kids(v, m)
                             /\ m = at => u[m].pattern = pattern
                             /\ m # at => u[m].pattern = v[m].pattern
  BY <1>3, <1>4, SetPattern
<1>6. \A m \in DOMAIN u : m # at => \/ u[m].pattern = << >>
                                    \/ m \in DOMAIN t /\ u[m].pattern = t[m].pattern
  BY <1>3, <1>5 DEF Older
<1> QED BY <1>3, <1>5, <1>6 DEF n, ps

LEMMA InsertAgrees ==
  ASSUME NEW tab, NEW J \in Nat, NEW rt \in [1..J -> Seq(Parts)],
         NEW t, Shape(t), Agrees(t, tab, rt, J),
         NEW pattern \in Seq(Segs), Straight(rt, J, ParsePattern(pattern)),
         NEW u, u = Insert(t, pattern),
         NEW tb, NEW qt, qt[J + 1] = ParsePattern(pattern), tb[J + 1] = pattern,
         \A i \in 1..J : qt[i] = rt[i] /\ tb[i] = tab[i]
  PROVE  Agrees(u, tb, qt, J + 1)
<1> DEFINE ps == ParsePattern(pattern)
           n == Len(ps)
<1>1. ps \in Seq(Parts) /\ n \in Nat /\ n \in 0..n
  BY Parsed
<1>2. PICK w : /\ Levels(w, t, ps, n)
               /\ Insert(t, pattern) = SetAt(w[n].trie, w[n].at, pattern)
  <2>1. ps = ParsePattern(pattern) /\ n = Len(ps)
    OBVIOUS
  <2> HIDE DEF ps, n
  <2> QED BY <1>1, <2>1, InsertIs
<1> DEFINE v == w[n].trie
           at == w[n].at
<1>0. Straight(rt, J, ps) /\ qt[J + 1] = ps
  OBVIOUS
<1> HIDE DEF ps
<1>3. Walked(t, << >>, 0, tab, rt, J, ps)
  <2>1. << >> \in DOMAIN t /\ Len(<< >>) = 0
    BY EmptySeq DEF Shape
  <2>2. AgreeUpTo(<< >>, ps, 0)
    BY <1>1, <2>1 DEF AgreeUpTo, n
  <2>3. Reaches(t, ps, 0)
    BY <2>1, <2>2 DEF Reaches
  <2>4. Within(t, rt, J, ps, 0)
    BY DEF Agrees, Begun, Within
  <2> QED BY <2>1, <2>2, <2>3, <2>4 DEF Walked, Agrees
<1>4. Walked(v, at, n, tab, rt, J, ps)
  BY <1>0, <1>1, <1>2, <1>3, LevelsWalked
<1>5. u = SetAt(v, at, pattern)
  BY <1>2
<1> HIDE DEF v, at
<1>6. /\ Shape(v) /\ Narrow(v) /\ Covers(v, rt, J) /\ Holds(v, tab, rt, J)
      /\ Within(v, rt, J, ps, n) /\ Reaches(v, ps, n)
      /\ at \in DOMAIN v /\ Len(at) = n /\ AgreeUpTo(at, ps, n)
  BY <1>4 DEF Walked
<1>7. /\ Shape(u) /\ DOMAIN u = DOMAIN v
      /\ \A m \in DOMAIN v : /\ Kids(u, m) = Kids(v, m)
                             /\ m = at => u[m].pattern = pattern
                             /\ m # at => u[m].pattern = v[m].pattern
  BY <1>5, <1>6, SetPattern
<1>8. \A i \in 1..J + 1 : i \in 1..J \/ i = J + 1
  OBVIOUS
<1>9. \A i \in 1..J : i \in 1..J + 1
  OBVIOUS
<1>10. Narrow(u)
  BY <1>6, <1>7 DEF Narrow
<1>11. Covers(u, qt, J + 1)
  <2> SUFFICES ASSUME NEW i \in 1..J + 1 PROVE Reaches(u, qt[i], Len(qt[i]))
    BY DEF Covers
  <2>1. CASE i \in 1..J
    BY <1>6, <1>7, <2>1 DEF Covers, Reaches
  <2>2. CASE i = J + 1
    BY <1>0, <1>6, <1>7, <2>2 DEF Reaches, n
  <2> QED BY <1>8, <2>1, <2>2
<1>12. Begun(u, qt, J + 1)
  <2> SUFFICES ASSUME NEW m \in DOMAIN v
               PROVE  m = << >> \/ \E i \in 1..J + 1 : AgreeUpTo(m, qt[i], Len(m))
    BY <1>7 DEF Begun
  <2>1. CASE m = << >>
    BY <2>1
  <2>2. CASE \E i \in 1..J : AgreeUpTo(m, rt[i], Len(m))
    BY <1>9, <2>2
  <2>3. CASE AgreeUpTo(m, ps, Len(m))
    <3>1. J + 1 \in 1..J + 1
      OBVIOUS
    <3> QED BY <1>0, <2>3, <3>1
  <2> QED BY <1>6, <2>1, <2>2, <2>3 DEF Within
<1>13. Holds(u, tb, qt, J + 1)
  <2> SUFFICES ASSUME NEW m \in DOMAIN v
               PROVE  \/ u[m].pattern = << >> /\ \A i \in 1..J + 1 : ~Kin(m, qt[i])
                      \/ \E i \in 1..J + 1 : /\ Kin(m, qt[i]) /\ u[m].pattern = tb[i]
                                             /\ \A k \in 1..J + 1 : Kin(m, qt[k]) => k <= i
    BY <1>7 DEF Holds
  <2>1. CASE m = at
    <3>1. Kin(m, qt[J + 1]) /\ u[m].pattern = tb[J + 1]
      BY <1>0, <1>6, <1>7, <2>1 DEF Kin, n
    <3>2. J + 1 \in 1..J + 1 /\ \A k \in 1..J + 1 : k <= J + 1
      OBVIOUS
    <3> QED BY <3>1, <3>2
  <2>2. CASE m # at
    <3>1. u[m].pattern = v[m].pattern
      BY <1>7, <2>2
    <3>2. ~Kin(m, qt[J + 1])
      <4> SUFFICES ASSUME Kin(m, ps) PROVE FALSE
        BY <1>0
      <4>1. m \in Seq(Parts) /\ at \in Seq(Parts)
        BY <1>6, NodeFacts
      <4>2. Kin(ps, at)
        <5>1. Kin(at, ps)
          BY <1>6 DEF Kin, n
        <5> QED BY <1>1, <4>1, <5>1, KinFacts
      <4>3. Kin(m, at)
        BY <1>1, <4>1, <4>2, KinFacts
      <4> QED BY <1>6, <2>2, <4>3 DEF Narrow
    <3>3. CASE v[m].pattern = << >> /\ \A i \in 1..J : ~Kin(m, rt[i])
      BY <1>8, <3>1, <3>2, <3>3
    <3>4. CASE \E i \in 1..J : /\ Kin(m, rt[i]) /\ v[m].pattern = tab[i]
                               /\ \A k \in 1..J : Kin(m, rt[k]) => k <= i
      <4>1. PICK i \in 1..J : /\ Kin(m, rt[i]) /\ v[m].pattern = tab[i]
                              /\ \A k \in 1..J : Kin(m, rt[k]) => k <= i
        BY <3>4
      <4>2. i \in 1..J + 1 /\ Kin(m, qt[i]) /\ u[m].pattern = tb[i]
        BY <1>9, <3>1, <4>1
      <4>3. \A k \in 1..J + 1 : Kin(m, qt[k]) => k <= i
        BY <1>8, <3>2, <4>1
      <4> QED BY <4>2, <4>3
    <3> QED BY <1>6, <3>3, <3>4 DEF Holds
  <2> QED BY <2>1, <2>2
<1> QED BY <1>10, <1>11, <1>12, <1>13 DEF Agrees

-----------------------------------------------------------------------------
(* Search (trie.go:64-90): what one call answers, when f has the answers   *)
(* of the calls it makes.                                                  *)
Near(t, ss) == {n \in DOMAIN t : Len(n) <= Len(ss)}

Ends(n, ss) == Len(n) = Len(ss) \/ (n # << >> /\ Last(n) \in Stars)

Body(t, ss, f, n) ==
  IF Ends(n, ss)
  THEN IF t[n].pattern = << >> THEN NoNode ELSE n
  ELSE LET fits == MatchChildren(t[n], ss[Len(n) + 1])
           hit == SelectInSeq(fits, LAMBDA c : f[Append(n, c)] # NoNode)
       IN IF hit = 0 THEN NoNode ELSE f[Append(n, fits[hit])]

Searches(f, t, ss) == f = [n \in Near(t, ss) |-> Body(t, ss, f, n)]

LEMMA Fitting ==
  ASSUME NEW t, Shape(t), NEW n \in DOMAIN t, NEW p, NEW fits, fits = MatchChildren(t[n], p)
  PROVE  /\ fits \in Seq(Parts) /\ Len(fits) \in Nat
         /\ \A i \in 1..Len(fits) : /\ fits[i] \in Parts /\ Append(n, fits[i]) \in DOMAIN t
                                    /\ fits[i] = p \/ IsWild(fits[i])
         /\ \A j \in 1..Len(Kids(t, n)) : Kids(t, n)[j] = p \/ IsWild(Kids(t, n)[j])
              => \E i \in 1..Len(fits) : fits[i] = Kids(t, n)[j]
         /\ Narrow(t) => \A i, j \in 1..Len(fits) : i < j => ~IsWild(fits[i])
<1> DEFINE T == {p} \cup Wild
           cs == Kids(t, n)
           m == Len(cs)
<1>1. /\ cs \in Seq(Parts) /\ m \in Nat
      /\ \A k \in 1..m : cs[k] \in Parts /\ Append(n, cs[k]) \in DOMAIN t
  BY NodeFacts
<1>2. fits = Filter(cs, T)
  BY DEF MatchChildren, Kids
<1>3. Narrow(t) => \A k \in 1..m - 1 : ~IsWild(cs[k])
  BY DEF Narrow
<1> HIDE DEF cs, m, T
<1>4. fits \in Seq(Parts) /\ \E g : Picks(g, fits, cs, m, T)
  BY <1>1, <1>2, FilterPicks DEF m
<1>5. PICK g : Picks(g, fits, cs, m, T)
  BY <1>4
<1>6. /\ Len(fits) \in Nat /\ g \in [1..Len(fits) -> 1..m]
      /\ \A i, j \in 1..Len(fits) : i < j => g[i] < g[j]
      /\ \A i \in 1..Len(fits) : fits[i] = cs[g[i]] /\ cs[g[i]] \in T
      /\ \A j \in 1..m : cs[j] \in T => \E i \in 1..Len(fits) : g[i] = j
  BY <1>5 DEF Picks
<1>7. ASSUME NEW i \in 1..Len(fits)
      PROVE  /\ fits[i] \in Parts /\ Append(n, fits[i]) \in DOMAIN t
             /\ fits[i] = p \/ IsWild(fits[i])
  <2>1. g[i] \in 1..m /\ fits[i] = cs[g[i]] /\ fits[i] \in T
    BY <1>6
  <2> QED BY <1>1, <2>1 DEF T, IsWild
<1>8. ASSUME NEW j \in 1..m, cs[j] = p \/ IsWild(cs[j])
      PROVE  \E i \in 1..Len(fits) : fits[i] = cs[j]
  <2>1. cs[j] \in T
    BY <1>8 DEF T, IsWild
  <2>2. PICK i \in 1..Len(fits) : g[i] = j
    BY <1>6, <2>1
  <2> QED BY <1>6, <2>2
<1>9. ASSUME Narrow(t), NEW i \in 1..Len(fits), NEW j \in 1..Len(fits), i < j
      PROVE  ~IsWild(fits[i])
  <2>1. g[i] \in 1..m /\ g[j] \in 1..m /\ g[i] < g[j]
    BY <1>6, <1>9
  <2>2. g[i] \in 1..m - 1
    BY <1>1, <2>1
  <2> QED BY <1>3, <1>6, <1>9, <2>2
<1> QED BY <1>4, <1>6, <1>7, <1>8, <1>9 DEF cs, m

(* The first of the children that fit below which something is found.      *)
LEMMA BodyIs ==
  ASSUME NEW t, Shape(t), NEW ss, NEW f, NEW n \in DOMAIN t, ~Ends(n, ss),
         NEW fits, fits = MatchChildren(t[n], ss[Len(n) + 1])
  PROVE  \/ /\ Body(t, ss, f, n) = NoNode
            /\ \A i \in 1..Len(fits) : f[Append(n, fits[i])] = NoNode
         \/ \E h \in 1..Len(fits) :
              /\ Body(t, ss, f, n) = f[Append(n, fits[h])]
              /\ f[Append(n, fits[h])] # NoNode
              /\ \A i \in 1..h - 1 : f[Append(n, fits[i])] = NoNode
<1> DEFINE I == {i \in 1..Len(fits) : f[Append(n, fits[i])] # NoNode}
           hit == IF I # {} THEN Min(I) ELSE 0
<1>1. Len(fits) \in Nat
  BY Fitting
<1>2. Body(t, ss, f, n) = IF hit = 0 THEN NoNode ELSE f[Append(n, fits[hit])]
  BY DEF Body, SelectInSeq
<1>3. CASE I = {}
  <2>1. hit = 0
    BY <1>3
  <2>2. Body(t, ss, f, n) = NoNode
    <3> HIDE DEF hit
    <3> QED BY <1>2, <2>1
  <2> QED BY <1>3, <2>2
<1>4. CASE I # {}
  <2> DEFINE h == Min(I)
  <2>1. h \in I /\ \A i \in I : h <= i
    <3>1. I \subseteq Nat
      OBVIOUS
    <3> HIDE DEF I
    <3> QED BY <1>4, <3>1, MinOf
  <2>2. hit = h
    BY <1>4
  <2> HIDE DEF h, hit
  <2>3. h \in 1..Len(fits) /\ f[Append(n, fits[h])] # NoNode
    BY <2>1
  <2>4. Body(t, ss, f, n) = f[Append(n, fits[h])]
    <3>1. h # 0
      BY <2>3
    <3> QED BY <1>2, <2>2, <3>1
  <2>5. ASSUME NEW i \in 1..h - 1 PROVE f[Append(n, fits[i])] = NoNode
    <3>1. i \in 1..Len(fits) /\ ~(h <= i)
      BY <1>1, <2>3
    <3>2. i \notin I
      BY <2>1, <3>1
    <3> QED BY <3>1, <3>2
  <2> QED BY <2>3, <2>4, <2>5
<1> QED BY <1>3, <1>4

LEMMA ChildNear ==
  ASSUME NEW t, Shape(t), NEW ss \in Seq(Parts), NEW n \in Near(t, ss), ~Ends(n, ss),
         NEW c \in Parts, Append(n, c) \in DOMAIN t
  PROVE  /\ Append(n, c) \in Near(t, ss) /\ Len(Append(n, c)) = Len(n) + 1
         /\ Len(n) + 1 <= Len(ss)
<1>1. n \in Seq(Parts) /\ Len(n) \in Nat /\ Len(ss) \in Nat /\ Len(n) <= Len(ss) /\ Len(n) # Len(ss)
  BY NodeFacts, LenProperties DEF Near, Ends
<1>2. Len(Append(n, c)) = Len(n) + 1
  BY <1>1, AppendProperties
<1> QED BY <1>1, <1>2 DEF Near

LEMMA BodyLocal ==
  ASSUME NEW t, Shape(t), NEW ss \in Seq(Parts), NEW n \in Near(t, ss), NEW f, NEW g,
         \A m \in Near(t, ss) : Len(m) = Len(n) + 1 => f[m] = g[m]
  PROVE  Body(t, ss, f, n) = Body(t, ss, g, n)
<1>1. CASE Ends(n, ss)
  BY <1>1 DEF Body
<1>2. CASE ~Ends(n, ss)
  <2> DEFINE fits == MatchChildren(t[n], ss[Len(n) + 1])
             F == {i \in 1..Len(fits) : f[Append(n, fits[i])] # NoNode}
             G == {i \in 1..Len(fits) : g[Append(n, fits[i])] # NoNode}
             hit(I) == IF I # {} THEN Min(I) ELSE 0
  <2>1. n \in DOMAIN t
    BY DEF Near
  <2>2. ASSUME NEW i \in 1..Len(fits) PROVE f[Append(n, fits[i])] = g[Append(n, fits[i])]
    <3> DEFINE c == fits[i]
    <3>1. c \in Parts /\ Append(n, c) \in DOMAIN t
      <4> HIDE DEF fits
      <4>1. fits = MatchChildren(t[n], ss[Len(n) + 1])
        BY DEF fits
      <4> QED BY <2>1, <4>1, Fitting
    <3> HIDE DEF c
    <3>2. Append(n, c) \in Near(t, ss) /\ Len(Append(n, c)) = Len(n) + 1
      BY <1>2, <3>1, ChildNear
    <3> QED BY <3>2 DEF c
  <2>3. F = G
    BY <2>2
  <2>4. /\ Body(t, ss, f, n) = IF hit(F) = 0 THEN NoNode ELSE f[Append(n, fits[hit(F)])]
        /\ Body(t, ss, g, n) = IF hit(G) = 0 THEN NoNode ELSE g[Append(n, fits[hit(G)])]
    BY <1>2 DEF Body, SelectInSeq
  <2> DEFINE h == hit(F)
  <2>5. h # 0 => h \in 1..Len(fits)
    <3>1. F # {} => Min(F) \in F
      <4>1. F \subseteq Nat
        OBVIOUS
      <4> HIDE DEF F
      <4> QED BY <4>1, MinOf
    <3> HIDE DEF fits
    <3> QED BY <3>1
  <2>6. /\ Body(t, ss, f, n) = IF h = 0 THEN NoNode ELSE f[Append(n, fits[h])]
        /\ Body(t, ss, g, n) = IF h = 0 THEN NoNode ELSE g[Append(n, fits[h])]
    BY <2>3, <2>4
  <2> HIDE DEF h, fits
  <2> QED BY <2>2, <2>5, <2>6
<1> QED BY <1>1, <1>2

LEMMA SearchesExist ==
  ASSUME NEW t, Shape(t), NEW ss \in Seq(Parts)
  PROVE  \E f : Searches(f, t, ss)
<1> DEFINE L == Len(ss)
           N == Near(t, ss)
           Deep(f, e) == /\ f = [n \in N |-> f[n]]
                         /\ \A n \in N : Len(n) + e >= L => f[n] = Body(t, ss, f, n)
           M == {e \in Nat : ~ \E f : Deep(f, e)}
<1>1. L \in Nat /\ \A n \in N : Len(n) \in 0..L
  <2>1. \A n \in N : n \in DOMAIN t /\ Len(n) <= L
    BY DEF Near
  <2>2. L \in Nat
    BY LenProperties
  <2>3. \A n \in N : Len(n) \in Nat
    BY <2>1, NodeFacts
  <2> HIDE DEF N, L
  <2> QED BY <2>1, <2>2, <2>3
<1>2. M = {}
  <2> SUFFICES ASSUME M # {} PROVE FALSE
    OBVIOUS
  <2>1. PICK e \in M : \A o \in M : e <= o
    <3>1. M \subseteq Nat
      OBVIOUS
    <3> HIDE DEF M
    <3> QED BY <3>1, Least
  <2>2. CASE e = 0
    <3> DEFINE f == [n \in N |-> IF t[n].pattern = << >> THEN NoNode ELSE n]
    <3>1. ASSUME NEW n \in N, Len(n) + 0 >= L PROVE f[n] = Body(t, ss, f, n)
      <4>1. Len(n) = Len(ss)
        <5> HIDE DEF N
        <5>1. Len(n) = L
          <6> HIDE DEF L
          <6> QED BY <1>1, <3>1
        <5> QED BY <5>1
      <4>2. Ends(n, ss)
        BY <4>1 DEF Ends
      <4> QED BY <4>2 DEF Body
    <3>2. f = [n \in N |-> f[n]]
      OBVIOUS
    <3> HIDE DEF f
    <3>3. Deep(f, 0)
      BY <3>1, <3>2
    <3> QED BY <2>1, <2>2, <3>3
  <2>3. CASE e # 0
    <3> DEFINE d == e - 1
    <3>1. e \in Nat /\ d \in Nat /\ d + 1 = e /\ d \notin M
      <4>1. e \in Nat
        BY <2>1
      <4> HIDE DEF M
      <4> QED BY <2>1, <2>3, <4>1
    <3>2. PICK f : Deep(f, d)
      BY <3>1
    <3> DEFINE g == [n \in N |-> IF Len(n) + e = L THEN Body(t, ss, f, n) ELSE f[n]]
    <3>3. ASSUME NEW n \in N, Len(n) + e >= L PROVE g[n] = Body(t, ss, g, n)
      <4> HIDE DEF N, L, d
      <4>0. Len(n) \in 0..L /\ \A m \in N : Len(m) \in 0..L
        BY <1>1
      <4>1. \A m \in N : Len(m) = Len(n) + 1 => f[m] = g[m]
        <5> SUFFICES ASSUME NEW m \in N, Len(m) = Len(n) + 1 PROVE f[m] = g[m]
          OBVIOUS
        <5>1. Len(m) + e # L
          BY <1>1, <3>1, <3>3, <4>0
        <5> QED BY <5>1
      <4> HIDE DEF g
      <4>2. Body(t, ss, f, n) = Body(t, ss, g, n)
        BY <4>1, BodyLocal DEF N
      <4>3. CASE Len(n) + e = L
        <5>1. g[n] = Body(t, ss, f, n)
          BY <4>3 DEF g
        <5> QED BY <4>2, <5>1
      <4>4. CASE Len(n) + e # L
        <5>1. Len(n) + d >= L
          BY <1>1, <3>1, <3>3, <4>0, <4>4
        <5>2. f[n] = Body(t, ss, f, n)
          BY <3>2, <5>1
        <5>3. g[n] = f[n]
          BY <4>4 DEF g
        <5> QED BY <4>2, <5>2, <5>3
      <4> QED BY <4>3, <4>4
    <3>4. g = [n \in N |-> g[n]]
      OBVIOUS
    <3> HIDE DEF g
    <3>5. Deep(g, e)
      BY <3>3, <3>4
    <3> QED BY <2>1, <3>5
  <2> QED BY <2>2, <2>3
<1>3. PICK f : Deep(f, L)
  <2>1. L \in Nat /\ L \notin M
    BY <1>1, <1>2
  <2> QED BY <2>1
<1>4. ASSUME NEW n \in N PROVE f[n] = Body(t, ss, f, n)
  <2>1. Len(n) + L >= L
    <3> HIDE DEF L
    <3> QED BY <1>1
  <2> QED BY <1>3, <2>1
<1>5. f = [n \in N |-> Body(t, ss, f, n)]
  BY <1>3, <1>4
<1> QED BY <1>5 DEF Searches

LEMMA SearchIs ==
  ASSUME NEW t, Shape(t), NEW ss \in Seq(Parts)
  PROVE  \E f : Searches(f, t, ss) /\ Search(t, ss) = f[<< >>]
<1> DEFINE Def(g) == [n \in {m \in DOMAIN t : Len(m) <= Len(ss)} |->
              IF Len(n) = Len(ss) \/ (n # << >> /\ Last(n) \in Stars)
              THEN IF t[n].pattern = << >> THEN NoNode ELSE n
              ELSE LET fits == MatchChildren(t[n], ss[Len(n) + 1])
                       hit == SelectInSeq(fits, LAMBDA c : g[Append(n, c)] # NoNode)
                   IN IF hit = 0 THEN NoNode ELSE g[Append(n, fits[hit])]]
           f == CHOOSE g : g = Def(g)
<1>1. Search(t, ss) = f[<< >>]
  BY DEF Search
<1>2. f = Def(f)
  <2>1. PICK g : Searches(g, t, ss)
    BY SearchesExist
  <2>2. g = Def(g)
    BY <2>1 DEF Searches, Body, Near, Ends
  <2> HIDE DEF Def
  <2> QED BY <2>2
<1> HIDE DEF f
<1>3. Searches(f, t, ss)
  BY <1>2 DEF Searches, Body, Near, Ends
<1> QED BY <1>1, <1>3

(* What is found has a pattern and is not longer than the path.            *)
LEMMA SearchSound ==
  ASSUME NEW t, Shape(t), NEW ss \in Seq(Parts), NEW f, Searches(f, t, ss),
         NEW n \in Near(t, ss)
  PROVE  f[n] = NoNode \/ (f[n] \in Near(t, ss) /\ t[f[n]].pattern # << >>)
<1> DEFINE N == Near(t, ss)
           Fine(m) == f[m] = NoNode \/ (f[m] \in N /\ t[f[m]].pattern # << >>)
           M == {e \in Nat : \E m \in N : Len(m) + e = Len(ss) /\ ~Fine(m)}
<1>1. Len(ss) \in Nat /\ \A m \in N : m \in DOMAIN t /\ Len(m) \in Nat /\ Len(m) <= Len(ss)
  <2>1. \A m \in N : m \in DOMAIN t /\ Len(m) <= Len(ss)
    BY DEF Near
  <2>2. \A m \in N : Len(m) \in Nat
    BY <2>1, NodeFacts
  <2> HIDE DEF N
  <2> QED BY <2>1, <2>2, LenProperties
<1>2. \A m \in N : f[m] = Body(t, ss, f, m)
  BY DEF Searches
<1>3. M = {}
  <2> SUFFICES ASSUME M # {} PROVE FALSE
    OBVIOUS
  <2>1. PICK e \in M : \A o \in M : e <= o
    <3>1. M \subseteq Nat
      OBVIOUS
    <3> HIDE DEF M
    <3> QED BY <3>1, Least
  <2>2. e \in Nat /\ \E m \in N : Len(m) + e = Len(ss) /\ ~Fine(m)
    BY <2>1
  <2>3. PICK m \in N : Len(m) + e = Len(ss) /\ ~Fine(m)
    BY <2>2
  <2>4. ASSUME NEW o \in N, Len(o) = Len(m) + 1 PROVE Fine(o)
    <3>1. e - 1 \in Nat /\ Len(o) + (e - 1) = Len(ss)
      <4>1. Len(m) \in Nat /\ Len(o) \in Nat /\ Len(o) <= Len(ss) /\ Len(ss) \in Nat
        BY <1>1
      <4>2. Len(m) + e = Len(ss) /\ Len(o) = Len(m) + 1 /\ e \in Nat
        BY <2>2, <2>3, <2>4
      <4> QED BY ONLY <4>1, <4>2
    <3>2. e - 1 \notin M
      <4> HIDE DEF M
      <4> QED BY <2>1, <2>2, <3>1
    <3> HIDE DEF Fine, N
    <3> QED BY <3>1, <3>2
  <2> HIDE DEF M
  <2>5. CASE Ends(m, ss)
    <3>1. f[m] = IF t[m].pattern = << >> THEN NoNode ELSE m
      BY <1>2, <2>5 DEF Body
    <3> QED BY <2>3, <3>1
  <2>6. CASE ~Ends(m, ss)
    <3> DEFINE fits == MatchChildren(t[m], ss[Len(m) + 1])
    <3>1. m \in DOMAIN t /\ fits = MatchChildren(t[m], ss[Len(m) + 1])
      BY <1>1
    <3> HIDE DEF fits, Fine
    <3>2. f[m] = NoNode \/ \E h \in 1..Len(fits) : f[m] = f[Append(m, fits[h])]
      BY <1>2, <2>6, <3>1, BodyIs
    <3>3. CASE f[m] = NoNode
      BY <2>3, <3>3 DEF Fine
    <3>4. CASE \E h \in 1..Len(fits) : f[m] = f[Append(m, fits[h])]
      <4>1. PICK h \in 1..Len(fits) : f[m] = f[Append(m, fits[h])]
        BY <3>4
      <4> DEFINE c == fits[h]
      <4>2. c \in Parts /\ Append(m, c) \in DOMAIN t
        BY <3>1, Fitting
      <4> HIDE DEF c
      <4>3. Append(m, c) \in N /\ Len(Append(m, c)) = Len(m) + 1
        BY <2>6, <4>2, ChildNear
      <4>4. Fine(Append(m, c))
        BY <2>4, <4>3
      <4> QED BY <2>3, <4>1, <4>4 DEF Fine, c
    <3> QED BY <3>2, <3>3, <3>4
  <2> QED BY <2>5, <2>6
<1>4. Fine(n)
  <2> SUFFICES ASSUME ~Fine(n) PROVE FALSE
    OBVIOUS
  <2>1. Len(ss) - Len(n) \in Nat /\ Len(n) + (Len(ss) - Len(n)) = Len(ss)
    BY <1>1
  <2>2. Len(ss) - Len(n) \in M
    <3> HIDE DEF N, Fine
    <3>1. n \in N
      BY DEF N
    <3> QED BY <2>1, <3>1
  <2> QED BY <1>3, <2>2
<1> QED BY <1>4

(* A node that answers the path, and one that goes on from another.        *)
Hit(t, ss, d) == d \in DOMAIN t /\ t[d].pattern # << >> /\ FitsParts(d, ss)
From(d, n) == Len(n) <= Len(d) /\ \A i \in 1..Len(n) : d[i] = n[i]

StarsLast(t) == \A n \in DOMAIN t : \A k \in 1..Len(n) - 1 : n[k] \notin Stars

(* The best of the hits that go on from n, or none.                        *)
Best(t, ss, f, n) ==
  \/ f[n] = NoNode /\ \A d : Hit(t, ss, d) => ~From(d, n)
  \/ /\ Hit(t, ss, f[n]) /\ From(f[n], n)
     /\ \A d : Hit(t, ss, d) /\ From(d, n) => d = f[n] \/ Beats(f[n], d)

LEMMA NodeNotNone ==
  ASSUME NEW t, Shape(t), NEW n \in DOMAIN t
  PROVE  n # NoNode
<1>1. SUFFICES ASSUME n = <<Empty>> PROVE FALSE
  BY DEF NoNode
<1>2. Len(n) = 1 /\ n[1] = Empty
  BY <1>1
<1>3. n[1] \in Parts
  <2>1. \A i \in 1..Len(n) : n[i] \in Parts
    BY NodeFacts
  <2>2. 1 \in 1..Len(n)
    BY <1>2
  <2> QED BY <2>1, <2>2
<1> QED BY <1>2, <1>3 DEF Parts

LEMMA BestWhenEnds ==
  ASSUME NEW t, Shape(t), StarsLast(t), NEW ss \in Seq(Parts), NEW f, Searches(f, t, ss),
         NEW n \in Near(t, ss), Ends(n, ss), \A i \in 1..Len(n) : n[i] = ss[i] \/ IsWild(n[i])
  PROVE  Best(t, ss, f, n)
<1>1. f[n] = IF t[n].pattern = << >> THEN NoNode ELSE n
  BY DEF Searches, Body
<1>2. n \in DOMAIN t /\ Len(n) <= Len(ss)
  BY DEF Near
<1>3. n \in Seq(Parts) /\ Len(n) \in Nat /\ (n = << >> <=> Len(n) = 0) /\ Len(ss) \in Nat
  BY <1>2, NodeFacts, LenProperties
<1>4. Len(n) = Len(ss) \/ (Len(n) # 0 /\ n[Len(n)] \in Stars)
  BY <1>3 DEF Ends, Last
<1>5. ASSUME NEW d, Hit(t, ss, d), From(d, n) PROVE d = n
  <2>1. d \in DOMAIN t /\ Len(d) <= Len(ss) /\ Len(n) <= Len(d) /\ \A i \in 1..Len(n) : d[i] = n[i]
    BY <1>5 DEF Hit, From, FitsParts
  <2>2. d \in Seq(Parts) /\ Len(d) \in Nat
    BY <2>1, NodeFacts
  <2>3. Len(d) = Len(n)
    <3>1. CASE Len(n) = Len(ss)
      BY <1>3, <2>1, <2>2, <3>1
    <3>2. CASE Len(n) # 0 /\ n[Len(n)] \in Stars
      <4> SUFFICES ASSUME Len(n) < Len(d) PROVE FALSE
        BY <1>3, <2>1, <2>2
      <4>1. Len(n) \in 1..Len(d) - 1 /\ Len(n) \in 1..Len(n)
        BY <1>3, <2>2, <3>2
      <4>2. d[Len(n)] = n[Len(n)]
        BY <2>1, <4>1
      <4> QED BY <2>1, <3>2, <4>1, <4>2 DEF StarsLast
    <3> QED BY <1>4, <3>1, <3>2
  <2> QED BY <1>3, <2>1, <2>2, <2>3, SeqEqual
<1>6. CASE t[n].pattern = << >>
  <2>1. \A d : Hit(t, ss, d) => ~From(d, n)
    BY <1>5, <1>6 DEF Hit
  <2> QED BY <1>1, <1>6, <2>1 DEF Best
<1>7. CASE t[n].pattern # << >>
  <2>1. Hit(t, ss, n)
    BY <1>2, <1>4, <1>7 DEF Hit, FitsParts
  <2>2. From(n, n)
    BY <1>3 DEF From
  <2> QED BY <1>1, <1>5, <1>7, <2>1, <2>2 DEF Best
<1> QED BY <1>6, <1>7

LEMMA BestFromChildren ==
  ASSUME NEW t, Shape(t), Narrow(t), NEW ss \in Seq(Parts), NEW f, Searches(f, t, ss),
         NEW n \in Near(t, ss), ~Ends(n, ss),
         \A i \in 1..Len(n) : n[i] = ss[i] \/ IsWild(n[i]),
         \A m \in Near(t, ss) :
           /\ Len(m) = Len(n) + 1
           /\ \A i \in 1..Len(m) : m[i] = ss[i] \/ IsWild(m[i])
           => Best(t, ss, f, m)
  PROVE  Best(t, ss, f, n)
<1> DEFINE l == Len(n)
           fits == MatchChildren(t[n], ss[l + 1])
<1>1. /\ n \in DOMAIN t /\ n \in Seq(Parts) /\ l \in Nat /\ Len(ss) \in Nat /\ Len(n) = l
      /\ l + 1 <= Len(ss) /\ l # Len(ss)
  <2>1. n \in DOMAIN t /\ l <= Len(ss)
    BY DEF Near
  <2>2. l # Len(ss)
    BY DEF Ends
  <2>3. n \in Seq(Parts) /\ l \in Nat /\ Len(ss) \in Nat
    BY <2>1, NodeFacts, LenProperties
  <2> HIDE DEF l
  <2> QED BY <2>1, <2>2, <2>3 DEF l
<1>2. f[n] = Body(t, ss, f, n)
  BY DEF Searches
<1>3. fits = MatchChildren(t[n], ss[Len(n) + 1])
  OBVIOUS
<1> HIDE DEF fits, l
<1>4. /\ Len(fits) \in Nat
      /\ \A i \in 1..Len(fits) : /\ fits[i] \in Parts /\ Append(n, fits[i]) \in DOMAIN t
                                 /\ fits[i] = ss[l + 1] \/ IsWild(fits[i])
      /\ \A j \in 1..Len(Kids(t, n)) : Kids(t, n)[j] = ss[l + 1] \/ IsWild(Kids(t, n)[j])
           => \E i \in 1..Len(fits) : fits[i] = Kids(t, n)[j]
      /\ \A i, j \in 1..Len(fits) : i < j => ~IsWild(fits[i])
  <2>1. fits = MatchChildren(t[n], ss[l + 1])
    BY <1>1, <1>3
  <2> QED BY <1>1, <2>1, Fitting
<1>5. ASSUME NEW i \in 1..Len(fits)
      PROVE  LET m == Append(n, fits[i])
             IN /\ m \in DOMAIN t /\ Len(m) = l + 1 /\ m[l + 1] = fits[i]
                /\ \A k \in 1..l : m[k] = n[k]
                /\ Best(t, ss, f, m)
  <2> DEFINE c == fits[i]
             m == Append(n, c)
  <2>1. c \in Parts /\ m \in DOMAIN t /\ (c = ss[l + 1] \/ IsWild(c))
    BY <1>4
  <2> HIDE DEF c
  <2>2. Len(m) = l + 1 /\ m[l + 1] = c /\ \A k \in 1..l : m[k] = n[k]
    BY <1>1, <2>1, AppendProperties
  <2>3. m \in Near(t, ss)
    BY <2>1, ChildNear
  <2> HIDE DEF m
  <2>4. \A k \in 1..Len(m) : m[k] = ss[k] \/ IsWild(m[k])
    <3> SUFFICES ASSUME NEW k \in 1..Len(m) PROVE m[k] = ss[k] \/ IsWild(m[k])
      OBVIOUS
    <3>1. k \in 1..l \/ k = l + 1
      BY <1>1, <2>2
    <3> QED BY <1>1, <2>1, <2>2, <3>1
  <2>5. Best(t, ss, f, m)
    BY <1>1, <2>2, <2>3, <2>4
  <2> QED BY <2>1, <2>2, <2>5 DEF m, c
<1>6. ASSUME NEW d, Hit(t, ss, d), From(d, n)
      PROVE  \E i \in 1..Len(fits) : d[l + 1] = fits[i] /\ From(d, Append(n, fits[i]))
  <2>1. /\ d \in DOMAIN t /\ Len(d) <= Len(ss) /\ l <= Len(d) /\ \A i \in 1..l : d[i] = n[i]
        /\ Len(d) = Len(ss) \/ (Len(d) # 0 /\ d[Len(d)] \in Stars)
        /\ \A i \in 1..Len(d) : d[i] = ss[i] \/ IsWild(d[i])
    BY <1>1, <1>6 DEF Hit, From, FitsParts
  <2>2. d \in Seq(Parts) /\ Len(d) \in Nat
    BY <2>1, NodeFacts
  <2>3. l + 1 <= Len(d)
    <3> SUFFICES ASSUME Len(d) = l PROVE FALSE
      BY <1>1, <2>1, <2>2
    <3>1. d = n
      BY <1>1, <2>1, <2>2, SeqEqual
    <3>2. Len(n) # 0 /\ n[Len(n)] \in Stars
      BY <1>1, <2>1, <3>1
    <3>3. n # << >>
      BY <1>1, <3>2, EmptySeq
    <3> QED BY <3>2, <3>3 DEF Ends, Last
  <2>4. PICK j \in 1..Len(Kids(t, n)) : Kids(t, n)[j] = d[l + 1]
    <3>1. Len(n) < Len(d) /\ \A i \in 1..Len(n) : d[i] = n[i]
      BY <1>1, <2>1, <2>2, <2>3
    <3> QED BY <1>1, <2>1, <3>1, ChildOn
  <2>5. d[l + 1] = ss[l + 1] \/ IsWild(d[l + 1])
    <3>1. l + 1 \in 1..Len(d)
      BY <1>1, <2>2, <2>3
    <3> QED BY <2>1, <3>1
  <2>6. PICK i \in 1..Len(fits) : fits[i] = d[l + 1]
    BY <1>4, <2>4, <2>5
  <2> DEFINE m == Append(n, fits[i])
  <2>7. Len(m) = l + 1 /\ m[l + 1] = fits[i] /\ \A k \in 1..l : m[k] = n[k]
    BY <1>5
  <2> HIDE DEF m
  <2>8. From(d, m)
    <3>1. \A k \in 1..l + 1 : k \in 1..l \/ k = l + 1
      BY <1>1
    <3> QED BY <2>1, <2>3, <2>6, <2>7, <3>1 DEF From
  <2> QED BY <2>6, <2>8 DEF m
<1>7. \/ /\ f[n] = NoNode
         /\ \A i \in 1..Len(fits) : f[Append(n, fits[i])] = NoNode
      \/ \E h \in 1..Len(fits) :
           /\ f[n] = f[Append(n, fits[h])]
           /\ f[Append(n, fits[h])] # NoNode
           /\ \A i \in 1..h - 1 : f[Append(n, fits[i])] = NoNode
  BY <1>1, <1>2, <1>3, BodyIs
<1>8. ASSUME NEW i \in 1..Len(fits), f[Append(n, fits[i])] = NoNode, NEW d, Hit(t, ss, d)
      PROVE  ~From(d, Append(n, fits[i]))
  <2> DEFINE m == Append(n, fits[i])
  <2>1. Best(t, ss, f, m)
    BY <1>5
  <2> HIDE DEF m
  <2>2. f[m] = NoNode
    BY <1>8 DEF m
  <2>3. ~Hit(t, ss, f[m])
    BY <2>2, NodeNotNone DEF Hit
  <2>4. ~From(d, m)
    BY <1>8, <2>1, <2>3 DEF Best
  <2> QED BY <2>4 DEF m
<1>9. CASE /\ f[n] = NoNode
           /\ \A i \in 1..Len(fits) : f[Append(n, fits[i])] = NoNode
  <2>1. ASSUME NEW d, Hit(t, ss, d), From(d, n) PROVE FALSE
    BY <1>6, <1>8, <1>9, <2>1
  <2> QED BY <1>9, <2>1 DEF Best
<1>10. ASSUME NEW h \in 1..Len(fits), f[n] = f[Append(n, fits[h])],
              f[Append(n, fits[h])] # NoNode,
              \A i \in 1..h - 1 : f[Append(n, fits[i])] = NoNode
       PROVE  Best(t, ss, f, n)
  <2> DEFINE m == Append(n, fits[h])
             s == f[m]
  <2>1. /\ Len(m) = l + 1 /\ m[l + 1] = fits[h] /\ \A k \in 1..l : m[k] = n[k]
        /\ Best(t, ss, f, m) /\ f[n] = s /\ s # NoNode
    BY <1>5, <1>10
  <2> HIDE DEF m
  <2>2. /\ Hit(t, ss, s) /\ From(s, m)
        /\ \A d : Hit(t, ss, d) /\ From(d, m) => d = s \/ Beats(s, d)
    BY <2>1 DEF Best
  <2> HIDE DEF s
  <2>3. /\ s \in DOMAIN t /\ s \in Seq(Parts) /\ Len(s) \in Nat /\ DOMAIN s = 1..Len(s)
        /\ l + 1 <= Len(s) /\ s[l + 1] = fits[h] /\ \A k \in 1..l : s[k] = n[k]
    <3>1. s \in DOMAIN t /\ l + 1 <= Len(s) /\ \A k \in 1..l + 1 : s[k] = m[k]
      BY <2>1, <2>2 DEF Hit, From
    <3>2. l + 1 \in 1..l + 1 /\ \A k \in 1..l : k \in 1..l + 1
      BY <1>1
    <3> QED BY <2>1, <3>1, <3>2, NodeFacts
  <2>4. From(s, n)
    BY <1>1, <2>3 DEF From
  <2>5. ASSUME NEW d, Hit(t, ss, d), From(d, n) PROVE d = s \/ Beats(s, d)
    <3>1. PICK i \in 1..Len(fits) : d[l + 1] = fits[i] /\ From(d, Append(n, fits[i]))
      BY <1>6, <2>5
    <3>2. CASE fits[i] = fits[h]
      BY <2>2, <2>5, <3>1, <3>2 DEF m
    <3>3. CASE fits[i] # fits[h]
      <4>1. i \notin 1..h - 1
        BY <1>8, <1>10, <2>5, <3>1
      <4>2. h < i
        BY <1>4, <3>3, <4>1
      <4>3. ~IsWild(fits[h])
        BY <1>4, <4>2
      <4>4. fits[h] = ss[l + 1] /\ IsWild(fits[i])
        BY <1>4, <3>3, <4>3
      <4>5. Len(d) \in Nat /\ l + 1 <= Len(d) /\ \A k \in 1..l : d[k] = n[k]
        <5>1. d \in DOMAIN t /\ Len(Append(n, fits[i])) = l + 1
              /\ Len(Append(n, fits[i])) <= Len(d)
          BY <1>5, <2>5, <3>1 DEF Hit, From
        <5> QED BY <1>1, <2>5, <5>1, NodeFacts DEF From
      <4>6. AgreeUpTo(s, d, l)
        BY <1>1, <2>3, <4>5, KindFacts DEF AgreeUpTo
      <4>7. l + 1 \in DOMAIN s /\ (l + 1) - 1 = l
        BY <1>1, <2>3
      <4>8. Beats(s, d)
        BY <2>3, <3>1, <4>3, <4>4, <4>5, <4>6, <4>7 DEF Beats
      <4> QED BY <4>8
    <3> QED BY <3>2, <3>3
  <2>6. f[n] = s
    BY <2>1
  <2> QED BY <2>2, <2>4, <2>5, <2>6 DEF Best
<1> QED BY <1>7, <1>9, <1>10

LEMMA SearchBest ==
  ASSUME NEW t, Shape(t), Narrow(t), StarsLast(t), NEW ss \in Seq(Parts), NEW f,
         Searches(f, t, ss)
  PROVE  Best(t, ss, f, << >>)
<1> DEFINE N == {m \in Near(t, ss) : \A i \in 1..Len(m) : m[i] = ss[i] \/ IsWild(m[i])}
           M == {e \in Nat : \E m \in N : Len(m) + e = Len(ss) /\ ~Best(t, ss, f, m)}
<1>1. Len(ss) \in Nat /\ \A m \in N : m \in Near(t, ss) /\ Len(m) \in Nat /\ Len(m) <= Len(ss)
  <2>1. \A m \in N : m \in Near(t, ss) /\ m \in DOMAIN t /\ Len(m) <= Len(ss)
    BY DEF Near
  <2>2. \A m \in N : Len(m) \in Nat
    BY <2>1, NodeFacts
  <2> HIDE DEF N
  <2> QED BY <2>1, <2>2, LenProperties
<1>2. M = {}
  <2> SUFFICES ASSUME M # {} PROVE FALSE
    OBVIOUS
  <2>1. PICK e \in M : \A o \in M : e <= o
    <3>1. M \subseteq Nat
      OBVIOUS
    <3> HIDE DEF M
    <3> QED BY <3>1, Least
  <2>2. e \in Nat /\ \E m \in N : Len(m) + e = Len(ss) /\ ~Best(t, ss, f, m)
    BY <2>1
  <2>3. PICK m \in N : Len(m) + e = Len(ss) /\ ~Best(t, ss, f, m)
    BY <2>2
  <2>4. ASSUME NEW o \in N, Len(o) = Len(m) + 1 PROVE Best(t, ss, f, o)
    <3>1. e - 1 \in Nat /\ Len(o) + (e - 1) = Len(ss)
      <4> HIDE DEF N
      <4> QED BY <1>1, <2>2, <2>3, <2>4
    <3>2. e - 1 \notin M
      <4> HIDE DEF M
      <4> QED BY <2>1, <2>2, <3>1
    <3> HIDE DEF N
    <3> QED BY <3>1, <3>2
  <2> HIDE DEF M
  <2>5. /\ m \in Near(t, ss) /\ \A i \in 1..Len(m) : m[i] = ss[i] \/ IsWild(m[i])
    OBVIOUS
  <2>6. CASE Ends(m, ss)
    BY <2>3, <2>5, <2>6, BestWhenEnds
  <2>7. CASE ~Ends(m, ss)
    <3>1. \A o \in Near(t, ss) :
            /\ Len(o) = Len(m) + 1
            /\ \A i \in 1..Len(o) : o[i] = ss[i] \/ IsWild(o[i])
            => Best(t, ss, f, o)
      BY <2>4
    <3>2. Best(t, ss, f, m)
      BY <2>5, <2>7, <3>1, BestFromChildren
    <3> QED BY <2>3, <3>2
  <2> QED BY <2>6, <2>7
<1>3. << >> \in N /\ Len(<< >>) = 0
  <2>1. << >> \in DOMAIN t /\ Len(<< >>) = 0
    BY EmptySeq DEF Shape
  <2> QED BY <1>1, <2>1 DEF Near
<1>4. Best(t, ss, f, << >>)
  <2> SUFFICES ASSUME ~Best(t, ss, f, << >>) PROVE FALSE
    OBVIOUS
  <2>1. Len(ss) \in M
    <3> HIDE DEF N
    <3> QED BY <1>1, <1>3
  <2> QED BY <1>2, <2>1
<1> QED BY <1>4

-----------------------------------------------------------------------------
(* getRoute (router.go:66-98) against what the patterns mean.              *)
LEMMA GetRouteSound ==
  ASSUME NEW t, Shape(t), NEW path \in Seq(Segs), GetRoute(t, path) # << >>
  PROVE  \E n \in DOMAIN t : /\ GetRoute(t, path) = t[n].pattern
                             /\ Len(n) <= Len(ParsePattern(path))
<1> DEFINE ss == ParsePattern(path)
           n == Search(t, ss)
<1>1. ss \in Seq(Parts) /\ Len(ss) \in Nat
  BY Parsed
<1>2. GetRoute(t, path) = IF n = NoNode THEN << >> ELSE t[n].pattern
  BY DEF GetRoute
<1> HIDE DEF ss
<1>3. PICK f : Searches(f, t, ss) /\ n = f[<< >>]
  BY <1>1, SearchIs
<1>4. << >> \in Near(t, ss)
  BY <1>1, EmptySeq DEF Near, Shape
<1> HIDE DEF n
<1>5. n = NoNode \/ n \in Near(t, ss)
  BY <1>1, <1>3, <1>4, SearchSound
<1>6. n \in DOMAIN t /\ Len(n) <= Len(ss)
  BY <1>2, <1>5 DEF Near
<1> QED BY <1>2, <1>5, <1>6, NodeNotNone DEF ss

(* Patterns, and their parts.                                              *)
Parsing(tab, rt, J) ==
  /\ J \in Nat /\ DOMAIN tab = 1..J /\ rt \in [1..J -> Seq(Parts)]
  /\ \A i \in 1..J : tab[i] \in Seq(Segs) /\ rt[i] = ParsePattern(tab[i])

FitsOf(tab, path) == {i \in DOMAIN tab : Fits(tab[i], path)}
BestOf(tab, path) ==
  {i \in FitsOf(tab, path) : \A j \in FitsOf(tab, path) :
     ~Beats(ParsePattern(tab[j]), ParsePattern(tab[i]))}

LEMMA LastOfBest ==
  ASSUME NEW tab, NEW rt, NEW J, Parsing(tab, rt, J), NEW path
  PROVE  /\ BestOf(tab, path) = {} => BestRoute(tab, path) = << >>
         /\ BestOf(tab, path) # {} =>
              \E i \in BestOf(tab, path) :
                BestRoute(tab, path) = tab[i] /\ \A j \in BestOf(tab, path) : j <= i
<1> DEFINE B == BestOf(tab, path)
           c == CHOOSE i \in B : \A j \in B : j <= i
<1>1. BestRoute(tab, path) = IF B = {} THEN << >> ELSE tab[c]
  BY DEF BestRoute, BestOf, FitsOf
<1>2. B \subseteq 1..J /\ J \in Nat
  BY DEF BestOf, FitsOf, Parsing
<1> HIDE DEF B
<1>3. B # {} => c \in B /\ \A j \in B : j <= c
  <2> SUFFICES ASSUME B # {} PROVE \E i \in B : \A j \in B : j <= i
    OBVIOUS
  <2> QED BY <1>2, MaxOf
<1> HIDE DEF c
<1> QED BY <1>1, <1>3 DEF B

(* What is found fits.                                                     *)
LEMMA BestRouteFits ==
  ASSUME NEW tab, NEW rt, NEW J, Parsing(tab, rt, J), NEW path, BestRoute(tab, path) # << >>
  PROVE  \E i \in 1..J : tab[i] = BestRoute(tab, path) /\ Fits(tab[i], path)
<1>1. PICK i \in BestOf(tab, path) : BestRoute(tab, path) = tab[i]
  BY LastOfBest
<1> QED BY <1>1 DEF BestOf, FitsOf, Parsing

LEMMA BestRouteAt ==
  ASSUME NEW tab, NEW rt, NEW J, Parsing(tab, rt, J), NEW path,
         NEW t, Holds(t, tab, rt, J), NEW s \in DOMAIN t,
         \A i \in 1..J : i \in BestOf(tab, path) <=> Kin(s, rt[i])
  PROVE  BestRoute(tab, path) = t[s].pattern
<1>1. J \in Nat /\ BestOf(tab, path) \subseteq 1..J
  BY DEF BestOf, FitsOf, Parsing
<1>2. CASE t[s].pattern = << >> /\ \A i \in 1..J : ~Kin(s, rt[i])
  <2>1. BestOf(tab, path) = {}
    BY <1>1, <1>2
  <2> QED BY <1>2, <2>1, LastOfBest
<1>3. CASE \E i \in 1..J : /\ Kin(s, rt[i]) /\ t[s].pattern = tab[i]
                           /\ \A k \in 1..J : Kin(s, rt[k]) => k <= i
  <2>1. PICK i \in 1..J : /\ Kin(s, rt[i]) /\ t[s].pattern = tab[i]
                          /\ \A k \in 1..J : Kin(s, rt[k]) => k <= i
    BY <1>3
  <2>2. PICK k \in BestOf(tab, path) :
          BestRoute(tab, path) = tab[k] /\ \A j \in BestOf(tab, path) : j <= k
    BY <2>1, LastOfBest
  <2>3. k <= i /\ i <= k /\ k \in Nat
    BY <1>1, <2>1, <2>2
  <2>4. k = i
    BY <2>3
  <2> QED BY <2>1, <2>2, <2>4
<1> QED BY <1>2, <1>3 DEF Holds

LEMMA RouteHit ==
  ASSUME NEW tab, NEW rt, NEW J, Parsing(tab, rt, J), NEW t, Shape(t), Agrees(t, tab, rt, J),
         NEW ss \in Seq(Parts), Len(ss) # 0, NEW i \in 1..J, FitsParts(rt[i], ss)
  PROVE  \E d : Hit(t, ss, d) /\ Kin(d, rt[i])
<1>1. rt[i] \in Seq(Parts) /\ Len(rt[i]) \in Nat /\ Len(rt[i]) # 0
  <2>1. rt[i] \in Seq(Parts)
    BY DEF Parsing
  <2> QED BY <2>1, LenProperties DEF FitsParts
<1>2. PICK d \in DOMAIN t : Len(d) = Len(rt[i]) /\ AgreeUpTo(d, rt[i], Len(rt[i]))
  <2>1. Len(rt[i]) \in 0..Len(rt[i])
    BY <1>1
  <2> QED BY <2>1 DEF Agrees, Covers, Reaches
<1>3. Kin(d, rt[i]) /\ d \in Seq(Parts)
  BY <1>2, NodeFacts DEF Kin
<1>4. FitsParts(d, ss)
  BY <1>1, <1>3, KinFits, KinFacts
<1>5. t[d].pattern # << >>
  <2>1. PICK k \in 1..J : Kin(d, rt[k]) /\ t[d].pattern = tab[k]
    BY <1>3 DEF Agrees, Holds
  <2>2. tab[k] \in Seq(Segs) /\ rt[k] = ParsePattern(tab[k])
    BY DEF Parsing
  <2>3. Len(rt[k]) # 0
    BY <1>1, <1>2, <2>1 DEF Kin
  <2>4. ParsePattern(tab[k]) # << >>
    BY <2>2, <2>3, EmptySeq
  <2> QED BY <2>1, <2>2, <2>4, ParseEmpty
<1> QED BY <1>2, <1>3, <1>4, <1>5 DEF Hit

LEMMA StarsComeLast ==
  ASSUME NEW tab, NEW rt, NEW J, Parsing(tab, rt, J), NEW t, Shape(t), Begun(t, rt, J)
  PROVE  StarsLast(t)
<1> SUFFICES ASSUME NEW n \in DOMAIN t, NEW k \in 1..Len(n) - 1 PROVE n[k] \notin Stars
  BY DEF StarsLast
<1>1. n \in Seq(Parts) /\ Len(n) \in Nat /\ n # << >>
  <2>1. Len(n) \in Nat /\ n \in Seq(Parts) /\ (n = << >> <=> Len(n) = 0)
    BY NodeFacts
  <2> QED BY <2>1
<1>2. PICK i \in 1..J : AgreeUpTo(n, rt[i], Len(n))
  BY <1>1 DEF Begun
<1>3. tab[i] \in Seq(Segs) /\ rt[i] = ParsePattern(tab[i])
  BY DEF Parsing
<1>4. \A o \in 1..Len(rt[i]) - 1 : rt[i][o] \notin Stars
  BY <1>3, Parsed
<1>5. Len(rt[i]) \in Nat
  BY <1>3, Parsed
<1>6. Len(n) <= Len(rt[i]) /\ SameKind(n[k], rt[i][k])
  <2>1. k \in 1..Len(n)
    BY <1>1
  <2> QED BY <1>2, <2>1 DEF AgreeUpTo
<1>7. k \in 1..Len(rt[i]) - 1
  BY <1>1, <1>5, <1>6
<1> QED BY <1>4, <1>6, <1>7, KindFacts

LEMMA FitsOfIs ==
  ASSUME NEW tab, NEW rt, NEW J, Parsing(tab, rt, J), NEW path \in Seq(Segs), NEW i \in 1..J
  PROVE  i \in FitsOf(tab, path) <=> FitsParts(rt[i], ParsePattern(path))
<1>1. tab[i] \in Seq(Segs) /\ rt[i] = ParsePattern(tab[i]) /\ i \in DOMAIN tab
  BY DEF Parsing
<1> QED BY <1>1, FitsIs DEF FitsOf

(* A path without parts: the patterns without parts.                       *)
LEMMA RouteOfNothing ==
  ASSUME NEW tab, NEW rt, NEW J, Parsing(tab, rt, J), NEW t, Shape(t), Agrees(t, tab, rt, J),
         NEW path \in Seq(Segs), Len(ParsePattern(path)) = 0
  PROVE  GetRoute(t, path) = BestRoute(tab, path)
<1> DEFINE ss == ParsePattern(path)
           n == Search(t, ss)
<1>1. ss \in Seq(Parts)
  BY Parsed
<1>2. GetRoute(t, path) = IF n = NoNode THEN << >> ELSE t[n].pattern
  BY DEF GetRoute
<1>3. Len(ss) = 0
  OBVIOUS
<1> HIDE DEF ss
<1>4. PICK f : Searches(f, t, ss) /\ n = f[<< >>]
  BY <1>1, SearchIs
<1> HIDE DEF n
<1>5. << >> \in DOMAIN t /\ << >> \in Seq(Parts) /\ Len(<< >>) = 0
  BY EmptySeq DEF Shape
<1>6. << >> \in Near(t, ss) /\ Ends(<< >>, ss)
  BY <1>3, <1>5 DEF Near, Ends
<1>7. n = IF t[<< >>].pattern = << >> THEN NoNode ELSE << >>
  BY <1>4, <1>6 DEF Searches, Body
<1>8. GetRoute(t, path) = t[<< >>].pattern
  BY <1>2, <1>5, <1>7, NodeNotNone
<1>9. ASSUME NEW i \in 1..J
      PROVE  i \in FitsOf(tab, path) <=> Kin(<< >>, rt[i])
  <2>1. rt[i] \in Seq(Parts) /\ Len(rt[i]) \in Nat
    <3>1. rt[i] \in Seq(Parts)
      BY DEF Parsing
    <3> QED BY <3>1, LenProperties
  <2>2. i \in FitsOf(tab, path) <=> FitsParts(rt[i], ss)
    BY FitsOfIs DEF ss
  <2>3. FitsParts(rt[i], ss) <=> Len(rt[i]) = 0
    BY <1>3, <2>1 DEF FitsParts
  <2>4. Kin(<< >>, rt[i]) <=> Len(rt[i]) = 0
    BY <1>5, <2>1 DEF Kin, AgreeUpTo
  <2> QED BY <2>2, <2>3, <2>4
<1>10. ASSUME NEW i \in 1..J
       PROVE  i \in BestOf(tab, path) <=> Kin(<< >>, rt[i])
  <2>1. ASSUME NEW j \in FitsOf(tab, path), NEW o \in FitsOf(tab, path)
        PROVE  ~Beats(ParsePattern(tab[j]), ParsePattern(tab[o]))
    <3>1. j \in 1..J /\ o \in 1..J
      BY DEF FitsOf, Parsing
    <3>2. /\ rt[j] \in Seq(Parts) /\ rt[o] \in Seq(Parts)
          /\ rt[j] = ParsePattern(tab[j]) /\ rt[o] = ParsePattern(tab[o])
      BY <3>1 DEF Parsing
    <3>3. Kin(rt[j], << >>) /\ Kin(<< >>, rt[o])
      BY <1>5, <1>9, <3>1, <3>2, KinFacts
    <3>4. Kin(rt[j], rt[o])
      BY <1>5, <3>2, <3>3, KinFacts
    <3> QED BY <3>2, <3>4, KinUnbeaten
  <2> QED BY <1>9, <2>1 DEF BestOf
<1> QED BY <1>5, <1>8, <1>10, BestRouteAt DEF Agrees

LEMMA RouteIsBest ==
  ASSUME NEW tab, NEW rt, NEW J, Parsing(tab, rt, J), NEW t, Shape(t), Agrees(t, tab, rt, J),
         NEW path \in Seq(Segs)
  PROVE  GetRoute(t, path) = BestRoute(tab, path)
<1>1. CASE Len(ParsePattern(path)) = 0
  BY <1>1, RouteOfNothing
<1>2. CASE Len(ParsePattern(path)) # 0
  <2> DEFINE ss == ParsePattern(path)
             n == Search(t, ss)
  <2>1. ss \in Seq(Parts) /\ Len(ss) # 0
    BY <1>2, Parsed
  <2>2. GetRoute(t, path) = IF n = NoNode THEN << >> ELSE t[n].pattern
    BY DEF GetRoute
  <2>3. \A i \in 1..J : i \in FitsOf(tab, path) <=> FitsParts(rt[i], ss)
    BY FitsOfIs
  <2> HIDE DEF ss
  <2>4. PICK f : Searches(f, t, ss) /\ n = f[<< >>]
    BY <2>1, SearchIs
  <2> HIDE DEF n
  <2>5. Best(t, ss, f, << >>)
    BY <2>1, <2>4, StarsComeLast, SearchBest DEF Agrees
  <2>6. \A d : From(d, << >>) <=> Len(d) >= 0
    BY EmptySeq DEF From
  <2>7. ASSUME NEW d, Hit(t, ss, d) PROVE From(d, << >>)
    <3>1. Len(d) \in Nat
      BY <2>7, NodeFacts DEF Hit
    <3>2. Len(<< >>) = 0
      BY EmptySeq
    <3> QED BY <3>1, <3>2 DEF From
  <2>8. \A i \in 1..J : rt[i] \in Seq(Parts) /\ rt[i] = ParsePattern(tab[i])
    BY DEF Parsing
  <2>9. CASE n = NoNode
    <3>1. \A d : ~Hit(t, ss, d)
      BY <2>4, <2>5, <2>7, <2>9, NodeNotNone DEF Best, Hit
    <3>2. \A i \in 1..J : ~FitsParts(rt[i], ss)
      BY <2>1, <3>1, RouteHit
    <3>3. BestOf(tab, path) = {}
      BY <2>3, <3>2 DEF BestOf, FitsOf, Parsing
    <3> QED BY <2>2, <2>9, <3>3, LastOfBest
  <2>10. CASE n # NoNode
    <3>1. Hit(t, ss, n) /\ \A d : Hit(t, ss, d) => d = n \/ Beats(n, d)
      BY <2>4, <2>5, <2>7, <2>10 DEF Best
    <3>2. n \in DOMAIN t /\ n \in Seq(Parts) /\ t[n].pattern # << >> /\ FitsParts(n, ss)
      BY <3>1, NodeFacts DEF Hit
    <3>3. PICK o \in 1..J : Kin(n, rt[o])
      BY <3>2 DEF Agrees, Holds
    <3>4. ASSUME NEW i \in 1..J, Kin(n, rt[i]) PROVE i \in BestOf(tab, path)
      <4>1. i \in FitsOf(tab, path)
        BY <2>1, <2>3, <2>8, <3>2, <3>4, KinFits
      <4>2. ASSUME NEW j \in FitsOf(tab, path)
            PROVE  ~Beats(ParsePattern(tab[j]), ParsePattern(tab[i]))
        <5>1. j \in 1..J /\ FitsParts(rt[j], ss)
          BY <2>3 DEF FitsOf, Parsing
        <5>2. PICK d : Hit(t, ss, d) /\ Kin(d, rt[j])
          BY <2>1, <5>1, RouteHit
        <5>3. d \in Seq(Parts)
          BY <5>2, NodeFacts DEF Hit
        <5>4. CASE d = n
          <6>1. Kin(rt[j], n)
            BY <2>8, <3>2, <5>1, <5>2, <5>4, KinFacts
          <6>2. Kin(rt[j], rt[i])
            BY <2>8, <3>2, <3>4, <5>1, <6>1, KinFacts
          <6> QED BY <2>8, <5>1, <6>2, KinUnbeaten
        <5>5. CASE Beats(n, d)
          <6>1. Beats(rt[i], rt[j])
            BY <2>8, <3>2, <3>4, <5>1, <5>2, <5>3, <5>5, KinBeats
          <6> QED BY <2>8, <5>1, <6>1, BeatsOneWay
        <5> QED BY <3>1, <5>2, <5>4, <5>5
      <4> QED BY <4>1, <4>2 DEF BestOf
    <3>5. ASSUME NEW i \in 1..J, i \in BestOf(tab, path) PROVE Kin(n, rt[i])
      <4>1. FitsParts(rt[i], ss) /\ i \in FitsOf(tab, path)
        BY <2>3, <3>5 DEF BestOf
      <4>2. PICK d : Hit(t, ss, d) /\ Kin(d, rt[i])
        BY <2>1, <4>1, RouteHit
      <4>3. d \in Seq(Parts)
        BY <4>2, NodeFacts DEF Hit
      <4>4. CASE d = n
        BY <4>2, <4>4
      <4>5. CASE Beats(n, d)
        <5>1. Beats(rt[o], rt[i])
          BY <2>8, <3>2, <3>3, <4>2, <4>3, <4>5, KinBeats
        <5>2. o \in FitsOf(tab, path)
          BY <2>1, <2>3, <2>8, <3>2, <3>3, KinFits
        <5>3. ~Beats(ParsePattern(tab[o]), ParsePattern(tab[i]))
          BY <3>5, <5>2 DEF BestOf
        <5> QED BY <2>8, <5>1, <5>3
      <4> QED BY <3>1, <4>2, <4>4, <4>5
    <3>6. BestRoute(tab, path) = t[n].pattern
      BY <3>2, <3>4, <3>5, BestRouteAt DEF Agrees
    <3> QED BY <2>2, <2>10, <3>6
  <2> QED BY <2>9, <2>10
<1> QED BY <1>1, <1>2

-----------------------------------------------------------------------------
(* A trie and the patterns it was built from, in their order.              *)
PartsOf(tab) == [i \in 1..Len(tab) |-> ParsePattern(tab[i])]

BuiltFrom(t, tab) ==
  Shape(t) /\ (NoneDiverted(tab) => Agrees(t, tab, PartsOf(tab), Len(tab)))

LEMMA PartsParsed ==
  ASSUME NEW tab \in Seq(Seq(Segs))
  PROVE  Parsing(tab, PartsOf(tab), Len(tab))
<1>1. Len(tab) \in Nat /\ DOMAIN tab = 1..Len(tab) /\ \A i \in 1..Len(tab) : tab[i] \in Seq(Segs)
  BY LenProperties, ElementOfSeq
<1>2. \A i \in 1..Len(tab) : ParsePattern(tab[i]) \in Seq(Parts)
  BY <1>1, Parsed
<1>3. PartsOf(tab) \in [1..Len(tab) -> Seq(Parts)]
  BY <1>2 DEF PartsOf
<1>4. \A i \in 1..Len(tab) : PartsOf(tab)[i] = ParsePattern(tab[i])
  BY DEF PartsOf
<1> QED BY <1>1, <1>3, <1>4 DEF Parsing

(* Whether a pattern is diverted is up to those before it.                 *)
LEMMA DivertedBefore ==
  ASSUME NEW tab, NEW tb, NEW j \in Nat, \A i \in 1..j : tb[i] = tab[i], Diverted(tab, j)
  PROVE  j # 0 => Diverted(tb, j)
<1> SUFFICES ASSUME j # 0 PROVE Diverted(tb, j)
  OBVIOUS
<1> DEFINE part(i) == ParsePattern(tab[i])
           part2(i) == ParsePattern(tb[i])
<1>1. \A i \in 1..j : part2(i) = part(i)
  OBVIOUS
<1>2. PICK i \in 1..j - 1 : \E l \in DOMAIN part(j) :
        /\ l <= Len(part(i)) /\ AgreeUpTo(part(i), part(j), l - 1)
        /\ IsWild(part(i)[l]) /\ ~SameKind(part(i)[l], part(j)[l])
        /\ ~\E m \in 1..i - 1 : AgreeUpTo(part(m), part(j), l)
  BY DEF Diverted
<1>3. PICK l \in DOMAIN part(j) :
        /\ l <= Len(part(i)) /\ AgreeUpTo(part(i), part(j), l - 1)
        /\ IsWild(part(i)[l]) /\ ~SameKind(part(i)[l], part(j)[l])
        /\ ~\E m \in 1..i - 1 : AgreeUpTo(part(m), part(j), l)
  BY <1>2
<1>4. i \in 1..j /\ j \in 1..j /\ \A m \in 1..i - 1 : m \in 1..j
  OBVIOUS
<1>5. part2(i) = part(i) /\ part2(j) = part(j) /\ \A m \in 1..i - 1 : part2(m) = part(m)
  BY <1>1, <1>4
<1> HIDE DEF part, part2
<1>6. /\ l \in DOMAIN part2(j)
      /\ l <= Len(part2(i)) /\ AgreeUpTo(part2(i), part2(j), l - 1)
      /\ IsWild(part2(i)[l]) /\ ~SameKind(part2(i)[l], part2(j)[l])
      /\ ~\E m \in 1..i - 1 : AgreeUpTo(part2(m), part2(j), l)
  BY <1>3, <1>5
<1> QED BY <1>6 DEF Diverted, part2

LEMMA DivertedNot ==
  ASSUME NEW tab, NEW rt, NEW J \in Nat, Parsing(tab, rt, J + 1), ~Diverted(tab, J + 1)
  PROVE  Straight(rt, J, rt[J + 1])
<1> DEFINE ps == rt[J + 1]
<1>1. /\ \A i \in 1..J + 1 : rt[i] = ParsePattern(tab[i])
      /\ J + 1 \in 1..J + 1
  BY DEF Parsing
<1>2. rt \in [1..J + 1 -> Seq(Parts)]
  BY DEF Parsing
<1>3. ps \in Seq(Parts)
  BY <1>1, <1>2
<1>4. DOMAIN ps = 1..Len(ps)
  BY <1>3, LenProperties
<1>5. ps = ParsePattern(tab[J + 1])
  BY <1>1
<1> HIDE DEF ps
<1>6. ASSUME NEW i \in 1..J, NEW l \in 1..Len(ps),
             l <= Len(rt[i]), AgreeUpTo(rt[i], ps, l - 1),
             IsWild(rt[i][l]), ~SameKind(rt[i][l], ps[l])
      PROVE  \E k \in 1..J : AgreeUpTo(rt[k], ps, l)
  <2> SUFFICES ASSUME \A k \in 1..J : ~AgreeUpTo(rt[k], ps, l) PROVE FALSE
    OBVIOUS
  <2> DEFINE part(m) == ParsePattern(tab[m])
  <2>1. part(i) = rt[i] /\ part(J + 1) = ps /\ \A k \in 1..i - 1 : part(k) = rt[k] /\ k \in 1..J
    BY <1>1, <1>5
  <2>2. i \in 1..(J + 1) - 1 /\ l \in DOMAIN part(J + 1)
    BY <1>4, <2>1
  <2>3. ~\E k \in 1..i - 1 : AgreeUpTo(part(k), part(J + 1), l)
    BY <2>1
  <2>4. /\ l <= Len(part(i)) /\ AgreeUpTo(part(i), part(J + 1), l - 1)
        /\ IsWild(part(i)[l]) /\ ~SameKind(part(i)[l], part(J + 1)[l])
    BY <1>6, <2>1
  <2> HIDE DEF part
  <2>5. Diverted(tab, J + 1)
    BY <2>2, <2>3, <2>4 DEF Diverted, part
  <2> QED BY <2>5
<1> QED BY <1>6 DEF Straight, ps

LEMMA EmptyBuilt == BuiltFrom(EmptyTrie, << >>)
<1>1. DOMAIN EmptyTrie = {<< >>} /\ EmptyTrie[<< >>] = [pattern |-> << >>, children |-> << >>]
  BY DEF EmptyTrie, NewNode
<1>2. << >> \in Seq(Parts) /\ Len(<< >>) = 0
  OBVIOUS
<1>3. Kids(EmptyTrie, << >>) = << >> /\ EmptyTrie[<< >>].pattern = << >>
  BY <1>1 DEF Kids
<1>4. Shape(EmptyTrie)
  <2> DEFINE t == EmptyTrie
  <2>1. << >> \in DOMAIN t /\ DOMAIN t \subseteq Seq(Parts)
    BY <1>1, <1>2
  <2>2. t[<< >>] = [pattern |-> t[<< >>].pattern, children |-> t[<< >>].children]
    BY <1>1
  <2>3. \A n \in DOMAIN t : n = << >>
    BY <1>1
  <2>4. Kids(t, << >>) = << >>
    BY <1>3
  <2> HIDE DEF t
  <2>5. ASSUME NEW n \in DOMAIN t
        PROVE  /\ Kids(t, n) \in Seq(Parts)
               /\ \A k \in 1..Len(Kids(t, n)) : Append(n, Kids(t, n)[k]) \in DOMAIN t
               /\ \A k \in 1..Len(n) :
                    /\ SubSeq(n, 1, k - 1) \in DOMAIN t
                    /\ \E j \in 1..Len(Kids(t, SubSeq(n, 1, k - 1))) :
                         Kids(t, SubSeq(n, 1, k - 1))[j] = n[k]
    <3>1. n = << >>
      BY <2>3
    <3>2. Len(n) = 0 /\ Kids(t, n) = << >>
      BY <1>2, <2>4, <3>1
    <3>3. Len(Kids(t, n)) = 0 /\ Kids(t, n) \in Seq(Parts)
      BY <1>2, <3>2
    <3> QED BY <3>2, <3>3
  <2>6. Shape(t)
    BY <2>1, <2>2, <2>3, <2>5 DEF Shape
  <2> QED BY <2>6 DEF t
<1> DEFINE rt == PartsOf(<< >>)
<1>5. Narrow(EmptyTrie)
  BY <1>1, <1>2, <1>3 DEF Narrow
<1>6. Covers(EmptyTrie, rt, 0)
  BY DEF Covers
<1>7. Holds(EmptyTrie, << >>, rt, 0)
  BY <1>1, <1>3 DEF Holds
<1>8. Begun(EmptyTrie, rt, 0)
  BY <1>1 DEF Begun
<1> QED BY <1>2, <1>4, <1>5, <1>6, <1>7, <1>8 DEF BuiltFrom, Agrees

LEMMA BuiltGrows ==
  ASSUME NEW t, NEW tab \in Seq(Seq(Segs)), BuiltFrom(t, tab), NEW pattern \in Seq(Segs)
  PROVE  BuiltFrom(Insert(t, pattern), Append(tab, pattern))
<1> DEFINE J == Len(tab)
           tb == Append(tab, pattern)
           u == Insert(t, pattern)
           rt == PartsOf(tab)
           qt == PartsOf(tb)
<1>1. /\ J \in Nat /\ tb \in Seq(Seq(Segs)) /\ Len(tb) = J + 1
      /\ tb[J + 1] = pattern /\ \A i \in 1..J : tb[i] = tab[i]
  BY LenProperties, AppendProperties
<1>2. DOMAIN tab = 1..J /\ DOMAIN tb = 1..J + 1
  BY <1>1, LenProperties
<1> HIDE DEF tb
<1>3. Parsing(tab, rt, J) /\ Parsing(tb, qt, J + 1)
  BY <1>1, PartsParsed
<1>4. Shape(u)
  BY InsertShape DEF BuiltFrom
<1>5. ASSUME NoneDiverted(tb) PROVE Agrees(u, tb, qt, J + 1)
  <2>1. NoneDiverted(tab)
    <3> SUFFICES ASSUME NEW j \in 1..J, Diverted(tab, j) PROVE FALSE
      BY <1>2 DEF NoneDiverted
    <3>1. j \in Nat /\ j # 0 /\ j \in 1..J + 1 /\ \A i \in 1..j : tb[i] = tab[i]
      BY <1>1
    <3>2. Diverted(tb, j)
      BY <3>1, DivertedBefore
    <3> QED BY <1>2, <1>5, <3>1, <3>2 DEF NoneDiverted
  <2>2. Agrees(t, tab, rt, J) /\ Shape(t)
    BY <2>1 DEF BuiltFrom
  <2>3. ~Diverted(tb, J + 1)
    BY <1>1, <1>2, <1>5 DEF NoneDiverted
  <2>4. qt[J + 1] = ParsePattern(pattern) /\ \A i \in 1..J : qt[i] = rt[i]
    BY <1>1 DEF PartsOf
  <2> HIDE DEF rt, qt, J, u
  <2>5. Straight(qt, J, ParsePattern(pattern))
    <3>1. Straight(qt, J, qt[J + 1])
      BY <1>1, <1>3, <2>3, DivertedNot
    <3> QED BY <2>4, <3>1
  <2>6. Straight(rt, J, ParsePattern(pattern))
    BY <2>4, <2>5 DEF Straight
  <2>7. rt \in [1..J -> Seq(Parts)]
    BY <1>3 DEF Parsing
  <2> QED BY <1>1, <2>2, <2>4, <2>6, <2>7, InsertAgrees DEF u
<1> QED BY <1>1, <1>4, <1>5 DEF BuiltFrom, tb

LEMMA BuiltFinds ==
  ASSUME NEW t, NEW tab \in Seq(Seq(Segs)), BuiltFrom(t, tab), NoneDiverted(tab),
         NEW path \in Seq(Segs)
  PROVE  GetRoute(t, path) = BestRoute(tab, path)
BY PartsParsed, RouteIsBest DEF BuiltFrom

-----------------------------------------------------------------------------
(* A pattern with its wildcards filled in: pieces of the path that follow  *)
(* one another, and the last is the rest of it.                            *)
Flats(f, e, n) == f = [i \in 1..n |-> IF i = 1 THEN e[i] ELSE f[i - 1] \o e[i]]

LEMMA PiecesJoin ==
  ASSUME NEW S, NEW ss \in Seq(S), NEW n \in 1..Len(ss), NEW e, Len(e) = n,
         \A i \in 1..n : e[i] = SubSeq(ss, i, IF i = n THEN Len(ss) ELSE i)
  PROVE  FlattenSeq(e) = ss
<1> DEFINE L == Len(ss)
           to(i) == IF i = n THEN L ELSE i
           Def(g) == [i \in 1..n |-> IF i = 1 THEN e[i] ELSE g[i - 1] \o e[i]]
           flatten == CHOOSE g : g = Def(g)
           f == [i \in 1..n |-> SubSeq(ss, 1, to(i))]
<1>1. L \in Nat /\ n \in Nat /\ n # 0
  BY LenProperties
<1>2. FlattenSeq(e) = flatten[n]
  BY <1>1 DEF FlattenSeq
<1>3. \A i \in 1..n : e[i] = SubSeq(ss, i, to(i)) /\ to(i) \in i..L
  BY <1>1
<1>4. \A i \in 1..n : i # 1 => i - 1 \in 1..n /\ to(i - 1) = i - 1
  BY <1>1
<1> HIDE DEF to
<1>5. ASSUME NEW i \in 1..n, i # 1
      PROVE  SubSeq(ss, 1, i - 1) \o SubSeq(ss, i, to(i)) = SubSeq(ss, 1, to(i))
  <2> DEFINE m == i - 1
             t == to(i)
  <2>1. m \in 0..L /\ t \in m..L /\ m + 1 = i /\ 1 \in 1..m + 1 /\ m \in 1..L
    BY <1>1, <1>3, <1>4, <1>5
  <2> HIDE DEF m, t
  <2>2. SubSeq(ss, 1, m) \o SubSeq(ss, m + 1, t) = SubSeq(ss, 1, t)
    BY <1>1, <2>1, ConcatAdjacentSubSeq
  <2> QED BY <2>1, <2>2 DEF m, t
<1>6. f = Def(f)
  <2>1. ASSUME NEW i \in 1..n PROVE f[i] = IF i = 1 THEN e[i] ELSE f[i - 1] \o e[i]
    <3>1. f[i] = SubSeq(ss, 1, to(i))
      OBVIOUS
    <3>2. CASE i = 1
      BY <1>3, <3>1, <3>2
    <3>3. CASE i # 1
      <4>1. f[i - 1] = SubSeq(ss, 1, i - 1)
        BY <1>4, <3>3
      <4> HIDE DEF f
      <4> QED BY <1>3, <1>5, <3>1, <3>3, <4>1
    <3> QED BY <3>2, <3>3
  <2>2. f = [i \in 1..n |-> f[i]]
    OBVIOUS
  <2> HIDE DEF f
  <2> QED BY <2>1, <2>2
<1>7. flatten = Def(flatten)
  <2> HIDE DEF f, Def
  <2> QED BY <1>6
<1> HIDE DEF flatten
<1> DEFINE T == {i \in 1..n : flatten[i] # f[i]}
<1>8. T = {}
  <2> SUFFICES ASSUME T # {} PROVE FALSE
    OBVIOUS
  <2>1. PICK i \in T : \A j \in T : i <= j
    <3>1. T \subseteq Nat
      OBVIOUS
    <3> HIDE DEF T
    <3> QED BY <3>1, Least
  <2>2. i \in 1..n /\ flatten[i] # f[i]
    BY <2>1
  <2>3. flatten[i] = IF i = 1 THEN e[i] ELSE flatten[i - 1] \o e[i]
    BY <1>7, <2>2
  <2>4. f[i] = IF i = 1 THEN e[i] ELSE f[i - 1] \o e[i]
    <3> HIDE DEF f
    <3> QED BY <1>6, <2>2
  <2>5. i # 1 => flatten[i - 1] = f[i - 1]
    <3> SUFFICES ASSUME i # 1 PROVE flatten[i - 1] = f[i - 1]
      OBVIOUS
    <3>1. i - 1 \in 1..n /\ ~(i <= i - 1)
      BY <1>1, <2>2
    <3>2. i - 1 \notin T
      <4> HIDE DEF T
      <4> QED BY <2>1, <3>1
    <3> HIDE DEF f
    <3> QED BY <3>1, <3>2
  <2> HIDE DEF f
  <2> QED BY <2>2, <2>3, <2>4, <2>5
<1>9. flatten[n] = SubSeq(ss, 1, L)
  <2>1. n \in 1..n /\ f[n] = SubSeq(ss, 1, to(n)) /\ to(n) = L
    BY <1>1 DEF to
  <2> HIDE DEF f
  <2> QED BY <1>8, <2>1
<1> QED BY <1>2, <1>9, SubSeqFull

(* Of a wildcard with a name of its own the last place is the one.         *)
LEMMA OnlyPlace ==
  ASSUME NEW ps, Len(ps) \in Nat, NEW i \in 1..Len(ps),
         \A j \in 1..Len(ps) : ps[j] = ps[i] => j = i
  PROVE  SelectLastInSeq(ps, LAMBDA p : p = ps[i]) = i
<1> DEFINE I == {j \in 1..Len(ps) : ps[j] = ps[i]}
<1>1. I = {i} /\ i \in Nat
  OBVIOUS
<1>2. Max(I) \in I
  <2>1. I \subseteq 1..Len(ps) /\ I # {}
    BY <1>1
  <2> HIDE DEF I
  <2> QED BY <2>1, MaxOf
<1>3. I # {} /\ Max(I) = i
  BY <1>1, <1>2
<1>4. SelectLastInSeq(ps, LAMBDA p : p = ps[i]) = IF I # {} THEN Max(I) ELSE 0
  BY DEF SelectLastInSeq
<1> HIDE DEF I
<1> QED BY <1>3, <1>4

LEMMA FilledIsPath ==
  ASSUME NEW found \in Seq(Segs), NEW path \in Seq(Segs), Fits(found, path), NamedOnce(found)
  PROVE  Filled(found, GetParams(found, path)) = ParsePattern(path)
<1> DEFINE ps == ParsePattern(found)
           ss == ParsePattern(path)
           n == Len(ps)
           L == Len(ss)
           params == GetParams(found, path)
           last(part) == SelectLastInSeq(ps, LAMBDA p : p = part)
           e == [i \in DOMAIN ps |-> IF IsWild(ps[i]) THEN params[ps[i]] ELSE <<ps[i]>>]
<1>1. /\ ps \in Seq(Parts) /\ ss \in Seq(Parts) /\ n \in Nat /\ L \in Nat
      /\ \A i \in 1..n - 1 : ps[i] \notin Stars
  BY Parsed
<1>2. DOMAIN ps = 1..n /\ \A i \in 1..L : ss[i] \in Parts
  BY <1>1, LenProperties, ElementOfSeq
<1>3. FitsParts(ps, ss)
  BY FitsIs
<1>4. \A i, j \in 1..n : IsWild(ps[i]) /\ ps[i] = ps[j] => i = j
  BY <1>2 DEF NamedOnce
<1>5. Filled(found, params) = FlattenSeq(e)
  BY DEF Filled
<1>6. params = [part \in {p \in Range(ps) : IsWild(p)} |->
                  IF part \in Params THEN <<ss[last(part)]>> ELSE SubSeq(ss, last(part), L)]
  BY DEF GetParams
<1> HIDE DEF ps, ss, params
<1>7. ASSUME NEW i \in 1..n, IsWild(ps[i])
      PROVE  params[ps[i]] = IF ps[i] \in Params THEN <<ss[i]>> ELSE SubSeq(ss, i, L)
  <2>1. \A j \in 1..n : ps[j] = ps[i] => j = i
    BY <1>4, <1>7
  <2>2. last(ps[i]) = i
    BY <1>1, <2>1, OnlyPlace
  <2>3. ps[i] \in {p \in Range(ps) : IsWild(p)}
    BY <1>2, <1>7 DEF Range
  <2> HIDE DEF last
  <2> QED BY <1>6, <2>2, <2>3
<1>8. ASSUME NEW i \in 1..n
      PROVE  e[i] = SubSeq(ss, i, IF i = n THEN L ELSE i)
  <2>1. i \in 1..L /\ n <= L
    BY <1>1, <1>3 DEF FitsParts
  <2>2. SubSeq(ss, i, i) = <<ss[i]>>
    <3>1. /\ SubSeq(ss, i, i) \in Seq(Parts)
          /\ Len(SubSeq(ss, i, i)) = IF i <= i THEN i - i + 1 ELSE 0
          /\ \A k \in 1..i - i + 1 : SubSeq(ss, i, i)[k] = ss[i + k - 1]
      BY <1>2, <2>1, SubSeqProperties
    <3>2. i - i + 1 = 1 /\ i + 1 - 1 = i /\ i <= i
      OBVIOUS
    <3>3. Len(SubSeq(ss, i, i)) = 1 /\ SubSeq(ss, i, i)[1] = ss[i]
      BY <3>1, <3>2
    <3>4. <<ss[i]>> \in Seq(Parts) /\ Len(<<ss[i]>>) = 1 /\ <<ss[i]>>[1] = ss[i]
      BY <1>2, <2>1
    <3>5. \A k \in 1..1 : SubSeq(ss, i, i)[k] = <<ss[i]>>[k]
      BY <3>3, <3>4
    <3> QED BY <3>1, <3>3, <3>4, <3>5, SeqEqual
  <2>3. e[i] = IF IsWild(ps[i]) THEN params[ps[i]] ELSE <<ps[i]>>
    BY <1>2
  <2> HIDE DEF e
  <2>4. CASE ~IsWild(ps[i])
    <3>1. ps[i] = ss[i] /\ (i = n => n = L)
      BY <1>3, <2>4 DEF FitsParts, IsWild, Wild
    <3> QED BY <2>2, <2>3, <2>4, <3>1
  <2>5. CASE IsWild(ps[i]) /\ ps[i] \in Params
    <3>1. i = n => n = L
      BY <1>3, <2>5, SegmentAssumption DEF FitsParts
    <3> QED BY <1>7, <2>2, <2>3, <2>5, <3>1
  <2>6. CASE IsWild(ps[i]) /\ ps[i] \notin Params
    <3>1. ps[i] \in Stars
      BY <2>6 DEF IsWild, Wild
    <3>2. i = n
      BY <1>1, <3>1
    <3> QED BY <1>7, <2>3, <2>6, <3>2
  <2> QED BY <2>4, <2>5, <2>6
<1>9. Len(e) = n
  BY <1>1, <1>2
<1>10. CASE n = 0
  <2>1. L = 0
    BY <1>3, <1>10 DEF FitsParts
  <2>2. ss = << >>
    BY <1>1, <2>1, EmptySeq
  <2>3. FlattenSeq(e) = e
    BY <1>9, <1>10 DEF FlattenSeq
  <2>4. e = << >>
    BY <1>2, <1>10
  <2> QED BY <1>5, <2>2, <2>3, <2>4 DEF ss, params
<1>11. CASE n # 0
  <2>1. n \in 1..Len(ss)
    BY <1>1, <1>3, <1>11 DEF FitsParts
  <2> HIDE DEF e, n
  <2>2. FlattenSeq(e) = ss
    BY <1>1, <1>8, <1>9, <2>1, PiecesJoin
  <2> QED BY <1>5, <2>2 DEF ss, params
<1> QED BY <1>10, <1>11

-----------------------------------------------------------------------------
(* Serving: the chain of a request.                                        *)

(* The loop of ServeHTTP over the groups (gee.go:58-63): mws(n) is what it *)
(* has after n of them.                                                    *)
Loops(f, path, n) ==
  f = [i \in 0..n |->
         IF i = 0 THEN << >>
         ELSE IF HasPrefix(path, groups[i].prefix)
              THEN f[i - 1] \o groups[i].middlewares
              ELSE f[i - 1]]

LEMMA OneMoreLoop ==
  ASSUME NEW path, NEW n \in Nat, NEW f, Loops(f, path, n)
  PROVE  \E g : Loops(g, path, n + 1)
<1> DEFINE more == IF HasPrefix(path, groups[n + 1].prefix)
                   THEN f[n] \o groups[n + 1].middlewares ELSE f[n]
           g == [i \in 0..n + 1 |-> IF i = n + 1 THEN more ELSE f[i]]
<1>1. \A i \in 0..n : g[i] = f[i]
  OBVIOUS
<1>2. g[n + 1] = more
  OBVIOUS
<1>3. \A i \in 0..n : f[i] = IF i = 0 THEN << >>
                            ELSE IF HasPrefix(path, groups[i].prefix)
                                 THEN f[i - 1] \o groups[i].middlewares ELSE f[i - 1]
  BY DEF Loops
<1>4. g = [i \in 0..n + 1 |-> g[i]]
  OBVIOUS
<1> HIDE DEF g
<1>5. ASSUME NEW i \in 0..n + 1
      PROVE  g[i] = IF i = 0 THEN << >>
                    ELSE IF HasPrefix(path, groups[i].prefix)
                         THEN g[i - 1] \o groups[i].middlewares ELSE g[i - 1]
  <2>1. CASE i = n + 1
    <3>1. i # 0 /\ i - 1 = n /\ g[n] = f[n]
      BY <1>1, <2>1
    <3> QED BY <1>2, <2>1, <3>1
  <2>2. CASE i # n + 1
    <3>1. i \in 0..n /\ (i # 0 => i - 1 \in 0..n)
      BY <2>2
    <3>2. i # 0 => g[i - 1] = f[i - 1]
      BY <1>1, <3>1
    <3> QED BY <1>1, <1>3, <3>1, <3>2
  <2> QED BY <2>1, <2>2
<1>6. Loops(g, path, n + 1)
  BY <1>4, <1>5 DEF Loops
<1> QED BY <1>6

LEMMA LoopsEnd ==
  ASSUME NEW path, NEW n \in Nat
  PROVE  \E f : Loops(f, path, n)
<1> DEFINE T == {o \in Nat : ~ \E f : Loops(f, path, o)}
<1>1. SUFFICES ASSUME T # {} PROVE FALSE
  OBVIOUS
<1>2. T \subseteq Nat
  OBVIOUS
<1>3. PICK o \in T : \A i \in T : o <= i
  <2> HIDE DEF T
  <2> QED BY <1>1, <1>2, Least
<1>4. CASE o = 0
  <2>1. Loops([i \in 0..0 |-> << >>], path, 0)
    BY DEF Loops
  <2> QED BY <1>4, <2>1
<1>5. CASE o # 0
  <2>1. o - 1 \in Nat /\ o - 1 \notin T /\ (o - 1) + 1 = o
    BY <1>3, <1>5
  <2>2. PICK f : Loops(f, path, o - 1)
    BY <2>1
  <2>3. \E g : Loops(g, path, o)
    BY <2>1, <2>2, OneMoreLoop
  <2> QED BY <2>3
<1> QED BY <1>4, <1>5

LEMMA MiddlewaresLoop ==
  ASSUME GroupsInv, NEW path
  PROVE  \E f : /\ Loops(f, path, Len(groups)) /\ Middlewares(path) = f[Len(groups)]
               /\ \A i \in 0..Len(groups) : f[i] \in Seq(Mws)
<1> DEFINE n == Len(groups)
           Def(g) == [i \in 0..n |->
                        IF i = 0 THEN << >>
                        ELSE IF HasPrefix(path, groups[i].prefix)
                             THEN g[i - 1] \o groups[i].middlewares ELSE g[i - 1]]
           upTo == CHOOSE g : g = Def(g)
<1>1. n \in Nat
  BY LenProperties DEF GroupsInv
<1>2. Middlewares(path) = upTo[n]
  BY DEF Middlewares
<1>3. upTo = Def(upTo)
  <2>1. PICK f : f = Def(f)
    BY <1>1, LoopsEnd DEF Loops
  <2> HIDE DEF Def
  <2> QED BY <2>1
<1> HIDE DEF upTo, n
<1> DEFINE T == {i \in 0..n : upTo[i] \notin Seq(Mws)}
<1>4. T = {}
  <2> SUFFICES ASSUME T # {} PROVE FALSE
    OBVIOUS
  <2>1. T \subseteq Nat
    OBVIOUS
  <2>2. PICK i \in T : \A j \in T : i <= j
    <3> HIDE DEF T
    <3> QED BY <2>1, Least
  <2>3. CASE i = 0
    <3>1. upTo[0] = << >>
      BY <1>1, <1>3
    <3>2. << >> \in Seq(Mws)
      OBVIOUS
    <3> QED BY <2>2, <2>3, <3>1, <3>2
  <2>4. CASE i # 0
    <3>1. i - 1 \in 0..n /\ i \in 1..n /\ i - 1 \notin T
      BY <1>1, <2>2, <2>4
    <3>2. upTo[i - 1] \in Seq(Mws) /\ groups[i].middlewares \in Seq(Mws)
      BY <3>1 DEF GroupsInv, n
    <3>3. upTo[i] = IF HasPrefix(path, groups[i].prefix)
                    THEN upTo[i - 1] \o groups[i].middlewares ELSE upTo[i - 1]
      BY <1>3, <2>4, <3>1
    <3> DEFINE a == upTo[i - 1]
               b == groups[i].middlewares
    <3>4. a \o b \in Seq(Mws)
      <4>1. a \in Seq(Mws) /\ b \in Seq(Mws)
        BY <3>2
      <4> HIDE DEF a, b
      <4> QED BY <4>1, ConcatProperties
    <3> QED BY <2>2, <3>2, <3>3, <3>4
  <2> QED BY <2>3, <2>4
<1>5. Loops(upTo, path, n)
  BY <1>3 DEF Loops
<1> QED BY <1>2, <1>4, <1>5 DEF n

LEMMA MiddlewaresOfGroups ==
  ASSUME GroupsInv, NEW path
  PROVE  Middlewares(path) \in Seq(Mws)
<1>1. Len(groups) \in Nat
  BY LenProperties DEF GroupsInv
<1> QED BY <1>1, MiddlewaresLoop

(* The handler comes last.                                                 *)
LEMMA HandlerLast ==
  ASSUME NEW mws \in Seq(Mws), NEW h
  PROVE  Chained(Append(mws, h))
<1> DEFINE S == Mws \cup {h}
<1>1. mws \in Seq(S) /\ h \in S
  OBVIOUS
<1>2. /\ Len(mws) \in Nat /\ Len(Append(mws, h)) = Len(mws) + 1
      /\ \A i \in 1..Len(mws) : Append(mws, h)[i] = mws[i] /\ mws[i] \in Mws
  <2> HIDE DEF S
  <2> QED BY <1>1, AppendProperties, LenProperties, ElementOfSeq
<1>3. \A i \in 1..Len(mws) : mws[i].kind \in {"logger", "recovery", "user"}
  BY <1>2 DEF Mws
<1> QED BY <1>2, <1>3 DEF Chained

-----------------------------------------------------------------------------
(* The stack of a request.                                                 *)
Stacked(s, L, ix) ==
  s \in Seq(1..L) /\ \A i \in 1..Len(s) : s[i] - 1 <= ix

LEMMA StackShape ==
  ASSUME NEW L, NEW s \in Seq(1..L)
  PROVE  /\ Len(s) \in Nat /\ DOMAIN s = 1..Len(s)
         /\ \A i \in 1..Len(s) : s[i] \in 1..L
BY LenProperties, ElementOfSeq

LEMMA StackedHigher ==
  ASSUME NEW L \in Nat, NEW s, NEW ix \in Int, NEW jx \in Int, ix <= jx, Stacked(s, L, ix)
  PROVE  Stacked(s, L, jx)
<1>1. s \in Seq(1..L) /\ \A i \in 1..Len(s) : s[i] \in Int /\ s[i] - 1 <= ix
  BY StackShape DEF Stacked
<1> QED BY <1>1 DEF Stacked

LEMMA StackedTail ==
  ASSUME NEW L \in Nat, NEW s, NEW ix \in Int, Stacked(s, L, ix), s # << >>
  PROVE  /\ Stacked(Tail(s), L, ix)
         /\ Len(s) \in Nat \ {0} /\ Head(s) = s[1] /\ DOMAIN s = 1..Len(s)
         /\ DOMAIN Tail(s) = 1..Len(s) - 1
         /\ \A i \in 1..Len(s) - 1 : Tail(s)[i] = s[i + 1]
<1>1. s \in Seq(1..L)
  BY DEF Stacked
<1>2. /\ Len(s) \in Nat \ {0} /\ Head(s) = s[1] /\ DOMAIN s = 1..Len(s)
      /\ Tail(s) \in Seq(1..L) /\ Len(Tail(s)) = Len(s) - 1
      /\ \A i \in 1..Len(s) - 1 : Tail(s)[i] = s[i + 1]
  BY <1>1, HeadTailProperties, LenProperties, EmptySeq
<1>3. DOMAIN Tail(s) = 1..Len(s) - 1
  BY <1>2, LenProperties
<1>4. \A i \in 1..Len(s) - 1 : i + 1 \in 1..Len(s)
  BY <1>2
<1>5. \A i \in 1..Len(Tail(s)) : Tail(s)[i] - 1 <= ix
  BY <1>2, <1>4 DEF Stacked
<1> QED BY <1>2, <1>3, <1>5 DEF Stacked

LEMMA StackedPop ==
  ASSUME NEW L \in Nat, NEW s, NEW t, NEW ix \in Nat, Stacked(s, L, ix),
         t = s \/ (s # << >> /\ t = Tail(s))
  PROVE  Stacked(t, L, ix)
<1>1. CASE t = s
  BY <1>1
<1>2. CASE s # << >> /\ t = Tail(s)
  <2>1. Stacked(Tail(s), L, ix)
    BY <1>2, StackedTail
  <2> QED BY <1>2, <2>1
<1> QED BY <1>1, <1>2

LEMMA StackedPush ==
  ASSUME NEW L \in Nat, NEW s, NEW ix \in Nat, ix < L, Stacked(s, L, ix)
  PROVE  Stacked(<<ix + 1>> \o s, L, ix)
<1> DEFINE top == <<ix + 1>>
<1>1. top \in Seq(1..L) /\ Len(top) = 1 /\ top[1] = ix + 1
  <2>1. ix + 1 \in 1..L
    OBVIOUS
  <2> QED BY <2>1
<1>2. s \in Seq(1..L) /\ Len(s) \in Nat
  BY LenProperties DEF Stacked
<1> HIDE DEF top
<1>3. /\ top \o s \in Seq(1..L) /\ Len(top \o s) = 1 + Len(s)
      /\ \A i \in 1..1 + Len(s) :
           (top \o s)[i] = IF i <= 1 THEN top[i] ELSE s[i - 1]
  <2> DEFINE l == Len(top)
  <2>1. /\ top \o s \in Seq(1..L) /\ Len(top \o s) = l + Len(s)
        /\ \A i \in 1..l + Len(s) :
             (top \o s)[i] = IF i <= l THEN top[i] ELSE s[i - l]
    BY <1>1, <1>2, ConcatProperties
  <2>2. l = 1
    BY <1>1
  <2> HIDE DEF l
  <2> QED BY <2>1, <2>2
<1>4. ASSUME NEW i \in 1..1 + Len(s) PROVE (top \o s)[i] - 1 <= ix
  <2>1. CASE i = 1
    BY <1>1, <1>3, <2>1
  <2>2. CASE i # 1
    <3>1. i - 1 \in 1..Len(s) /\ (top \o s)[i] = s[i - 1]
      BY <1>2, <1>3, <2>2
    <3> QED BY <3>1 DEF Stacked
  <2> QED BY <2>1, <2>2
<1> QED BY <1>3, <1>4 DEF Stacked, top

-----------------------------------------------------------------------------
(* Steps.                                                                  *)

(* What the theorems say of a step.                                        *)
ErrorStep ==
  phase = "busy" /\ phase' = "busy" /\ {status, wire} \cap Errors # {} => started' = started

PanicStep ==
  /\ panicking /\ ~panicking' /\ phase' = "busy"
       => wire' = Sent(InternalError) /\ index' = Len(chain)
  /\ outcome' = "aborted" => ~guarded

Good == GInv' /\ ErrorStep /\ PanicStep

(* A request that is served, in the form in which the lemmas use it.       *)
LEMMA Busy ==
  ASSUME GInv, phase = "busy"
  PROVE  /\ GroupsInv /\ Chained(chain) /\ index \in Nat /\ Len(chain) \in Nat \ {0}
         /\ Stacked(stack, Len(chain), index)
         /\ {status, wire} \cap Errors # {} => index >= Len(chain) - 1
         /\ panicking /\ guarded => OnStack(Recovery)
         /\ outcome = "none" /\ panicking \in BOOLEAN /\ guarded \in BOOLEAN
BY DEF GInv, BusyInv, Chained, Stacked

LEMMA BusyAgain ==
  ASSUME GInv, phase = "busy", UNCHANGED <<groups, chain, outcome>>, phase' = "busy",
         index' \in Nat, Stacked(stack', Len(chain), index'),
         {status', wire'} \cap Errors # {} => index' >= Len(chain) - 1,
         panicking' /\ guarded' => OnStack(Recovery)',
         panicking' \in BOOLEAN, guarded' \in BOOLEAN
  PROVE  GInv'
<1>1. GroupsInv'
  BY DEF GInv, GroupsInv
<1>2. Chained(chain)' /\ outcome' = "none" /\ Len(chain') = Len(chain)
  BY DEF GInv, BusyInv, Chained
<1>3. BusyInv'
  BY <1>2 DEF BusyInv, Stacked
<1> QED BY <1>1, <1>2, <1>3 DEF GInv

LEMMA CallNextKeeps ==
  ASSUME GInv, phase = "busy", ~panicking, CallNext
  PROVE  Good
<1>1. /\ GroupsInv /\ Chained(chain) /\ index \in Nat /\ Len(chain) \in Nat \ {0}
      /\ Stacked(stack, Len(chain), index)
      /\ {status, wire} \cap Errors # {} => index >= Len(chain) - 1
      /\ outcome = "none" /\ panicking \in BOOLEAN /\ guarded \in BOOLEAN
  BY Busy
<1>2. /\ index' = index + 1
      /\ UNCHANGED <<groups, chain, status, wire, phase, outcome>>
      /\ IF index' < Len(chain)
         THEN /\ stack' = <<index' + 1>> \o stack
              /\ UNCHANGED <<panicking, guarded>>
         ELSE Panic /\ UNCHANGED <<stack, started>>
  BY DEF CallNext, response, table
<1>3. index' \in Nat /\ index <= index'
  BY <1>1, <1>2
<1>4. Stacked(stack, Len(chain), index')
  BY <1>1, <1>3, StackedHigher
<1>5. Stacked(stack', Len(chain), index')
  <2>1. CASE index' < Len(chain)
    <3> DEFINE ix == index'
    <3>1. ix \in Nat /\ ix < Len(chain) /\ Stacked(stack, Len(chain), ix)
      BY <1>3, <1>4, <2>1
    <3>2. stack' = <<ix + 1>> \o stack
      BY <1>2, <2>1
    <3> HIDE DEF ix
    <3>3. Stacked(<<ix + 1>> \o stack, Len(chain), ix)
      BY <1>1, <3>1, StackedPush
    <3> QED BY <3>2, <3>3 DEF ix
  <2>2. CASE ~ (index' < Len(chain))
    BY <1>2, <1>4, <2>2
  <2> QED BY <2>1, <2>2
<1>6. {status', wire'} \cap Errors # {} => index' >= Len(chain) - 1
  BY <1>1, <1>2, <1>3
<1>7. /\ panicking' /\ guarded' => OnStack(Recovery)'
      /\ panicking' \in BOOLEAN /\ guarded' \in BOOLEAN
  <2>1. CASE index' < Len(chain)
    BY <1>1, <1>2, <2>1
  <2>2. CASE ~ (index' < Len(chain))
    <3>1. panicking' = TRUE /\ guarded' = OnStack(Recovery) /\ stack' = stack /\ chain' = chain
      BY <1>2, <2>2 DEF Panic
    <3>2. OnStack(Recovery)' = OnStack(Recovery) /\ OnStack(Recovery) \in BOOLEAN
      BY <3>1 DEF OnStack, Recovery, Func
    <3> QED BY <3>1, <3>2
  <2> QED BY <2>1, <2>2
<1>8. GInv'
  BY <1>2, <1>3, <1>5, <1>6, <1>7, BusyAgain
<1>9. ErrorStep
  <2> SUFFICES ASSUME {status, wire} \cap Errors # {} PROVE started' = started
    BY DEF ErrorStep
  <2>1. ~ (index' < Len(chain))
    BY <1>1, <1>2
  <2> QED BY <1>2, <2>1
<1>10. PanicStep
  BY <1>1, <1>2 DEF PanicStep
<1> QED BY <1>8, <1>9, <1>10 DEF Good

(* After Fatal the index is behind the chain.                              *)
LEMMA FatalKeeps ==
  ASSUME GInv, phase = "busy", NEW first, NEW code, Fatal(first, code),
         UNCHANGED <<groups, chain, started, outcome, guarded>>,
         stack' = stack \/ (stack # << >> /\ stack' = Tail(stack)),
         panicking' = FALSE,
         panicking => first = InternalError
  PROVE  Good
<1>1. /\ GroupsInv /\ Chained(chain) /\ index \in Nat /\ Len(chain) \in Nat \ {0}
      /\ Stacked(stack, Len(chain), index)
      /\ outcome = "none" /\ panicking \in BOOLEAN /\ guarded \in BOOLEAN
  BY Busy
<1>2. /\ index' = Len(chain) /\ wire' = Sent(first)
      /\ phase' = IF Sent(first) = NoContent THEN "dead" ELSE "busy"
  BY DEF Fatal
<1>3. GInv'
  <2>1. CASE phase' = "dead"
    <3>1. GroupsInv'
      BY <1>1 DEF GroupsInv
    <3>2. wire' = NoContent /\ outcome' = "none" /\ guarded' \in BOOLEAN
      BY <1>1, <1>2, <2>1
    <3> QED BY <2>1, <3>1, <3>2 DEF GInv
  <2>2. CASE phase' = "busy"
    <3>1. Stacked(stack', Len(chain), index)
      <4> DEFINE t == stack'
                 L == Len(chain)
      <4>1. L \in Nat /\ Stacked(stack, L, index) /\ index \in Nat
        BY <1>1
      <4>2. t = stack \/ (stack # << >> /\ t = Tail(stack))
        OBVIOUS
      <4> HIDE DEF t, L
      <4>3. Stacked(t, L, index)
        BY <4>1, <4>2, StackedPop
      <4> QED BY <4>3 DEF t, L
    <3>2. index' \in Nat /\ index' >= Len(chain) - 1
      BY <1>1, <1>2
    <3>3. Stacked(stack', Len(chain), index')
      <4>1. \A i \in 1..Len(stack') : stack'[i] - 1 <= index'
        <5> DEFINE s == stack'
        <5>1. s \in Seq(1..Len(chain))
          BY <3>1 DEF Stacked
        <5> HIDE DEF s
        <5>2. \A i \in 1..Len(s) : s[i] \in 1..Len(chain)
          BY <5>1, StackShape
        <5>3. \A i \in 1..Len(s) : s[i] - 1 <= Len(chain)
          BY <1>1, <5>2
        <5> QED BY <1>2, <5>3 DEF s
      <4> QED BY <3>1, <4>1 DEF Stacked
    <3> QED BY <1>1, <2>2, <3>2, <3>3, BusyAgain
  <2> QED BY <1>2, <2>1, <2>2
<1>4. ErrorStep
  BY DEF ErrorStep
<1>5. PanicStep
  BY <1>1, <1>2 DEF PanicStep
<1> QED BY <1>3, <1>4, <1>5 DEF Good

(* The steps that leave index, and end with no panic.                      *)
LEMMA CalmKeeps ==
  ASSUME GInv, phase = "busy", ~panicking,
         UNCHANGED <<groups, chain, index, phase, panicking, guarded, started, outcome>>,
         stack' = stack \/ (stack # << >> /\ stack' = Tail(stack)),
         {status', wire'} \cap Errors # {} => index >= Len(chain) - 1
  PROVE  Good
<1>1. /\ index \in Nat /\ Len(chain) \in Nat \ {0}
      /\ Stacked(stack, Len(chain), index)
      /\ outcome = "none" /\ panicking \in BOOLEAN /\ guarded \in BOOLEAN
  BY Busy
<1>2. Stacked(stack', Len(chain), index)
  <2> DEFINE t == stack'
             L == Len(chain)
  <2>1. L \in Nat /\ Stacked(stack, L, index) /\ index \in Nat
    BY <1>1
  <2>2. t = stack \/ (stack # << >> /\ t = Tail(stack))
    OBVIOUS
  <2> HIDE DEF t, L
  <2>3. Stacked(t, L, index)
    BY <2>1, <2>2, StackedPop
  <2> QED BY <2>3 DEF t, L
<1>3. Stacked(stack', Len(chain), index')
  BY <1>2
<1>4. GInv'
  BY <1>1, <1>3, BusyAgain
<1> QED BY <1>1, <1>4 DEF Good, ErrorStep, PanicStep

-----------------------------------------------------------------------------
(* Setting up keeps no more than the middlewares of the groups.            *)
LEMMA SetupKeeps ==
  ASSUME GInv, Setup
  PROVE  Good
<1>1. /\ phase = "setup" /\ UNCHANGED requestState
      /\ GroupsInv /\ ~panicking /\ panicking \in BOOLEAN /\ guarded \in BOOLEAN
      /\ outcome = "aborted" => ~guarded
  BY DEF GInv, Setup, Group, Use, Route, Static, AddRoute, Run
<1>2. phase' \in {"setup", "ready"}
  BY <1>1 DEF Setup, Group, Use, Route, Static, AddRoute, Run
<1>3. UNCHANGED <<panicking, guarded, outcome>>
  BY <1>1 DEF requestState
<1>4. GroupsInv'
  <2>1. CASE UNCHANGED groups
    BY <1>1, <2>1 DEF GroupsInv
  <2>2. ASSUME NEW g \in DOMAIN groups, NEW prefix, Group(g, prefix)
        PROVE  GroupsInv'
    <3> DEFINE new == [prefix      |-> groups[g].prefix \o prefix,
                       parent      |-> g,
                       middlewares |-> << >>]
    <3>1. groups' = Append(groups, new) /\ new.middlewares \in Seq(Mws)
      BY <2>2 DEF Group
    <3> HIDE DEF new
    <3> DEFINE n == Len(groups)
               T == Range(groups) \cup {new}
    <3>2. n \in Nat /\ groups \in Seq(T) /\ new \in T
      <4>1. groups \in Seq(Range(groups))
        BY <1>1 DEF GroupsInv
      <4> QED BY <4>1, LenProperties
    <3> HIDE DEF T
    <3>3. /\ groups' \in Seq(T) /\ Len(groups') = n + 1
          /\ \A i \in 1..n : groups'[i] = groups[i]
          /\ groups'[n + 1] = new
      BY <3>1, <3>2, AppendProperties
    <3>4. \A i \in 1..n : groups[i].middlewares \in Seq(Mws)
      BY <1>1 DEF GroupsInv
    <3>5. groups' \in Seq(Range(groups'))
      BY <3>3, SeqOfRange
    <3> HIDE DEF n
    <3>6. ASSUME NEW i \in 1..n + 1 PROVE groups'[i].middlewares \in Seq(Mws)
      <4>1. CASE i = n + 1
        BY <3>1, <3>3, <4>1
      <4>2. CASE i # n + 1
        <5>1. i \in 1..n /\ groups'[i] = groups[i]
          BY <3>2, <3>3, <4>2
        <5> QED BY <3>4, <5>1
      <4> QED BY <4>1, <4>2
    <3> QED BY <3>2, <3>3, <3>5, <3>6 DEF GroupsInv
  <2>3. ASSUME NEW g \in DOMAIN groups, Use(g)
        PROVE  GroupsInv'
    <3> DEFINE mws == groups[g].middlewares
               user == Func("user", g)
    <3>1. groups' = [groups EXCEPT ![g].middlewares = Append(@, user)]
      BY <2>3 DEF Use
    <3>2. /\ Len(groups) \in Nat /\ DOMAIN groups = 1..Len(groups)
          /\ \A i \in 1..Len(groups) : groups[i].middlewares \in Seq(Mws)
      BY <1>1, LenProperties DEF GroupsInv
    <3>3. g \in Nat /\ user \in Mws
      BY <3>2 DEF Func, Mws
    <3>4. Append(mws, user) \in Seq(Mws)
      <4>1. mws \in Seq(Mws)
        BY <3>2
      <4> HIDE DEF mws, user
      <4> QED BY <3>3, <4>1, AppendProperties
    <3>5. /\ DOMAIN groups' = DOMAIN groups
          /\ groups'[g] = [groups[g] EXCEPT !.middlewares = Append(mws, user)]
          /\ \A i \in DOMAIN groups \ {g} : groups'[i] = groups[i]
      BY <3>1
    <3>6. /\ \A i \in DOMAIN groups : groups'[i].middlewares \in Seq(Mws)
      <4>1. [groups[g] EXCEPT !.middlewares = Append(mws, user)].middlewares
              \in {Append(mws, user), groups[g].middlewares}
        OBVIOUS
      <4> QED BY <3>2, <3>4, <3>5, <4>1
    <3>7. groups' \in Seq(Range(groups')) /\ Len(groups') = Len(groups)
      <4>1. groups' = [i \in 1..Len(groups) |-> groups'[i]]
        BY <3>1, <3>2
      <4> DEFINE T == {groups'[i] : i \in 1..Len(groups)}
      <4>2. groups' \in Seq(T) /\ Len(groups') = Len(groups)
        BY <3>2, <4>1
      <4> HIDE DEF T
      <4> QED BY <4>2, SeqOfRange
    <3> QED BY <3>2, <3>6, <3>7 DEF GroupsInv
  <2> QED BY <2>1, <2>2, <2>3 DEF Setup, Route, Static, AddRoute, Run, table
<1>5. GInv'
  BY <1>1, <1>2, <1>3, <1>4 DEF GInv
<1> QED BY <1>1, <1>3, <1>5 DEF Good, ErrorStep, PanicStep

(* A request begins with its first function and nothing said.              *)
LEMMA ServeHTTPKeeps ==
  ASSUME GInv, NEW r, ServeHTTP(r)
  PROVE  Good
<1> DEFINE mws == Middlewares(r[2])
           h == Handler(r[1], r[2])
<1>1. /\ phase = "ready" /\ phase' = "busy"
      /\ chain' = Append(mws, h)
      /\ index' = 0 /\ stack' = <<1>> /\ status' = NoStatus /\ wire' = NoStatus
      /\ panicking' = FALSE /\ guarded' = FALSE /\ outcome' = "none"
      /\ UNCHANGED groups
  BY DEF ServeHTTP, table
<1>2. GroupsInv
  BY DEF GInv
<1>3. mws \in Seq(Mws)
  BY <1>2, MiddlewaresOfGroups
<1> HIDE DEF mws, h
<1>4. Chained(chain')
  BY <1>1, <1>3, HandlerLast
<1>5. stack' \in Seq(1..Len(chain')) /\ Len(stack') = 1 /\ stack'[1] = 1
  <2>1. 1 \in 1..Len(chain')
    BY <1>4 DEF Chained
  <2> QED BY <1>1, <2>1
<1>6. {status', wire'} \cap Errors = {}
  BY <1>1 DEF Errors, NoStatus, Forbidden, NotFound, InternalError
<1>7. BusyInv'
  BY <1>1, <1>4, <1>5, <1>6 DEF BusyInv
<1>8. GroupsInv'
  BY <1>1, <1>2 DEF GroupsInv
<1>9. GInv'
  BY <1>1, <1>7, <1>8 DEF GInv
<1>10. ~panicking
  BY <1>1 DEF GInv
<1> QED BY <1>1, <1>9, <1>10 DEF Good, ErrorStep, PanicStep

(* The functions of the user's.                                            *)
LEMMA WriteKeeps ==
  ASSUME GInv, phase = "busy", ~panicking, NEW code \in {OK, NoContent}, Status(code),
         UNCHANGED <<groups, chain, index, phase, stack, panicking, guarded, started, outcome>>
  PROVE  Good
<1>1. status' \notin Errors /\ wire' \in {code, wire} /\ code \notin Errors
  BY DEF Status, Sent, Errors, OK, NoContent, Forbidden, NotFound, InternalError
<1>2. {status, wire} \cap Errors # {} => index >= Len(chain) - 1
  BY Busy
<1>3. {status', wire'} \cap Errors # {} => index >= Len(chain) - 1
  BY <1>1, <1>2
<1> QED BY <1>3, CalmKeeps

LEMMA PanicKeeps ==
  ASSUME GInv, UserPanic
  PROVE  Good
<1>1. /\ phase = "busy" /\ ~panicking
      /\ UNCHANGED <<groups, chain, index, status, wire, phase, stack, started, outcome>>
      /\ panicking' = TRUE /\ guarded' = OnStack(Recovery)
  BY DEF UserPanic, Running, Panic, ctx, response, table
<1>2. /\ index \in Nat /\ Stacked(stack, Len(chain), index)
      /\ {status, wire} \cap Errors # {} => index >= Len(chain) - 1
      /\ outcome = "none"
  BY <1>1, Busy
<1>3. OnStack(Recovery)' = OnStack(Recovery) /\ OnStack(Recovery) \in BOOLEAN
  BY <1>1 DEF OnStack, Recovery, Func
<1>4. GInv'
  BY <1>1, <1>2, <1>3, BusyAgain
<1> QED BY <1>1, <1>2, <1>4 DEF Good, ErrorStep, PanicStep

LEMMA UserKeeps ==
  ASSUME GInv, User
  PROVE  Good
<1>1. CASE UserNext
  BY <1>1, CallNextKeeps DEF UserNext, Running
<1>2. CASE UserFatal
  <2>1. /\ phase = "busy" /\ ~panicking /\ Fatal(Forbidden, Forbidden)
        /\ UNCHANGED <<groups, chain, started, outcome, guarded, panicking, stack>>
    BY <1>2 DEF UserFatal, Running, table
  <2>2. panicking' = FALSE
    BY <2>1 DEF GInv
  <2> QED BY <2>1, <2>2, FatalKeeps
<1>3. CASE UserPanic
  BY <1>3, PanicKeeps
<1>4. ASSUME NEW code \in {OK, NoContent}, Write(code)
      PROVE  Good
  <2>1. /\ phase = "busy" /\ ~panicking /\ Status(code)
        /\ UNCHANGED <<groups, chain, index, phase, stack, panicking, guarded, started, outcome>>
    BY <1>4 DEF Write, Running, ctx, table
  <2> QED BY <2>1, WriteKeeps
<1>5. ASSUME NEW code \in {OK, NoContent}, NEW encodable \in BOOLEAN, Encode(code, encodable)
      PROVE  Good
  <2>1. /\ phase = "busy" /\ ~panicking
        /\ UNCHANGED <<groups, chain, stack, panicking, guarded, started, outcome>>
        /\ \/ Status(code) /\ UNCHANGED <<index, phase>>
           \/ Fatal(code, InternalError)
    BY <1>5 DEF Encode, Running, table
  <2>2. CASE Status(code) /\ UNCHANGED <<index, phase>>
    BY <2>1, <2>2, WriteKeeps
  <2>3. CASE Fatal(code, InternalError)
    <3>1. panicking' = FALSE
      BY <2>1 DEF GInv
    <3> QED BY <2>1, <2>3, <3>1, FatalKeeps
  <2> QED BY <2>1, <2>2, <2>3
<1> QED BY <1>1, <1>2, <1>3, <1>4, <1>5 DEF User

(* The handler of Static runs at the end of the chain, so that nothing is  *)
(* left to start when it says that there is no file.                       *)
LEMMA ServeFileKeeps ==
  ASSUME GInv, ServeFile
  PROVE  Good
<1>1. /\ phase = "busy" /\ ~panicking /\ stack # << >> /\ Top.kind = "static"
      /\ stack' = Tail(stack)
      /\ UNCHANGED <<groups, chain, index, phase, panicking, guarded, started, outcome>>
  BY DEF ServeFile, Running, ctx, table
<1>2. /\ Chained(chain) /\ index \in Nat /\ Len(chain) \in Nat \ {0}
      /\ Stacked(stack, Len(chain), index)
  BY <1>1, Busy
<1> DEFINE L == Len(chain)
           top == Head(stack)
<1>3. top \in 1..L /\ top - 1 <= index
  <2>1. L \in Nat /\ Stacked(stack, L, index) /\ index \in Int
    BY <1>2
  <2> HIDE DEF L
  <2>2. Len(stack) \in Nat \ {0} /\ Head(stack) = stack[1]
    BY <1>1, <2>1, StackedTail
  <2>3. 1 \in 1..Len(stack) /\ stack \in Seq(1..L)
    BY <2>1, <2>2 DEF Stacked
  <2>4. stack[1] \in 1..L /\ stack[1] - 1 <= index
    <3>1. \A i \in 1..Len(stack) : stack[i] \in 1..L
      BY <2>3, StackShape
    <3> QED BY <2>1, <2>3, <3>1 DEF Stacked
  <2> QED BY <2>2, <2>4
<1>4. top = L
  <2> HIDE DEF top
  <2>1. chain[top].kind = "static"
    BY <1>1 DEF Top, top
  <2>2. top \notin 1..L - 1
    BY <1>2, <2>1 DEF Chained
  <2> QED BY <1>2, <1>3, <2>2
<1>5. index >= Len(chain) - 1
  BY <1>2, <1>3, <1>4
<1> QED BY <1>1, <1>5, CalmKeeps

(* A panic that leaves a function, and Recovery.                           *)
LEMMA UnwindKeeps ==
  ASSUME GInv, Unwind
  PROVE  Good
<1>1. /\ phase = "busy" /\ panicking /\ stack # << >> /\ stack' = Tail(stack)
      /\ UNCHANGED <<groups, chain, guarded, started, outcome>>
      /\ IF Top = Recovery
         THEN panicking' = FALSE /\ Fatal(InternalError, InternalError)
         ELSE UNCHANGED <<index, status, wire, phase, panicking>>
  BY DEF Unwind, response, table
<1>2. CASE Top = Recovery
  BY <1>1, <1>2, FatalKeeps
<1>3. CASE Top # Recovery
  <2>1. UNCHANGED <<index, status, wire, phase, panicking>>
    BY <1>1, <1>3
  <2>2. /\ index \in Nat /\ Len(chain) \in Nat /\ Stacked(stack, Len(chain), index)
        /\ {status, wire} \cap Errors # {} => index >= Len(chain) - 1
        /\ panicking /\ guarded => OnStack(Recovery)
        /\ outcome = "none" /\ panicking \in BOOLEAN /\ guarded \in BOOLEAN
    BY <1>1, Busy
  <2> DEFINE L == Len(chain)
             t == Tail(stack)
  <2>3. /\ Stacked(t, L, index)
        /\ Len(stack) \in Nat \ {0} /\ Head(stack) = stack[1] /\ DOMAIN stack = 1..Len(stack)
        /\ DOMAIN t = 1..Len(stack) - 1
        /\ \A i \in 1..Len(stack) - 1 : t[i] = stack[i + 1]
    <3>1. L \in Nat /\ Stacked(stack, L, index) /\ index \in Int /\ stack # << >>
      BY <1>1, <2>2
    <3> HIDE DEF L
    <3> QED BY <3>1, StackedTail
  <2> HIDE DEF t
  <2>4. guarded => \E i \in DOMAIN t : chain[t[i]] = Recovery
    <3> SUFFICES ASSUME guarded PROVE \E i \in DOMAIN t : chain[t[i]] = Recovery
      OBVIOUS
    <3>1. PICK i \in DOMAIN stack : chain[stack[i]] = Recovery
      BY <1>1, <2>2 DEF OnStack
    <3>2. chain[stack[1]] # Recovery
      BY <1>3, <2>3 DEF Top
    <3>3. i # 1 /\ i \in 1..Len(stack)
      BY <2>3, <3>1, <3>2
    <3>4. i - 1 \in 1..Len(stack) - 1 /\ (i - 1) + 1 = i
      BY <2>3, <3>3
    <3>5. t[i - 1] = stack[i]
      BY <2>3, <3>4
    <3> QED BY <2>3, <3>1, <3>4, <3>5
  <2>5. panicking' /\ guarded' => OnStack(Recovery)'
    <3>1. stack' = t /\ chain' = chain /\ guarded' = guarded
      BY <1>1 DEF t
    <3> QED BY <2>4, <3>1 DEF OnStack, Recovery, Func
  <2>6. Stacked(stack', Len(chain), index')
    BY <1>1, <2>1, <2>3 DEF t
  <2>7. GInv'
    BY <1>1, <2>1, <2>2, <2>5, <2>6, BusyAgain
  <2> QED BY <1>1, <2>1, <2>2, <2>7 DEF Good, ErrorStep, PanicStep
<1> QED BY <1>2, <1>3

(* The end of a request: the panic of an aborted one passed no Recovery.   *)
LEMMA FinishKeeps ==
  ASSUME GInv, Finish
  PROVE  Good
<1>1. /\ phase = "busy" /\ stack = << >> /\ phase' = "ready" /\ panicking' = FALSE
      /\ outcome' = IF panicking THEN "aborted" ELSE "answered"
      /\ UNCHANGED <<groups, guarded>>
  BY DEF Finish, table
<1>2. /\ GroupsInv /\ guarded \in BOOLEAN
      /\ panicking /\ guarded => OnStack(Recovery)
  BY <1>1, Busy
<1>3. ~OnStack(Recovery)
  BY <1>1 DEF OnStack
<1>4. outcome' = "aborted" => ~guarded
  BY <1>1, <1>2, <1>3
<1>5. GroupsInv'
  BY <1>1, <1>2 DEF GroupsInv
<1>6. GInv'
  BY <1>1, <1>2, <1>4, <1>5 DEF GInv
<1> QED BY <1>1, <1>4, <1>6 DEF Good, ErrorStep, PanicStep

LEMMA NextKeeps ==
  ASSUME GInv, Next
  PROVE  Good
<1>1. CASE Setup
  BY <1>1, SetupKeeps
<1>2. ASSUME NEW r \in Requests, ServeHTTP(r) PROVE Good
  BY <1>2, ServeHTTPKeeps
<1>3. CASE MiddlewareNext
  BY <1>3, CallNextKeeps DEF MiddlewareNext, Running
<1>4. CASE User
  BY <1>4, UserKeeps
<1>5. CASE Return
  <2>1. /\ phase = "busy" /\ ~panicking /\ stack # << >> /\ stack' = Tail(stack)
        /\ UNCHANGED <<groups, chain, index, status, wire, phase, panicking, guarded,
                       started, outcome>>
    BY <1>5 DEF Return, Running, ctx, response, table
  <2>2. {status, wire} \cap Errors # {} => index >= Len(chain) - 1
    BY <2>1, Busy
  <2> QED BY <2>1, <2>2, CalmKeeps
<1>6. CASE ServeFile
  BY <1>6, ServeFileKeeps
<1>7. CASE ServeNotFound
  <2>1. /\ phase = "busy" /\ ~panicking /\ stack # << >> /\ stack' = Tail(stack)
        /\ Fatal(NotFound, NotFound)
        /\ UNCHANGED <<groups, chain, panicking, guarded, started, outcome>>
    BY <1>7 DEF ServeNotFound, Running, table
  <2>2. panicking' = FALSE
    BY <2>1 DEF GInv
  <2> QED BY <2>1, <2>2, FatalKeeps
<1>8. CASE Unwind
  BY <1>8, UnwindKeeps
<1>9. CASE Finish
  BY <1>9, FinishKeeps
<1> QED BY <1>1, <1>2, <1>3, <1>4, <1>5, <1>6, <1>7, <1>8, <1>9 DEF Next, Serve

LEMMA StutterKeeps ==
  ASSUME GInv, UNCHANGED vars
  PROVE  Good
<1>1. UNCHANGED <<groups, phase, chain, index, status, wire, stack, panicking, guarded,
                  started, outcome>>
  BY DEF vars, table, ctx, response
<1>2. GInv'
  BY <1>1 DEF GInv, GroupsInv, BusyInv, OnStack, Recovery, Func
<1>3. ErrorStep /\ PanicStep
  BY <1>1 DEF ErrorStep, PanicStep, GInv
<1> QED BY <1>2, <1>3 DEF Good

LEMMA InitInv == Init => GInv
<1> SUFFICES ASSUME Init PROVE GInv
  OBVIOUS
<1>1. groups \in {<<Engine>>, <<[Engine EXCEPT !.middlewares = <<Logger, Recovery>>]>>}
  BY DEF Init
<1>2. Logger \in Mws /\ Recovery \in Mws
  BY DEF Logger, Recovery, Func, Mws
<1>3. << >> \in Seq(Mws) /\ <<Logger, Recovery>> \in Seq(Mws)
  BY <1>2
<1>4. PICK first : groups = <<first>> /\ first.middlewares \in {<< >>, <<Logger, Recovery>>}
  <2>1. CASE groups = <<Engine>>
    BY <2>1 DEF Engine
  <2>2. CASE groups = <<[Engine EXCEPT !.middlewares = <<Logger, Recovery>>]>>
    BY <2>2 DEF Engine
  <2> QED BY <1>1, <2>1, <2>2
<1>5. /\ Len(groups) = 1 /\ groups[1] = first
      /\ groups \in Seq(Range(groups))
  <2>1. groups \in Seq({first}) /\ Len(groups) = 1 /\ groups[1] = first
    BY <1>4
  <2> QED BY <2>1, SeqOfRange
<1>6. first.middlewares \in Seq(Mws)
  BY <1>3, <1>4
<1>7. GroupsInv
  BY <1>5, <1>6 DEF GroupsInv
<1> QED BY <1>7 DEF Init, GInv
-----------------------------------------------------------------------------
(* The invariant of an engine: a request that is served has an index that  *)
(* is not behind the functions that run, and one at or behind the last     *)
(* function once an error is set; Recovery that was there when a panic     *)
(* began is still on the stack while it is unwound (context.go, Next and   *)
(* Fatal, and recovery.go).                                                *)
THEOREM Invariance == Spec => []GInv
<1>1. GInv /\ [Next]_vars => GInv'
  BY NextKeeps, StutterKeeps DEF Good
<1> QED BY InitInv, <1>1, PTL DEF Spec

(* Once Fatal has answered or set an error no function of the chain is     *)
(* started, in any chain, with whatever the functions do that run          *)
(* (context.go, Next and Fatal).                                           *)
THEOREM FatalEnds == Spec => FatalEndsChain
<1>1. GInv /\ [Next]_vars
        => [phase = "busy" /\ phase' = "busy" /\ {status, wire} \cap Errors # {}
              => started' = started]_vars
  BY NextKeeps DEF Good, ErrorStep
<1> QED BY Invariance, <1>1, PTL DEF Spec, FatalEndsChain

(* A panic under Recovery is answered with 500 unless a response had begun *)
(* and ends the chain, one that aborts its request had no Recovery on the  *)
(* stack, and only the endless Fatal of a status without a body ends the   *)
(* process (recovery.go, and Fatal and JSON of context.go).                *)
THEOREM Recovers == Spec => RecoveryAnswers
<1>1. GInv /\ [Next]_vars
        => [/\ panicking /\ ~panicking' /\ phase' = "busy"
                 => wire' = Sent(InternalError) /\ index' = Len(chain)
            /\ outcome' = "aborted" => ~guarded
            /\ phase' = "dead" => wire' = NoContent]_vars
  <2> SUFFICES ASSUME GInv, Next
               PROVE  /\ panicking /\ ~panicking' /\ phase' = "busy"
                           => wire' = Sent(InternalError) /\ index' = Len(chain)
                      /\ outcome' = "aborted" => ~guarded
                      /\ phase' = "dead" => wire' = NoContent
    OBVIOUS
  <2>1. GInv' /\ PanicStep
    BY NextKeeps DEF Good
  <2>2. phase' = "dead" => wire' = NoContent
    BY <2>1 DEF GInv, NoContent
  <2> QED BY <2>1, <2>2 DEF PanicStep
<1> QED BY Invariance, <1>1, PTL DEF Spec, RecoveryAnswers
-----------------------------------------------------------------------------
(* The engine that is set up.                                              *)
Begins(p, q) == Len(p) <= Len(q) /\ \A i \in 1..Len(p) : q[i] = p[i]

Entries == [method : Methods \cup {"GET"}, group : Nat, pattern : Seq(Segs)]

(* A group comes after its parent and adds to the parent's prefix.         *)
GroupRecord(g) == DOMAIN g = {"prefix", "parent", "middlewares"}

GroupsNest ==
  \A g \in 1..Len(groups) :
    /\ GroupRecord(groups[g])
    /\ groups[g].prefix \in Seq(Segs)
    /\ groups[g].parent \in 0..g - 1
    /\ groups[g].parent # 0 => Begins(groups[groups[g].parent].prefix, groups[g].prefix)

EntriesInv ==
  /\ registered \in Seq(Entries)
  /\ \A i \in 1..Len(registered) :
       /\ registered[i].group \in 1..Len(groups)
       /\ Begins(groups[registered[i].group].prefix, registered[i].pattern)

(* The handler of a pattern is the last that was registered with it.       *)
LastEntry(s, i, method, pattern) ==
  /\ i \in 1..Len(s) /\ s[i].method = method /\ s[i].pattern = pattern
  /\ \A j \in 1..Len(s) : s[j].method = method /\ s[j].pattern = pattern => j <= i

HandlersInv ==
  \A key \in DOMAIN handlers :
    /\ key = <<key[1], key[2]>>
    /\ handlers[key].kind \in {"route", "static"}
    /\ LastEntry(registered, handlers[key].of, key[1], key[2])

(* Each pattern in a trie is at its depth, and has a handler.              *)
Held(t, keys, method) ==
  \A n \in DOMAIN t : t[n].pattern # << >> =>
    /\ Len(ParsePattern(t[n].pattern)) = Len(n)
    /\ <<method, t[n].pattern>> \in keys

TriesInv ==
  /\ DOMAIN roots = Methods
  /\ \A method \in Methods :
       /\ BuiltFrom(roots[method], PatternsOf(method))
       /\ Held(roots[method], DOMAIN handlers, method)

RInv == GroupsNest /\ EntriesInv /\ HandlersInv /\ TriesInv

(* The chain of a request, of which the functions start in turn.           *)
InTurn ==
  /\ started \in Seq(Nat) /\ \A i \in 1..Len(started) : started[i] = i
  /\ Len(started) <= Len(chain)
  /\ index < Len(chain) => Len(started) = index + 1

ServedInv ==
  phase = "busy" =>
    /\ request \in Requests
    /\ chain = Append(Middlewares(request[2]), Handler(request[1], request[2]))
    /\ InTurn

LEMMA Strings ==
  /\ GroupPrefixes \cup Patterns \cup Directories \cup Paths \subseteq Seq(Segs)
  /\ FilePath \in Segs
<1>1. ASSUME NEW s \in GroupPrefixes \cup Patterns \cup Directories \cup Paths
      PROVE  s \in Seq(Segs)
  <2>1. Range(s) \subseteq Segs
    BY DEF Segs
  <2>2. s \in Seq(Range(s))
    BY SequencesAssumption
  <2> QED BY <2>1, <2>2, SeqMonotonic
<1>2. FilePath \in Segs
  BY DEF Segs
<1> QED BY <1>1, <1>2

(* The patterns that were registered for a method.                         *)
MineOf(s, method) == {r \in Range(s) : r.method = method}
MinePatterns(s, method) ==
  [i \in DOMAIN Filter(s, MineOf(s, method)) |-> Filter(s, MineOf(s, method))[i].pattern]

LEMMA PatternsMine == \A method : PatternsOf(method) = MinePatterns(registered, method)
BY DEF PatternsOf, MinePatterns, MineOf

LEMMA PatternsOfEntries ==
  ASSUME NEW k \in Seq(Entries)
  PROVE  LET tab == [i \in DOMAIN k |-> k[i].pattern]
         IN /\ tab \in Seq(Seq(Segs)) /\ Len(tab) = Len(k)
            /\ \A i \in 1..Len(k) : tab[i] = k[i].pattern
<1> DEFINE tab == [i \in DOMAIN k |-> k[i].pattern]
<1>1. Len(k) \in Nat /\ DOMAIN k = 1..Len(k) /\ \A i \in 1..Len(k) : k[i] \in Entries
  BY LenProperties, ElementOfSeq
<1>2. tab \in [1..Len(k) -> Seq(Segs)]
  BY <1>1 DEF Entries
<1>3. tab \in Seq(Seq(Segs))
  BY <1>1, <1>2, SeqDef
<1>4. Len(tab) = Len(k)
  BY <1>1, <1>2, <1>3, LenProperties
<1> QED BY <1>1, <1>3, <1>4

LEMMA MineAppend ==
  ASSUME NEW s \in Seq(Entries), NEW e \in Entries, NEW method
  PROVE  /\ MinePatterns(s, method) \in Seq(Seq(Segs))
         /\ MinePatterns(Append(s, e), method)
              = IF e.method = method THEN Append(MinePatterns(s, method), e.pattern)
                ELSE MinePatterns(s, method)
<1> DEFINE a == Append(s, e)
           T == MineOf(s, method)
           U == MineOf(a, method)
           k == Filter(s, T)
           ka == Filter(a, U)
           tab == [i \in DOMAIN k |-> k[i].pattern]
           tb == [i \in DOMAIN ka |-> ka[i].pattern]
<1>1. /\ Len(s) \in Nat /\ a \in Seq(Entries) /\ Len(a) = Len(s) + 1
      /\ a[Len(s) + 1] = e /\ \A i \in 1..Len(s) : a[i] = s[i]
      /\ DOMAIN s = 1..Len(s)
  BY LenProperties, AppendProperties
<1>2. DOMAIN a = 1..Len(s) + 1
  BY <1>1, LenProperties
<1> HIDE DEF a
<1>3. e \in U <=> e.method = method
  <2>1. e \in Range(a)
    <3>1. Len(s) + 1 \in 1..Len(s) + 1
      BY <1>1
    <3> QED BY <1>1, <1>2, <3>1 DEF Range
  <2> QED BY <2>1 DEF MineOf
<1>4. \A i \in 1..Len(s) : s[i] \in T <=> s[i] \in U
  <2>1. \A i \in 1..Len(s) : s[i] \in Range(s) /\ s[i] \in Range(a)
    <3>1. \A i \in 1..Len(s) : i \in 1..Len(s) + 1
      BY <1>1
    <3> QED BY <1>1, <1>2, <3>1 DEF Range
  <2> QED BY <2>1 DEF MineOf
<1> HIDE DEF T, U
<1>5. Filter(Append(s, e), U) = IF e \in U THEN Append(Filter(s, T), e) ELSE Filter(s, T)
  BY <1>4, FilterAppend
<1>6. ka = IF e.method = method THEN Append(k, e) ELSE k
  BY <1>3, <1>5 DEF a
<1>7. k \in Seq(Entries)
  BY FilterPicks
<1> HIDE DEF k, ka
<1>8. /\ tab \in Seq(Seq(Segs)) /\ Len(tab) = Len(k)
      /\ \A i \in 1..Len(k) : tab[i] = k[i].pattern
  BY <1>7, PatternsOfEntries
<1>9. tb = IF e.method = method THEN Append(tab, e.pattern) ELSE tab
  <2>1. CASE e.method # method
    BY <1>6, <2>1
  <2>2. CASE e.method = method
    <3> DEFINE p == e.pattern
               q == Append(tab, p)
               n == Len(k)
    <3>1. ka = Append(k, e) /\ n \in Nat /\ p \in Seq(Segs)
      BY <1>6, <1>7, <2>2, LenProperties DEF Entries
    <3>2. /\ ka \in Seq(Entries) /\ Len(ka) = n + 1 /\ ka[n + 1] = e
          /\ \A i \in 1..n : ka[i] = k[i]
      BY <1>7, <3>1, AppendProperties
    <3>3. /\ tb \in Seq(Seq(Segs)) /\ Len(tb) = n + 1
          /\ \A i \in 1..n + 1 : tb[i] = ka[i].pattern
      <4>1. /\ tb \in Seq(Seq(Segs)) /\ Len(tb) = Len(ka)
            /\ \A i \in 1..Len(ka) : tb[i] = ka[i].pattern
        BY <3>2, PatternsOfEntries
      <4> HIDE DEF tb, n
      <4> QED BY <3>2, <4>1
    <3> HIDE DEF tb, tab
    <3>4. /\ q \in Seq(Seq(Segs)) /\ Len(q) = n + 1 /\ q[n + 1] = p
          /\ \A i \in 1..n : q[i] = tab[i]
      <4> HIDE DEF p
      <4> QED BY <1>8, <3>1, AppendProperties
    <3> HIDE DEF q, n
    <3>5. ASSUME NEW i \in 1..n + 1 PROVE tb[i] = q[i]
      <4>1. CASE i = n + 1
        BY <3>2, <3>3, <3>4, <4>1
      <4>2. CASE i # n + 1
        <5>1. i \in 1..n
          BY <3>1, <4>2
        <5>2. tab[i] = k[i].pattern
          BY <1>8, <5>1 DEF n
        <5> QED BY <3>2, <3>3, <3>4, <5>1, <5>2
      <4> QED BY <4>1, <4>2
    <3>6. tb = q
      BY <3>3, <3>4, <3>5, SeqEqual
    <3> QED BY <2>2, <3>6 DEF q
  <2> QED BY <2>1, <2>2
<1>10. MinePatterns(s, method) = tab /\ MinePatterns(a, method) = tb
  BY DEF MinePatterns, tab, tb, k, ka, T, U
<1> HIDE DEF tab, tb
<1> QED BY <1>8, <1>9, <1>10 DEF a

LEMMA ConcatBegins ==
  ASSUME NEW p \in Seq(Segs), NEW q \in Seq(Segs)
  PROVE  p \o q \in Seq(Segs) /\ Begins(p, p \o q)
<1>1. Len(p) \in Nat /\ Len(q) \in Nat
  BY LenProperties
<1>2. /\ p \o q \in Seq(Segs) /\ Len(p \o q) = Len(p) + Len(q)
      /\ \A i \in 1..Len(p) + Len(q) :
           (p \o q)[i] = IF i <= Len(p) THEN p[i] ELSE q[i - Len(p)]
  BY ConcatProperties
<1>3. \A i \in 1..Len(p) : i \in 1..Len(p) + Len(q) /\ i <= Len(p)
  BY <1>1
<1> QED BY <1>1, <1>2, <1>3 DEF Begins

LEMMA Registered ==
  ASSUME EntriesInv
  PROVE  /\ Len(registered) \in Nat /\ DOMAIN registered = 1..Len(registered)
         /\ \A i \in 1..Len(registered) : registered[i] \in Entries
BY LenProperties, ElementOfSeq DEF EntriesInv

LEMMA AddRouteEntries ==
  ASSUME EntriesInv, NEW e \in Entries, e.group \in 1..Len(groups),
         Begins(groups[e.group].prefix, e.pattern),
         registered' = Append(registered, e), UNCHANGED groups
  PROVE  EntriesInv'
<1> DEFINE n == Len(registered)
<1>1. n \in Nat /\ registered \in Seq(Entries)
  BY Registered DEF EntriesInv
<1>2. /\ registered' \in Seq(Entries) /\ Len(registered') = n + 1
      /\ registered'[n + 1] = e /\ \A i \in 1..n : registered'[i] = registered[i]
  BY <1>1, AppendProperties
<1> HIDE DEF n
<1>3. ASSUME NEW i \in 1..n + 1
      PROVE  /\ registered'[i].group \in 1..Len(groups)
             /\ Begins(groups[registered'[i].group].prefix, registered'[i].pattern)
  <2>1. CASE i = n + 1
    BY <1>2, <2>1
  <2>2. CASE i # n + 1
    <3>1. i \in 1..n
      BY <1>1, <2>2
    <3> QED BY <1>2, <3>1 DEF EntriesInv, n
  <2> QED BY <2>1, <2>2
<1> QED BY <1>2, <1>3 DEF EntriesInv

LEMMA AddRouteHandlers ==
  ASSUME EntriesInv, HandlersInv, NEW e \in Entries,
         NEW method, NEW pattern, e.method = method, e.pattern = pattern,
         NEW kind \in {"route", "static"},
         handlers' = Put(handlers, <<method, pattern>>, Func(kind, Len(registered) + 1)),
         registered' = Append(registered, e)
  PROVE  HandlersInv' /\ DOMAIN handlers' = DOMAIN handlers \cup {<<method, pattern>>}
<1> DEFINE n == Len(registered)
           at == <<method, pattern>>
           h == Func(kind, n + 1)
<1>1. n \in Nat /\ registered \in Seq(Entries)
  BY Registered DEF EntriesInv
<1>2. /\ Len(registered') = n + 1
      /\ registered'[n + 1] = e /\ \A i \in 1..n : registered'[i] = registered[i]
  BY <1>1, AppendProperties
<1>3. /\ DOMAIN handlers' = DOMAIN handlers \cup {at}
      /\ handlers'[at] = h
      /\ \A k \in DOMAIN handlers : k # at => handlers'[k] = handlers[k]
  <2>1. handlers' = Put(handlers, at, h)
    OBVIOUS
  <2> HIDE DEF at, h
  <2> QED BY <2>1 DEF Put
<1>4. h.kind = kind /\ h.of = n + 1
  BY DEF Func
<1>5. at[1] = method /\ at[2] = pattern
  OBVIOUS
<1> HIDE DEF n, h
<1>6. ASSUME NEW key \in DOMAIN handlers'
      PROVE  /\ key = <<key[1], key[2]>>
             /\ handlers'[key].kind \in {"route", "static"}
             /\ LastEntry(registered', handlers'[key].of, key[1], key[2])
  <2>1. CASE key = at
    <3>1. LastEntry(registered', n + 1, method, pattern)
      <4>1. n + 1 \in 1..n + 1 /\ \A j \in 1..n + 1 : j <= n + 1
        BY <1>1
      <4> QED BY <1>2, <4>1 DEF LastEntry
    <3> QED BY <1>3, <1>4, <1>5, <2>1, <3>1
  <2>2. CASE key # at
    <3> DEFINE i == handlers[key].of
    <3>1. key \in DOMAIN handlers /\ handlers'[key] = handlers[key]
      BY <1>3, <2>2
    <3>2. /\ key = <<key[1], key[2]>> /\ handlers[key].kind \in {"route", "static"}
          /\ LastEntry(registered, i, key[1], key[2])
      BY <3>1 DEF HandlersInv
    <3>3. ~(method = key[1] /\ pattern = key[2])
      BY <2>2, <3>2
    <3> HIDE DEF at, i
    <3>4. LastEntry(registered', i, key[1], key[2])
      <4>1. /\ i \in 1..n /\ registered[i].method = key[1] /\ registered[i].pattern = key[2]
            /\ \A j \in 1..n : registered[j].method = key[1] /\ registered[j].pattern = key[2]
                                 => j <= i
        BY <3>2 DEF LastEntry, n
      <4>2. i \in 1..n + 1 /\ registered'[i] = registered[i]
        BY <1>1, <1>2, <4>1
      <4>3. ASSUME NEW j \in 1..n + 1,
                   registered'[j].method = key[1], registered'[j].pattern = key[2]
            PROVE  j <= i
        <5>1. j # n + 1
          BY <1>2, <3>3, <4>3
        <5>2. j \in 1..n
          BY <1>1, <5>1
        <5> QED BY <1>2, <4>1, <4>3, <5>2
      <4> QED BY <1>2, <4>1, <4>2, <4>3 DEF LastEntry
    <3> QED BY <3>1, <3>2, <3>4 DEF i
  <2> QED BY <2>1, <2>2
<1> QED BY <1>3, <1>6 DEF HandlersInv

LEMMA HeldInsert ==
  ASSUME NEW t, Shape(t), NEW keys, NEW method, Held(t, keys, method), NEW pattern \in Seq(Segs),
         NEW u, u = Insert(t, pattern)
  PROVE  Held(u, keys \cup {<<method, pattern>>}, method)
<1>1. PICK leaf \in DOMAIN u :
        /\ Len(leaf) = Len(ParsePattern(pattern)) /\ u[leaf].pattern = pattern
        /\ \A m \in DOMAIN u : m # leaf =>
             u[m].pattern = << >> \/ (m \in DOMAIN t /\ u[m].pattern = t[m].pattern)
  BY InsertShape
<1>2. ASSUME NEW n \in DOMAIN u, u[n].pattern # << >>
      PROVE  /\ Len(ParsePattern(u[n].pattern)) = Len(n)
             /\ <<method, u[n].pattern>> \in keys \cup {<<method, pattern>>}
  <2>1. CASE n = leaf
    BY <1>1, <2>1
  <2>2. CASE n # leaf
    BY <1>1, <1>2, <2>2 DEF Held
  <2> QED BY <2>1, <2>2
<1> QED BY <1>2 DEF Held

LEMMA AddRouteTries ==
  ASSUME EntriesInv, TriesInv, NEW e \in Entries,
         NEW method, NEW pattern \in Seq(Segs), e.method = method, e.pattern = pattern,
         roots' = [roots EXCEPT ![method] = Insert(@, pattern)],
         DOMAIN handlers' = DOMAIN handlers \cup {<<method, pattern>>},
         registered' = Append(registered, e)
  PROVE  TriesInv'
<1>1. registered \in Seq(Entries)
  BY DEF EntriesInv
<1>2. DOMAIN roots = Methods /\ DOMAIN roots' = Methods
  BY DEF TriesInv
<1>3. ASSUME NEW m \in Methods
      PROVE  /\ BuiltFrom(roots'[m], MinePatterns(registered', m))
             /\ Held(roots'[m], DOMAIN handlers', m)
  <2> DEFINE tab == MinePatterns(registered, m)
             tb == MinePatterns(registered', m)
             t == roots[m]
             keys == DOMAIN handlers
             more == DOMAIN handlers'
  <2>1. /\ tab \in Seq(Seq(Segs))
        /\ tb = IF method = m THEN Append(tab, pattern) ELSE tab
    BY <1>1, MineAppend
  <2>2. BuiltFrom(t, tab) /\ Held(t, keys, m)
    BY PatternsMine DEF TriesInv
  <2>3. more = keys \cup {<<method, pattern>>}
    OBVIOUS
  <2>4. roots'[m] = IF method = m THEN Insert(t, pattern) ELSE t
    BY <1>2
  <2> HIDE DEF tab, tb, t, keys, more
  <2>5. CASE method = m
    <3>1. BuiltFrom(Insert(t, pattern), Append(tab, pattern))
      BY <2>1, <2>2, BuiltGrows
    <3>2. Held(Insert(t, pattern), keys \cup {<<m, pattern>>}, m)
      <4>1. Shape(t)
        BY <2>2 DEF BuiltFrom
      <4> QED BY <2>2, <4>1, HeldInsert
    <3> QED BY <2>1, <2>3, <2>4, <2>5, <3>1, <3>2 DEF tb, more
  <2>6. CASE method # m
    <3>1. Held(t, more, m)
      BY <2>2, <2>3 DEF Held
    <3> QED BY <2>1, <2>2, <2>4, <2>6, <3>1 DEF tb, more
  <2> QED BY <2>5, <2>6
<1>4. \A m \in Methods : PatternsOf(m)' = MinePatterns(registered', m)
  BY DEF PatternsOf, MinePatterns, MineOf
<1> QED BY <1>2, <1>3, <1>4 DEF TriesInv

LEMMA GroupsGrow ==
  ASSUME GroupsNest, EntriesInv, UNCHANGED registered,
         NEW n \in Nat, NEW m \in Nat, Len(groups) = n, Len(groups') = m, n <= m,
         \A g \in 1..n : /\ GroupRecord(groups[g]) => GroupRecord(groups'[g])
                         /\ groups'[g].prefix = groups[g].prefix
                         /\ groups'[g].parent = groups[g].parent,
         \A g \in n + 1..m : /\ GroupRecord(groups'[g])
                             /\ groups'[g].prefix \in Seq(Segs)
                             /\ groups'[g].parent \in 1..n
                             /\ Begins(groups[groups'[g].parent].prefix, groups'[g].prefix)
  PROVE  GroupsNest' /\ EntriesInv'
<1>1. ASSUME NEW g \in 1..m
      PROVE  /\ GroupRecord(groups'[g])
             /\ groups'[g].prefix \in Seq(Segs)
             /\ groups'[g].parent \in 0..g - 1
             /\ groups'[g].parent # 0
                  => Begins(groups'[groups'[g].parent].prefix, groups'[g].prefix)
  <2>1. CASE g \in 1..n
    <3>1. /\ GroupRecord(groups[g])
          /\ groups[g].prefix \in Seq(Segs) /\ groups[g].parent \in 0..g - 1
          /\ groups[g].parent # 0 => Begins(groups[groups[g].parent].prefix, groups[g].prefix)
      BY <2>1 DEF GroupsNest
    <3>2. groups[g].parent # 0 => groups[g].parent \in 1..n
      BY <2>1, <3>1
    <3> QED BY <2>1, <3>1, <3>2
  <2>2. CASE g \notin 1..n
    <3>1. g \in n + 1..m
      BY <2>2
    <3>2. groups'[g].parent \in 1..n /\ groups'[g].parent \in 0..g - 1
      BY <3>1
    <3> QED BY <3>1, <3>2
  <2> QED BY <2>1, <2>2
<1>2. ASSUME NEW i \in 1..Len(registered)
      PROVE  /\ registered[i].group \in 1..m
             /\ Begins(groups'[registered[i].group].prefix, registered[i].pattern)
  <2>1. /\ registered[i].group \in 1..n
        /\ Begins(groups[registered[i].group].prefix, registered[i].pattern)
    BY DEF EntriesInv
  <2>2. registered[i].group \in 1..m
    BY <2>1
  <2> QED BY <2>1, <2>2
<1>3. GroupsNest'
  BY <1>1 DEF GroupsNest
<1>4. EntriesInv'
  BY <1>2 DEF EntriesInv
<1> QED BY <1>3, <1>4

LEMMA TablesSame ==
  ASSUME RInv, UNCHANGED <<roots, handlers, registered>>, GroupsNest', EntriesInv'
  PROVE  RInv'
<1>1. HandlersInv'
  BY DEF RInv, HandlersInv
<1>2. TriesInv'
  BY DEF RInv, TriesInv, PatternsOf
<1> QED BY <1>1, <1>2 DEF RInv

LEMMA GroupShapes ==
  ASSUME GroupsInv
  PROVE  Len(groups) \in Nat /\ DOMAIN groups = 1..Len(groups)
BY LenProperties DEF GroupsInv

LEMMA GroupRInv ==
  ASSUME GroupsInv, RInv, NEW g \in DOMAIN groups, NEW prefix \in GroupPrefixes,
         Group(g, prefix)
  PROVE  RInv'
<1> DEFINE n == Len(groups)
           new == [prefix      |-> groups[g].prefix \o prefix,
                   parent      |-> g,
                   middlewares |-> << >>]
           T == Range(groups) \cup {new}
<1>1. n \in Nat /\ g \in 1..n /\ groups \in Seq(T) /\ new \in T
  <2>1. groups \in Seq(Range(groups))
    BY DEF GroupsInv
  <2> HIDE DEF new
  <2> QED BY <2>1, GroupShapes
<1>2. groups' = Append(groups, new) /\ UNCHANGED <<roots, handlers, registered>>
  BY DEF Group
<1>3. groups[g].prefix \in Seq(Segs) /\ prefix \in Seq(Segs)
  BY <1>1, Strings DEF RInv, GroupsNest
<1>4. /\ new.prefix \in Seq(Segs) /\ new.parent = g
      /\ Begins(groups[g].prefix, new.prefix)
  BY <1>3, ConcatBegins
<1>5. GroupRecord(new)
  BY DEF GroupRecord
<1> HIDE DEF new, T
<1>6. /\ Len(groups') = n + 1 /\ groups'[n + 1] = new
      /\ \A i \in 1..n : groups'[i] = groups[i]
  BY <1>1, <1>2, AppendProperties
<1> HIDE DEF n
<1>7. GroupsNest' /\ EntriesInv'
  <2>1. n + 1 \in Nat /\ n <= n + 1 /\ \A i \in n + 1..n + 1 : i = n + 1
    BY <1>1
  <2>2. \A i \in n + 1..n + 1 : /\ GroupRecord(groups'[i])
                                /\ groups'[i].prefix \in Seq(Segs)
                                /\ groups'[i].parent \in 1..n
                                /\ Begins(groups[groups'[i].parent].prefix, groups'[i].prefix)
    BY <1>1, <1>4, <1>5, <1>6, <2>1
  <2>3. Len(groups) = n
    BY DEF n
  <2>4. GroupsNest /\ EntriesInv
    BY DEF RInv
  <2> QED BY <1>1, <1>2, <1>6, <2>1, <2>2, <2>3, <2>4, GroupsGrow
<1> QED BY <1>2, <1>7, TablesSame

LEMMA UseRInv ==
  ASSUME GroupsInv, RInv, NEW g \in DOMAIN groups, Use(g)
  PROVE  RInv'
<1> DEFINE n == Len(groups)
<1>1. n \in Nat /\ DOMAIN groups = 1..n
  BY GroupShapes
<1>2. /\ groups' = [groups EXCEPT ![g].middlewares = Append(@, Func("user", g))]
      /\ UNCHANGED <<roots, handlers, registered>>
  BY DEF Use
<1>3. Len(groups') = n
  <2>1. groups' = [i \in 1..n |-> groups'[i]]
    BY <1>1, <1>2
  <2> DEFINE T == {groups'[i] : i \in 1..n}
  <2>2. groups' \in Seq(T) /\ DOMAIN groups' = 1..n
    BY <1>1, <2>1
  <2> HIDE DEF T, n
  <2>3. Len(groups') \in Nat /\ DOMAIN groups' = 1..Len(groups')
    BY <2>2, LenProperties
  <2> QED BY <1>1, <2>2, <2>3
<1>4. \A i \in 1..n : /\ GroupRecord(groups[i]) => GroupRecord(groups'[i])
                      /\ groups'[i].prefix = groups[i].prefix
                      /\ groups'[i].parent = groups[i].parent
  <2> DEFINE mws == Append(groups[g].middlewares, Func("user", g))
  <2>1. \A i \in 1..n :
          groups'[i] = IF i = g THEN [groups[g] EXCEPT !.middlewares = mws] ELSE groups[i]
    BY <1>1, <1>2
  <2>2. GroupRecord(groups[g])
    BY <1>1 DEF RInv, GroupsNest
  <2> HIDE DEF mws
  <2> DEFINE more == [groups[g] EXCEPT !.middlewares = mws]
  <2>3. GroupRecord(more) /\ more.prefix = groups[g].prefix /\ more.parent = groups[g].parent
    BY <2>2 DEF GroupRecord
  <2> HIDE DEF more
  <2>4. \A i \in 1..n : groups'[i] = IF i = g THEN more ELSE groups[i]
    BY <2>1 DEF more
  <2> QED BY <2>3, <2>4
<1> HIDE DEF n
<1>5. n <= n /\ \A i \in n + 1..n : FALSE
  BY <1>1
<1>6. GroupsNest' /\ EntriesInv'
  <2>1. Len(groups) = n
    BY DEF n
  <2>2. GroupsNest /\ EntriesInv
    BY DEF RInv
  <2>3. \A i \in n + 1..n : /\ GroupRecord(groups'[i])
                            /\ groups'[i].prefix \in Seq(Segs)
                            /\ groups'[i].parent \in 1..n
                            /\ Begins(groups[groups'[i].parent].prefix, groups'[i].prefix)
    BY <1>5
  <2> QED BY <1>1, <1>2, <1>3, <1>4, <1>5, <2>1, <2>2, <2>3, GroupsGrow
<1> QED BY <1>2, <1>6, TablesSame

LEMMA AddRouteRInv ==
  ASSUME GroupsInv, RInv, NEW g \in DOMAIN groups, NEW method \in Methods \cup {"GET"},
         NEW pattern \in Seq(Segs), NEW kind \in {"route", "static"},
         AddRoute(g, method, pattern, kind)
  PROVE  RInv'
<1> DEFINE p == groups[g].prefix \o pattern
           e == [method |-> method, group |-> g, pattern |-> p]
<1>1. g \in 1..Len(groups) /\ g \in Nat
  BY GroupShapes
<1>2. groups[g].prefix \in Seq(Segs)
  BY <1>1 DEF RInv, GroupsNest
<1>3. p \in Seq(Segs) /\ Begins(groups[g].prefix, p)
  BY <1>2, ConcatBegins
<1>4. /\ roots' = [roots EXCEPT ![method] = Insert(@, p)]
      /\ handlers' = Put(handlers, <<method, p>>, Func(kind, Len(registered) + 1))
      /\ registered' = Append(registered, e)
      /\ UNCHANGED groups
  BY DEF AddRoute, CompositionPattern
<1> HIDE DEF p
<1>5. e \in Entries /\ e.method = method /\ e.pattern = p /\ e.group = g
  BY <1>1, <1>3 DEF Entries
<1> HIDE DEF e
<1>6. EntriesInv /\ HandlersInv /\ TriesInv /\ GroupsNest
  BY DEF RInv
<1>7. EntriesInv'
  BY <1>1, <1>3, <1>4, <1>5, <1>6, AddRouteEntries
<1>8. HandlersInv' /\ DOMAIN handlers' = DOMAIN handlers \cup {<<method, p>>}
  BY <1>4, <1>5, <1>6, AddRouteHandlers
<1>9. TriesInv'
  BY <1>3, <1>4, <1>5, <1>6, <1>8, AddRouteTries
<1>10. GroupsNest'
  BY <1>4, <1>6 DEF GroupsNest
<1> QED BY <1>7, <1>8, <1>9, <1>10 DEF RInv

LEMMA SameRInv ==
  ASSUME RInv, UNCHANGED table
  PROVE  RInv'
<1>1. UNCHANGED <<groups, roots, handlers, registered>>
  BY DEF table
<1>2. GroupsNest' /\ EntriesInv'
  BY <1>1 DEF RInv, GroupsNest, EntriesInv
<1> QED BY <1>1, <1>2, TablesSame

LEMMA SetupRInv ==
  ASSUME GroupsInv, RInv, Setup
  PROVE  RInv'
<1>1. ASSUME NEW g \in DOMAIN groups, NEW prefix \in GroupPrefixes, Group(g, prefix)
      PROVE  RInv'
  BY <1>1, GroupRInv
<1>2. ASSUME NEW g \in DOMAIN groups, Use(g)
      PROVE  RInv'
  BY <1>2, UseRInv
<1>3. ASSUME NEW g \in DOMAIN groups, NEW method \in Methods, NEW pattern \in Patterns,
             Route(g, method, pattern)
      PROVE  RInv'
  <2>1. pattern \in Seq(Segs)
    BY Strings
  <2>2. AddRoute(g, method, pattern, "route")
    BY <1>3 DEF Route
  <2> QED BY <2>1, <2>2, AddRouteRInv
<1>4. ASSUME NEW g \in DOMAIN groups, NEW relativePath \in Directories, Static(g, relativePath)
      PROVE  RInv'
  <2>1. Append(relativePath, FilePath) \in Seq(Segs)
    BY Strings, AppendProperties
  <2>2. AddRoute(g, "GET", Append(relativePath, FilePath), "static")
    BY <1>4 DEF Static
  <2> QED BY <2>1, <2>2, AddRouteRInv
<1>5. CASE Run
  BY <1>5, SameRInv DEF Run
<1> QED BY <1>1, <1>2, <1>3, <1>4, <1>5 DEF Setup

LEMMA InitRInv == Init => RInv
<1> SUFFICES ASSUME Init PROVE RInv
  OBVIOUS
<1>1. PICK first : /\ groups = <<first>> /\ GroupRecord(first)
                   /\ first.prefix = << >> /\ first.parent = 0
  <2>1. CASE groups = <<Engine>>
    BY <2>1 DEF Engine, GroupRecord
  <2>2. CASE groups = <<[Engine EXCEPT !.middlewares = <<Logger, Recovery>>]>>
    BY <2>2 DEF Engine, GroupRecord
  <2> QED BY <2>1, <2>2 DEF Init
<1>2. Len(groups) = 1 /\ groups[1] = first /\ << >> \in Seq(Segs)
  BY <1>1
<1>3. GroupsNest
  <2>1. \A g \in 1..1 : g = 1 /\ 0 \in 0..g - 1
    OBVIOUS
  <2>2. \A g \in 1..1 : /\ GroupRecord(groups[g])
                        /\ groups[g].prefix \in Seq(Segs)
                        /\ groups[g].parent = 0
    BY <1>1, <1>2, <2>1
  <2> QED BY <1>2, <2>1, <2>2 DEF GroupsNest
<1>4. registered = << >> /\ handlers = << >> /\ Len(registered) = 0
  BY DEF Init
<1>5. EntriesInv
  BY <1>4 DEF EntriesInv
<1>6. HandlersInv
  BY <1>4 DEF HandlersInv
<1>7. ASSUME NEW method \in Methods
      PROVE  /\ BuiltFrom(roots[method], PatternsOf(method))
             /\ Held(roots[method], DOMAIN handlers, method)
  <2>1. roots[method] = EmptyTrie
    BY DEF Init
  <2>2. PatternsOf(method) = << >>
    <3> DEFINE k == Filter(registered, MineOf(registered, method))
    <3>1. PICK f : Kept(f, registered, MineOf(registered, method), 0) /\ k = f[0]
      BY <1>4, FilterIsKept
    <3>2. k = << >>
      BY <3>1 DEF Kept
    <3> HIDE DEF k
    <3>3. [i \in DOMAIN k |-> k[i].pattern] = << >>
      BY <3>2
    <3> QED BY <3>3 DEF PatternsOf, MineOf, k
  <2>3. Held(EmptyTrie, DOMAIN handlers, method)
    BY DEF Held, EmptyTrie, NewNode
  <2> QED BY <2>1, <2>2, <2>3, EmptyBuilt
<1>8. TriesInv
  BY <1>7 DEF TriesInv, Init
<1> QED BY <1>3, <1>5, <1>6, <1>8 DEF RInv

LEMMA NextRInv ==
  ASSUME GroupsInv, RInv, [Next]_vars
  PROVE  RInv'
<1>1. CASE Setup
  BY <1>1, SetupRInv
<1>2. CASE Serve
  <2>1. UNCHANGED table
    BY <1>2 DEF Serve, ServeHTTP, MiddlewareNext, CallNext, User, UserNext, UserFatal, UserPanic,
       Write, Encode, Return, ServeFile, ServeNotFound, Unwind, Finish
  <2> QED BY <2>1, SameRInv
<1>3. CASE UNCHANGED vars
  BY <1>3, SameRInv DEF vars
<1> QED BY <1>1, <1>2, <1>3 DEF Next

LEMMA PatternsAreStrings ==
  ASSUME RInv, NEW method
  PROVE  /\ PatternsOf(method) \in Seq(Seq(Segs))
         /\ Parsing(PatternsOf(method), PartsOf(PatternsOf(method)), Len(PatternsOf(method)))
<1>1. registered \in Seq(Entries)
  BY DEF RInv, EntriesInv
<1> DEFINE k == Filter(registered, MineOf(registered, method))
<1>2. k \in Seq(Entries)
  BY <1>1, FilterPicks
<1>3. PatternsOf(method) = [i \in DOMAIN k |-> k[i].pattern]
  BY DEF PatternsOf, MineOf
<1> HIDE DEF k
<1>4. PatternsOf(method) \in Seq(Seq(Segs))
  BY <1>2, <1>3, PatternsOfEntries
<1> QED BY <1>4, PartsParsed

(* A route that is found is short enough and has a handler.                *)
LEMMA FoundIsHeld ==
  ASSUME RInv, NEW method \in Methods, NEW path \in Seq(Segs),
         GetRoute(roots[method], path) # << >>
  PROVE  /\ Len(ParsePattern(GetRoute(roots[method], path))) <= Len(ParsePattern(path))
         /\ <<method, GetRoute(roots[method], path)>> \in DOMAIN handlers
<1> DEFINE t == roots[method]
<1>1. Shape(t) /\ Held(t, DOMAIN handlers, method)
  BY DEF RInv, TriesInv, BuiltFrom
<1> HIDE DEF t
<1>2. GetRoute(t, path) # << >>
  BY DEF t
<1>3. PICK n \in DOMAIN t : GetRoute(t, path) = t[n].pattern /\ Len(n) <= Len(ParsePattern(path))
  BY <1>1, <1>2, GetRouteSound
<1>4. t[n].pattern # << >>
  BY <1>2, <1>3
<1>5. Len(ParsePattern(t[n].pattern)) = Len(n) /\ <<method, t[n].pattern>> \in DOMAIN handlers
  BY <1>1, <1>4 DEF Held
<1> QED BY <1>3, <1>5 DEF t

(* It fits the path.                                                       *)
LEMMA FoundFits ==
  ASSUME RInv, NEW method \in Methods, NoneDiverted(PatternsOf(method)), NEW path \in Seq(Segs)
  PROVE  /\ GetRoute(roots[method], path) = BestRoute(PatternsOf(method), path)
         /\ GetRoute(roots[method], path) # << >> =>
              /\ GetRoute(roots[method], path) \in Seq(Segs)
              /\ Fits(GetRoute(roots[method], path), path)
<1> DEFINE t == roots[method]
           tab == PatternsOf(method)
           found == BestRoute(tab, path)
<1>1. BuiltFrom(t, tab)
  BY DEF RInv, TriesInv
<1>2. tab \in Seq(Seq(Segs)) /\ Parsing(tab, PartsOf(tab), Len(tab)) /\ NoneDiverted(tab)
  BY PatternsAreStrings
<1> HIDE DEF t, tab
<1>3. GetRoute(t, path) = found
  BY <1>1, <1>2, BuiltFinds
<1>4. found # << >> => found \in Seq(Segs) /\ Fits(found, path)
  <2> SUFFICES ASSUME found # << >> PROVE found \in Seq(Segs) /\ Fits(found, path)
    OBVIOUS
  <2>1. PICK i \in 1..Len(tab) : tab[i] = found /\ Fits(tab[i], path)
    BY <1>2, BestRouteFits
  <2>2. tab[i] \in Seq(Segs)
    BY <1>2 DEF Parsing
  <2> QED BY <2>1, <2>2
<1> HIDE DEF found
<1> QED BY <1>3, <1>4 DEF t, tab, found

LastOf(s, method, pattern) ==
  SelectLastInSeq(s, LAMBDA r : r.method = method /\ r.pattern = pattern)

LEMMA LastEntryIs ==
  ASSUME NEW s, Len(s) \in Nat, NEW i, NEW method, NEW pattern, LastEntry(s, i, method, pattern)
  PROVE  i = LastOf(s, method, pattern)
<1> DEFINE I == {j \in 1..Len(s) : s[j].method = method /\ s[j].pattern = pattern}
<1>1. i \in I /\ \A j \in I : j <= i
  BY DEF LastEntry
<1>2. I \subseteq 1..Len(s)
  OBVIOUS
<1>3. LastOf(s, method, pattern) = IF I # {} THEN Max(I) ELSE 0
  BY DEF LastOf, SelectLastInSeq
<1> HIDE DEF I
<1>4. Max(I) \in I /\ \A j \in I : j <= Max(I)
  BY <1>1, <1>2, MaxOf
<1>5. Max(I) = i
  <2> DEFINE m == Max(I)
  <2>1. m \in 1..Len(s) /\ i \in 1..Len(s) /\ m <= i /\ i <= m
    BY <1>1, <1>2, <1>4
  <2> HIDE DEF m
  <2>2. m = i
    BY <2>1
  <2> QED BY <2>2 DEF m
<1> QED BY <1>1, <1>3, <1>5

LEMMA RoutesAgreeNow ==
  ASSUME RInv
  PROVE  RoutesAgree
<1> SUFFICES ASSUME NEW method \in Methods, NEW path \in Paths
             PROVE  LET found == GetRoute(roots[method], path)
                    IN /\ found # << >> =>
                            /\ Len(ParsePattern(found)) <= Len(ParsePattern(path))
                            /\ <<method, found>> \in DOMAIN handlers
                       /\ NoneDiverted(PatternsOf(method)) =>
                            /\ found = BestRoute(PatternsOf(method), path)
                            /\ found # << >> =>
                                 /\ NamedOnce(found) =>
                                      Filled(found, GetParams(found, path)) = ParsePattern(path)
                                 /\ handlers[<<method, found>>].of =
                                      SelectLastInSeq(registered, LAMBDA r :
                                        r.method = method /\ r.pattern = found)
  BY DEF RoutesAgree
<1> DEFINE found == GetRoute(roots[method], path)
<1>1. path \in Seq(Segs)
  BY Strings
<1>2. found # << >> =>
        /\ Len(ParsePattern(found)) <= Len(ParsePattern(path))
        /\ <<method, found>> \in DOMAIN handlers
  BY <1>1, FoundIsHeld
<1>3. ASSUME NoneDiverted(PatternsOf(method))
      PROVE  /\ found = BestRoute(PatternsOf(method), path)
             /\ found # << >> => found \in Seq(Segs) /\ Fits(found, path)
  BY <1>1, <1>3, FoundFits
<1> HIDE DEF found
<1>4. ASSUME found \in Seq(Segs), Fits(found, path), NamedOnce(found)
      PROVE  Filled(found, GetParams(found, path)) = ParsePattern(path)
  BY <1>1, <1>4, FilledIsPath
<1>5. ASSUME <<method, found>> \in DOMAIN handlers
      PROVE  handlers[<<method, found>>].of =
               SelectLastInSeq(registered, LAMBDA r : r.method = method /\ r.pattern = found)
  <2> DEFINE key == <<method, found>>
             i == handlers[key].of
  <2>1. LastEntry(registered, i, key[1], key[2])
    BY <1>5 DEF RInv, HandlersInv
  <2>2. key[1] = method /\ key[2] = found /\ Len(registered) \in Nat
    BY Registered DEF RInv
  <2> HIDE DEF i, key
  <2>3. LastEntry(registered, i, method, found)
    BY <2>1, <2>2
  <2>4. i = LastOf(registered, method, found)
    BY <2>2, <2>3, LastEntryIs
  <2> QED BY <2>4 DEF i, key, LastOf
<1> QED BY <1>2, <1>3, <1>4, <1>5 DEF found

(* The invariant of what is set up: groups nest, each entry's pattern      *)
(* begins with its group's prefix, the handler of a pattern is the last    *)
(* registered with it, and each trie is the one its patterns describe, one *)
(* node for the beginnings of one kind and in it the last pattern that     *)
(* ends there, unless one was diverted (gee.go, routerGroup.go, trie.go).  *)
THEOREM Routing == Spec => []RInv
<1>1. GInv /\ RInv /\ [Next]_vars => RInv'
  BY NextRInv DEF GInv
<1> QED BY InitRInv, Invariance, <1>1, PTL DEF Spec

(* Whatever patterns, groups and paths: getRoute finds the most specific   *)
(* of the patterns that fit, with the parts of the path its wildcards      *)
(* stand for, and addRoute's last handler, when none was diverted, and a   *)
(* pattern with a handler and no part outside of the path always           *)
(* (router.go:47-111, trie.go).                                            *)
THEOREM RoutesAreFound == Spec => []RoutesAgree
BY Routing, RoutesAgreeNow, PTL

-----------------------------------------------------------------------------
(* The middlewares of a request, and the groups around a group.            *)
LEMMA MiddlewaresInclude ==
  ASSUME GroupsInv, NEW path, NEW h \in 1..Len(groups), HasPrefix(path, groups[h].prefix),
         NEW k \in 1..Len(groups[h].middlewares)
  PROVE  \E i \in 1..Len(Middlewares(path)) :
           Middlewares(path)[i] = groups[h].middlewares[k]
<1> DEFINE n == Len(groups)
           mw == groups[h].middlewares[k]
<1>1. n \in Nat /\ h \in 1..n
  BY GroupShapes
<1>2. PICK f : /\ Loops(f, path, n) /\ Middlewares(path) = f[n]
               /\ \A i \in 0..n : f[i] \in Seq(Mws)
  BY MiddlewaresLoop
<1>3. \A i \in 1..n : f[i] = IF HasPrefix(path, groups[i].prefix)
                             THEN f[i - 1] \o groups[i].middlewares ELSE f[i - 1]
  <2>1. \A i \in 0..n : f[i] = IF i = 0 THEN << >>
                               ELSE IF HasPrefix(path, groups[i].prefix)
                                    THEN f[i - 1] \o groups[i].middlewares ELSE f[i - 1]
    BY <1>2 DEF Loops
  <2>2. \A i \in 1..n : i \in 0..n /\ i # 0
    BY <1>1
  <2> QED BY <2>1, <2>2
<1>4. \A i \in 1..n : /\ f[i - 1] \in Seq(Mws) /\ Len(f[i - 1]) \in Nat
                      /\ groups[i].middlewares \in Seq(Mws)
                      /\ Len(groups[i].middlewares) \in Nat
  <2>1. \A i \in 1..n : i - 1 \in 0..n
    BY <1>1
  <2>2. \A i \in 1..n : f[i - 1] \in Seq(Mws) /\ groups[i].middlewares \in Seq(Mws)
    BY <1>2, <2>1 DEF GroupsInv
  <2> QED BY <2>2, LenProperties
<1> DEFINE In(i) == \E j \in 1..Len(f[i]) : f[i][j] = mw
           T == {i \in h..n : ~In(i)}
<1>5. T = {}
  <2> SUFFICES ASSUME T # {} PROVE FALSE
    OBVIOUS
  <2>1. PICK i \in T : \A j \in T : i <= j
    <3>1. T \subseteq Nat
      BY <1>1
    <3> HIDE DEF T
    <3> QED BY <3>1, Least
  <2>2. i \in 1..n /\ i \in h..n /\ ~In(i)
    BY <1>1, <2>1
  <2> DEFINE s == f[i - 1]
             q == groups[i].middlewares
  <2>3. /\ s \o q \in Seq(Mws) /\ Len(s \o q) = Len(s) + Len(q)
        /\ \A j \in 1..Len(s) + Len(q) : (s \o q)[j] = IF j <= Len(s) THEN s[j] ELSE q[j - Len(s)]
        /\ Len(s) \in Nat /\ Len(q) \in Nat
    <3>1. s \in Seq(Mws) /\ q \in Seq(Mws) /\ Len(s) \in Nat /\ Len(q) \in Nat
      BY <1>4, <2>2
    <3> HIDE DEF s, q
    <3> QED BY <3>1, ConcatProperties
  <2>4. CASE i = h
    <3>1. f[i] = s \o q /\ mw = q[k] /\ k \in 1..Len(q)
      BY <1>3, <2>2, <2>4
    <3> HIDE DEF s, q, mw
    <3>2. Len(s) + k \in 1..Len(s) + Len(q) /\ ~(Len(s) + k <= Len(s)) /\ (Len(s) + k) - Len(s) = k
      BY <2>3, <3>1
    <3>3. (s \o q)[Len(s) + k] = mw
      BY <2>3, <3>1, <3>2
    <3> QED BY <2>2, <2>3, <3>1, <3>2, <3>3
  <2>5. CASE i # h
    <3>1. i - 1 \in h..n /\ ~(i <= i - 1)
      BY <1>1, <2>2, <2>5
    <3>2. In(i - 1)
      <4>1. i - 1 \notin T
        <5> HIDE DEF T
        <5> QED BY <2>1, <3>1
      <4> QED BY <3>1, <4>1
    <3>3. PICK j \in 1..Len(s) : s[j] = mw
      BY <3>2
    <3>4. f[i] = IF HasPrefix(path, groups[i].prefix) THEN s \o q ELSE s
      BY <1>3, <2>2
    <3> HIDE DEF s, q, mw, T
    <3>5. j \in 1..Len(s) + Len(q) /\ j <= Len(s)
      BY <2>3
    <3>6. (s \o q)[j] = mw
      BY <2>3, <3>3, <3>5
    <3> QED BY <2>2, <2>3, <3>3, <3>4, <3>5, <3>6
  <2> QED BY <2>4, <2>5
<1>6. n \in h..n
  BY <1>1
<1>7. In(n)
  BY <1>5, <1>6
<1> QED BY <1>2, <1>7

Ups(f, n) == f = [g \in 0..n |-> IF g = 0 THEN {} ELSE {g} \cup f[groups[g].parent]]

LEMMA OneMoreUp ==
  ASSUME NEW n \in Nat, NEW f, Ups(f, n), \A g \in 1..n + 1 : groups[g].parent \in 0..g - 1
  PROVE  \E e : Ups(e, n + 1)
<1> DEFINE more == {n + 1} \cup f[groups[n + 1].parent]
           e == [g \in 0..n + 1 |-> IF g = n + 1 THEN more ELSE f[g]]
<1>1. \A g \in 0..n : e[g] = f[g]
  OBVIOUS
<1>2. e[n + 1] = more
  OBVIOUS
<1>3. \A g \in 0..n : f[g] = IF g = 0 THEN {} ELSE {g} \cup f[groups[g].parent]
  BY DEF Ups
<1>4. e = [g \in 0..n + 1 |-> e[g]]
  OBVIOUS
<1> HIDE DEF e
<1>5. ASSUME NEW g \in 0..n + 1
      PROVE  e[g] = IF g = 0 THEN {} ELSE {g} \cup e[groups[g].parent]
  <2>1. CASE g = n + 1
    <3>1. g # 0 /\ groups[n + 1].parent \in 0..n
      <4>1. n + 1 \in 1..n + 1 /\ (n + 1) - 1 = n
        OBVIOUS
      <4> QED BY <2>1, <4>1
    <3>2. e[groups[n + 1].parent] = f[groups[n + 1].parent]
      BY <1>1, <3>1
    <3> QED BY <1>2, <2>1, <3>1, <3>2
  <2>2. CASE g # n + 1
    <3>1. g \in 0..n /\ (g # 0 => groups[g].parent \in 0..n)
      BY <2>2
    <3>2. g # 0 => e[groups[g].parent] = f[groups[g].parent]
      BY <1>1, <3>1
    <3> QED BY <1>1, <1>3, <3>1, <3>2
  <2> QED BY <2>1, <2>2
<1>6. Ups(e, n + 1)
  BY <1>4, <1>5 DEF Ups
<1> QED BY <1>6

LEMMA UpsEnd ==
  ASSUME NEW n \in Nat, \A g \in 1..n : groups[g].parent \in 0..g - 1
  PROVE  \E f : Ups(f, n)
<1> DEFINE T == {o \in 0..n : ~ \E f : Ups(f, o)}
<1>1. SUFFICES ASSUME T # {} PROVE FALSE
  <2>1. n \in 0..n
    OBVIOUS
  <2> QED BY <2>1
<1>2. T \subseteq Nat
  OBVIOUS
<1>3. PICK o \in T : \A i \in T : o <= i
  <2> HIDE DEF T
  <2> QED BY <1>1, <1>2, Least
<1>4. CASE o = 0
  <2>1. Ups([g \in 0..0 |-> {}], 0)
    BY DEF Ups
  <2> QED BY <1>4, <2>1
<1>5. CASE o # 0
  <2>1. o - 1 \in Nat /\ o - 1 \in 0..n /\ o - 1 \notin T /\ (o - 1) + 1 = o
    BY <1>3, <1>5
  <2>2. PICK f : Ups(f, o - 1)
    BY <2>1
  <2>3. \A g \in 1..o : groups[g].parent \in 0..g - 1
    BY <1>3
  <2>4. \E e : Ups(e, o)
    BY <2>1, <2>2, <2>3, OneMoreUp
  <2> QED BY <1>3, <2>4
<1> QED BY <1>4, <1>5

LEMMA BeginsTransitive ==
  ASSUME NEW p \in Seq(Segs), NEW q \in Seq(Segs), NEW r, Len(r) \in Nat, Begins(p, q), Begins(q, r)
  PROVE  Begins(p, r)
<1>1. Len(p) \in Nat /\ Len(q) \in Nat
  BY LenProperties
<1>2. \A i \in 1..Len(p) : i \in 1..Len(q)
  BY <1>1 DEF Begins
<1> QED BY <1>1, <1>2 DEF Begins

(* The prefixes of the groups around a group begin its prefix.             *)
LEMMA LineageBegins ==
  ASSUME GroupsInv, GroupsNest, NEW g \in 1..Len(groups), NEW up \in Lineage[g]
  PROVE  up \in 1..Len(groups) /\ Begins(groups[up].prefix, groups[g].prefix)
<1> DEFINE n == Len(groups)
           Def(f) == [i \in 0..n |-> IF i = 0 THEN {} ELSE {i} \cup f[groups[i].parent]]
           ups == CHOOSE f : f = Def(f)
           Fine(i) == \A u \in ups[i] :
                        u \in 1..n /\ i # 0 /\ Begins(groups[u].prefix, groups[i].prefix)
<1>1. n \in Nat /\ \A i \in 1..n : groups[i].parent \in 0..i - 1
  BY GroupShapes DEF GroupsNest
<1>2. Lineage = ups
  BY DEF Lineage
<1>3. ups = Def(ups)
  <2>1. PICK f : f = Def(f)
    BY <1>1, UpsEnd DEF Ups
  <2> HIDE DEF Def
  <2> QED BY <2>1
<1> HIDE DEF ups
<1>4. \A i \in 0..n : ups[i] = IF i = 0 THEN {} ELSE {i} \cup ups[groups[i].parent]
  BY <1>3
<1> HIDE DEF n
<1> DEFINE T == {i \in 0..n : ~Fine(i)}
<1>5. T = {}
  <2> SUFFICES ASSUME T # {} PROVE FALSE
    OBVIOUS
  <2>1. PICK i \in T : \A j \in T : i <= j
    <3>1. T \subseteq Nat
      OBVIOUS
    <3> HIDE DEF T
    <3> QED BY <3>1, Least
  <2>2. i \in 0..n /\ ~Fine(i)
    BY <2>1
  <2>3. PICK u \in ups[i] : ~(u \in 1..n /\ i # 0 /\ Begins(groups[u].prefix, groups[i].prefix))
    BY <2>2
  <2>4. i # 0 /\ i \in 1..n /\ u \in {i} \cup ups[groups[i].parent]
    <3>1. ups[i] = IF i = 0 THEN {} ELSE {i} \cup ups[groups[i].parent]
      BY <1>4, <2>2
    <3>2. i # 0
      BY <2>3, <3>1
    <3>3. i \in 1..n
      BY <1>1, <2>2, <3>2
    <3> QED BY <2>3, <3>1, <3>2, <3>3
  <2>5. CASE u = i
    <3>1. groups[i].prefix \in Seq(Segs)
      BY <2>4 DEF GroupsNest, n
    <3>2. Begins(groups[i].prefix, groups[i].prefix)
      BY <3>1, LenProperties DEF Begins
    <3> QED BY <2>3, <2>4, <2>5, <3>2
  <2>6. CASE u # i
    <3> DEFINE p == groups[i].parent
    <3>1. p \in 0..i - 1 /\ u \in ups[p]
      BY <1>1, <2>4, <2>6
    <3>2. p \in 0..n /\ ~(i <= p)
      <4>1. n \in Nat /\ i \in 1..n /\ p \in 0..i - 1
        BY <1>1, <2>4, <3>1
      <4> HIDE DEF n, p
      <4> QED BY ONLY <4>1
    <3>3. Fine(p)
      <4>1. p \notin T
        <5> HIDE DEF T
        <5> QED BY <2>1, <3>2
      <4> QED BY <3>2, <4>1
    <3>4. u \in 1..n /\ p # 0 /\ Begins(groups[u].prefix, groups[p].prefix)
      BY <3>1, <3>3
    <3>5. p \in 1..n
      BY <3>2, <3>4
    <3>6. /\ groups[u].prefix \in Seq(Segs) /\ groups[p].prefix \in Seq(Segs)
          /\ groups[i].prefix \in Seq(Segs)
          /\ Begins(groups[p].prefix, groups[i].prefix)
      BY <2>4, <3>4, <3>5 DEF GroupsNest, n
    <3>7. Begins(groups[u].prefix, groups[i].prefix)
      BY <3>4, <3>6, BeginsTransitive, LenProperties
    <3> QED BY <2>3, <2>4, <3>4, <3>7
  <2> QED BY <2>5, <2>6
<1>6. g \in 0..n /\ Fine(g)
  BY <1>1, <1>5 DEF n
<1> QED BY <1>2, <1>6 DEF n

-----------------------------------------------------------------------------
(* The text of a path and its parts: a prefix without wildcards and empty  *)
(* segments is the beginning of both, of a pattern and of the paths that   *)
(* fit it.                                                                 *)
Plain(prefix) ==
  \A i \in 1..Len(prefix) : prefix[i] # Empty /\ ~IsWild(prefix[i])

LEMMA PlainParts ==
  ASSUME NEW prefix \in Seq(Segs), Plain(prefix), NEW pattern \in Seq(Segs),
         Begins(prefix, pattern)
  PROVE  Begins(prefix, ParsePattern(pattern))
<1> DEFINE T == Range(pattern) \ {Empty}
           kept == Filter(pattern, T)
           q == ParsePattern(pattern)
           m == Len(prefix)
           n == Len(pattern)
<1>1. /\ m \in Nat /\ n \in Nat /\ m \in 0..n /\ DOMAIN pattern = 1..n
      /\ \A i \in 1..m : pattern[i] = prefix[i] /\ i \in 1..n
  BY LenProperties DEF Begins
<1>2. PICK g : kept \in Seq(Segs) /\ Picks(g, kept, pattern, n, T)
  BY FilterPicks
<1>3. Leads(pattern, T, m)
  BY <1>1 DEF Leads, Range, Plain
<1>4. Cut(q, kept)
  BY ParseIs
<1> HIDE DEF kept, T, q, m, n
<1>5. m <= Len(kept) /\ \A i \in 1..m : kept[i] = pattern[i]
  <2>1. Led(g, kept, pattern, m)
    BY <1>1, <1>2, <1>3, FilterStart
  <2> QED BY <2>1 DEF Led
<1>6. Len(q) \in Nat /\ Len(kept) \in Nat
  BY <1>2, <1>4, LenProperties DEF Cut
<1>7. m <= Len(q)
  <2> SUFFICES ASSUME Len(q) < m PROVE FALSE
    BY <1>1, <1>6
  <2> DEFINE l == Len(q)
  <2>1. Len(q) < Len(kept)
    BY <1>1, <1>5, <1>6
  <2>2. l # 0 /\ q[l] \in Stars /\ \A i \in 1..l : q[i] = kept[i]
    BY <1>4, <2>1 DEF Cut
  <2>3. l \in 1..m /\ l \in 1..l
    BY <1>1, <1>6, <2>2
  <2>4. q[l] = prefix[l]
    BY <1>1, <1>5, <2>2, <2>3
  <2>5. ~IsWild(prefix[l])
    BY <2>3 DEF Plain, m
  <2> QED BY <2>2, <2>4, <2>5 DEF IsWild, Wild
<1>8. \A i \in 1..m : q[i] = prefix[i]
  <2>1. \A i \in 1..m : i \in 1..Len(q)
    BY <1>1, <1>6, <1>7
  <2> QED BY <1>1, <1>4, <1>5, <2>1 DEF Cut
<1> QED BY <1>7, <1>8 DEF Begins, m, q

(* The parts of a path without `//' are its segments.                      *)
LEMMA CleanParts ==
  ASSUME NEW path \in Seq(Segs), CleanPath(path)
  PROVE  /\ Len(ParsePattern(path)) <= Len(path)
         /\ \A i \in 1..Len(ParsePattern(path)) : ParsePattern(path)[i] = path[i]
<1> DEFINE T == Range(path) \ {Empty}
           kept == Filter(path, T)
           q == ParsePattern(path)
           n == Len(path)
           m == IF n = 0 THEN 0 ELSE n - 1
           L == Len(kept)
<1>1. /\ n \in Nat /\ m \in 0..n /\ DOMAIN path = 1..n
      /\ n = 0 => m = 0
      /\ n # 0 => m = n - 1
  BY LenProperties
<1>2. PICK g : kept \in Seq(Segs) /\ Picks(g, kept, path, n, T)
  BY FilterPicks
<1>3. Leads(path, T, m)
  <2>1. \A i \in 1..m : i \in 1..n /\ i \in 1..n - 1
    BY <1>1
  <2>2. \A i \in 1..n - 1 : path[i] # Empty
    BY DEF CleanPath
  <2> QED BY <1>1, <2>1, <2>2 DEF Range, Leads
<1>4. Cut(q, kept)
  BY ParseIs
<1> HIDE DEF kept, T, q, m, n
<1>5. m <= L /\ \A i \in 1..m : g[i] = i /\ kept[i] = path[i]
  <2>1. Led(g, kept, path, m)
    BY <1>1, <1>2, <1>3, FilterStart
  <2> QED BY <2>1 DEF Led
<1>6. /\ L \in Nat /\ \A i \in 1..L : g[i] \in 1..n /\ kept[i] = path[g[i]]
      /\ \A i, j \in 1..L : i < j => g[i] < g[j]
  BY <1>2 DEF Picks
<1> HIDE DEF L
<1>7. ASSUME NEW i \in 1..L PROVE i <= n /\ kept[i] = path[i]
  <2>1. CASE i <= m
    <3>1. i \in 1..m
      BY <1>1, <1>6, <2>1
    <3> QED BY <1>1, <1>5, <3>1
  <2>2. CASE ~(i <= m)
    <3>1. g[i] \in 1..n /\ kept[i] = path[g[i]]
      BY <1>6
    <3>2. n # 0 /\ m = n - 1
      BY <1>1, <3>1
    <3>3. g[i] = n
      <4>1. CASE m = 0
        BY <1>1, <3>1, <3>2, <4>1
      <4>2. CASE m # 0
        <5>1. m \in 1..m /\ m \in 1..L /\ m < i /\ i \in 1..L
          BY <1>1, <1>5, <1>6, <2>2, <4>2
        <5>2. g[m] = m /\ g[m] < g[i]
          BY <1>5, <1>6, <5>1
        <5> QED BY <1>1, <3>1, <3>2, <5>2
      <4> QED BY <4>1, <4>2
    <3>4. i = n
      <4> SUFFICES ASSUME i # n PROVE FALSE
        OBVIOUS
      <4>1. n \in 1..L /\ n < i
        BY <1>1, <1>6, <2>2, <3>2
      <4>2. g[n] < g[i] /\ g[n] \in 1..n
        BY <1>6, <4>1
      <4>3. CASE m = 0
        BY <1>1, <3>2, <3>3, <4>2, <4>3
      <4>4. CASE m # 0
        <5>1. m \in 1..m /\ m \in 1..L /\ m < n
          BY <1>1, <1>5, <1>6, <3>2, <4>4
        <5>2. g[m] = m /\ g[m] < g[n]
          BY <1>5, <1>6, <4>1, <5>1
        <5> QED BY <1>1, <3>2, <3>3, <4>2, <5>2
      <4> QED BY <4>3, <4>4
    <3> QED BY <1>1, <3>1, <3>3, <3>4
  <2> QED BY <2>1, <2>2
<1>8. Len(q) \in Nat /\ Len(q) <= L /\ \A i \in 1..Len(q) : q[i] = kept[i]
  BY <1>4 DEF Cut, L
<1>9. Len(q) <= n
  <2>1. CASE Len(q) = 0
    BY <1>1, <2>1
  <2>2. CASE Len(q) # 0
    <3>1. Len(q) \in 1..L
      BY <1>6, <1>8, <2>2
    <3> QED BY <1>7, <3>1
  <2> QED BY <2>1, <2>2
<1>10. \A i \in 1..Len(q) : q[i] = path[i]
  <2>1. \A i \in 1..Len(q) : i \in 1..L
    BY <1>6, <1>8
  <2> QED BY <1>7, <1>8, <2>1
<1> QED BY <1>9, <1>10 DEF q, n

LEMMA TextFollows ==
  ASSUME NEW prefix \in Seq(Segs), Plain(prefix), NEW pattern \in Seq(Segs),
         Begins(prefix, pattern), NEW path \in Seq(Segs), CleanPath(path), Fits(pattern, path)
  PROVE  HasPrefix(path, prefix)
<1> DEFINE ps == ParsePattern(pattern)
           ss == ParsePattern(path)
           m == Len(prefix)
<1>1. /\ m \in Nat /\ Len(ps) \in Nat /\ Len(ss) \in Nat /\ Len(path) \in Nat
  BY Parsed, LenProperties
<1>2. m <= Len(ps) /\ \A i \in 1..m : ps[i] = prefix[i]
  BY PlainParts DEF Begins
<1>3. Len(ss) <= Len(path) /\ \A i \in 1..Len(ss) : ss[i] = path[i]
  BY CleanParts
<1>4. Len(ps) <= Len(ss) /\ \A i \in 1..Len(ps) : ps[i] = ss[i] \/ IsWild(ps[i])
  BY FitsIs DEF FitsParts
<1> HIDE DEF ps, ss
<1>5. m <= Len(path)
  BY <1>1, <1>2, <1>3, <1>4
<1>6. ASSUME NEW i \in 1..m PROVE path[i] = prefix[i]
  <2>1. i \in 1..Len(ps) /\ i \in 1..Len(ss)
    BY <1>1, <1>2, <1>4
  <2>2. ~IsWild(prefix[i]) /\ ps[i] = prefix[i]
    BY <1>2 DEF Plain
  <2> QED BY <1>3, <1>4, <2>1, <2>2
<1> HIDE DEF m
<1>7. m > 0 => prefix[m] = path[m]
  <2>1. m > 0 => m \in 1..m
    BY <1>1
  <2> QED BY <1>6, <2>1
<1>8. \A i \in 1..m - 1 : path[i] = prefix[i]
  BY <1>1, <1>6
<1> QED BY <1>5, <1>7, <1>8 DEF HasPrefix, m

-----------------------------------------------------------------------------
(* A request that is served.                                               *)

(* A step that starts no function, and does not move the index or moves it *)
(* to the end.                                                             *)
LEMMA ServedSame ==
  ASSUME ServedInv, phase = "busy", UNCHANGED <<table, request, chain, started>>,
         Len(chain) \in Nat, index' = index \/ index' = Len(chain)
  PROVE  ServedInv'
<1>1. /\ request \in Requests
      /\ chain = Append(Middlewares(request[2]), Handler(request[1], request[2]))
      /\ InTurn
  BY DEF ServedInv
<1>2. /\ Middlewares(request[2])' = Middlewares(request[2])
      /\ Handler(request[1], request[2])' = Handler(request[1], request[2])
  <2>1. UNCHANGED <<groups, roots, handlers, request>>
    BY DEF table
  <2>2. Middlewares(request[2])' = Middlewares(request[2])
    BY <2>1 DEF Middlewares
  <2>3. Handler(request[1], request[2])' = Handler(request[1], request[2])
    BY <2>1 DEF Handler, NotFoundHandler, Func
  <2> QED BY <2>2, <2>3
<1>3. InTurn'
  BY <1>1 DEF InTurn
<1> QED BY <1>1, <1>2, <1>3 DEF ServedInv

LEMMA CallNextTurn ==
  ASSUME GInv, ServedInv, phase = "busy", CallNext
  PROVE  ServedInv'
<1>1. index \in Nat /\ Len(chain) \in Nat \ {0}
  BY Busy
<1>2. /\ index' = index + 1 /\ UNCHANGED <<table, request, chain, phase>>
      /\ IF index' < Len(chain) THEN started' = Append(started, index' + 1)
         ELSE UNCHANGED started
  BY DEF CallNext
<1>3. /\ request \in Requests
      /\ chain = Append(Middlewares(request[2]), Handler(request[1], request[2]))
      /\ InTurn
  BY DEF ServedInv
<1>4. InTurn'
  <2>1. CASE index' < Len(chain)
    <3> DEFINE n == Len(started)
               s == started'
    <3>1. n = index' /\ started \in Seq(Nat) /\ n \in Nat
      <4>1. index < Len(chain) /\ index + 1 = index'
        BY <1>1, <1>2, <2>1
      <4>2. n = index + 1 /\ started \in Seq(Nat)
        BY <1>3, <4>1 DEF InTurn
      <4> QED BY <1>1, <1>2, <4>2
    <3>2. s = Append(started, n + 1)
      BY <1>2, <2>1, <3>1
    <3>3. \A i \in 1..n : started[i] = i
      BY <1>3 DEF InTurn
    <3> HIDE DEF n, s
    <3>4. n = Len(started) /\ n + 1 \in Nat
      BY <3>1 DEF n
    <3>5. /\ s \in Seq(Nat) /\ Len(s) = n + 1 /\ s[n + 1] = n + 1
          /\ \A i \in 1..n : s[i] = started[i]
      BY <3>1, <3>2, <3>4, AppendProperties
    <3>6. ASSUME NEW i \in 1..n + 1 PROVE s[i] = i
      <4>1. CASE i = n + 1
        BY <3>5, <4>1
      <4>2. CASE i # n + 1
        <5>1. n \in Nat
          BY <3>1
        <5>2. i \in 1..n
          BY <4>2, <5>1
        <5> QED BY <3>3, <3>5, <5>2
      <4> QED BY <4>1, <4>2
    <3>7. n + 1 <= Len(chain) /\ n + 1 = index' + 1
      BY <1>1, <1>2, <2>1, <3>1
    <3> QED BY <1>2, <3>5, <3>6, <3>7 DEF InTurn, s
  <2>2. CASE ~(index' < Len(chain))
    BY <1>2, <1>3, <2>2 DEF InTurn
  <2> QED BY <2>1, <2>2
<1>5. /\ Middlewares(request[2])' = Middlewares(request[2])
      /\ Handler(request[1], request[2])' = Handler(request[1], request[2])
  <2>1. UNCHANGED <<groups, roots, handlers, request>>
    BY <1>2 DEF table
  <2>2. Middlewares(request[2])' = Middlewares(request[2])
    BY <2>1 DEF Middlewares
  <2>3. Handler(request[1], request[2])' = Handler(request[1], request[2])
    BY <2>1 DEF Handler, NotFoundHandler, Func
  <2> QED BY <2>2, <2>3
<1> QED BY <1>2, <1>3, <1>4, <1>5 DEF ServedInv

LEMMA ServeHTTPTurn ==
  ASSUME GInv, NEW r \in Requests, ServeHTTP(r)
  PROVE  ServedInv'
<1>1. /\ request' = r /\ index' = 0 /\ started' = <<1>> /\ UNCHANGED table
      /\ chain' = Append(Middlewares(r[2]), Handler(r[1], r[2]))
  BY DEF ServeHTTP
<1>2. GInv' /\ phase' = "busy"
  BY ServeHTTPKeeps DEF Good, ServeHTTP
<1>3. Len(chain') \in Nat \ {0}
  BY <1>2 DEF GInv, BusyInv, Chained
<1>4. InTurn'
  <2>1. <<1>> \in Seq(Nat) /\ Len(<<1>>) = 1 /\ <<1>>[1] = 1
    OBVIOUS
  <2> QED BY <1>1, <1>3, <2>1 DEF InTurn
<1>5. /\ Middlewares(request[2])' = Middlewares(r[2])
      /\ Handler(request[1], request[2])' = Handler(r[1], r[2])
  <2>1. UNCHANGED <<groups, roots, handlers>>
    BY <1>1 DEF table
  <2>2. Middlewares(request[2])' = Middlewares(r[2])
    BY <1>1, <2>1 DEF Middlewares
  <2>3. Handler(request[1], request[2])' = Handler(r[1], r[2])
    BY <1>1, <2>1 DEF Handler, NotFoundHandler, Func
  <2> QED BY <2>2, <2>3
<1> QED BY <1>1, <1>4, <1>5 DEF ServedInv

LEMMA NextTurn ==
  ASSUME GInv, ServedInv, [Next]_vars
  PROVE  ServedInv'
<1> DEFINE Still == /\ phase = "busy" /\ UNCHANGED <<table, request, chain, started>>
                    /\ index' = index \/ index' = Len(chain)
<1>1. CASE Setup
  <2>1. phase' # "busy"
    BY <1>1 DEF Setup, Group, Use, Route, Static, AddRoute, Run
  <2> QED BY <2>1 DEF ServedInv
<1>2. ASSUME NEW r \in Requests, ServeHTTP(r) PROVE ServedInv'
  BY <1>2, ServeHTTPTurn
<1>3. CASE MiddlewareNext \/ UserNext
  BY <1>3, CallNextTurn DEF MiddlewareNext, UserNext, Running
<1>4. ASSUME Still PROVE ServedInv'
  <2>1. Len(chain) \in Nat
    BY <1>4, Busy
  <2> QED BY <1>4, <2>1, ServedSame
<1>5. CASE UserFatal \/ UserPanic
  <2>1. Still
    BY <1>5 DEF UserFatal, UserPanic, Fatal, Running, ctx
  <2> QED BY <1>4, <2>1
<1>6. ASSUME NEW code, Write(code) \/ \E encodable \in BOOLEAN : Encode(code, encodable)
      PROVE  ServedInv'
  <2>1. Still
    BY <1>6 DEF Write, Encode, Fatal, Running, ctx
  <2> QED BY <1>4, <2>1
<1>7. CASE Return \/ ServeFile \/ ServeNotFound \/ Unwind
  <2>1. Still
    BY <1>7 DEF Return, ServeFile, ServeNotFound, Unwind, Fatal, Running, ctx
  <2> QED BY <1>4, <2>1
<1>8. CASE Finish
  BY <1>8 DEF Finish, ServedInv
<1>9. CASE UNCHANGED vars
  <2>1. CASE phase = "busy"
    <3>1. Still
      BY <1>9, <2>1 DEF vars, ctx
    <3> QED BY <1>4, <3>1
  <2>2. CASE phase # "busy"
    BY <1>9, <2>2 DEF vars, ServedInv
  <2> QED BY <2>1, <2>2
<1> HIDE DEF Still
<1> QED BY <1>1, <1>2, <1>3, <1>5, <1>6, <1>7, <1>8, <1>9 DEF Next, Serve, User

(* The groups whose middlewares come first: those whose prefixes begin the *)
(* pattern that answers.                                                   *)
LEMMA GroupsAround ==
  ASSUME GInv, RInv, NEW r \in Requests, CleanPath(r[2]), NoneDiverted(PatternsOf(r[1])),
         NEW f, f = Handler(r[1], r[2]), f.kind \in {"route", "static"},
         NEW g, g = registered[f.of].group, StaticPrefix(g),
         NEW up \in Lineage[g]
  PROVE  up \in 1..Len(groups) /\ HasPrefix(r[2], groups[up].prefix)
<1> DEFINE method == r[1]
           path == r[2]
           pattern == GetRoute(roots[method], path)
<1>1. method \in Methods /\ path \in Seq(Segs)
  <2>1. r \in Methods \X Paths
    BY EngineAssumption
  <2> QED BY <2>1, Strings
<1>2. f = IF pattern = << >> THEN NotFoundHandler ELSE handlers[<<method, pattern>>]
  BY DEF Handler
<1>3. CleanPath(path) /\ NoneDiverted(PatternsOf(method))
  OBVIOUS
<1> HIDE DEF method, path
<1>4. pattern # << >>
  BY <1>2 DEF NotFoundHandler, Func
<1>5. /\ <<method, pattern>> \in DOMAIN handlers
      /\ pattern \in Seq(Segs) /\ Fits(pattern, path)
  BY <1>1, <1>3, <1>4, FoundIsHeld, FoundFits
<1> HIDE DEF pattern
<1>6. f = handlers[<<method, pattern>>]
  BY <1>2, <1>4
<1>7. f.of \in 1..Len(registered) /\ registered[f.of].pattern = pattern
  <2> DEFINE key == <<method, pattern>>
  <2>1. LastEntry(registered, handlers[key].of, key[1], key[2])
    BY <1>5 DEF RInv, HandlersInv
  <2>2. key[2] = pattern /\ handlers[key] = f
    BY <1>6
  <2> HIDE DEF key
  <2> QED BY <2>1, <2>2 DEF LastEntry
<1>8. g \in 1..Len(groups) /\ Begins(groups[g].prefix, pattern)
  BY <1>7 DEF RInv, EntriesInv
<1>9. up \in 1..Len(groups) /\ Begins(groups[up].prefix, groups[g].prefix)
  BY <1>8, LineageBegins DEF GInv, RInv
<1> DEFINE p == groups[up].prefix
           q == groups[g].prefix
<1>10. p \in Seq(Segs) /\ q \in Seq(Segs)
  BY <1>8, <1>9 DEF RInv, GroupsNest
<1>11. Begins(p, q) /\ Begins(q, pattern)
  BY <1>8, <1>9
<1>12. Plain(q)
  <2>1. DOMAIN q = 1..Len(q)
    BY <1>10, LenProperties
  <2> QED BY <2>1 DEF StaticPrefix, Plain
<1> HIDE DEF p, q
<1>13. Begins(p, pattern)
  BY <1>5, <1>10, <1>11, BeginsTransitive, LenProperties
<1>14. Plain(p)
  <2>1. Len(p) \in Nat /\ Len(q) \in Nat
    BY <1>10, LenProperties
  <2>2. \A i \in 1..Len(p) : i \in 1..Len(q) /\ q[i] = p[i]
    BY <1>11, <2>1 DEF Begins
  <2> QED BY <1>12, <2>2 DEF Plain
<1>15. HasPrefix(path, p)
  BY <1>1, <1>3, <1>5, <1>10, <1>13, <1>14, TextFollows
<1> QED BY <1>9, <1>15 DEF p, path

LEMMA MiddlewareFirstNow ==
  ASSUME GInv, RInv, ServedInv
  PROVE  GroupMiddlewareFirst
<1> SUFFICES ASSUME phase = "busy", CleanPath(request[2]),
                    NoneDiverted(PatternsOf(request[1])),
                    NEW j \in DOMAIN started,
                    NEW f, f = chain[started[j]],
                    NEW g, g = registered[f.of].group,
                    f.kind \in {"route", "static"}, StaticPrefix(g),
                    NEW up \in Lineage[g], NEW mw \in Range(groups[up].middlewares)
             PROVE  \E i \in 1..j - 1 : chain[started[i]] = mw
  BY DEF GroupMiddlewareFirst
<1> DEFINE path == request[2]
           mws == Middlewares(path)
           n == Len(mws)
           h == Handler(request[1], path)
<1>1. request \in Requests /\ chain = Append(mws, h) /\ InTurn
  BY DEF ServedInv
<1>2. GroupsInv /\ Chained(chain)
  BY Busy
<1>3. mws \in Seq(Mws) /\ n \in Nat
  BY <1>2, MiddlewaresOfGroups, LenProperties
<1> HIDE DEF mws, h, path
<1>4. Len(chain) = n + 1 /\ chain[n + 1] = h /\ \A i \in 1..n : chain[i] = mws[i]
  <2> DEFINE S == Mws \cup {h}
  <2>1. mws \in Seq(S) /\ h \in S
    BY <1>3
  <2> HIDE DEF S
  <2> QED BY <1>1, <1>3, <2>1, AppendProperties
<1> HIDE DEF n
<1>5. /\ Len(started) \in Nat /\ Len(started) <= n + 1 /\ DOMAIN started = 1..Len(started)
      /\ \A i \in 1..Len(started) : started[i] = i
  BY <1>1, <1>4, LenProperties DEF InTurn
<1>6. j \in 1..n + 1 /\ started[j] = j /\ \A i \in 1..j - 1 : started[i] = i
  <2>1. j \in 1..Len(started)
    BY <1>5
  <2>2. \A i \in 1..j - 1 : i \in 1..Len(started)
    BY <1>5, <2>1
  <2> QED BY <1>3, <1>5, <2>1, <2>2
<1>7. j = n + 1
  <2> SUFFICES ASSUME j # n + 1 PROVE FALSE
    OBVIOUS
  <2>1. j \in 1..Len(chain) - 1
    BY <1>3, <1>4, <1>6
  <2>2. chain[j].kind \in {"logger", "recovery", "user"} /\ f = chain[j]
    BY <1>2, <1>6, <2>1 DEF Chained
  <2> QED BY <2>2
<1>8. f = h
  BY <1>4, <1>6, <1>7
<1>9. up \in 1..Len(groups) /\ HasPrefix(path, groups[up].prefix)
  BY <1>1, <1>8, GroupsAround DEF h, path
<1>10. PICK k \in 1..Len(groups[up].middlewares) : groups[up].middlewares[k] = mw
  <2>1. groups[up].middlewares \in Seq(Mws)
    BY <1>2, <1>9 DEF GroupsInv
  <2> QED BY <2>1, LenProperties DEF Range
<1>11. PICK i \in 1..n : mws[i] = mw
  BY <1>2, <1>9, <1>10, MiddlewaresInclude DEF mws, n
<1>12. i \in 1..j - 1
  BY <1>3, <1>7
<1> QED BY <1>4, <1>6, <1>11, <1>12

(* The functions of a chain are those that ServeHTTP and the router put    *)
(* into it, and start one after the other (gee.go:54-70, context.go, Next). *)
THEOREM Serving == Spec => []ServedInv
<1>1. Init => ServedInv
  BY DEF Init, ServedInv
<1>2. GInv /\ ServedInv /\ [Next]_vars => ServedInv'
  BY NextTurn
<1> QED BY <1>1, <1>2, Invariance, PTL DEF Spec

(* A handler starts after the middlewares of its group and of all groups   *)
(* around it, for any nesting, any patterns and any path without `//',     *)
(* although groups are found by the text of the path and the handler by    *)
(* its parts (gee.go:54-70, router.go:100-116).                            *)
THEOREM MiddlewareFirst == Spec => []GroupMiddlewareFirst
BY Invariance, Routing, Serving, MiddlewareFirstNow, PTL
=============================================================================
