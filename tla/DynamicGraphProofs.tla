------------------------- MODULE DynamicGraphProofs -------------------------
(***************************************************************************)
(* Theorems about DynamicGraph and GraphUpdate, for every number of        *)
(* vertices and edges, every sequence of calls and every way in which a    *)
(* call can throw.                                                         *)
(*                                                                         *)
(* First what sorting returns, then what each call does to the host, to    *)
(* the trees and to the graph that the host describes.                     *)
(***************************************************************************)
EXTENDS GraphUpdate, WeightedDigraphProofs, SequenceTheorems

-----------------------------------------------------------------------------
(***************************************************************************)
(* Sorting.                                                                *)
(***************************************************************************)
Pair == Int \X Int

LEMMA PrecedesOrders ==
  /\ \A p \in Pair : ~ Precedes(p, p)
  /\ \A p, q, r \in Pair : Precedes(p, q) /\ Precedes(q, r) => Precedes(p, r)
  /\ \A p, q \in Pair : Precedes(p, q) \/ Precedes(q, p) \/ p = q
<1>1. \A p \in Pair : p = <<p[1], p[2]>> /\ p[1] \in Int /\ p[2] \in Int
  BY DEF Pair
<1>2. \A p \in Pair : ~ Precedes(p, p)
  BY <1>1 DEF Precedes
<1>3. \A p, q, r \in Pair : Precedes(p, q) /\ Precedes(q, r) => Precedes(p, r)
  BY <1>1 DEF Precedes
<1>4. ASSUME NEW p \in Pair, NEW q \in Pair, ~ Precedes(p, q), ~ Precedes(q, p) PROVE p = q
  <2>1. p[1] = q[1] /\ p[2] = q[2]
    BY <1>1, <1>4 DEF Precedes
  <2> QED BY <1>1, <2>1
<1> QED BY <1>2, <1>3, <1>4

IsKey(S, key) == IsFiniteSet(S) /\ key \in [S -> Pair] /\ \A x, y \in S : key[x] = key[y] => x = y

\* The elements that come before the i-th are i - 1.
LEMMA RankFacts ==
  ASSUME NEW S, NEW key, IsKey(S, key)
  PROVE  /\ Cardinality(S) \in Nat
         /\ \A x \in S : Rank(S, key, x) \in 0 .. Cardinality(S) - 1
         /\ \A x, y \in S : Precedes(key[x], key[y]) => Rank(S, key, x) < Rank(S, key, y)
         /\ \A x, y \in S : Rank(S, key, x) = Rank(S, key, y) => x = y
         /\ \A i \in 1 .. Cardinality(S) : \E x \in S : Rank(S, key, x) = i - 1
<1> DEFINE n == Cardinality(S)
           Ahead(x) == {y \in S : Precedes(key[y], key[x])}
           r == [x \in S |-> Rank(S, key, x)]
<1>0. n \in Nat /\ IsFiniteSet(S) /\ \A x \in S : key[x] \in Pair
  BY FS_CardinalityType DEF IsKey
<1>1. ASSUME NEW A \in SUBSET S PROVE IsFiniteSet(A) /\ Cardinality(A) \in Nat
  BY <1>0, FS_Subset, FS_CardinalityType
<1>2. ASSUME NEW B \in SUBSET S, NEW A \in SUBSET B, A # B
      PROVE  Cardinality(A) < Cardinality(B)
  BY <1>1, <1>2, FS_Subset
<1>3. \A x \in S : Rank(S, key, x) = Cardinality(Ahead(x)) /\ Ahead(x) \in SUBSET S /\ x \notin Ahead(x)
  BY <1>0, PrecedesOrders DEF Rank
<1>4. ASSUME NEW x \in S PROVE Rank(S, key, x) \in 0 .. n - 1
  <2>1. Ahead(x) \in SUBSET S /\ Ahead(x) # S
    BY <1>3
  <2> HIDE DEF Ahead
  <2>2. Cardinality(Ahead(x)) < n /\ Cardinality(Ahead(x)) \in Nat
    BY <1>1, <1>2, <2>1
  <2> QED BY <1>0, <1>3, <2>2
<1>5. ASSUME NEW x \in S, NEW y \in S, Precedes(key[x], key[y]) PROVE Rank(S, key, x) < Rank(S, key, y)
  <2>1. Ahead(x) \subseteq Ahead(y) /\ x \in Ahead(y) /\ x \notin Ahead(x) /\ Ahead(y) \in SUBSET S
    BY <1>0, <1>5, PrecedesOrders
  <2> HIDE DEF Ahead
  <2> QED BY <1>2, <1>3, <2>1
<1>6. ASSUME NEW x \in S, NEW y \in S, Rank(S, key, x) = Rank(S, key, y) PROVE x = y
  <2>1. ~ Precedes(key[x], key[y]) /\ ~ Precedes(key[y], key[x])
    BY <1>4, <1>5, <1>6
  <2> QED BY <1>0, <2>1, PrecedesOrders DEF IsKey
<1>7. r \in Injection(S, 0 .. n - 1)
  BY <1>4, <1>6 DEF Injection, IsInjective
<1>8. IsFiniteSet(0 .. n - 1) /\ Cardinality(0 .. n - 1) = n
  <2>1. 0 \in Int /\ n - 1 \in Int /\ (IF 0 > n - 1 THEN 0 ELSE n - 1 - 0 + 1) = n
    BY <1>0
  <2> QED BY <2>1, FS_Interval
<1>9. r \in Surjection(S, 0 .. n - 1)
  <2> HIDE DEF r
  <2> QED BY <1>7, <1>8, FS_Injection
<1>10. ASSUME NEW i \in 1 .. n PROVE \E x \in S : Rank(S, key, x) = i - 1
  <2>1. i - 1 \in 0 .. n - 1
    BY <1>0
  <2> QED BY <1>9, <2>1 DEF Surjection
<1> QED BY <1>0, <1>4, <1>5, <1>6, <1>10

\* What SortedBy returns: every element once, in order.
LEMMA SortedFacts ==
  ASSUME NEW S, NEW key, IsKey(S, key), NEW s, s = SortedBy(S, key)
  PROVE  /\ Cardinality(S) \in Nat /\ s \in [1 .. Cardinality(S) -> S]
         /\ \A x \in S : \E i \in 1 .. Cardinality(S) : s[i] = x
         /\ \A i, j \in 1 .. Cardinality(S) : i < j => Precedes(key[s[i]], key[s[j]])
         /\ \A i, j \in 1 .. Cardinality(S) : s[i] = s[j] => i = j
<1> DEFINE n == Cardinality(S)
<1>1. s = [i \in 1 .. n |-> CHOOSE x \in S : Rank(S, key, x) = i - 1]
  BY DEF SortedBy
<1>2. /\ n \in Nat
      /\ \A x \in S : Rank(S, key, x) \in 0 .. n - 1
      /\ \A x, y \in S : Precedes(key[x], key[y]) => Rank(S, key, x) < Rank(S, key, y)
      /\ \A x, y \in S : Rank(S, key, x) = Rank(S, key, y) => x = y
      /\ \A i \in 1 .. n : \E x \in S : Rank(S, key, x) = i - 1
  BY RankFacts
<1> HIDE DEF n
<1>3. \A i \in 1 .. n : s[i] \in S /\ Rank(S, key, s[i]) = i - 1
  BY <1>1, <1>2
<1>4. s \in [1 .. n -> S]
  BY <1>1, <1>3
<1>5. ASSUME NEW x \in S PROVE \E i \in 1 .. n : s[i] = x
  <2>1. Rank(S, key, x) + 1 \in 1 .. n /\ Rank(S, key, x) + 1 - 1 = Rank(S, key, x)
    BY <1>2
  <2>2. s[Rank(S, key, x) + 1] = x
    BY <1>2, <1>3, <2>1
  <2> QED BY <2>1, <2>2
<1>6. ASSUME NEW i \in 1 .. n, NEW j \in 1 .. n, i < j PROVE Precedes(key[s[i]], key[s[j]])
  <2>1. Rank(S, key, s[i]) = i - 1 /\ Rank(S, key, s[j]) = j - 1 /\ s[i] \in S /\ s[j] \in S
    BY <1>3
  <2>2. ~ (Rank(S, key, s[j]) < Rank(S, key, s[i])) /\ s[i] # s[j]
    BY <1>2, <1>6, <2>1
  <2>3. key[s[i]] # key[s[j]] /\ key[s[i]] \in Pair /\ key[s[j]] \in Pair
    BY <2>1, <2>2 DEF IsKey
  <2> QED BY <1>2, <2>1, <2>2, <2>3, PrecedesOrders
<1>7. \A i, j \in 1 .. n : s[i] = s[j] => i = j
  BY <1>2, <1>3
<1> QED BY <1>2, <1>4, <1>5, <1>6, <1>7 DEF n

\* There is one way to list a set in order.
LEMMA SortedUnique ==
  ASSUME NEW S, NEW key, IsKey(S, key), NEW n \in Nat, NEW s \in [1 .. n -> S],
         \A x \in S : \E i \in 1 .. n : s[i] = x,
         \A i, j \in 1 .. n : i < j => Precedes(key[s[i]], key[s[j]])
  PROVE  s = SortedBy(S, key)
<1>0. \A x \in S : key[x] \in Pair
  BY DEF IsKey
<1>1. \A i, j \in 1 .. n : s[i] = s[j] => i = j
  <2> SUFFICES ASSUME NEW i \in 1 .. n, NEW j \in 1 .. n, s[i] = s[j], i # j PROVE FALSE
    OBVIOUS
  <2>1. i < j \/ j < i
    OBVIOUS
  <2> QED BY <1>0, <2>1, PrecedesOrders
<1>2. ASSUME NEW T, NEW m \in Nat, NEW f \in [1 .. m -> T], \A x \in T : \E i \in 1 .. m : f[i] = x,
             \A i, j \in 1 .. m : f[i] = f[j] => i = j
      PROVE  Cardinality(T) = m
  <2>1. f \in Bijection(1 .. m, T)
    BY <1>2 DEF Bijection, Injection, Surjection, IsInjective
  <2>2. IsFiniteSet(1 .. m) /\ Cardinality(1 .. m) = m
    <3>1. 1 \in Int /\ m \in Int /\ (IF 1 > m THEN 0 ELSE m - 1 + 1) = m
      OBVIOUS
    <3> QED BY <3>1, FS_Interval
  <2>3. ExistsBijection(1 .. m, T)
    BY <2>1 DEF ExistsBijection
  <2> QED BY <2>2, <2>3, FS_Bijection
<1>3. Cardinality(S) = n
  BY <1>1, <1>2
<1>4. ASSUME NEW i \in 1 .. n PROVE Rank(S, key, s[i]) = i - 1
  <2> DEFINE A == {y \in S : Precedes(key[y], key[s[i]])}
             f == [j \in 1 .. i - 1 |-> s[j]]
  <2>1. i - 1 \in Nat /\ \A j \in 1 .. i - 1 : j \in 1 .. n /\ j < i
    OBVIOUS
  <2>2. f \in [1 .. i - 1 -> A]
    BY <2>1
  <2>3. ASSUME NEW x \in A PROVE \E j \in 1 .. i - 1 : f[j] = x
    <3>1. PICK j \in 1 .. n : s[j] = x
      OBVIOUS
    <3>2. Precedes(key[s[j]], key[s[i]]) /\ key[s[j]] \in Pair /\ key[s[i]] \in Pair
      BY <1>0, <2>3, <3>1
    <3>3. ~ (i < j) /\ i # j
      BY <3>2, PrecedesOrders
    <3>4. j \in 1 .. i - 1
      BY <3>3
    <3> QED BY <3>1, <3>4
  <2>4. \A j, k \in 1 .. i - 1 : f[j] = f[k] => j = k
    BY <1>1, <2>1
  <2> HIDE DEF f, A
  <2>5. Cardinality(A) = i - 1
    BY <1>2, <2>1, <2>2, <2>3, <2>4
  <2> QED BY <2>5 DEF A, Rank
<1>5. ASSUME NEW i \in 1 .. n PROVE (CHOOSE x \in S : Rank(S, key, x) = i - 1) = s[i]
  <2>1. \A x \in S : Rank(S, key, x) = i - 1 => x = s[i]
    BY <1>4, RankFacts
  <2> QED BY <1>4, <2>1
<1> QED BY <1>3, <1>5 DEF SortedBy

LEMMA AscendingFacts ==
  ASSUME NEW S \in SUBSET Int, IsFiniteSet(S), NEW s, s = Ascending(S)
  PROVE  /\ Cardinality(S) \in Nat /\ s \in [1 .. Cardinality(S) -> S]
         /\ \A x \in S : \E i \in 1 .. Cardinality(S) : s[i] = x
         /\ \A i, j \in 1 .. Cardinality(S) : i < j => s[i] < s[j]
         /\ \A i, j \in 1 .. Cardinality(S) : s[i] = s[j] => i = j
<1> DEFINE key == [x \in S |-> <<x, 0>>]
<1>1. IsKey(S, key)
  BY DEF IsKey, Pair
<1>2. s = SortedBy(S, key)
  BY DEF Ascending
<1>3. \A x, y \in S : Precedes(key[x], key[y]) => x < y
  BY DEF Precedes
<1> HIDE DEF key
<1>4. /\ Cardinality(S) \in Nat /\ s \in [1 .. Cardinality(S) -> S]
      /\ \A x \in S : \E i \in 1 .. Cardinality(S) : s[i] = x
      /\ \A i, j \in 1 .. Cardinality(S) : i < j => Precedes(key[s[i]], key[s[j]])
      /\ \A i, j \in 1 .. Cardinality(S) : s[i] = s[j] => i = j
  BY <1>1, <1>2, SortedFacts
<1> QED BY <1>3, <1>4

LEMMA AscendingUnique ==
  ASSUME NEW S \in SUBSET Int, IsFiniteSet(S), NEW n \in Nat, NEW s \in [1 .. n -> S],
         \A x \in S : \E i \in 1 .. n : s[i] = x,
         \A i, j \in 1 .. n : i < j => s[i] < s[j]
  PROVE  s = Ascending(S)
<1> DEFINE key == [x \in S |-> <<x, 0>>]
<1>1. IsKey(S, key)
  BY DEF IsKey, Pair
<1>2. \A x, y \in S : x < y => Precedes(key[x], key[y])
  BY DEF Precedes
<1>3. Ascending(S) = SortedBy(S, key)
  BY DEF Ascending
<1> HIDE DEF key
<1>4. \A i, j \in 1 .. n : i < j => Precedes(key[s[i]], key[s[j]])
  BY <1>2
<1> QED BY <1>1, <1>3, <1>4, SortedUnique

\* A sequence at some of its places: what stands there, in the old order.
LEMMA SiftedFacts ==
  ASSUME NEW T, NEW s \in Seq(T), NEW places \in SUBSET DOMAIN s, NEW t, t = Sifted(s, places)
  PROVE  /\ t \in Seq(T) /\ Range(t) = {s[i] : i \in places}
         /\ \A j \in DOMAIN t : \E i \in places : t[j] = s[i]
         /\ IsInjective(s) => IsInjective(t)
         /\ \A j, k \in DOMAIN t : j # k => \E a, b \in places : a # b /\ t[j] = s[a] /\ t[k] = s[b]
<1> DEFINE at == Ascending(places)
           n == Cardinality(places)
<1>1. DOMAIN s = 1 .. Len(s) /\ Len(s) \in Nat /\ \A i \in DOMAIN s : s[i] \in T
  OBVIOUS
<1>2. places \in SUBSET Int /\ IsFiniteSet(places)
  <2>1. IsFiniteSet(1 .. Len(s))
    BY <1>1, FS_Interval
  <2> QED BY <1>1, <2>1, FS_Subset
<1>3. /\ n \in Nat /\ at \in [1 .. n -> places]
      /\ \A x \in places : \E i \in 1 .. n : at[i] = x
      /\ \A i, j \in 1 .. n : at[i] = at[j] => i = j
  BY <1>2, AscendingFacts
<1>4. t = [j \in DOMAIN at |-> s[at[j]]]
  BY DEF Sifted
<1> HIDE DEF at, n
<1>5. DOMAIN t = 1 .. n /\ \A j \in 1 .. n : t[j] = s[at[j]] /\ at[j] \in places /\ t[j] \in T
  BY <1>1, <1>3, <1>4
<1>6. t \in Seq(T)
  BY <1>3, <1>4, <1>5
<1>7. Range(t) = {s[i] : i \in places}
  BY <1>3, <1>5 DEF Range
<1>8. IsInjective(s) => IsInjective(t)
  BY <1>3, <1>5 DEF IsInjective
<1> QED BY <1>3, <1>5, <1>6, <1>7, <1>8

\* A row that values are appended to.
LEMMA AppendedRow ==
  ASSUME NEW T, NEW s \in Seq(T), NEW t \in Seq(T), NEW n \in Nat, n <= Len(t)
  PROVE  /\ s \o SubSeq(t, 1, n) \in Seq(T)
         /\ n = Len(t) => Range(s \o SubSeq(t, 1, n)) = Range(s) \cup Range(t)
         /\ n = Len(t) /\ IsInjective(s) /\ IsInjective(t) /\ Range(s) \cap Range(t) = {} =>
              IsInjective(s \o SubSeq(t, 1, n))
<1> DEFINE u == SubSeq(t, 1, n)
           w == s \o u
<1>0. /\ Len(s) \in Nat /\ DOMAIN s = 1 .. Len(s) /\ Len(t) \in Nat /\ DOMAIN t = 1 .. Len(t)
      /\ \A i \in 1 .. n : t[i] \in T
  OBVIOUS
<1>1. u \in Seq(T) /\ Len(u) = n /\ \A i \in 1 .. n : u[i] = t[i]
  <2>1. 1 \in Int /\ n \in Int /\ n - 1 + 1 = n /\ \A i \in 1 .. n : 1 + i - 1 = i
    OBVIOUS
  <2>2. u \in Seq(T) /\ Len(u) = (IF 1 <= n THEN n - 1 + 1 ELSE 0) /\ \A i \in 1 .. n - 1 + 1 : u[i] = t[1 + i - 1]
    BY <1>0, <2>1, SubSeqProperties
  <2> QED BY <2>1, <2>2
<1> HIDE DEF u
<1>2. /\ w \in Seq(T) /\ Len(w) = Len(s) + n /\ DOMAIN w = 1 .. Len(s) + n
      /\ \A i \in 1 .. Len(s) + n : w[i] = IF i <= Len(s) THEN s[i] ELSE u[i - Len(s)]
  BY <1>1, ConcatProperties
<1> HIDE DEF w
<1>3. /\ \A i \in 1 .. Len(s) : i \in 1 .. Len(s) + n /\ w[i] = s[i]
      /\ \A i \in 1 .. n : Len(s) + i \in 1 .. Len(s) + n /\ w[Len(s) + i] = t[i]
  BY <1>0, <1>1, <1>2
<1>4. \A i \in 1 .. Len(s) + n : i \in 1 .. Len(s) \/ (i - Len(s) \in 1 .. n /\ i = Len(s) + (i - Len(s)))
  BY <1>0
<1>5. n = Len(t) => Range(w) = Range(s) \cup Range(t)
  <2> SUFFICES ASSUME n = Len(t) PROVE Range(w) = Range(s) \cup Range(t)
    OBVIOUS
  <2>1. Range(w) = {w[i] : i \in 1 .. Len(s) + n} /\ Range(s) = {s[i] : i \in 1 .. Len(s)} /\ Range(t) = {t[i] : i \in 1 .. n}
    BY <1>0, <1>2 DEF Range
  <2>2. ASSUME NEW i \in 1 .. Len(s) + n PROVE w[i] \in Range(s) \cup Range(t)
    BY <1>3, <1>4, <2>1
  <2>3. \A x \in Range(s) \cup Range(t) : x \in Range(w)
    BY <1>3, <2>1
  <2> QED BY <2>1, <2>2, <2>3
<1>6. ASSUME n = Len(t), IsInjective(s), IsInjective(t), Range(s) \cap Range(t) = {} PROVE IsInjective(w)
  <2> SUFFICES ASSUME NEW i \in 1 .. Len(s) + n, NEW j \in 1 .. Len(s) + n, w[i] = w[j] PROVE i = j
    BY <1>2 DEF IsInjective
  <2>1. \A a \in 1 .. Len(s) : \A b \in 1 .. n : s[a] # t[b]
    BY <1>0, <1>6 DEF Range
  <2>2. \A a, b \in 1 .. Len(s) : s[a] = s[b] => a = b
    BY <1>0, <1>6 DEF IsInjective
  <2>3. \A a, b \in 1 .. n : t[a] = t[b] => a = b
    BY <1>0, <1>6 DEF IsInjective
  <2>4. CASE i \in 1 .. Len(s) /\ j \in 1 .. Len(s)
    BY <1>3, <2>2, <2>4
  <2>5. CASE i \in 1 .. Len(s) /\ j - Len(s) \in 1 .. n /\ j = Len(s) + (j - Len(s))
    BY <1>3, <2>1, <2>5
  <2>6. CASE j \in 1 .. Len(s) /\ i - Len(s) \in 1 .. n /\ i = Len(s) + (i - Len(s))
    BY <1>3, <2>1, <2>6
  <2>7. CASE i - Len(s) \in 1 .. n /\ i = Len(s) + (i - Len(s)) /\ j - Len(s) \in 1 .. n /\ j = Len(s) + (j - Len(s))
    <3>1. t[i - Len(s)] = t[j - Len(s)]
      BY <1>3, <2>7
    <3>2. i - Len(s) = j - Len(s)
      BY <2>3, <2>7, <3>1
    <3> QED BY <1>0, <3>2
  <2> QED BY <1>4, <2>4, <2>5, <2>6, <2>7
<1> QED BY <1>2, <1>5, <1>6 DEF w, u

-----------------------------------------------------------------------------
(***************************************************************************)
(* What the host keeps.  Shadows and MapSound hold whatever was inserted;  *)
(* the map leads to every edge as long as no two edges have the same ends. *)
(***************************************************************************)
EdgeMeta == [src : Node, dst : Node, weight : 1 .. MaxWeight]

Insertion == [edge : Int \X Int, weight : 1 .. MaxWeight]

Ends(id) == <<meta[id].src, meta[id].dst>>

HostTypeOK ==
  /\ DOMAIN meta \in SUBSET Nat /\ IsFiniteSet(DOMAIN meta) /\ meta \in [DOMAIN meta -> EdgeMeta]
  /\ DOMAIN idOf \in SUBSET (Node \X Node) /\ idOf \in [DOMAIN idOf -> DOMAIN meta]
  /\ outShadow \in [Node -> SUBSET DOMAIN meta] /\ inShadow \in [Node -> SUBSET DOMAIN meta]

Shadows ==
  \A v \in Node : /\ outShadow[v] = {id \in DOMAIN meta : meta[id].src = v}
                  /\ inShadow[v] = {id \in DOMAIN meta : meta[id].dst = v}

MapSound == \A e \in DOMAIN idOf : idOf[e] \in DOMAIN meta /\ Ends(idOf[e]) = e

HostInv == HostTypeOK /\ Shadows /\ MapSound

Complete == DOMAIN idOf = {Ends(id) : id \in DOMAIN meta} /\ NoParallelEdges

\* No edge twice in a batch.
EdgeOnce(batch) == \A i, j \in DOMAIN batch : batch[i].edge = batch[j].edge => i = j

\* The graph that the host describes.
HostGraph == [e \in DOMAIN idOf |-> meta[idOf[e]].weight]

\* The new ids of a vertex, those of the insertions with that end.
At(batch, place, v, end) == {place[i] : i \in {j \in DOMAIN batch : batch[j].edge[end] = v}}

LEMMA Greatest ==
  ASSUME NEW n \in Nat, NEW S \in SUBSET (1 .. n), S # {}
  PROVE  \E x \in S : \A y \in S : y <= x
<1> DEFINE T == {n - x : x \in S}
<1>0. \A x \in S : x \in 1 .. n /\ n - x \in Nat
  OBVIOUS
<1>1. T \in SUBSET Nat /\ T # {}
  BY <1>0
<1>2. PICK t \in T : \A y \in T : t <= y
  BY <1>1, LeastNatural
<1>3. PICK x \in S : t = n - x
  OBVIOUS
<1>4. \A y \in S : n - x <= n - y
  BY <1>2, <1>3
<1> QED BY <1>4

LEMMA BatchFacts ==
  ASSUME NEW batch \in Seq(Insertion)
  PROVE  /\ Len(batch) \in Nat /\ DOMAIN batch = 1 .. Len(batch) /\ IsFiniteSet(DOMAIN batch)
         /\ \A i \in DOMAIN batch :
              /\ batch[i].edge = <<batch[i].edge[1], batch[i].edge[2]>>
              /\ batch[i].weight \in 1 .. MaxWeight
              /\ InRange(batch[i].edge) => /\ batch[i].edge[1] \in Node /\ batch[i].edge[2] \in Node
                                           /\ batch[i].edge \in Node \X Node /\ AsMeta(batch[i]) \in EdgeMeta
<1>1. Len(batch) \in Nat /\ DOMAIN batch = 1 .. Len(batch) /\ \A i \in DOMAIN batch : batch[i] \in Insertion
  OBVIOUS
<1>2. IsFiniteSet(1 .. Len(batch))
  BY <1>1, FS_Interval
<1>3. ASSUME NEW i \in DOMAIN batch
      PROVE  /\ batch[i].edge = <<batch[i].edge[1], batch[i].edge[2]>>
             /\ batch[i].weight \in 1 .. MaxWeight
             /\ InRange(batch[i].edge) => /\ batch[i].edge[1] \in Node /\ batch[i].edge[2] \in Node
                                          /\ batch[i].edge \in Node \X Node /\ AsMeta(batch[i]) \in EdgeMeta
  <2>1. batch[i].edge \in Int \X Int /\ batch[i].weight \in 1 .. MaxWeight
    BY <1>1 DEF Insertion
  <2>2. batch[i].edge = <<batch[i].edge[1], batch[i].edge[2]>>
    BY <2>1
  <2>3. InRange(batch[i].edge) => batch[i].edge[1] \in Node /\ batch[i].edge[2] \in Node
    BY DEF InRange
  <2>4. InRange(batch[i].edge) => batch[i].edge \in Node \X Node
    BY <2>2, <2>3
  <2>5. InRange(batch[i].edge) => AsMeta(batch[i]) \in EdgeMeta
    BY <2>1, <2>3 DEF AsMeta, EdgeMeta
  <2> QED BY <2>1, <2>2, <2>3, <2>4, <2>5
<1> QED BY <1>1, <1>2, <1>3

\* The keys of new records are new and distinct.
LEMMA PlaceFacts ==
  ASSUME RecordsKept, NEW batch \in Seq(Insertion), NEW place \in Edges!Placements(DOMAIN batch)
  PROVE  /\ DOMAIN place = DOMAIN batch /\ place \in Seq(Nat) /\ Len(place) = Len(batch) /\ IsInjective(place)
         /\ Range(place) = {place[i] : i \in DOMAIN batch}
         /\ \A i \in DOMAIN batch : place[i] \in Nat /\ place[i] \notin DOMAIN edgeRows /\ place[i] \notin DOMAIN meta
         /\ \A i \in DOMAIN batch : (CHOOSE j \in DOMAIN place : place[j] = place[i]) = i
<1>1. Len(batch) \in Nat /\ DOMAIN batch = 1 .. Len(batch)
  BY BatchFacts
<1>2. /\ place \in [DOMAIN batch -> Edges!Key \ DOMAIN edgeRows]
      /\ \A i, j \in DOMAIN batch : place[i] = place[j] => i = j
  BY DEF Edges!Placements
<1>3. Edges!Key \in SUBSET Nat
  BY GraphsAssumption DEF Edges!Key
<1>4. \A i \in DOMAIN batch : place[i] \in Nat /\ place[i] \notin DOMAIN edgeRows /\ place[i] \notin DOMAIN meta
  BY <1>2, <1>3 DEF RecordsKept
<1>5. DOMAIN place = DOMAIN batch /\ place \in [1 .. Len(batch) -> Nat]
  BY <1>1, <1>2, <1>4
<1>6. place \in Seq(Nat) /\ Len(place) = Len(batch)
  BY <1>1, <1>5
<1> QED BY <1>2, <1>4, <1>5, <1>6 DEF IsInjective, Range

\* Adopting the keys of a batch.
LEMMA AdoptHost ==
  ASSUME HostInv, RecordsKept, NEW batch \in Seq(Insertion), Insertable(batch),
         NEW place \in Edges!Placements(DOMAIN batch), Adopt(batch, place)
  PROVE  /\ HostInv'
         /\ DOMAIN meta' = DOMAIN meta \cup Range(place)
         /\ \A id \in DOMAIN meta : meta'[id] = meta[id]
         /\ \A i \in DOMAIN batch : meta'[place[i]] = AsMeta(batch[i])
         /\ DOMAIN idOf' = DOMAIN idOf \cup {batch[i].edge : i \in DOMAIN batch}
         /\ \A e \in DOMAIN idOf : idOf'[e] = idOf[e]
         /\ EdgeOnce(batch) => \A i \in DOMAIN batch : idOf'[batch[i].edge] = place[i]
         /\ \A v \in Node : /\ outShadow'[v] = outShadow[v] \cup At(batch, place, v, 1)
                            /\ inShadow'[v] = inShadow[v] \cup At(batch, place, v, 2)
<1> DEFINE given == Range(place)
           edges == {batch[i].edge : i \in DOMAIN batch}
           last(e) == CHOOSE i \in DOMAIN batch : batch[i].edge = e /\ \A j \in DOMAIN batch : batch[j].edge = e => j <= i
           at(v, end) == At(batch, place, v, end)
<1>0. /\ HostTypeOK /\ Shadows /\ MapSound
      /\ \A i \in DOMAIN batch : /\ batch[i].edge = <<batch[i].edge[1], batch[i].edge[2]>>
                                 /\ batch[i].edge[1] \in Node /\ batch[i].edge[2] \in Node
                                 /\ batch[i].edge \in Node \X Node /\ batch[i].edge \notin DOMAIN idOf
                                 /\ AsMeta(batch[i]) \in EdgeMeta
                                 /\ AsMeta(batch[i]).src = batch[i].edge[1] /\ AsMeta(batch[i]).dst = batch[i].edge[2]
      /\ Len(batch) \in Nat /\ DOMAIN batch = 1 .. Len(batch) /\ IsFiniteSet(DOMAIN batch)
  BY BatchFacts DEF HostInv, Insertable, AlreadyThere, AsMeta
<1>1. /\ DOMAIN place = DOMAIN batch /\ given = {place[i] : i \in DOMAIN batch}
      /\ \A i \in DOMAIN batch : place[i] \in Nat /\ place[i] \notin DOMAIN meta
      /\ \A i \in DOMAIN batch : (CHOOSE j \in DOMAIN place : place[j] = place[i]) = i
      /\ \A i, j \in DOMAIN batch : place[i] = place[j] => i = j
  BY PlaceFacts DEF IsInjective
<1>2. /\ meta' = [id \in DOMAIN meta \cup {place[i] : i \in DOMAIN place} |->
                    IF id \in {place[i] : i \in DOMAIN place}
                    THEN AsMeta(batch[CHOOSE j \in DOMAIN place : place[j] = id]) ELSE meta[id]]
      /\ idOf' = [e \in DOMAIN idOf \cup edges |-> IF e \in DOMAIN idOf THEN idOf[e] ELSE place[last(e)]]
      /\ outShadow' = [v \in Node |-> outShadow[v] \cup at(v, 1)]
      /\ inShadow' = [v \in Node |-> inShadow[v] \cup at(v, 2)]
  BY DEF Adopt, At
<1> HIDE DEF given, edges, last, at
<1>3. /\ DOMAIN meta' = DOMAIN meta \cup given
      /\ \A id \in DOMAIN meta : meta'[id] = meta[id]
      /\ \A i \in DOMAIN batch : meta'[place[i]] = AsMeta(batch[i])
  BY <1>1, <1>2
<1>4. ASSUME NEW i \in DOMAIN batch
      PROVE  /\ last(batch[i].edge) \in DOMAIN batch /\ batch[last(batch[i].edge)].edge = batch[i].edge
  <2> DEFINE S == {j \in DOMAIN batch : batch[j].edge = batch[i].edge}
  <2>1. PICK x \in S : \A y \in S : y <= x
    BY <1>0, Greatest
  <2> QED BY <2>1 DEF last
<1>5. DOMAIN idOf' = DOMAIN idOf \cup edges /\ \A e \in DOMAIN idOf : idOf'[e] = idOf[e]
  BY <1>2
<1>6. \A i \in DOMAIN batch : idOf'[batch[i].edge] = place[last(batch[i].edge)]
  BY <1>0, <1>2 DEF edges
<1>7. \A v \in Node : outShadow'[v] = outShadow[v] \cup at(v, 1) /\ inShadow'[v] = inShadow[v] \cup at(v, 2)
  BY <1>2
<1>8. \A v \in Node : at(v, 1) \in SUBSET given /\ at(v, 2) \in SUBSET given
  BY <1>1 DEF at, At
<1>9. HostTypeOK'
  <2>1. IsFiniteSet(given) /\ given \in SUBSET Nat
    <3>1. place \in Surjection(DOMAIN batch, given)
      BY <1>1 DEF Surjection, Edges!Placements
    <3> QED BY <1>0, <1>1, <3>1, FS_Surjection
  <2>2. DOMAIN meta' \in SUBSET Nat /\ IsFiniteSet(DOMAIN meta')
    <3>1. IsFiniteSet(DOMAIN meta) /\ DOMAIN meta \in SUBSET Nat
      BY <1>0 DEF HostTypeOK
    <3>2. IsFiniteSet(DOMAIN meta \cup given)
      BY ONLY <2>1, <3>1, FS_Union
    <3> QED BY <1>3, <2>1, <3>1, <3>2
  <2>3. \A id \in DOMAIN meta' : meta'[id] \in EdgeMeta
    BY <1>0, <1>1, <1>3 DEF HostTypeOK
  <2>4. meta' \in [DOMAIN meta' -> EdgeMeta]
    BY <1>2, <2>3
  <2>5. DOMAIN idOf' \in SUBSET (Node \X Node)
    BY <1>0, <1>5 DEF HostTypeOK, edges
  <2>6. ASSUME NEW e \in DOMAIN idOf' PROVE idOf'[e] \in DOMAIN meta'
    <3>1. CASE e \in DOMAIN idOf
      BY <1>0, <1>3, <1>5, <3>1 DEF HostTypeOK
    <3>2. CASE e \in edges
      <4>1. PICK i \in DOMAIN batch : e = batch[i].edge
        BY <3>2 DEF edges
      <4> QED BY <1>1, <1>3, <1>4, <1>6, <4>1
    <3> QED BY <1>5, <3>1, <3>2
  <2>7. idOf' \in [DOMAIN idOf' -> DOMAIN meta']
    BY <1>2, <2>6
  <2>8. outShadow' \in [Node -> SUBSET DOMAIN meta'] /\ inShadow' \in [Node -> SUBSET DOMAIN meta']
    BY <1>0, <1>2, <1>3, <1>8 DEF HostTypeOK
  <2> QED BY <2>2, <2>4, <2>5, <2>7, <2>8 DEF HostTypeOK
<1>10. Shadows'
  <2> SUFFICES ASSUME NEW v \in Node
               PROVE  /\ outShadow'[v] = {id \in DOMAIN meta' : meta'[id].src = v}
                      /\ inShadow'[v] = {id \in DOMAIN meta' : meta'[id].dst = v}
    BY DEF Shadows
  <2>1. /\ outShadow[v] = {id \in DOMAIN meta : meta[id].src = v}
        /\ inShadow[v] = {id \in DOMAIN meta : meta[id].dst = v}
    BY <1>0 DEF Shadows
  <2>2. /\ at(v, 1) = {place[i] : i \in {j \in DOMAIN batch : batch[j].edge[1] = v}}
        /\ at(v, 2) = {place[i] : i \in {j \in DOMAIN batch : batch[j].edge[2] = v}}
    BY DEF at, At
  <2>3. at(v, 1) = {id \in given : meta'[id].src = v}
    BY <1>0, <1>1, <1>3, <2>2
  <2>4. at(v, 2) = {id \in given : meta'[id].dst = v}
    BY <1>0, <1>1, <1>3, <2>2
  <2> QED BY <1>3, <1>7, <2>1, <2>3, <2>4
<1>11. MapSound'
  <2> SUFFICES ASSUME NEW e \in DOMAIN idOf'
               PROVE  idOf'[e] \in DOMAIN meta' /\ <<meta'[idOf'[e]].src, meta'[idOf'[e]].dst>> = e
    BY DEF MapSound, Ends
  <2>1. CASE e \in DOMAIN idOf
    BY <1>0, <1>3, <1>5, <2>1 DEF MapSound, Ends
  <2>2. CASE e \in edges
    <3>1. PICK i \in DOMAIN batch : e = batch[i].edge
      BY <2>2 DEF edges
    <3>2. PICK k \in DOMAIN batch : k = last(e) /\ batch[k].edge = e
      BY <1>4, <3>1
    <3>3. idOf'[e] = place[k] /\ meta'[place[k]] = AsMeta(batch[k]) /\ place[k] \in DOMAIN meta'
      BY <1>1, <1>3, <1>6, <3>1, <3>2
    <3> QED BY <1>0, <3>2, <3>3
  <2> QED BY <1>5, <2>1, <2>2
<1>12. ASSUME EdgeOnce(batch), NEW i \in DOMAIN batch PROVE idOf'[batch[i].edge] = place[i]
  <2>1. last(batch[i].edge) = i
    BY <1>4, <1>12 DEF EdgeOnce
  <2> QED BY <1>6, <2>1
<1> QED BY <1>3, <1>5, <1>7, <1>9, <1>10, <1>11, <1>12 DEF HostInv, given, edges, at

\* Forgetting edges that the map leads to.
LEMMA ForgetHost ==
  ASSUME HostInv, NEW gone, gone \subseteq Range(idOf), Forget(gone)
  PROVE  /\ HostInv' /\ gone \subseteq DOMAIN meta
         /\ DOMAIN meta' = DOMAIN meta \ gone /\ \A id \in DOMAIN meta' : meta'[id] = meta[id]
         /\ DOMAIN idOf' = {e \in DOMAIN idOf : idOf[e] \notin gone} /\ \A e \in DOMAIN idOf' : idOf'[e] = idOf[e]
         /\ \A v \in Node : outShadow'[v] = outShadow[v] \ gone /\ inShadow'[v] = inShadow[v] \ gone
         /\ Complete => Complete'
<1>0. HostTypeOK /\ Shadows /\ MapSound
  BY DEF HostInv
<1>1. /\ meta' = [id \in DOMAIN meta \ gone |-> meta[id]]
      /\ idOf' = [e \in {x \in DOMAIN idOf : idOf[x] \notin gone} |-> idOf[e]]
      /\ outShadow' = [v \in Node |-> outShadow[v] \ gone]
      /\ inShadow' = [v \in Node |-> inShadow[v] \ gone]
  BY DEF Forget
<1>2. gone \subseteq DOMAIN meta
  BY <1>0 DEF MapSound, Range
<1>3. /\ DOMAIN meta' = DOMAIN meta \ gone /\ \A id \in DOMAIN meta' : meta'[id] = meta[id]
      /\ DOMAIN idOf' = {e \in DOMAIN idOf : idOf[e] \notin gone} /\ \A e \in DOMAIN idOf' : idOf'[e] = idOf[e]
      /\ \A v \in Node : outShadow'[v] = outShadow[v] \ gone /\ inShadow'[v] = inShadow[v] \ gone
  BY <1>1
<1>4. HostTypeOK'
  <2>1. DOMAIN meta' \in SUBSET Nat /\ IsFiniteSet(DOMAIN meta')
    BY <1>0, <1>3, FS_Subset DEF HostTypeOK
  <2>2. meta' \in [DOMAIN meta' -> EdgeMeta]
    BY <1>0, <1>1 DEF HostTypeOK
  <2>3. DOMAIN idOf' \in SUBSET (Node \X Node) /\ idOf' \in [DOMAIN idOf' -> DOMAIN meta']
    BY <1>0, <1>1, <1>3 DEF HostTypeOK
  <2>4. outShadow' \in [Node -> SUBSET DOMAIN meta'] /\ inShadow' \in [Node -> SUBSET DOMAIN meta']
    BY <1>0, <1>1, <1>3 DEF HostTypeOK
  <2> QED BY <2>1, <2>2, <2>3, <2>4 DEF HostTypeOK
<1>5. Shadows'
  BY <1>0, <1>3 DEF Shadows
<1>6. MapSound'
  BY <1>0, <1>3 DEF MapSound, Ends
<1>7. ASSUME Complete PROVE Complete'
  <2>1. NoParallelEdges'
    BY <1>3, <1>7 DEF Complete, NoParallelEdges
  <2>2. ASSUME NEW id \in DOMAIN meta' PROVE Ends(id)' \in DOMAIN idOf'
    <3>1. Ends(id)' = Ends(id) /\ Ends(id) \in DOMAIN idOf /\ id \in DOMAIN meta \ gone
      BY <1>3, <1>7 DEF Complete, Ends
    <3>2. idOf[Ends(id)] = id
      <4>1. idOf[Ends(id)] \in DOMAIN meta /\ Ends(idOf[Ends(id)]) = Ends(id)
        BY <1>0, <3>1 DEF MapSound
      <4> QED BY <1>7, <3>1, <4>1 DEF Complete, NoParallelEdges, Ends
    <3> QED BY <1>3, <3>1, <3>2
  <2>3. \A e \in DOMAIN idOf' : \E id \in DOMAIN meta' : e = Ends(id)'
    BY <1>6 DEF MapSound
  <2> QED BY <2>1, <2>2, <2>3 DEF Complete
<1> QED BY <1>2, <1>3, <1>4, <1>5, <1>6, <1>7 DEF HostInv
-----------------------------------------------------------------------------
(***************************************************************************)
(* The rows in the trees.                                                  *)
(***************************************************************************)
Rows == [1 .. N -> Seq(Nat)]

TreesOK == outRows \in Rows /\ inRows \in Rows

LEMMA KeyOfVertex ==
  /\ \A v \in Node : VertexKey(v) \in 1 .. N /\ VertexKey(v) - 1 = v
  /\ \A k \in 1 .. N : k - 1 \in Node /\ VertexKey(k - 1) = k
BY NodesAssumption DEF Node, VertexKey

LEMMA AddsFacts ==
  ASSUME RecordsKept, NEW batch \in Seq(Insertion), Insertable(batch),
         NEW place \in Edges!Placements(DOMAIN batch), NEW end \in {1, 2},
         NEW adds, adds = Adds(batch, place, end)
  PROVE  /\ DOMAIN adds \subseteq 1 .. N
         /\ \A k \in DOMAIN adds : /\ adds[k] \in Seq(Nat) /\ IsInjective(adds[k])
                                   /\ Range(adds[k]) = At(batch, place, k - 1, end)
         /\ \A v \in Node : VertexKey(v) \notin DOMAIN adds => At(batch, place, v, end) = {}
<1> DEFINE at(v) == {i \in DOMAIN batch : batch[i].edge[end] = v}
           vertices == {batch[i].edge[end] : i \in DOMAIN batch}
<1>1. /\ place \in Seq(Nat) /\ DOMAIN place = DOMAIN batch /\ IsInjective(place)
      /\ \A i \in DOMAIN batch : batch[i].edge[end] \in Node
  BY PlaceFacts, BatchFacts DEF Insertable
<1>2. adds = [k \in {VertexKey(v) : v \in vertices} |-> Sifted(place, at(k - 1))]
  BY DEF Adds
<1>3. DOMAIN adds = {VertexKey(v) : v \in vertices}
  BY <1>2
<1>4. \A k \in DOMAIN adds : k \in 1 .. N /\ k - 1 \in Node
  BY <1>1, <1>3, KeyOfVertex
<1>5. ASSUME NEW k \in DOMAIN adds
      PROVE adds[k] \in Seq(Nat) /\ IsInjective(adds[k]) /\ Range(adds[k]) = At(batch, place, k - 1, end)
  <2> DEFINE places == at(k - 1)
             t == adds[k]
  <2>1. places \in SUBSET DOMAIN place /\ t = Sifted(place, places)
    BY <1>1, <1>2, <1>3
  <2>2. At(batch, place, k - 1, end) = {place[i] : i \in places}
    BY DEF At
  <2> HIDE DEF places, t
  <2>3. t \in Seq(Nat) /\ IsInjective(t) /\ Range(t) = {place[i] : i \in places}
    BY ONLY <1>1, <2>1, SiftedFacts
  <2> QED BY <2>2, <2>3 DEF t
<1>6. ASSUME NEW v \in Node, VertexKey(v) \notin DOMAIN adds PROVE At(batch, place, v, end) = {}
  <2>1. v \notin vertices
    BY <1>3, <1>6
  <2> QED BY <2>1 DEF At
<1> QED BY <1>4, <1>5, <1>6

\* What a fill leaves, whether or not it gets to its end.
LEMMA GrownRows ==
  ASSUME NEW rows \in Rows, NEW adds, \A k \in DOMAIN adds : adds[k] \in Seq(Nat),
         NEW got, \A k \in DOMAIN adds : got[k] \in Nat /\ got[k] <= Len(adds[k]),
         NEW new, new = [k \in DOMAIN rows |->
                           IF k \in DOMAIN adds THEN rows[k] \o SubSeq(adds[k], 1, got[k]) ELSE rows[k]]
  PROVE  new \in Rows
<1>1. \A k \in 1 .. N : rows[k] \in Seq(Nat) /\ DOMAIN rows = 1 .. N
  BY DEF Rows
<1>2. ASSUME NEW k \in 1 .. N PROVE new[k] \in Seq(Nat)
  <2>1. CASE k \in DOMAIN adds
    BY <1>1, <2>1, AppendedRow
  <2>2. CASE k \notin DOMAIN adds
    BY <1>1, <2>2
  <2> QED BY <2>1, <2>2
<1> QED BY <1>1, <1>2 DEF Rows

LEMMA FilledRow ==
  ASSUME RecordsKept, NEW batch \in Seq(Insertion), Insertable(batch),
         NEW place \in Edges!Placements(DOMAIN batch), NEW end \in {1, 2}, NEW v \in Node,
         NEW row \in Seq(Nat), Range(row) \subseteq DOMAIN meta, IsInjective(row),
         NEW t, t = Adds(batch, place, end)[VertexKey(v)],
         VertexKey(v) \in DOMAIN Adds(batch, place, end)
  PROVE  /\ Range(row \o SubSeq(t, 1, Len(t))) = Range(row) \cup At(batch, place, v, end)
         /\ IsInjective(row \o SubSeq(t, 1, Len(t)))
<1>1. VertexKey(v) - 1 = v
  BY KeyOfVertex
<1> DEFINE adds == Adds(batch, place, end)
           key == VertexKey(v)
<1>2. \A j \in DOMAIN adds : /\ adds[j] \in Seq(Nat) /\ IsInjective(adds[j])
                             /\ Range(adds[j]) = At(batch, place, j - 1, end)
  BY AddsFacts
<1>3. t = adds[key] /\ key \in DOMAIN adds /\ key - 1 = v
  BY <1>1
<1> HIDE DEF adds, key
<1>4. t \in Seq(Nat) /\ IsInjective(t) /\ Range(t) = At(batch, place, v, end)
  BY <1>2, <1>3
<1>5. At(batch, place, v, end) \cap DOMAIN meta = {}
  BY PlaceFacts DEF At
<1>6. Len(t) \in Nat /\ Len(t) <= Len(t) /\ Range(row) \cap Range(t) = {}
  BY <1>4, <1>5
<1> QED BY <1>4, <1>6, AppendedRow

\* What an unfill leaves.
Unfilled(rows, removes) ==
  [k \in DOMAIN rows |->
     IF k \in DOMAIN removes
     THEN Sifted(rows[k], {i \in DOMAIN rows[k] : rows[k][i] \notin removes[k]})
     ELSE rows[k]]

LEMMA UnfilledRows ==
  ASSUME NEW gone, NEW side, NEW rows \in Rows, NEW new, new = Unfilled(rows, Removes(gone, side))
  PROVE  /\ new \in Rows
         /\ \A v \in Node : Range(rows[VertexKey(v)]) = side[v] /\ IsInjective(rows[VertexKey(v)]) =>
              Range(new[VertexKey(v)]) = side[v] \ gone /\ IsInjective(new[VertexKey(v)])
<1> DEFINE removes == Removes(gone, side)
<1>0. new = [k \in DOMAIN rows |->
               IF k \in DOMAIN removes
               THEN Sifted(rows[k], {i \in DOMAIN rows[k] : rows[k][i] \notin removes[k]})
               ELSE rows[k]]
  BY DEF Unfilled
<1>1. DOMAIN rows = 1 .. N /\ \A k \in 1 .. N : rows[k] \in Seq(Nat)
  BY DEF Rows
<1>2. /\ removes = [k \in {VertexKey(v) : v \in {x \in Node : side[x] \cap gone # {}}} |-> side[k - 1] \cap gone]
      /\ DOMAIN removes = {VertexKey(v) : v \in {x \in Node : side[x] \cap gone # {}}}
  BY DEF Removes
<1> HIDE DEF removes
<1>3. ASSUME NEW k \in 1 .. N
      PROVE  /\ new[k] \in Seq(Nat)
             /\ k \in DOMAIN removes => Range(new[k]) = Range(rows[k]) \ removes[k]
             /\ k \notin DOMAIN removes => new[k] = rows[k]
             /\ IsInjective(rows[k]) => IsInjective(new[k])
  <2>1. CASE k \in DOMAIN removes
    <3> DEFINE places == {i \in DOMAIN rows[k] : rows[k][i] \notin removes[k]}
               s == rows[k]
               t == new[k]
    <3>1. t = Sifted(s, places) /\ s \in Seq(Nat) /\ places \in SUBSET DOMAIN s
      BY <1>0, <1>1, <2>1
    <3>2. {s[i] : i \in places} = Range(s) \ removes[k]
      BY DEF Range
    <3> HIDE DEF places, s, t
    <3>3. t \in Seq(Nat) /\ Range(t) = {s[i] : i \in places} /\ (IsInjective(s) => IsInjective(t))
      BY ONLY <3>1, SiftedFacts
    <3> QED BY <2>1, <3>2, <3>3 DEF s, t
  <2>2. CASE k \notin DOMAIN removes
    BY <1>0, <1>1, <2>2
  <2> QED BY <2>1, <2>2
<1>4. new \in Rows
  BY <1>0, <1>1, <1>3 DEF Rows
<1>5. ASSUME NEW v \in Node, Range(rows[VertexKey(v)]) = side[v], IsInjective(rows[VertexKey(v)])
      PROVE  Range(new[VertexKey(v)]) = side[v] \ gone /\ IsInjective(new[VertexKey(v)])
  <2>1. VertexKey(v) \in 1 .. N /\ VertexKey(v) - 1 = v
    BY KeyOfVertex
  <2>2. CASE VertexKey(v) \in DOMAIN removes
    <3>1. removes[VertexKey(v)] = side[v] \cap gone
      BY <1>2, <2>1, <2>2
    <3> QED BY <1>3, <1>5, <2>1, <2>2, <3>1
  <2>3. CASE VertexKey(v) \notin DOMAIN removes
    <3>1. side[v] \cap gone = {}
      BY <1>2, <2>3
    <3>2. new[VertexKey(v)] = rows[VertexKey(v)]
      BY <1>3, <2>1, <2>3
    <3> QED BY <1>5, <3>1, <3>2
  <2> QED BY <2>2, <2>3
<1> QED BY <1>4, <1>5

\* New records under free keys, all of a batch or some.
LEMMA RecordsAdded ==
  ASSUME NEW news, NEW some, NEW place \in Edges!Placements(some), Edges!Insert(news, place)
  PROVE  /\ DOMAIN edgeRows' = DOMAIN edgeRows \cup Range(place)
         /\ \A k \in DOMAIN edgeRows : edgeRows'[k] = edgeRows[k]
         /\ \A i \in some : place[i] \notin DOMAIN edgeRows /\ edgeRows'[place[i]] = news[i]
         /\ edgeRows' = [k \in DOMAIN edgeRows' |-> edgeRows'[k]]
<1>1. /\ place \in [some -> Edges!Key \ DOMAIN edgeRows]
      /\ \A i, j \in some : place[i] = place[j] => i = j
  BY DEF Edges!Placements
<1>2. edgeRows' = [k \in DOMAIN edgeRows \cup {place[i] : i \in DOMAIN place} |->
                     IF k \in DOMAIN edgeRows THEN edgeRows[k] ELSE news[CHOOSE i \in DOMAIN place : place[i] = k]]
  BY DEF Edges!Insert
<1>3. Range(place) = {place[i] : i \in DOMAIN place}
  BY DEF Range
<1>4. ASSUME NEW i \in some PROVE (CHOOSE j \in DOMAIN place : place[j] = place[i]) = i
  BY <1>1
<1> QED BY <1>1, <1>2, <1>3, <1>4
-----------------------------------------------------------------------------
(***************************************************************************)
(* The calls.  DynamicInv holds whatever is called and whatever throws.    *)
(***************************************************************************)
DynamicInv == HostInv /\ TreesOK /\ RecordsKept /\ LockStep

\* The host is as it was.
LEMMA HostKept ==
  ASSUME UNCHANGED hostVars
  PROVE  /\ HostInv => HostInv'
         /\ Complete => Complete'
         /\ HostGraph' = HostGraph
         /\ DumpToCSR' = DumpToCSR
<1>1. meta' = meta /\ idOf' = idOf /\ outShadow' = outShadow /\ inShadow' = inShadow
  BY DEF hostVars
<1>2. HostInv => HostInv'
  BY <1>1 DEF HostInv, HostTypeOK, Shadows, MapSound, Ends
<1>3. Complete => Complete'
  BY <1>1 DEF Complete, NoParallelEdges, Ends
<1>4. HostGraph' = HostGraph
  BY <1>1 DEF HostGraph
<1>5. DumpToCSR' = DumpToCSR
  BY <1>1 DEF DumpToCSR, CsrRow
<1> QED BY <1>2, <1>3, <1>4, <1>5

\* A batch without an edge twice keeps the map complete.
LEMMA AdoptComplete ==
  ASSUME HostInv, RecordsKept, NEW batch \in Seq(Insertion), Insertable(batch), EdgeOnce(batch),
         NEW place \in Edges!Placements(DOMAIN batch), Adopt(batch, place)
  PROVE  /\ Complete => Complete'
         /\ DOMAIN HostGraph' = DOMAIN HostGraph \cup {batch[i].edge : i \in DOMAIN batch}
         /\ \A e \in DOMAIN HostGraph : HostGraph'[e] = HostGraph[e]
         /\ \A i \in DOMAIN batch : HostGraph'[batch[i].edge] = batch[i].weight
<1>1. /\ DOMAIN meta' = DOMAIN meta \cup Range(place)
      /\ \A id \in DOMAIN meta : meta'[id] = meta[id]
      /\ \A i \in DOMAIN batch : meta'[place[i]] = AsMeta(batch[i])
      /\ DOMAIN idOf' = DOMAIN idOf \cup {batch[i].edge : i \in DOMAIN batch}
      /\ \A e \in DOMAIN idOf : idOf'[e] = idOf[e]
      /\ \A i \in DOMAIN batch : idOf'[batch[i].edge] = place[i]
  BY AdoptHost
<1>2. /\ Range(place) = {place[i] : i \in DOMAIN batch}
      /\ \A i \in DOMAIN batch : place[i] \notin DOMAIN meta
  BY PlaceFacts
<1>3. \A e \in DOMAIN idOf : idOf[e] \in DOMAIN meta
  BY DEF HostInv, MapSound
<1>4. /\ \A i \in DOMAIN batch : /\ batch[i].edge = <<batch[i].edge[1], batch[i].edge[2]>>
                                 /\ batch[i].edge \notin DOMAIN idOf
  BY BatchFacts DEF Insertable, AlreadyThere
<1>5. \A id \in DOMAIN meta : Ends(id)' = Ends(id)
  BY <1>1 DEF Ends
<1>a. ASSUME NEW i \in DOMAIN batch
      PROVE  /\ meta'[place[i]].src = batch[i].edge[1] /\ meta'[place[i]].dst = batch[i].edge[2]
             /\ meta'[place[i]].weight = batch[i].weight
  <2>1. meta'[place[i]] = AsMeta(batch[i])
    BY <1>1
  <2>2. /\ AsMeta(batch[i]).src = batch[i].edge[1] /\ AsMeta(batch[i]).dst = batch[i].edge[2]
        /\ AsMeta(batch[i]).weight = batch[i].weight
    BY DEF AsMeta
  <2> QED BY ONLY <2>1, <2>2
<1>6. ASSUME NEW i \in DOMAIN batch PROVE Ends(place[i])' = batch[i].edge
  <2>1. Ends(place[i])' = <<batch[i].edge[1], batch[i].edge[2]>>
    BY <1>a DEF Ends
  <2> QED BY <1>4, <2>1
<1>7. ASSUME Complete PROVE Complete'
  <2>1. \A id \in DOMAIN meta : Ends(id) \in DOMAIN idOf
    BY <1>7 DEF Complete
  <2>2. ASSUME NEW a \in DOMAIN meta', NEW b \in DOMAIN meta', Ends(a)' = Ends(b)' PROVE a = b
    <3>1. CASE a \in DOMAIN meta /\ b \in DOMAIN meta
      BY <1>5, <1>7, <2>2, <3>1 DEF Complete, NoParallelEdges, Ends
    <3>2. CASE a \in DOMAIN meta /\ b \in Range(place)
      BY <1>2, <1>4, <1>5, <1>6, <2>1, <2>2, <3>2
    <3>3. CASE a \in Range(place) /\ b \in DOMAIN meta
      BY <1>2, <1>4, <1>5, <1>6, <2>1, <2>2, <3>3
    <3>4. CASE a \in Range(place) /\ b \in Range(place)
      BY <1>2, <1>6, <2>2, <3>4 DEF EdgeOnce
    <3> QED BY <1>1, <3>1, <3>2, <3>3, <3>4
  <2>3. NoParallelEdges'
    <3> SUFFICES ASSUME NEW a \in DOMAIN meta', NEW b \in DOMAIN meta',
                        meta'[a].src = meta'[b].src, meta'[a].dst = meta'[b].dst
                 PROVE  a = b
      BY DEF NoParallelEdges
    <3>1. Ends(a)' = Ends(b)'
      BY DEF Ends
    <3> QED BY <2>2, <3>1
  <2>4. \A id \in DOMAIN meta' : Ends(id)' \in DOMAIN idOf'
    BY <1>1, <1>2, <1>5, <1>6, <2>1
  <2>5. ASSUME NEW e \in DOMAIN idOf' PROVE \E id \in DOMAIN meta' : e = Ends(id)'
    <3>1. CASE e \in DOMAIN idOf
      <4>1. PICK id \in DOMAIN meta : e = Ends(id)
        BY <1>7, <3>1 DEF Complete
      <4> QED BY <1>1, <1>5, <4>1
    <3>2. CASE e \in {batch[i].edge : i \in DOMAIN batch}
      BY <1>1, <1>2, <1>6, <3>2
    <3> QED BY <1>1, <3>1, <3>2
  <2> QED BY <2>3, <2>4, <2>5 DEF Complete
<1>8. HostGraph' = [e \in DOMAIN idOf' |-> meta'[idOf'[e]].weight]
  BY DEF HostGraph
<1>9. DOMAIN HostGraph = DOMAIN idOf /\ \A e \in DOMAIN idOf : HostGraph[e] = meta[idOf[e]].weight
  BY DEF HostGraph
<1>10. \A e \in DOMAIN HostGraph : HostGraph'[e] = HostGraph[e]
  BY <1>1, <1>3, <1>8, <1>9
<1>11. ASSUME NEW i \in DOMAIN batch PROVE HostGraph'[batch[i].edge] = batch[i].weight
  <2>1. batch[i].edge \in DOMAIN idOf' /\ idOf'[batch[i].edge] = place[i]
    BY <1>1
  <2> QED BY <1>8, <1>a, <2>1
<1> QED BY <1>1, <1>7, <1>8, <1>9, <1>10, <1>11

\* The records of a batch that was adopted.
LEMMA RecordsAdopted ==
  ASSUME HostInv, RecordsKept, NEW batch \in Seq(Insertion), Insertable(batch),
         NEW place \in Edges!Placements(DOMAIN batch), Adopt(batch, place), Edges!Insert(Records(batch), place)
  PROVE  /\ RecordsKept'
         /\ edgeRows = [id \in DOMAIN meta |-> EdgeRecord(meta[id])] =>
              edgeRows' = [id \in DOMAIN meta' |-> EdgeRecord(meta'[id])]
<1>1. /\ DOMAIN meta' = DOMAIN meta \cup Range(place)
      /\ \A id \in DOMAIN meta : meta'[id] = meta[id]
      /\ \A i \in DOMAIN batch : meta'[place[i]] = AsMeta(batch[i])
  BY AdoptHost
<1>2. /\ Range(place) = {place[i] : i \in DOMAIN batch}
  BY PlaceFacts
<1>3. /\ DOMAIN edgeRows' = DOMAIN edgeRows \cup Range(place)
      /\ \A k \in DOMAIN edgeRows : edgeRows'[k] = edgeRows[k]
      /\ \A i \in DOMAIN batch : edgeRows'[place[i]] = Records(batch)[i]
      /\ edgeRows' = [k \in DOMAIN edgeRows' |-> edgeRows'[k]]
  <2> DEFINE news == Records(batch)
             some == DOMAIN batch
  <2>1. place \in Edges!Placements(some) /\ Edges!Insert(news, place)
    OBVIOUS
  <2> HIDE DEF news, some
  <2>2. /\ DOMAIN edgeRows' = DOMAIN edgeRows \cup Range(place)
        /\ \A k \in DOMAIN edgeRows : edgeRows'[k] = edgeRows[k]
        /\ \A i \in some : place[i] \notin DOMAIN edgeRows /\ edgeRows'[place[i]] = news[i]
        /\ edgeRows' = [k \in DOMAIN edgeRows' |-> edgeRows'[k]]
    BY ONLY <2>1, RecordsAdded
  <2> QED BY <2>2 DEF news, some
<1>4. \A i \in DOMAIN batch : Records(batch)[i] = EdgeRecord(AsMeta(batch[i]))
  BY DEF Records
<1>5. ASSUME NEW id \in DOMAIN meta' PROVE id \in DOMAIN edgeRows' /\ edgeRows'[id] = EdgeRecord(meta'[id])
  <2>1. CASE id \in DOMAIN meta
    BY <1>1, <1>3, <2>1 DEF RecordsKept
  <2>2. CASE id \in Range(place)
    <3>1. PICK i \in DOMAIN batch : id = place[i]
      BY <1>2, <2>2
    <3> QED BY <1>1, <1>3, <1>4, <2>2, <3>1
  <2> QED BY <1>1, <2>1, <2>2
<1>6. RecordsKept'
  BY <1>5 DEF RecordsKept, EdgeRecord
<1>7. ASSUME edgeRows = [id \in DOMAIN meta |-> EdgeRecord(meta[id])]
      PROVE  edgeRows' = [id \in DOMAIN meta' |-> EdgeRecord(meta'[id])]
  <2>1. DOMAIN edgeRows' = DOMAIN meta'
    BY <1>1, <1>3, <1>7
  <2> QED BY <1>3, <1>5, <2>1
<1> QED BY <1>6, <1>7

LEMMA Counted ==
  ASSUME HostInv, RecordsKept
  PROVE  /\ Cardinality(DOMAIN meta) \in Nat
         /\ \A batch \in Seq(Insertion) : \A place \in Edges!Placements(DOMAIN batch) :
              Cardinality(DOMAIN meta \cup Range(place)) = Cardinality(DOMAIN meta) + Len(batch)
         /\ \A gone \in SUBSET DOMAIN meta :
              Cardinality(DOMAIN meta \ gone) = Cardinality(DOMAIN meta) - Cardinality(gone)
<1> DEFINE D == DOMAIN meta
<1>1. IsFiniteSet(D)
  BY DEF HostInv, HostTypeOK
<1>2. Cardinality(D) \in Nat
  BY <1>1, FS_CardinalityType
<1>3. ASSUME NEW batch \in Seq(Insertion), NEW place \in Edges!Placements(DOMAIN batch)
      PROVE  Cardinality(D \cup Range(place)) = Cardinality(D) + Len(batch)
  <2> DEFINE given == Range(place)
             n == Len(batch)
  <2>1. /\ DOMAIN place = 1 .. n /\ n \in Nat /\ given = {place[i] : i \in 1 .. n}
        /\ \A i, j \in 1 .. n : place[i] = place[j] => i = j
        /\ D \cap given = {}
    BY PlaceFacts, BatchFacts DEF IsInjective
  <2>2. place \in [1 .. n -> given]
    <3>1. place = [i \in 1 .. n |-> place[i]]
      BY <2>1 DEF Edges!Placements
    <3> QED BY <2>1, <3>1
  <2>3. place \in Bijection(1 .. n, given)
    BY <2>1, <2>2 DEF Bijection, Injection, Surjection, IsInjective
  <2>4. IsFiniteSet(1 .. n) /\ Cardinality(1 .. n) = n
    <3>1. 1 \in Int /\ n \in Int /\ (IF 1 > n THEN 0 ELSE n - 1 + 1) = n
      BY <2>1
    <3> QED BY <3>1, FS_Interval
  <2> HIDE DEF given, n, D
  <2>5. IsFiniteSet(given) /\ Cardinality(given) = n
    <3>1. ExistsBijection(1 .. n, given)
      BY <2>3 DEF ExistsBijection
    <3> QED BY ONLY <2>4, <3>1, <2>3, FS_Bijection, FS_Surjection DEF Bijection
  <2>6. Cardinality(D \cup given) = Cardinality(D) + Cardinality(given) - Cardinality(D \cap given)
    BY ONLY <1>1, <2>5, FS_Union
  <2>7. Cardinality(D \cap given) = 0
    BY <2>1, FS_EmptySet
  <2> QED BY <1>2, <2>1, <2>5, <2>6, <2>7 DEF given, n
<1>4. ASSUME NEW gone \in SUBSET D PROVE Cardinality(D \ gone) = Cardinality(D) - Cardinality(gone)
  <2>1. D \cap gone = gone
    OBVIOUS
  <2>2. Cardinality(D \ gone) = Cardinality(D) - Cardinality(D \cap gone)
    BY <1>1, FS_Difference
  <2> QED BY <2>1, <2>2
<1> QED BY <1>2, <1>3, <1>4
\* The trees after the fills of an insertion, whole or in part.
LEMMA FilledTrees ==
  ASSUME HostInv, TreesOK, RecordsKept, NEW batch \in Seq(Insertion), Insertable(batch),
         NEW place \in Edges!Placements(DOMAIN batch)
  PROVE  /\ Out!Fill(Adds(batch, place, 1)) => outRows' \in Rows
         /\ Out!FillPart(Adds(batch, place, 1)) => outRows' \in Rows
         /\ In!Fill(Adds(batch, place, 2)) => inRows' \in Rows
         /\ In!FillPart(Adds(batch, place, 2)) => inRows' \in Rows
<1> DEFINE outAdds == Adds(batch, place, 1)
           inAdds == Adds(batch, place, 2)
<1>1. \A k \in DOMAIN outAdds : outAdds[k] \in Seq(Nat)
  <2>1. 1 \in {1, 2}
    OBVIOUS
  <2> QED BY <2>1, AddsFacts
<1>2. \A k \in DOMAIN inAdds : inAdds[k] \in Seq(Nat)
  <2>1. 2 \in {1, 2}
    OBVIOUS
  <2> QED BY <2>1, AddsFacts
<1> HIDE DEF outAdds, inAdds
<1>3. outRows \in Rows /\ inRows \in Rows
  BY DEF TreesOK
<1>4. ASSUME NEW adds, \A k \in DOMAIN adds : adds[k] \in Seq(Nat)
      PROVE  \A k \in DOMAIN adds : Len(adds[k]) \in Nat /\ Len(adds[k]) <= Len(adds[k])
  BY <1>4
<1>5. ASSUME Out!Fill(outAdds) PROVE outRows' \in Rows
  <2> DEFINE got == [k \in DOMAIN outAdds |-> Len(outAdds[k])]
  <2>1. outRows' = [k \in DOMAIN outRows |->
                      IF k \in DOMAIN outAdds THEN outRows[k] \o SubSeq(outAdds[k], 1, got[k]) ELSE outRows[k]]
    BY <1>5 DEF Out!Fill, Out!Grown, Out!Whole
  <2>2. \A k \in DOMAIN outAdds : got[k] \in Nat /\ got[k] <= Len(outAdds[k])
    BY <1>1, <1>4
  <2> HIDE DEF got
  <2> QED BY ONLY <1>1, <1>3, <2>1, <2>2, GrownRows
<1>6. ASSUME In!Fill(inAdds) PROVE inRows' \in Rows
  <2> DEFINE got == [k \in DOMAIN inAdds |-> Len(inAdds[k])]
  <2>1. inRows' = [k \in DOMAIN inRows |->
                      IF k \in DOMAIN inAdds THEN inRows[k] \o SubSeq(inAdds[k], 1, got[k]) ELSE inRows[k]]
    BY <1>6 DEF In!Fill, In!Grown, In!Whole
  <2>2. \A k \in DOMAIN inAdds : got[k] \in Nat /\ got[k] <= Len(inAdds[k])
    BY <1>2, <1>4
  <2> HIDE DEF got
  <2> QED BY ONLY <1>2, <1>3, <2>1, <2>2, GrownRows
<1>7. ASSUME NEW adds, \A k \in DOMAIN adds : adds[k] \in Seq(Nat),
             NEW got \in [DOMAIN adds -> UNION {0 .. Len(adds[k]) : k \in DOMAIN adds}]
      PROVE  \A k \in DOMAIN adds : got[k] \in Nat
  <2>1. \A k \in DOMAIN adds : Len(adds[k]) \in Nat
    BY <1>7
  <2>2. UNION {0 .. Len(adds[k]) : k \in DOMAIN adds} \subseteq Nat
    BY <2>1
  <2> QED BY <2>2
<1>8. ASSUME Out!FillPart(outAdds) PROVE outRows' \in Rows
  <2>1. PICK got \in [DOMAIN outAdds -> UNION {0 .. Len(outAdds[k]) : k \in DOMAIN outAdds}] :
          /\ \A k \in DOMAIN outAdds : got[k] <= Len(outAdds[k])
          /\ outRows' = [k \in DOMAIN outRows |->
                      IF k \in DOMAIN outAdds THEN outRows[k] \o SubSeq(outAdds[k], 1, got[k]) ELSE outRows[k]]
    BY <1>8 DEF Out!FillPart, Out!Grown
  <2>2. \A k \in DOMAIN outAdds : got[k] \in Nat
    BY <1>1, <1>7
  <2> QED BY ONLY <1>1, <1>3, <2>1, <2>2, GrownRows
<1>9. ASSUME In!FillPart(inAdds) PROVE inRows' \in Rows
  <2>1. PICK got \in [DOMAIN inAdds -> UNION {0 .. Len(inAdds[k]) : k \in DOMAIN inAdds}] :
          /\ \A k \in DOMAIN inAdds : got[k] <= Len(inAdds[k])
          /\ inRows' = [k \in DOMAIN inRows |->
                      IF k \in DOMAIN inAdds THEN inRows[k] \o SubSeq(inAdds[k], 1, got[k]) ELSE inRows[k]]
    BY <1>9 DEF In!FillPart, In!Grown
  <2>2. \A k \in DOMAIN inAdds : got[k] \in Nat
    BY <1>2, <1>7
  <2> QED BY ONLY <1>2, <1>3, <2>1, <2>2, GrownRows
<1> QED BY <1>5, <1>6, <1>8, <1>9 DEF outAdds, inAdds

\* The rows after an insertion, side by side with the shadows.
LEMMA FilledAgree ==
  ASSUME HostInv, TreesOK, RecordsKept, SameEdges, NEW batch \in Seq(Insertion), Insertable(batch),
         NEW place \in Edges!Placements(DOMAIN batch), Adopt(batch, place),
         Out!Fill(Adds(batch, place, 1)), In!Fill(Adds(batch, place, 2)), NEW v \in Node
  PROVE  /\ Range(outRows'[VertexKey(v)]) = outShadow'[v] /\ IsInjective(outRows'[VertexKey(v)])
         /\ Range(inRows'[VertexKey(v)]) = inShadow'[v] /\ IsInjective(inRows'[VertexKey(v)])
<1>1. /\ outShadow'[v] = outShadow[v] \cup At(batch, place, v, 1)
      /\ inShadow'[v] = inShadow[v] \cup At(batch, place, v, 2)
  BY AdoptHost
<1>2. outShadow[v] \subseteq DOMAIN meta /\ inShadow[v] \subseteq DOMAIN meta
  BY DEF HostInv, Shadows
<1>3. /\ Range(outRows[VertexKey(v)]) = outShadow[v] /\ IsInjective(outRows[VertexKey(v)])
      /\ Range(inRows[VertexKey(v)]) = inShadow[v] /\ IsInjective(inRows[VertexKey(v)])
      /\ outRows \in Rows /\ inRows \in Rows
  BY DEF SameEdges, TreesOK
<1> DEFINE outAdds == Adds(batch, place, 1)
           inAdds == Adds(batch, place, 2)
           key == VertexKey(v)
<1>4. outRows' = [k \in DOMAIN outRows |->
                    IF k \in DOMAIN outAdds THEN outRows[k] \o SubSeq(outAdds[k], 1, Len(outAdds[k])) ELSE outRows[k]]
  BY DEF Out!Fill, Out!Grown, Out!Whole
<1>5. inRows' = [k \in DOMAIN inRows |->
                    IF k \in DOMAIN inAdds THEN inRows[k] \o SubSeq(inAdds[k], 1, Len(inAdds[k])) ELSE inRows[k]]
  BY DEF In!Fill, In!Grown, In!Whole
<1>6. /\ outAdds = Adds(batch, place, 1) /\ inAdds = Adds(batch, place, 2)
      /\ 1 \in {1, 2} /\ 2 \in {1, 2}
  OBVIOUS
<1> HIDE DEF outAdds, inAdds
<1>7. Range(outRows'[key]) = Range(outRows[key]) \cup At(batch, place, v, 1) /\ IsInjective(outRows'[key])
  <2> DEFINE row == outRows[key]
             t == outAdds[key]
             end == 1
  <2>1. key \in DOMAIN outRows /\ row \in Seq(Nat) /\ Range(row) \subseteq DOMAIN meta /\ IsInjective(row)
    BY <1>2, <1>3, KeyOfVertex DEF Rows
  <2>2. end \in {1, 2} /\ outAdds = Adds(batch, place, end)
    BY <1>6
  <2>3. CASE key \in DOMAIN outAdds
    <3>1. outRows'[key] = row \o SubSeq(t, 1, Len(t))
      BY <1>4, <2>1, <2>3
    <3>2. t = Adds(batch, place, end)[VertexKey(v)] /\ VertexKey(v) \in DOMAIN Adds(batch, place, end)
      BY <2>2, <2>3
    <3> HIDE DEF row, t, end
    <3>3. /\ Range(row \o SubSeq(t, 1, Len(t))) = Range(row) \cup At(batch, place, v, end)
          /\ IsInjective(row \o SubSeq(t, 1, Len(t)))
      BY <2>1, <2>2, <3>2, FilledRow
    <3> QED BY <3>1, <3>3 DEF row, end
  <2>4. CASE key \notin DOMAIN outAdds
    <3>1. outRows'[key] = row
      BY <1>4, <2>1, <2>4
    <3>2. At(batch, place, v, end) = {}
      <4>1. VertexKey(v) \notin DOMAIN Adds(batch, place, end)
        BY <2>2, <2>4
      <4> HIDE DEF row, t, end
      <4> QED BY <2>2, <4>1, AddsFacts
    <3> QED BY <2>1, <3>1, <3>2
  <2> QED BY <2>3, <2>4
<1>8. Range(inRows'[key]) = Range(inRows[key]) \cup At(batch, place, v, 2) /\ IsInjective(inRows'[key])
  <2> DEFINE row == inRows[key]
             t == inAdds[key]
             end == 2
  <2>1. key \in DOMAIN inRows /\ row \in Seq(Nat) /\ Range(row) \subseteq DOMAIN meta /\ IsInjective(row)
    BY <1>2, <1>3, KeyOfVertex DEF Rows
  <2>2. end \in {1, 2} /\ inAdds = Adds(batch, place, end)
    BY <1>6
  <2>3. CASE key \in DOMAIN inAdds
    <3>1. inRows'[key] = row \o SubSeq(t, 1, Len(t))
      BY <1>5, <2>1, <2>3
    <3>2. t = Adds(batch, place, end)[VertexKey(v)] /\ VertexKey(v) \in DOMAIN Adds(batch, place, end)
      BY <2>2, <2>3
    <3> HIDE DEF row, t, end
    <3>3. /\ Range(row \o SubSeq(t, 1, Len(t))) = Range(row) \cup At(batch, place, v, end)
          /\ IsInjective(row \o SubSeq(t, 1, Len(t)))
      BY <2>1, <2>2, <3>2, FilledRow
    <3> QED BY <3>1, <3>3 DEF row, end
  <2>4. CASE key \notin DOMAIN inAdds
    <3>1. inRows'[key] = row
      BY <1>5, <2>1, <2>4
    <3>2. At(batch, place, v, end) = {}
      <4>1. VertexKey(v) \notin DOMAIN Adds(batch, place, end)
        BY <2>2, <2>4
      <4> HIDE DEF row, t, end
      <4> QED BY <2>2, <4>1, AddsFacts
    <3> QED BY <2>1, <3>1, <3>2
  <2> QED BY <2>3, <2>4
<1> QED BY <1>1, <1>3, <1>7, <1>8

\* insertEdges, with all that it can come to.
LEMMA InsertKeeps ==
  ASSUME DynamicInv, NEW batch \in Seq(Insertion), InsertCall(batch)
  PROVE  /\ DynamicInv'
         /\ Complete /\ EdgeOnce(batch) => Complete'
<1>0. HostInv /\ TreesOK /\ RecordsKept /\ LockStep
  BY DEF DynamicInv
<1>1. CASE InsertRefused(batch)
  <2>1. UNCHANGED hostVars /\ UNCHANGED <<edgeRows, outRows, inRows, numEdges, whole>>
    BY <1>1 DEF InsertRefused, treeVars
  <2>2. HostInv' /\ (Complete => Complete')
    BY <1>0, <2>1, HostKept
  <2>3. TreesOK' /\ RecordsKept' /\ LockStep'
    BY <1>0, <2>1 DEF TreesOK, RecordsKept, LockStep, SameEdges, hostVars
  <2> QED BY <2>2, <2>3 DEF DynamicInv
<1>2. CASE InsertThrows(batch)
  <2>1. /\ UNCHANGED hostVars /\ UNCHANGED <<outRows, inRows>> /\ whole' = FALSE
        /\ Edges!InsertPart(Records(batch))
    BY <1>2 DEF InsertThrows
  <2>2. HostInv' /\ (Complete => Complete')
    BY <1>0, <2>1, HostKept
  <2>3. TreesOK' /\ LockStep'
    BY <1>0, <2>1 DEF TreesOK, LockStep
  <2>4. PICK some, place : place \in Edges!Placements(some) /\ Edges!Insert(Records(batch), place)
    BY <2>1 DEF Edges!InsertPart
  <2>5. /\ DOMAIN edgeRows' = DOMAIN edgeRows \cup Range(place)
        /\ \A k \in DOMAIN edgeRows : edgeRows'[k] = edgeRows[k]
    <3> DEFINE news == Records(batch)
    <3>1. Edges!Insert(news, place)
      BY <2>4
    <3> HIDE DEF news
    <3> QED BY ONLY <2>4, <3>1, RecordsAdded
  <2>6. RecordsKept'
    BY <1>0, <2>1, <2>5 DEF RecordsKept, hostVars
  <2> QED BY <2>2, <2>3, <2>6 DEF DynamicInv
<1>3. ASSUME Insertable(batch), NEW place \in Edges!Placements(DOMAIN batch),
             Edges!Insert(Records(batch), place), Adopt(batch, place)
      PROVE  HostInv' /\ RecordsKept' /\ (Complete /\ EdgeOnce(batch) => Complete')
  BY <1>0, <1>3, AdoptHost, AdoptComplete, RecordsAdopted
<1>4. CASE FillThrows(batch)
  <2>1. Insertable(batch) /\ whole' = FALSE
    BY <1>4 DEF FillThrows
  <2>2. PICK place \in Edges!Placements(DOMAIN batch) :
          /\ Edges!Insert(Records(batch), place) /\ Adopt(batch, place)
          /\ \/ Out!FillPart(Adds(batch, place, 1)) /\ UNCHANGED inRows
             \/ Out!Fill(Adds(batch, place, 1)) /\ In!FillPart(Adds(batch, place, 2))
    BY <1>4 DEF FillThrows
  <2>3. TreesOK'
    BY <1>0, <2>1, <2>2, FilledTrees DEF TreesOK
  <2>4. LockStep'
    BY <2>1 DEF LockStep
  <2> QED BY <1>3, <2>1, <2>2, <2>3, <2>4 DEF DynamicInv
<1>5. CASE InsertEdges(batch)
  <2>1. Insertable(batch) /\ whole' = whole /\ numEdges' = numEdges + Len(batch)
    BY <1>5 DEF InsertEdges
  <2>2. PICK place \in Edges!Placements(DOMAIN batch) :
          /\ Edges!Insert(Records(batch), place) /\ Adopt(batch, place)
          /\ Out!Fill(Adds(batch, place, 1)) /\ In!Fill(Adds(batch, place, 2))
    BY <1>5 DEF InsertEdges
  <2>3. TreesOK'
    BY <1>0, <2>1, <2>2, FilledTrees DEF TreesOK
  <2>4. LockStep'
    <3> SUFFICES ASSUME whole' PROVE SameEdges'
      BY DEF LockStep
    <3>1. SameEdges
      BY <1>0, <2>1 DEF LockStep
    <3>2. edgeRows' = [id \in DOMAIN meta' |-> EdgeRecord(meta'[id])]
      <4>1. edgeRows = [id \in DOMAIN meta |-> EdgeRecord(meta[id])]
        BY <3>1 DEF SameEdges
      <4> QED BY <1>0, <2>1, <2>2, <4>1, RecordsAdopted
    <3>3. \A v \in Node :
            /\ Range(outRows'[VertexKey(v)]) = outShadow'[v] /\ IsInjective(outRows'[VertexKey(v)])
            /\ Range(inRows'[VertexKey(v)]) = inShadow'[v] /\ IsInjective(inRows'[VertexKey(v)])
      BY <1>0, <2>1, <2>2, <3>1, FilledAgree
    <3>4. numEdges' = Cardinality(DOMAIN meta')
      <4>1. numEdges = Cardinality(DOMAIN meta)
        BY <3>1 DEF SameEdges
      <4>2. DOMAIN meta' = DOMAIN meta \cup Range(place)
        BY <1>0, <2>1, <2>2, AdoptHost
      <4> QED BY <1>0, <2>1, <4>1, <4>2, Counted
    <3> QED BY <3>2, <3>3, <3>4 DEF SameEdges, EdgeRecord, VertexKey
  <2> QED BY <1>3, <2>1, <2>2, <2>3, <2>4 DEF DynamicInv
<1> QED BY <1>1, <1>2, <1>4, <1>5 DEF InsertCall
LEMMA FoundFacts ==
  ASSUME HostInv, NEW batch, NEW gone, gone = Found(batch), Forget(gone)
  PROVE  /\ gone \subseteq Range(idOf)
         /\ HostGraph' = [e \in DOMAIN HostGraph \ Range(batch) |-> HostGraph[e]]
<1>1. gone = {idOf[e] : e \in Range(batch) \cap DOMAIN idOf}
  BY DEF Found, Range
<1>2. gone \subseteq Range(idOf)
  BY <1>1 DEF Range
<1>3. /\ \A id \in DOMAIN meta' : meta'[id] = meta[id]
      /\ DOMAIN idOf' = {e \in DOMAIN idOf : idOf[e] \notin gone} /\ \A e \in DOMAIN idOf' : idOf'[e] = idOf[e]
      /\ HostInv'
  BY <1>2, ForgetHost
<1>4. \A e, f \in DOMAIN idOf : idOf[e] = idOf[f] => e = f
  BY DEF HostInv, MapSound
<1>5. DOMAIN idOf' = DOMAIN idOf \ Range(batch)
  BY <1>1, <1>3, <1>4
<1>6. \A e \in DOMAIN idOf' : idOf'[e] \in DOMAIN meta'
  BY <1>3 DEF HostInv, MapSound
<1>7. \A e \in DOMAIN idOf' : meta'[idOf'[e]].weight = meta[idOf[e]].weight
  BY <1>3, <1>6
<1>8. /\ HostGraph' = [e \in DOMAIN idOf' |-> meta'[idOf'[e]].weight]
      /\ DOMAIN HostGraph = DOMAIN idOf /\ \A e \in DOMAIN idOf : HostGraph[e] = meta[idOf[e]].weight
  BY DEF HostGraph
<1> QED BY <1>2, <1>5, <1>7, <1>8

\* deleteEdges, with all that it can come to.
LEMMA DeleteKeeps ==
  ASSUME DynamicInv, NEW batch, DeleteCall(batch)
  PROVE  /\ DynamicInv'
         /\ Complete => Complete'
         /\ (\A i \in DOMAIN batch : InRange(batch[i])) =>
              outcome' = "ok" /\ HostGraph' = [e \in DOMAIN HostGraph \ Range(batch) |-> HostGraph[e]]
<1>0. HostInv /\ TreesOK /\ RecordsKept /\ LockStep
  BY DEF DynamicInv
<1>1. CASE DeleteThrows(batch)
  <2>1. PICK i \in DOMAIN batch : /\ ~ InRange(batch[i])
                                  /\ Forget(Found(SubSeq(batch, 1, i - 1)))
                                  /\ whole' = (whole /\ Found(SubSeq(batch, 1, i - 1)) = {})
                                  /\ UNCHANGED <<treeVars, numEdges>>
    BY <1>1 DEF DeleteThrows
  <2> DEFINE part == SubSeq(batch, 1, i - 1)
             gone == Found(part)
  <2>2. Forget(gone) /\ gone = Found(part) /\ whole' = (whole /\ gone = {}) /\ UNCHANGED <<treeVars, numEdges>>
    BY <2>1
  <2> HIDE DEF part, gone
  <2>3. gone \subseteq Range(idOf)
    BY <1>0, <2>2, FoundFacts
  <2>4. /\ HostInv' /\ DOMAIN meta' = DOMAIN meta \ gone /\ \A id \in DOMAIN meta' : meta'[id] = meta[id]
        /\ \A v \in Node : outShadow'[v] = outShadow[v] \ gone /\ inShadow'[v] = inShadow[v] \ gone
        /\ Complete => Complete'
    BY <1>0, <2>2, <2>3, ForgetHost
  <2>5. edgeRows' = edgeRows /\ outRows' = outRows /\ inRows' = inRows /\ numEdges' = numEdges
    BY <2>2 DEF treeVars
  <2>6. RecordsKept' /\ TreesOK'
    BY <1>0, <2>4, <2>5 DEF RecordsKept, TreesOK
  <2>7. LockStep'
    <3> SUFFICES ASSUME whole' PROVE SameEdges'
      BY DEF LockStep
    <3>1. SameEdges /\ gone = {}
      BY <1>0, <2>2 DEF LockStep
    <3>2. DOMAIN meta' = DOMAIN meta /\ \A v \in Node : outShadow'[v] = outShadow[v] /\ inShadow'[v] = inShadow[v]
      BY <2>4, <3>1
    <3> QED BY <2>4, <2>5, <3>1, <3>2 DEF SameEdges
  <2> QED BY <2>1, <2>4, <2>6, <2>7 DEF DynamicInv
<1>2. CASE DeleteEdges(batch)
  <2> DEFINE gone == Found(batch)
  <2>1. /\ Forget(gone) /\ gone = Found(batch)
        /\ Out!Unfill(Removes(gone, outShadow)) /\ In!Unfill(Removes(gone, inShadow))
        /\ Edges!Erase(gone)
        /\ numEdges' = numEdges - Cardinality(gone) /\ whole' = whole /\ outcome' = "ok"
    BY <1>2 DEF DeleteEdges
  <2> HIDE DEF gone
  <2>2. gone \subseteq Range(idOf) /\ HostGraph' = [e \in DOMAIN HostGraph \ Range(batch) |-> HostGraph[e]]
    BY <1>0, <2>1, FoundFacts
  <2>3. /\ HostInv' /\ DOMAIN meta' = DOMAIN meta \ gone /\ \A id \in DOMAIN meta' : meta'[id] = meta[id]
        /\ \A v \in Node : outShadow'[v] = outShadow[v] \ gone /\ inShadow'[v] = inShadow[v] \ gone
        /\ (Complete => Complete') /\ gone \subseteq DOMAIN meta
    BY <1>0, <2>1, <2>2, ForgetHost
  <2>4. edgeRows' = [k \in DOMAIN edgeRows \ gone |-> edgeRows[k]]
    BY <2>1 DEF Edges!Erase
  <2>5. RecordsKept'
    BY <1>0, <2>3, <2>4 DEF RecordsKept
  <2>6. outRows' \in Rows /\ \A v \in Node :
          Range(outRows[VertexKey(v)]) = outShadow[v] /\ IsInjective(outRows[VertexKey(v)]) =>
          Range(outRows'[VertexKey(v)]) = outShadow[v] \ gone /\ IsInjective(outRows'[VertexKey(v)])
    <3> DEFINE removes == Removes(gone, outShadow)
               rows == outRows
               new == outRows'
               side == outShadow
    <3>1. Out!Unfill(removes)
      BY <2>1
    <3> HIDE DEF removes
    <3>2. new = Unfilled(rows, removes)
      BY ONLY <3>1 DEF Unfilled, Sifted, Ascending, SortedBy, Rank, Precedes,
                       Out!Unfill, Out!Sifted, Out!Ascending, Out!SortedBy, Out!Rank, Out!Precedes,
                       Cardinality, Out!Cardinality
    <3>3. new = Unfilled(rows, Removes(gone, side)) /\ rows \in Rows
      BY <1>0, <3>2 DEF TreesOK, removes
    <3> HIDE DEF rows, new, side
    <3>4. /\ new \in Rows
          /\ \A v \in Node : Range(rows[VertexKey(v)]) = side[v] /\ IsInjective(rows[VertexKey(v)]) =>
               Range(new[VertexKey(v)]) = side[v] \ gone /\ IsInjective(new[VertexKey(v)])
      BY <3>3, UnfilledRows
    <3> QED BY <3>4 DEF rows, new, side
  <2>7. inRows' \in Rows /\ \A v \in Node :
          Range(inRows[VertexKey(v)]) = inShadow[v] /\ IsInjective(inRows[VertexKey(v)]) =>
          Range(inRows'[VertexKey(v)]) = inShadow[v] \ gone /\ IsInjective(inRows'[VertexKey(v)])
    <3> DEFINE removes == Removes(gone, inShadow)
               rows == inRows
               new == inRows'
               side == inShadow
    <3>1. In!Unfill(removes)
      BY <2>1
    <3> HIDE DEF removes
    <3>2. new = Unfilled(rows, removes)
      BY ONLY <3>1 DEF Unfilled, Sifted, Ascending, SortedBy, Rank, Precedes,
                       In!Unfill, In!Sifted, In!Ascending, In!SortedBy, In!Rank, In!Precedes,
                       Cardinality, In!Cardinality
    <3>3. new = Unfilled(rows, Removes(gone, side)) /\ rows \in Rows
      BY <1>0, <3>2 DEF TreesOK, removes
    <3> HIDE DEF rows, new, side
    <3>4. /\ new \in Rows
          /\ \A v \in Node : Range(rows[VertexKey(v)]) = side[v] /\ IsInjective(rows[VertexKey(v)]) =>
               Range(new[VertexKey(v)]) = side[v] \ gone /\ IsInjective(new[VertexKey(v)])
      BY <3>3, UnfilledRows
    <3> QED BY <3>4 DEF rows, new, side
  <2>8. LockStep'
    <3> SUFFICES ASSUME whole' PROVE SameEdges'
      BY DEF LockStep
    <3>1. SameEdges
      BY <1>0, <2>1 DEF LockStep
    <3>2. edgeRows' = [id \in DOMAIN meta' |-> EdgeRecord(meta'[id])]
      <4>1. DOMAIN edgeRows = DOMAIN meta /\ \A id \in DOMAIN meta : edgeRows[id] = EdgeRecord(meta[id])
        BY <3>1 DEF SameEdges
      <4> QED BY <2>3, <2>4, <4>1
    <3>3. numEdges' = Cardinality(DOMAIN meta')
      <4>1. numEdges = Cardinality(DOMAIN meta)
        BY <3>1 DEF SameEdges
      <4>2. Cardinality(DOMAIN meta \ gone) = Cardinality(DOMAIN meta) - Cardinality(gone)
        <5>1. gone \in SUBSET DOMAIN meta
          BY <2>3
        <5> QED BY <1>0, <5>1, Counted
      <4> QED BY <2>1, <2>3, <4>1, <4>2
    <3>4. \A v \in Node : /\ Range(outRows'[VertexKey(v)]) = outShadow'[v]
                          /\ Range(inRows'[VertexKey(v)]) = inShadow'[v]
                          /\ IsInjective(outRows'[VertexKey(v)]) /\ IsInjective(inRows'[VertexKey(v)])
      BY <2>3, <2>6, <2>7, <3>1 DEF SameEdges
    <3> QED BY <3>2, <3>3, <3>4 DEF SameEdges, EdgeRecord, VertexKey
  <2> QED BY <2>1, <2>2, <2>3, <2>5, <2>6, <2>7, <2>8 DEF DynamicInv, TreesOK
<1> QED BY <1>1, <1>2 DEF DeleteCall
-----------------------------------------------------------------------------
(***************************************************************************)
(* The graph that is loaded.                                               *)
(***************************************************************************)
LEMMA AscendingRow ==
  ASSUME NEW S \in SUBSET Nat, IsFiniteSet(S)
  PROVE  Ascending(S) \in Seq(Nat) /\ Range(Ascending(S)) = S /\ IsInjective(Ascending(S))
<1> DEFINE s == Ascending(S)
           n == Cardinality(S)
<1>1. S \in SUBSET Int
  OBVIOUS
<1>2. /\ n \in Nat /\ s \in [1 .. n -> S]
      /\ \A x \in S : \E i \in 1 .. n : s[i] = x
      /\ \A i, j \in 1 .. n : s[i] = s[j] => i = j
  BY <1>1, AscendingFacts
<1> HIDE DEF s, n
<1>3. s \in Seq(Nat) /\ DOMAIN s = 1 .. n
  <2>1. s \in [1 .. n -> Nat] /\ DOMAIN s = 1 .. n
    BY <1>2
  <2> QED BY ONLY <1>2, <2>1
<1>4. Range(s) = S
  <2>1. Range(s) = {s[i] : i \in 1 .. n}
    BY <1>3 DEF Range
  <2>2. \A i \in 1 .. n : s[i] \in S
    BY <1>2
  <2>3. \A x \in S : x \in {s[i] : i \in 1 .. n}
    BY <1>2
  <2> QED BY ONLY <2>1, <2>2, <2>3
<1>5. IsInjective(s)
  BY <1>2, <1>3 DEF IsInjective
<1> QED BY <1>3, <1>4, <1>5 DEF s

LEMMA EdgesOf ==
  ASSUME NEW graph, IsDigraph(graph)
  PROVE  /\ IsFiniteSet(DOMAIN graph)
         /\ \A e \in DOMAIN graph : e = <<e[1], e[2]>> /\ e[1] \in Node /\ e[2] \in Node /\ graph[e] \in 1 .. MaxWeight
<1>1. IsFiniteSet(Node)
  BY NodesAssumption, FS_Interval DEF Node
<1>2. IsFiniteSet(Node \X Node)
  BY <1>1, FS_Product
<1>3. DOMAIN graph \subseteq Node \X Node
  BY DEF IsDigraph
<1>4. IsFiniteSet(DOMAIN graph)
  BY <1>2, <1>3, FS_Subset
<1> QED BY <1>3, <1>4 DEF IsDigraph

\* loadFromCSR.
LEMMA LoadedGraph ==
  ASSUME NEW graph, IsDigraph(graph), StartsWith(graph)
  PROVE  DynamicInv /\ Complete /\ HostGraph = graph
<1> DEFINE D == DOMAIN graph
           key == [e \in D |-> e]
           csr0 == EdgesInOrder(graph)
           n == Cardinality(D)
<1>1. IsFiniteSet(D) /\ \A e \in D : /\ e = <<e[1], e[2]>> /\ e[1] \in Node /\ e[2] \in Node
                                     /\ graph[e] \in 1 .. MaxWeight
  BY EdgesOf
<1>2. IsKey(D, key)
  <2>1. \A e \in D : e \in Pair
    BY <1>1 DEF Pair, Node
  <2> QED BY <1>1, <2>1 DEF IsKey
<1>3. csr0 = SortedBy(D, key)
  BY DEF EdgesInOrder
<1> HIDE DEF D, key, csr0, n
<1>4. /\ n \in Nat /\ csr0 \in [1 .. n -> D]
      /\ \A x \in D : \E i \in 1 .. n : csr0[i] = x
      /\ \A i, j \in 1 .. n : csr0[i] = csr0[j] => i = j
  BY <1>2, <1>3, SortedFacts DEF n
<1>5. DOMAIN csr0 = 1 .. n /\ \A i \in 1 .. n : csr0[i] \in D
  BY <1>4
<1>6. /\ meta = [i \in 1 .. n |-> [src |-> csr0[i][1], dst |-> csr0[i][2], weight |-> graph[csr0[i]]]]
      /\ idOf = [e \in D |-> CHOOSE i \in 1 .. n : csr0[i] = e]
      /\ outShadow = [v \in Node |-> {i \in 1 .. n : csr0[i][1] = v}]
      /\ inShadow = [v \in Node |-> {i \in 1 .. n : csr0[i][2] = v}]
      /\ edgeRows = [i \in 1 .. n |-> EdgeRecord(meta[i])]
      /\ outRows = [k \in 1 .. N |-> Ascending(outShadow[k - 1])]
      /\ inRows = [k \in 1 .. N |-> Ascending(inShadow[k - 1])]
      /\ numEdges = Cardinality(1 .. n)
  BY <1>5 DEF StartsWith, LoadFromCSR, D, csr0
<1>7. DOMAIN meta = 1 .. n /\ \A i \in 1 .. n : /\ meta[i].src = csr0[i][1] /\ meta[i].dst = csr0[i][2]
                                                /\ meta[i].weight = graph[csr0[i]] /\ Ends(i) = csr0[i]
  BY <1>1, <1>5, <1>6 DEF Ends
<1>8. DOMAIN idOf = D /\ \A e \in D : idOf[e] \in 1 .. n /\ csr0[idOf[e]] = e
  BY <1>4, <1>6
<1>9. IsFiniteSet(1 .. n) /\ 1 .. n \in SUBSET Nat
  BY <1>4, FS_Interval
<1>10. HostTypeOK
  <2>1. ASSUME NEW i \in 1 .. n PROVE meta[i] \in EdgeMeta
    <3>1. csr0[i][1] \in Node /\ csr0[i][2] \in Node /\ graph[csr0[i]] \in 1 .. MaxWeight
      BY <1>1, <1>5
    <3> QED BY <1>6, <3>1 DEF EdgeMeta
  <2>2. DOMAIN meta \in SUBSET Nat /\ IsFiniteSet(DOMAIN meta) /\ meta \in [DOMAIN meta -> EdgeMeta]
    BY <1>6, <1>7, <1>9, <2>1
  <2>3. idOf \in [DOMAIN idOf -> DOMAIN meta]
    BY <1>6, <1>7, <1>8
  <2>4. DOMAIN idOf \in SUBSET (Node \X Node)
    BY <1>1, <1>8
  <2>5. outShadow \in [Node -> SUBSET DOMAIN meta] /\ inShadow \in [Node -> SUBSET DOMAIN meta]
    BY <1>6, <1>7
  <2> QED BY <2>2, <2>3, <2>4, <2>5 DEF HostTypeOK
<1>11. Shadows
  BY <1>6, <1>7 DEF Shadows
<1>12. MapSound
  BY <1>7, <1>8 DEF MapSound
<1>13. Complete
  <2>1. \A i \in DOMAIN meta : Ends(i) \in DOMAIN idOf
    BY <1>5, <1>7, <1>8
  <2>2. NoParallelEdges
    <3> SUFFICES ASSUME NEW a \in 1 .. n, NEW b \in 1 .. n, meta[a].src = meta[b].src, meta[a].dst = meta[b].dst
                 PROVE  a = b
      BY <1>7 DEF NoParallelEdges
    <3>1. Ends(a) = Ends(b)
      BY DEF Ends
    <3> QED BY <1>4, <1>7, <3>1
  <2>3. \A e \in DOMAIN idOf : \E i \in DOMAIN meta : e = Ends(i)
    BY <1>12 DEF MapSound
  <2> QED BY <2>1, <2>2, <2>3 DEF Complete
<1>14. HostGraph = graph
  <2>1. \A e \in D : meta[idOf[e]].weight = graph[e]
    BY <1>7, <1>8
  <2>2. graph = [e \in D |-> graph[e]]
    BY DEF D, IsDigraph
  <2>3. HostGraph = [e \in D |-> meta[idOf[e]].weight]
    BY <1>8 DEF HostGraph
  <2> QED BY <2>1, <2>2, <2>3
<1>15. \A v \in Node : /\ outShadow[v] \in SUBSET Nat /\ IsFiniteSet(outShadow[v])
                       /\ inShadow[v] \in SUBSET Nat /\ IsFiniteSet(inShadow[v])
  <2>1. \A v \in Node : outShadow[v] \in SUBSET (1 .. n) /\ inShadow[v] \in SUBSET (1 .. n)
    BY <1>6
  <2> QED BY <1>9, <2>1, FS_Subset
<1>16. ASSUME NEW k \in 1 .. N
       PROVE  /\ outRows[k] \in Seq(Nat) /\ Range(outRows[k]) = outShadow[k - 1] /\ IsInjective(outRows[k])
              /\ inRows[k] \in Seq(Nat) /\ Range(inRows[k]) = inShadow[k - 1] /\ IsInjective(inRows[k])
  <2>1. k - 1 \in Node /\ outRows[k] = Ascending(outShadow[k - 1]) /\ inRows[k] = Ascending(inShadow[k - 1])
    BY <1>6, KeyOfVertex
  <2> QED BY <1>15, <2>1, AscendingRow
<1>17. TreesOK
  BY <1>6, <1>16 DEF TreesOK, Rows
<1>18. RecordsKept
  BY <1>6, <1>7 DEF RecordsKept
<1>19. SameEdges
  <2>1. ASSUME NEW v \in Node
        PROVE  /\ Range(outRows[VertexKey(v)]) = outShadow[v] /\ Range(inRows[VertexKey(v)]) = inShadow[v]
               /\ IsInjective(outRows[VertexKey(v)]) /\ IsInjective(inRows[VertexKey(v)])
    <3>1. VertexKey(v) \in 1 .. N /\ VertexKey(v) - 1 = v
      BY KeyOfVertex
    <3> QED BY <1>16, <3>1
  <2> QED BY <1>6, <1>7, <2>1 DEF SameEdges
<1> QED BY <1>10, <1>11, <1>12, <1>13, <1>14, <1>17, <1>18, <1>19 DEF DynamicInv, HostInv, LockStep
-----------------------------------------------------------------------------
(***************************************************************************)
(* The CSR that is dumped.                                                 *)
(***************************************************************************)
LEMMA IdOfEnds ==
  ASSUME HostInv, Complete
  PROVE  \A id \in DOMAIN meta : Ends(id) \in DOMAIN idOf /\ idOf[Ends(id)] = id
<1> SUFFICES ASSUME NEW id \in DOMAIN meta PROVE Ends(id) \in DOMAIN idOf /\ idOf[Ends(id)] = id
  OBVIOUS
<1>1. Ends(id) \in DOMAIN idOf
  BY DEF Complete
<1>2. idOf[Ends(id)] \in DOMAIN meta /\ Ends(idOf[Ends(id)]) = Ends(id)
  BY <1>1 DEF HostInv, MapSound
<1>3. meta[idOf[Ends(id)]].src = meta[id].src /\ meta[idOf[Ends(id)]].dst = meta[id].dst
  BY <1>2 DEF Ends
<1> QED BY <1>1, <1>2, <1>3 DEF Complete, NoParallelEdges

\* The host's graph is one.
LEMMA HostDigraph ==
  ASSUME HostInv
  PROVE  IsDigraph(HostGraph)
<1>1. DOMAIN HostGraph = DOMAIN idOf /\ HostGraph = [e \in DOMAIN idOf |-> meta[idOf[e]].weight]
  BY DEF HostGraph
<1>2. DOMAIN idOf \subseteq Node \X Node
  BY DEF HostInv, HostTypeOK
<1>3. ASSUME NEW e \in DOMAIN idOf PROVE meta[idOf[e]].weight \in 1 .. MaxWeight
  <2>1. meta[idOf[e]] \in EdgeMeta
    BY DEF HostInv, HostTypeOK
  <2> QED BY <2>1 DEF EdgeMeta
<1> QED BY <1>1, <1>2, <1>3 DEF IsDigraph

\* What dumpToCSR writes is what writeCSRFromMap would write for that graph.
LEMMA DumpIsLegacy ==
  ASSUME HostInv, Complete
  PROVE  DumpToCSR = LegacyCsr(HostGraph)
<1>1. ASSUME NEW u \in Node
      PROVE  CsrRow(u) = [j \in DOMAIN Ascending(OutNeighbours(HostGraph, u)) |->
                            [vertex |-> Ascending(OutNeighbours(HostGraph, u))[j],
                             weight |-> HostGraph[<<u, Ascending(OutNeighbours(HostGraph, u))[j]>>]]]
  <2> DEFINE S == outShadow[u]
             key == [id \in S |-> <<meta[id].dst, id>>]
             sorted == SortedBy(S, key)
             n == Cardinality(S)
             T == OutNeighbours(HostGraph, u)
             f == [j \in 1 .. n |-> meta[sorted[j]].dst]
  <2>1. /\ S = {id \in DOMAIN meta : meta[id].src = u}
        /\ DOMAIN meta \in SUBSET Nat /\ IsFiniteSet(DOMAIN meta) /\ meta \in [DOMAIN meta -> EdgeMeta]
    BY DEF HostInv, HostTypeOK, Shadows
  <2>2. S \in SUBSET Nat /\ IsFiniteSet(S)
    BY <2>1, FS_Subset
  <2>3. \A id \in S : id \in DOMAIN meta /\ meta[id].src = u /\ meta[id].dst \in Node /\ id \in Nat
    <3>1. \A id \in S : id \in DOMAIN meta /\ meta[id].src = u /\ id \in Nat /\ meta[id] \in EdgeMeta
      BY <2>1
    <3> QED BY <3>1 DEF EdgeMeta
  <2>4. IsKey(S, key) /\ \A id \in S : key[id] = <<meta[id].dst, id>>
    <3>1. \A id \in S : key[id] = <<meta[id].dst, id>> /\ key[id] \in Pair
      BY <2>3 DEF Pair, Node
    <3>2. \A x, y \in S : key[x] = key[y] => x = y
      BY <3>1
    <3> QED BY <2>2, <3>1, <3>2 DEF IsKey
  <2>5. CsrRow(u) = [j \in DOMAIN sorted |-> [vertex |-> meta[sorted[j]].dst, weight |-> meta[sorted[j]].weight]]
    BY DEF CsrRow
  <2>6. T = {v \in Node : <<u, v>> \in DOMAIN idOf}
    BY DEF OutNeighbours, HostGraph
  <2> HIDE DEF S, key, T
  <2>7. /\ n \in Nat /\ sorted \in [1 .. n -> S]
        /\ \A x \in S : \E i \in 1 .. n : sorted[i] = x
        /\ \A i, j \in 1 .. n : i < j => Precedes(key[sorted[i]], key[sorted[j]])
        /\ \A i, j \in 1 .. n : sorted[i] = sorted[j] => i = j
    BY <2>4, SortedFacts
  <2> HIDE DEF sorted, n
  <2>8. \A i \in 1 .. n : sorted[i] \in S
    BY <2>7
  <2>9. \A id \in S : Ends(id) = <<u, meta[id].dst>> /\ Ends(id) \in DOMAIN idOf /\ idOf[Ends(id)] = id
    BY <2>3, IdOfEnds DEF Ends
  <2>10. f \in [1 .. n -> T]
    BY <2>3, <2>6, <2>8, <2>9
  <2>11. ASSUME NEW v \in T PROVE \E i \in 1 .. n : f[i] = v
    <3>1. <<u, v>> \in DOMAIN idOf
      BY <2>6, <2>11
    <3>2. idOf[<<u, v>>] \in DOMAIN meta /\ Ends(idOf[<<u, v>>]) = <<u, v>>
      BY <3>1 DEF HostInv, MapSound
    <3>3. meta[idOf[<<u, v>>]].src = u /\ meta[idOf[<<u, v>>]].dst = v
      BY <3>2 DEF Ends
    <3>4. idOf[<<u, v>>] \in S
      BY <2>1, <3>2, <3>3 DEF S
    <3>5. PICK i \in 1 .. n : sorted[i] = idOf[<<u, v>>]
      BY <2>7, <3>4
    <3> QED BY <3>3, <3>5
  <2>12. ASSUME NEW i \in 1 .. n, NEW j \in 1 .. n, i < j PROVE f[i] < f[j]
    <3>1. /\ sorted[i] \in S /\ sorted[j] \in S /\ sorted[i] # sorted[j]
          /\ Precedes(key[sorted[i]], key[sorted[j]])
      BY <2>7, <2>8, <2>12
    <3>2. /\ meta[sorted[i]].dst < meta[sorted[j]].dst \/ meta[sorted[i]].dst = meta[sorted[j]].dst
      BY <2>4, <3>1 DEF Precedes
    <3>3. meta[sorted[i]].dst # meta[sorted[j]].dst
      BY <2>3, <3>1 DEF Complete, NoParallelEdges
    <3> QED BY <3>2, <3>3
  <2>13. T \in SUBSET Int /\ IsFiniteSet(T)
    <3>1. T \subseteq Node
      BY <2>6
    <3>2. IsFiniteSet(Node)
      BY NodesAssumption, FS_Interval DEF Node
    <3>3. IsFiniteSet(T)
      BY ONLY <3>1, <3>2, FS_Subset
    <3> QED BY <3>1, <3>3 DEF Node
  <2> HIDE DEF f
  <2>14. f = Ascending(T)
    BY <2>7, <2>10, <2>11, <2>12, <2>13, AscendingUnique
  <2>15. DOMAIN f = 1 .. n /\ DOMAIN sorted = 1 .. n
    BY <2>7, <2>10
  <2>16. \A j \in 1 .. n : meta[sorted[j]].dst = f[j] /\ meta[sorted[j]].weight = HostGraph[<<u, f[j]>>]
    BY <2>8, <2>9 DEF f, HostGraph
  <2>17. [j \in DOMAIN sorted |-> [vertex |-> meta[sorted[j]].dst, weight |-> meta[sorted[j]].weight]]
           = [j \in DOMAIN f |-> [vertex |-> f[j], weight |-> HostGraph[<<u, f[j]>>]]]
    BY <2>15, <2>16
  <2> QED BY <2>5, <2>14, <2>17 DEF T
<1> QED BY <1>1 DEF DumpToCSR, LegacyCsr

\* The row of a vertex in such a CSR.
LEMMA LegacyRow ==
  ASSUME NEW g, IsDigraph(g), NEW u \in Node, NEW row, row = LegacyCsr(g)[u]
  PROVE  \E n \in Nat :
           /\ DOMAIN row = 1 .. n
           /\ \A j \in 1 .. n : /\ row[j].vertex \in Node /\ <<u, row[j].vertex>> \in DOMAIN g
                                /\ row[j] = [vertex |-> row[j].vertex, weight |-> g[<<u, row[j].vertex>>]]
           /\ \A v \in Node : <<u, v>> \in DOMAIN g => \E j \in 1 .. n : row[j].vertex = v
           /\ \A i, j \in 1 .. n : i < j => row[i].vertex < row[j].vertex
<1> DEFINE T == OutNeighbours(g, u)
           f == Ascending(T)
           n == Cardinality(T)
<1>1. T = {v \in Node : <<u, v>> \in DOMAIN g}
  BY DEF OutNeighbours
<1>2. T \in SUBSET Int /\ IsFiniteSet(T)
  <2>1. IsFiniteSet(Node)
    BY NodesAssumption, FS_Interval DEF Node
  <2>2. T \subseteq Node
    BY <1>1
  <2> HIDE DEF T
  <2>3. IsFiniteSet(T)
    BY ONLY <2>1, <2>2, FS_Subset
  <2> QED BY <2>2, <2>3 DEF Node
<1>3. row = [j \in DOMAIN f |-> [vertex |-> f[j], weight |-> g[<<u, f[j]>>]]]
  BY DEF LegacyCsr
<1> HIDE DEF T
<1>4. /\ n \in Nat /\ f \in [1 .. n -> T]
      /\ \A x \in T : \E i \in 1 .. n : f[i] = x
      /\ \A i, j \in 1 .. n : i < j => f[i] < f[j]
  BY <1>2, AscendingFacts
<1> HIDE DEF f, n
<1>5. DOMAIN row = 1 .. n /\ \A j \in 1 .. n : /\ row[j] = [vertex |-> f[j], weight |-> g[<<u, f[j]>>]]
                                               /\ row[j].vertex = f[j] /\ f[j] \in T
  BY <1>3, <1>4
<1>6. \A j \in 1 .. n : /\ row[j].vertex \in Node /\ <<u, row[j].vertex>> \in DOMAIN g
                        /\ row[j] = [vertex |-> row[j].vertex, weight |-> g[<<u, row[j].vertex>>]]
  BY <1>1, <1>5
<1>7. \A v \in Node : <<u, v>> \in DOMAIN g => \E j \in 1 .. n : row[j].vertex = v
  BY <1>1, <1>4, <1>5
<1>8. \A i, j \in 1 .. n : i < j => row[i].vertex < row[j].vertex
  BY <1>4, <1>5
<1>9. n \in Nat
  BY <1>4
<1> QED BY ONLY <1>5, <1>6, <1>7, <1>8, <1>9
\* All rows of such a CSR.
Sorted(csr0, g) ==
  \A u \in Node :
    /\ DOMAIN csr0[u] \subseteq Nat
    /\ \A j \in DOMAIN csr0[u] : /\ csr0[u][j].vertex \in Node /\ <<u, csr0[u][j].vertex>> \in DOMAIN g
                                 /\ csr0[u][j] = [vertex |-> csr0[u][j].vertex, weight |-> g[<<u, csr0[u][j].vertex>>]]
    /\ \A v \in Node : <<u, v>> \in DOMAIN g => \E j \in DOMAIN csr0[u] : csr0[u][j].vertex = v
    /\ \A i, j \in DOMAIN csr0[u] : i < j => csr0[u][i].vertex < csr0[u][j].vertex
    /\ \A i, j \in DOMAIN csr0[u] : csr0[u][i].vertex = csr0[u][j].vertex => i = j

LEMMA LegacySorted ==
  ASSUME NEW g, IsDigraph(g), NEW csr0, csr0 = LegacyCsr(g)
  PROVE  Sorted(csr0, g)
<1> SUFFICES ASSUME NEW u \in Node
             PROVE  /\ DOMAIN csr0[u] \subseteq Nat
                    /\ \A j \in DOMAIN csr0[u] :
                         /\ csr0[u][j].vertex \in Node /\ <<u, csr0[u][j].vertex>> \in DOMAIN g
                         /\ csr0[u][j] = [vertex |-> csr0[u][j].vertex, weight |-> g[<<u, csr0[u][j].vertex>>]]
                    /\ \A v \in Node : <<u, v>> \in DOMAIN g => \E j \in DOMAIN csr0[u] : csr0[u][j].vertex = v
                    /\ \A i, j \in DOMAIN csr0[u] : i < j => csr0[u][i].vertex < csr0[u][j].vertex
                    /\ \A i, j \in DOMAIN csr0[u] : csr0[u][i].vertex = csr0[u][j].vertex => i = j
  BY DEF Sorted
<1> DEFINE row == csr0[u]
<1>1. row = LegacyCsr(g)[u]
  OBVIOUS
<1> HIDE DEF row
<1>2. PICK n \in Nat :
           /\ DOMAIN row = 1 .. n
           /\ \A j \in 1 .. n : /\ row[j].vertex \in Node /\ <<u, row[j].vertex>> \in DOMAIN g
                                /\ row[j] = [vertex |-> row[j].vertex, weight |-> g[<<u, row[j].vertex>>]]
           /\ \A v \in Node : <<u, v>> \in DOMAIN g => \E j \in 1 .. n : row[j].vertex = v
           /\ \A i, j \in 1 .. n : i < j => row[i].vertex < row[j].vertex
  BY <1>1, LegacyRow
<1>3. ASSUME NEW i \in 1 .. n, NEW j \in 1 .. n, row[i].vertex = row[j].vertex PROVE i = j
  <2>1. row[i].vertex \in Int /\ row[j].vertex \in Int
    <3>1. row[i].vertex \in Node /\ row[j].vertex \in Node
      BY <1>2
    <3>2. Node \subseteq Int
      BY DEF Node
    <3> QED BY ONLY <3>1, <3>2
  <2>2. ~ (i < j) /\ ~ (j < i)
    BY <1>2, <1>3, <2>1
  <2> QED BY <2>2
<1>4. DOMAIN row \subseteq Nat
  BY <1>2
<1> QED BY <1>2, <1>3, <1>4 DEF row

\* A place for each neighbour.
LEMMA EnteringFacts ==
  ASSUME NEW g, IsDigraph(g), NEW csr0, Sorted(csr0, g), NEW v \in Node, NEW E, E = Entering(csr0, v)
  PROVE  /\ IsKey(E, [x \in E |-> x])
         /\ \A x \in E : /\ x = <<x[1], x[2]>> /\ x[1] \in Node /\ x[2] \in DOMAIN csr0[x[1]]
                         /\ csr0[x[1]][x[2]].vertex = v
         /\ \A u \in Node : \A j \in DOMAIN csr0[u] : csr0[u][j].vertex = v => <<u, j>> \in E
         /\ \A x, y \in E : x[1] = y[1] => x = y
<1>1. E = UNION {{u} \X {j \in DOMAIN csr0[u] : csr0[u][j].vertex = v} : u \in Node}
  BY DEF Entering
<1>2. \A x \in E : /\ x = <<x[1], x[2]>> /\ x[1] \in Node /\ x[2] \in DOMAIN csr0[x[1]]
                   /\ csr0[x[1]][x[2]].vertex = v
  BY <1>1
<1>3. \A u \in Node : \A j \in DOMAIN csr0[u] : csr0[u][j].vertex = v => <<u, j>> \in E
  BY <1>1
<1>4. ASSUME NEW x \in E, NEW y \in E, x[1] = y[1] PROVE x = y
  <2>1. x[2] = y[2]
    BY <1>2, <1>4 DEF Sorted
  <2> QED BY <1>2, <1>4, <2>1
<1>5. IsFiniteSet(E)
  <2> DEFINE A == {x[1] : x \in E}
             f == [u \in A |-> CHOOSE x \in E : x[1] = u]
  <2>1. IsFiniteSet(A)
    <3>1. IsFiniteSet(Node)
      BY NodesAssumption, FS_Interval DEF Node
    <3>2. A \subseteq Node
      BY <1>2
    <3> HIDE DEF A
    <3> QED BY ONLY <3>1, <3>2, FS_Subset
  <2>2. \A u \in A : f[u] \in E /\ f[u][1] = u
    OBVIOUS
  <2>3. \A x \in E : x[1] \in A /\ f[x[1]] = x
    BY <1>4, <2>2
  <2> HIDE DEF A
  <2>4. f \in [A -> E]
    BY <2>2
  <2> HIDE DEF f
  <2>5. f \in Surjection(A, E)
    BY <2>3, <2>4 DEF Surjection
  <2> QED BY ONLY <2>1, <2>5, FS_Surjection
<1>6. \A x \in E : x \in Pair
  <2>1. \A u \in Node : \A j \in DOMAIN csr0[u] : u \in Int /\ j \in Int
    BY DEF Node, Sorted
  <2> QED BY <1>2, <2>1 DEF Pair
<1> QED BY <1>2, <1>3, <1>4, <1>5, <1>6 DEF IsKey

\* The reverse CSR: the same edges by their heads.
LEMMA ReverseRow ==
  ASSUME NEW g, IsDigraph(g), NEW csr0, Sorted(csr0, g), NEW v \in Node, NEW row, row = ReverseCSR(csr0)[v]
  PROVE  /\ \A i, j \in DOMAIN row : i < j => row[i].vertex < row[j].vertex
         /\ \A u \in Node, w \in 1 .. MaxWeight :
              [vertex |-> u, weight |-> w] \in Range(row) <=> <<u, v>> \in DOMAIN g /\ g[<<u, v>>] = w
<1> DEFINE E == Entering(csr0, v)
           key == [x \in E |-> x]
           s == SortedBy(E, key)
           n == Cardinality(E)
<1>1. /\ IsKey(E, key)
      /\ \A x \in E : /\ x = <<x[1], x[2]>> /\ x[1] \in Node /\ x[2] \in DOMAIN csr0[x[1]]
                      /\ csr0[x[1]][x[2]].vertex = v
      /\ \A u \in Node : \A j \in DOMAIN csr0[u] : csr0[u][j].vertex = v => <<u, j>> \in E
      /\ \A x, y \in E : x[1] = y[1] => x = y
  BY EnteringFacts
<1>2. row = [j \in DOMAIN s |-> [vertex |-> s[j][1], weight |-> csr0[s[j][1]][s[j][2]].weight]]
  BY DEF ReverseCSR
<1>3. \A x \in E : key[x] = x
  OBVIOUS
<1> HIDE DEF E, key
<1>4. /\ n \in Nat /\ s \in [1 .. n -> E]
      /\ \A x \in E : \E i \in 1 .. n : s[i] = x
      /\ \A i, j \in 1 .. n : i < j => Precedes(key[s[i]], key[s[j]])
      /\ \A i, j \in 1 .. n : s[i] = s[j] => i = j
  BY <1>1, SortedFacts
<1> HIDE DEF s, n
<1>5. DOMAIN row = 1 .. n /\ \A j \in 1 .. n : /\ s[j] \in E /\ row[j].vertex = s[j][1]
                                               /\ row[j] = [vertex |-> s[j][1], weight |-> csr0[s[j][1]][s[j][2]].weight]
  BY <1>2, <1>4
<1>6. ASSUME NEW i \in 1 .. n, NEW j \in 1 .. n, i < j PROVE row[i].vertex < row[j].vertex
  <2>1. Precedes(s[i], s[j]) /\ s[i] \in E /\ s[j] \in E /\ s[i] # s[j]
    BY <1>3, <1>4, <1>5, <1>6
  <2>2. s[i][1] # s[j][1]
    BY <1>1, <2>1
  <2> QED BY <1>5, <2>1, <2>2 DEF Precedes
<1>7. \A x \in E : csr0[x[1]][x[2]].weight = g[<<x[1], v>>] /\ <<x[1], v>> \in DOMAIN g
  <2> SUFFICES ASSUME NEW x \in E PROVE csr0[x[1]][x[2]].weight = g[<<x[1], v>>] /\ <<x[1], v>> \in DOMAIN g
    OBVIOUS
  <2>1. x[1] \in Node /\ x[2] \in DOMAIN csr0[x[1]] /\ csr0[x[1]][x[2]].vertex = v
    BY <1>1
  <2> DEFINE c == csr0[x[1]][x[2]]
  <2>2. c = [vertex |-> c.vertex, weight |-> g[<<x[1], c.vertex>>]] /\ <<x[1], c.vertex>> \in DOMAIN g /\ c.vertex = v
    BY <2>1 DEF Sorted
  <2> HIDE DEF c
  <2>3. c.weight = g[<<x[1], v>>]
    BY <2>2
  <2> QED BY <2>2, <2>3 DEF c
<1>8. \A j \in 1 .. n : row[j] = [vertex |-> s[j][1], weight |-> g[<<s[j][1], v>>]] /\ <<s[j][1], v>> \in DOMAIN g
  BY <1>5, <1>7
<1>9. ASSUME NEW u \in Node, <<u, v>> \in DOMAIN g
      PROVE  \E j \in 1 .. n : row[j] = [vertex |-> u, weight |-> g[<<u, v>>]]
  <2>1. PICK j \in DOMAIN csr0[u] : csr0[u][j].vertex = v
    BY <1>9 DEF Sorted
  <2>2. <<u, j>> \in E
    BY <1>1, <2>1
  <2>3. PICK i \in 1 .. n : s[i] = <<u, j>>
    BY <1>4, <2>2
  <2>4. s[i][1] = u
    BY <2>3
  <2> QED BY <1>8, <2>4
<1>10. ASSUME NEW u \in Node, NEW w \in 1 .. MaxWeight
       PROVE  [vertex |-> u, weight |-> w] \in Range(row) <=> <<u, v>> \in DOMAIN g /\ g[<<u, v>>] = w
  <2>1. Range(row) = {row[j] : j \in 1 .. n}
    BY <1>5 DEF Range
  <2>2. ASSUME [vertex |-> u, weight |-> w] \in Range(row) PROVE <<u, v>> \in DOMAIN g /\ g[<<u, v>>] = w
    <3>1. PICK j \in 1 .. n : row[j] = [vertex |-> u, weight |-> w]
      BY <2>1, <2>2
    <3>2. s[j][1] = u /\ g[<<s[j][1], v>>] = w
      <4>1. [vertex |-> u, weight |-> w] = [vertex |-> s[j][1], weight |-> g[<<s[j][1], v>>]]
        BY <1>8, <3>1
      <4> QED BY ONLY <4>1
    <3> QED BY <1>8, <3>2
  <2>3. ASSUME <<u, v>> \in DOMAIN g, g[<<u, v>>] = w PROVE [vertex |-> u, weight |-> w] \in Range(row)
    BY <1>9, <2>1, <2>3
  <2> QED BY <2>2, <2>3
<1> QED BY <1>5, <1>6, <1>10

LEMMA Mirrored ==
  ASSUME HostInv, Complete
  PROVE  SnapshotMirrors
<1> DEFINE out == DumpToCSR
           in == ReverseCSR(out)
           g == HostGraph
           ascending(row) == \A i, j \in DOMAIN row : i < j => row[i].vertex < row[j].vertex
<1>1. IsDigraph(g) /\ Sorted(out, g)
  BY HostDigraph, DumpIsLegacy, LegacySorted
<1>2. DOMAIN g = DOMAIN idOf /\ \A e \in DOMAIN idOf : g[e] = meta[idOf[e]].weight
  BY DEF HostGraph
<1> SUFFICES ASSUME NEW v \in Node
             PROVE  /\ ascending(out[v]) /\ ascending(in[v])
                    /\ \A u \in Node, w \in 1 .. MaxWeight :
                         /\ [vertex |-> v, weight |-> w] \in Range(out[u]) <=> [vertex |-> u, weight |-> w] \in Range(in[v])
                         /\ [vertex |-> v, weight |-> w] \in Range(out[u]) <=>
                              <<u, v>> \in DOMAIN idOf /\ meta[idOf[<<u, v>>]].weight = w
  BY DEF SnapshotMirrors
<1> HIDE DEF out, g
<1>3. ascending(out[v])
  BY <1>1 DEF Sorted
<1>4. /\ ascending(in[v])
      /\ \A u \in Node, w \in 1 .. MaxWeight :
           [vertex |-> u, weight |-> w] \in Range(in[v]) <=> <<u, v>> \in DOMAIN g /\ g[<<u, v>>] = w
  <2> DEFINE row == in[v]
  <2>1. row = ReverseCSR(out)[v]
    OBVIOUS
  <2> HIDE DEF row
  <2>2. /\ \A i, j \in DOMAIN row : i < j => row[i].vertex < row[j].vertex
        /\ \A u \in Node, w \in 1 .. MaxWeight :
             [vertex |-> u, weight |-> w] \in Range(row) <=> <<u, v>> \in DOMAIN g /\ g[<<u, v>>] = w
    BY <1>1, <2>1, ReverseRow
  <2> QED BY <2>2 DEF row
<1>5. ASSUME NEW u \in Node, NEW w \in 1 .. MaxWeight
      PROVE  [vertex |-> v, weight |-> w] \in Range(out[u]) <=> <<u, v>> \in DOMAIN g /\ g[<<u, v>>] = w
  <2> DEFINE row == out[u]
  <2>1. /\ \A j \in DOMAIN row : /\ <<u, row[j].vertex>> \in DOMAIN g
                                 /\ row[j] = [vertex |-> row[j].vertex, weight |-> g[<<u, row[j].vertex>>]]
        /\ <<u, v>> \in DOMAIN g => \E j \in DOMAIN row : row[j].vertex = v
    BY <1>1 DEF Sorted
  <2>2. Range(row) = {row[j] : j \in DOMAIN row}
    BY DEF Range
  <2> HIDE DEF row
  <2>3. ASSUME [vertex |-> v, weight |-> w] \in Range(row) PROVE <<u, v>> \in DOMAIN g /\ g[<<u, v>>] = w
    <3>1. PICK j \in DOMAIN row : row[j] = [vertex |-> v, weight |-> w]
      BY <2>2, <2>3
    <3>2. row[j].vertex = v /\ row[j].weight = w
      BY <3>1
    <3>3. row[j].weight = g[<<u, row[j].vertex>>]
      BY <2>1
    <3> QED BY <2>1, <3>2, <3>3
  <2>4. ASSUME <<u, v>> \in DOMAIN g, g[<<u, v>>] = w PROVE [vertex |-> v, weight |-> w] \in Range(row)
    <3>1. PICK j \in DOMAIN row : row[j].vertex = v
      BY <2>1, <2>4
    <3>2. row[j] = [vertex |-> v, weight |-> w]
      BY <2>1, <2>4, <3>1
    <3> QED BY <2>2, <3>2
  <2> QED BY <2>3, <2>4 DEF row
<1> HIDE DEF in
<1> QED BY <1>2, <1>3, <1>4, <1>5
-----------------------------------------------------------------------------
(***************************************************************************)
(* The change files.                                                       *)
(***************************************************************************)
EdgesIn(lines) == {lines[i].edge : i \in DOMAIN lines}

\* The graph after a list of insertions: the last one of an edge counts.
LEMMA LastWins ==
  ASSUME NEW g, NEW gone, NEW lines, NEW m \in Nat, NEW after, after = After(g, gone, lines, m)
  PROVE  /\ after = [e \in DOMAIN after |-> after[e]]
         /\ \A e : e \in DOMAIN after <=> e \in DOMAIN g \ gone \/ \E j \in 1 .. m : lines[j].edge = e
         /\ \A e \in DOMAIN g \ gone : (\A j \in 1 .. m : lines[j].edge # e) => after[e] = g[e]
         /\ \A i \in 1 .. m : (\A j \in 1 .. m : lines[j].edge = lines[i].edge => j <= i) =>
              after[lines[i].edge] = lines[i].weight
<1> DEFINE A(k) == After(g, gone, lines, k)
           Good(k) == /\ A(k) = [e \in DOMAIN A(k) |-> A(k)[e]]
                      /\ \A e : e \in DOMAIN A(k) <=> e \in DOMAIN g \ gone \/ \E j \in 1 .. k : lines[j].edge = e
                      /\ \A e \in DOMAIN g \ gone : (\A j \in 1 .. k : lines[j].edge # e) => A(k)[e] = g[e]
                      /\ \A i \in 1 .. k : (\A j \in 1 .. k : lines[j].edge = lines[i].edge => j <= i) =>
                           A(k)[lines[i].edge] = lines[i].weight
           T == {k \in Nat : Good(k)}
<1>1. 0 \in T
  <2>1. A(0) = [e \in DOMAIN g \ gone |-> g[e]]
    BY AfterStages DEF Kept
  <2> HIDE DEF A
  <2> QED BY <2>1
<1>2. ASSUME NEW k \in Nat, k \in T PROVE k + 1 \in T
  <2> DEFINE new == lines[k + 1]
  <2>1. A(k + 1) = [e \in DOMAIN A(k) \cup {new.edge} |-> IF e = new.edge THEN new.weight ELSE A(k)[e]]
    <3>1. A(k + 1) = Inserted(A(k), new)
      BY AfterStages
    <3> HIDE DEF A, new
    <3> QED BY <3>1 DEF Inserted
  <2>2. Good(k)
    BY <1>2
  <2>3. \A j \in 1 .. k + 1 : j \in 1 .. k \/ j = k + 1
    OBVIOUS
  <2>4. \A j \in 1 .. k : j \in 1 .. k + 1
    OBVIOUS
  <2> HIDE DEF A
  <2>5. \A e : e \in DOMAIN A(k + 1) <=> e \in DOMAIN g \ gone \/ \E j \in 1 .. k + 1 : lines[j].edge = e
    <3>1. \A e : (\E j \in 1 .. k + 1 : lines[j].edge = e) <=> (\E j \in 1 .. k : lines[j].edge = e) \/ e = new.edge
      <4>1. k + 1 \in 1 .. k + 1
        OBVIOUS
      <4> QED BY <2>3, <2>4, <4>1
    <3>2. DOMAIN A(k + 1) = DOMAIN A(k) \cup {new.edge}
      BY <2>1
    <3> QED BY <2>2, <3>1, <3>2
  <2>6. ASSUME NEW e \in DOMAIN g \ gone, \A j \in 1 .. k + 1 : lines[j].edge # e PROVE A(k + 1)[e] = g[e]
    <3>1. e # new.edge /\ \A j \in 1 .. k : lines[j].edge # e
      BY <2>4, <2>6
    <3> QED BY <2>1, <2>2, <3>1
  <2>7. ASSUME NEW i \in 1 .. k + 1, \A j \in 1 .. k + 1 : lines[j].edge = lines[i].edge => j <= i
        PROVE  A(k + 1)[lines[i].edge] = lines[i].weight
    <3>1. CASE i = k + 1
      BY <2>1, <3>1
    <3>2. CASE i \in 1 .. k
      <4>1. new.edge # lines[i].edge
        BY <2>7, <3>2
      <4>2. \A j \in 1 .. k : lines[j].edge = lines[i].edge => j <= i
        BY <2>4, <2>7
      <4>3. A(k)[lines[i].edge] = lines[i].weight /\ lines[i].edge \in DOMAIN A(k)
        <5>1. A(k)[lines[i].edge] = lines[i].weight
          BY <2>2, <3>2, <4>2
        <5>2. lines[i].edge \in DOMAIN A(k)
          BY <2>2, <3>2
        <5> QED BY <5>1, <5>2
      <4> QED BY <2>1, <4>1, <4>3
    <3> QED BY <2>3, <3>1, <3>2
  <2>8. A(k + 1) = [e \in DOMAIN A(k + 1) |-> A(k + 1)[e]]
    BY <2>1
  <2> QED BY <2>5, <2>6, <2>7, <2>8
<1> HIDE DEF T
<1>3. Nat \subseteq T
  BY <1>1, <1>2, NatSetInduction
<1>4. Good(m)
  BY <1>3 DEF T
<1> QED BY <1>4

\* dedup.
LEMMA LastPerEdgeFacts ==
  ASSUME NEW lines \in Seq(Insertion), NEW batch, batch = LastPerEdge(lines)
  PROVE  /\ batch \in Seq(Insertion) /\ EdgeOnce(batch) /\ EdgesIn(batch) = EdgesIn(lines)
         /\ \A j \in DOMAIN batch : \E i \in DOMAIN lines :
              /\ batch[j] = lines[i]
              /\ \A k \in DOMAIN lines : lines[k].edge = lines[i].edge => k <= i
<1> DEFINE places == {i \in DOMAIN lines : \A j \in DOMAIN lines : lines[j].edge = lines[i].edge => j <= i}
<1>1. batch = Sifted(lines, places) /\ places \in SUBSET DOMAIN lines
  BY DEF LastPerEdge
<1>2. Len(lines) \in Nat /\ DOMAIN lines = 1 .. Len(lines)
  OBVIOUS
<1>3. \A i \in places : /\ i \in 1 .. Len(lines)
                        /\ \A j \in DOMAIN lines : lines[j].edge = lines[i].edge => j <= i
  BY <1>2
<1>4. ASSUME NEW i \in DOMAIN lines PROVE \E k \in places : lines[k].edge = lines[i].edge
  <2> DEFINE S == {j \in DOMAIN lines : lines[j].edge = lines[i].edge}
  <2>1. S \in SUBSET (1 .. Len(lines)) /\ S # {}
    BY <1>2
  <2>2. PICK x \in S : \A y \in S : y <= x
    BY <1>2, <2>1, Greatest
  <2> QED BY <2>2
<1> HIDE DEF places
<1>5. /\ batch \in Seq(Insertion) /\ Range(batch) = {lines[i] : i \in places}
      /\ \A j \in DOMAIN batch : \E i \in places : batch[j] = lines[i]
      /\ \A j, k \in DOMAIN batch : j # k => \E a, b \in places : a # b /\ batch[j] = lines[a] /\ batch[k] = lines[b]
  BY <1>1, SiftedFacts
<1>6. EdgeOnce(batch)
  <2> SUFFICES ASSUME NEW j \in DOMAIN batch, NEW k \in DOMAIN batch, batch[j].edge = batch[k].edge, j # k
               PROVE  FALSE
    BY DEF EdgeOnce
  <2>1. PICK a \in places, b \in places : a # b /\ batch[j] = lines[a] /\ batch[k] = lines[b]
    BY <1>5
  <2>2. a <= b /\ b <= a /\ a \in 1 .. Len(lines) /\ b \in 1 .. Len(lines)
    BY <1>2, <1>3, <2>1
  <2> QED BY <2>1, <2>2
<1>7. EdgesIn(batch) = EdgesIn(lines)
  <2>1. \A j \in DOMAIN batch : batch[j].edge \in EdgesIn(lines)
    BY <1>1, <1>5 DEF EdgesIn
  <2>2. ASSUME NEW i \in DOMAIN lines PROVE lines[i].edge \in EdgesIn(batch)
    <3>1. PICK k \in places : lines[k].edge = lines[i].edge
      BY <1>4
    <3>2. lines[k] \in Range(batch)
      BY <1>5
    <3>3. PICK j \in DOMAIN batch : batch[j] = lines[k]
      BY <3>2 DEF Range
    <3> QED BY <3>1, <3>3 DEF EdgesIn
  <2> QED BY <2>1, <2>2 DEF EdgesIn
<1> QED BY <1>1, <1>3, <1>5, <1>6, <1>7

\* Whatever is inserted was deleted before: the graph of the legacy update.
LEMMA UpsertIsApplied ==
  ASSUME NEW g, NEW gone, NEW lines \in Seq(Insertion), NEW batch, batch = LastPerEdge(lines),
         NEW h, h = [e \in DOMAIN h |-> h[e]],
         DOMAIN h = (DOMAIN g \ (gone \cup EdgesIn(lines))) \cup EdgesIn(batch),
         \A e \in DOMAIN g \ (gone \cup EdgesIn(lines)) : h[e] = g[e],
         \A i \in DOMAIN batch : h[batch[i].edge] = batch[i].weight
  PROVE  h = Applied(g, gone, lines)
<1> DEFINE A == Applied(g, gone, lines)
           m == Len(lines)
<1>1. m \in Nat /\ DOMAIN lines = 1 .. m
  OBVIOUS
<1>2. /\ A = [e \in DOMAIN A |-> A[e]]
      /\ \A e : e \in DOMAIN A <=> e \in DOMAIN g \ gone \/ \E j \in 1 .. m : lines[j].edge = e
      /\ \A e \in DOMAIN g \ gone : (\A j \in 1 .. m : lines[j].edge # e) => A[e] = g[e]
      /\ \A i \in 1 .. m : (\A j \in 1 .. m : lines[j].edge = lines[i].edge => j <= i) =>
           A[lines[i].edge] = lines[i].weight
  <2>1. A = After(g, gone, lines, m)
    BY DEF Applied
  <2> HIDE DEF A, m
  <2> QED BY <1>1, <2>1, LastWins
<1> HIDE DEF A, m
<1>3. EdgesIn(lines) = {lines[j].edge : j \in 1 .. m} /\ EdgesIn(batch) = EdgesIn(lines)
  <2>1. EdgesIn(batch) = EdgesIn(lines)
    BY LastPerEdgeFacts
  <2>2. EdgesIn(lines) = {lines[j].edge : j \in 1 .. m}
    BY ONLY <1>1 DEF EdgesIn
  <2> QED BY <2>1, <2>2
<1>4. DOMAIN h = DOMAIN A
  BY <1>2, <1>3
<1>5. ASSUME NEW e \in DOMAIN h PROVE h[e] = A[e]
  <2>1. CASE e \in EdgesIn(batch)
    <3>1. PICK j \in DOMAIN batch : e = batch[j].edge
      BY <2>1 DEF EdgesIn
    <3>2. PICK i \in DOMAIN lines : /\ batch[j] = lines[i]
                                    /\ \A k \in DOMAIN lines : lines[k].edge = lines[i].edge => k <= i
      BY LastPerEdgeFacts
    <3>3. A[lines[i].edge] = lines[i].weight
      BY <1>1, <1>2, <3>2
    <3> QED BY <3>1, <3>2, <3>3
  <2>2. CASE e \in DOMAIN g \ (gone \cup EdgesIn(lines))
    <3>1. \A j \in 1 .. m : lines[j].edge # e
      BY <1>3, <2>2
    <3> QED BY <1>2, <2>2, <3>1
  <2> QED BY <2>1, <2>2
<1> QED BY <1>2, <1>4, <1>5 DEF A
-----------------------------------------------------------------------------
(***************************************************************************)
(* The inductive invariant of the two clients.  That the map is complete,  *)
(* and with it that the dump is right, needs batches that name no edge     *)
(* twice; updateGraphWithESCHER makes its own so, the other client need    *)
(* not.                                                                    *)
(***************************************************************************)
NoEdgeTwice == \A batch \in InsertBatches : EdgeOnce(batch)

FilesOK ==
  /\ IsDigraph(original)
  /\ deletes \in Seq(Int \X Int) /\ inserts \in Seq(Insertion)
  /\ stage \in {"deletes", "collisions", "inserts", "write", "written", "failed", "direct"}

MapComplete == NoEdgeTwice \/ stage # "direct" => Complete

StagesOK ==
  LET gone == Range(ListedDeletes) IN
  /\ stage \in {"deletes", "collisions", "inserts"} => outcome = "ok"
  /\ stage = "deletes" => HostGraph = original
  /\ stage = "collisions" => HostGraph = Kept(original, gone)
  /\ stage = "inserts" => HostGraph = Kept(original, gone \cup EdgesIn(ListedInserts))
  /\ stage = "write" => HostGraph = Applied(original, gone, ListedInserts)
  /\ stage = "written" => csr = LegacyCsr(Applied(original, gone, ListedInserts))
  /\ stage = "failed" => outcome = "threw"

GraphUpdateInv == FilesOK /\ DynamicInv /\ MapComplete /\ StagesOK

LEMMA ListedFacts ==
  ASSUME FilesOK
  PROVE  /\ \A i \in DOMAIN ListedDeletes : InRange(ListedDeletes[i])
         /\ ListedInserts \in Seq(Insertion)
         /\ \A i \in DOMAIN ListedInserts : InRange(ListedInserts[i].edge)
<1> DEFINE there == {i \in DOMAIN deletes : InRange(deletes[i])}
           here == {i \in DOMAIN inserts : InRange(inserts[i].edge)}
           D == Int \X Int
<1>1. /\ deletes \in Seq(D) /\ there \in SUBSET DOMAIN deletes /\ ListedDeletes = Sifted(deletes, there)
      /\ inserts \in Seq(Insertion) /\ here \in SUBSET DOMAIN inserts /\ ListedInserts = Sifted(inserts, here)
  BY DEF FilesOK, ListedDeletes, ListedInserts
<1>2. /\ \A i \in there : InRange(deletes[i])
      /\ \A i \in here : InRange(inserts[i].edge)
  OBVIOUS
<1> HIDE DEF there, here, D
<1>3. \A j \in DOMAIN ListedDeletes : \E i \in there : ListedDeletes[j] = deletes[i]
  BY <1>1, SiftedFacts
<1>4. ListedInserts \in Seq(Insertion) /\ \A j \in DOMAIN ListedInserts : \E i \in here : ListedInserts[j] = inserts[i]
  BY <1>1, SiftedFacts
<1> QED BY <1>2, <1>3, <1>4

LEMMA UpdateInit == GraphUpdateInit => GraphUpdateInv
<1> SUFFICES ASSUME GraphUpdateInit PROVE GraphUpdateInv
  OBVIOUS
<1>1. /\ original \in InitialGraphs /\ StartsWith(original)
      /\ \/ stage = "deletes" /\ deletes \in DeleteFiles /\ inserts \in InsertFiles
         \/ stage = "direct" /\ deletes = <<>> /\ inserts = <<>>
  BY DEF GraphUpdateInit
<1>2. IsDigraph(original)
  BY <1>1, GraphsAssumption
<1>3. <<>> \in Seq(Int \X Int) /\ <<>> \in Seq(Insertion)
  OBVIOUS
<1>4. FilesOK
  BY <1>1, <1>2, <1>3, FilesAssumption DEF FilesOK, Insertion
<1>5. DynamicInv /\ Complete /\ HostGraph = original
  BY <1>1, <1>2, LoadedGraph
<1>6. outcome = "ok"
  BY <1>1 DEF StartsWith
<1> QED BY <1>1, <1>4, <1>5, <1>6 DEF GraphUpdateInv, MapComplete, StagesOK

\* The insertions of the change file: one of the three outcomes, never a
\* refusal, and the graph of the legacy update if it is "ok".
LEMMA InsertsApplied ==
  ASSUME DynamicInv, Complete, NEW g, NEW gone, NEW lines \in Seq(Insertion),
         \A i \in DOMAIN lines : InRange(lines[i].edge),
         HostGraph = Kept(g, gone \cup EdgesIn(lines)),
         NEW batch, batch = LastPerEdge(lines), InsertCall(batch)
  PROVE  /\ Insertable(batch)
         /\ outcome' = "ok" \/ outcome' = "threw"
         /\ outcome' = "ok" => HostGraph' = Applied(g, gone, lines)
<1>1. /\ batch \in Seq(Insertion) /\ EdgeOnce(batch) /\ EdgesIn(batch) = EdgesIn(lines)
      /\ \A j \in DOMAIN batch : \E i \in DOMAIN lines : batch[j] = lines[i]
  BY LastPerEdgeFacts
<1>2. /\ DOMAIN HostGraph = DOMAIN g \ (gone \cup EdgesIn(lines))
      /\ \A e \in DOMAIN HostGraph : HostGraph[e] = g[e]
  BY DEF Kept
<1>3. DOMAIN idOf = DOMAIN HostGraph
  BY DEF HostGraph
<1>4. Insertable(batch)
  <2>1. \A i \in DOMAIN batch : InRange(batch[i].edge)
    BY <1>1
  <2>2. \A i \in DOMAIN batch : batch[i].edge \in EdgesIn(lines)
    BY <1>1 DEF EdgesIn
  <2> QED BY <1>2, <1>3, <2>1, <2>2 DEF Insertable, AlreadyThere
<1>5. CASE InsertThrows(batch) \/ FillThrows(batch)
  BY <1>4, <1>5 DEF InsertThrows, FillThrows
<1>6. CASE InsertEdges(batch)
  <2>1. PICK place \in Edges!Placements(DOMAIN batch) : Adopt(batch, place)
    BY <1>6 DEF InsertEdges
  <2>2. /\ DOMAIN HostGraph' = DOMAIN HostGraph \cup EdgesIn(batch)
        /\ \A e \in DOMAIN HostGraph : HostGraph'[e] = HostGraph[e]
        /\ \A i \in DOMAIN batch : HostGraph'[batch[i].edge] = batch[i].weight
    BY <1>1, <1>4, <2>1, AdoptComplete DEF DynamicInv, EdgesIn
  <2> DEFINE h == HostGraph'
  <2>3. h = [e \in DOMAIN h |-> h[e]]
    <3>1. h = [e \in DOMAIN idOf' |-> meta'[idOf'[e]].weight]
      BY DEF HostGraph
    <3> HIDE DEF h
    <3> QED BY <3>1
  <2>4. /\ DOMAIN h = (DOMAIN g \ (gone \cup EdgesIn(lines))) \cup EdgesIn(batch)
        /\ \A e \in DOMAIN g \ (gone \cup EdgesIn(lines)) : h[e] = g[e]
        /\ \A i \in DOMAIN batch : h[batch[i].edge] = batch[i].weight
    BY <1>2, <2>2
  <2> HIDE DEF h
  <2>5. h = Applied(g, gone, lines)
    BY <2>3, <2>4, UpsertIsApplied
  <2>6. outcome' = "ok"
    BY <1>6 DEF InsertEdges
  <2> QED BY <1>4, <2>5, <2>6 DEF h
<1>7. ~ InsertRefused(batch)
  BY <1>4 DEF InsertRefused
<1> QED BY <1>5, <1>6, <1>7 DEF InsertCall

LEMMA UpdateStep == GraphUpdateInv /\ [GraphUpdateNext]_graphUpdateVars => GraphUpdateInv'
<1> SUFFICES ASSUME GraphUpdateInv, [GraphUpdateNext]_graphUpdateVars PROVE GraphUpdateInv'
  OBVIOUS
<1>0. FilesOK /\ DynamicInv /\ MapComplete /\ StagesOK
  BY DEF GraphUpdateInv
<1>1. /\ \A i \in DOMAIN ListedDeletes : InRange(ListedDeletes[i])
      /\ ListedInserts \in Seq(Insertion)
      /\ \A i \in DOMAIN ListedInserts : InRange(ListedInserts[i].edge)
  BY <1>0, ListedFacts
<1>2. ASSUME UNCHANGED fileVars, stage' \in {"deletes", "collisions", "inserts", "write", "written", "failed", "direct"}
      PROVE  FilesOK' /\ ListedDeletes' = ListedDeletes /\ ListedInserts' = ListedInserts /\ original' = original
  BY <1>0, <1>2 DEF fileVars, FilesOK, ListedDeletes, ListedInserts
<1>3. CASE ApplyDeletes
  <2>1. /\ stage = "deletes" /\ stage' = "collisions" /\ DeleteCall(ListedDeletes) /\ UNCHANGED fileVars
    BY <1>3 DEF ApplyDeletes
  <2>2. FilesOK' /\ ListedDeletes' = ListedDeletes /\ original' = original
    BY <1>2, <2>1
  <2>3. /\ DynamicInv' /\ (Complete => Complete') /\ outcome' = "ok"
        /\ HostGraph' = [e \in DOMAIN HostGraph \ Range(ListedDeletes) |-> HostGraph[e]]
    BY <1>0, <1>1, <2>1, DeleteKeeps
  <2>4. HostGraph' = Kept(original, Range(ListedDeletes))
    BY <1>0, <2>1, <2>3 DEF StagesOK, Kept
  <2>5. MapComplete'
    BY <1>0, <2>1, <2>3 DEF MapComplete
  <2>6. StagesOK'
    BY <2>1, <2>2, <2>3, <2>4 DEF StagesOK
  <2> QED BY <2>2, <2>3, <2>5, <2>6 DEF GraphUpdateInv
<1>4. CASE DeleteCollisions
  <2> DEFINE batch == [i \in DOMAIN ListedInserts |-> ListedInserts[i].edge]
  <2>1. /\ stage = "collisions" /\ stage' = "inserts" /\ DeleteCall(batch) /\ UNCHANGED fileVars
    BY <1>4 DEF DeleteCollisions
  <2>2. FilesOK' /\ ListedDeletes' = ListedDeletes /\ ListedInserts' = ListedInserts /\ original' = original
    BY <1>2, <2>1
  <2>3. (\A i \in DOMAIN batch : InRange(batch[i])) /\ Range(batch) = EdgesIn(ListedInserts)
    BY <1>1 DEF Range, EdgesIn
  <2> HIDE DEF batch
  <2>4. /\ DynamicInv' /\ (Complete => Complete') /\ outcome' = "ok"
        /\ HostGraph' = [e \in DOMAIN HostGraph \ Range(batch) |-> HostGraph[e]]
    BY <1>0, <2>1, <2>3, DeleteKeeps
  <2>5. HostGraph' = Kept(original, Range(ListedDeletes) \cup EdgesIn(ListedInserts))
    BY <1>0, <2>1, <2>3, <2>4 DEF StagesOK, Kept
  <2>6. MapComplete'
    BY <1>0, <2>1, <2>4 DEF MapComplete
  <2>7. StagesOK'
    BY <2>1, <2>2, <2>4, <2>5 DEF StagesOK
  <2> QED BY <2>2, <2>4, <2>6, <2>7 DEF GraphUpdateInv
<1>5. CASE ApplyInserts
  <2> DEFINE batch == LastPerEdge(ListedInserts)
             gone == Range(ListedDeletes)
  <2>1. /\ stage = "inserts" /\ UNCHANGED fileVars
        /\ IF ListedInserts = <<>> THEN UNCHANGED dynamicVars ELSE InsertCall(batch)
        /\ stage' = IF outcome' = "ok" THEN "write" ELSE "failed"
    BY <1>5 DEF ApplyInserts
  <2>2. /\ FilesOK' /\ ListedDeletes' = ListedDeletes /\ ListedInserts' = ListedInserts /\ original' = original
    BY <1>2, <2>1
  <2>3. HostGraph = Kept(original, gone \cup EdgesIn(ListedInserts)) /\ outcome = "ok" /\ Complete
    BY <1>0, <2>1 DEF StagesOK, MapComplete
  <2>4. batch = LastPerEdge(ListedInserts) /\ batch \in Seq(Insertion) /\ EdgeOnce(batch)
    BY <1>1, LastPerEdgeFacts
  <2> HIDE DEF batch, gone
  <2>5. CASE ListedInserts = <<>>
    <3>1. UNCHANGED dynamicVars
      BY <2>1, <2>5
    <3>2. UNCHANGED hostVars /\ UNCHANGED <<edgeRows, outRows, inRows, numEdges, whole, outcome>>
      BY <3>1 DEF dynamicVars, treeVars
    <3>3. HostGraph' = HostGraph /\ HostInv' /\ Complete'
      BY <1>0, <2>3, <3>2, HostKept DEF DynamicInv
    <3>4. DynamicInv'
      BY <1>0, <3>2, <3>3 DEF DynamicInv, TreesOK, RecordsKept, LockStep, SameEdges, hostVars
    <3>5. HostGraph = Applied(original, gone, ListedInserts)
      <4>1. EdgesIn(ListedInserts) = {} /\ Len(ListedInserts) = 0
        BY <2>5 DEF EdgesIn
      <4>2. gone \cup EdgesIn(ListedInserts) = gone
        BY <4>1
      <4> QED BY <2>3, <4>1, <4>2, AfterStages DEF Applied
    <3>6. stage' = "write" /\ outcome' = "ok"
      BY <2>1, <2>3, <3>2
    <3>7. MapComplete' /\ StagesOK'
      BY <2>2, <3>3, <3>5, <3>6 DEF MapComplete, StagesOK, gone
    <3> QED BY <2>2, <3>4, <3>7 DEF GraphUpdateInv
  <2>6. CASE ListedInserts # <<>>
    <3>1. InsertCall(batch)
      BY <2>1, <2>6
    <3>2. DynamicInv' /\ Complete'
      BY <1>0, <2>3, <2>4, <3>1, InsertKeeps
    <3>3. /\ outcome' = "ok" \/ outcome' = "threw"
          /\ outcome' = "ok" => HostGraph' = Applied(original, gone, ListedInserts)
      BY <1>0, <1>1, <2>3, <2>4, <3>1, InsertsApplied
    <3>4. MapComplete' /\ StagesOK'
      BY <2>1, <2>2, <3>2, <3>3 DEF MapComplete, StagesOK, gone
    <3> QED BY <2>2, <3>2, <3>4 DEF GraphUpdateInv
  <2> QED BY <2>5, <2>6
<1>6. ASSUME UNCHANGED dynamicVars PROVE DynamicInv' /\ (Complete => Complete') /\ HostGraph' = HostGraph /\ outcome' = outcome
  <2>1. UNCHANGED hostVars /\ UNCHANGED <<edgeRows, outRows, inRows, numEdges, whole, outcome>>
    BY <1>6 DEF dynamicVars, treeVars
  <2>2. HostGraph' = HostGraph /\ HostInv' /\ (Complete => Complete')
    BY <1>0, <2>1, HostKept DEF DynamicInv
  <2> QED BY <1>0, <2>1, <2>2 DEF DynamicInv, TreesOK, RecordsKept, LockStep, SameEdges, hostVars
<1>7. CASE WriteCsr
  <2>1. stage = "write" /\ stage' = "written" /\ csr' = DumpToCSR /\ UNCHANGED dynamicVars /\ UNCHANGED fileVars
    BY <1>7 DEF WriteCsr
  <2>2. FilesOK' /\ ListedDeletes' = ListedDeletes /\ ListedInserts' = ListedInserts /\ original' = original
    BY <1>2, <2>1
  <2>3. Complete /\ HostGraph = Applied(original, Range(ListedDeletes), ListedInserts)
    BY <1>0, <2>1 DEF MapComplete, StagesOK
  <2>4. csr' = LegacyCsr(Applied(original, Range(ListedDeletes), ListedInserts))
    BY <1>0, <2>1, <2>3, DumpIsLegacy DEF DynamicInv
  <2>5. DynamicInv' /\ Complete'
    BY <1>6, <2>1, <2>3
  <2>6. MapComplete' /\ StagesOK'
    BY <2>1, <2>2, <2>4, <2>5 DEF MapComplete, StagesOK
  <2> QED BY <2>2, <2>5, <2>6 DEF GraphUpdateInv
<1>8. CASE UseDirectly
  <2>1. stage = "direct" /\ stage' = "direct" /\ UNCHANGED fileVars /\ DynamicNext
    BY <1>8 DEF UseDirectly
  <2>2. DynamicInv' /\ (NoEdgeTwice /\ Complete => Complete')
    <3>1. CASE \E batch \in InsertBatches : InsertCall(batch)
      <4>1. PICK batch \in InsertBatches : InsertCall(batch)
        BY <3>1
      <4>2. batch \in Seq(Insertion) /\ (NoEdgeTwice => EdgeOnce(batch))
        BY GraphsAssumption DEF Insertion, NoEdgeTwice
      <4> QED BY <1>0, <4>1, <4>2, InsertKeeps
    <3>2. CASE \E batch \in DeleteBatches : DeleteCall(batch)
      BY <1>0, <3>2, DeleteKeeps
    <3> QED BY <2>1, <3>1, <3>2 DEF DynamicNext
  <2>3. FilesOK'
    BY <1>2, <2>1
  <2>4. MapComplete'
    BY <1>0, <2>1, <2>2 DEF MapComplete, NoEdgeTwice, EdgeOnce
  <2>5. StagesOK'
    BY <2>1 DEF StagesOK
  <2> QED BY <2>2, <2>3, <2>4, <2>5 DEF GraphUpdateInv
<1>9. CASE UNCHANGED graphUpdateVars
  <2>1. UNCHANGED dynamicVars /\ UNCHANGED fileVars /\ stage' = stage /\ csr' = csr
    BY <1>9 DEF graphUpdateVars
  <2>2. FilesOK' /\ ListedDeletes' = ListedDeletes /\ ListedInserts' = ListedInserts /\ original' = original
    BY <1>0, <1>2, <2>1 DEF FilesOK
  <2>3. DynamicInv' /\ (Complete => Complete') /\ HostGraph' = HostGraph /\ outcome' = outcome
    BY <1>6, <2>1
  <2>4. MapComplete' /\ StagesOK'
    BY <1>0, <2>1, <2>2, <2>3 DEF MapComplete, StagesOK, NoEdgeTwice, EdgeOnce
  <2> QED BY <2>2, <2>3, <2>4 DEF GraphUpdateInv
<1> QED BY <1>3, <1>4, <1>5, <1>7, <1>8, <1>9 DEF GraphUpdateNext

LEMMA UpdateInvariant == GraphUpdateSpec => []GraphUpdateInv
BY UpdateInit, UpdateStep, PTL DEF GraphUpdateSpec
-----------------------------------------------------------------------------
(***************************************************************************)
(* The theorems.                                                           *)
(***************************************************************************)
LEMMA InvHostSound == NoEdgeTwice /\ GraphUpdateInv => HostSound
<1> SUFFICES ASSUME NoEdgeTwice, GraphUpdateInv PROVE HostSound
  OBVIOUS
<1>1. HostInv /\ RecordsKept /\ Complete
  BY DEF GraphUpdateInv, DynamicInv, MapComplete
<1>2. HostAgrees
  BY <1>1 DEF HostInv, Shadows, MapSound, Complete, Ends, HostAgrees
<1>3. NoParallelEdges
  BY <1>1 DEF Complete
<1>4. SnapshotMirrors
  BY <1>1, Mirrored
<1> QED BY <1>1, <1>2, <1>3, <1>4 DEF HostSound

LEMMA InvUpdateMatches == GraphUpdateInv => UpdateMatches
BY DEF GraphUpdateInv, StagesOK, UpdateMatches, SameAsLegacy, OnlyFullFails

\* The metadata, the map, the shadows and the rows of the trees keep their
\* types, whatever a call throws (DynamicGraph.cpp).
THEOREM DynamicTypeCorrect == GraphUpdateSpec => [](HostTypeOK /\ TreesOK)
<1>1. GraphUpdateInv => HostTypeOK /\ TreesOK
  BY DEF GraphUpdateInv, DynamicInv, HostInv
<1> QED BY <1>1, UpdateInvariant, PTL

\* "The shadow is updated in lock-step with every ESCHER operation": as long
\* as no call has thrown in its middle the three trees hold exactly the edges
\* of the host, each id once in the row of its tail and once in that of its
\* head, whatever is inserted, an edge twice in a batch included.
THEOREM TreesInLockStep == GraphUpdateSpec => []LockStep
<1>1. GraphUpdateInv => LockStep
  BY DEF GraphUpdateInv, DynamicInv
<1> QED BY <1>1, UpdateInvariant, PTL

\* Whatever has thrown, the record of every live edge is in its tree with the
\* ends and the weight that the host has for it, and the shadows and the map
\* lead to nothing else.
THEOREM NoRecordLost == GraphUpdateSpec => [](RecordsKept /\ Shadows /\ MapSound)
<1>1. GraphUpdateInv => RecordsKept /\ Shadows /\ MapSound
  BY DEF GraphUpdateInv, DynamicInv, HostInv
<1> QED BY <1>1, UpdateInvariant, PTL

\* If no batch of the direct client names an edge twice, what the host believes
\* is one graph without parallel edges, and a snapshot shows it from both
\* sides, each row in ascending order (insertEdges, dumpToCSR, snapshot).
THEOREM HostStaysSound == NoEdgeTwice => (GraphUpdateSpec => []HostSound)
<1>1. NoEdgeTwice /\ [GraphUpdateNext]_graphUpdateVars => NoEdgeTwice'
  BY DEF NoEdgeTwice, EdgeOnce
<1> QED BY <1>1, InvHostSound, UpdateInvariant, PTL DEF GraphUpdateSpec

\* updateGraphWithESCHER writes the CSR of the legacy updateGraphCSR for every
\* graph and every pair of change files, and fails only when a CBST is full.
THEOREM UpdateIsLegacy == GraphUpdateSpec => []UpdateMatches
<1> QED BY InvUpdateMatches, UpdateInvariant, PTL
=============================================================================
