----------------------- MODULE WeightedDigraphProofs -----------------------
(***************************************************************************)
(* Lemmas about WeightedDigraph, for every directed graph with positive    *)
(* weights: distances that no edge could lower and that are each supported *)
(* by an edge are those of the cheapest walks, and what a batch of changes *)
(* does to an edge.                                                        *)
(*                                                                         *)
(* The definitions recurse over walks and over the insertions of a batch;  *)
(* that their functions exist and unfold is proved first, and inductions   *)
(* are over sets of numbers.                                               *)
(***************************************************************************)
EXTENDS WeightedDigraph, FiniteSetTheorems, WellFoundedInduction, TLAPS

\* A nonempty set of natural numbers has a least one.
LEMMA LeastNatural ==
  ASSUME NEW S \in SUBSET Nat, S # {}
  PROVE  \E x \in S : \A y \in S : x <= y
<1> DEFINE R == OpToRel(<, Nat)
<1>1. IsWellFoundedOn(R, Nat)
  BY NatLessThanWellFounded
<1>2. \A x, y \in Nat : <<x, y>> \in R <=> x < y
  BY DEF OpToRel
<1> HIDE DEF R
<1>3. PICK x \in S : \A y \in S : ~ (<<y, x>> \in R)
  BY <1>1, WFMin
<1>4. ASSUME NEW y \in S PROVE x <= y
  <2>1. ~ (y < x)
    BY <1>2, <1>3
  <2> QED BY <2>1
<1> QED BY <1>4

\* A set that contains 0 and the successors of its members contains them all.
LEMMA NatSetInduction ==
  ASSUME NEW T, 0 \in T, \A n \in Nat : n \in T => n + 1 \in T
  PROVE  Nat \subseteq T
<1> SUFFICES ASSUME Nat \ T # {} PROVE FALSE
  OBVIOUS
<1>1. PICK m \in Nat \ T : \A y \in Nat \ T : m <= y
  BY LeastNatural
<1>2. m # 0 /\ m - 1 \in Nat /\ m - 1 \in T
  BY <1>1
<1> QED BY <1>1, <1>2

LEMMA LeastOfFacts ==
  ASSUME NEW S \in SUBSET Nat, S # {}
  PROVE  LeastOf(S) \in S /\ \A x \in S : LeastOf(S) <= x
<1>1. \E x \in S : \A y \in S : x <= y
  BY LeastNatural
<1> QED BY <1>1 DEF LeastOf

-----------------------------------------------------------------------------
(***************************************************************************)
(* Bellman's recursion, unfolded.                                          *)
(***************************************************************************)
NoWalk == [v \in Node |-> IF v = Source THEN 0 ELSE Inf]

OneMore(g, shorter) ==
  [v \in Node |->
     LeastOf({shorter[v]} \cup {shorter[u] + g[<<u, v>>] : u \in {x \in InNeighbours(g, v) : shorter[x] # Inf}})]

\* f is the first m rounds of the recursion.
Rounds(g, m, f) == f = [k \in 0 .. m |-> IF k = 0 THEN NoWalk ELSE OneMore(g, f[k - 1])]

\* One round follows from the one before, and so the rounds are unique.
LEMMA RoundsExtend ==
  ASSUME NEW g, NEW m \in Nat, NEW f, Rounds(g, m, f), \A h : Rounds(g, m, h) => h = f
  PROVE  \E e : /\ Rounds(g, m + 1, e) /\ \A h : Rounds(g, m + 1, h) => h = e
                /\ e[m + 1] = OneMore(g, f[m])
<1> DEFINE e == [k \in 0 .. m + 1 |-> IF k \in 0 .. m THEN f[k] ELSE OneMore(g, f[m])]
<1>1. f = [k \in 0 .. m |-> IF k = 0 THEN NoWalk ELSE OneMore(g, f[k - 1])]
  BY DEF Rounds
<1>2. /\ \A k \in 0 .. m : e[k] = f[k]
      /\ e[m + 1] = OneMore(g, f[m])
      /\ e = [k \in 0 .. m + 1 |-> e[k]]
  OBVIOUS
<1> HIDE DEF e
<1>3. ASSUME NEW k \in 0 .. m + 1 PROVE e[k] = IF k = 0 THEN NoWalk ELSE OneMore(g, e[k - 1])
  <2>1. CASE k = 0
    BY <1>1, <1>2, <2>1
  <2>2. CASE k \in 1 .. m
    <3>1. k \in 0 .. m /\ k - 1 \in 0 .. m /\ k # 0
      BY <2>2
    <3>2. e[k] = f[k] /\ e[k - 1] = f[k - 1]
      BY <1>2, <3>1
    <3> QED BY <1>1, <3>1, <3>2
  <2>3. CASE k = m + 1
    <3>1. e[k - 1] = f[m]
      BY <1>2, <2>3
    <3> QED BY <1>2, <2>3, <3>1
  <2> QED BY <2>1, <2>2, <2>3
<1>4. Rounds(g, m + 1, e)
  BY <1>2, <1>3 DEF Rounds
<1>5. ASSUME NEW h, Rounds(g, m + 1, h) PROVE h = e
  <2> DEFINE r == [k \in 0 .. m |-> h[k]]
  <2>1. h = [k \in 0 .. m + 1 |-> IF k = 0 THEN NoWalk ELSE OneMore(g, h[k - 1])]
    BY <1>5 DEF Rounds
  <2>2. ASSUME NEW k \in 0 .. m PROVE r[k] = IF k = 0 THEN NoWalk ELSE OneMore(g, r[k - 1])
    <3>1. k # 0 => r[k - 1] = h[k - 1]
      OBVIOUS
    <3>2. r[k] = h[k] /\ k \in 0 .. m + 1
      OBVIOUS
    <3> HIDE DEF r
    <3> QED BY <2>1, <3>1, <3>2
  <2>3. r = [k \in 0 .. m |-> r[k]] /\ \A k \in 0 .. m : r[k] = h[k]
    OBVIOUS
  <2> HIDE DEF r
  <2>4. Rounds(g, m, r)
    BY <2>2, <2>3 DEF Rounds
  <2>5. r = f
    BY <2>4
  <2>6. h[m + 1] = OneMore(g, h[m])
    BY <2>1
  <2>7. ASSUME NEW k \in 0 .. m + 1 PROVE h[k] = e[k]
    <3>1. \A j \in 0 .. m : h[j] = e[j]
      BY <1>2, <2>3, <2>5
    <3>2. k \in 0 .. m \/ k = m + 1
      OBVIOUS
    <3>3. m \in 0 .. m
      OBVIOUS
    <3> QED BY <1>2, <2>3, <2>5, <2>6, <3>1, <3>2, <3>3
  <2>8. h = [k \in 0 .. m + 1 |-> h[k]]
    BY <2>1
  <2> QED BY <1>2, <2>7, <2>8
<1> QED BY <1>2, <1>4, <1>5

LEMMA RoundsExist ==
  ASSUME NEW g
  PROVE  \A m \in Nat : \E f : Rounds(g, m, f) /\ \A h : Rounds(g, m, h) => h = f
<1> DEFINE T == {m \in Nat : \E f : Rounds(g, m, f) /\ \A h : Rounds(g, m, h) => h = f}
<1>1. 0 \in T
  <2> DEFINE f == [k \in 0 .. 0 |-> NoWalk]
  <2>1. f = [k \in 0 .. 0 |-> IF k = 0 THEN NoWalk ELSE OneMore(g, f[k - 1])]
    OBVIOUS
  <2>2. Rounds(g, 0, f)
    BY <2>1 DEF Rounds
  <2>3. ASSUME NEW h, Rounds(g, 0, h) PROVE h = f
    <3>1. h = [k \in 0 .. 0 |-> IF k = 0 THEN NoWalk ELSE OneMore(g, h[k - 1])]
      BY <2>3 DEF Rounds
    <3>2. \A k \in 0 .. 0 : h[k] = NoWalk
      BY <3>1
    <3>3. h = [k \in 0 .. 0 |-> h[k]]
      BY <3>1
    <3> QED BY <3>2, <3>3
  <2> HIDE DEF f
  <2> QED BY <2>2, <2>3
<1>2. ASSUME NEW m \in Nat, m \in T PROVE m + 1 \in T
  <2>1. PICK f : Rounds(g, m, f) /\ \A h : Rounds(g, m, h) => h = f
    BY <1>2
  <2> QED BY <2>1, RoundsExtend
<1> HIDE DEF T
<1>3. Nat \subseteq T
  BY <1>1, <1>2, NatSetInduction
<1> QED BY <1>3 DEF T

\* No edge, and each number of edges from the one before.
LEMMA WalkRounds ==
  ASSUME NEW g
  PROVE  /\ WalkLengths(g, 0) = NoWalk
         /\ \A m \in Nat : WalkLengths(g, m + 1) = OneMore(g, WalkLengths(g, m))
<1>1. \A m \in Nat : WalkLengths(g, m) = (CHOOSE f : Rounds(g, m, f))[m]
  BY DEF WalkLengths, Rounds, NoWalk, OneMore
<1>2. ASSUME NEW m \in Nat, NEW f, Rounds(g, m, f) PROVE WalkLengths(g, m) = f[m]
  <2>1. (CHOOSE h : Rounds(g, m, h)) = f
    BY <1>2, RoundsExist
  <2> QED BY <1>1, <2>1
<1>3. WalkLengths(g, 0) = NoWalk
  <2>1. PICK f : Rounds(g, 0, f)
    BY RoundsExist
  <2>2. f[0] = NoWalk
    BY <2>1 DEF Rounds
  <2> QED BY <1>2, <2>1, <2>2
<1>4. ASSUME NEW m \in Nat PROVE WalkLengths(g, m + 1) = OneMore(g, WalkLengths(g, m))
  <2>1. PICK f : Rounds(g, m, f) /\ \A h : Rounds(g, m, h) => h = f
    BY RoundsExist
  <2>2. PICK e : Rounds(g, m + 1, e) /\ e[m + 1] = OneMore(g, f[m])
    BY <2>1, RoundsExtend
  <2>3. m + 1 \in Nat
    OBVIOUS
  <2> QED BY <1>2, <2>1, <2>2, <2>3
<1> QED BY <1>3, <1>4

LEMMA DigraphFacts ==
  ASSUME NEW g, IsDigraph(g)
  PROVE  /\ N \in Nat \ {0} /\ MaxWeight \in Nat \ {0} /\ Inf \in Nat \ {0}
         /\ Source \in Node /\ Node \subseteq Nat
         /\ \A v \in Node : \A u \in InNeighbours(g, v) :
              u \in Node /\ <<u, v>> \in DOMAIN g /\ g[<<u, v>>] \in 1 .. MaxWeight /\ g[<<u, v>>] \in Nat \ {0}
<1>1. N \in Nat \ {0} /\ MaxWeight \in Nat \ {0}
  BY NodesAssumption, WeightAssumption
<1>2. N * MaxWeight \in Nat
  BY <1>1
<1>3. Inf \in Nat \ {0}
  BY <1>2 DEF Inf
<1>4. Source \in Node /\ Node \subseteq Nat
  BY SourceAssumption, NodesAssumption DEF Node
<1>5. ASSUME NEW v \in Node, NEW u \in InNeighbours(g, v)
      PROVE  u \in Node /\ <<u, v>> \in DOMAIN g /\ g[<<u, v>>] \in 1 .. MaxWeight /\ g[<<u, v>>] \in Nat \ {0}
  <2>1. u \in Node /\ <<u, v>> \in DOMAIN g
    BY DEF InNeighbours
  <2>2. g[<<u, v>>] \in 1 .. MaxWeight
    BY <2>1 DEF IsDigraph
  <2> QED BY <1>1, <2>1, <2>2
<1> QED BY <1>1, <1>3, <1>4, <1>5

Distance == 0 .. Inf

\* What one round of the recursion returns.
LEMMA OneMoreFacts ==
  ASSUME NEW g, IsDigraph(g), NEW f \in [Node -> Distance]
  PROVE  /\ OneMore(g, f) \in [Node -> Distance]
         /\ \A v \in Node :
              /\ OneMore(g, f)[v] <= f[v]
              /\ \A u \in InNeighbours(g, v) : f[u] # Inf => OneMore(g, f)[v] <= f[u] + g[<<u, v>>]
              /\ \/ OneMore(g, f)[v] = f[v]
                 \/ \E u \in InNeighbours(g, v) : f[u] # Inf /\ OneMore(g, f)[v] = f[u] + g[<<u, v>>]
<1> DEFINE h == OneMore(g, f)
           Offers(v) == {f[u] + g[<<u, v>>] : u \in {x \in InNeighbours(g, v) : f[x] # Inf}}
<1>1. h = [v \in Node |-> h[v]] /\ \A v \in Node : h[v] = LeastOf({f[v]} \cup Offers(v))
  BY DEF OneMore
<1> HIDE DEF h
<1>2. ASSUME NEW v \in Node
      PROVE  /\ h[v] \in Distance
             /\ h[v] <= f[v]
             /\ \A u \in InNeighbours(g, v) : f[u] # Inf => h[v] <= f[u] + g[<<u, v>>]
             /\ h[v] = f[v] \/ \E u \in InNeighbours(g, v) : f[u] # Inf /\ h[v] = f[u] + g[<<u, v>>]
  <2>1. \A u \in InNeighbours(g, v) : f[u] + g[<<u, v>>] \in Nat
    BY DigraphFacts DEF Distance
  <2>2. f[v] \in Nat /\ Inf \in Nat
    BY DigraphFacts DEF Distance
  <2>3. {f[v]} \cup Offers(v) \in SUBSET Nat /\ f[v] \in {f[v]} \cup Offers(v)
    BY <2>1, <2>2
  <2> DEFINE S == {f[v]} \cup Offers(v)
  <2>4. h[v] = LeastOf(S)
    BY <1>1
  <2>5. \A u \in InNeighbours(g, v) : f[u] # Inf => f[u] + g[<<u, v>>] \in S
    OBVIOUS
  <2>6. \A x \in S : x = f[v] \/ \E u \in InNeighbours(g, v) : f[u] # Inf /\ x = f[u] + g[<<u, v>>]
    OBVIOUS
  <2> HIDE DEF S
  <2>7. h[v] \in S /\ \A x \in S : h[v] <= x
    BY <2>3, <2>4, LeastOfFacts DEF S
  <2>8. h[v] \in Nat /\ h[v] <= f[v]
    BY <2>3, <2>7 DEF S
  <2>9. h[v] \in Distance
    BY <2>2, <2>8 DEF Distance
  <2> QED BY <2>5, <2>6, <2>7, <2>8, <2>9
<1>3. h \in [Node -> Distance]
  BY <1>1, <1>2
<1> QED BY <1>2, <1>3 DEF h

-----------------------------------------------------------------------------
(***************************************************************************)
(* Distances that no edge could lower, and distances that each come        *)
(* over an edge.                                                           *)
(***************************************************************************)
Respected(g, d) ==
  \A v \in Node : \A u \in InNeighbours(g, v) : d[u] # Inf => d[v] <= d[u] + g[<<u, v>>]

Supports(g, d, p, v) == p \in InNeighbours(g, v) /\ d[p] # Inf /\ d[v] >= d[p] + g[<<p, v>>]

Supported(g, d) == \A v \in Node \ {Source} : d[v] # Inf => \E p \in Node : Supports(g, d, p, v)

LEMMA WalkTypes ==
  ASSUME NEW g, IsDigraph(g)
  PROVE  \A k \in Nat : WalkLengths(g, k) \in [Node -> Distance] /\ WalkLengths(g, k)[Source] = 0
<1> DEFINE T == {k \in Nat : WalkLengths(g, k) \in [Node -> Distance] /\ WalkLengths(g, k)[Source] = 0}
<1>1. 0 \in T
  BY WalkRounds, DigraphFacts DEF NoWalk, Distance
<1>2. ASSUME NEW k \in Nat, k \in T PROVE k + 1 \in T
  <2> DEFINE f == WalkLengths(g, k)
  <2>1. f \in [Node -> Distance] /\ f[Source] = 0
    BY <1>2
  <2>2. WalkLengths(g, k + 1) = OneMore(g, f)
    BY WalkRounds
  <2> HIDE DEF f
  <2>3. OneMore(g, f) \in [Node -> Distance] /\ OneMore(g, f)[Source] <= f[Source] /\ Source \in Node
    BY <2>1, OneMoreFacts, DigraphFacts
  <2>4. OneMore(g, f)[Source] = 0
    BY <2>1, <2>3 DEF Distance
  <2> QED BY <2>2, <2>3, <2>4
<1> HIDE DEF T
<1>3. Nat \subseteq T
  BY <1>1, <1>2, NatSetInduction
<1> QED BY <1>3 DEF T

\* The lengths as numbers.
LEMMA WalkNumbers ==
  ASSUME NEW g, IsDigraph(g)
  PROVE  /\ Inf \in Nat \ {0}
         /\ \A k \in Nat : \A v \in Node : WalkLengths(g, k)[v] \in Nat /\ WalkLengths(g, k)[v] <= Inf
<1>1. Inf \in Nat \ {0}
  BY DigraphFacts
<1>2. ASSUME NEW k \in Nat, NEW v \in Node PROVE WalkLengths(g, k)[v] \in Nat /\ WalkLengths(g, k)[v] <= Inf
  <2>1. WalkLengths(g, k) \in [Node -> Distance]
    BY WalkTypes
  <2>2. WalkLengths(g, k)[v] \in Distance
    BY <2>1
  <2> QED BY <1>1, <2>2 DEF Distance
<1> QED BY <1>1, <1>2

\* ... and of any distances.
LEMMA DistanceNumbers ==
  ASSUME NEW g, IsDigraph(g), NEW d \in [Node -> Distance]
  PROVE  \A v \in Node : d[v] \in Nat /\ d[v] <= Inf
<1>1. Inf \in Nat \ {0}
  BY DigraphFacts
<1> QED BY <1>1 DEF Distance

\* What walks with an edge more are, by the walks without it.
LEMMA WalkSteps ==
  ASSUME NEW g, IsDigraph(g), NEW k \in Nat, NEW v \in Node
  PROVE  /\ WalkLengths(g, k) \in [Node -> Distance] /\ WalkLengths(g, k + 1) \in [Node -> Distance]
         /\ WalkLengths(g, k + 1)[v] <= WalkLengths(g, k)[v]
         /\ \A u \in InNeighbours(g, v) :
              WalkLengths(g, k)[u] # Inf => WalkLengths(g, k + 1)[v] <= WalkLengths(g, k)[u] + g[<<u, v>>]
         /\ \/ WalkLengths(g, k + 1)[v] = WalkLengths(g, k)[v]
            \/ \E u \in InNeighbours(g, v) :
                 WalkLengths(g, k)[u] # Inf /\ WalkLengths(g, k + 1)[v] = WalkLengths(g, k)[u] + g[<<u, v>>]
<1>1. WalkLengths(g, k) \in [Node -> Distance] /\ WalkLengths(g, k + 1) \in [Node -> Distance]
  BY WalkTypes
<1>2. WalkLengths(g, k + 1) = OneMore(g, WalkLengths(g, k))
  BY WalkRounds
<1> QED BY <1>1, <1>2, OneMoreFacts

LEMMA WalksDecrease ==
  ASSUME NEW g, IsDigraph(g), NEW m \in Nat
  PROVE  \A k \in Nat : m <= k => \A v \in Node : WalkLengths(g, k)[v] <= WalkLengths(g, m)[v]
<1> DEFINE T == {k \in Nat : m <= k => \A v \in Node : WalkLengths(g, k)[v] <= WalkLengths(g, m)[v]}
<1>0. \A k \in Nat : \A v \in Node : WalkLengths(g, k)[v] \in Nat
  BY WalkTypes, DigraphFacts DEF Distance
<1>1. 0 \in T
  <2>1. 0 >= m => m = 0
    OBVIOUS
  <2> QED BY <1>0, <2>1
<1>2. ASSUME NEW k \in Nat, k \in T PROVE k + 1 \in T
  <2> SUFFICES ASSUME m <= k + 1, NEW v \in Node PROVE WalkLengths(g, k + 1)[v] <= WalkLengths(g, m)[v]
    OBVIOUS
  <2>1. k + 1 \in Nat /\ WalkLengths(g, k + 1)[v] <= WalkLengths(g, k)[v]
    BY WalkSteps
  <2>2. /\ WalkLengths(g, k + 1)[v] \in Nat /\ WalkLengths(g, k)[v] \in Nat /\ WalkLengths(g, m)[v] \in Nat
    BY <1>0, <2>1
  <2>3. CASE m <= k
    BY <1>2, <2>1, <2>2, <2>3
  <2>4. CASE m = k + 1
    BY <2>2, <2>4
  <2> QED BY <2>3, <2>4
<1> HIDE DEF T
<1>3. Nat \subseteq T
  BY <1>1, <1>2, NatSetInduction
<1> QED BY <1>3 DEF T

\* Every cheapest walk ends with an edge, behind a walk that was cheaper.
LEMMA WalksSupported ==
  ASSUME NEW g, IsDigraph(g)
  PROVE  \A k \in Nat : Supported(g, WalkLengths(g, k))
<1> DEFINE W(k) == WalkLengths(g, k)
           T == {k \in Nat : Supported(g, W(k))}
<1>0. \A k \in Nat : \A v \in Node : W(k)[v] \in Nat /\ W(k)[v] <= Inf
  BY WalkNumbers
<1>1. 0 \in T
  BY WalkRounds DEF NoWalk, Supported
<1>2. ASSUME NEW k \in Nat, k \in T PROVE k + 1 \in T
  <2> SUFFICES ASSUME NEW v \in Node \ {Source}, W(k + 1)[v] # Inf PROVE \E p \in Node : Supports(g, W(k + 1), p, v)
    BY DEF Supported
  <2>1. PICK p \in Node : p \in InNeighbours(g, v) /\ W(k)[p] # Inf /\ W(k + 1)[v] >= W(k)[p] + g[<<p, v>>]
    <3>1. CASE W(k + 1)[v] = W(k)[v]
      <4>1. PICK p \in Node : Supports(g, W(k), p, v)
        BY <1>2, <3>1 DEF Supported
      <4> QED BY <3>1, <4>1 DEF Supports
    <3>2. CASE \E u \in InNeighbours(g, v) : W(k)[u] # Inf /\ W(k + 1)[v] = W(k)[u] + g[<<u, v>>]
      <4>1. PICK u \in InNeighbours(g, v) : W(k)[u] # Inf /\ W(k + 1)[v] = W(k)[u] + g[<<u, v>>]
        BY <3>2
      <4>2. u \in Node /\ g[<<u, v>>] \in Nat /\ W(k)[u] \in Nat
        BY <1>0, DigraphFacts
      <4> QED BY <4>1, <4>2
    <3>3. \/ W(k + 1)[v] = W(k)[v]
          \/ \E u \in InNeighbours(g, v) : W(k)[u] # Inf /\ W(k + 1)[v] = W(k)[u] + g[<<u, v>>]
      <4>1. v \in Node
        OBVIOUS
      <4> QED BY <4>1, WalkSteps
    <3> QED BY <3>1, <3>2, <3>3
  <2>2. k + 1 \in Nat /\ W(k + 1)[p] <= W(k)[p]
    BY WalkSteps
  <2>3. /\ W(k + 1)[p] \in Nat /\ W(k)[p] \in Nat /\ W(k + 1)[v] \in Nat /\ W(k)[p] <= Inf
        /\ g[<<p, v>>] \in Nat /\ Inf \in Nat
    BY <1>0, <2>1, <2>2, DigraphFacts
  <2>4. W(k + 1)[p] # Inf /\ W(k + 1)[v] >= W(k + 1)[p] + g[<<p, v>>]
    BY <2>1, <2>2, <2>3
  <2> QED BY <2>1, <2>4 DEF Supports
<1> HIDE DEF T
<1>3. Nat \subseteq T
  BY <1>1, <1>2, NatSetInduction
<1> QED BY <1>3 DEF T

\* Distances that no edge could lower are at most the length of any walk.
LEMMA AtMostWalks ==
  ASSUME NEW g, IsDigraph(g), NEW d \in [Node -> Distance], d[Source] = 0, Respected(g, d)
  PROVE  \A k \in Nat : \A v \in Node : d[v] <= WalkLengths(g, k)[v]
<1> DEFINE W(k) == WalkLengths(g, k)
           T == {k \in Nat : \A v \in Node : d[v] <= W(k)[v]}
<1>0. /\ \A k \in Nat : \A v \in Node : W(k)[v] \in Nat /\ W(k)[v] <= Inf
      /\ \A v \in Node : d[v] \in Nat /\ d[v] <= Inf
      /\ Inf \in Nat
  BY WalkNumbers, DistanceNumbers
<1>1. 0 \in T
  <2> SUFFICES ASSUME NEW v \in Node PROVE d[v] <= W(0)[v]
    OBVIOUS
  <2>1. W(0)[v] = IF v = Source THEN 0 ELSE Inf
    BY WalkRounds DEF NoWalk
  <2> QED BY <1>0, <2>1
<1>2. ASSUME NEW k \in Nat, k \in T PROVE k + 1 \in T
  <2> SUFFICES ASSUME NEW v \in Node PROVE d[v] <= W(k + 1)[v]
    OBVIOUS
  <2>1. CASE W(k + 1)[v] = W(k)[v]
    BY <1>2, <2>1
  <2>2. CASE \E u \in InNeighbours(g, v) : W(k)[u] # Inf /\ W(k + 1)[v] = W(k)[u] + g[<<u, v>>]
    <3>1. PICK u \in InNeighbours(g, v) : W(k)[u] # Inf /\ W(k + 1)[v] = W(k)[u] + g[<<u, v>>]
      BY <2>2
    <3>2. u \in Node /\ g[<<u, v>>] \in Nat
      BY DigraphFacts
    <3>3. d[u] <= W(k)[u] /\ W(k)[u] \in Nat /\ W(k)[u] <= Inf /\ d[u] \in Nat /\ d[v] \in Nat
      BY <1>0, <1>2, <3>2
    <3>4. d[u] # Inf
      BY <3>1, <3>3, DigraphFacts
    <3>5. d[v] <= d[u] + g[<<u, v>>]
      BY <3>4 DEF Respected
    <3> QED BY <3>1, <3>2, <3>3, <3>5
  <2> QED BY <2>1, <2>2, WalkSteps
<1> HIDE DEF T
<1>3. Nat \subseteq T
  BY <1>1, <1>2, NatSetInduction
<1> QED BY <1>3 DEF T

Nearer(d, v) == {u \in Node : d[u] < d[v]}

LEMMA NearerFacts ==
  ASSUME NEW d \in [Node -> Distance], NEW v \in Node
  PROVE  /\ Cardinality(Nearer(d, v)) \in 0 .. N - 1
         /\ \A p \in Node : d[p] < d[v] =>
              Cardinality(Nearer(d, p)) \in Nat /\ Cardinality(Nearer(d, p)) < Cardinality(Nearer(d, v))
<1>1. \A u \in Node : d[u] \in Int
  BY DEF Distance
<1>2. IsFiniteSet(Node) /\ Cardinality(Node) = N
  <2>1. N \in Nat /\ N > 0 /\ 0 \in Int /\ N - 1 \in Int
    BY NodesAssumption
  <2>2. IsFiniteSet(0 .. N - 1) /\ Cardinality(0 .. N - 1) = N
    BY <2>1, FS_Interval
  <2> QED BY <2>2 DEF Node
<1>3. ASSUME NEW A \in SUBSET Node, NEW B \in SUBSET A, B # A
      PROVE  Cardinality(B) \in Nat /\ Cardinality(A) \in Nat /\ Cardinality(B) < Cardinality(A)
  <2>1. IsFiniteSet(A)
    BY <1>2, FS_Subset
  <2>2. /\ IsFiniteSet(B) /\ Cardinality(B) <= Cardinality(A)
        /\ Cardinality(A) = Cardinality(B) => A = B
    BY <2>1, FS_Subset
  <2>3. Cardinality(A) \in Nat /\ Cardinality(B) \in Nat
    BY <2>1, <2>2, FS_CardinalityType
  <2> QED BY <1>3, <2>2, <2>3
<1>4. Cardinality(Nearer(d, v)) \in 0 .. N - 1
  <2>1. Nearer(d, v) \in SUBSET Node /\ v \notin Nearer(d, v)
    BY <1>1 DEF Nearer
  <2>2. Cardinality(Nearer(d, v)) \in Nat /\ Cardinality(Nearer(d, v)) < N
    BY <1>2, <1>3, <2>1
  <2> QED BY <2>2, NodesAssumption
<1>5. ASSUME NEW p \in Node, d[p] < d[v]
      PROVE  Cardinality(Nearer(d, p)) \in Nat /\ Cardinality(Nearer(d, p)) < Cardinality(Nearer(d, v))
  <2>1. Nearer(d, p) \subseteq Nearer(d, v) /\ p \in Nearer(d, v) /\ p \notin Nearer(d, p)
    BY <1>1, <1>5 DEF Nearer
  <2>2. Nearer(d, v) \in SUBSET Node
    BY DEF Nearer
  <2> QED BY <1>3, <2>1, <2>2
<1> QED BY <1>4, <1>5

LEMMA SupportIsNearer ==
  ASSUME NEW g, IsDigraph(g), NEW d \in [Node -> Distance], NEW p \in Node, NEW v \in Node, Supports(g, d, p, v)
  PROVE  d[p] < d[v] /\ d[p] \in Nat /\ d[v] \in Nat
<1>1. g[<<p, v>>] \in Nat \ {0} /\ d[v] >= d[p] + g[<<p, v>>]
  BY DigraphFacts DEF Supports
<1>2. d[p] \in Nat /\ d[v] \in Nat
  BY DEF Distance
<1> QED BY <1>1, <1>2

\* Distances that each come over an edge are the lengths of walks, with no
\* more edges than there are nearer vertices.
LEMMA AtLeastWalks ==
  ASSUME NEW g, IsDigraph(g), NEW d \in [Node -> Distance], d[Source] = 0, Supported(g, d), NEW v \in Node
  PROVE  WalkLengths(g, N - 1)[v] <= d[v]
<1> DEFINE W(k) == WalkLengths(g, k)
           T == {k \in Nat : \A u \in Node : Cardinality(Nearer(d, u)) <= k => W(k)[u] <= d[u]}
<1>0. /\ \A k \in Nat : W(k)[Source] = 0 /\ \A u \in Node : W(k)[u] \in Nat /\ W(k)[u] <= Inf
      /\ \A u \in Node : d[u] \in Nat /\ d[u] <= Inf
      /\ Inf \in Nat \ {0} /\ Source \in Node
  BY WalkNumbers, WalkTypes, DistanceNumbers, DigraphFacts
<1>1. 0 \in T
  <2> SUFFICES ASSUME NEW u \in Node, Cardinality(Nearer(d, u)) <= 0 PROVE W(0)[u] <= d[u]
    OBVIOUS
  <2>1. CASE u = Source
    BY <1>0, <2>1
  <2>2. CASE u # Source
    <3>1. ~ \E p \in Node : d[p] < d[u]
      <4> SUFFICES ASSUME NEW p \in Node, d[p] < d[u] PROVE FALSE
        OBVIOUS
      <4>1. Cardinality(Nearer(d, u)) \in Nat
        BY NearerFacts
      <4>2. Cardinality(Nearer(d, p)) \in Nat /\ Cardinality(Nearer(d, p)) < Cardinality(Nearer(d, u))
        BY NearerFacts
      <4> QED BY <4>1, <4>2
    <3>2. d[u] = Inf
      <4> SUFFICES ASSUME d[u] # Inf PROVE FALSE
        OBVIOUS
      <4>1. PICK p \in Node : Supports(g, d, p, u)
        BY <2>2 DEF Supported
      <4>2. g[<<p, u>>] \in Nat \ {0} /\ d[u] >= d[p] + g[<<p, u>>]
        BY <4>1, DigraphFacts DEF Supports
      <4>3. d[p] < d[u]
        BY <4>1, SupportIsNearer
      <4> QED BY <3>1, <4>3
    <3> QED BY <1>0, <3>2
  <2> QED BY <2>1, <2>2
<1>2. ASSUME NEW k \in Nat, k \in T PROVE k + 1 \in T
  <2> SUFFICES ASSUME NEW u \in Node, Cardinality(Nearer(d, u)) <= k + 1 PROVE W(k + 1)[u] <= d[u]
    OBVIOUS
  <2>0. k + 1 \in Nat /\ W(k + 1)[u] \in Nat /\ W(k + 1)[u] <= Inf /\ W(k + 1)[Source] = 0
    BY <1>0
  <2>1. CASE u = Source \/ d[u] = Inf
    BY <1>0, <2>0, <2>1
  <2>2. CASE u # Source /\ d[u] # Inf
    <3>1. PICK p \in Node : Supports(g, d, p, u)
      BY <2>2 DEF Supported
    <3>2. p \in InNeighbours(g, u) /\ g[<<p, u>>] \in Nat \ {0} /\ d[u] >= d[p] + g[<<p, u>>] /\ d[p] # Inf
      BY <3>1, DigraphFacts DEF Supports
    <3>3. d[p] < d[u] /\ d[p] \in Nat /\ d[u] \in Nat
      BY <3>1, SupportIsNearer
    <3>4. Cardinality(Nearer(d, p)) \in Nat /\ Cardinality(Nearer(d, p)) < Cardinality(Nearer(d, u))
      BY <3>3, NearerFacts
    <3>5. Cardinality(Nearer(d, u)) \in Nat
      BY NearerFacts
    <3>6. W(k)[p] <= d[p]
      BY <1>2, <3>4, <3>5
    <3>7. W(k)[p] \in Nat /\ W(k)[p] # Inf
      BY <1>0, <3>2, <3>6
    <3>8. W(k + 1)[u] <= W(k)[p] + g[<<p, u>>]
      BY <3>2, <3>7, WalkSteps
    <3> QED BY <1>0, <2>0, <3>2, <3>6, <3>7, <3>8
  <2> QED BY <2>1, <2>2
<1> HIDE DEF T
<1>3. Nat \subseteq T
  BY <1>1, <1>2, NatSetInduction
<1>4. N - 1 \in Nat /\ Cardinality(Nearer(d, v)) <= N - 1
  BY NodesAssumption, NearerFacts
<1> QED BY <1>3, <1>4 DEF T

\* After N - 1 rounds nothing changes.
LEMMA WalksSettle ==
  ASSUME NEW g, IsDigraph(g), NEW k \in Nat, k >= N - 1
  PROVE  WalkLengths(g, k) = Distances(g)
<1>1. N - 1 \in Nat
  BY NodesAssumption
<1>2. /\ WalkLengths(g, k) \in [Node -> Distance] /\ WalkLengths(g, k)[Source] = 0
      /\ WalkLengths(g, N - 1) \in [Node -> Distance]
  BY <1>1, WalkTypes
<1>3. ASSUME NEW v \in Node PROVE WalkLengths(g, k)[v] = WalkLengths(g, N - 1)[v]
  <2>1. WalkLengths(g, k)[v] <= WalkLengths(g, N - 1)[v]
    BY <1>1, WalksDecrease
  <2>2. WalkLengths(g, N - 1)[v] <= WalkLengths(g, k)[v]
    BY <1>2, WalksSupported, AtLeastWalks
  <2>3. WalkLengths(g, k)[v] \in Int /\ WalkLengths(g, N - 1)[v] \in Int
    BY <1>2 DEF Distance
  <2> QED BY <2>1, <2>2, <2>3
<1> QED BY <1>2, <1>3 DEF Distances

LEMMA DistancesFacts ==
  ASSUME NEW g, IsDigraph(g)
  PROVE  /\ Distances(g) \in [Node -> Distance] /\ Distances(g)[Source] = 0
         /\ Supported(g, Distances(g)) /\ Respected(g, Distances(g))
<1>1. N - 1 \in Nat /\ N - 1 + 1 \in Nat /\ N - 1 + 1 >= N - 1
  BY NodesAssumption
<1>2. WalkLengths(g, N - 1 + 1) = Distances(g) /\ WalkLengths(g, N - 1) = Distances(g)
  BY <1>1, WalksSettle DEF Distances
<1>3. Respected(g, Distances(g))
  BY <1>1, <1>2, WalkSteps DEF Respected
<1> QED BY <1>1, <1>2, <1>3, WalkTypes, WalksSupported

\* The certificate of the distances.
LEMMA CertifiedDistances ==
  ASSUME NEW g, IsDigraph(g), NEW d \in [Node -> Distance], d[Source] = 0, Supported(g, d), Respected(g, d)
  PROVE  d = Distances(g)
<1>1. N - 1 \in Nat
  BY NodesAssumption
<1>2. \A v \in Node : d[v] <= Distances(g)[v]
  BY <1>1, AtMostWalks DEF Distances
<1>3. \A v \in Node : Distances(g)[v] <= d[v]
  BY AtLeastWalks DEF Distances
<1>4. \A v \in Node : d[v] \in Int /\ Distances(g)[v] \in Int
  BY DistancesFacts DEF Distance
<1>5. \A v \in Node : d[v] = Distances(g)[v]
  BY <1>2, <1>3, <1>4
<1> QED BY <1>5, DistancesFacts

\* Distances that are supported are not below the shortest ones.
LEMMA NotBelowShortest ==
  ASSUME NEW g, IsDigraph(g), NEW d \in [Node -> Distance], d[Source] = 0, NEW p \in [Node -> Node \cup {NoParent}],
         \A v \in Node \ {Source} :
           d[v] # Inf => p[v] \in InNeighbours(g, v) /\ d[p[v]] # Inf /\ d[v] >= d[p[v]] + g[<<p[v], v>>]
  PROVE  \A v \in Node : Distances(g)[v] <= d[v]
<1>1. ASSUME NEW v \in Node \ {Source}, d[v] # Inf PROVE \E u \in Node : Supports(g, d, u, v)
  <2>1. p[v] \in Node /\ Supports(g, d, p[v], v)
    BY <1>1 DEF Supports, InNeighbours
  <2> QED BY <2>1
<1>2. Supported(g, d)
  BY <1>1 DEF Supported
<1> QED BY <1>2, AtLeastWalks DEF Distances

-----------------------------------------------------------------------------
(***************************************************************************)
(* The canonical tree: the lowest of the vertices that explain a distance. *)
(***************************************************************************)
Hangs(g, d, parent, v) ==
  IF v = Source \/ d[v] = Inf THEN parent[v] = NoParent
  ELSE parent[v] \in Node /\ Explains(g, d, parent[v], v) /\ \A u \in Node : Explains(g, d, u, v) => parent[v] <= u

LEMMA CanonicalFacts ==
  ASSUME NEW g, IsDigraph(g), NEW t, t = CanonicalTree(g)
  PROVE  /\ t.dist = Distances(g)
         /\ t.parent \in [Node -> Node \cup {NoParent}]
         /\ t = [dist |-> t.dist, parent |-> t.parent]
         /\ \A v \in Node : Hangs(g, t.dist, t.parent, v)
<1> DEFINE explaining(v) == {u \in Node : Explains(g, Distances(g), u, v)}
<1>1. /\ t.dist = Distances(g)
      /\ t.parent = [v \in Node |-> IF v = Source \/ t.dist[v] = Inf THEN NoParent ELSE LeastOf(explaining(v))]
      /\ t = [dist |-> t.dist, parent |-> t.parent]
  BY DEF CanonicalTree
<1>2. ASSUME NEW v \in Node, v # Source, t.dist[v] # Inf
      PROVE  LeastOf(explaining(v)) \in explaining(v) /\ \A u \in explaining(v) : LeastOf(explaining(v)) <= u
  <2>0. Supported(g, t.dist) /\ Source \in Node
    BY <1>1, DistancesFacts, DigraphFacts
  <2>1. PICK p \in Node : Supports(g, t.dist, p, v)
    BY <1>2, <2>0 DEF Supported
  <2>2. t.dist[v] <= t.dist[p] + g[<<p, v>>]
    BY <1>1, <2>1, DistancesFacts DEF Supports, Respected
  <2>3. t.dist[v] \in Int /\ t.dist[p] \in Int /\ g[<<p, v>>] \in Int
    BY <1>1, <2>1, DistancesFacts, DigraphFacts DEF Supports, Distance
  <2>4. Explains(g, t.dist, p, v)
    BY <2>1, <2>2, <2>3 DEF Supports, Explains
  <2>5. t.dist = Distances(g)
    BY <1>1
  <2>6. p \in explaining(v)
    BY <2>4, <2>5
  <2>7. explaining(v) \in SUBSET Nat
    BY DigraphFacts
  <2> HIDE DEF explaining
  <2> QED BY <2>6, <2>7, LeastOfFacts
<1>3. ASSUME NEW v \in Node PROVE Hangs(g, t.dist, t.parent, v) /\ t.parent[v] \in Node \cup {NoParent}
  <2>1. CASE v = Source \/ t.dist[v] = Inf
    BY <1>1, <2>1 DEF Hangs
  <2>2. CASE v # Source /\ t.dist[v] # Inf
    <3>1. t.parent[v] = LeastOf(explaining(v))
      BY <1>1, <2>2
    <3>2. t.parent[v] \in explaining(v) /\ \A u \in explaining(v) : t.parent[v] <= u
      BY <1>2, <2>2, <3>1
    <3> QED BY <1>1, <2>2, <3>2 DEF Hangs
  <2> QED BY <2>1, <2>2
<1> QED BY <1>1, <1>3

LEMMA CertifiedTree ==
  ASSUME NEW g, IsDigraph(g), NEW d, d = Distances(g), NEW parent \in [Node -> Node \cup {NoParent}],
         \A v \in Node : Hangs(g, d, parent, v)
  PROVE  [dist |-> d, parent |-> parent] = CanonicalTree(g)
<1> DEFINE t == CanonicalTree(g)
<1>1. /\ t.dist = d /\ t.parent \in [Node -> Node \cup {NoParent}]
      /\ t = [dist |-> t.dist, parent |-> t.parent]
      /\ \A v \in Node : Hangs(g, t.dist, t.parent, v)
  BY CanonicalFacts
<1> HIDE DEF t
<1>2. ASSUME NEW v \in Node PROVE t.parent[v] = parent[v]
  <2>1. CASE v = Source \/ d[v] = Inf
    BY <1>1, <2>1 DEF Hangs
  <2>2. CASE v # Source /\ d[v] # Inf
    <3>1. parent[v] <= t.parent[v] /\ t.parent[v] <= parent[v] /\ parent[v] \in Node /\ t.parent[v] \in Node
      BY <1>1, <2>2 DEF Hangs
    <3> QED BY <3>1, DigraphFacts
  <2> QED BY <2>1, <2>2
<1>3. t.parent = parent
  BY <1>1, <1>2
<1> QED BY <1>1, <1>3 DEF t

-----------------------------------------------------------------------------
(***************************************************************************)
(* What is reached, whatever the weights.                                  *)
(***************************************************************************)
\* Inf is longer than any path and than any path with an edge more.
LEMMA FiniteDistances ==
  ASSUME NEW g, IsDigraph(g), NEW v \in Node, Distances(g)[v] # Inf
  PROVE  Distances(g)[v] \in Nat /\ Distances(g)[v] + MaxWeight < Inf
<1> DEFINE T == {k \in Nat : \A x \in Node : WalkLengths(g, k)[x] # Inf => WalkLengths(g, k)[x] <= k * MaxWeight}
<1>1. N \in Nat \ {0} /\ MaxWeight \in Nat \ {0} /\ Inf \in Nat
  BY DigraphFacts
<1>2. 0 \in T
  BY <1>1, WalkRounds DEF NoWalk
<1>3. ASSUME NEW k \in Nat, k \in T PROVE k + 1 \in T
  <2> SUFFICES ASSUME NEW x \in Node, WalkLengths(g, k + 1)[x] # Inf
               PROVE  WalkLengths(g, k + 1)[x] <= (k + 1) * MaxWeight
    OBVIOUS
  <2>1. (k + 1) * MaxWeight = k * MaxWeight + MaxWeight /\ k * MaxWeight \in Nat
    BY <1>1
  <2>2. CASE WalkLengths(g, k + 1)[x] = WalkLengths(g, k)[x]
    <3>1. WalkLengths(g, k)[x] \in Nat /\ WalkLengths(g, k)[x] <= k * MaxWeight
      BY <1>3, <2>2, WalkNumbers
    <3> QED BY <1>1, <2>1, <2>2, <3>1
  <2>3. CASE \E u \in InNeighbours(g, x) :
               WalkLengths(g, k)[u] # Inf /\ WalkLengths(g, k + 1)[x] = WalkLengths(g, k)[u] + g[<<u, x>>]
    <3>1. PICK u \in InNeighbours(g, x) :
            WalkLengths(g, k)[u] # Inf /\ WalkLengths(g, k + 1)[x] = WalkLengths(g, k)[u] + g[<<u, x>>]
      BY <2>3
    <3>2. u \in Node /\ g[<<u, x>>] \in 1 .. MaxWeight
      BY DigraphFacts
    <3>3. WalkLengths(g, k)[u] \in Nat /\ WalkLengths(g, k)[u] <= k * MaxWeight
      BY <1>3, <3>1, <3>2, WalkNumbers
    <3> QED BY <1>1, <2>1, <3>1, <3>2, <3>3
  <2> QED BY <2>2, <2>3, WalkSteps
<1> HIDE DEF T
<1>4. Nat \subseteq T
  BY <1>2, <1>3, NatSetInduction
<1>5. N - 1 \in Nat /\ N - 1 \in T
  BY <1>1, <1>4
<1>6. Distances(g)[v] \in Nat /\ Distances(g)[v] <= (N - 1) * MaxWeight
  BY <1>5, WalkNumbers DEF T, Distances
<1>7. (N - 1) * MaxWeight + MaxWeight < Inf /\ (N - 1) * MaxWeight \in Nat
  BY <1>1 DEF Inf
<1> QED BY <1>1, <1>6, <1>7

\* More edges reach more vertices.
LEMMA ReachGrows ==
  ASSUME NEW g, IsDigraph(g), NEW h, IsDigraph(h), DOMAIN h \subseteq DOMAIN g,
         NEW v \in Node, Distances(h)[v] # Inf
  PROVE  Distances(g)[v] # Inf
<1> DEFINE e == [x \in Node |-> IF Distances(g)[x] # Inf THEN 0 ELSE Inf]
<1>1. /\ Inf \in Nat \ {0} /\ Source \in Node /\ N - 1 \in Nat
      /\ MaxWeight \in Nat
  BY DigraphFacts, NodesAssumption
<1>2. Distances(g)[Source] = 0 /\ Respected(g, Distances(g)) /\ Distances(g) \in [Node -> Distance]
  BY DistancesFacts
<1>3. e \in [Node -> Distance] /\ e[Source] = 0 /\ \A x \in Node : e[x] = IF Distances(g)[x] # Inf THEN 0 ELSE Inf
  BY <1>1, <1>2 DEF Distance
<1>4. Respected(h, e)
  <2> SUFFICES ASSUME NEW x \in Node, NEW u \in InNeighbours(h, x), e[u] # Inf
               PROVE  e[x] <= e[u] + h[<<u, x>>]
    BY DEF Respected
  <2>1. u \in Node /\ u \in InNeighbours(g, x) /\ h[<<u, x>>] \in Nat \ {0} /\ g[<<u, x>>] \in 1 .. MaxWeight
    <3>1. u \in InNeighbours(g, x)
      BY DEF InNeighbours
    <3> QED BY <3>1, DigraphFacts
  <2>2. Distances(g)[u] # Inf /\ e[u] = 0
    BY <1>1, <1>3, <2>1
  <2>3. Distances(g)[u] \in Nat /\ Distances(g)[u] + MaxWeight < Inf
    BY <2>1, <2>2, FiniteDistances
  <2>4. Distances(g)[x] <= Distances(g)[u] + g[<<u, x>>] /\ Distances(g)[x] \in Nat
    BY <1>2, <2>1, <2>2, DistanceNumbers DEF Respected
  <2>5. Distances(g)[x] # Inf
    BY <1>1, <2>1, <2>3, <2>4
  <2> QED BY <1>3, <2>1, <2>2, <2>5
<1> HIDE DEF e
<1>5. e[v] <= Distances(h)[v]
  BY <1>1, <1>3, <1>4, AtMostWalks DEF Distances
<1>6. Distances(h)[v] \in Nat /\ Distances(h)[v] <= Inf
  BY <1>1, WalkNumbers DEF Distances
<1> QED BY <1>1, <1>3, <1>5, <1>6

\* A self-loop at the source changes nothing, even one that costs nothing.
LEMMA LoopAtSource ==
  ASSUME NEW h, IsDigraph(h), <<Source, Source>> \notin DOMAIN h, NEW g,
         g = [e \in DOMAIN h \cup {<<Source, Source>>} |-> IF e = <<Source, Source>> THEN 0 ELSE h[e]]
  PROVE  CanonicalTree(g) = CanonicalTree(h)
<1>1. /\ \A v \in Node \ {Source} : /\ InNeighbours(g, v) = InNeighbours(h, v)
                                   /\ \A u \in InNeighbours(h, v) : g[<<u, v>>] = h[<<u, v>>]
      /\ Source \in Node /\ InNeighbours(g, Source) = InNeighbours(h, Source) \cup {Source}
      /\ g[<<Source, Source>>] = 0
      /\ \A u \in InNeighbours(h, Source) : u # Source /\ g[<<u, Source>>] = h[<<u, Source>>]
  BY DigraphFacts DEF InNeighbours
<1>2. ASSUME NEW f \in [Node -> Distance], f[Source] = 0 PROVE OneMore(g, f) = OneMore(h, f)
  <2> SUFFICES ASSUME NEW v \in Node
               PROVE  {f[v]} \cup {f[u] + g[<<u, v>>] : u \in {x \in InNeighbours(g, v) : f[x] # Inf}}
                      = {f[v]} \cup {f[u] + h[<<u, v>>] : u \in {x \in InNeighbours(h, v) : f[x] # Inf}}
    BY DEF OneMore
  <2>1. CASE v # Source
    <3>1. InNeighbours(g, v) = InNeighbours(h, v) /\ \A u \in InNeighbours(h, v) : f[u] + g[<<u, v>>] = f[u] + h[<<u, v>>]
      BY <1>1, <2>1
    <3> QED BY <3>1
  <2>2. CASE v = Source
    <3>1. \A u \in InNeighbours(g, Source) :
            (u \in InNeighbours(h, Source) /\ g[<<u, Source>>] = h[<<u, Source>>]) \/ f[u] + g[<<u, Source>>] = f[Source]
      BY <1>1, <1>2
    <3>2. \A u \in InNeighbours(h, Source) : u \in InNeighbours(g, Source) /\ g[<<u, Source>>] = h[<<u, Source>>]
      BY <1>1
    <3> QED BY <2>2, <3>1, <3>2
  <2> QED BY <2>1, <2>2
<1> DEFINE T == {k \in Nat : WalkLengths(g, k) = WalkLengths(h, k)}
<1>3. 0 \in T
  BY WalkRounds
<1>4. ASSUME NEW k \in Nat, k \in T PROVE k + 1 \in T
  <2>1. WalkLengths(h, k) \in [Node -> Distance] /\ WalkLengths(h, k)[Source] = 0
    BY WalkTypes
  <2>2. /\ WalkLengths(g, k + 1) = OneMore(g, WalkLengths(g, k))
        /\ WalkLengths(h, k + 1) = OneMore(h, WalkLengths(h, k))
    BY WalkRounds
  <2>3. WalkLengths(g, k) = WalkLengths(h, k)
    BY <1>4
  <2>4. OneMore(g, WalkLengths(h, k)) = OneMore(h, WalkLengths(h, k))
    BY <1>2, <2>1
  <2> QED BY <2>2, <2>3, <2>4
<1> HIDE DEF T
<1>5. Nat \subseteq T
  BY <1>3, <1>4, NatSetInduction
<1>6. N - 1 \in Nat
  BY NodesAssumption
<1>7. Distances(g) = Distances(h)
  BY <1>5, <1>6 DEF T, Distances
<1> DEFINE d == Distances(h)
<1>8. \A v \in Node \ {Source} : {u \in Node : Explains(g, d, u, v)} = {u \in Node : Explains(h, d, u, v)}
  BY <1>1 DEF Explains
<1> QED BY <1>7, <1>8 DEF CanonicalTree

-----------------------------------------------------------------------------
(***************************************************************************)
(* What a batch does to the edges.                                         *)
(***************************************************************************)
Kept(g, deletes) == [e \in DOMAIN g \ deletes |-> g[e]]

\* f is the graph after the deletions and after each of the first m insertions.
Stages(g, deletes, inserts, m, f) ==
  f = [k \in 0 .. m |-> IF k = 0 THEN Kept(g, deletes) ELSE Inserted(f[k - 1], inserts[k])]

LEMMA StagesExtend ==
  ASSUME NEW g, NEW deletes, NEW inserts, NEW m \in Nat, NEW f, Stages(g, deletes, inserts, m, f),
         \A h : Stages(g, deletes, inserts, m, h) => h = f
  PROVE  \E e : /\ Stages(g, deletes, inserts, m + 1, e) /\ \A h : Stages(g, deletes, inserts, m + 1, h) => h = e
                /\ e[m + 1] = Inserted(f[m], inserts[m + 1])
<1> DEFINE e == [k \in 0 .. m + 1 |-> IF k \in 0 .. m THEN f[k] ELSE Inserted(f[m], inserts[m + 1])]
<1>1. f = [k \in 0 .. m |-> IF k = 0 THEN Kept(g, deletes) ELSE Inserted(f[k - 1], inserts[k])]
  BY DEF Stages
<1>2. /\ \A k \in 0 .. m : e[k] = f[k]
      /\ e[m + 1] = Inserted(f[m], inserts[m + 1])
      /\ e = [k \in 0 .. m + 1 |-> e[k]]
  OBVIOUS
<1> HIDE DEF e
<1>3. ASSUME NEW k \in 0 .. m + 1 PROVE e[k] = IF k = 0 THEN Kept(g, deletes) ELSE Inserted(e[k - 1], inserts[k])
  <2>1. CASE k = 0
    <3>1. 0 \in 0 .. m
      OBVIOUS
    <3>2. e[0] = f[0] /\ f[0] = Kept(g, deletes)
      BY <1>1, <1>2, <3>1
    <3> QED BY <2>1, <3>2
  <2>2. CASE k \in 1 .. m
    <3>1. k \in 0 .. m /\ k - 1 \in 0 .. m /\ k # 0
      BY <2>2
    <3>2. e[k] = f[k] /\ e[k - 1] = f[k - 1]
      BY <1>2, <3>1
    <3> QED BY <1>1, <3>1, <3>2
  <2>3. CASE k = m + 1
    <3>0. k - 1 = m /\ m \in 0 .. m
      BY <2>3
    <3>1. e[k - 1] = f[m]
      BY <1>2, <3>0
    <3> QED BY <1>2, <2>3, <3>1
  <2> QED BY <2>1, <2>2, <2>3
<1>4. Stages(g, deletes, inserts, m + 1, e)
  BY <1>2, <1>3 DEF Stages
<1>5. ASSUME NEW h, Stages(g, deletes, inserts, m + 1, h) PROVE h = e
  <2> DEFINE r == [k \in 0 .. m |-> h[k]]
  <2>1. h = [k \in 0 .. m + 1 |-> IF k = 0 THEN Kept(g, deletes) ELSE Inserted(h[k - 1], inserts[k])]
    BY <1>5 DEF Stages
  <2>2. ASSUME NEW k \in 0 .. m PROVE r[k] = IF k = 0 THEN Kept(g, deletes) ELSE Inserted(r[k - 1], inserts[k])
    <3>1. k # 0 => r[k - 1] = h[k - 1]
      OBVIOUS
    <3>2. r[k] = h[k] /\ k \in 0 .. m + 1
      OBVIOUS
    <3> HIDE DEF r
    <3> QED BY <2>1, <3>1, <3>2
  <2>3. r = [k \in 0 .. m |-> r[k]] /\ \A k \in 0 .. m : r[k] = h[k]
    OBVIOUS
  <2> HIDE DEF r
  <2>4. Stages(g, deletes, inserts, m, r)
    BY <2>2, <2>3 DEF Stages
  <2>5. r = f
    BY <2>4
  <2>6. h[m + 1] = Inserted(h[m], inserts[m + 1])
    BY <2>1
  <2>7. ASSUME NEW k \in 0 .. m + 1 PROVE h[k] = e[k]
    <3>1. \A j \in 0 .. m : h[j] = e[j]
      BY <1>2, <2>3, <2>5
    <3>2. k \in 0 .. m \/ k = m + 1
      OBVIOUS
    <3>3. m \in 0 .. m
      OBVIOUS
    <3> QED BY <1>2, <2>3, <2>5, <2>6, <3>1, <3>2, <3>3
  <2>8. h = [k \in 0 .. m + 1 |-> h[k]]
    BY <2>1
  <2> QED BY <1>2, <2>7, <2>8
<1> QED BY <1>2, <1>4, <1>5

LEMMA StagesExist ==
  ASSUME NEW g, NEW deletes, NEW inserts
  PROVE  \A m \in Nat : \E f : /\ Stages(g, deletes, inserts, m, f)
                               /\ \A h : Stages(g, deletes, inserts, m, h) => h = f
<1> DEFINE T == {m \in Nat : \E f : /\ Stages(g, deletes, inserts, m, f)
                                    /\ \A h : Stages(g, deletes, inserts, m, h) => h = f}
<1>1. 0 \in T
  <2> DEFINE f == [k \in 0 .. 0 |-> Kept(g, deletes)]
  <2>1. f = [k \in 0 .. 0 |-> IF k = 0 THEN Kept(g, deletes) ELSE Inserted(f[k - 1], inserts[k])]
    OBVIOUS
  <2>2. Stages(g, deletes, inserts, 0, f)
    BY <2>1 DEF Stages
  <2>3. ASSUME NEW h, Stages(g, deletes, inserts, 0, h) PROVE h = f
    <3>1. h = [k \in 0 .. 0 |-> IF k = 0 THEN Kept(g, deletes) ELSE Inserted(h[k - 1], inserts[k])]
      BY <2>3 DEF Stages
    <3>2. \A k \in 0 .. 0 : h[k] = Kept(g, deletes)
      BY <3>1
    <3>3. h = [k \in 0 .. 0 |-> h[k]]
      BY <3>1
    <3> QED BY <3>2, <3>3
  <2> HIDE DEF f
  <2> QED BY <2>2, <2>3
<1>2. ASSUME NEW m \in Nat, m \in T PROVE m + 1 \in T
  <2>1. PICK f : Stages(g, deletes, inserts, m, f) /\ \A h : Stages(g, deletes, inserts, m, h) => h = f
    BY <1>2
  <2> QED BY <2>1, StagesExtend
<1> HIDE DEF T
<1>3. Nat \subseteq T
  BY <1>1, <1>2, NatSetInduction
<1> QED BY <1>3 DEF T

\* First the deletions, then each insertion on the graph that the ones before left.
LEMMA AfterStages ==
  ASSUME NEW g, NEW deletes, NEW inserts
  PROVE  /\ After(g, deletes, inserts, 0) = Kept(g, deletes)
         /\ \A m \in Nat :
              After(g, deletes, inserts, m + 1) = Inserted(After(g, deletes, inserts, m), inserts[m + 1])
<1>1. \A m \in Nat : After(g, deletes, inserts, m) = (CHOOSE f : Stages(g, deletes, inserts, m, f))[m]
  BY DEF After, Stages, Kept
<1>2. ASSUME NEW m \in Nat, NEW f, Stages(g, deletes, inserts, m, f)
      PROVE  After(g, deletes, inserts, m) = f[m]
  <2>1. (CHOOSE h : Stages(g, deletes, inserts, m, h)) = f
    BY <1>2, StagesExist
  <2> QED BY <1>1, <2>1
<1>3. After(g, deletes, inserts, 0) = Kept(g, deletes)
  <2>1. PICK f : Stages(g, deletes, inserts, 0, f)
    BY StagesExist
  <2>2. f[0] = Kept(g, deletes)
    BY <2>1 DEF Stages
  <2> QED BY <1>2, <2>1, <2>2
<1>4. ASSUME NEW m \in Nat
      PROVE  After(g, deletes, inserts, m + 1) = Inserted(After(g, deletes, inserts, m), inserts[m + 1])
  <2>1. PICK f : Stages(g, deletes, inserts, m, f) /\ \A h : Stages(g, deletes, inserts, m, h) => h = f
    BY StagesExist
  <2>2. PICK e : Stages(g, deletes, inserts, m + 1, e) /\ e[m + 1] = Inserted(f[m], inserts[m + 1])
    BY <2>1, StagesExtend
  <2>3. m + 1 \in Nat
    OBVIOUS
  <2> QED BY <1>2, <2>1, <2>2, <2>3
<1> QED BY <1>3, <1>4

InsertionLists == Seq([edge : Node \X Node, weight : 1 .. MaxWeight])

\* The graph stays a digraph; an edge that is neither deleted nor raised stays
\* and gets no heavier; and an edge that is new or has another weight is an inserted one.
LEMMA AppliedFacts ==
  ASSUME NEW g, IsDigraph(g), NEW deletes \in SUBSET (Node \X Node), NEW inserts \in InsertionLists
  PROVE  /\ IsDigraph(Applied(g, deletes, inserts))
         /\ \A e \in DOMAIN g \ (deletes \cup Increases(g, deletes, inserts)) :
              e \in DOMAIN Applied(g, deletes, inserts) /\ Applied(g, deletes, inserts)[e] <= g[e]
         /\ \A e \in DOMAIN Applied(g, deletes, inserts) :
              \/ e \in DOMAIN g \ deletes /\ Applied(g, deletes, inserts)[e] = g[e]
              \/ e[2] \in Heads(inserts)
<1> DEFINE A(i) == After(g, deletes, inserts, i)
           Stable == DOMAIN g \ (deletes \cup Increases(g, deletes, inserts))
           Good(i) == /\ IsDigraph(A(i))
                      /\ \A e \in Stable : e \in DOMAIN A(i) /\ A(i)[e] <= g[e]
                      /\ \A e \in DOMAIN A(i) : (e \in DOMAIN g \ deletes /\ A(i)[e] = g[e]) \/ e[2] \in Heads(inserts)
           T == {i \in Nat : i <= Len(inserts) => Good(i)}
<1>0. /\ Len(inserts) \in Nat /\ DOMAIN inserts = 1 .. Len(inserts)
      /\ \A i \in DOMAIN inserts : inserts[i] \in [edge : Node \X Node, weight : 1 .. MaxWeight]
  <2> DEFINE R == [edge : Node \X Node, weight : 1 .. MaxWeight]
  <2>1. inserts \in Seq(R)
    BY DEF InsertionLists
  <2> HIDE DEF R
  <2>2. /\ Len(inserts) \in Nat /\ DOMAIN inserts = 1 .. Len(inserts)
        /\ \A i \in DOMAIN inserts : inserts[i] \in R
    BY <2>1
  <2> QED BY <2>2 DEF R
<1>1. 0 \in T
  <2>1. A(0) = [e \in DOMAIN g \ deletes |-> g[e]]
    BY AfterStages DEF Kept
  <2>2. \A e \in DOMAIN g : g[e] \in 1 .. MaxWeight
    BY DEF IsDigraph
  <2>3. IsDigraph(A(0))
    <3> HIDE DEF A
    <3>1. DOMAIN A(0) = DOMAIN g \ deletes /\ \A e \in DOMAIN A(0) : A(0)[e] \in 1 .. MaxWeight
      BY <2>1, <2>2
    <3>2. A(0) \in [DOMAIN A(0) -> 1 .. MaxWeight]
      BY <2>1, <3>1
    <3> QED BY <3>1, <3>2 DEF IsDigraph
  <2>4. \A e \in Stable : e \in DOMAIN A(0) /\ A(0)[e] <= g[e]
    BY <2>1, <2>2
  <2> QED BY <2>1, <2>3, <2>4
<1>2. ASSUME NEW i \in Nat, i \in T PROVE i + 1 \in T
  <2> SUFFICES ASSUME i + 1 <= Len(inserts) PROVE Good(i + 1)
    OBVIOUS
  <2> DEFINE new == inserts[i + 1]
  <2>1. i + 1 \in DOMAIN inserts /\ new.edge \in Node \X Node /\ new.weight \in 1 .. MaxWeight /\ Good(i)
    BY <1>0, <1>2
  <2>2. A(i + 1) = Inserted(A(i), new)
    BY AfterStages
  <2>3. A(i + 1) = [e \in DOMAIN A(i) \cup {new.edge} |-> IF e = new.edge THEN new.weight ELSE A(i)[e]]
    BY <2>2 DEF Inserted
  <2>4. new.edge \in DOMAIN A(i) /\ new.weight > A(i)[new.edge] => new.edge \in Increases(g, deletes, inserts)
    <3>1. A((i + 1) - 1) = A(i)
      BY <1>2
    <3> QED BY <2>1, <3>1 DEF Increases
  <2>5. new.edge[2] \in Heads(inserts)
    BY <2>1 DEF Heads
  <2> HIDE DEF A, new
  <2>6. DOMAIN A(i + 1) = DOMAIN A(i) \cup {new.edge}
    BY <2>3
  <2>7. \A e \in DOMAIN A(i) : A(i)[e] \in 1 .. MaxWeight
    BY <2>1 DEF IsDigraph
  <2>8. IsDigraph(A(i + 1))
    <3>1. \A e \in DOMAIN A(i + 1) : A(i + 1)[e] \in 1 .. MaxWeight
      BY <2>1, <2>3, <2>6, <2>7
    <3>2. DOMAIN A(i + 1) \subseteq Node \X Node
      BY <2>1, <2>6 DEF IsDigraph
    <3>3. A(i + 1) \in [DOMAIN A(i + 1) -> 1 .. MaxWeight]
      BY <2>3, <3>1
    <3> QED BY <3>2, <3>3 DEF IsDigraph
  <2>9. ASSUME NEW e \in Stable PROVE e \in DOMAIN A(i + 1) /\ A(i + 1)[e] <= g[e]
    <3>1. e \in DOMAIN A(i) /\ A(i)[e] <= g[e] /\ e \notin Increases(g, deletes, inserts)
      BY <2>1
    <3>2. g[e] \in Int /\ A(i)[e] \in Int /\ new.weight \in Int
      BY <2>1, <2>7, <3>1 DEF IsDigraph
    <3>3. CASE e = new.edge
      BY <2>3, <2>4, <2>6, <3>1, <3>2, <3>3
    <3>4. CASE e # new.edge
      BY <2>3, <2>6, <3>1, <3>4
    <3> QED BY <3>3, <3>4
  <2>10. ASSUME NEW e \in DOMAIN A(i + 1)
         PROVE  (e \in DOMAIN g \ deletes /\ A(i + 1)[e] = g[e]) \/ e[2] \in Heads(inserts)
    BY <2>1, <2>3, <2>5, <2>6
  <2> QED BY <2>8, <2>9, <2>10
<1> HIDE DEF T
<1>3. Nat \subseteq T
  BY <1>1, <1>2, NatSetInduction
<1>4. Len(inserts) \in T
  BY <1>0, <1>3
<1>5. Good(Len(inserts))
  BY <1>0, <1>4 DEF T
<1> QED BY <1>5 DEF Applied
=============================================================================
