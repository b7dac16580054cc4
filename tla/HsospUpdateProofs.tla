------------------------- MODULE HsospUpdateProofs --------------------------
(***************************************************************************)
(* Theorems about LineGraph, HsospRecompute and HsospUpdate, for every N,  *)
(* every set of line graphs, every sequence of batches, every cap and      *)
(* every budget.  The first part shows that the local certificate of a     *)
(* canonical tree and Bellman's recursion define the same distances.       *)
(*                                                                         *)
(* The recompute is exact.  A node is either settled (it hangs from its    *)
(* best neighbour at their current distances), or its warp is running, or  *)
(* one of its neighbours changed in this round and so it is a candidate of *)
(* the next.  For the middle case the warp's partial result must be known  *)
(* to be good: unless the node is already a candidate again, best[v] is    *)
(* the least word over the neighbours read so far, at their CURRENT        *)
(* distances, because none of them can have changed since it was read.     *)
(* It also converges below the cap.                                        *)
(*                                                                         *)
(* The update, phase by phase.  A batch leaves of the previous canonical   *)
(* tree what TreeBeforeBatch says: away from the roots and the inserted    *)
(* pairs nothing changed.  Pointer jumping marks a set that contains the   *)
(* roots and is closed under children (Jumping), so after invalidation     *)
(* every finite word is justified, and whatever could still improve is     *)
(* ahead of some warp (NoStaleWord, NoLostImprovement).  Both survive      *)
(* every access of the relaxation phase, and together they are the         *)
(* canonical tree once nothing is ahead of any warp.                       *)
(***************************************************************************)
EXTENDS HsospUpdate, FiniteSetTheorems, FunctionTheorems, WellFoundedInduction, TLAPS

-----------------------------------------------------------------------------
(***************************************************************************)
(* Shortest paths in line graphs.  Distances that every neighbour's offer  *)
(* respects are at most the cost of any walk, by induction on the number   *)
(* of its hops.  Distances that are each explained by a neighbour's are at *)
(* least the cost of some walk: a node hangs from one that is strictly     *)
(* nearer, so the nodes that are nearer bound the hops of its path.        *)
(* "Nearer" must break ties, for the virtual target weighs nothing: it     *)
(* comes after the other nodes at its distance.                            *)
(*                                                                         *)
(* CheapestWalks is a recursive function: that a function with this        *)
(* recursion exists is proved first, and inductions are over sets of       *)
(* numbers.                                                                *)
(***************************************************************************)

(***************************************************************************)
(* Induction over the natural numbers, for a set instead of a predicate.   *)
(***************************************************************************)

\* A nonempty set of natural numbers has a least one.
LEMMA LeastNatural ==
  ASSUME NEW S \in SUBSET Nat, S # {}
  PROVE  \E x \in S : \A y \in S : x <= y
<1> DEFINE R == OpToRel(<, Nat)
<1>1. IsWellFoundedOn(R, Nat)
  BY NatLessThanWellFounded
<1>2. \A x, y \in Nat : <<x, y>> \in R <=> x < y
  BY DEF OpToRel
<1> HIDE DEF R
<1>3. PICK x \in S : \A y \in S : ~ (<<y, x>> \in R)
  BY <1>1, WFMin
<1>4. ASSUME NEW y \in S PROVE x <= y
  <2>1. ~ (y < x)
    BY <1>2, <1>3
  <2> QED BY <2>1
<1> QED BY <1>4

\* A set that contains 0 and the successors of its members contains them all.
LEMMA NatSetInduction ==
  ASSUME NEW T, 0 \in T, \A n \in Nat : n \in T => n + 1 \in T
  PROVE  Nat \subseteq T
<1> SUFFICES ASSUME Nat \ T # {} PROVE FALSE
  OBVIOUS
<1>1. PICK m \in Nat \ T : \A y \in Nat \ T : m <= y
  BY LeastNatural
<1>2. m # 0 /\ m - 1 \in Nat /\ m - 1 \in T
  BY <1>1
<1> QED BY <1>1, <1>2

-----------------------------------------------------------------------------
(***************************************************************************)
(* Bellman's recursion, unfolded.                                          *)
(***************************************************************************)
FirstWalk == [v \in Node |-> IF v = Source THEN 0 ELSE Inf]

Longer(g, shorter) ==
  [v \in Node |->
     IF v = Source THEN 0
     ELSE Least(({shorter[v]} \cup
                 {shorter[u] + g.w[v] : u \in g.adj[v] \cap Reached(shorter)}) \ {Inf})]

\* m rounds of the recursion are a function.
LEMMA IterationsExist ==
  ASSUME NEW g, NEW m \in Nat
  PROVE  \E f : f = [k \in 0 .. m |-> IF k = 0 THEN FirstWalk ELSE Longer(g, f[k - 1])]
<1> DEFINE T == {n \in Nat : \E f : f = [k \in 0 .. n |-> IF k = 0 THEN FirstWalk ELSE Longer(g, f[k - 1])]}
<1>1. 0 \in T
  <2> DEFINE f == [k \in 0 .. 0 |-> FirstWalk]
  <2>1. f = [k \in 0 .. 0 |-> IF k = 0 THEN FirstWalk ELSE Longer(g, f[k - 1])]
    OBVIOUS
  <2> QED BY <2>1
<1>2. ASSUME NEW n \in Nat, n \in T PROVE n + 1 \in T
  <2>1. PICK f : f = [k \in 0 .. n |-> IF k = 0 THEN FirstWalk ELSE Longer(g, f[k - 1])]
    BY <1>2
  <2> DEFINE h == [k \in 0 .. n + 1 |-> IF k \in 0 .. n THEN f[k] ELSE Longer(g, f[n])]
  <2>2. ASSUME NEW k \in 0 .. n + 1
        PROVE  h[k] = IF k = 0 THEN FirstWalk ELSE Longer(g, h[k - 1])
    <3>1. CASE k = 0
      <4>1. h[0] = f[0]
        OBVIOUS
      <4> QED BY <2>1, <3>1, <4>1
    <3>2. CASE k \in 1 .. n
      <4>1. h[k] = f[k] /\ h[k - 1] = f[k - 1]
        BY <3>2
      <4> HIDE DEF h
      <4> QED BY <2>1, <3>2, <4>1
    <3>3. CASE k = n + 1
      <4>1. h[k] = Longer(g, f[n]) /\ h[k - 1] = f[n]
        BY <3>3
      <4> HIDE DEF h
      <4> QED BY <3>3, <4>1
    <3> QED BY <3>1, <3>2, <3>3
  <2>3. h = [k \in 0 .. n + 1 |-> h[k]]
    OBVIOUS
  <2> HIDE DEF h
  <2>4. h = [k \in 0 .. n + 1 |-> IF k = 0 THEN FirstWalk ELSE Longer(g, h[k - 1])]
    BY <2>2, <2>3
  <2> QED BY <2>4
<1> HIDE DEF T
<1>3. m \in T
  BY <1>1, <1>2, NatSetInduction
<1> QED BY <1>3 DEF T

\* The recursion that CheapestWalks is defined by holds.
LEMMA WalksUnfold ==
  ASSUME NEW g
  PROVE  CheapestWalks(g) =
           [k \in 0 .. N - 1 |-> IF k = 0 THEN FirstWalk ELSE Longer(g, CheapestWalks(g)[k - 1])]
<1>1. N - 1 \in Nat
  BY NAssumption
<1>2. \E f : f = [k \in 0 .. N - 1 |-> IF k = 0 THEN FirstWalk ELSE Longer(g, f[k - 1])]
  BY <1>1, IterationsExist
<1>3. CheapestWalks(g) = CHOOSE f : f = [k \in 0 .. N - 1 |-> IF k = 0 THEN FirstWalk ELSE Longer(g, f[k - 1])]
  BY DEF CheapestWalks, FirstWalk, Longer
<1> QED BY <1>2, <1>3


\* The order of distances, in which Inf is the greatest.
NoMore(a, b) == b # Inf => a # Inf /\ a <= b

Distance == Nat \cup {Inf}

\* What the proofs use of a line graph.
LEMMA LineGraphFacts ==
  ASSUME NEW g, IsGraph(g), NEW v \in Node
  PROVE  /\ g.adj[v] \subseteq Node /\ v \notin g.adj[v]
         /\ g.w[v] \in Nat /\ (v \notin Virtual => g.w[v] > 0)
         /\ Source \in Node /\ Inf \notin Nat
BY EndsAssumption, InfAssumption DEF IsGraph

\* Least returns Inf or the least member.
LEMMA LeastFacts ==
  ASSUME NEW S \in SUBSET Nat
  PROVE  /\ S = {} => Least(S) = Inf
         /\ S # {} => Least(S) \in S /\ \A x \in S : Least(S) <= x
<1>1. ASSUME S # {} PROVE \E x \in S : \A y \in S : x <= y
  BY <1>1, LeastNatural
<1> QED BY <1>1 DEF Least

\* One hop more: no distance grows, every neighbour's offer is respected, and
\* a distance that is new is an offer.
LEMMA LongerFacts ==
  ASSUME NEW g, IsGraph(g), NEW s \in [Node -> Distance], s[Source] = 0
  PROVE  /\ Longer(g, s) \in [Node -> Distance] /\ Longer(g, s)[Source] = 0
         /\ \A v \in Node : NoMore(Longer(g, s)[v], s[v])
         /\ \A v \in Node \ {Source} : \A u \in g.adj[v] :
              s[u] # Inf => NoMore(Longer(g, s)[v], s[u] + g.w[v])
         /\ \A v \in Node \ {Source} : Longer(g, s)[v] # Inf =>
              \/ Longer(g, s)[v] = s[v]
              \/ \E u \in g.adj[v] : s[u] # Inf /\ Longer(g, s)[v] = s[u] + g.w[v]
<1> DEFINE Offers(v) == {s[u] + g.w[v] : u \in g.adj[v] \cap Reached(s)}
           All(v) == ({s[v]} \cup Offers(v)) \ {Inf}
<1>1. ASSUME NEW v \in Node PROVE All(v) \in SUBSET Nat
  <2>1. \A u \in g.adj[v] \cap Reached(s) : s[u] + g.w[v] \in Nat
    BY LineGraphFacts DEF Reached, Distance
  <2> QED BY <2>1 DEF Distance
<1>2. Source \in Node /\ Longer(g, s)[Source] = 0 /\ Inf \notin Nat
  BY LineGraphFacts, EndsAssumption DEF Longer
<1>3. \A v \in Node \ {Source} : Longer(g, s)[v] = Least(All(v))
  BY DEF Longer
<1>4. ASSUME NEW v \in Node \ {Source}
      PROVE  /\ Longer(g, s)[v] \in Distance
             /\ NoMore(Longer(g, s)[v], s[v])
             /\ \A u \in g.adj[v] : s[u] # Inf => NoMore(Longer(g, s)[v], s[u] + g.w[v])
             /\ Longer(g, s)[v] # Inf =>
                  \/ Longer(g, s)[v] = s[v]
                  \/ \E u \in g.adj[v] : s[u] # Inf /\ Longer(g, s)[v] = s[u] + g.w[v]
  <2> HIDE DEF Offers
  <2>1. All(v) \in SUBSET Nat /\ Longer(g, s)[v] = Least(All(v))
    BY <1>1, <1>3
  <2>2. s[v] # Inf => s[v] \in All(v)
    OBVIOUS
  <2>3. \A u \in g.adj[v] : s[u] # Inf => s[u] + g.w[v] \in All(v)
    <3>1. \A u \in g.adj[v] : s[u] # Inf => u \in Reached(s) /\ s[u] + g.w[v] \in Nat
      BY LineGraphFacts DEF Reached, Distance
    <3> QED BY <3>1, <1>2 DEF Offers
  <2>4. \A x \in All(v) : x = s[v] \/ \E u \in g.adj[v] : s[u] # Inf /\ x = s[u] + g.w[v]
    BY DEF Offers, Reached
  <2> HIDE DEF All
  <2>5. CASE All(v) = {}
    <3>1. Longer(g, s)[v] = Inf
      BY <2>1, <2>5, LeastFacts
    <3> QED BY <2>2, <2>3, <2>5, <3>1 DEF Distance, NoMore
  <2>6. CASE All(v) # {}
    <3>1. Longer(g, s)[v] \in All(v) /\ \A x \in All(v) : Longer(g, s)[v] <= x
      BY <2>1, <2>6, LeastFacts
    <3>2. Longer(g, s)[v] \in Nat /\ Longer(g, s)[v] # Inf
      BY <2>1, <3>1, <1>2
    <3> QED BY <2>2, <2>3, <2>4, <3>1, <3>2 DEF Distance, NoMore
  <2> QED BY <2>5, <2>6
<1> HIDE DEF All
<1>5. Longer(g, s) \in [Node -> Distance]
  <2>1. \A v \in Node : Longer(g, s)[v] \in Distance
    BY <1>2, <1>4 DEF Distance
  <2> QED BY <2>1 DEF Longer
<1>6. \A v \in Node : NoMore(Longer(g, s)[v], s[v])
  BY <1>2, <1>4 DEF NoMore
<1> QED BY <1>2, <1>4, <1>5, <1>6

-----------------------------------------------------------------------------
(***************************************************************************)
(* The cheapest walks of at most k hops.                                   *)
(***************************************************************************)

\* The first walk, and each from the one before.
LEMMA WalkRounds ==
  ASSUME NEW g
  PROVE  /\ CheapestWalks(g)[0] = FirstWalk
         /\ \A k \in 1 .. N - 1 : CheapestWalks(g)[k] = Longer(g, CheapestWalks(g)[k - 1])
<1>1. 0 \in 0 .. N - 1 /\ \A k \in 1 .. N - 1 : k \in 0 .. N - 1 /\ k # 0
  BY NAssumption
<1> QED BY <1>1, WalksUnfold

\* Walks are distances, and the source is at no distance from itself.
LEMMA WalkTypes ==
  ASSUME NEW g, IsGraph(g)
  PROVE  \A k \in 0 .. N - 1 : CheapestWalks(g)[k] \in [Node -> Distance] /\ CheapestWalks(g)[k][Source] = 0
<1> DEFINE T == {k \in Nat : k <= N - 1 =>
                   CheapestWalks(g)[k] \in [Node -> Distance] /\ CheapestWalks(g)[k][Source] = 0}
<1>1. 0 \in T
  <2>1. FirstWalk \in [Node -> Distance] /\ FirstWalk[Source] = 0
    BY EndsAssumption DEF FirstWalk, Distance
  <2>2. CheapestWalks(g)[0] = FirstWalk
    BY WalkRounds
  <2> QED BY <2>1, <2>2
<1>2. ASSUME NEW k \in Nat, k \in T PROVE k + 1 \in T
  <2> SUFFICES ASSUME k + 1 <= N - 1
               PROVE  CheapestWalks(g)[k + 1] \in [Node -> Distance] /\ CheapestWalks(g)[k + 1][Source] = 0
    OBVIOUS
  <2>1. k + 1 \in 1 .. N - 1 /\ k <= N - 1 /\ k + 1 - 1 = k
    BY NAssumption
  <2>2. CheapestWalks(g)[k + 1] = Longer(g, CheapestWalks(g)[k])
    BY <2>1, WalkRounds
  <2>3. CheapestWalks(g)[k] \in [Node -> Distance] /\ CheapestWalks(g)[k][Source] = 0
    BY <1>2, <2>1
  <2> QED BY <2>2, <2>3, LongerFacts
<1> HIDE DEF T
<1>3. Nat \subseteq T
  BY <1>1, <1>2, NatSetInduction
<1> QED BY <1>3, NAssumption DEF T

\* What a round does to the distances, for the rounds of CheapestWalks.
LEMMA WalkSteps ==
  ASSUME NEW g, IsGraph(g), NEW k \in 1 .. N - 1, NEW v \in Node
  PROVE  /\ NoMore(CheapestWalks(g)[k][v], CheapestWalks(g)[k - 1][v])
         /\ v # Source => \A u \in g.adj[v] :
              CheapestWalks(g)[k - 1][u] # Inf =>
                NoMore(CheapestWalks(g)[k][v], CheapestWalks(g)[k - 1][u] + g.w[v])
         /\ v # Source /\ CheapestWalks(g)[k][v] # Inf =>
              \/ CheapestWalks(g)[k][v] = CheapestWalks(g)[k - 1][v]
              \/ \E u \in g.adj[v] : /\ CheapestWalks(g)[k - 1][u] # Inf
                                     /\ CheapestWalks(g)[k][v] = CheapestWalks(g)[k - 1][u] + g.w[v]
<1>1. k - 1 \in 0 .. N - 1
  BY NAssumption
<1>2. CheapestWalks(g)[k - 1] \in [Node -> Distance] /\ CheapestWalks(g)[k - 1][Source] = 0
  BY <1>1, WalkTypes
<1>3. CheapestWalks(g)[k] = Longer(g, CheapestWalks(g)[k - 1])
  BY WalkRounds
<1> QED BY <1>2, <1>3, LongerFacts

\* More hops never cost more.
LEMMA WalksDecrease ==
  ASSUME NEW g, IsGraph(g), NEW j \in 0 .. N - 1, NEW k \in j .. N - 1, NEW v \in Node
  PROVE  NoMore(CheapestWalks(g)[k][v], CheapestWalks(g)[j][v])
<1> DEFINE T == {i \in Nat : j + i <= N - 1 => NoMore(CheapestWalks(g)[j + i][v], CheapestWalks(g)[j][v])}
<1>1. 0 \in T
  <2>1. j + 0 = j /\ j \in 0 .. N - 1 /\ CheapestWalks(g)[j][v] \in Distance
    BY WalkTypes
  <2> QED BY <2>1, InfAssumption DEF NoMore, Distance
<1>2. ASSUME NEW i \in Nat, i \in T PROVE i + 1 \in T
  <2> SUFFICES ASSUME j + (i + 1) <= N - 1
               PROVE  NoMore(CheapestWalks(g)[j + (i + 1)][v], CheapestWalks(g)[j][v])
    OBVIOUS
  <2>1. /\ j + (i + 1) \in 1 .. N - 1 /\ j + (i + 1) - 1 = j + i
        /\ j + i \in 0 .. N - 1 /\ j + i <= N - 1
    BY NAssumption
  <2>2. NoMore(CheapestWalks(g)[j + (i + 1)][v], CheapestWalks(g)[j + i][v])
    BY <2>1, WalkSteps
  <2>3. NoMore(CheapestWalks(g)[j + i][v], CheapestWalks(g)[j][v])
    BY <1>2, <2>1
  <2>4. /\ CheapestWalks(g)[j + (i + 1)][v] \in Distance /\ CheapestWalks(g)[j + i][v] \in Distance
        /\ CheapestWalks(g)[j][v] \in Distance
    BY <2>1, WalkTypes
  <2> QED BY <2>2, <2>3, <2>4 DEF NoMore, Distance
<1> HIDE DEF T
<1>3. k - j \in Nat /\ j + (k - j) = k /\ k <= N - 1
  BY NAssumption
<1>4. k - j \in T
  BY <1>1, <1>2, <1>3, NatSetInduction
<1> QED BY <1>3, <1>4 DEF T

\* A walk that reaches v ends with a hop, from a walk with one hop less.
LEMMA WalksEndWithHop ==
  ASSUME NEW g, IsGraph(g), NEW v \in Node \ {Source}
  PROVE  \A k \in 1 .. N - 1 : CheapestWalks(g)[k][v] # Inf =>
           \E u \in g.adj[v] : /\ CheapestWalks(g)[k - 1][u] # Inf
                               /\ CheapestWalks(g)[k - 1][u] + g.w[v] <= CheapestWalks(g)[k][v]
<1> DEFINE Ends(k) == CheapestWalks(g)[k][v] # Inf =>
                        \E u \in g.adj[v] : /\ CheapestWalks(g)[k - 1][u] # Inf
                                            /\ CheapestWalks(g)[k - 1][u] + g.w[v] <= CheapestWalks(g)[k][v]
           T == {i \in Nat : i + 1 <= N - 1 => Ends(i + 1)}
<1>1. ASSUME NEW k \in 1 .. N - 1, CheapestWalks(g)[k][v] # Inf,
             CheapestWalks(g)[k][v] # CheapestWalks(g)[k - 1][v]
      PROVE  Ends(k)
  <2>1. PICK u \in g.adj[v] : /\ CheapestWalks(g)[k - 1][u] # Inf
                              /\ CheapestWalks(g)[k][v] = CheapestWalks(g)[k - 1][u] + g.w[v]
    BY <1>1, WalkSteps
  <2>2. u \in Node /\ g.w[v] \in Nat /\ k - 1 \in 0 .. N - 1
    BY LineGraphFacts, NAssumption
  <2>3. CheapestWalks(g)[k - 1][u] \in Nat
    BY <2>1, <2>2, WalkTypes DEF Distance
  <2>4. CheapestWalks(g)[k - 1][u] + g.w[v] <= CheapestWalks(g)[k][v]
    BY <2>1, <2>2, <2>3
  <2> QED BY <2>1, <2>4
<1>2. 0 \in T
  <2>1. CheapestWalks(g)[0][v] = Inf
    BY WalkRounds DEF FirstWalk
  <2> SUFFICES ASSUME 1 <= N - 1, CheapestWalks(g)[1][v] # Inf PROVE Ends(1)
    OBVIOUS
  <2>2. 1 \in 1 .. N - 1 /\ 1 - 1 = 0
    BY NAssumption
  <2> HIDE DEF Ends
  <2> QED BY <1>1, <2>1, <2>2
<1>3. ASSUME NEW i \in Nat, i \in T PROVE i + 1 \in T
  <2> SUFFICES ASSUME i + 2 <= N - 1, CheapestWalks(g)[i + 2][v] # Inf PROVE Ends(i + 2)
    <3>1. (i + 1) + 1 = i + 2
      OBVIOUS
    <3> QED BY <3>1
  <2>1. /\ i + 2 \in 1 .. N - 1 /\ i + 2 - 1 = i + 1 /\ i + 1 \in 1 .. N - 1 /\ i + 1 - 1 = i
        /\ i \in 0 .. N - 1 /\ i + 1 \in i .. N - 1 /\ i + 1 <= N - 1
    BY NAssumption
  <2>2. CASE CheapestWalks(g)[i + 2][v] # CheapestWalks(g)[i + 1][v]
    <3> HIDE DEF Ends
    <3> QED BY <1>1, <2>1, <2>2
  <2>3. CASE CheapestWalks(g)[i + 2][v] = CheapestWalks(g)[i + 1][v]
    <3>1. PICK u \in g.adj[v] : /\ CheapestWalks(g)[i][u] # Inf
                                /\ CheapestWalks(g)[i][u] + g.w[v] <= CheapestWalks(g)[i + 1][v]
      BY <1>3, <2>1, <2>3
    <3>2. u \in Node /\ g.w[v] \in Nat
      BY LineGraphFacts
    <3>3. NoMore(CheapestWalks(g)[i + 1][u], CheapestWalks(g)[i][u])
      BY <2>1, <3>2, WalksDecrease
    <3>4. /\ CheapestWalks(g)[i + 1][u] \in Distance /\ CheapestWalks(g)[i][u] \in Distance
          /\ CheapestWalks(g)[i + 1][v] \in Distance
      BY <2>1, <3>2, WalkTypes
    <3>5. CheapestWalks(g)[i + 1][u] # Inf /\ CheapestWalks(g)[i + 1][u] + g.w[v] <= CheapestWalks(g)[i + 2][v]
      BY <2>3, <3>1, <3>2, <3>3, <3>4 DEF NoMore, Distance
    <3> QED BY <2>1, <3>5
  <2> QED BY <2>2, <2>3
<1> HIDE DEF T
<1>4. ASSUME NEW k \in 1 .. N - 1 PROVE Ends(k)
  <2>1. k - 1 \in Nat /\ (k - 1) + 1 = k /\ k <= N - 1
    BY NAssumption
  <2>2. k - 1 \in T
    BY <1>2, <1>3, <2>1, NatSetInduction
  <2> QED BY <2>1, <2>2 DEF T
<1> QED BY <1>4

-----------------------------------------------------------------------------
(***************************************************************************)
(* Distances that are respected, and distances that are explained.         *)
(***************************************************************************)

\* The distances of a graph that no neighbour's offer improves.
Respected(g, d) ==
  \A v \in Node \ {Source} : \A u \in g.adj[v] : d[u] # Inf => NoMore(d[v], d[u] + g.w[v])

\* No walk is cheaper than distances that are respected.
LEMMA WalksRespect ==
  ASSUME NEW g, IsGraph(g), NEW d \in [Node -> Distance], d[Source] = 0, Respected(g, d)
  PROVE  \A k \in 0 .. N - 1 : \A v \in Node : NoMore(d[v], CheapestWalks(g)[k][v])
<1> DEFINE T == {k \in Nat : k <= N - 1 => \A v \in Node : NoMore(d[v], CheapestWalks(g)[k][v])}
<1>1. 0 \in T
  <2>1. CheapestWalks(g)[0] = FirstWalk
    BY WalkRounds
  <2>2. \A v \in Node : NoMore(d[v], FirstWalk[v])
    BY InfAssumption DEF FirstWalk, NoMore
  <2> QED BY <2>1, <2>2
<1>2. ASSUME NEW k \in Nat, k \in T PROVE k + 1 \in T
  <2> SUFFICES ASSUME k + 1 <= N - 1, NEW v \in Node, CheapestWalks(g)[k + 1][v] # Inf
               PROVE  d[v] # Inf /\ d[v] <= CheapestWalks(g)[k + 1][v]
    BY DEF NoMore
  <2>1. /\ k + 1 \in 1 .. N - 1 /\ k + 1 - 1 = k /\ k \in 0 .. N - 1 /\ k <= N - 1
        /\ k + 1 \in 0 .. N - 1
    BY NAssumption
  <2>2. CASE v = Source
    <3>1. CheapestWalks(g)[k + 1][Source] = 0
      BY <2>1, WalkTypes
    <3> QED BY <2>2, <3>1, InfAssumption
  <2>3. CASE v # Source
    <3>1. PICK u \in g.adj[v] : /\ CheapestWalks(g)[k][u] # Inf
                                /\ CheapestWalks(g)[k][u] + g.w[v] <= CheapestWalks(g)[k + 1][v]
      BY <2>1, <2>3, WalksEndWithHop
    <3>2. u \in Node /\ g.w[v] \in Nat /\ d[u] \in Distance /\ d[v] \in Distance
      BY LineGraphFacts
    <3>3. d[u] # Inf /\ d[u] <= CheapestWalks(g)[k][u]
      BY <1>2, <2>1, <3>1, <3>2 DEF NoMore
    <3>4. d[v] # Inf /\ d[v] <= d[u] + g.w[v]
      <4>1. d[u] + g.w[v] # Inf
        BY <3>2, <3>3, InfAssumption DEF Distance
      <4>2. NoMore(d[v], d[u] + g.w[v])
        BY <2>3, <3>1, <3>3 DEF Respected
      <4> QED BY <4>1, <4>2 DEF NoMore
    <3>5. CheapestWalks(g)[k][u] \in Distance /\ CheapestWalks(g)[k + 1][v] \in Distance
      BY <2>1, <3>2, WalkTypes
    <3> QED BY <3>1, <3>2, <3>3, <3>4, <3>5 DEF Distance
  <2> QED BY <2>2, <2>3
<1> HIDE DEF T
<1>3. Nat \subseteq T
  BY <1>1, <1>2, NatSetInduction
<1> QED BY <1>3, NAssumption DEF T

\* Every node of S hangs from another one of S, or is the source.
Explained(g, d, S) ==
  \A v \in S :
    /\ d[v] # Inf
    /\ IF v = Source THEN d[v] = 0 ELSE \E p \in g.adj[v] \cap S : d[v] = d[p] + g.w[v]

\* The order in which nodes are settled: by distance, the target after the
\* others, for it adds nothing to the distance of the node it hangs from.
SearchKey(d, v) == 2 * d[v] + (IF v = Target THEN 1 ELSE 0)

Nearer(d, S, v) == {u \in S : SearchKey(d, u) < SearchKey(d, v)}

\* The nodes that are nearer are a proper part of the nodes; what a node hangs
\* from has fewer of them.
LEMMA NearerFacts ==
  ASSUME NEW g, IsGraph(g), NEW d \in [Node -> Distance], NEW S \in SUBSET Node, Explained(g, d, S),
         NEW v \in S
  PROVE  /\ Cardinality(Nearer(d, S, v)) \in 0 .. N - 1
         /\ \A p \in g.adj[v] \cap S : v # Source /\ d[v] = d[p] + g.w[v] =>
              Cardinality(Nearer(d, S, p)) < Cardinality(Nearer(d, S, v))
<1>1. \A u \in S : d[u] \in Nat /\ SearchKey(d, u) \in Nat
  BY DEF Explained, Distance, SearchKey
<1>2. IsFiniteSet(Node) /\ Cardinality(Node) = N
  <2>1. N \in Nat /\ N > 0 /\ 0 \in Int /\ N - 1 \in Int
    BY NAssumption
  <2>2. IsFiniteSet(0 .. N - 1) /\ Cardinality(0 .. N - 1) = N
    BY <2>1, FS_Interval
  <2> QED BY <2>2 DEF Node
<1>3. ASSUME NEW A \in SUBSET Node, NEW B \in SUBSET A, B # A
      PROVE  Cardinality(B) \in Nat /\ Cardinality(A) \in Nat /\ Cardinality(B) < Cardinality(A)
  <2>1. IsFiniteSet(A)
    BY <1>2, FS_Subset
  <2>2. /\ IsFiniteSet(B) /\ Cardinality(B) <= Cardinality(A)
        /\ Cardinality(A) = Cardinality(B) => A = B
    BY <2>1, FS_Subset
  <2>3. Cardinality(A) \in Nat /\ Cardinality(B) \in Nat
    BY <2>1, <2>2, FS_CardinalityType
  <2> QED BY <1>3, <2>2, <2>3
<1>4. Cardinality(Nearer(d, S, v)) \in 0 .. N - 1
  <2>1. Nearer(d, S, v) \in SUBSET Node /\ v \notin Nearer(d, S, v) /\ v \in Node
    BY <1>1 DEF Nearer
  <2>2. Cardinality(Nearer(d, S, v)) \in Nat /\ Cardinality(Nearer(d, S, v)) < N
    BY <1>2, <1>3, <2>1
  <2> QED BY <2>2, NAssumption
<1>5. ASSUME NEW p \in g.adj[v] \cap S, v # Source, d[v] = d[p] + g.w[v]
      PROVE  Cardinality(Nearer(d, S, p)) < Cardinality(Nearer(d, S, v))
  <2>1. p # v /\ g.w[v] \in Nat /\ (v # Target => g.w[v] > 0)
    BY <1>5, LineGraphFacts DEF Virtual
  <2>2. SearchKey(d, p) < SearchKey(d, v)
    BY <1>1, <1>5, <2>1 DEF SearchKey
  <2>3. Nearer(d, S, p) \subseteq Nearer(d, S, v) /\ p \in Nearer(d, S, v) /\ p \notin Nearer(d, S, p)
    BY <1>1, <2>2 DEF Nearer
  <2>4. Nearer(d, S, v) \in SUBSET Node
    BY DEF Nearer
  <2> QED BY <1>3, <2>3, <2>4
<1> QED BY <1>4, <1>5

\* Distances that are explained are the costs of walks, of no more hops than
\* there are nearer nodes.
LEMMA WalksExplain ==
  ASSUME NEW g, IsGraph(g), NEW d \in [Node -> Distance], NEW S \in SUBSET Node, Explained(g, d, S),
         NEW v \in S, NEW k \in Cardinality(Nearer(d, S, v)) .. N - 1
  PROVE  CheapestWalks(g)[k][v] # Inf /\ CheapestWalks(g)[k][v] <= d[v]
<1> DEFINE C(x) == Cardinality(Nearer(d, S, x))
           Reach(x, i) == CheapestWalks(g)[i][x] # Inf /\ CheapestWalks(g)[i][x] <= d[x]
           T == {n \in Nat : \A x \in S : C(x) <= n => \A i \in 0 .. N - 1 : n <= i => Reach(x, i)}
<1>1. \A x \in S : C(x) \in 0 .. N - 1
  BY NearerFacts
<1>2. ASSUME NEW n \in Nat, NEW x \in S, C(x) <= n,
             \A p \in S : C(p) < C(x) => \A i \in 0 .. N - 1 : n - 1 <= i => Reach(p, i),
             NEW i \in 0 .. N - 1, n <= i
      PROVE  Reach(x, i)
  <2>1. CASE x = Source
    <3>1. CheapestWalks(g)[i][Source] = 0 /\ d[Source] = 0
      BY <2>1, WalkTypes DEF Explained
    <3> QED BY <2>1, <3>1, InfAssumption
  <2>2. CASE x # Source
    <3>1. PICK p \in g.adj[x] \cap S : d[x] = d[p] + g.w[x]
      BY <2>2 DEF Explained
    <3>2. C(p) < C(x) /\ C(p) \in Nat /\ C(x) \in Nat
      BY <1>1, <2>2, <3>1, NearerFacts
    <3>3. i \in 1 .. N - 1 /\ i - 1 \in 0 .. N - 1 /\ n - 1 <= i - 1
      BY <1>2, <3>2, NAssumption
    <3>4. CheapestWalks(g)[i - 1][p] # Inf /\ CheapestWalks(g)[i - 1][p] <= d[p]
      BY <1>2, <3>2, <3>3
    <3>5. NoMore(CheapestWalks(g)[i][x], CheapestWalks(g)[i - 1][p] + g.w[x])
      BY <2>2, <3>1, <3>3, <3>4, WalkSteps
    <3>6. /\ d[p] \in Nat /\ d[x] \in Nat /\ g.w[x] \in Nat
          /\ CheapestWalks(g)[i - 1][p] \in Nat /\ CheapestWalks(g)[i][x] \in Distance
      BY <3>1, <3>3, <3>4, WalkTypes, LineGraphFacts DEF Explained, Distance
    <3>7. CheapestWalks(g)[i - 1][p] + g.w[x] \in Nat /\ Inf \notin Nat
      BY <3>6, InfAssumption
    <3> QED BY <3>1, <3>4, <3>5, <3>6, <3>7 DEF NoMore, Distance
  <2> QED BY <2>1, <2>2
<1> HIDE DEF Reach
<1>3. 0 \in T
  <2> SUFFICES ASSUME NEW x \in S, C(x) <= 0, NEW i \in 0 .. N - 1 PROVE Reach(x, i)
    OBVIOUS
  <2>1. \A p \in S : ~ (C(p) < C(x))
    BY <1>1
  <2> QED BY <1>2, <2>1
<1>4. ASSUME NEW n \in Nat, n \in T PROVE n + 1 \in T
  <2> SUFFICES ASSUME NEW x \in S, C(x) <= n + 1, NEW i \in 0 .. N - 1, n + 1 <= i PROVE Reach(x, i)
    OBVIOUS
  <2>1. \A p \in S : C(p) < C(x) => \A j \in 0 .. N - 1 : (n + 1) - 1 <= j => Reach(p, j)
    BY <1>1, <1>4
  <2>2. n + 1 \in Nat
    OBVIOUS
  <2> HIDE DEF C
  <2> QED BY <1>2, <2>1, <2>2
<1> HIDE DEF T
<1>5. N - 1 \in Nat /\ C(v) \in T
  BY <1>1, <1>3, <1>4, NatSetInduction, NAssumption
<1>6. C(v) \in Nat /\ k \in 0 .. N - 1 /\ C(v) <= k
  BY <1>1
<1>7. Reach(v, k)
  BY <1>5, <1>6 DEF T
<1> QED BY <1>7 DEF Reach

-----------------------------------------------------------------------------
(***************************************************************************)
(* The shortest distances.                                                 *)
(***************************************************************************)

\* Distances that are respected and explained are the shortest ones.
LEMMA CertifiedAreShortest ==
  ASSUME NEW g, IsGraph(g), NEW d \in [Node -> Distance], d[Source] = 0,
         Respected(g, d), Explained(g, d, Reached(d))
  PROVE  d = ShortestDistances(g)
<1>1. N - 1 \in 0 .. N - 1
  BY NAssumption
<1>2. ShortestDistances(g) \in [Node -> Distance]
  BY <1>1, WalkTypes DEF ShortestDistances
<1>3. ASSUME NEW v \in Node PROVE d[v] = ShortestDistances(g)[v]
  <2>1. NoMore(d[v], ShortestDistances(g)[v])
    BY <1>1, WalksRespect DEF ShortestDistances
  <2>2. ASSUME d[v] # Inf
        PROVE  ShortestDistances(g)[v] # Inf /\ ShortestDistances(g)[v] <= d[v]
    <3>1. v \in Reached(d) /\ Reached(d) \in SUBSET Node
      BY <2>2 DEF Reached
    <3>2. N - 1 \in Cardinality(Nearer(d, Reached(d), v)) .. N - 1
      BY <1>1, <3>1, NearerFacts
    <3> QED BY <3>1, <3>2, WalksExplain DEF ShortestDistances
  <2>3. d[v] \in Distance /\ ShortestDistances(g)[v] \in Distance
    BY <1>2
  <2> QED BY <2>1, <2>2, <2>3 DEF NoMore, Distance
<1> QED BY <1>2, <1>3

\* A neighbour's offer is at least the shortest distance: N - 1 hops reach
\* everything.
LEMMA ShortestAreRespected ==
  ASSUME NEW g, IsGraph(g)
  PROVE  Respected(g, ShortestDistances(g))
<1> DEFINE D == ShortestDistances(g)
<1>1. N - 1 \in 1 .. N - 1 /\ N - 1 \in 0 .. N - 1 /\ N - 1 \in Nat
  BY NAssumption
<1>2. D \in [Node -> Distance] /\ D[Source] = 0 /\ D = CheapestWalks(g)[N - 1]
  BY <1>1, WalkTypes DEF ShortestDistances
<1> HIDE DEF D
<1> DEFINE Shortens(u, v) == D[u] # Inf /\ ~ NoMore(D[v], D[u] + g.w[v])
           Offers == {D[e[1]] + g.w[e[2]] : e \in {e \in Node \X (Node \ {Source}) :
                        e[1] \in g.adj[e[2]] /\ Shortens(e[1], e[2])}}
<1> SUFFICES ASSUME ~ Respected(g, D) PROVE FALSE
  BY DEF D
<1>3. PICK u \in Node, v \in Node \ {Source} :
        /\ u \in g.adj[v] /\ Shortens(u, v)
        /\ \A x \in Node, y \in Node \ {Source} :
             x \in g.adj[y] /\ Shortens(x, y) => D[u] + g.w[v] <= D[x] + g.w[y]
  <2>1. \A x \in Node : D[x] # Inf => D[x] \in Nat
    BY <1>2 DEF Distance
  <2>2. Offers \in SUBSET Nat
    BY <2>1, LineGraphFacts
  <2>3. Offers # {}
    <3>1. PICK y \in Node \ {Source} : \E x \in g.adj[y] : Shortens(x, y)
      BY DEF Respected
    <3>2. PICK x \in g.adj[y] : Shortens(x, y)
      BY <3>1
    <3>3. x \in Node
      BY LineGraphFacts
    <3>4. <<x, y>> \in {e \in Node \X (Node \ {Source}) : e[1] \in g.adj[e[2]] /\ Shortens(e[1], e[2])}
      BY <3>2, <3>3
    <3>5. D[x] + g.w[y] \in Offers
      BY <3>4
    <3> QED BY <3>5
  <2>4. PICK c \in Offers : \A b \in Offers : c <= b
    BY <2>2, <2>3, LeastNatural
  <2>5. PICK x \in Node, y \in Node \ {Source} : x \in g.adj[y] /\ Shortens(x, y) /\ c = D[x] + g.w[y]
    BY <2>4
  <2>6. ASSUME NEW p \in Node, NEW q \in Node \ {Source}, p \in g.adj[q], Shortens(p, q)
        PROVE  D[x] + g.w[y] <= D[p] + g.w[q]
    <3>1. <<p, q>> \in {e \in Node \X (Node \ {Source}) : e[1] \in g.adj[e[2]] /\ Shortens(e[1], e[2])}
      BY <2>6
    <3>2. D[p] + g.w[q] \in Offers
      BY <3>1
    <3> QED BY <2>4, <2>5, <3>2
  <2> HIDE DEF Shortens, Offers
  <2> QED BY <2>5, <2>6
<1>4. D[u] \in Nat /\ g.w[v] \in Nat /\ Inf \notin Nat
  BY <1>2, <1>3, LineGraphFacts DEF Distance
<1>5. D[v] = Inf \/ (D[v] \in Nat /\ D[u] + g.w[v] < D[v])
  BY <1>2, <1>3, <1>4 DEF NoMore, Distance
<1> DEFINE S == {x \in Node : D[x] # Inf /\ D[x] <= D[u]}
<1>6. Explained(g, D, S)
  <2> SUFFICES ASSUME NEW x \in S, x # Source
               PROVE  \E p \in g.adj[x] \cap S : D[x] = D[p] + g.w[x]
    BY <1>2 DEF Explained
  <2>1. PICK p \in g.adj[x] : /\ CheapestWalks(g)[N - 2][p] # Inf
                              /\ CheapestWalks(g)[N - 2][p] + g.w[x] <= D[x]
    <3>1. N - 1 - 1 = N - 2
      BY NAssumption
    <3> QED BY <1>1, <1>2, <3>1, WalksEndWithHop
  <2>2. p \in Node /\ g.w[x] \in Nat /\ D[x] \in Nat
    BY <1>2, LineGraphFacts DEF Distance
  <2>3. N - 2 \in 0 .. N - 1 /\ N - 1 \in N - 2 .. N - 1
    BY NAssumption
  <2>4. NoMore(D[p], CheapestWalks(g)[N - 2][p])
    BY <1>2, <2>2, <2>3, WalksDecrease
  <2>5. D[p] \in Nat /\ D[p] + g.w[x] <= D[x]
    <3>1. CheapestWalks(g)[N - 2][p] \in Nat /\ D[p] \in Distance
      BY <1>2, <2>1, <2>2, <2>3, WalkTypes DEF Distance
    <3> QED BY <2>1, <2>2, <2>4, <3>1 DEF NoMore, Distance
  <2>6. ~ Shortens(p, x)
    <3>1. ASSUME D[p] + g.w[x] < D[x] PROVE D[p] + g.w[x] < D[u] + g.w[v]
      BY <1>4, <2>2, <2>5, <3>1
    <3>2. ASSUME Shortens(p, x) PROVE FALSE
      <4>1. D[p] + g.w[x] < D[x]
        BY <1>4, <2>2, <2>5, <3>2 DEF NoMore
      <4>2. D[u] + g.w[v] <= D[p] + g.w[x]
        BY <1>3, <2>2, <3>2
      <4> QED BY <1>4, <2>2, <2>5, <3>1, <4>1, <4>2
    <3> QED BY <3>2
  <2>7. D[x] = D[p] + g.w[x]
    <3>1. D[p] # Inf /\ D[p] + g.w[x] # Inf
      BY <1>4, <2>2, <2>5
    <3> QED BY <2>2, <2>5, <2>6, <3>1 DEF NoMore
  <2>8. p \in S
    BY <1>4, <2>2, <2>5, <2>7
  <2> QED BY <2>7, <2>8
<1>7. u \in S /\ v \notin S /\ S \in SUBSET Node
  BY <1>3, <1>4, <1>5
<1> DEFINE c == Cardinality(Nearer(D, S, u))
<1> HIDE DEF S
<1>8. c \in 0 .. N - 2
  <2>1. /\ Nearer(D, S, u) \in SUBSET (Node \ {u, v})
        /\ u \in Node /\ v \in Node /\ u # v
    <3>1. SearchKey(D, u) \in Nat
      BY <1>4 DEF SearchKey
    <3> QED BY <1>7, <1>3, <3>1 DEF Nearer
  <2>2. IsFiniteSet(Node \ {u, v}) /\ Cardinality(Node \ {u, v}) = N - 2
    <3>1. IsFiniteSet(0 .. N - 1) /\ Cardinality(0 .. N - 1) = N
      <4>1. N \in Nat /\ N > 0 /\ 0 \in Int /\ N - 1 \in Int
        BY NAssumption
      <4> QED BY <4>1, FS_Interval
    <3>2. IsFiniteSet(Node) /\ Cardinality(Node) = N
      BY <3>1 DEF Node
    <3>3. IsFiniteSet(Node \ {u}) /\ Cardinality(Node \ {u}) = N - 1
      BY <2>1, <3>2, FS_RemoveElement
    <3>4. IsFiniteSet((Node \ {u}) \ {v}) /\ Cardinality((Node \ {u}) \ {v}) = N - 1 - 1
      BY <2>1, <3>3, FS_RemoveElement
    <3>5. (Node \ {u}) \ {v} = Node \ {u, v} /\ N - 1 - 1 = N - 2
      BY NAssumption
    <3> QED BY <3>4, <3>5
  <2>3. IsFiniteSet(Nearer(D, S, u)) /\ c <= N - 2
    BY <2>1, <2>2, FS_Subset
  <2>4. c \in Nat
    BY <2>3, FS_CardinalityType
  <2> QED BY <2>3, <2>4, NAssumption
<1>9. CheapestWalks(g)[c][u] # Inf /\ CheapestWalks(g)[c][u] <= D[u]
  <2>1. c \in c .. N - 1
    BY <1>8, NAssumption
  <2> QED BY <1>2, <1>6, <1>7, <2>1, WalksExplain
<1>10. c \in 0 .. N - 1 /\ c + 1 \in 1 .. N - 1 /\ c + 1 - 1 = c /\ c + 1 \in 0 .. N - 1 /\ N - 1 \in c + 1 .. N - 1
  BY <1>8, NAssumption
<1>11. CheapestWalks(g)[c][u] \in Nat /\ CheapestWalks(g)[c + 1][v] \in Distance
  BY <1>9, <1>10, WalkTypes DEF Distance
<1>12. CheapestWalks(g)[c + 1][v] # Inf /\ CheapestWalks(g)[c + 1][v] <= D[u] + g.w[v]
  <2>1. NoMore(CheapestWalks(g)[c + 1][v], CheapestWalks(g)[c][u] + g.w[v])
    BY <1>3, <1>9, <1>10, WalkSteps
  <2>2. CheapestWalks(g)[c][u] + g.w[v] \in Nat
    BY <1>4, <1>11
  <2> QED BY <1>4, <1>9, <1>11, <2>1, <2>2 DEF NoMore, Distance
<1>13. D[v] # Inf /\ D[v] <= CheapestWalks(g)[c + 1][v]
  <2>1. NoMore(CheapestWalks(g)[N - 1][v], CheapestWalks(g)[c + 1][v])
    BY <1>10, WalksDecrease
  <2> QED BY <1>2, <1>12, <2>1 DEF NoMore
<1> QED BY <1>4, <1>5, <1>11, <1>12, <1>13 DEF Distance

-----------------------------------------------------------------------------
(***************************************************************************)
(* The canonical tree.                                                     *)
(***************************************************************************)

\* A canonical tree's distances are respected: each node hangs from its best
\* neighbour.
LEMMA CanonicalIsRespected ==
  ASSUME NEW g, IsGraph(g), NEW d \in [Node -> Distance], NEW par, CanonicalTree(g, d, par)
  PROVE  Respected(g, d)
<1> SUFFICES ASSUME NEW v \in Node \ {Source}, NEW u \in g.adj[v], d[u] # Inf
             PROVE  NoMore(d[v], d[u] + g.w[v])
  BY DEF Respected
<1>1. u \in Node /\ u \in g.adj[v] \cap Reached(d)
  BY LineGraphFacts DEF Reached
<1>2. HangsFrom(g, d, v, par[v]) /\ d[v] # Inf
  BY <1>1 DEF CanonicalTree, Reached
<1>3. PICK p \in g.adj[v] \cap Reached(d) :
        d[v] = d[p] + g.w[v] /\ (u # p => Less(<<d[p], p>>, <<d[u], u>>))
  BY <1>1, <1>2 DEF HangsFrom
<1>4. p \in Node /\ d[p] \in Nat /\ d[u] \in Nat /\ g.w[v] \in Nat
  BY <1>1, LineGraphFacts DEF Reached, Distance
<1>5. d[p] <= d[u]
  BY <1>3, <1>4 DEF Less
<1> QED BY <1>2, <1>3, <1>4, <1>5 DEF NoMore

\* A canonical tree's distances are explained by its parents.
LEMMA CanonicalIsExplained ==
  ASSUME NEW g, IsGraph(g), NEW d \in [Node -> Distance], NEW par, CanonicalTree(g, d, par)
  PROVE  Explained(g, d, Reached(d))
BY DEF CanonicalTree, HangsFrom, Reached, Explained

\* There is at most one least reached neighbour.
LEMMA OneLeastNeighbour ==
  ASSUME NEW g, IsGraph(g), NEW d \in [Node -> Distance], NEW v \in Node,
         NEW p \in g.adj[v] \cap Reached(d), NEW q \in g.adj[v] \cap Reached(d),
         \A x \in g.adj[v] \cap Reached(d) : x # p => Less(<<d[p], p>>, <<d[x], x>>),
         \A x \in g.adj[v] \cap Reached(d) : x # q => Less(<<d[q], q>>, <<d[x], x>>)
  PROVE  p = q
<1> SUFFICES ASSUME p # q PROVE FALSE
  OBVIOUS
<1>1. Less(<<d[p], p>>, <<d[q], q>>) /\ Less(<<d[q], q>>, <<d[p], p>>)
  OBVIOUS
<1>2. d[p] \in Nat /\ d[q] \in Nat /\ p \in Nat /\ q \in Nat
  BY LineGraphFacts, NAssumption DEF Reached, Distance, Node
<1> QED BY <1>1, <1>2 DEF Less

(***************************************************************************)
(* The local certificate is complete: a canonical tree holds the costs of  *)
(* the cheapest walks, and the parents that ParentsFor gives them.  So on  *)
(* every line graph there is at most one canonical tree (hsosp.cuh:300-302 *)
(* and 309-311: parent ties go to the lowest id), and the zero weight of   *)
(* the virtual target makes no second one.                                 *)
(***************************************************************************)
THEOREM CanonicalTreesAreShortest ==
  ASSUME NEW g, IsGraph(g), NEW d \in [Node -> Distance], NEW par \in [Node -> Node \cup {NoParent}],
         CanonicalTree(g, d, par)
  PROVE  d = ShortestDistances(g) /\ par = ParentsFor(g, d)
<1>1. d[Source] = 0 /\ par[Source] = NoParent
  BY DEF CanonicalTree
<1>2. d = ShortestDistances(g)
  BY <1>1, CanonicalIsRespected, CanonicalIsExplained, CertifiedAreShortest
<1>3. ASSUME NEW v \in Node PROVE par[v] = ParentsFor(g, d)[v]
  <2> DEFINE reached == g.adj[v] \cap Reached(d)
             Least1(p) == \A q \in reached : q # p => Less(<<d[p], p>>, <<d[q], q>>)
  <2>1. ParentsFor(g, d)[v] = IF v = Source \/ reached = {} THEN NoParent ELSE CHOOSE p \in reached : Least1(p)
    BY DEF ParentsFor
  <2>2. CASE v = Source \/ reached = {}
    <3>1. par[v] = NoParent
      BY <1>1, <2>2 DEF CanonicalTree, HangsFrom
    <3> QED BY <2>1, <2>2, <3>1
  <2>3. CASE ~ (v = Source \/ reached = {})
    <3>1. par[v] \in reached /\ Least1(par[v])
      BY <2>3 DEF CanonicalTree, HangsFrom
    <3> DEFINE c == CHOOSE p \in reached : Least1(p)
    <3>2. c \in reached /\ Least1(c)
      BY <3>1
    <3> HIDE DEF c
    <3>3. c = par[v]
      BY <3>1, <3>2, OneLeastNeighbour
    <3> QED BY <2>1, <2>3, <3>3 DEF c
  <2> QED BY <2>2, <2>3
<1>4. par = ParentsFor(g, d)
  BY <1>3 DEF ParentsFor
<1> QED BY <1>2, <1>4

-----------------------------------------------------------------------------
(***************************************************************************)
(* What r rounds of relaxation reach: walks of r hops, and from N - 1 on   *)
(* the shortest distances.                                                 *)
(***************************************************************************)
HopBound(g, r) == CheapestWalks(g)[IF r < N THEN r ELSE N - 1]

LEMMA HopBoundFacts ==
  ASSUME NEW g, IsGraph(g), NEW r \in Nat
  PROVE  /\ HopBound(g, r) \in [Node -> Distance] /\ HopBound(g, r)[Source] = 0
         /\ \A v \in Node : NoMore(HopBound(g, r + 1)[v], HopBound(g, r)[v])
         /\ \A v \in Node \ {Source} : HopBound(g, r + 1)[v] # Inf =>
              \E u \in g.adj[v] : /\ HopBound(g, r)[u] # Inf
                                  /\ HopBound(g, r)[u] + g.w[v] <= HopBound(g, r + 1)[v]
         /\ r >= N - 1 => HopBound(g, r) = ShortestDistances(g)
<1>1. /\ HopBound(g, r) \in [Node -> Distance] /\ HopBound(g, r)[Source] = 0
      /\ HopBound(g, r + 1) \in [Node -> Distance]
  <2>1. (IF r < N THEN r ELSE N - 1) \in 0 .. N - 1 /\ (IF r + 1 < N THEN r + 1 ELSE N - 1) \in 0 .. N - 1
    BY NAssumption
  <2> QED BY <2>1, WalkTypes DEF HopBound
<1>2. r >= N - 1 => HopBound(g, r) = ShortestDistances(g)
  BY NAssumption DEF HopBound, ShortestDistances
<1>3. CASE r + 1 < N
  <2>1. r + 1 \in 1 .. N - 1 /\ r + 1 - 1 = r /\ r \in 0 .. N - 1 /\ r + 1 \in r .. N - 1 /\ r < N
    BY <1>3, NAssumption
  <2>2. HopBound(g, r) = CheapestWalks(g)[r] /\ HopBound(g, r + 1) = CheapestWalks(g)[r + 1]
    BY <1>3, <2>1 DEF HopBound
  <2>3. \A v \in Node : NoMore(CheapestWalks(g)[r + 1][v], CheapestWalks(g)[r][v])
    BY <2>1, WalksDecrease
  <2>4. ASSUME NEW v \in Node \ {Source}, CheapestWalks(g)[r + 1][v] # Inf
        PROVE  \E u \in g.adj[v] : /\ CheapestWalks(g)[r][u] # Inf
                                   /\ CheapestWalks(g)[r][u] + g.w[v] <= CheapestWalks(g)[r + 1][v]
    BY <2>1, <2>4, WalksEndWithHop
  <2> QED BY <1>1, <1>2, <2>2, <2>3, <2>4
<1>4. CASE ~ (r + 1 < N)
  <2>1. N - 1 \in 1 .. N - 1 /\ N - 2 \in 0 .. N - 1 /\ N - 1 \in N - 2 .. N - 1 /\ N - 1 - 1 = N - 2
    BY NAssumption
  <2>2. HopBound(g, r) = CheapestWalks(g)[N - 1] /\ HopBound(g, r + 1) = CheapestWalks(g)[N - 1]
    <3>1. r >= N - 1 /\ r + 1 >= N - 1 /\ r + 1 \in Nat /\ (r < N => r = N - 1)
      BY <1>4, NAssumption
    <3> QED BY <1>4, <3>1 DEF HopBound
  <2>3. \A v \in Node : NoMore(CheapestWalks(g)[N - 1][v], CheapestWalks(g)[N - 1][v])
    BY <1>1, <2>2, InfAssumption DEF NoMore, Distance
  <2>4. ASSUME NEW v \in Node \ {Source}, CheapestWalks(g)[N - 1][v] # Inf
        PROVE  \E u \in g.adj[v] : /\ CheapestWalks(g)[N - 1][u] # Inf
                                   /\ CheapestWalks(g)[N - 1][u] + g.w[v] <= CheapestWalks(g)[N - 1][v]
    <3>1. PICK u \in g.adj[v] : /\ CheapestWalks(g)[N - 2][u] # Inf
                                /\ CheapestWalks(g)[N - 2][u] + g.w[v] <= CheapestWalks(g)[N - 1][v]
      BY <2>1, <2>4, WalksEndWithHop
    <3>2. u \in Node /\ g.w[v] \in Nat
      BY LineGraphFacts
    <3>3. /\ CheapestWalks(g)[N - 2][u] \in Distance /\ CheapestWalks(g)[N - 1][u] \in Distance
          /\ CheapestWalks(g)[N - 1][v] \in Distance
      BY <2>1, <3>2, WalkTypes
    <3>4. NoMore(CheapestWalks(g)[N - 1][u], CheapestWalks(g)[N - 2][u])
      BY <2>1, <3>2, WalksDecrease
    <3> QED BY <2>4, <3>1, <3>2, <3>3, <3>4 DEF NoMore, Distance
  <2> QED BY <1>1, <1>2, <2>2, <2>3, <2>4
<1> QED BY <1>3, <1>4

-----------------------------------------------------------------------------
(***************************************************************************)
(* The recompute.                                                          *)
(***************************************************************************)

\* The word v would get from its neighbour p now.
WordFrom(v, p) == <<dist[p] + graph.w[v], p>>

\* p is a neighbour that v's warp has read and that is reached.
Read(v, p) == p \in graph.adj[v] /\ <<v, p>> \notin unread /\ dist[p] # Inf

\* best[v] is the least word over the neighbours v's warp has read.
BestOfRead(v) ==
  /\ best[v] # NoWord => Read(v, best[v][2]) /\ best[v] = WordFrom(v, best[v][2])
  /\ \A p \in Node : Read(v, p) =>
       best[v] # NoWord /\ (p = best[v][2] \/ Less(best[v], WordFrom(v, p)))

(***************************************************************************)
(* The inductive invariant of the pull rounds.                             *)
(***************************************************************************)
SourceFixed == dist[Source] = 0 /\ parent[Source] = NoParent /\ Source \notin todo

WarpsRunning ==
  /\ unread \subseteq RowReads(todo)
  /\ \A v \in Node \ todo : best[v] = NoWord

ReadsStillGood == \A v \in todo : v \in Candidates \/ BestOfRead(v)

Pulling == SourceFixed /\ WarpsRunning /\ ReadsStillGood /\ IdleNodesSettled

Inv ==
  /\ RecomputeTypeOK
  /\ pc \in {"blank", "recompute", "idle"}
  /\ pc = "blank" => todo = {} /\ unread = {} /\ best = Blank
  /\ pc = "recompute" => Pulling
  /\ RecomputeExact

-----------------------------------------------------------------------------
(***************************************************************************)
(* Facts about the definitions.                                            *)
(***************************************************************************)

\* What a line graph is, in the form the proofs use.
LEMMA GraphFacts ==
  ASSUME NEW g, IsGraph(g)
  PROVE  /\ \A v \in Node : g.adj[v] \subseteq Node /\ g.w[v] \in Nat
         /\ \A u, v \in Node : v \in g.adj[u] => u # v /\ u \in g.adj[v]
BY DEF IsGraph

\* A node is a candidate iff it is not the source and has a changed neighbour.
LEMMA CandidateIff ==
  ASSUME RecomputeTypeOK, NEW v \in Node
  PROVE  v \in Candidates <=> v # Source /\ \E u \in affected : v \in graph.adj[u]
BY DEF Candidates

\* Candidates are nodes other than the source.
LEMMA CandidatesAreNodes ==
  ASSUME RecomputeTypeOK
  PROVE  Candidates \subseteq Node \ {Source}
BY GraphFacts DEF Candidates, RecomputeTypeOK

\* The ends of the graph are nodes and the "none" parent is not.
LEMMA Constants ==
  /\ Source \in Node
  /\ NoParent \notin Node
  /\ Inf \notin Int
  /\ Node \subseteq Nat
BY NAssumption, EndsAssumption, InfAssumption DEF Node, NoParent

\* The neighbours of a node whose distance changed are candidates; the others see no change.
LEMMA UnchangedNeighbours ==
  ASSUME RecomputeTypeOK, NEW v \in Node, PullWrite(v),
         NEW x \in Node \ {Source, v}, x \notin Candidates'
  PROVE  /\ x \notin Candidates
         /\ \A p \in graph.adj[x] : dist'[p] = dist[p]
<1>1. \A u \in affected : x \notin graph.adj[u]
  BY DEF Candidates, PullWrite
<1>2. x \notin Candidates
  BY <1>1, CandidateIff
<1>3. ASSUME NEW p \in graph.adj[x], dist'[p] # dist[p]
      PROVE  FALSE
  <2>1. p \in Node /\ x \in graph.adj[p]
    BY <1>3, GraphFacts DEF RecomputeTypeOK
  <2>2. p = v /\ dist[v] # best[v][1]
    BY <1>3, <2>1 DEF PullWrite, RecomputeTypeOK
  <2>3. p \in affected'
    BY <2>2 DEF PullWrite
  <2>4. graph' = graph
    BY DEF PullWrite
  <2> QED BY <2>1, <2>3, <2>4 DEF Candidates
<1> QED BY <1>2, <1>3

-----------------------------------------------------------------------------
(***************************************************************************)
(* Type correctness.                                                       *)
(***************************************************************************)

\* The blank tree has the right type.
LEMMA ResetTypeOK ==
  ASSUME RecomputeTypeOK, Reset, UNCHANGED <<graph, converged, todo, unread, best>>
  PROVE  RecomputeTypeOK'
BY Constants DEF RecomputeTypeOK, Reset, IsGraph

\* Every step of the host loop and of the warps preserves the types.
LEMMA StepTypeOK ==
  ASSUME RecomputeTypeOK, RecomputeStep
  PROVE  RecomputeTypeOK'
<1> USE DEF RecomputeTypeOK
<1>2. CASE NextRound
  <2>1. Candidates \in SUBSET Node /\ RowReads(Candidates) \in SUBSET (Node \X Node)
    BY CandidatesAreNodes DEF RowReads
  <2> QED BY <1>2, <2>1 DEF NextRound, IsGraph
<1>3. CASE StopRecompute
  BY <1>3 DEF StopRecompute, IsGraph
<1>4. ASSUME NEW v \in Node, NEW p \in Node, PullRead(v, p)
      PROVE  RecomputeTypeOK'
  <2>1. graph.w[v] \in Nat
    BY GraphFacts
  <2>2. dist[p] # Inf => <<dist[p] + graph.w[v], p>> \in Nat \X Node
    BY <2>1
  <2>3. best' \in [Node -> (Nat \X Node) \cup {NoWord}]
    BY <1>4, <2>2 DEF PullRead
  <2> QED BY <1>4, <2>3 DEF PullRead, IsGraph
<1>5. ASSUME NEW v \in Node, PullWrite(v)
      PROVE  RecomputeTypeOK'
  <2>1. best[v][1] \in Nat \cup {Inf} /\ best[v][2] \in Node \cup {NoParent}
    BY DEF NoWord
  <2>2. dist' \in [Node -> Nat \cup {Inf}] /\ parent' \in [Node -> Node \cup {NoParent}]
    BY <1>5, <2>1 DEF PullWrite
  <2>3. affected' \in SUBSET Node /\ best' \in [Node -> (Nat \X Node) \cup {NoWord}]
    BY <1>5 DEF PullWrite
  <2> QED BY <1>5, <2>2, <2>3 DEF PullWrite, IsGraph
<1> QED BY <1>2, <1>3, <1>4, <1>5 DEF RecomputeStep

-----------------------------------------------------------------------------
(***************************************************************************)
(* The pull rounds keep Pulling.                                           *)
(***************************************************************************)

\* A blank tree with only the source reached satisfies the invariant.
LEMMA ResetPulling ==
  ASSUME RecomputeTypeOK, todo = {}, unread = {}, best = Blank,
         Reset, UNCHANGED <<graph, converged, todo, unread, best>>
  PROVE  Pulling'
<1>1. RecomputeTypeOK'
  BY ResetTypeOK
<1>2. SourceFixed'
  BY Constants DEF SourceFixed, Reset
<1>3. WarpsRunning'
  BY DEF WarpsRunning, Blank, RowReads
<1>4. ReadsStillGood'
  BY DEF ReadsStillGood
<1>5. ASSUME NEW v \in Node \ {Source}, v \notin Candidates'
      PROVE  Settled(v)'
  <2>1. v \notin graph.adj[Source]
    BY <1>5 DEF Candidates, Reset
  <2>2. Source \notin graph.adj[v] /\ graph.adj[v] \subseteq Node
    BY <2>1, GraphFacts, Constants DEF RecomputeTypeOK
  <2>3. dist'[v] = Inf /\ parent'[v] = NoParent /\ \A p \in graph.adj[v] : dist'[p] = Inf
    BY <2>2 DEF Reset
  <2> QED BY <2>3 DEF Settled
<1>6. IdleNodesSettled'
  BY <1>5 DEF IdleNodesSettled, Reset
<1> QED BY <1>2, <1>3, <1>4, <1>6 DEF Pulling

\* A round starts: every candidate's warp is ahead, everyone else is settled.
LEMMA NextRoundPulling ==
  ASSUME RecomputeTypeOK, Pulling, NextRound
  PROVE  Pulling'
<1> USE DEF NextRound
<1>1. \A v \in Node : best[v] = NoWord
  BY DEF Pulling, WarpsRunning, KernelDone
<1>2. SourceFixed'
  BY CandidatesAreNodes DEF Pulling, SourceFixed
<1>3. WarpsRunning'
  BY <1>1 DEF WarpsRunning, RowReads
<1>4. ASSUME NEW v \in todo'
      PROVE  BestOfRead(v)'
  <2>1. v \in Node /\ best'[v] = NoWord
    BY <1>1, CandidatesAreNodes
  <2>2. \A p \in Node : p \in graph.adj[v] => <<v, p>> \in unread'
    BY DEF RowReads
  <2> QED BY <2>1, <2>2 DEF BestOfRead, Read
<1>5. ASSUME NEW v \in Node \ {Source}, v \notin todo'
      PROVE  Settled(v)'
  <2>1. Settled(v)
    BY <1>5 DEF Pulling, IdleNodesSettled, KernelDone
  <2> QED BY <2>1 DEF Settled, HangsFrom, Reached
<1>6. IdleNodesSettled'
  BY <1>5 DEF IdleNodesSettled
<1> QED BY <1>2, <1>3, <1>4, <1>6 DEF Pulling, ReadsStillGood

\* One read: the distances stay, and the least word so far takes the new one in.
LEMMA PullReadPulling ==
  ASSUME RecomputeTypeOK, Pulling, NEW v \in Node, NEW p \in Node, PullRead(v, p)
  PROVE  Pulling'
<1> USE DEF PullRead
<1>1. v \in todo /\ p \in graph.adj[v]
  BY DEF Pulling, WarpsRunning, RowReads
<1>2. SourceFixed'
  BY DEF Pulling, SourceFixed
<1>3. WarpsRunning'
  BY <1>1 DEF Pulling, WarpsRunning, RowReads, RecomputeTypeOK
<1>4. Candidates' = Candidates
  BY DEF Candidates
<1>5. ASSUME NEW x \in todo', x \notin Candidates'
      PROVE  BestOfRead(x)'
  <2>1. BestOfRead(x) /\ x \in Node
    BY <1>4, <1>5 DEF Pulling, ReadsStillGood, RecomputeTypeOK
  <2>2. CASE x # v
    <3>1. best'[x] = best[x]
      BY <2>1, <2>2 DEF RecomputeTypeOK
    <3>2. \A q \in Node : Read(x, q)' <=> Read(x, q)
      BY <2>2 DEF Read
    <3>3. \A q \in Node : WordFrom(x, q)' = WordFrom(x, q)
      BY DEF WordFrom
    <3>4. best[x] # NoWord => best[x][2] \in Node
      BY <2>1 DEF RecomputeTypeOK
    <3> QED BY <2>1, <3>1, <3>2, <3>3, <3>4 DEF BestOfRead
  <2>3. CASE x = v
    <3>1. \A q \in Node : Read(v, q)' <=> Read(v, q) \/ (q = p /\ dist[p] # Inf)
      BY <1>1 DEF Read
    <3>2. \A q \in Node : WordFrom(v, q)' = WordFrom(v, q)
      BY DEF WordFrom
    <3>3. best[v] # NoWord => best[v] \in Nat \X Node
      BY DEF RecomputeTypeOK
    <3>4. graph.w[v] \in Nat /\ \A q \in Node : Read(v, q)' => WordFrom(v, q) \in Nat \X Node
      BY GraphFacts DEF RecomputeTypeOK, Read, WordFrom
    <3>5. CASE dist[p] # Inf /\ Better(WordFrom(v, p), best[v])
      <4>1. best'[v] = WordFrom(v, p) /\ best'[v][2] = p
        BY <3>5 DEF WordFrom, RecomputeTypeOK
      <4>2. WordFrom(v, p) \in Nat \X Node /\ NoWord \notin Nat \X Node
        BY <3>1, <3>4, <3>5, Constants DEF NoWord
      <4>3. ASSUME NEW q \in Node, Read(v, q)
            PROVE  q = p \/ Less(WordFrom(v, p), WordFrom(v, q))
        <5>1. best[v] # NoWord /\ (q = best[v][2] \/ Less(best[v], WordFrom(v, q)))
          BY <2>1, <2>3, <4>3 DEF BestOfRead
        <5>2. Less(WordFrom(v, p), best[v])
          BY <3>5, <5>1 DEF Better
        <5>3. CASE q = best[v][2]
          BY <2>1, <2>3, <5>1, <5>2, <5>3 DEF BestOfRead
        <5>4. CASE Less(best[v], WordFrom(v, q))
          <6>1. WordFrom(v, q) \in Nat \X Node /\ best[v] \in Nat \X Node
            BY <3>1, <3>3, <3>4, <4>3, <5>1
          <6> QED BY <4>2, <5>2, <5>4, <6>1, Constants DEF Less, Node
        <5> QED BY <5>1, <5>3, <5>4
      <4> QED BY <2>3, <3>1, <3>2, <3>5, <4>1, <4>2, <4>3 DEF BestOfRead
    <3>6. CASE ~(dist[p] # Inf /\ Better(WordFrom(v, p), best[v]))
      <4>1. best' = best
        BY <3>6 DEF WordFrom
      <4>2. ASSUME dist[p] # Inf
            PROVE  best[v] # NoWord /\ (p = best[v][2] \/ Less(best[v], WordFrom(v, p)))
        <5>1. best[v] # NoWord /\ ~Less(WordFrom(v, p), best[v])
          BY <3>6, <4>2 DEF Better
        <5>2. WordFrom(v, p) \in Nat \X Node /\ best[v] \in Nat \X Node
          BY <3>1, <3>3, <3>4, <4>2, <5>1
        <5> QED BY <5>1, <5>2, Constants DEF Less, Node, WordFrom
      <4>3. best[v] # NoWord => best[v][2] \in Node
        BY <3>3
      <4> QED BY <2>1, <2>3, <3>1, <3>2, <4>1, <4>2, <4>3 DEF BestOfRead
    <3> QED BY <3>5, <3>6
  <2> QED BY <2>2, <2>3
<1>6. IdleNodesSettled'
  BY <1>4 DEF Pulling, IdleNodesSettled, Settled, HangsFrom, Reached
<1> QED BY <1>2, <1>3, <1>5, <1>6 DEF Pulling, ReadsStillGood

\* The least word over the neighbours names the neighbour to hang from.
LEMMA LeastWordLeastNeighbour ==
  ASSUME RecomputeTypeOK, NEW v \in Node, NEW p \in Node, NEW q \in Node,
         dist[p] # Inf, dist[q] # Inf, Less(WordFrom(v, p), WordFrom(v, q))
  PROVE  Less(<<dist[p], p>>, <<dist[q], q>>)
<1>1. dist[p] \in Nat /\ dist[q] \in Nat /\ graph.w[v] \in Nat
  BY GraphFacts DEF RecomputeTypeOK
<1> QED BY <1>1 DEF Less, WordFrom

\* The end of a warp: v is settled, or a neighbour changed meanwhile and v is a candidate.
LEMMA PullWritePulling ==
  ASSUME RecomputeTypeOK, Pulling, NEW v \in Node, PullWrite(v)
  PROVE  Pulling'
<1> USE DEF PullWrite
<1>1. v # Source /\ v \in todo
  BY DEF Pulling, SourceFixed
<1>2. SourceFixed'
  BY <1>1 DEF Pulling, SourceFixed, RecomputeTypeOK
<1>3. WarpsRunning'
  BY DEF Pulling, WarpsRunning, RowReads, RecomputeTypeOK
<1>4. v \notin graph.adj[v]
  BY GraphFacts DEF RecomputeTypeOK
<1>5. ASSUME NEW x \in todo', x \notin Candidates'
      PROVE  BestOfRead(x)'
  <2>1. x \in Node \ {Source, v} /\ x \in todo
    BY <1>5 DEF Pulling, SourceFixed, RecomputeTypeOK
  <2>2. x \notin Candidates /\ \A p \in graph.adj[x] : dist'[p] = dist[p]
    BY <1>5, <2>1, UnchangedNeighbours
  <2>3. BestOfRead(x) /\ best'[x] = best[x]
    BY <2>1, <2>2 DEF Pulling, ReadsStillGood, RecomputeTypeOK
  <2>4. \A q : q \in graph.adj[x] => (Read(x, q)' <=> Read(x, q)) /\ WordFrom(x, q)' = WordFrom(x, q)
    BY <2>2 DEF Read, WordFrom
  <2>5. \A q : q \notin graph.adj[x] => ~Read(x, q)' /\ ~Read(x, q)
    BY DEF Read
  <2>6. \A q : (Read(x, q)' <=> Read(x, q)) /\ (Read(x, q) => WordFrom(x, q)' = WordFrom(x, q))
    BY <2>4, <2>5
  <2> QED BY <2>3, <2>6 DEF BestOfRead
<1>6. ASSUME NEW x \in Node \ {Source}, x \notin todo', x \notin Candidates', x # v
      PROVE  Settled(x)'
  <2>1. x \notin Candidates /\ \A p \in graph.adj[x] : dist'[p] = dist[p]
    BY <1>6, UnchangedNeighbours
  <2>2. Settled(x)
    BY <1>6, <2>1 DEF Pulling, IdleNodesSettled
  <2>3. dist'[x] = dist[x] /\ parent'[x] = parent[x]
    BY <1>6 DEF RecomputeTypeOK
  <2>4. graph.adj[x] \cap Reached(dist)' = graph.adj[x] \cap Reached(dist)
    BY <2>1 DEF Reached
  <2>5. CASE dist[x] # Inf /\ HangsFrom(graph, dist, x, parent[x])
    BY <2>1, <2>3, <2>4, <2>5 DEF Settled, HangsFrom
  <2>6. CASE dist[x] = Inf /\ parent[x] = NoParent /\ \A p \in graph.adj[x] : dist[p] = Inf
    BY <2>1, <2>3, <2>6 DEF Settled
  <2> QED BY <2>2, <2>5, <2>6 DEF Settled
<1>7. ASSUME v \notin Candidates'
      PROVE  Settled(v)'
  <2>1. BestOfRead(v)
    <3>1. v \notin Candidates
      BY <1>7 DEF Candidates
    <3> QED BY <1>1, <3>1 DEF Pulling, ReadsStillGood
  <2>2. dist'[v] = best[v][1] /\ parent'[v] = best[v][2]
    BY DEF RecomputeTypeOK
  <2>3. \A p \in graph.adj[v] : p \in Node /\ dist'[p] = dist[p]
    BY <1>4, GraphFacts DEF RecomputeTypeOK
  <2>4. \A p \in graph.adj[v] : Read(v, p) <=> dist[p] # Inf
    BY <2>3 DEF Read
  <2>5. CASE best[v] = NoWord
    BY <2>1, <2>2, <2>3, <2>4, <2>5 DEF Settled, BestOfRead, NoWord
  <2>6. CASE best[v] # NoWord
    <3> DEFINE p == best[v][2]
    <3>1. p \in graph.adj[v] /\ p \in Node /\ dist[p] # Inf /\ best[v] = WordFrom(v, p)
      BY <2>1, <2>3, <2>6 DEF BestOfRead, Read
    <3>2. dist'[v] = dist[p] + graph.w[v] /\ dist[p] \in Nat /\ graph.w[v] \in Nat
      BY <2>2, <3>1, GraphFacts DEF RecomputeTypeOK, WordFrom
    <3>3. ASSUME NEW q \in graph.adj[v], dist[q] # Inf, q # p
          PROVE  Less(<<dist[p], p>>, <<dist[q], q>>)
      <4>1. Less(WordFrom(v, p), WordFrom(v, q))
        BY <2>1, <2>3, <2>4, <3>1, <3>3 DEF BestOfRead
      <4> QED BY <2>3, <3>1, <3>3, <4>1, LeastWordLeastNeighbour
    <3>4. HangsFrom(graph, dist', v, p)
      BY <2>3, <3>1, <3>2, <3>3 DEF HangsFrom, Reached
    <3>5. dist'[v] # Inf
      BY <3>2, Constants
    <3> QED BY <2>2, <3>4, <3>5 DEF Settled, HangsFrom, Reached
  <2> QED BY <2>5, <2>6
<1>8. IdleNodesSettled'
  BY <1>6, <1>7 DEF IdleNodesSettled
<1> QED BY <1>2, <1>3, <1>5, <1>8 DEF Pulling, ReadsStillGood

-----------------------------------------------------------------------------
(***************************************************************************)
(* The loop ends without candidates only in the canonical tree.            *)
(***************************************************************************)
LEMMA StopIsExact ==
  ASSUME RecomputeTypeOK, Pulling, StopRecompute, converged'
  PROVE  CanonicalTree(graph, dist, parent)'
<1>1. Candidates = {} /\ todo = {}
  BY DEF StopRecompute, KernelDone
<1>2. ASSUME NEW v \in Node \ {Source}
      PROVE  Settled(v)
  BY <1>1, <1>2 DEF Pulling, IdleNodesSettled, StopRecompute
<1>3. CanonicalTree(graph, dist, parent)
  BY <1>2 DEF CanonicalTree, Settled, Reached, Pulling, SourceFixed
<1> QED BY <1>3 DEF StopRecompute

\* The invariant is inductive.
LEMMA InvInit == RecomputeInit => Inv
<1> SUFFICES ASSUME RecomputeInit PROVE Inv
  OBVIOUS
<1>1. RecomputeTypeOK
  BY GraphsAssumption DEF RecomputeInit, RecomputeTypeOK, Blank
<1> QED BY <1>1 DEF Inv, RecomputeInit, RecomputeExact

\* Every step keeps the invariant.
LEMMA InvNext == Inv /\ [RecomputeNext]_rvars => Inv'
<1> SUFFICES ASSUME Inv, [RecomputeNext]_rvars PROVE Inv'
  OBVIOUS
<1> USE DEF Inv
<1>1. CASE StartRecompute
  <2>1. Reset /\ UNCHANGED <<graph, converged, todo, unread, best>> /\ pc' = "recompute"
    BY <1>1 DEF StartRecompute, Reset
  <2>2. RecomputeTypeOK' /\ Pulling'
    BY <1>1, <2>1, ResetTypeOK, ResetPulling DEF StartRecompute
  <2> QED BY <2>1, <2>2 DEF RecomputeExact
<1>2. CASE NextRound
  BY <1>2, StepTypeOK, NextRoundPulling DEF RecomputeStep, NextRound, RecomputeExact
<1>3. CASE StopRecompute
  <2>1. RecomputeTypeOK'
    BY <1>3, StepTypeOK DEF RecomputeStep
  <2>2. pc = "recompute" /\ pc' = "idle"
    BY <1>3 DEF StopRecompute
  <2> QED BY <1>3, <2>1, <2>2, StopIsExact DEF RecomputeExact
<1>4. ASSUME NEW v \in Node, NEW p \in Node, PullRead(v, p)
      PROVE  Inv'
  BY <1>4, StepTypeOK, PullReadPulling DEF RecomputeStep, PullRead, RecomputeExact
<1>5. ASSUME NEW v \in Node, PullWrite(v)
      PROVE  Inv'
  BY <1>5, StepTypeOK, PullWritePulling DEF RecomputeStep, PullWrite, RecomputeExact
<1>6. CASE UNCHANGED rvars
  BY <1>6 DEF rvars, recomputeVars, RecomputeTypeOK, RecomputeExact, Pulling, SourceFixed,
     WarpsRunning, RowReads, ReadsStillGood, BestOfRead, Read, WordFrom, Candidates,
     IdleNodesSettled, Settled, HangsFrom, CanonicalTree, Reached, IsGraph
<1> QED BY <1>1, <1>2, <1>3, <1>4, <1>5, <1>6 DEF RecomputeNext, RecomputeStep, Returned

\* The invariant holds in every reachable state.
LEMMA InvAlways == RecomputeSpec => []Inv
BY InvInit, InvNext, PTL DEF RecomputeSpec

(***************************************************************************)
(* The arrays of hsospRecompute keep their types: no stored parent is out  *)
(* of range, and the warps' words are words.                               *)
(***************************************************************************)
THEOREM RecomputeTypeCorrect == RecomputeSpec => []RecomputeTypeOK
<1>1. Inv => RecomputeTypeOK
  BY DEF Inv
<1> QED BY <1>1, InvAlways, PTL

(***************************************************************************)
(* A node that is not settled has its warp running or is a candidate of    *)
(* the next round: the racing pulls lose no node that has work to do.      *)
(***************************************************************************)
THEOREM NoNodeForgotten == RecomputeSpec => []IdleNodesSettled
<1>1. Inv => IdleNodesSettled
  BY DEF Inv, Pulling, IdleNodesSettled
<1> QED BY <1>1, InvAlways, PTL

(***************************************************************************)
(* The tree hsospRecompute returns is the canonical shortest-path tree of  *)
(* the graph, for every graph and every interleaving of the pull warps     *)
(* (hsospDevice.cu:162-164).                                               *)
(***************************************************************************)
THEOREM RecomputeIsExact == RecomputeSpec => []RecomputeExact
<1>1. Inv => RecomputeExact
  BY DEF Inv
<1> QED BY <1>1, InvAlways, PTL
-----------------------------------------------------------------------------
(***************************************************************************)
(* The racing rounds end within N rounds, below the cap, with the shortest *)
(* distances.                                                              *)
(*                                                                         *)
(* The argument.  No distance and no partial result ever falls below the   *)
(* shortest one.  And after r rounds no distance is above the cheapest     *)
(* walk of r hops: a warp of round r reads neighbours that are all at most *)
(* their bound for r - 1 hops, before or after they were lowered in this   *)
(* round, and a node without a warp hangs from such a neighbour.  In round *)
(* N both bounds meet, so nothing changes any more.                        *)
(***************************************************************************)

(***************************************************************************)
(* The bounds on the distances and on the words of the running warps.      *)
(***************************************************************************)
NotBelowShortest ==
  \A v \in Node : /\ NoMore(ShortestDistances(graph)[v], dist[v])
                  /\ NoMore(ShortestDistances(graph)[v], best[v][1])

\* v's warp has read p: its word is no worse than what p could offer a round ago.
UsedBound(v, p) ==
  HopBound(graph, rounds - 1)[p] # Inf =>
    best[v][1] # Inf /\ best[v][1] <= HopBound(graph, rounds - 1)[p] + graph.w[v]

NotAboveHops ==
  /\ \A v \in Node \ todo : NoMore(dist[v], HopBound(graph, rounds)[v])
  /\ \A v \in todo :
       /\ rounds > 0
       /\ NoMore(dist[v], HopBound(graph, rounds - 1)[v])
       /\ \A p \in graph.adj[v] : <<v, p>> \notin unread => UsedBound(v, p)

Converging ==
  /\ NotBelowShortest /\ NotAboveHops
  /\ rounds <= N
  /\ rounds = N => affected = {}

(***************************************************************************)
(* The inductive invariant.                                                *)
(***************************************************************************)
ConvergenceInv ==
  /\ Inv
  /\ rounds <= N /\ converged
  /\ pc = "recompute" => Converging

-----------------------------------------------------------------------------
\* The types of what the bounds compare.
LEMMA BoundTypes ==
  ASSUME RecomputeTypeOK, NEW v \in Node
  PROVE  /\ dist[v] \in Distance /\ best[v][1] \in Distance
         /\ ShortestDistances(graph)[v] \in Distance
         /\ HopBound(graph, rounds)[v] \in Distance
         /\ rounds > 0 => rounds - 1 \in Nat /\ HopBound(graph, rounds - 1)[v] \in Distance
         /\ graph.w[v] \in Nat /\ graph.adj[v] \subseteq Node /\ Inf \notin Nat
<1>1. best[v][1] \in Distance
  BY DEF RecomputeTypeOK, NoWord, Distance
<1>2. IsGraph(graph) /\ dist[v] \in Distance /\ rounds \in Nat
  BY DEF RecomputeTypeOK, Distance
<1>3. HopBound(graph, rounds) \in [Node -> Distance]
  BY <1>2, HopBoundFacts
<1>4. rounds > 0 => rounds - 1 \in Nat /\ HopBound(graph, rounds - 1) \in [Node -> Distance]
  <2>1. rounds > 0 => rounds - 1 \in Nat
    BY <1>2
  <2> QED BY <1>2, <2>1, HopBoundFacts
<1>5. N \in Nat /\ HopBound(graph, N) \in [Node -> Distance] /\ HopBound(graph, N) = ShortestDistances(graph)
  BY <1>2, HopBoundFacts, NAssumption
<1> QED BY <1>1, <1>2, <1>3, <1>4, <1>5, LineGraphFacts

\* The order of distances is an order.
LEMMA NoMoreTransitive ==
  ASSUME NEW a \in Distance, NEW b \in Distance, NEW c \in Distance, NoMore(a, b), NoMore(b, c)
  PROVE  NoMore(a, c)
BY InfAssumption DEF NoMore, Distance

LEMMA NoMoreAntisymmetric ==
  ASSUME NEW a \in Distance, NEW b \in Distance, NoMore(a, b), NoMore(b, a)
  PROVE  a = b
BY InfAssumption DEF NoMore, Distance

\* After the reset only the source is reached: a walk without hops.
LEMMA ResetConverging ==
  ASSUME RecomputeTypeOK, todo = {}, unread = {}, best = Blank,
         Reset, UNCHANGED <<graph, todo, unread, best>>
  PROVE  Converging'
<1>1. IsGraph(graph) /\ Source \in Node /\ ShortestDistances(graph)[Source] = 0
  <2>1. N \in Nat /\ HopBound(graph, N)[Source] = 0 /\ HopBound(graph, N) = ShortestDistances(graph)
    BY HopBoundFacts, NAssumption DEF RecomputeTypeOK
  <2> QED BY <2>1, Constants DEF RecomputeTypeOK
<1>2. NotBelowShortest'
  BY <1>1, InfAssumption DEF NotBelowShortest, Reset, Blank, NoWord, NoMore
<1>3. NotAboveHops'
  <2>1. HopBound(graph, 0) = FirstWalk
    BY WalkRounds, NAssumption DEF HopBound
  <2>2. todo' = {} /\ rounds' = 0 /\ graph' = graph
    BY DEF Reset
  <2>3. \A v \in Node : NoMore(dist'[v], FirstWalk[v])
    BY InfAssumption DEF Reset, FirstWalk, NoMore
  <2> QED BY <2>1, <2>2, <2>3 DEF NotAboveHops
<1>4. rounds' = 0 /\ N # 0 /\ 0 <= N
  BY NAssumption DEF Reset
<1> QED BY <1>2, <1>3, <1>4 DEF Converging

\* A node that is settled is one hop ahead of its neighbours.
LEMMA SettledHop ==
  ASSUME RecomputeTypeOK, NEW v \in Node \ {Source}, Settled(v),
         \A u \in Node : NoMore(dist[u], HopBound(graph, rounds)[u])
  PROVE  NoMore(dist[v], HopBound(graph, rounds + 1)[v])
<1> SUFFICES ASSUME HopBound(graph, rounds + 1)[v] # Inf
             PROVE  dist[v] # Inf /\ dist[v] <= HopBound(graph, rounds + 1)[v]
  BY DEF NoMore
<1>1. IsGraph(graph) /\ rounds \in Nat /\ rounds + 1 \in Nat
  BY DEF RecomputeTypeOK
<1>2. PICK u \in graph.adj[v] : /\ HopBound(graph, rounds)[u] # Inf
                                /\ HopBound(graph, rounds)[u] + graph.w[v] <= HopBound(graph, rounds + 1)[v]
  BY <1>1, HopBoundFacts
<1>3. u \in Node /\ graph.w[v] \in Nat /\ dist[u] \in Distance /\ dist[v] \in Distance
  BY BoundTypes
<1>4. dist[u] # Inf /\ dist[u] <= HopBound(graph, rounds)[u]
  BY <1>2, <1>3 DEF NoMore
<1>5. HangsFrom(graph, dist, v, parent[v]) /\ dist[v] # Inf
  BY <1>2, <1>4 DEF Settled
<1>6. PICK p \in graph.adj[v] \cap Reached(dist) :
        dist[v] = dist[p] + graph.w[v] /\ (u # p => Less(<<dist[p], p>>, <<dist[u], u>>))
  BY <1>2, <1>3, <1>4, <1>5 DEF HangsFrom, Reached
<1>7. p \in Node /\ dist[p] \in Nat /\ dist[u] \in Nat
  BY <1>3, <1>4, <1>6, BoundTypes DEF Reached, Distance
<1>8. dist[p] <= dist[u]
  BY <1>6, <1>7 DEF Less
<1>9. HopBound(graph, rounds)[u] \in Nat /\ HopBound(graph, rounds + 1)[v] \in Nat
  <2>1. HopBound(graph, rounds + 1)[v] \in Distance
    BY <1>1, HopBoundFacts
  <2>2. HopBound(graph, rounds)[u] \in Distance
    BY <1>3, BoundTypes
  <2> QED BY <1>2, <2>1, <2>2 DEF Distance
<1> QED BY <1>3, <1>2, <1>4, <1>5, <1>6, <1>7, <1>8, <1>9

\* A round starts, and it is not one too many.
LEMMA NextRoundConverging ==
  ASSUME RecomputeTypeOK, Pulling, Converging, NextRound
  PROVE  Converging'
<1> USE DEF NextRound
<1>1. todo = {} /\ IsGraph(graph) /\ rounds \in Nat /\ rounds' - 1 = rounds /\ rounds' > 0
  BY DEF KernelDone, RecomputeTypeOK
<1>2. rounds # N
  BY DEF Converging, Candidates
<1>3. rounds' <= N
  BY <1>1, <1>2, NAssumption DEF Converging
<1>4. \A v \in Node : NoMore(dist[v], HopBound(graph, rounds)[v])
  BY <1>1 DEF Converging, NotAboveHops
<1>5. ASSUME NEW v \in Node \ todo'
      PROVE  NoMore(dist'[v], HopBound(graph, rounds')[v])
  <2>1. CASE v = Source
    <3>1. HopBound(graph, rounds')[Source] = 0
      BY <1>1, HopBoundFacts
    <3> QED BY <2>1, <3>1, InfAssumption DEF Pulling, SourceFixed, NoMore
  <2>2. CASE v # Source
    <3>1. Settled(v)
      BY <1>1, <1>5, <2>2 DEF Pulling, IdleNodesSettled
    <3> QED BY <1>1, <1>4, <2>2, <3>1, SettledHop
  <2> QED BY <2>1, <2>2
<1>6. ASSUME NEW v \in todo'
      PROVE  /\ NoMore(dist'[v], HopBound(graph, rounds' - 1)[v])
             /\ \A p \in graph.adj[v] : <<v, p>> \in unread'
  BY <1>1, <1>4, CandidatesAreNodes, GraphFacts DEF RowReads, RecomputeTypeOK
<1>7. NotAboveHops'
  BY <1>1, <1>5, <1>6 DEF NotAboveHops
<1>8. NotBelowShortest'
  BY DEF Converging, NotBelowShortest
<1> QED BY <1>3, <1>7, <1>8 DEF Converging

\* One read.
LEMMA PullReadConverging ==
  ASSUME RecomputeTypeOK, Pulling, Converging, NEW v \in Node, NEW p \in Node, PullRead(v, p)
  PROVE  Converging'
<1> USE DEF PullRead
<1> DEFINE c == dist[p] + graph.w[v]
<1>1. v \in todo /\ p \in graph.adj[v] /\ v # Source
  BY DEF Pulling, WarpsRunning, RowReads, SourceFixed
<1>2. /\ dist[p] \in Distance /\ best[v][1] \in Distance /\ graph.w[v] \in Nat
      /\ rounds > 0 /\ rounds \in Nat /\ rounds - 1 \in Nat
      /\ HopBound(graph, rounds - 1)[p] \in Distance /\ HopBound(graph, rounds)[p] \in Distance
      /\ ShortestDistances(graph)[v] \in Distance /\ ShortestDistances(graph)[p] \in Distance
      /\ IsGraph(graph)
  BY <1>1, BoundTypes DEF Converging, NotAboveHops, RecomputeTypeOK
<1>3. NoMore(dist[p], HopBound(graph, rounds - 1)[p])
  <2>1. CASE p \in todo
    BY <2>1 DEF Converging, NotAboveHops
  <2>2. CASE p \notin todo
    <3>1. NoMore(dist[p], HopBound(graph, rounds)[p])
      BY <2>2 DEF Converging, NotAboveHops
    <3>2. rounds - 1 + 1 = rounds
      BY <1>2
    <3>3. NoMore(HopBound(graph, rounds)[p], HopBound(graph, rounds - 1)[p])
      BY <1>2, <3>2, HopBoundFacts
    <3> QED BY <1>2, <3>1, <3>3, NoMoreTransitive
  <2> QED BY <2>1, <2>2
<1>4. dist[p] # Inf => NoMore(ShortestDistances(graph)[v], c)
  <2> SUFFICES ASSUME dist[p] # Inf PROVE NoMore(ShortestDistances(graph)[v], c)
    OBVIOUS
  <2>1. ShortestDistances(graph)[p] # Inf /\ ShortestDistances(graph)[p] <= dist[p]
    BY DEF Converging, NotBelowShortest, NoMore
  <2>2. NoMore(ShortestDistances(graph)[v], ShortestDistances(graph)[p] + graph.w[v])
    BY <1>1, <1>2, <2>1, ShortestAreRespected DEF Respected
  <2> QED BY <1>2, <2>1, <2>2, InfAssumption DEF NoMore, Distance
<1>5. \/ dist[p] # Inf /\ best' = [best EXCEPT ![v] = <<c, p>>] /\ (best[v][1] # Inf => c <= best[v][1])
      \/ best' = best /\ (dist[p] # Inf => best[v][1] # Inf /\ best[v][1] <= c)
  <2>1. best[v] = NoWord \/ best[v] \in Nat \X Node
    BY DEF RecomputeTypeOK
  <2>2. dist[p] # Inf => c \in Nat
    BY <1>2 DEF Distance
  <2>3. CASE dist[p] # Inf /\ Better(<<c, p>>, best[v])
    <3>1. best[v][1] # Inf => c <= best[v][1]
      BY <2>1, <2>2, <2>3 DEF Better, Less, NoWord
    <3> QED BY <2>3, <3>1
  <2>4. CASE ~ (dist[p] # Inf /\ Better(<<c, p>>, best[v]))
    <3>1. dist[p] # Inf => best[v][1] # Inf /\ best[v][1] <= c
      BY <2>1, <2>2, <2>4, InfAssumption DEF Better, Less
    <3> QED BY <2>4, <3>1
  <2> QED BY <2>3, <2>4
<1> HIDE DEF c
<1>6. /\ NoMore(best'[v][1], best[v][1])
      /\ dist[p] # Inf => best'[v][1] # Inf /\ best'[v][1] <= dist[p] + graph.w[v]
      /\ best'[v][1] = best[v][1] \/ (dist[p] # Inf /\ best'[v][1] = c)
      /\ \A x \in Node : x # v => best'[x] = best[x]
  <2>1. c = dist[p] + graph.w[v] /\ (dist[p] # Inf => c \in Nat)
    BY <1>2 DEF Distance, c
  <2> QED BY <1>2, <1>5, <2>1, InfAssumption DEF NoMore, Distance, RecomputeTypeOK
<1>7. NotBelowShortest'
  <2>1. NoMore(ShortestDistances(graph)[v], best'[v][1])
    BY <1>4, <1>6 DEF Converging, NotBelowShortest
  <2> QED BY <1>6, <2>1 DEF Converging, NotBelowShortest
<1>8. UsedBound(v, p)'
  <2>1. HopBound(graph, rounds - 1)[p] # Inf =>
          dist[p] # Inf /\ dist[p] <= HopBound(graph, rounds - 1)[p]
    BY <1>3 DEF NoMore
  <2>2. best'[v][1] \in Distance
    <3>1. c = dist[p] + graph.w[v]
      BY DEF c
    <3> QED BY <1>2, <1>6, <3>1 DEF Distance
  <2> QED BY <1>2, <1>6, <2>1, <2>2 DEF UsedBound, Distance
<1>9. ASSUME NEW x \in todo, NEW q \in graph.adj[x], <<x, q>> \notin unread'
      PROVE  UsedBound(x, q)'
  <2>1. CASE x = v /\ q = p
    BY <1>8, <2>1
  <2>2. CASE ~ (x = v /\ q = p)
    <3>1. <<x, q>> \notin unread /\ x \in Node
      BY <1>9, <2>2 DEF RecomputeTypeOK
    <3>2. UsedBound(x, q)
      BY <3>1 DEF Converging, NotAboveHops
    <3>3. CASE x # v
      BY <1>6, <3>1, <3>2, <3>3 DEF UsedBound
    <3>4. CASE x = v
      <4>1. /\ q \in Node /\ HopBound(graph, rounds - 1)[q] \in Distance
            /\ best'[v][1] \in Distance
        <5>1. q \in Node
          BY <1>9, <3>4, BoundTypes
        <5>2. c = dist[p] + graph.w[v]
          BY DEF c
        <5> QED BY <1>2, <1>6, <5>1, <5>2, BoundTypes DEF Distance
      <4> QED BY <1>2, <1>6, <3>2, <3>4, <4>1 DEF UsedBound, NoMore, Distance
    <3> QED BY <3>3, <3>4
  <2> QED BY <2>1, <2>2
<1>10. NotAboveHops'
  BY <1>9 DEF Converging, NotAboveHops
<1> QED BY <1>7, <1>10 DEF Converging

\* The end of a warp: one hop further, and in round N no further.
LEMMA PullWriteConverging ==
  ASSUME RecomputeTypeOK, Pulling, Converging, NEW v \in Node, PullWrite(v)
  PROVE  Converging'
<1> USE DEF PullWrite
<1>1. v # Source /\ v \in todo
  BY DEF Pulling, SourceFixed
<1>2. /\ IsGraph(graph) /\ best[v][1] \in Distance /\ dist[v] \in Distance /\ graph.w[v] \in Nat
      /\ rounds > 0 /\ rounds \in Nat /\ rounds - 1 \in Nat /\ rounds - 1 + 1 = rounds
      /\ HopBound(graph, rounds)[v] \in Distance /\ HopBound(graph, rounds - 1)[v] \in Distance
      /\ ShortestDistances(graph)[v] \in Distance
  BY <1>1, BoundTypes DEF Converging, NotAboveHops, RecomputeTypeOK
<1>3. NoMore(best[v][1], HopBound(graph, rounds)[v])
  <2> SUFFICES ASSUME HopBound(graph, rounds)[v] # Inf
               PROVE  best[v][1] # Inf /\ best[v][1] <= HopBound(graph, rounds)[v]
    BY DEF NoMore
  <2>1. PICK u \in graph.adj[v] : /\ HopBound(graph, rounds - 1)[u] # Inf
                                  /\ HopBound(graph, rounds - 1)[u] + graph.w[v] <= HopBound(graph, rounds)[v]
    BY <1>1, <1>2, HopBoundFacts
  <2>2. u \in Node /\ HopBound(graph, rounds - 1)[u] \in Distance
    BY <1>2, BoundTypes
  <2>3. UsedBound(v, u)
    BY <1>1, <2>2 DEF Converging, NotAboveHops
  <2> QED BY <1>2, <2>1, <2>2, <2>3 DEF UsedBound, Distance
<1>4. /\ dist'[v] = best[v][1] /\ best'[v] = NoWord
      /\ \A x \in Node : x # v => dist'[x] = dist[x] /\ best'[x] = best[x]
  BY DEF RecomputeTypeOK
<1>5. NotBelowShortest'
  <2>1. NoMore(ShortestDistances(graph)[v], best[v][1]) /\ NoMore(ShortestDistances(graph)[v], best'[v][1])
    BY <1>4 DEF Converging, NotBelowShortest, NoWord, NoMore
  <2> QED BY <1>4, <2>1 DEF Converging, NotBelowShortest
<1>6. NotAboveHops'
  <2>1. \A x \in Node \ todo' : NoMore(dist'[x], HopBound(graph, rounds)[x])
    BY <1>3, <1>4 DEF Converging, NotAboveHops
  <2>2. ASSUME NEW x \in todo'
        PROVE  /\ NoMore(dist'[x], HopBound(graph, rounds - 1)[x])
               /\ \A q \in graph.adj[x] : <<x, q>> \notin unread => UsedBound(x, q)'
    <3>1. x \in todo /\ x \in Node /\ x # v
      BY <2>2 DEF RecomputeTypeOK
    <3> QED BY <1>4, <3>1 DEF Converging, NotAboveHops, UsedBound
  <2> QED BY <1>2, <2>1, <2>2 DEF NotAboveHops
<1>7. rounds = N => affected' = affected
  <2> SUFFICES ASSUME rounds = N PROVE dist[v] = best[v][1]
    OBVIOUS
  <2>1. HopBound(graph, rounds - 1) = ShortestDistances(graph) /\ HopBound(graph, rounds) = ShortestDistances(graph)
    BY <1>2, HopBoundFacts, NAssumption
  <2>2. NoMore(dist[v], ShortestDistances(graph)[v]) /\ NoMore(ShortestDistances(graph)[v], dist[v])
    BY <1>1, <2>1 DEF Converging, NotAboveHops, NotBelowShortest
  <2>3. NoMore(best[v][1], ShortestDistances(graph)[v]) /\ NoMore(ShortestDistances(graph)[v], best[v][1])
    BY <1>3, <2>1 DEF Converging, NotBelowShortest
  <2> QED BY <1>2, <2>2, <2>3, NoMoreAntisymmetric
<1> QED BY <1>5, <1>6, <1>7 DEF Converging

\* The loop is not ended by its cap.
LEMMA StopConverged ==
  ASSUME RecomputeTypeOK, Converging, StopRecompute
  PROVE  converged'
<1>1. RecomputeCap > N
  BY NAssumption, MaxIterationsAssumption DEF RecomputeCap
<1>2. rounds \in Nat /\ rounds <= N /\ RecomputeCap \in Nat /\ ~ (rounds >= RecomputeCap)
  BY <1>1, NAssumption, MaxIterationsAssumption DEF RecomputeTypeOK, Converging, RecomputeCap
<1> QED BY <1>2 DEF StopRecompute

-----------------------------------------------------------------------------
\* The invariant holds initially.
LEMMA ConvergenceInit == RecomputeInit => ConvergenceInv
BY InvInit, NAssumption DEF RecomputeInit, ConvergenceInv

\* Every step keeps the invariant.
LEMMA ConvergenceNext == ConvergenceInv /\ [RecomputeNext]_rvars => ConvergenceInv'
<1> SUFFICES ASSUME ConvergenceInv, [RecomputeNext]_rvars PROVE ConvergenceInv'
  OBVIOUS
<1>1. Inv' /\ Inv /\ RecomputeTypeOK
  BY InvNext DEF ConvergenceInv, Inv
<1> USE DEF ConvergenceInv
<1>2. CASE StartRecompute
  <2>1. Converging'
    BY <1>1, <1>2, ResetConverging DEF StartRecompute, Inv
  <2>2. rounds' <= N /\ converged'
    BY <1>2, <2>1 DEF StartRecompute, Converging
  <2> QED BY <1>1, <2>1, <2>2
<1>3. CASE NextRound
  <2>1. Converging'
    BY <1>1, <1>3, NextRoundConverging DEF NextRound, Inv
  <2> QED BY <1>1, <1>3, <2>1 DEF NextRound, Converging
<1>4. CASE StopRecompute
  <2>1. converged'
    BY <1>1, <1>4, StopConverged DEF StopRecompute
  <2> QED BY <1>1, <1>4, <2>1 DEF StopRecompute
<1>5. ASSUME NEW v \in Node, NEW p \in Node, PullRead(v, p) PROVE ConvergenceInv'
  <2>1. Converging'
    BY <1>1, <1>5, PullReadConverging DEF PullRead, Inv
  <2> QED BY <1>1, <1>5, <2>1 DEF PullRead
<1>6. ASSUME NEW v \in Node, PullWrite(v) PROVE ConvergenceInv'
  <2>1. Converging'
    BY <1>1, <1>6, PullWriteConverging DEF PullWrite, Inv
  <2> QED BY <1>1, <1>6, <2>1 DEF PullWrite
<1>7. CASE UNCHANGED rvars
  BY <1>1, <1>7 DEF rvars, recomputeVars, Converging, NotBelowShortest, NotAboveHops, UsedBound
<1> QED BY <1>2, <1>3, <1>4, <1>5, <1>6, <1>7 DEF RecomputeNext, RecomputeStep, Returned

\* The invariant holds in every reachable state.
LEMMA ConvergenceAlways == RecomputeSpec => []ConvergenceInv
BY ConvergenceInit, ConvergenceNext, PTL DEF RecomputeSpec

(***************************************************************************)
(* A call needs at most N rounds whatever its warps read of each other's   *)
(* writes, so its cap never ends it (hsospDevice.cu:1054-1056), and the    *)
(* distances it returns are the costs of the cheapest walks.               *)
(***************************************************************************)
THEOREM RecomputeConverges == RecomputeSpec => []ConvergesToShortest
<1>1. ConvergenceInv => ConvergesToShortest
  <2> SUFFICES ASSUME ConvergenceInv, pc = "idle" PROVE dist = ShortestDistances(graph)
    BY DEF ConvergenceInv, ConvergesToShortest, CapNeverReached, DistancesAreShortest
  <2>1. /\ IsGraph(graph) /\ CanonicalTree(graph, dist, parent)
        /\ dist \in [Node -> Distance] /\ parent \in [Node -> Node \cup {NoParent}]
    BY DEF ConvergenceInv, Inv, RecomputeExact, RecomputeTypeOK, Distance
  <2> QED BY <2>1, CanonicalTreesAreShortest
<1> QED BY <1>1, ConvergenceAlways, PTL
-----------------------------------------------------------------------------
(***************************************************************************)
(* The delta as hsospUpdate relies on it.                                  *)
(***************************************************************************)
DeltaOK ==
  /\ \A e \in delta.ins : e[2] \in graph.adj[e[1]]
  /\ \A v \in delta.dead : graph.adj[v] = {}
  /\ Source \notin delta.new \cup delta.dead

Inserted(u, v) == <<u, v>> \in delta.ins \/ <<v, u>> \in delta.ins

(***************************************************************************)
(* What a batch leaves of the canonical tree of the previous graph.        *)
(***************************************************************************)
StillHangs(v) ==
  LET p == parent[v]
  IN  p \in graph.adj[v] /\ dist[p] # Inf /\ dist[v] = dist[p] + graph.w[v]

NotImprovedBy(v, q) ==
  dist[v] # Inf /\ ~Less(<<dist[q] + graph.w[v], q>>, <<dist[v], parent[v]>>)

TreeBeforeBatch ==
  /\ dist[Source] = 0 /\ parent[Source] = NoParent
  /\ \A v \in Node \ {Source} :
       /\ IF dist[v] = Inf THEN parent[v] = NoParent ELSE v \in Roots \/ StillHangs(v)
       /\ \A q \in graph.adj[v] :
            dist[q] # Inf => Inserted(q, v) \/ v \in Roots \/ NotImprovedBy(v, q)

(***************************************************************************)
(* Pointer jumping.  A marked node's ancestors contain a root; an unmarked *)
(* node comes with a set (the path from it up to, excluding, its pointer)  *)
(* that avoids the roots; and the pointers point to ancestors.             *)
(***************************************************************************)
PathTo(v, C) ==
  v \in C /\ C \cap Roots = {} /\ \A x \in C : TreeParent(packed[x]) \in C \cup {jump[v], NoParent}

Jumping ==
  /\ packed = PackState /\ Roots \subseteq inv
  /\ \A v \in inv : SubtreeOfRoot(v)
  /\ \A v \in Node \ inv : \E C \in SUBSET Node : PathTo(v, C)
  /\ \A v \in Node, C \in SUBSET Node :
       v \in C /\ ParentClosed(C) => jump[v] \in C \cup {NoParent}

Marked ==
  /\ packed = PackState /\ Roots \subseteq inv
  /\ \A v \in Node : TreeParent(packed[v]) \in inv => v \in inv

(***************************************************************************)
(* The relaxation phase: the lists, and the words on their way.            *)
(***************************************************************************)
ListsOK ==
  /\ \A v \in Node : stamp[v] <= epoch
  /\ IF pc \in {"pull", "insert", "push"}
     THEN \A v \in Node : v \in next <=> stamp[v] = epoch
     ELSE next = {}
  /\ FrontierWithoutDuplicates

WarpsOK ==
  /\ unread \subseteq RowReads(todo) /\ (pc # "pull" => unread = {})
  /\ pc \notin {"pull", "push"} => todo = {}
  /\ pc # "insert" => threads = {}
  /\ pc \notin {"insert", "push"} => lanes = {}
  /\ \A v \in Node : word[v] = PackedInf \/ (pc = "pull" /\ v \in todo)

\* A word that may be written to v: it fits, and it is justified.
Good(v, c) == v # Source /\ c[1] < Limit /\ JustifiedBy(v, c)

Words ==
  /\ packed[Source] = <<0, NoParent>>
  /\ pc = "pull" => Source \notin todo
  /\ \A v \in Node : word[v] # PackedInf => Good(v, word[v])
  /\ \A l \in lanes : Good(l[1], l[2])
  /\ \A e \in threads : e[2] \in graph.adj[e[1]]

(***************************************************************************)
(* The inductive invariant.                                                *)
(***************************************************************************)
UInv ==
  /\ TypeOK
  /\ ListsOK
  /\ IF pc = "recompute"
     THEN Pulling /\ threads = {} /\ lanes = {} /\ \A v \in Node : word[v] = PackedInf
     ELSE WarpsOK /\ best = Blank
  /\ pc \notin {"blank", "recompute", "idle"} => DeltaOK
  /\ TreeIsCanonical
  /\ pc \in {"ready", "jump", "marked"} /\ converged => TreeBeforeBatch
  /\ pc \in {"jump", "marked"} /\ ~overflow => \A v \in Node : dist[v] = Inf \/ dist[v] < Limit
  /\ pc = "jump" => Jumping
  /\ pc = "marked" => Marked /\ SubtreesMarked
  /\ Relaxing => Words
  /\ NoStaleWord /\ NoLostImprovement

-----------------------------------------------------------------------------
(***************************************************************************)
(* Facts about the definitions.                                            *)
(***************************************************************************)

\* Every set of nodes is finite.
LEMMA NodesFinite ==
  ASSUME NEW S \in SUBSET Node
  PROVE  IsFiniteSet(S) /\ Cardinality(S) \in Nat
<1>1. IsFiniteSet(Node)
  BY NAssumption, FS_Interval DEF Node
<1> QED BY <1>1, FS_Subset, FS_CardinalityType

\* Words, their parents, and the word that stands for "unreached".
LEMMA WordFacts ==
  /\ PackedInf \in Word /\ NoParent \in 0 .. N /\ Node \subseteq 0 .. N
  /\ \A x \in Word : x[1] \in Nat /\ x[2] \in 0 .. N /\ TreeParent(x) \in 0 .. N
  /\ 0 .. N = Node \cup {NoParent}
BY NAssumption, BoundsAssumption DEF PackedInf, Word, NoParent, Node, TreeParent

\* What a node offers its neighbour is a word if it fits.
LEMMA OfferFacts ==
  ASSUME RecomputeTypeOK, packed \in [Node -> Word], NEW u \in Node, NEW v \in Node
  PROVE  LET c == Offer(packed[u], u, v)
         IN  /\ c = <<packed[u][1] + graph.w[v], u>>
             /\ c[1] = packed[u][1] + graph.w[v] /\ c[2] = u /\ c[1] \in Nat
             /\ Fits(c) => c \in Word /\ c # PackedInf /\ c[1] < Limit
<1>1. graph.w[v] \in Nat /\ packed[u][1] \in Nat
  BY GraphFacts, WordFacts DEF RecomputeTypeOK
<1> QED BY <1>1, WordFacts, BoundsAssumption DEF Offer, Fits, Word, PackedInf

\* Packing gives words.
LEMMA PackTypeOK ==
  ASSUME RecomputeTypeOK
  PROVE  PackState \in [Node -> Word]
<1>1. ASSUME NEW d \in Nat
      PROVE  d % (Limit + 1) \in 0 .. Limit
  BY BoundsAssumption
<1>2. \A v \in Node : dist[v] # Inf => dist[v] \in Nat
  BY DEF RecomputeTypeOK
<1>3. \A v \in Node : parent[v] \in 0 .. N
  BY WordFacts DEF RecomputeTypeOK
<1> QED BY <1>1, <1>2, <1>3, WordFacts DEF PackState, Pack, Word

\* Less is a strict order on words and offers.
LEMMA LessFacts ==
  ASSUME NEW a \in Nat \X Nat, NEW b \in Nat \X Nat, NEW c \in Nat \X Nat
  PROVE  /\ ~Less(a, a)
         /\ Less(a, b) => ~Less(b, a)
         /\ Less(a, b) /\ Less(b, c) => Less(a, c)
         /\ ~Less(a, b) /\ ~Less(b, c) => ~Less(a, c)
         /\ ~Less(a, b) /\ ~Less(b, a) => a = b
BY DEF Less

\* The delta's dead ids have no neighbours, so clearing their rows changes nothing.
LEMMA DeadRowsEmpty ==
  ASSUME RecomputeTypeOK, DeltaOK, BeginUpdate
  PROVE  graph' = graph
<1>1. [v \in Node |-> IF v \in delta.dead THEN {} ELSE graph.adj[v]] = graph.adj
  BY DEF DeltaOK, RecomputeTypeOK, IsGraph
<1>2. graph.adj \in [Node -> SUBSET Node]
  BY DEF RecomputeTypeOK, IsGraph
<1>3. graph' = [graph EXCEPT !.adj = graph.adj]
  BY <1>1 DEF BeginUpdate
<1> QED BY <1>3 DEF RecomputeTypeOK, IsGraph

-----------------------------------------------------------------------------
(***************************************************************************)
(* Type correctness.                                                       *)
(***************************************************************************)

\* The atomicMin and the list keep their types.
LEMMA RelaxTypeOK ==
  ASSUME TypeOK, NEW v \in Node, NEW c \in Word, Relax(v, c)
  PROVE  /\ packed' \in [Node -> Word] /\ next' \in SUBSET Node
         /\ nextLen' \in Nat /\ stamp' \in [Node -> Nat]
BY DEF TypeOK, Relax, Enqueue, listVars

\* The first recompute and its rounds.
LEMMA RecomputeKeepsTypes ==
  ASSUME UInv, FirstRecompute \/ RecomputeStepOnly
  PROVE  TypeOK'
<1> USE DEF UInv, TypeOK
<1>1. CASE FirstRecompute
  <2>1. Reset /\ UNCHANGED <<graph, converged, todo, unread, best>> /\ UNCHANGED updateVars
    BY <1>1 DEF FirstRecompute, StartRecompute, Reset
  <2>2. RecomputeTypeOK' /\ pc' = "recompute"
    BY <2>1, ResetTypeOK DEF Reset
  <2> QED BY <2>1, <2>2 DEF updateVars, batchVars, markVars, listVars, counterVars
<1>2. CASE RecomputeStepOnly
  <2>1. RecomputeTypeOK' /\ UNCHANGED updateVars
    BY <1>2, StepTypeOK DEF RecomputeStepOnly
  <2>2. pc' \in {"recompute", "idle"}
    BY <1>2 DEF RecomputeStepOnly, RecomputeStep, NextRound, StopRecompute, PullRead, PullWrite
  <2> QED BY <2>1, <2>2 DEF updateVars, batchVars, markVars, listVars, counterVars
<1> QED BY <1>1, <1>2

\* A batch.
LEMMA BatchKeepsTypes ==
  ASSUME UInv, NEW g \in Graphs, NEW created \in SUBSET g.live, ApplyBatch(g, created)
  PROVE  TypeOK'
<1> USE DEF UInv, TypeOK, ApplyBatch, MayFollow, NetDelta
<1>1. RecomputeTypeOK'
  BY GraphsAssumption DEF RecomputeTypeOK, recomputeVars, IsGraph
<1>2. batches' \in 0 .. MaxBatches
  BY BoundsAssumption
<1>3. g.live \in SUBSET Node /\ graph.live \in SUBSET Node
  BY GraphsAssumption DEF RecomputeTypeOK, IsGraph
<1>4. delta' \in [del : SUBSET (Node \X Node), ins : SUBSET (Node \X Node),
                  new : SUBSET Node, dead : SUBSET Node]
  BY <1>3 DEF NewPairs
<1> QED BY <1>1, <1>2, <1>4 DEF markVars, listVars, counterVars

\* The steps between the batch and the pull kernel.
LEMMA MarkingKeepsTypes ==
  ASSUME UInv, BeginUpdate \/ JumpRound \/ Invalidate
  PROVE  TypeOK'
<1> USE DEF UInv, TypeOK
<1>1. CASE BeginUpdate
  <2> USE <1>1 DEF BeginUpdate
  <2>1. RecomputeTypeOK'
    BY DeadRowsEmpty DEF RecomputeTypeOK, recomputeVars
  <2>2. packed' \in [Node -> Word] /\ jump' \in [Node -> 0 .. N]
    BY PackTypeOK, WordFacts
  <2>3. inv' \in SUBSET Node
    BY DEF Roots
  <2> QED BY <2>1, <2>2, <2>3 DEF batchVars, listVars
<1>2. CASE JumpRound
  <2> USE <1>2 DEF JumpRound
  <2>1. RecomputeTypeOK'
    BY DEF RecomputeTypeOK, recomputeVars
  <2>2. \A v \in Node : jump[v] # NoParent => jump[jump[v]] \in 0 .. N
    BY WordFacts
  <2>3. jump' \in [Node -> 0 .. N]
    BY <2>2, WordFacts DEF Halted
  <2> QED BY <2>1, <2>3 DEF batchVars, listVars, counterVars
<1>3. CASE Invalidate
  <2> USE <1>3 DEF Invalidate
  <2>1. RecomputeTypeOK'
    BY DEF RecomputeTypeOK, recomputeVars, RowReads
  <2>2. packed' \in [Node -> Word]
    BY WordFacts
  <2> QED BY <2>1, <2>2 DEF batchVars, markVars, counterVars
<1> QED BY <1>1, <1>2, <1>3

\* The accesses of the relaxing warps.
LEMMA RelaxingKeepsTypes ==
  ASSUME UInv,
         \/ \E v, p \in Node : InvalidatedRead(v, p)
         \/ \E v \in Node : InvalidatedRelax(v)
         \/ \E u, v \in Node : InsertedLoad(u, v)
         \/ \E u \in Node : PushLoad(u)
         \/ \E l \in lanes : RelaxLane(l)
  PROVE  TypeOK'
<1> USE DEF UInv, TypeOK
<1>1. ASSUME NEW v \in Node, NEW p \in Node, InvalidatedRead(v, p)
      PROVE  TypeOK'
  <2> USE <1>1 DEF InvalidatedRead
  <2>1. RecomputeTypeOK'
    BY DEF RecomputeTypeOK, recomputeVars
  <2>2. word' \in [Node -> Word]
    BY OfferFacts
  <2> QED BY <2>1, <2>2 DEF batchVars, markVars, listVars
<1>2. ASSUME NEW v \in Node, InvalidatedRelax(v)
      PROVE  TypeOK'
  <2> USE <1>2 DEF InvalidatedRelax
  <2>1. RecomputeTypeOK'
    BY DEF RecomputeTypeOK, recomputeVars
  <2>2. /\ packed' \in [Node -> Word] /\ next' \in SUBSET Node
        /\ nextLen' \in Nat /\ stamp' \in [Node -> Nat]
    BY RelaxTypeOK DEF listVars
  <2>3. word' \in [Node -> Word] /\ work' \in Nat
    BY WordFacts, NodesFinite, GraphFacts DEF RecomputeTypeOK
  <2> QED BY <2>1, <2>2, <2>3 DEF batchVars, markVars
<1>3. ASSUME NEW u \in Node, NEW v \in Node, InsertedLoad(u, v)
      PROVE  TypeOK'
  <2> USE <1>3 DEF InsertedLoad
  <2>1. RecomputeTypeOK'
    BY DEF RecomputeTypeOK, recomputeVars
  <2>2. lanes' \in SUBSET (Node \X Word)
    BY OfferFacts
  <2> QED BY <2>1, <2>2 DEF batchVars, markVars, listVars
<1>4. ASSUME NEW u \in Node, PushLoad(u)
      PROVE  TypeOK'
  <2> USE <1>4 DEF PushLoad
  <2>1. RecomputeTypeOK'
    BY DEF RecomputeTypeOK, recomputeVars
  <2>2. Receivers(u) \subseteq Node
    BY GraphFacts DEF RecomputeTypeOK, Receivers
  <2>3. lanes' \in SUBSET (Node \X Word)
    BY <2>2, OfferFacts
  <2>4. work' \in Nat
    BY NodesFinite, GraphFacts DEF RecomputeTypeOK
  <2> QED BY <2>1, <2>3, <2>4 DEF batchVars, markVars, listVars
<1>5. ASSUME NEW l \in lanes, RelaxLane(l)
      PROVE  TypeOK'
  <2> USE <1>5 DEF RelaxLane
  <2>1. RecomputeTypeOK'
    BY DEF RecomputeTypeOK, recomputeVars
  <2>2. l[1] \in Node /\ l[2] \in Word
    OBVIOUS
  <2>3. /\ packed' \in [Node -> Word] /\ next' \in SUBSET Node
        /\ nextLen' \in Nat /\ stamp' \in [Node -> Nat]
    BY <2>2, RelaxTypeOK
  <2> QED BY <2>1, <2>3 DEF batchVars, markVars, counterVars
<1> QED BY <1>1, <1>2, <1>3, <1>4, <1>5

\* The host between the kernels, and at the end.
LEMMA HostKeepsTypes ==
  ASSUME UInv, LaunchInserted \/ LaunchPush \/ Unpack \/ FallBack
  PROVE  TypeOK'
<1> USE DEF UInv, TypeOK
<1>1. CASE LaunchInserted
  <2>1. RecomputeTypeOK'
    BY <1>1 DEF LaunchInserted, RecomputeTypeOK, recomputeVars
  <2> QED BY <1>1, <2>1 DEF LaunchInserted, batchVars, markVars, listVars, counterVars
<1>2. CASE LaunchPush
  <2>1. RecomputeTypeOK'
    BY <1>2 DEF LaunchPush, RecomputeTypeOK, recomputeVars
  <2> QED BY <1>2, <2>1 DEF LaunchPush, batchVars, markVars
<1>3. CASE Unpack
  <2>1. dist' \in [Node -> Nat \cup {Inf}] /\ parent' \in [Node -> Node \cup {NoParent}]
    BY <1>3, WordFacts DEF Unpack
  <2>2. RecomputeTypeOK'
    BY <1>3, <2>1 DEF Unpack, RecomputeTypeOK
  <2> QED BY <1>3, <2>2, WordFacts DEF Unpack, DropScratch, batchVars
<1>4. CASE FallBack
  <2>1. RecomputeTypeOK'
    BY <1>4, ResetTypeOK DEF FallBack
  <2> QED BY <1>4, <2>1, WordFacts DEF FallBack, Reset, DropScratch, batchVars
<1> QED BY <1>1, <1>2, <1>3, <1>4

-----------------------------------------------------------------------------
(***************************************************************************)
(* The recompute inside the update.                                        *)
(***************************************************************************)

\* A blank start with no warp running establishes the invariant of the rounds.
LEMMA ResetKeeps ==
  ASSUME UInv, TypeOK', Reset, UNCHANGED <<graph, converged, todo, unread, best>>,
         todo = {}, unread = {}, threads = {}, lanes = {}, best = Blank, pc # "pull",
         UNCHANGED <<stamp, epoch, threads, word, lanes>>, next' = {}, nextLen' = 0
  PROVE  UInv'
<1>1. Pulling' /\ pc' = "recompute"
  BY ResetPulling DEF UInv, TypeOK, Reset
<1>2. ListsOK'
  BY <1>1, FS_EmptySet DEF UInv, ListsOK, FrontierWithoutDuplicates
<1>3. \A v \in Node : word'[v] = PackedInf'
  BY <1>1 DEF UInv, WarpsOK, PackedInf, NoParent, RecomputeStep
<1> QED BY <1>1, <1>2, <1>3 DEF UInv, TreeIsCanonical, Relaxing, NoStaleWord, NoLostImprovement

\* The first recompute starts.
LEMMA FirstRecomputeKeeps ==
  ASSUME UInv, FirstRecompute
  PROVE  UInv'
<1>1. Reset /\ UNCHANGED <<graph, converged, todo, unread, best>> /\ UNCHANGED updateVars /\ pc = "blank"
  BY DEF FirstRecompute, StartRecompute, Reset
<1>2. TypeOK'
  BY RecomputeKeepsTypes
<1>3. next = {} /\ nextLen = 0
  BY <1>1, FS_EmptySet DEF UInv, ListsOK, FrontierWithoutDuplicates
<1>4. todo = {} /\ unread = {} /\ threads = {} /\ lanes = {} /\ best = Blank
  BY <1>1 DEF UInv, WarpsOK
<1> QED BY <1>1, <1>2, <1>3, <1>4, ResetKeeps DEF updateVars, listVars

\* A round of a recompute, the first one or a fallback, and its end.
LEMMA RecomputeStepKeeps ==
  ASSUME UInv, RecomputeStepOnly
  PROVE  UInv'
<1>1. TypeOK' /\ UNCHANGED updateVars /\ RecomputeTypeOK /\ pc = "recompute"
  BY RecomputeKeepsTypes
     DEF RecomputeStepOnly, RecomputeStep, NextRound, StopRecompute, PullRead, PullWrite, UInv, TypeOK
<1>2. Pulling /\ threads = {} /\ lanes = {} /\ \A v \in Node : word[v] = PackedInf
  BY <1>1 DEF UInv
<1>3. UNCHANGED <<next, nextLen, stamp, epoch, threads, word, lanes>>
  BY <1>1 DEF updateVars, listVars
<1>4. pc' \in {"recompute", "idle"} => ListsOK'
  BY <1>1, <1>3 DEF UInv, ListsOK, FrontierWithoutDuplicates
<1>5. ASSUME Pulling', pc' = "recompute"
      PROVE  UInv'
  BY <1>1, <1>2, <1>3, <1>4, <1>5
     DEF UInv, TreeIsCanonical, Relaxing, NoStaleWord, NoLostImprovement, PackedInf
<1>6. CASE NextRound
  BY <1>1, <1>2, <1>5, <1>6, NextRoundPulling DEF NextRound
<1>7. ASSUME NEW v \in Node, NEW p \in Node, PullRead(v, p)
      PROVE  UInv'
  BY <1>1, <1>2, <1>5, <1>7, PullReadPulling DEF PullRead
<1>8. ASSUME NEW v \in Node, PullWrite(v)
      PROVE  UInv'
  BY <1>1, <1>2, <1>5, <1>8, PullWritePulling DEF PullWrite
<1>9. CASE StopRecompute
  <2>1. pc' = "idle" /\ todo' = {} /\ unread' = {} /\ todo = {} /\ best' = best
    BY <1>9 DEF StopRecompute, KernelDone
  <2>2. best' = Blank
    BY <1>1, <1>2, <2>1 DEF Pulling, WarpsRunning, Blank, RecomputeTypeOK
  <2>3. WarpsOK'
    BY <1>2, <1>3, <2>1 DEF WarpsOK, PackedInf
  <2>4. TreeIsCanonical'
    BY <1>1, <1>2, <1>9, StopIsExact DEF TreeIsCanonical
  <2>5. ListsOK'
    BY <1>4, <2>1
  <2> QED BY <1>1, <2>1, <2>2, <2>3, <2>4, <2>5
          DEF UInv, Relaxing, NoStaleWord, NoLostImprovement, Blank
<1> QED BY <1>6, <1>7, <1>8, <1>9 DEF RecomputeStepOnly, RecomputeStep

-----------------------------------------------------------------------------
(***************************************************************************)
(* The batch.                                                              *)
(***************************************************************************)

\* The tree edges and the parents of the packed words.
LEMMA PackedParent ==
  ASSUME RecomputeTypeOK, NEW v \in Node, dist[v] # Inf, parent[v] \in Node
  PROVE  TreeParent(PackState[v]) = parent[v]
BY Constants DEF PackState, Pack, PackedInf, TreeParent

\* A pair is new or gone whichever way round it is named.
LEMMA PairsSymmetric ==
  ASSUME NEW g, IsGraph(g), NEW h, IsGraph(h), NEW u \in Node, NEW v \in Node,
         v \in h.adj[u], v \notin g.adj[u]
  PROVE  <<u, v>> \in NewPairs(g, h) \/ <<v, u>> \in NewPairs(g, h)
<1>1. u # v /\ u \in h.adj[v] /\ u \notin g.adj[v]
  BY GraphFacts
<1>2. u < v \/ v < u
  BY <1>1, Constants
<1> QED BY <1>1, <1>2 DEF NewPairs

\* The contract of applyBatch gives a delta that hsospUpdate can rely on.
LEMMA BatchDelta ==
  ASSUME UInv, NEW g \in Graphs, NEW created \in SUBSET g.live, ApplyBatch(g, created)
  PROVE  DeltaOK'
<1> USE DEF ApplyBatch, MayFollow, NetDelta
<1>1. IsGraph(g) /\ IsGraph(graph)
  BY GraphsAssumption DEF UInv, TypeOK, RecomputeTypeOK
<1>2. \A e \in delta'.ins : e[2] \in graph'.adj[e[1]]
  BY DEF NewPairs
<1>3. \A v \in Node \ g.live : g.adj[v] = {}
  BY <1>1 DEF IsGraph
<1>4. Source \in g.live /\ Source \notin created
  BY <1>1 DEF IsGraph, Virtual
<1> QED BY <1>1, <1>2, <1>3, <1>4 DEF DeltaOK, IsGraph

\* Away from the roots and the inserted pairs the canonical tree survives the batch.
LEMMA BatchLeavesTree ==
  ASSUME UInv, NEW g \in Graphs, NEW created \in SUBSET g.live, ApplyBatch(g, created), converged
  PROVE  TreeBeforeBatch'
<1> USE DEF ApplyBatch, MayFollow, NetDelta
<1>1. IsGraph(g) /\ IsGraph(graph) /\ graph' = g /\ RecomputeTypeOK
  BY GraphsAssumption DEF UInv, TypeOK, RecomputeTypeOK
<1>2. CanonicalTree(graph, dist, parent) /\ dist' = dist /\ parent' = parent
  BY DEF UInv, TreeIsCanonical, recomputeVars
<1>3. ASSUME NEW v \in Node \ {Source}, v \notin Roots'
      PROVE  g.w[v] = graph.w[v] /\ g.w[v] \in Nat
  <2>1. v \notin created
    BY <1>3 DEF Roots
  <2> QED BY <1>1, <2>1, GraphFacts
<1>4. ASSUME NEW v \in Node \ {Source}, v \notin Roots', dist[v] # Inf
      PROVE  StillHangs(v)' /\ HangsFrom(graph, dist, v, parent[v])
  <2> DEFINE p == parent[v]
  <2>1. HangsFrom(graph, dist, v, p)
    BY <1>2, <1>4 DEF CanonicalTree
  <2>2. p \in Node /\ p \in graph.adj[v] /\ dist[p] # Inf /\ dist[v] = dist[p] + g.w[v]
    BY <1>1, <1>3, <1>4, <2>1, GraphFacts DEF HangsFrom, Reached
  <2>3. TreeParent(PackState[v])' = p
    BY <1>1, <1>2, <1>4, <2>2, PackedParent DEF PackState, Pack, PackedInf, TreeParent
  <2>4. p \in g.adj[v]
    <3> SUFFICES ASSUME p \notin g.adj[v] PROVE FALSE
      OBVIOUS
    <3>1. <<v, p>> \in delta'.del \/ <<p, v>> \in delta'.del
      BY <1>1, <2>2, PairsSymmetric
    <3>2. DeletedTreeEdge(p, v)'
      BY <1>2, <2>3, <3>1 DEF DeletedTreeEdge
    <3> QED BY <1>2, <1>4, <2>2, <3>2 DEF Roots
  <2> QED BY <1>1, <1>2, <2>1, <2>2, <2>4 DEF StillHangs
<1>5. ASSUME NEW v \in Node \ {Source}, v \notin Roots', NEW q \in g.adj[v], dist[q] # Inf,
             ~Inserted(q, v)'
      PROVE  NotImprovedBy(v, q)'
  <2>1. q \in Node /\ v \in g.adj[q]
    BY <1>1, GraphFacts
  <2>2. q \in graph.adj[v]
    BY <1>1, <1>5, <2>1, PairsSymmetric DEF Inserted
  <2>3. dist[v] # Inf
    BY <1>2, <1>5, <2>1, <2>2 DEF CanonicalTree, Reached
  <2> DEFINE p == parent[v]
  <2>4. p \in graph.adj[v] \cap Reached(dist) /\ dist[v] = dist[p] + g.w[v]
        /\ (q = p \/ Less(<<dist[p], p>>, <<dist[q], q>>))
    BY <1>3, <1>4, <1>5, <2>1, <2>2, <2>3 DEF HangsFrom, Reached
  <2>5. p \in Node /\ g.w[v] \in Nat
    BY <1>1, <1>3, <1>5, <2>4, GraphFacts
  <2>6. dist[p] \in Nat /\ dist[q] \in Nat /\ p \in Nat /\ q \in Nat
    BY <1>1, <1>5, <2>1, <2>4, <2>5, Constants DEF RecomputeTypeOK, Reached
  <2>7. ~Less(<<dist[q] + g.w[v], q>>, <<dist[p] + g.w[v], p>>)
    BY <2>4, <2>5, <2>6 DEF Less
  <2> QED BY <1>1, <1>2, <2>3, <2>4, <2>7 DEF NotImprovedBy
<1>6. \A v \in Node \ {Source} : dist[v] = Inf => parent[v] = NoParent
  BY <1>2 DEF CanonicalTree, Reached
<1>7. dist[Source] = 0 /\ parent[Source] = NoParent
  BY <1>2 DEF CanonicalTree
<1> QED BY <1>1, <1>2, <1>4, <1>5, <1>6, <1>7 DEF TreeBeforeBatch

\* A batch.
LEMMA BatchKeeps ==
  ASSUME UInv, NEW g \in Graphs, NEW created \in SUBSET g.live, ApplyBatch(g, created)
  PROVE  UInv'
<1> USE DEF ApplyBatch, MayFollow, NetDelta
<1>1. TypeOK' /\ DeltaOK' /\ pc' = "ready" /\ pc = "idle"
  BY BatchKeepsTypes, BatchDelta
<1>2. converged' => TreeBeforeBatch'
  BY BatchLeavesTree DEF recomputeVars
<1>3. ListsOK' /\ WarpsOK' /\ best' = Blank'
  BY DEF UInv, ListsOK, FrontierWithoutDuplicates, WarpsOK, listVars, recomputeVars, Blank, PackedInf
<1> QED BY <1>1, <1>2, <1>3
        DEF UInv, TreeIsCanonical, Relaxing, NoStaleWord, NoLostImprovement

-----------------------------------------------------------------------------
(***************************************************************************)
(* The marking phase.                                                      *)
(***************************************************************************)

\* Before the first jump every pointer is the parent and the roots are marked.
LEMMA BeginUpdateJumping ==
  ASSUME UInv, BeginUpdate
  PROVE  Jumping'
<1> USE DEF BeginUpdate
<1>1. packed' = PackState' /\ Roots' = Roots /\ inv' = Roots
  BY DEF recomputeVars, batchVars, PackState, Pack, PackedInf, Roots, DeletedTreeEdge, TreeParent
<1>2. \A v \in Node : jump'[v] = TreeParent(packed'[v])
  OBVIOUS
<1>3. \A v \in inv' : SubtreeOfRoot(v)'
  BY <1>1 DEF SubtreeOfRoot
<1>4. ASSUME NEW v \in Node \ inv'
      PROVE  \E C \in SUBSET Node : PathTo(v, C)'
  <2>1. PathTo(v, {v})'
    BY <1>1, <1>2, <1>4 DEF PathTo, TreeParent
  <2> QED BY <2>1
<1>5. ASSUME NEW v \in Node, NEW C \in SUBSET Node, v \in C, ParentClosed(C)'
      PROVE  jump'[v] \in C \cup {NoParent}
  BY <1>2, <1>5 DEF ParentClosed, TreeParent
<1> QED BY <1>1, <1>3, <1>4, <1>5 DEF Jumping, NoParent

\* The update begins.
LEMMA BeginUpdateKeeps ==
  ASSUME UInv, BeginUpdate
  PROVE  UInv'
<1>1. TypeOK' /\ pc' = "jump" /\ pc = "ready" /\ graph' = graph
  BY MarkingKeepsTypes, DeadRowsEmpty DEF BeginUpdate, UInv, TypeOK
<1>2. DeltaOK' /\ ListsOK' /\ WarpsOK' /\ best' = Blank'
  BY <1>1 DEF BeginUpdate, UInv, DeltaOK, ListsOK, FrontierWithoutDuplicates, WarpsOK, listVars,
     batchVars, recomputeVars, Blank, PackedInf
<1>3. converged' => TreeBeforeBatch'
  <2>1. UNCHANGED <<dist, parent, delta, converged>> /\ Roots' = Roots
    BY DEF BeginUpdate, recomputeVars, batchVars, PackState, Pack, PackedInf, Roots,
       DeletedTreeEdge, TreeParent
  <2>2. \A v, q \in Node : /\ StillHangs(v)' <=> StillHangs(v)
                           /\ NotImprovedBy(v, q)' <=> NotImprovedBy(v, q)
                           /\ Inserted(q, v)' <=> Inserted(q, v)
    BY <1>1, <2>1 DEF StillHangs, NotImprovedBy, Inserted
  <2>3. \A v \in Node : graph.adj[v] \subseteq Node
    BY GraphFacts DEF UInv, TypeOK, RecomputeTypeOK
  <2> QED BY <1>1, <2>1, <2>2, <2>3 DEF UInv, TreeBeforeBatch
<1>4. ~overflow' => \A v \in Node : dist'[v] = Inf \/ dist'[v] < Limit
  BY BoundsAssumption DEF BeginUpdate, recomputeVars, Reached, UInv, TypeOK, RecomputeTypeOK
<1> QED BY <1>1, <1>2, <1>3, <1>4, BeginUpdateJumping
        DEF UInv, TreeIsCanonical, Relaxing, NoStaleWord, NoLostImprovement, BeginUpdate

\* The sets of one launch of jumpKernel.
JumpMarked == {v \in Node : ~Halted(v) /\ jump[v] \in inv}
JumpMoved == {v \in Node : ~Halted(v) /\ jump[v] \notin inv}

\* What one launch does, in the form the proofs use.
LEMMA JumpRoundFacts ==
  ASSUME UInv, JumpRound
  PROVE  /\ pc = "jump" /\ Jumping
         /\ inv' = inv \cup JumpMarked
         /\ \A v \in Node : jump'[v] = IF v \in JumpMoved THEN jump[jump[v]] ELSE NoParent
         /\ \A v \in JumpMarked \cup JumpMoved : jump[v] \in Node /\ v \notin inv
         /\ UNCHANGED <<packed, Roots, PackState>>
         /\ pc' \in {"jump", "marked", "giveup"}
         /\ pc' = "marked" => \A v \in Node : jump'[v] = NoParent
<1>1. pc = "jump" /\ Jumping
  BY DEF JumpRound, UInv
<1>2. inv' = inv \cup JumpMarked
  BY DEF JumpRound, JumpMarked
<1>3. \A v \in Node : jump'[v] = IF v \in JumpMoved THEN jump[jump[v]] ELSE NoParent
  BY DEF JumpRound, JumpMoved
<1>4. \A v \in JumpMarked \cup JumpMoved : jump[v] \in Node /\ v \notin inv
  BY WordFacts DEF JumpMarked, JumpMoved, Halted, UInv, TypeOK
<1>5. UNCHANGED <<packed, Roots, PackState>>
  BY DEF JumpRound, recomputeVars, batchVars, PackState, Pack, PackedInf, Roots,
     DeletedTreeEdge, TreeParent
<1>6. pc' \in {"jump", "marked", "giveup"}
  BY DEF JumpRound
<1>7. ASSUME pc' = "marked"
      PROVE  \A v \in Node : jump'[v] = NoParent
  <2>1. ~\E v \in JumpMoved : jump[jump[v]] # NoParent
    BY <1>7 DEF JumpRound, JumpMoved
  <2> QED BY <1>3, <2>1
<1> QED BY <1>1, <1>2, <1>3, <1>4, <1>5, <1>6, <1>7

\* One launch: marks stay sound, paths concatenate, pointers climb.
LEMMA JumpRoundJumping ==
  ASSUME UInv, JumpRound
  PROVE  Jumping'
<1> USE JumpRoundFacts
<1>1. packed' = PackState' /\ Roots' \subseteq inv'
  BY DEF Jumping
<1>2. \A C : ParentClosed(C)' <=> ParentClosed(C)
  BY DEF ParentClosed, TreeParent, PackedInf
<1>3. \A v \in Node : SubtreeOfRoot(v)' <=> SubtreeOfRoot(v)
  BY <1>2 DEF SubtreeOfRoot
<1>4. ASSUME NEW v \in JumpMarked
      PROVE  SubtreeOfRoot(v)
  <2>1. v \in Node /\ jump[v] \in Node /\ SubtreeOfRoot(jump[v]) /\ jump[v] # NoParent
    BY <1>4, Constants DEF JumpMarked, Jumping
  <2> QED BY <2>1 DEF SubtreeOfRoot, Jumping
<1>5. \A v \in inv' : SubtreeOfRoot(v)'
  BY <1>3, <1>4 DEF Jumping, UInv, TypeOK, JumpMarked
<1>6. ASSUME NEW v \in Node \ inv'
      PROVE  \E C \in SUBSET Node : PathTo(v, C)'
  <2>1. PICK C \in SUBSET Node : PathTo(v, C)
    BY <1>6 DEF Jumping
  <2>2. CASE v \in JumpMoved
    <3>1. jump[v] \in Node \ inv
      BY <2>2 DEF JumpMoved
    <3>2. PICK D \in SUBSET Node : PathTo(jump[v], D)
      BY <3>1 DEF Jumping
    <3>3. PathTo(v, C \cup D)'
      BY <2>1, <2>2, <3>2 DEF PathTo, TreeParent, PackedInf
    <3> QED BY <3>3
  <2>3. CASE v \notin JumpMoved
    <3>1. jump[v] = NoParent
      BY <1>6, <2>3 DEF JumpMoved, JumpMarked, Halted
    <3> QED BY <2>1, <2>3, <3>1 DEF PathTo, TreeParent, PackedInf
  <2> QED BY <2>2, <2>3
<1>7. ASSUME NEW v \in Node, NEW C \in SUBSET Node, v \in C, ParentClosed(C)'
      PROVE  jump'[v] \in C \cup {NoParent}
  <2>1. CASE v \in JumpMoved
    <3>1. jump[v] \in C /\ jump[v] \in Node
      BY <1>2, <1>7, <2>1, Constants DEF Jumping
    <3>2. jump[jump[v]] \in C \cup {NoParent}
      BY <1>2, <1>7, <3>1 DEF Jumping
    <3> QED BY <2>1, <3>2
  <2> QED BY <2>1
<1> QED BY <1>1, <1>5, <1>6, <1>7 DEF Jumping, NoParent

\* When every pointer has run out, the marked nodes are the subtrees of the roots.
LEMMA AllPointersOut ==
  ASSUME TypeOK', Jumping', \A v \in Node : jump'[v] = NoParent
  PROVE  Marked' /\ inv' = {v \in Node : SubtreeOfRoot(v)'}
<1>1. ASSUME NEW v \in Node \ inv'
      PROVE  ~SubtreeOfRoot(v)'
  <2>1. PICK C \in SUBSET Node : PathTo(v, C)'
    BY DEF Jumping
  <2>2. ParentClosed(C)' /\ (C \cap Roots = {})' /\ v \in C
    BY <2>1 DEF PathTo, ParentClosed, NoParent
  <2> QED BY <2>2 DEF SubtreeOfRoot
<1>2. inv' = {v \in Node : SubtreeOfRoot(v)'}
  BY <1>1 DEF Jumping, TypeOK
<1>3. ASSUME NEW v \in Node, TreeParent(packed[v])' \in inv'
      PROVE  v \in inv'
  <2>1. SubtreeOfRoot(TreeParent(packed[v]))' /\ TreeParent(packed[v])' # NoParent
    BY <1>2, <1>3, Constants DEF SubtreeOfRoot
  <2>2. SubtreeOfRoot(v)'
    BY <2>1 DEF SubtreeOfRoot, ParentClosed, NoParent
  <2> QED BY <1>2, <2>2
<1> QED BY <1>2, <1>3 DEF Marked, Jumping

\* One launch of jumpKernel and the host's test.
LEMMA JumpRoundKeeps ==
  ASSUME UInv, JumpRound
  PROVE  UInv'
<1>1. TypeOK' /\ pc = "jump" /\ pc' \in {"jump", "marked", "giveup"} /\ UNCHANGED <<packed, Roots>>
  BY MarkingKeepsTypes, JumpRoundFacts
<1>2. UNCHANGED <<graph, dist, parent, delta, converged, overflow, best, todo, unread, threads,
                  lanes, word, next, nextLen, stamp, epoch>>
  BY DEF JumpRound, recomputeVars, batchVars, listVars, counterVars
<1>3. DeltaOK' /\ ListsOK' /\ WarpsOK' /\ best' = Blank'
  BY <1>1, <1>2 DEF UInv, DeltaOK, ListsOK, FrontierWithoutDuplicates, WarpsOK, Blank, PackedInf
<1>4. converged' => TreeBeforeBatch'
  <2>1. \A v, q \in Node : /\ StillHangs(v)' <=> StillHangs(v)
                           /\ NotImprovedBy(v, q)' <=> NotImprovedBy(v, q)
                           /\ Inserted(q, v)' <=> Inserted(q, v)
    BY <1>2 DEF StillHangs, NotImprovedBy, Inserted
  <2>2. \A v \in Node : graph.adj[v] \subseteq Node
    BY GraphFacts DEF UInv, TypeOK, RecomputeTypeOK
  <2> QED BY <1>1, <1>2, <2>1, <2>2 DEF UInv, TreeBeforeBatch
<1>5. ~overflow' => \A v \in Node : dist'[v] = Inf \/ dist'[v] < Limit
  BY <1>1, <1>2 DEF UInv
<1>6. Jumping'
  BY JumpRoundJumping
<1>7. pc' = "marked" => \A v \in Node : jump'[v] = NoParent
  BY JumpRoundFacts
<1>8. pc' = "marked" => Marked' /\ SubtreesMarked'
  BY <1>1, <1>6, <1>7, AllPointersOut DEF TypeOK, SubtreesMarked
<1> QED BY <1>1, <1>3, <1>4, <1>5, <1>6, <1>8
        DEF UInv, TreeIsCanonical, Relaxing, NoStaleWord, NoLostImprovement, SubtreesMarked

\* A distance below the limit is packed exactly.
LEMMA PackExact ==
  ASSUME RecomputeTypeOK, NEW v \in Node, dist[v] # Inf, dist[v] < Limit
  PROVE  PackState[v] = <<dist[v], parent[v]>> /\ PackState[v] # PackedInf
<1>1. ASSUME NEW d \in Nat, d < Limit
      PROVE  d % (Limit + 1) = d
  BY <1>1, BoundsAssumption
<1>2. dist[v] \in Nat
  BY DEF RecomputeTypeOK
<1>3. dist[v] % (Limit + 1) = dist[v]
  BY <1>1, <1>2
<1> QED BY <1>2, <1>3, BoundsAssumption DEF PackState, Pack, PackedInf

(***************************************************************************)
(* After invalidation the finite words are the old ones outside the        *)
(* marked subtrees; their parents are outside too.                         *)
(***************************************************************************)
LEMMA InvalidateFacts ==
  ASSUME UInv, Invalidate, ~overflow, converged
  PROVE  /\ TreeBeforeBatch /\ Marked /\ Source \notin inv
         /\ \A v \in Node : dist[v] # Inf => PackState[v] = <<dist[v], parent[v]>> /\ PackState[v] # PackedInf
         /\ \A v \in Node : packed'[v] = IF v \in inv \/ dist[v] = Inf THEN PackedInf
                                         ELSE <<dist[v], parent[v]>>
         /\ packed'[Source] = <<0, NoParent>>
<1>1. pc = "marked" /\ RecomputeTypeOK
  BY DEF Invalidate, UInv, TypeOK
<1>2. TreeBeforeBatch /\ Marked /\ SubtreesMarked /\ \A v \in Node : dist[v] = Inf \/ dist[v] < Limit
  BY <1>1 DEF UInv
<1>3. \A v \in Node : dist[v] # Inf => PackState[v] = <<dist[v], parent[v]>> /\ PackState[v] # PackedInf
  BY <1>1, <1>2, PackExact
<1>4. PackState[Source] = <<0, NoParent>> /\ PackState[Source] # PackedInf
  BY <1>2, <1>3, Constants DEF TreeBeforeBatch
<1>5. Source \notin inv
  <2>1. TreeParent(packed[Source]) = NoParent
    BY <1>2, <1>4 DEF Marked, TreeParent
  <2>2. Source \notin Roots
    BY <1>1, <1>2, <1>4, <2>1, Constants DEF UInv, DeltaOK, Roots, DeletedTreeEdge, Marked
  <2>3. ParentClosed({Source}) /\ {Source} \cap Roots = {} /\ {Source} \in SUBSET Node
    BY <2>1, <2>2, Constants DEF ParentClosed
  <2>4. ~SubtreeOfRoot(Source)
    BY <2>3 DEF SubtreeOfRoot
  <2> QED BY <1>1, <1>2, <2>4 DEF SubtreesMarked
<1>6. \A v \in Node : dist[v] = Inf => PackState[v] = PackedInf
  BY DEF PackState
<1>7. \A v \in Node : packed'[v] = IF v \in inv \/ dist[v] = Inf THEN PackedInf
                                   ELSE <<dist[v], parent[v]>>
  BY <1>2, <1>3, <1>5, <1>6 DEF Invalidate, Marked
<1>8. packed'[Source] = <<0, NoParent>>
  <2>1. Source \in Node /\ dist[Source] = 0 /\ parent[Source] = NoParent /\ dist[Source] # Inf
    BY <1>2, Constants DEF TreeBeforeBatch
  <2> QED BY <1>5, <1>7, <2>1
<1> QED BY <1>2, <1>3, <1>5, <1>7, <1>8

\* Outside the marked subtrees every word is still justified.
LEMMA InvalidateNoStale ==
  ASSUME UInv, Invalidate, ~overflow, converged, NEW v \in Node \ {Source}
  PROVE  JustifiedBy(v, packed[v])'
<1> USE InvalidateFacts
<1>1. SUFFICES ASSUME packed'[v] # PackedInf
               PROVE  /\ packed'[v][2] \in graph.adj[v] /\ packed'[packed'[v][2]] # PackedInf
                      /\ packed'[v][1] >= packed'[packed'[v][2]][1] + graph.w[v]
  BY DEF JustifiedBy, Invalidate, PackedInf, NoParent
<1>2. v \notin inv /\ dist[v] # Inf /\ packed'[v] = <<dist[v], parent[v]>>
  BY <1>1
<1>3. StillHangs(v)
  BY <1>2 DEF TreeBeforeBatch, Marked
<1> DEFINE p == parent[v]
<1>4. p \in graph.adj[v] /\ p \in Node /\ dist[p] # Inf /\ dist[v] = dist[p] + graph.w[v]
  BY <1>3, GraphFacts DEF StillHangs, UInv, TypeOK, RecomputeTypeOK
<1>5. TreeParent(packed[v]) = p
  BY <1>2, <1>4, PackedParent DEF Marked, UInv, TypeOK
<1>6. p \notin inv
  BY <1>2, <1>5 DEF Marked
<1>7. packed'[p] = <<dist[p], parent[p]>> /\ packed'[p] # PackedInf
  BY <1>4, <1>6 DEF Marked
<1>8. dist[v] \in Nat
  BY <1>2 DEF UInv, TypeOK, RecomputeTypeOK
<1> QED BY <1>2, <1>4, <1>7, <1>8

\* What could improve is ahead: as a pull of a marked node or as an inserted pair.
LEMMA InvalidateNoLost ==
  ASSUME UInv, Invalidate, ~overflow, converged, NEW u \in Node, NEW v \in Node, Improves(u, v)'
  PROVE  Covered(u, v)'
<1> USE InvalidateFacts
<1>1. v \in graph.adj[u] /\ v # Source /\ packed'[u] # PackedInf
      /\ (packed'[v] = PackedInf \/ Less(Offer(packed[u], u, v)', packed'[v]))
  BY DEF Improves, Invalidate, PackedInf, NoParent
<1>2. CASE v \in inv
  <2>1. <<v, u>> \in unread' /\ v \in todo' /\ pc' = "pull"
    BY <1>1, <1>2, GraphFacts DEF Invalidate, RowReads, UInv, TypeOK, RecomputeTypeOK
  <2> QED BY <2>1 DEF Covered, InPull
<1>3. CASE v \notin inv
  <2>1. dist[u] # Inf /\ u \in graph.adj[v] /\ packed'[u] = <<dist[u], parent[u]>>
    BY <1>1, GraphFacts DEF UInv, TypeOK, RecomputeTypeOK
  <2>2. v \notin Roots
    BY <1>3 DEF Marked
  <2>3. Inserted(u, v) \/ NotImprovedBy(v, u)
    BY <1>1, <2>1, <2>2 DEF TreeBeforeBatch
  <2>4. CASE Inserted(u, v)
    BY <2>4 DEF Covered, InsertionAhead, Inserted, Invalidate, batchVars
  <2>5. CASE NotImprovedBy(v, u)
    <3>1. dist[v] # Inf /\ packed'[v] = <<dist[v], parent[v]>> /\ packed'[v] # PackedInf
      BY <1>3, <2>5 DEF NotImprovedBy, Marked
    <3>2. Offer(packed[u], u, v)' = <<dist[u] + graph.w[v], u>>
      BY <2>1 DEF Offer, Invalidate
    <3> QED BY <1>1, <2>5, <3>1, <3>2 DEF NotImprovedBy
  <2> QED BY <2>3, <2>4, <2>5
<1> QED BY <1>2, <1>3

\* The marked nodes are invalidated and the pull starts.
LEMMA InvalidateKeeps ==
  ASSUME UInv, Invalidate
  PROVE  UInv'
<1> USE DEF Invalidate
<1>1. TypeOK' /\ pc = "marked" /\ pc' = "pull"
  BY MarkingKeepsTypes
<1>2. WarpsOK' /\ best' = Blank' /\ DeltaOK'
  BY DEF UInv, WarpsOK, RowReads, DeltaOK, recomputeVars, batchVars, Blank, PackedInf
<1>3. ListsOK'
  <2>1. \A v \in Node : stamp[v] \in Nat /\ stamp[v] <= epoch /\ epoch \in Nat
    BY DEF UInv, TypeOK, ListsOK
  <2>2. \A v \in Node : stamp'[v] < epoch'
    BY <2>1
  <2>3. \A v \in Node : stamp'[v] <= epoch' /\ stamp'[v] # epoch'
    BY <2>1, <2>2
  <2> QED BY <1>1, <2>3, FS_EmptySet DEF ListsOK, FrontierWithoutDuplicates
<1>4. ASSUME ~overflow', converged'
      PROVE  /\ Words'
             /\ \A v \in Node \ {Source} : JustifiedBy(v, packed[v])'
             /\ \A u, v \in Node : Improves(u, v)' => Covered(u, v)'
  <2>1. ~overflow /\ converged
    BY <1>4 DEF counterVars, recomputeVars
  <2>2. \A v \in Node : word'[v] = PackedInf'
    BY <1>1 DEF UInv, WarpsOK, PackedInf, NoParent
  <2>3. Words'
    BY <1>1, <2>1, <2>2, InvalidateFacts DEF Words, UInv, WarpsOK, NoParent
  <2> QED BY <2>1, <2>3, InvalidateNoStale, InvalidateNoLost
<1> QED BY <1>1, <1>2, <1>3, <1>4
        DEF UInv, TreeIsCanonical, Relaxing, NoStaleWord, NoLostImprovement

-----------------------------------------------------------------------------
(***************************************************************************)
(* One relaxation, whoever makes it.                                       *)
(***************************************************************************)
RelaxContext(v, c) ==
  /\ TypeOK /\ v \in Node \ {Source} /\ c \in Word /\ c[1] < Limit
  /\ Relax(v, c) /\ graph' = graph

\* The word never grows, and ends at c or below.
LEMMA RelaxFacts ==
  ASSUME NEW v, NEW c, RelaxContext(v, c)
  PROVE  /\ \A x \in Node \ {v} : packed'[x] = packed[x]
         /\ packed'[v] = packed[v] \/ (packed'[v] = c /\ Less(c, packed[v]))
         /\ ~Less(c, packed'[v])
         /\ packed'[v] # PackedInf /\ c # PackedInf
         /\ packed' \in [Node -> Word]
<1> USE DEF RelaxContext
<1>1. packed \in [Node -> Word] /\ v \in Node
  BY DEF TypeOK
<1>2. c[1] \in Nat /\ c[2] \in 0 .. N /\ packed[v][1] \in Nat /\ packed[v][2] \in 0 .. N
  BY <1>1, WordFacts
<1>3. packed' \in [Node -> Word]
  BY RelaxTypeOK
<1>4. c # PackedInf /\ Less(c, PackedInf) /\ ~Less(c, c)
  BY <1>2, BoundsAssumption DEF PackedInf, Less
<1>5. CASE Less(c, packed[v])
  BY <1>1, <1>3, <1>4, <1>5 DEF Relax
<1>6. CASE ~Less(c, packed[v])
  BY <1>3, <1>4, <1>6 DEF Relax
<1> QED BY <1>5, <1>6

\* The stamps admit a node to its list once.
LEMMA RelaxKeepsLists ==
  ASSUME TypeOK, NEW v \in Node, NEW c \in Word, Relax(v, c), ListsOK,
         pc \in {"pull", "insert", "push"}, pc' = pc, epoch' = epoch
  PROVE  ListsOK' /\ next \subseteq next' /\ (packed'[v] # packed[v] => v \in next')
<1>1. /\ v \in Node /\ next \in SUBSET Node /\ nextLen = Cardinality(next)
      /\ stamp \in [Node -> Nat] /\ epoch \in Nat
      /\ \A x \in Node : stamp[x] <= epoch /\ (x \in next <=> stamp[x] = epoch)
  BY DEF ListsOK, FrontierWithoutDuplicates, TypeOK
<1>2. CASE Less(c, packed[v]) /\ stamp[v] < epoch
  <2>1. v \notin next /\ next' = next \cup {v} /\ nextLen' = nextLen + 1
        /\ stamp' = [stamp EXCEPT ![v] = epoch]
    BY <1>1, <1>2 DEF Relax, Enqueue
  <2>2. Cardinality(next') = Cardinality(next) + 1
    BY <1>1, <2>1, NodesFinite, FS_AddElement
  <2>3. \A x \in Node : stamp'[x] <= epoch' /\ (x \in next' <=> stamp'[x] = epoch')
    BY <1>1, <2>1
  <2> QED BY <1>1, <2>1, <2>2, <2>3 DEF ListsOK, FrontierWithoutDuplicates
<1>3. CASE Less(c, packed[v]) /\ ~(stamp[v] < epoch)
  <2>1. v \in next /\ UNCHANGED listVars
    BY <1>1, <1>3 DEF Relax, Enqueue
  <2> QED BY <2>1 DEF listVars, ListsOK, FrontierWithoutDuplicates
<1>4. CASE ~Less(c, packed[v])
  BY <1>4 DEF Relax, listVars, ListsOK, FrontierWithoutDuplicates
<1> QED BY <1>2, <1>3, <1>4

\* A word that was justified stays justified while its parent's word falls.
LEMMA RelaxKeepsJustified ==
  ASSUME NEW v, NEW c, RelaxContext(v, c),
         NEW x \in Node, NEW y \in Word, JustifiedBy(x, y)
  PROVE  JustifiedBy(x, y)'
<1> USE DEF RelaxContext
<1> SUFFICES ASSUME y # PackedInf
             PROVE  /\ y[2] \in graph.adj[x] /\ packed'[y[2]] # PackedInf
                    /\ y[1] >= packed'[y[2]][1] + graph.w[x]
  BY DEF JustifiedBy, PackedInf, NoParent
<1> DEFINE p == y[2]
<1>1. p \in graph.adj[x] /\ packed[p] # PackedInf /\ y[1] >= packed[p][1] + graph.w[x]
  BY DEF JustifiedBy
<1>2. p \in Node /\ graph.w[x] \in Nat /\ y[1] \in Nat
  BY <1>1, GraphFacts, WordFacts DEF TypeOK, RecomputeTypeOK
<1>3. packed[p][1] \in Nat /\ c[1] \in Nat /\ packed[p][2] \in Nat /\ c[2] \in Nat
  BY <1>2, WordFacts, NAssumption DEF TypeOK
<1>4. CASE packed'[p] = packed[p]
  BY <1>1, <1>4
<1>5. CASE packed'[p] # packed[p]
  <2>1. packed'[p] = c /\ Less(c, packed[p]) /\ c # PackedInf
    BY <1>2, <1>5, RelaxFacts
  <2>2. c[1] <= packed[p][1]
    BY <1>3, <2>1 DEF Less
  <2> QED BY <1>1, <1>2, <1>3, <2>1, <2>2
<1> QED BY <1>4, <1>5

\* What could still improve after a relaxation could before, with the same offer.
LEMMA RelaxKeepsImproving ==
  ASSUME NEW v, NEW c, RelaxContext(v, c), next \subseteq next',
         packed'[v] # packed[v] => v \in next',
         NEW x \in Node, NEW y \in Node, Improves(x, y)', x \notin next'
  PROVE  /\ Improves(x, y) /\ x \notin next /\ packed'[x] = packed[x]
         /\ Offer(packed[x], x, y)' = Offer(packed[x], x, y)
         /\ y = v => Less(Offer(packed[x], x, y), packed'[v])
<1> USE DEF RelaxContext
<1>1. packed'[x] = packed[x] /\ x \notin next
  BY RelaxFacts
<1>2. Offer(packed[x], x, y)' = Offer(packed[x], x, y)
  BY <1>1 DEF Offer
<1> DEFINE o == Offer(packed[x], x, y)
<1>3. /\ y \in graph.adj[x] \ {Source} /\ packed[x] # PackedInf
      /\ packed'[y] = PackedInf \/ Less(o, packed'[y])
  BY <1>1, <1>2 DEF Improves, PackedInf, NoParent
<1>4. o[1] \in Nat /\ o[2] \in Nat /\ c[1] \in Nat /\ c[2] \in Nat
  BY OfferFacts, WordFacts, Constants, NAssumption DEF TypeOK
<1>5. CASE y # v
  <2>1. packed'[y] = packed[y]
    BY <1>5, RelaxFacts
  <2> QED BY <1>1, <1>2, <1>3, <1>5, <2>1 DEF Improves
<1>6. CASE y = v
  <2>1. Less(o, packed'[v])
    BY <1>3, <1>6, RelaxFacts
  <2>2. CASE packed'[v] = packed[v]
    BY <1>1, <1>2, <1>3, <1>6, <2>1, <2>2 DEF Improves
  <2>3. CASE packed'[v] = c /\ Less(c, packed[v])
    <3>1. packed[v][1] \in Nat /\ packed[v][2] \in Nat
      BY WordFacts, NAssumption DEF TypeOK
    <3>2. Less(o, packed[v])
      BY <1>4, <2>1, <2>3, <3>1 DEF Less
    <3> QED BY <1>1, <1>2, <1>3, <1>6, <2>1, <3>2 DEF Improves
  <2> QED BY <2>2, <2>3, RelaxFacts
<1> QED BY <1>5, <1>6

\* Relaxing with a justified word leaves every word justified, and the source alone.
LEMMA RelaxKeepsWords ==
  ASSUME NEW v, NEW c, RelaxContext(v, c), JustifiedBy(v, c),
         \A x \in Node \ {Source} : JustifiedBy(x, packed[x])
  PROVE  /\ packed'[Source] = packed[Source]
         /\ \A x \in Node \ {Source} : JustifiedBy(x, packed[x])'
<1>1. packed'[Source] = packed[Source]
  BY RelaxFacts, Constants DEF RelaxContext
<1>2. ASSUME NEW x \in Node \ {Source}
      PROVE  JustifiedBy(x, packed[x])'
  <2>1. packed'[x] = packed[x] \/ (x = v /\ packed'[x] = c)
    BY RelaxFacts
  <2>2. packed[x] \in Word /\ c \in Word /\ JustifiedBy(x, packed[x])
    BY DEF RelaxContext, TypeOK
  <2>3. JustifiedBy(x, packed'[x])
    BY <2>1, <2>2
  <2>4. packed'[x] \in Word
    BY <2>1, <2>2
  <2>5. ASSUME NEW y \in Word, JustifiedBy(x, y)
        PROVE  JustifiedBy(x, y)'
    BY <2>5, RelaxKeepsJustified
  <2> QED BY <2>3, <2>4, <2>5 DEF JustifiedBy, PackedInf, NoParent
<1> QED BY <1>1, <1>2

-----------------------------------------------------------------------------
(***************************************************************************)
(* The accesses of the warps.                                              *)
(***************************************************************************)

\* The conjuncts of UInv that say something while the warps relax.
LEMMA RelaxingFacts ==
  ASSUME UInv, pc \in {"pull", "insert", "push"}
  PROVE  /\ TypeOK /\ RecomputeTypeOK /\ ListsOK /\ WarpsOK /\ best = Blank /\ DeltaOK
         /\ ~overflow /\ converged =>
              /\ Words
              /\ \A v \in Node \ {Source} : JustifiedBy(v, packed[v])
              /\ \A u, v \in Node : Improves(u, v) => Covered(u, v)
BY DEF UInv, TypeOK, Relaxing, NoStaleWord, NoLostImprovement

\* What a relaxing step has to show.
LEMMA RelaxingKeeps ==
  ASSUME TypeOK', pc' \in {"pull", "insert", "push"}, ListsOK', WarpsOK', best' = Blank', DeltaOK',
         ~overflow' /\ converged' =>
           /\ Words'
           /\ \A v \in Node \ {Source} : JustifiedBy(v, packed[v])'
           /\ \A u, v \in Node : Improves(u, v)' => Covered(u, v)'
  PROVE  UInv'
BY DEF UInv, TreeIsCanonical, Relaxing, NoStaleWord, NoLostImprovement

\* The offer of a neighbour is a justified word.
LEMMA OfferIsGood ==
  ASSUME TypeOK, NEW u \in Node, NEW v \in Node \ {Source}, u \in graph.adj[v],
         packed[u] # PackedInf, Fits(Offer(packed[u], u, v))
  PROVE  Good(v, Offer(packed[u], u, v))
<1>1. RecomputeTypeOK /\ packed \in [Node -> Word]
  BY DEF TypeOK
<1>2. /\ Offer(packed[u], u, v)[1] = packed[u][1] + graph.w[v]
      /\ Offer(packed[u], u, v)[2] = u /\ Offer(packed[u], u, v)[1] \in Nat
      /\ Offer(packed[u], u, v)[1] < Limit
  BY <1>1, OfferFacts
<1> QED BY <1>2 DEF Good, JustifiedBy

\* A pull warp reads one neighbour.
LEMMA InvalidatedReadKeeps ==
  ASSUME UInv, NEW v \in Node, NEW p \in Node, InvalidatedRead(v, p)
  PROVE  UInv'
<1> USE DEF InvalidatedRead
<1> DEFINE c == Offer(packed[p], p, v)
<1>1. /\ TypeOK /\ RecomputeTypeOK /\ ListsOK /\ WarpsOK /\ best = Blank /\ DeltaOK
      /\ TypeOK' /\ pc = "pull" /\ pc' = "pull"
  BY RelaxingFacts, RelaxingKeepsTypes
<1>2. UNCHANGED <<graph, packed, todo, next, nextLen, stamp, epoch, threads, lanes, best, delta, converged>>
  BY DEF recomputeVars, batchVars, listVars
<1>3. v \in todo /\ p \in graph.adj[v] /\ \A x \in Node \ {v} : word'[x] = word[x]
  BY <1>1 DEF WarpsOK, RowReads, TypeOK
<1>4. c[1] \in Nat /\ c[2] \in Nat /\ word[v][1] \in Nat /\ word[v][2] \in Nat
  BY <1>1, OfferFacts, WordFacts, Constants, NAssumption DEF TypeOK
<1>5. word'[v] = IF packed[p] # PackedInf /\ Fits(c) /\ Less(c, word[v]) THEN c ELSE word[v]
  BY <1>1 DEF TypeOK
<1>6. ListsOK' /\ DeltaOK' /\ best' = Blank'
  BY <1>1, <1>2 DEF ListsOK, FrontierWithoutDuplicates, DeltaOK, Blank
<1>7. WarpsOK'
  BY <1>1, <1>2, <1>3 DEF WarpsOK, RowReads, PackedInf, NoParent
<1>8. ASSUME ~overflow', converged'
      PROVE  /\ Words'
             /\ \A x \in Node \ {Source} : JustifiedBy(x, packed[x])'
             /\ \A x, y \in Node : Improves(x, y)' => Covered(x, y)'
  <2>1. /\ Words
        /\ packed[p] # PackedInf => Fits(c)
        /\ \A x \in Node \ {Source} : JustifiedBy(x, packed[x])
        /\ \A x, y \in Node : Improves(x, y) => Covered(x, y)
    BY <1>1, <1>2, <1>8, RelaxingFacts DEF TypeOK
  <2>2. \A x, y : JustifiedBy(x, y)' <=> JustifiedBy(x, y)
    BY <1>2 DEF JustifiedBy, PackedInf, NoParent
  <2>3. word'[v] # PackedInf => Good(v, word'[v])
    <3>1. v # Source /\ (word[v] # PackedInf => Good(v, word[v]))
      BY <1>1, <1>3, <2>1 DEF Words
    <3>2. packed[p] # PackedInf => Good(v, c)
      BY <1>1, <1>3, <2>1, <3>1, OfferIsGood
    <3> QED BY <1>5, <3>1, <3>2
  <2>4. Words'
    <3>1. ASSUME NEW x \in Node, word'[x] # PackedInf
          PROVE  Good(x, word[x])'
      <4>1. Good(x, word'[x])
        BY <1>3, <2>1, <2>3, <3>1 DEF Words
      <4> QED BY <2>2, <4>1 DEF Good
    <3>2. \A l \in lanes : Good(l[1], l[2])'
      BY <2>1, <2>2 DEF Words, Good
    <3> QED BY <1>1, <1>2, <2>1, <3>1, <3>2 DEF Words, PackedInf, NoParent
  <2>5. ASSUME NEW x \in Node, NEW y \in Node, Improves(x, y)'
        PROVE  Covered(x, y)'
    <3> DEFINE o == Offer(packed[x], x, y)
    <3>1. Improves(x, y) /\ Covered(x, y) /\ packed[x] # PackedInf /\ o' = o
      BY <1>2, <2>1, <2>5 DEF Improves, Offer, PackedInf, NoParent
    <3>2. CASE InPull(x, y) /\ y # v
      BY <1>1, <1>2, <1>3, <3>1, <3>2 DEF InPull, Covered
    <3>3. CASE InPull(x, y) /\ y = v /\ x = p
      <4>1. Fits(c) /\ ~Less(c, word'[v])
        <5>1. packed[p] # PackedInf /\ Fits(c)
          BY <2>1, <3>1, <3>3
        <5>2. ~Less(c, c)
          BY <1>4 DEF Less
        <5> QED BY <1>5, <5>1, <5>2
      <4>2. InPull(x, y)'
        BY <1>1, <1>2, <1>3, <3>1, <3>3, <4>1 DEF InPull, Offer
      <4> QED BY <4>2 DEF Covered
    <3>4. CASE InPull(x, y) /\ y = v /\ x # p
      <4>1. CASE <<v, x>> \in unread
        <5>1. <<v, x>> \in unread'
          BY <3>4, <4>1
        <5> QED BY <1>1, <1>2, <1>3, <3>4, <5>1 DEF InPull, Covered
      <4>2. CASE Fits(o) /\ ~Less(o, word[v])
        <5>1. o[1] \in Nat /\ o[2] \in Nat
          BY <1>1, OfferFacts, Constants DEF TypeOK
        <5>2. ~Less(o, word'[v])
          BY <1>4, <1>5, <4>2, <5>1 DEF Less
        <5>3. InPull(x, y)'
          BY <1>1, <1>2, <1>3, <3>1, <3>4, <4>2, <5>2 DEF InPull, Offer, Fits
        <5> QED BY <5>3 DEF Covered
      <4> QED BY <3>4, <4>1, <4>2 DEF InPull
    <3>5. CASE ~InPull(x, y)
      BY <1>1, <1>2, <3>1, <3>5 DEF Covered, InsertionAhead
    <3> QED BY <3>2, <3>3, <3>4, <3>5
  <2> QED BY <1>2, <2>1, <2>2, <2>4, <2>5
<1> QED BY <1>1, <1>6, <1>7, <1>8, RelaxingKeeps

\* A pull warp ends: its word is the least it saw, so nothing it saw still improves.
LEMMA InvalidatedRelaxKeeps ==
  ASSUME UInv, NEW v \in Node, InvalidatedRelax(v)
  PROVE  UInv'
<1> USE DEF InvalidatedRelax
<1> DEFINE c == word[v]
<1>1. /\ TypeOK /\ RecomputeTypeOK /\ ListsOK /\ WarpsOK /\ best = Blank /\ DeltaOK
      /\ TypeOK' /\ pc = "pull" /\ pc' = "pull"
  BY RelaxingFacts, RelaxingKeepsTypes
<1>2. UNCHANGED <<graph, unread, epoch, threads, lanes, best, delta, converged, overflow>>
  BY DEF recomputeVars, batchVars
<1>3. \A x \in Node \ {v} : word'[x] = word[x]
  BY <1>1 DEF TypeOK
<1>4. word'[v] = PackedInf
  BY <1>1 DEF TypeOK
<1>5. DeltaOK' /\ best' = Blank'
  BY <1>1, <1>2 DEF DeltaOK, Blank
<1>6. WarpsOK'
  BY <1>1, <1>2, <1>3, <1>4 DEF WarpsOK, RowReads, PackedInf, NoParent
<1>7. ASSUME c # PackedInf
      PROVE  c \in Word /\ Relax(v, c)
  BY <1>1, <1>7 DEF TypeOK
<1>8. ListsOK' /\ next \subseteq next' /\ (packed'[v] # packed[v] => v \in next')
  <2>1. CASE c # PackedInf
    BY <1>1, <1>2, <1>7, <2>1, RelaxKeepsLists
  <2>2. CASE c = PackedInf
    BY <1>1, <1>2, <2>2 DEF listVars, ListsOK, FrontierWithoutDuplicates
  <2> QED BY <2>1, <2>2
<1>9. ASSUME ~overflow', converged'
      PROVE  /\ Words'
             /\ \A x \in Node \ {Source} : JustifiedBy(x, packed[x])'
             /\ \A x, y \in Node : Improves(x, y)' => Covered(x, y)'
  <2>1. /\ Words
        /\ \A x \in Node \ {Source} : JustifiedBy(x, packed[x])
        /\ \A x, y \in Node : Improves(x, y) => Covered(x, y)
    BY <1>1, <1>2, <1>9, RelaxingFacts
  <2>2. v \in Node \ {Source} /\ (c # PackedInf => Good(v, c))
    BY <1>1, <2>1 DEF Words
  <2>3. c # PackedInf => RelaxContext(v, c)
    BY <1>1, <1>2, <1>7, <2>2 DEF RelaxContext, Good
  <2>4. CASE c = PackedInf
    <3>1. UNCHANGED <<packed, next, stamp>> /\ word' = word
      BY <1>1, <1>4, <2>4 DEF listVars, TypeOK
    <3>2. \A x, y : JustifiedBy(x, y)' <=> JustifiedBy(x, y)
      BY <1>2, <3>1 DEF JustifiedBy, PackedInf, NoParent
    <3>3. Words'
      BY <1>1, <1>2, <2>1, <3>1, <3>2 DEF Words, Good, PackedInf, NoParent
    <3>4. ASSUME NEW x \in Node, NEW y \in Node, Improves(x, y)'
          PROVE  Covered(x, y)'
      <4>1. Improves(x, y) /\ Covered(x, y)
        BY <1>2, <2>1, <3>1, <3>4 DEF Improves, Offer, PackedInf, NoParent
      <4>2. Offer(packed[x], x, y)[1] \in Nat
        BY <1>1, OfferFacts DEF TypeOK
      <4>3. y = v => ~InPull(x, y)
        BY <2>4, <4>2 DEF InPull, Fits, Less, PackedInf
      <4> QED BY <1>1, <1>2, <3>1, <4>1, <4>3
              DEF Covered, InPull, InsertionAhead, Offer, Fits, batchVars
    <3> QED BY <1>2, <2>1, <3>1, <3>2, <3>3, <3>4
  <2>5. CASE c # PackedInf
    <3>1. RelaxContext(v, c) /\ JustifiedBy(v, c)
      BY <1>1, <1>2, <1>7, <2>2, <2>5 DEF RelaxContext, Good
    <3>2. /\ packed'[Source] = packed[Source]
          /\ \A x \in Node \ {Source} : JustifiedBy(x, packed[x])'
      BY <2>1, <3>1, RelaxKeepsWords
    <3>3. Words'
      <4>1. ASSUME NEW x \in Node, word'[x] # PackedInf
            PROVE  Good(x, word[x])'
        <5>1. Good(x, word[x]) /\ word'[x] = word[x] /\ word[x] \in Word
          BY <1>1, <1>3, <1>4, <2>1, <4>1 DEF Words, TypeOK
        <5> QED BY <3>1, <5>1, RelaxKeepsJustified DEF Good
      <4> QED BY <1>1, <1>2, <2>1, <3>2, <4>1 DEF Words, WarpsOK, PackedInf, NoParent
    <3>4. ASSUME NEW x \in Node, NEW y \in Node, Improves(x, y)'
          PROVE  Covered(x, y)'
      <4> DEFINE o == Offer(packed[x], x, y)
      <4>1. CASE x \in next'
        BY <4>1 DEF Covered
      <4>2. CASE x \notin next'
        <5>1. /\ Improves(x, y) /\ x \notin next /\ packed'[x] = packed[x] /\ o' = o
              /\ y = v => Less(o, packed'[v])
          BY <1>8, <3>1, <3>4, <4>2, RelaxKeepsImproving
        <5>2. Covered(x, y)
          BY <2>1, <5>1
        <5>3. y = v => ~InPull(x, y)
          <6>1. SUFFICES ASSUME y = v, InPull(x, y) PROVE FALSE
            OBVIOUS
          <6>2. ~Less(o, c) /\ ~Less(c, packed'[v]) /\ Less(o, packed'[v])
            BY <3>1, <5>1, <6>1, RelaxFacts DEF InPull
          <6>3. o[1] \in Nat /\ o[2] \in Nat
            BY <1>1, OfferFacts, Constants DEF TypeOK
          <6>4. c[1] \in Nat /\ c[2] \in Nat /\ packed'[v][1] \in Nat /\ packed'[v][2] \in Nat
            BY <1>7, <2>2, <2>5, <3>1, RelaxFacts, WordFacts, NAssumption
          <6> QED BY <6>2, <6>3, <6>4 DEF Less
        <5>4. InPull(x, y) => InPull(x, y)'
          BY <1>1, <1>2, <1>3, <5>1, <5>3 DEF InPull, Fits
        <5> QED BY <1>1, <1>2, <5>1, <5>2, <5>4 DEF Covered, InsertionAhead
      <4> QED BY <4>1, <4>2
    <3> QED BY <3>2, <3>3, <3>4
  <2> QED BY <2>4, <2>5
<1> QED BY <1>1, <1>5, <1>6, <1>8, <1>9, RelaxingKeeps

\* A thread of an inserted pair loads a word.
LEMMA InsertedLoadKeeps ==
  ASSUME UInv, NEW u \in Node, NEW v \in Node, InsertedLoad(u, v)
  PROVE  UInv'
<1> USE DEF InsertedLoad
<1> DEFINE c == Offer(packed[u], u, v)
<1>1. /\ TypeOK /\ RecomputeTypeOK /\ ListsOK /\ WarpsOK /\ best = Blank /\ DeltaOK
      /\ TypeOK' /\ pc = "insert" /\ pc' = "insert"
  BY RelaxingFacts, RelaxingKeepsTypes
<1>2. UNCHANGED <<graph, packed, todo, unread, next, nextLen, stamp, epoch, word, best, delta, converged>>
  BY DEF recomputeVars, batchVars, listVars
<1>3. ListsOK' /\ DeltaOK' /\ best' = Blank'
  BY <1>1, <1>2 DEF ListsOK, FrontierWithoutDuplicates, DeltaOK, Blank
<1>4. WarpsOK'
  BY <1>1, <1>2 DEF WarpsOK, RowReads, PackedInf, NoParent
<1>5. ASSUME ~overflow', converged'
      PROVE  /\ Words'
             /\ \A x \in Node \ {Source} : JustifiedBy(x, packed[x])'
             /\ \A x, y \in Node : Improves(x, y)' => Covered(x, y)'
  <2>1. /\ Words
        /\ (v # Source /\ packed[u] # PackedInf) => Fits(c)
        /\ \A x \in Node \ {Source} : JustifiedBy(x, packed[x])
        /\ \A x, y \in Node : Improves(x, y) => Covered(x, y)
    BY <1>1, <1>2, <1>5, RelaxingFacts DEF TypeOK
  <2>2. \A x, y : JustifiedBy(x, y)' <=> JustifiedBy(x, y)
    BY <1>2 DEF JustifiedBy, PackedInf, NoParent
  <2>3. v \in graph.adj[u] /\ u \in graph.adj[v]
    BY <1>1, <2>1, GraphFacts DEF Words, RecomputeTypeOK
  <2>4. v # Source /\ packed[u] # PackedInf => Good(v, c)
    BY <1>1, <2>1, <2>3, OfferIsGood
  <2>5. \A l \in lanes' : Good(l[1], l[2])'
    BY <2>1, <2>2, <2>4 DEF Words, Good
  <2>6. Words'
    BY <1>1, <1>2, <2>1, <2>2, <2>5 DEF Words, WarpsOK, PackedInf, NoParent
  <2>7. ASSUME NEW x \in Node, NEW y \in Node, Improves(x, y)'
        PROVE  Covered(x, y)'
    <3>1. /\ Improves(x, y) /\ Covered(x, y) /\ packed[x] # PackedInf /\ y # Source
          /\ Offer(packed[x], x, y)' = Offer(packed[x], x, y)
      BY <1>2, <2>1, <2>7 DEF Improves, Offer, PackedInf, NoParent
    <3>2. CASE x = u /\ y = v
      BY <2>1, <3>1, <3>2 DEF Covered
    <3>3. CASE ~(x = u /\ y = v)
      <4>1. <<x, y>> \in threads => <<x, y>> \in threads'
        BY <3>3
      <4>2. lanes \subseteq lanes'
        OBVIOUS
      <4> QED BY <1>1, <1>2, <3>1, <4>1, <4>2 DEF Covered, InsertionAhead, InPull
    <3> QED BY <3>2, <3>3
  <2> QED BY <2>1, <1>2, <2>2, <2>6, <2>7
<1> QED BY <1>1, <1>3, <1>4, <1>5, RelaxingKeeps

\* A push warp loads its word and builds its lanes.
LEMMA PushLoadKeeps ==
  ASSUME UInv, NEW u \in Node, PushLoad(u)
  PROVE  UInv'
<1> USE DEF PushLoad
<1>1. /\ TypeOK /\ RecomputeTypeOK /\ ListsOK /\ WarpsOK /\ best = Blank /\ DeltaOK
      /\ TypeOK' /\ pc = "push" /\ pc' = "push"
  BY RelaxingFacts, RelaxingKeepsTypes
<1>2. UNCHANGED <<graph, packed, unread, next, nextLen, stamp, epoch, threads, word, best, delta, converged>>
  BY DEF recomputeVars, batchVars, listVars
<1>3. ListsOK' /\ DeltaOK' /\ best' = Blank'
  BY <1>1, <1>2 DEF ListsOK, FrontierWithoutDuplicates, DeltaOK, Blank
<1>4. WarpsOK'
  BY <1>1, <1>2 DEF WarpsOK, RowReads, PackedInf, NoParent
<1>5. ASSUME ~overflow', converged'
      PROVE  /\ Words'
             /\ \A x \in Node \ {Source} : JustifiedBy(x, packed[x])'
             /\ \A x, y \in Node : Improves(x, y)' => Covered(x, y)'
  <2>1. /\ Words
        /\ \A v \in Receivers(u) : Fits(Offer(packed[u], u, v))
        /\ \A x \in Node \ {Source} : JustifiedBy(x, packed[x])
        /\ \A x, y \in Node : Improves(x, y) => Covered(x, y)
    <3>1. ~overflow /\ converged
      BY <1>1, <1>2, <1>5 DEF TypeOK
    <3>2. ASSUME NEW v \in Receivers(u)
          PROVE  Fits(Offer(packed[u], u, v))
      <4>1. <<v, Offer(packed[u], u, v)>>[2] = Offer(packed[u], u, v)
        OBVIOUS
      <4> QED BY <1>5, <4>1
    <3> QED BY <1>1, <3>1, <3>2, RelaxingFacts
  <2>2. \A x, y : JustifiedBy(x, y)' <=> JustifiedBy(x, y)
    BY <1>2 DEF JustifiedBy, PackedInf, NoParent
  <2>3. ASSUME NEW v \in Receivers(u)
        PROVE  Good(v, Offer(packed[u], u, v))
    <3>1. v \in Node \ {Source} /\ u \in graph.adj[v] /\ packed[u] # PackedInf
      BY <1>1, GraphFacts DEF Receivers, RecomputeTypeOK
    <3> QED BY <1>1, <2>1, <3>1, OfferIsGood
  <2>4. \A l \in lanes' : l \in lanes \/ \E v \in Receivers(u) : l = <<v, Offer(packed[u], u, v)>>
    OBVIOUS
  <2>5. \A l \in lanes' : Good(l[1], l[2])
    BY <2>1, <2>3, <2>4 DEF Words
  <2>6. Words'
    BY <1>1, <1>2, <2>1, <2>2, <2>5 DEF Words, WarpsOK, Good, PackedInf, NoParent
  <2>7. ASSUME NEW x \in Node, NEW y \in Node, Improves(x, y)'
        PROVE  Covered(x, y)'
    <3>1. /\ Improves(x, y) /\ Covered(x, y)
          /\ Offer(packed[x], x, y)' = Offer(packed[x], x, y)
      BY <1>2, <2>1, <2>7 DEF Improves, Offer, PackedInf, NoParent
    <3>2. CASE x = u
      <4>1. y \in Receivers(u)
        BY <3>1, <3>2 DEF Improves, Receivers
      <4>2. <<y, Offer(packed[u], u, y)>> \in lanes'
        BY <2>1, <4>1
      <4> QED BY <3>1, <3>2, <4>2 DEF Covered
    <3>3. CASE x # u
      <4>1. lanes \subseteq lanes' /\ (x \in todo => x \in todo')
        BY <3>3
      <4> QED BY <1>1, <1>2, <3>1, <4>1 DEF Covered, InsertionAhead, InPull
    <3> QED BY <3>2, <3>3
  <2> QED BY <2>1, <1>2, <2>2, <2>6, <2>7
<1> QED BY <1>1, <1>3, <1>4, <1>5, RelaxingKeeps

\* A lane relaxes its node, possibly with an offer that is out of date.
LEMMA RelaxLaneKeeps ==
  ASSUME UInv, NEW l \in lanes, RelaxLane(l)
  PROVE  UInv'
<1> USE DEF RelaxLane
<1> DEFINE v == l[1]
           c == l[2]
<1>1. /\ TypeOK /\ RecomputeTypeOK /\ ListsOK /\ WarpsOK /\ best = Blank /\ DeltaOK
      /\ TypeOK' /\ pc \in {"insert", "push"} /\ pc' = pc
  BY RelaxingFacts, RelaxingKeepsTypes
<1>2. UNCHANGED <<graph, todo, unread, epoch, threads, word, best, delta, converged, overflow>>
  BY DEF recomputeVars, batchVars, counterVars
<1>3. v \in Node /\ c \in Word /\ l = <<v, c>>
  BY <1>1 DEF TypeOK
<1>4. DeltaOK' /\ best' = Blank'
  BY <1>1, <1>2 DEF DeltaOK, Blank
<1>5. WarpsOK'
  BY <1>1, <1>2 DEF WarpsOK, RowReads, PackedInf, NoParent
<1>6. ListsOK' /\ next \subseteq next' /\ (packed'[v] # packed[v] => v \in next')
  BY <1>1, <1>2, <1>3, RelaxKeepsLists
<1>7. ASSUME ~overflow', converged'
      PROVE  /\ Words'
             /\ \A x \in Node \ {Source} : JustifiedBy(x, packed[x])'
             /\ \A x, y \in Node : Improves(x, y)' => Covered(x, y)'
  <2>1. /\ Words
        /\ \A x \in Node \ {Source} : JustifiedBy(x, packed[x])
        /\ \A x, y \in Node : Improves(x, y) => Covered(x, y)
    BY <1>1, <1>2, <1>7, RelaxingFacts
  <2>2. RelaxContext(v, c) /\ JustifiedBy(v, c)
    BY <1>1, <1>2, <1>3, <2>1 DEF RelaxContext, Words, Good
  <2>3. /\ packed'[Source] = packed[Source]
        /\ \A x \in Node \ {Source} : JustifiedBy(x, packed[x])'
    BY <2>1, <2>2, RelaxKeepsWords
  <2>4. ASSUME NEW k \in lanes'
        PROVE  Good(k[1], k[2])'
    <3>1. k[1] \in Node /\ k[2] \in Word /\ Good(k[1], k[2])
      BY <1>1, <2>1 DEF Words, TypeOK
    <3> QED BY <2>2, <3>1, RelaxKeepsJustified DEF Good
  <2>5. Words'
    BY <1>1, <1>2, <2>1, <2>3, <2>4 DEF Words, WarpsOK, PackedInf, NoParent
  <2>6. ASSUME NEW x \in Node, NEW y \in Node, Improves(x, y)'
        PROVE  Covered(x, y)'
    <3> DEFINE o == Offer(packed[x], x, y)
    <3>1. CASE x \in next'
      BY <3>1 DEF Covered
    <3>2. CASE x \notin next'
      <4>1. /\ Improves(x, y) /\ x \notin next /\ packed'[x] = packed[x] /\ o' = o
            /\ y = v => Less(o, packed'[v])
        BY <1>6, <2>2, <2>6, <3>2, RelaxKeepsImproving
      <4>2. Covered(x, y)
        BY <2>1, <4>1
      <4>3. <<y, o>> # l
        BY <1>3, <2>2, <4>1, RelaxFacts
      <4> QED BY <1>1, <1>2, <4>1, <4>2, <4>3 DEF Covered, InsertionAhead, InPull
    <3> QED BY <3>1, <3>2
  <2> QED BY <2>3, <2>5, <2>6
<1> QED BY <1>1, <1>4, <1>5, <1>6, <1>7, RelaxingKeeps

-----------------------------------------------------------------------------
(***************************************************************************)
(* The host between the kernels, and the end of an update.                 *)
(***************************************************************************)
LEMMA LaunchInsertedKeeps ==
  ASSUME UInv, LaunchInserted
  PROVE  UInv'
<1> USE DEF LaunchInserted
<1>1. /\ TypeOK /\ RecomputeTypeOK /\ ListsOK /\ WarpsOK /\ best = Blank /\ DeltaOK
      /\ TypeOK' /\ pc = "pull" /\ pc' = "insert" /\ AllDone
  BY RelaxingFacts, HostKeepsTypes
<1>2. UNCHANGED <<graph, packed, todo, unread, lanes, next, nextLen, stamp, epoch, word, best, delta,
                  converged, overflow>>
  BY DEF recomputeVars, batchVars, listVars, counterVars
<1>3. ListsOK' /\ DeltaOK' /\ best' = Blank'
  BY <1>1, <1>2 DEF ListsOK, FrontierWithoutDuplicates, DeltaOK, Blank
<1>4. WarpsOK'
  BY <1>1, <1>2 DEF WarpsOK, RowReads, AllDone, PackedInf, NoParent
<1>5. ASSUME ~overflow', converged'
      PROVE  /\ Words'
             /\ \A x \in Node \ {Source} : JustifiedBy(x, packed[x])'
             /\ \A x, y \in Node : Improves(x, y)' => Covered(x, y)'
  <2>1. /\ Words
        /\ \A x \in Node \ {Source} : JustifiedBy(x, packed[x])
        /\ \A x, y \in Node : Improves(x, y) => Covered(x, y)
    BY <1>1, <1>2, <1>5, RelaxingFacts
  <2>2. \A x, y : JustifiedBy(x, y)' <=> JustifiedBy(x, y)
    BY <1>2 DEF JustifiedBy, PackedInf, NoParent
  <2>3. \A e \in threads' : e[2] \in graph.adj[e[1]]
    <3>1. \A e \in delta.ins : e[1] \in Node /\ e[2] \in Node /\ e[2] \in graph.adj[e[1]]
      BY <1>1 DEF DeltaOK, TypeOK
    <3>2. \A e \in delta.ins : e[1] \in graph.adj[e[2]]
      BY <1>1, <3>1, GraphFacts DEF RecomputeTypeOK
    <3> QED BY <3>1, <3>2
  <2>4. Words'
    BY <1>1, <1>2, <1>4, <2>1, <2>2, <2>3 DEF Words, WarpsOK, AllDone, PackedInf, NoParent
  <2>5. ASSUME NEW x \in Node, NEW y \in Node, Improves(x, y)'
        PROVE  Covered(x, y)'
    <3>1. Improves(x, y) /\ Covered(x, y)
      BY <1>2, <2>1, <2>5 DEF Improves, Offer, PackedInf, NoParent
    <3> QED BY <1>1, <1>2, <3>1 DEF Covered, InsertionAhead, InPull, AllDone
  <2> QED BY <1>2, <2>1, <2>2, <2>4, <2>5
<1> QED BY <1>1, <1>3, <1>4, <1>5, RelaxingKeeps

\* The next frontier becomes the running one.
LEMMA LaunchPushKeeps ==
  ASSUME UInv, LaunchPush
  PROVE  UInv'
<1> USE DEF LaunchPush
<1>1. /\ TypeOK /\ RecomputeTypeOK /\ ListsOK /\ WarpsOK /\ best = Blank /\ DeltaOK
      /\ TypeOK' /\ pc \in {"insert", "push"} /\ pc' = "push" /\ AllDone
  BY RelaxingFacts, HostKeepsTypes DEF AtLoopTest
<1>2. UNCHANGED <<graph, packed, unread, lanes, threads, stamp, word, best, delta, converged, overflow>>
  BY DEF recomputeVars, batchVars
<1>3. DeltaOK' /\ best' = Blank'
  BY <1>1, <1>2 DEF DeltaOK, Blank
<1>4. WarpsOK'
  BY <1>1, <1>2 DEF WarpsOK, RowReads, AllDone, PackedInf, NoParent
<1>5. ListsOK'
  <2>1. \A v \in Node : stamp[v] \in Nat /\ stamp[v] <= epoch /\ epoch \in Nat
    BY <1>1 DEF TypeOK, ListsOK
  <2>2. \A v \in Node : stamp'[v] < epoch'
    BY <1>2, <2>1
  <2>3. \A v \in Node : stamp'[v] <= epoch' /\ stamp'[v] # epoch'
    BY <1>2, <2>1, <2>2
  <2> QED BY <1>1, <2>3, FS_EmptySet DEF ListsOK, FrontierWithoutDuplicates
<1>6. ASSUME ~overflow', converged'
      PROVE  /\ Words'
             /\ \A x \in Node \ {Source} : JustifiedBy(x, packed[x])'
             /\ \A x, y \in Node : Improves(x, y)' => Covered(x, y)'
  <2>1. /\ Words
        /\ \A x \in Node \ {Source} : JustifiedBy(x, packed[x])
        /\ \A x, y \in Node : Improves(x, y) => Covered(x, y)
    BY <1>1, <1>2, <1>6, RelaxingFacts
  <2>2. \A x, y : JustifiedBy(x, y)' <=> JustifiedBy(x, y)
    BY <1>2 DEF JustifiedBy, PackedInf, NoParent
  <2>3. Words'
    BY <1>1, <1>2, <2>1, <2>2 DEF Words, WarpsOK, AllDone, PackedInf, NoParent
  <2>4. ASSUME NEW x \in Node, NEW y \in Node, Improves(x, y)'
        PROVE  Covered(x, y)'
    <3>1. Improves(x, y) /\ Covered(x, y)
      BY <1>2, <2>1, <2>4 DEF Improves, Offer, PackedInf, NoParent
    <3> QED BY <1>1, <1>2, <3>1 DEF Covered, InsertionAhead, InPull, AllDone
  <2> QED BY <1>2, <2>1, <2>2, <2>3, <2>4
<1> QED BY <1>1, <1>3, <1>4, <1>5, <1>6, RelaxingKeeps

(***************************************************************************)
(* When nothing is ahead of any warp, every node hangs from its best       *)
(* neighbour: the words are the canonical tree of the new graph.           *)
(***************************************************************************)
LEMMA UnpackIsExact ==
  ASSUME UInv, Unpack, converged
  PROVE  CanonicalTree(graph, dist, parent)'
<1> USE DEF Unpack
<1>1. /\ TypeOK /\ RecomputeTypeOK /\ ListsOK /\ WarpsOK /\ pc \in {"insert", "push"} /\ AllDone
      /\ Words
      /\ \A x \in Node \ {Source} : JustifiedBy(x, packed[x])
      /\ \A x, y \in Node : Improves(x, y) => Covered(x, y)
  BY RelaxingFacts DEF AtLoopTest
<1>2. next = {}
  BY <1>1, NodesFinite, FS_EmptySet DEF ListsOK, FrontierWithoutDuplicates, TypeOK
<1>3. \A x, y \in Node : ~Improves(x, y)
  BY <1>1, <1>2 DEF Covered, InPull, InsertionAhead, AllDone
<1>4. \A x \in Node : dist'[x] = IF packed[x] = PackedInf THEN Inf ELSE packed[x][1]
  OBVIOUS
<1>5. \A x \in Node : packed[x][1] \in Nat /\ packed[x][2] \in 0 .. N /\ packed[x] = <<packed[x][1], packed[x][2]>>
  BY <1>1, WordFacts DEF TypeOK, Word
<1>6. \A x \in Node : dist'[x] # Inf <=> packed[x] # PackedInf
  BY <1>4, <1>5, Constants
<1>7. dist'[Source] = 0 /\ parent'[Source] = NoParent
  <2>1. packed[Source] = <<0, NoParent>> /\ packed[Source] # PackedInf /\ Source \in Node
    BY <1>1, Constants, BoundsAssumption DEF Words, PackedInf
  <2>2. packed[Source][1] = 0 /\ TreeParent(packed[Source]) = NoParent
    BY <2>1 DEF TreeParent
  <2> QED BY <1>4, <2>1, <2>2
<1>8. ASSUME NEW v \in Node \ {Source}, packed[v] = PackedInf
      PROVE  dist'[v] = Inf /\ parent'[v] = NoParent /\ graph.adj[v] \cap Reached(dist') = {}
  <2>1. \A q \in graph.adj[v] : q \in Node /\ v \in graph.adj[q] /\ packed[q] = PackedInf
    BY <1>1, <1>3, <1>8, GraphFacts DEF Improves, RecomputeTypeOK
  <2> QED BY <1>4, <1>6, <1>8, <2>1 DEF TreeParent, Reached
<1>9. ASSUME NEW v \in Node \ {Source}, packed[v] # PackedInf
      PROVE  v \in Reached(dist') /\ HangsFrom(graph, dist', v, parent'[v])
  <2> DEFINE p == packed[v][2]
  <2>1. /\ p \in graph.adj[v] /\ packed[p] # PackedInf /\ packed[v][1] >= packed[p][1] + graph.w[v]
        /\ parent'[v] = p
    BY <1>1, <1>9 DEF JustifiedBy, TreeParent
  <2>2. p \in Node /\ graph.w[v] \in Nat /\ v \in Node /\ packed[p][1] \in Nat /\ packed[v][1] \in Nat
    BY <1>1, <1>5, <2>1, GraphFacts DEF RecomputeTypeOK
  <2>3. ASSUME NEW q \in graph.adj[v], packed[q] # PackedInf
        PROVE  /\ q \in Node /\ packed[q][1] \in Nat
               /\ ~Less(<<packed[q][1] + graph.w[v], q>>, packed[v])
    <3>1. q \in Node /\ v \in graph.adj[q]
      BY <1>1, GraphFacts DEF RecomputeTypeOK
    <3>2. ~Less(Offer(packed[q], q, v), packed[v])
      BY <1>3, <2>3, <3>1 DEF Improves
    <3> QED BY <1>5, <3>1, <3>2 DEF Offer
  <2>4. packed[v][1] = packed[p][1] + graph.w[v]
    BY <2>1, <2>2, <2>3 DEF Less
  <2>5. ASSUME NEW q \in graph.adj[v], packed[q] # PackedInf, q # p
        PROVE  Less(<<packed[p][1], p>>, <<packed[q][1], q>>)
    <3>1. ~Less(<<packed[q][1] + graph.w[v], q>>, packed[v]) /\ packed[q][1] \in Nat /\ q \in Nat /\ p \in Nat
      BY <2>2, <2>3, <2>5, Constants
    <3> QED BY <2>2, <2>4, <2>5, <3>1 DEF Less
  <2>6. dist'[v] = dist'[p] + graph.w[v] /\ dist'[v] # Inf /\ dist'[p] # Inf
    BY <1>4, <1>6, <1>9, <2>1, <2>2, <2>4
  <2>7. ASSUME NEW q \in graph.adj[v] \cap Reached(dist'), q # p
        PROVE  Less(<<dist'[p], p>>, <<dist'[q], q>>)
    <3>1. q \in Node /\ packed[q] # PackedInf
      BY <1>6 DEF Reached
    <3> QED BY <1>4, <2>1, <2>2, <2>5, <2>7, <3>1
  <2> QED BY <2>1, <2>2, <2>6, <2>7 DEF HangsFrom, Reached
<1>10. \A v \in Node \ {Source} :
         \/ v \in Reached(dist') /\ HangsFrom(graph, dist', v, parent'[v])
         \/ /\ dist'[v] = Inf /\ parent'[v] = NoParent
            /\ graph.adj[v] \cap Reached(dist') = {}
  BY <1>8, <1>9
<1> QED BY <1>7, <1>10 DEF CanonicalTree, HangsFrom, Reached, NoParent

\* The update ends without giving up.
LEMMA UnpackKeeps ==
  ASSUME UInv, Unpack
  PROVE  UInv'
<1> USE DEF Unpack, DropScratch
<1>1. /\ TypeOK /\ ListsOK /\ WarpsOK /\ best = Blank /\ TypeOK' /\ pc' = "idle"
      /\ pc \in {"insert", "push"} /\ AllDone
  BY RelaxingFacts, HostKeepsTypes DEF AtLoopTest
<1>2. TreeIsCanonical'
  BY UnpackIsExact DEF TreeIsCanonical
<1>3. ListsOK'
  BY <1>1, FS_EmptySet DEF ListsOK, FrontierWithoutDuplicates
<1>4. WarpsOK' /\ best' = Blank'
  BY <1>1 DEF WarpsOK, AllDone, RowReads, Blank, PackedInf, NoParent
<1> QED BY <1>1, <1>2, <1>3, <1>4 DEF UInv, Relaxing, NoStaleWord, NoLostImprovement

\* The update gives up and recomputes.
LEMMA FallBackKeeps ==
  ASSUME UInv, FallBack
  PROVE  UInv'
<1>1. TypeOK' /\ Reset /\ UNCHANGED <<graph, converged, todo, unread, best>>
  BY HostKeepsTypes DEF FallBack
<1>2. /\ UNCHANGED <<stamp, epoch, threads, word, lanes>> /\ next' = {} /\ nextLen' = 0
      /\ pc \in {"giveup", "insert", "push"}
  BY DEF FallBack, DropScratch, AtLoopTest
<1>3. todo = {} /\ unread = {} /\ threads = {} /\ lanes = {} /\ best = Blank
  BY <1>2 DEF FallBack, AtLoopTest, AllDone, UInv, WarpsOK
<1> QED BY <1>1, <1>2, <1>3, ResetKeeps

-----------------------------------------------------------------------------
(***************************************************************************)
(* The theorems.                                                           *)
(***************************************************************************)
LEMMA UInvInit == Init => UInv
<1> SUFFICES ASSUME Init PROVE UInv
  OBVIOUS
<1> USE DEF Init, RecomputeInit
<1>1. RecomputeTypeOK
  BY GraphsAssumption DEF RecomputeTypeOK, Blank
<1>2. TypeOK
  <2>1. batches \in 0 .. MaxBatches
    BY BoundsAssumption
  <2>2. delta \in [del : SUBSET (Node \X Node), ins : SUBSET (Node \X Node),
                   new : SUBSET Node, dead : SUBSET Node]
    BY DEF EmptyDelta
  <2>3. packed \in [Node -> Word] /\ word \in [Node -> Word] /\ jump \in [Node -> 0 .. N]
    BY WordFacts
  <2> QED BY <1>1, <2>1, <2>2, <2>3 DEF TypeOK
<1>3. ListsOK
  BY FS_EmptySet, NAssumption DEF ListsOK, FrontierWithoutDuplicates
<1>4. WarpsOK
  BY DEF WarpsOK
<1> QED BY <1>2, <1>3, <1>4
        DEF UInv, TreeIsCanonical, Relaxing, NoStaleWord, NoLostImprovement

\* A step that changes nothing keeps the invariant.
LEMMA UInvStutters ==
  ASSUME UInv, UNCHANGED vars
  PROVE  UInv'
<1> USE DEF vars, rvars, recomputeVars, updateVars, batchVars, markVars, listVars, counterVars
<1>1. TypeOK'
  BY DEF UInv, TypeOK, RecomputeTypeOK, IsGraph
<1>2. ListsOK' /\ (WarpsOK => WarpsOK') /\ (best = Blank => best' = Blank') /\ (DeltaOK => DeltaOK')
  BY DEF UInv, ListsOK, FrontierWithoutDuplicates, WarpsOK, RowReads, Blank, DeltaOK, PackedInf, NoParent
<1>3. Pulling => Pulling'
  BY DEF Pulling, SourceFixed, WarpsRunning, RowReads, ReadsStillGood, BestOfRead, Read, WordFrom,
     Candidates, IdleNodesSettled, Settled, HangsFrom, Reached
<1>4. TreeIsCanonical'
  BY DEF UInv, TreeIsCanonical, CanonicalTree, HangsFrom, Reached
<1>5. Roots' = Roots /\ PackState' = PackState
  BY DEF Roots, DeletedTreeEdge, PackState, Pack, TreeParent, PackedInf
<1>6. TreeBeforeBatch => TreeBeforeBatch'
  BY <1>5 DEF TreeBeforeBatch, StillHangs, NotImprovedBy, Inserted
<1>7. \A v : SubtreeOfRoot(v)' <=> SubtreeOfRoot(v)
  BY <1>5 DEF SubtreeOfRoot, ParentClosed, TreeParent, PackedInf, NoParent
<1>8. Jumping => Jumping'
  BY <1>5, <1>7 DEF Jumping, PathTo, ParentClosed, TreeParent, PackedInf, NoParent
<1>9. (Marked => Marked') /\ (SubtreesMarked => SubtreesMarked')
  BY <1>5, <1>7 DEF Marked, SubtreesMarked, TreeParent, PackedInf, NoParent
<1>10. \A x, y : JustifiedBy(x, y)' <=> JustifiedBy(x, y)
  BY DEF JustifiedBy, PackedInf, NoParent
<1>11. (Words => Words') /\ NoStaleWord'
  BY <1>10 DEF Words, Good, UInv, NoStaleWord, Relaxing, PackedInf, NoParent
<1>12. \A x, y : (Improves(x, y)' <=> Improves(x, y)) /\ (Covered(x, y)' <=> Covered(x, y))
  BY DEF Improves, Covered, Offer, InPull, InsertionAhead, Fits, PackedInf, NoParent
<1>13. NoLostImprovement'
  BY <1>12 DEF UInv, NoLostImprovement, Relaxing
<1> QED BY <1>1, <1>2, <1>3, <1>4, <1>6, <1>8, <1>9, <1>11, <1>13
        DEF UInv, Relaxing, PackedInf, NoParent

\* Every step keeps the invariant.
LEMMA UInvNext == UInv /\ [Next]_vars => UInv'
<1> SUFFICES ASSUME UInv, [Next]_vars PROVE UInv'
  OBVIOUS
<1>1. CASE FirstRecompute
  BY <1>1, FirstRecomputeKeeps
<1>2. CASE RecomputeStepOnly
  BY <1>2, RecomputeStepKeeps
<1>3. CASE BeginUpdate
  BY <1>3, BeginUpdateKeeps
<1>4. CASE JumpRound
  BY <1>4, JumpRoundKeeps
<1>5. CASE Invalidate
  BY <1>5, InvalidateKeeps
<1>6. ASSUME NEW v \in Node, NEW p \in Node, InvalidatedRead(v, p)
      PROVE  UInv'
  BY <1>6, InvalidatedReadKeeps
<1>7. ASSUME NEW v \in Node, InvalidatedRelax(v)
      PROVE  UInv'
  BY <1>7, InvalidatedRelaxKeeps
<1>8. CASE LaunchInserted
  BY <1>8, LaunchInsertedKeeps
<1>9. ASSUME NEW u \in Node, NEW v \in Node, InsertedLoad(u, v)
      PROVE  UInv'
  BY <1>9, InsertedLoadKeeps
<1>10. ASSUME NEW u \in Node, PushLoad(u)
       PROVE  UInv'
  BY <1>10, PushLoadKeeps
<1>11. ASSUME NEW l \in lanes, RelaxLane(l)
       PROVE  UInv'
  BY <1>11, RelaxLaneKeeps
<1>12. CASE LaunchPush
  BY <1>12, LaunchPushKeeps
<1>13. CASE Unpack
  BY <1>13, UnpackKeeps
<1>14. CASE FallBack
  BY <1>14, FallBackKeeps
<1>15. ASSUME NEW g \in Graphs, NEW created \in SUBSET g.live, ApplyBatch(g, created)
       PROVE  UInv'
  BY <1>15, BatchKeeps
<1>16. CASE UNCHANGED vars
  BY <1>16, UInvStutters
<1> QED BY <1>1, <1>2, <1>3, <1>4, <1>5, <1>6, <1>7, <1>8, <1>9, <1>10, <1>11, <1>12, <1>13, <1>14,
           <1>15, <1>16
        DEF Next, Compute, UpdateStep, Finished

\* The invariant holds in every reachable state.
LEMMA UInvAlways == Spec => []UInv
BY UInvInit, UInvNext, PTL DEF Spec

(***************************************************************************)
(* Types: the packed words stay within their 64 bits' halves, and no       *)
(* index written by a warp is out of range, with any budget and limit.     *)
(***************************************************************************)
THEOREM TypeCorrect == Spec => []TypeOK
<1>1. UInv => TypeOK
  BY DEF UInv
<1> QED BY <1>1, UInvAlways, PTL

(***************************************************************************)
(* The tree every call returns, incremental or recomputed, is the          *)
(* canonical tree of the current graph (hsosp.cuh:300-302).                *)
(***************************************************************************)
THEOREM UpdateIsExact == Spec => []TreeIsCanonical
<1>1. UInv => TreeIsCanonical
  BY DEF UInv
<1> QED BY <1>1, UInvAlways, PTL

(***************************************************************************)
(* Pointer jumping ends with exactly the subtrees of the roots marked,     *)
(* however deep the tree and whatever the cap on its rounds.               *)
(***************************************************************************)
THEOREM JumpingIsExact == Spec => []SubtreesMarked
<1>1. UInv => SubtreesMarked
  BY DEF UInv, SubtreesMarked
<1> QED BY <1>1, UInvAlways, PTL

(***************************************************************************)
(* No stale distance survives invalidation and the racing warps make none. *)
(***************************************************************************)
THEOREM WordsStayJustified == Spec => []NoStaleWord
<1>1. UInv => NoStaleWord
  BY DEF UInv
<1> QED BY <1>1, UInvAlways, PTL

(***************************************************************************)
(* No improvement is lost, under any order of the warps' accesses.         *)
(***************************************************************************)
THEOREM ImprovementsStayCovered == Spec => []NoLostImprovement
<1>1. UInv => NoLostImprovement
  BY DEF UInv
<1> QED BY <1>1, UInvAlways, PTL

(***************************************************************************)
(* No node is on a frontier list twice, so the list of maxNodes entries    *)
(* cannot overflow.                                                        *)
(***************************************************************************)
THEOREM FrontierListsFit == Spec => []FrontierWithoutDuplicates
<1>1. UInv => FrontierWithoutDuplicates
  BY DEF UInv, ListsOK
<1> QED BY <1>1, UInvAlways, PTL
-----------------------------------------------------------------------------
(***************************************************************************)
(* Joined: the recompute inside an update converges as it does alone, and  *)
(* so HsospUpdate implements Sosp.                                         *)
(*                                                                         *)
(* The argument.  A call returns either a tree it unpacked, canonical by   *)
(* UInv, or what the fallback computed, canonical once its loop converged; *)
(* that it always does is shown in HsospRecomputeProofs.  A canonical tree *)
(* is the exact tree that Sosp promises (the first part).  A batch         *)
(* takes the answer back, and every other step is invisible: even the one  *)
(* that empties the rows of the dead ids, which are empty already.         *)
(***************************************************************************)

(***************************************************************************)
(* The inductive invariant.                                                *)
(***************************************************************************)
UConv ==
  /\ UInv /\ converged
  /\ pc = "recompute" => Converging

LEMMA UConvInit == Init => UConv
BY UInvInit DEF Init, RecomputeInit, UConv

\* Every step keeps the invariant.
LEMMA UConvNext == UConv /\ [Next]_vars => UConv'
<1> SUFFICES ASSUME UConv, [Next]_vars PROVE UConv'
  OBVIOUS
<1> USE DEF UConv
<1>1. UInv' /\ UInv /\ RecomputeTypeOK
  BY UInvNext DEF UInv, TypeOK
<1>2. CASE FirstRecompute
  <2>1. todo = {} /\ unread = {} /\ best = Blank
    BY <1>1, <1>2 DEF UInv, WarpsOK, FirstRecompute, StartRecompute
  <2>2. Converging'
    BY <1>1, <1>2, <2>1, ResetConverging DEF FirstRecompute, StartRecompute
  <2> QED BY <1>1, <1>2, <2>2 DEF FirstRecompute, StartRecompute
<1>3. CASE FallBack
  <2>1. todo = {} /\ unread = {} /\ best = Blank
    BY <1>1, <1>3 DEF UInv, WarpsOK, FallBack, AtLoopTest, AllDone
  <2>2. Converging'
    BY <1>1, <1>3, <2>1, ResetConverging DEF FallBack
  <2> QED BY <1>1, <1>3, <2>2 DEF FallBack
<1>4. CASE RecomputeStepOnly
  <2>1. RecomputeStep /\ pc = "recompute" /\ Pulling /\ Converging
    BY <1>1, <1>4 DEF RecomputeStepOnly, RecomputeStep, NextRound, StopRecompute, PullRead, PullWrite, UInv
  <2>2. CASE NextRound
    <3>1. Converging'
      BY <1>1, <2>1, <2>2, NextRoundConverging
    <3> QED BY <1>1, <2>2, <3>1 DEF NextRound
  <2>3. CASE StopRecompute
    <3>1. converged'
      BY <1>1, <2>1, <2>3, StopConverged
    <3> QED BY <1>1, <2>3, <3>1 DEF StopRecompute
  <2>4. ASSUME NEW v \in Node, NEW p \in Node, PullRead(v, p) PROVE UConv'
    <3>1. Converging'
      BY <1>1, <2>1, <2>4, PullReadConverging
    <3> QED BY <1>1, <2>4, <3>1 DEF PullRead
  <2>5. ASSUME NEW v \in Node, PullWrite(v) PROVE UConv'
    <3>1. Converging'
      BY <1>1, <2>1, <2>5, PullWriteConverging
    <3> QED BY <1>1, <2>5, <3>1 DEF PullWrite
  <2> QED BY <2>1, <2>2, <2>3, <2>4, <2>5 DEF RecomputeStep
<1>5. ASSUME pc' # "recompute", converged' = converged PROVE UConv'
  BY <1>1, <1>5
<1>6. CASE BeginUpdate \/ JumpRound \/ Invalidate
  BY <1>5, <1>6 DEF BeginUpdate, JumpRound, Invalidate, recomputeVars
<1>7. ASSUME NEW v \in Node, NEW p \in Node, InvalidatedRead(v, p) PROVE UConv'
  BY <1>5, <1>7 DEF InvalidatedRead, recomputeVars
<1>8. ASSUME NEW v \in Node, InvalidatedRelax(v) PROVE UConv'
  BY <1>5, <1>8 DEF InvalidatedRelax, recomputeVars
<1>9. CASE LaunchInserted
  BY <1>5, <1>9 DEF LaunchInserted, recomputeVars
<1>10. ASSUME NEW u \in Node, NEW v \in Node, InsertedLoad(u, v) PROVE UConv'
  BY <1>5, <1>10 DEF InsertedLoad, recomputeVars
<1>11. ASSUME NEW u \in Node, PushLoad(u) PROVE UConv'
  BY <1>5, <1>11 DEF PushLoad, recomputeVars
<1>12. ASSUME NEW l \in lanes, RelaxLane(l) PROVE UConv'
  BY <1>5, <1>12 DEF RelaxLane, recomputeVars
<1>13. CASE LaunchPush \/ Unpack
  BY <1>5, <1>13 DEF LaunchPush, Unpack, recomputeVars
<1>14. ASSUME NEW g \in Graphs, NEW created \in SUBSET g.live, ApplyBatch(g, created) PROVE UConv'
  BY <1>5, <1>14 DEF ApplyBatch, recomputeVars
<1>15. CASE UNCHANGED vars
  BY <1>1, <1>15 DEF vars, rvars, recomputeVars, Converging, NotBelowShortest, NotAboveHops, UsedBound
<1> QED BY <1>2, <1>3, <1>4, <1>6, <1>7, <1>8, <1>9, <1>10, <1>11, <1>12, <1>13, <1>14, <1>15
        DEF Next, Compute, UpdateStep, Finished

\* The invariant holds in every reachable state.
LEMMA UConvAlways == Spec => []UConv
BY UConvInit, UConvNext, PTL DEF Spec

-----------------------------------------------------------------------------
(***************************************************************************)
(* The steps of Sosp.                                                      *)
(***************************************************************************)

\* Sosp's exact tree, by the definitions of this module.
LEMMA SameExactTree ==
  ASSUME NEW g
  PROVE  Abstract!ExactTree(g) =
           [dist |-> ShortestDistances(g), parent |-> ParentsFor(g, ShortestDistances(g))]
<1>1. Abstract!ShortestDistances(g) = ShortestDistances(g)
  BY DEF Abstract!ShortestDistances, ShortestDistances, Abstract!CheapestWalks, CheapestWalks,
         Abstract!Least, Least, Abstract!Reached, Reached, Abstract!Node, Node
<1>2. \A d : Abstract!ParentsFor(g, d) = ParentsFor(g, d)
  BY DEF Abstract!ParentsFor, ParentsFor, Abstract!Reached, Reached, Abstract!Node, Node,
         Abstract!NoParent, NoParent, Abstract!Less, Less
<1> QED BY <1>1, <1>2 DEF Abstract!ExactTree

\* A call returns: the answer appears.
LEMMA ReturnAnswers ==
  ASSUME UConv', pc # "idle", pc' = "idle", graph' = graph
  PROVE  Abstract!Next
<1>1. /\ IsGraph(graph) /\ CanonicalTree(graph, dist', parent')
      /\ dist' \in [Node -> Distance] /\ parent' \in [Node -> Node \cup {NoParent}]
  BY DEF UConv, UInv, TypeOK, RecomputeTypeOK, TreeIsCanonical, Distance
<1>2. dist' = ShortestDistances(graph) /\ parent' = ParentsFor(graph, ShortestDistances(graph))
  <2>1. dist' = ShortestDistances(graph) /\ parent' = ParentsFor(graph, dist')
    BY <1>1, CanonicalTreesAreShortest
  <2> QED BY <2>1
<1>3. [dist |-> dist', parent |-> parent'] = Abstract!ExactTree(graph)
  BY <1>2, SameExactTree
<1>4. Abstract!Answer
  BY <1>3 DEF Abstract!Answer
<1> QED BY <1>4 DEF Abstract!Next

\* A step in which neither the graph changes nor a call returns is invisible.
LEMMA HiddenSteps ==
  ASSUME pc # "idle", pc' # "idle", graph' = graph
  PROVE  UNCHANGED Abstract!svars
BY DEF Abstract!svars

\* Emptying the rows of the dead ids changes no graph.
LEMMA BeginChangesNoGraph ==
  ASSUME UConv, BeginUpdate
  PROVE  graph' = graph
<1>1. IsGraph(graph) /\ \A v \in delta.dead : graph.adj[v] = {}
  BY DEF UConv, UInv, TypeOK, RecomputeTypeOK, DeltaOK, BeginUpdate
<1>2. [v \in Node |-> IF v \in delta.dead THEN {} ELSE graph.adj[v]] = graph.adj
  BY <1>1 DEF IsGraph
<1>3. graph' = [graph EXCEPT !.adj = graph.adj]
  BY <1>2 DEF BeginUpdate
<1> QED BY <1>1, <1>3 DEF IsGraph

\* Every step of the update is a step of Sosp or invisible.
LEMMA StepsImplement ==
  ASSUME UConv, UConv', [Next]_vars
  PROVE  [Abstract!Next]_(Abstract!svars)
<1>1. CASE FirstRecompute
  BY <1>1, HiddenSteps DEF FirstRecompute, StartRecompute, Reset
<1>2. CASE RecomputeStepOnly
  <2>1. CASE NextRound
    BY <2>1, HiddenSteps DEF NextRound
  <2>2. CASE StopRecompute
    BY <2>2, ReturnAnswers DEF StopRecompute
  <2>3. ASSUME NEW v \in Node, NEW p \in Node, PullRead(v, p) PROVE UNCHANGED Abstract!svars
    BY <2>3, HiddenSteps DEF PullRead
  <2>4. ASSUME NEW v \in Node, PullWrite(v) PROVE UNCHANGED Abstract!svars
    BY <2>4, HiddenSteps DEF PullWrite
  <2> QED BY <1>2, <2>1, <2>2, <2>3, <2>4 DEF RecomputeStepOnly, RecomputeStep
<1>3. CASE BeginUpdate
  BY <1>3, BeginChangesNoGraph, HiddenSteps DEF BeginUpdate
<1>4. CASE JumpRound
  <2>1. pc = "jump" /\ pc' # "idle" /\ graph' = graph
    BY <1>4 DEF JumpRound
  <2> QED BY <2>1, HiddenSteps
<1>5. CASE Invalidate
  BY <1>5, HiddenSteps DEF Invalidate
<1>6. ASSUME NEW v \in Node, NEW p \in Node, InvalidatedRead(v, p) PROVE UNCHANGED Abstract!svars
  BY <1>6, HiddenSteps DEF InvalidatedRead
<1>7. ASSUME NEW v \in Node, InvalidatedRelax(v) PROVE UNCHANGED Abstract!svars
  BY <1>7, HiddenSteps DEF InvalidatedRelax
<1>8. CASE LaunchInserted
  BY <1>8, HiddenSteps DEF LaunchInserted
<1>9. ASSUME NEW u \in Node, NEW v \in Node, InsertedLoad(u, v) PROVE UNCHANGED Abstract!svars
  BY <1>9, HiddenSteps DEF InsertedLoad
<1>10. ASSUME NEW u \in Node, PushLoad(u) PROVE UNCHANGED Abstract!svars
  BY <1>10, HiddenSteps DEF PushLoad
<1>11. ASSUME NEW l \in lanes, RelaxLane(l) PROVE UNCHANGED Abstract!svars
  BY <1>11, HiddenSteps DEF RelaxLane
<1>12. CASE LaunchPush
  BY <1>12, HiddenSteps DEF LaunchPush, AtLoopTest
<1>13. CASE Unpack
  BY <1>13, ReturnAnswers DEF Unpack, AtLoopTest
<1>14. CASE FallBack
  BY <1>14, HiddenSteps DEF FallBack, Reset, AtLoopTest
<1>15. ASSUME NEW g \in Graphs, NEW created \in SUBSET g.live, ApplyBatch(g, created)
       PROVE  Abstract!Next
  BY <1>15 DEF ApplyBatch, Abstract!Next, Abstract!Batch
<1>16. CASE UNCHANGED vars
  BY <1>16 DEF vars, rvars, recomputeVars, Abstract!svars
<1> QED BY <1>1, <1>2, <1>3, <1>4, <1>5, <1>6, <1>7, <1>8, <1>9, <1>10, <1>11, <1>12, <1>13, <1>14,
           <1>15, <1>16
        DEF Next, Compute, UpdateStep, Finished

(***************************************************************************)
(* The update implements what the component promises: after every batch    *)
(* the answer is the exact tree of the graph as it is then, by the         *)
(* reference definition, with whatever budgets, limits and warp orders     *)
(* (hsosp.cuh:287-313).                                                    *)
(***************************************************************************)
THEOREM UpdateImplementsSosp == Spec => ImplementsSosp
<1>1. Init => Abstract!Init
  BY DEF Init, RecomputeInit, Abstract!Init
<1>2. UConv /\ UConv' /\ [Next]_vars => [Abstract!Next]_(Abstract!svars)
  BY StepsImplement
<1> QED BY <1>1, <1>2, UConvAlways, PTL DEF Spec, ImplementsSosp, Abstract!Spec

-----------------------------------------------------------------------------
(***************************************************************************)
(* Both loops of an update end early (RoundsBounded).                      *)
(*                                                                         *)
(* The argument for the jumping.  The pointers double their reach in every *)
(* launch: a pointer is the 2^r-th ancestor, and the pointer there leads   *)
(* as far again, so the generations that are known to hold no root double  *)
(* as well.                                                                *)
(*                                                                         *)
(* The argument for the pushing.  Among the nodes that are not final and   *)
(* done, one comes first in the order of the search.  The node it hangs    *)
(* from in the canonical tree is done, so its offer has arrived, and the   *)
(* node's word is final already; what is missing is its push, which the    *)
(* next launch makes.  A final node is never enqueued again, since no word *)
(* falls below the shortest distance.  So every launch adds a node that is *)
(* done, and there are N nodes.                                            *)
(***************************************************************************)

(***************************************************************************)
(* Powers of two.                                                          *)
(***************************************************************************)

\* One more element doubles the number of subsets.
LEMMA SubsetsDouble ==
  ASSUME NEW S, NEW x, x \notin S, IsFiniteSet(S)
  PROVE  Cardinality(SUBSET (S \cup {x})) = Cardinality(SUBSET S) * 2
<1> DEFINE A == (SUBSET S) \X (0 .. 1)
           B == SUBSET (S \cup {x})
           f == [e \in A |-> IF e[2] = 0 THEN e[1] ELSE e[1] \cup {x}]
<1>1. IsFiniteSet(SUBSET S) /\ IsFiniteSet(0 .. 1) /\ Cardinality(0 .. 1) = 2
  <2>1. IsFiniteSet(SUBSET S)
    BY FS_SUBSET
  <2>2. 0 \in Int /\ 1 \in Int
    OBVIOUS
  <2>3. IsFiniteSet(0 .. 1) /\ Cardinality(0 .. 1) = IF 0 > 1 THEN 0 ELSE 1 - 0 + 1
    BY <2>2, FS_Interval
  <2> QED BY <2>1, <2>3
<1>2. IsFiniteSet(A) /\ Cardinality(A) = Cardinality(SUBSET S) * 2
  BY <1>1, FS_Product
<1>3. f \in [A -> B]
  OBVIOUS
<1>4. ASSUME NEW a \in A, NEW b \in A, f[a] = f[b] PROVE a = b
  <2>1. PICK s \in SUBSET S, i \in {0, 1} : a = <<s, i>>
    OBVIOUS
  <2>2. PICK t \in SUBSET S, j \in {0, 1} : b = <<t, j>>
    OBVIOUS
  <2>3. (IF i = 0 THEN s ELSE s \cup {x}) = (IF j = 0 THEN t ELSE t \cup {x})
    BY <1>4, <2>1, <2>2
  <2>4. i = j
    BY <2>3
  <2>5. s = t
    BY <2>3, <2>4
  <2> QED BY <2>1, <2>2, <2>4, <2>5
<1>5. ASSUME NEW b \in B PROVE \E a \in A : f[a] = b
  <2>1. CASE x \in b
    <3>1. <<b \ {x}, 1>> \in A /\ f[<<b \ {x}, 1>>] = (b \ {x}) \cup {x}
      OBVIOUS
    <3>2. (b \ {x}) \cup {x} = b
      BY <2>1
    <3> QED BY <3>1, <3>2
  <2>2. CASE x \notin b
    <3>1. <<b, 0>> \in A /\ f[<<b, 0>>] = b
      BY <2>2
    <3> QED BY <3>1
  <2> QED BY <2>1, <2>2
<1> HIDE DEF f, A, B
<1>6. f \in Bijection(A, B)
  BY <1>3, <1>4, <1>5, Fun_IsBij
<1>7. Cardinality(B) = Cardinality(A)
  BY <1>2, <1>6, FS_Bijection DEF ExistsBijection
<1> QED BY <1>2, <1>7 DEF B

\* Powers of two, as numbers of subsets: the provers know nothing else of ^.
LEMMA PowersDouble ==
  ASSUME NEW n \in Nat
  PROVE  /\ 2 ^ 0 = 1 /\ 2 ^ n \in Nat /\ 2 ^ (n + 1) = 2 ^ n * 2
<1>1. /\ IsFiniteSet(1 .. n) /\ Cardinality(1 .. n) = n
      /\ IsFiniteSet(1 .. n + 1) /\ Cardinality(1 .. n + 1) = n + 1
  <2>1. 1 \in Int /\ n \in Int /\ n + 1 \in Int
    OBVIOUS
  <2>2. IsFiniteSet(1 .. n) /\ Cardinality(1 .. n) = IF 1 > n THEN 0 ELSE n - 1 + 1
    BY <2>1, FS_Interval
  <2>3. IsFiniteSet(1 .. n + 1) /\ Cardinality(1 .. n + 1) = IF 1 > n + 1 THEN 0 ELSE n + 1 - 1 + 1
    BY <2>1, FS_Interval
  <2> QED BY <2>2, <2>3
<1>2. 1 .. n + 1 = (1 .. n) \cup {n + 1} /\ n + 1 \notin 1 .. n
  OBVIOUS
<1>3. Cardinality(SUBSET (1 .. n)) = 2 ^ n /\ IsFiniteSet(SUBSET (1 .. n))
  BY <1>1, FS_SUBSET
<1>4. Cardinality(SUBSET (1 .. n + 1)) = 2 ^ (n + 1)
  BY <1>1, FS_SUBSET
<1>5. Cardinality(SUBSET (1 .. n + 1)) = Cardinality(SUBSET (1 .. n)) * 2
  BY <1>1, <1>2, SubsetsDouble
<1>6. 2 ^ 0 = 1
  OBVIOUS
<1>7. 2 ^ n \in Nat
  BY <1>3, FS_CardinalityType
<1> QED BY <1>3, <1>4, <1>5, <1>6, <1>7

-----------------------------------------------------------------------------
(***************************************************************************)
(* Ancestors.  Ancestor is a recursive function: that it satisfies its     *)
(* recursion is proved first.                                              *)
(***************************************************************************)
\* The pointers f, advanced by one generation.
OneUp(f) == [v \in Node |-> IF f[v] = NoParent THEN NoParent ELSE TreeParent(packed[f[v]])]

Selves == [v \in Node |-> v]

\* m generations of the recursion are a function.
LEMMA GenerationsExist ==
  ASSUME NEW m \in Nat
  PROVE  \E f : f = [k \in 0 .. m |-> IF k = 0 THEN Selves ELSE OneUp(f[k - 1])]
<1> DEFINE T == {n \in Nat : \E f : f = [k \in 0 .. n |-> IF k = 0 THEN Selves ELSE OneUp(f[k - 1])]}
<1>1. 0 \in T
  <2> DEFINE f == [k \in 0 .. 0 |-> Selves]
  <2>1. f = [k \in 0 .. 0 |-> IF k = 0 THEN Selves ELSE OneUp(f[k - 1])]
    OBVIOUS
  <2> QED BY <2>1
<1>2. ASSUME NEW n \in Nat, n \in T PROVE n + 1 \in T
  <2>1. PICK f : f = [k \in 0 .. n |-> IF k = 0 THEN Selves ELSE OneUp(f[k - 1])]
    BY <1>2
  <2> DEFINE h == [k \in 0 .. n + 1 |-> IF k \in 0 .. n THEN f[k] ELSE OneUp(f[n])]
  <2>2. ASSUME NEW k \in 0 .. n + 1
        PROVE  h[k] = IF k = 0 THEN Selves ELSE OneUp(h[k - 1])
    <3>1. CASE k = 0
      <4>1. h[0] = f[0]
        OBVIOUS
      <4> QED BY <2>1, <3>1, <4>1
    <3>2. CASE k \in 1 .. n
      <4>1. h[k] = f[k] /\ h[k - 1] = f[k - 1]
        BY <3>2
      <4> HIDE DEF h
      <4> QED BY <2>1, <3>2, <4>1
    <3>3. CASE k = n + 1
      <4>1. h[k] = OneUp(f[n]) /\ h[k - 1] = f[n]
        BY <3>3
      <4> HIDE DEF h
      <4> QED BY <3>3, <4>1
    <3> QED BY <3>1, <3>2, <3>3
  <2>3. h = [k \in 0 .. n + 1 |-> h[k]]
    OBVIOUS
  <2> HIDE DEF h
  <2>4. h = [k \in 0 .. n + 1 |-> IF k = 0 THEN Selves ELSE OneUp(h[k - 1])]
    BY <2>2, <2>3
  <2> QED BY <2>4
<1> HIDE DEF T
<1>3. m \in T
  BY <1>1, <1>2, NatSetInduction
<1> QED BY <1>3 DEF T

\* The recursion that Ancestor is defined by holds.
LEMMA AncestorUnfold ==
  Ancestor = [k \in 0 .. N |-> IF k = 0 THEN Selves ELSE OneUp(Ancestor[k - 1])]
<1>1. \E f : f = [k \in 0 .. N |-> IF k = 0 THEN Selves ELSE OneUp(f[k - 1])]
  BY NAssumption, GenerationsExist
<1>2. Ancestor = CHOOSE f : f = [k \in 0 .. N |-> IF k = 0 THEN Selves ELSE OneUp(f[k - 1])]
  BY DEF Ancestor, Selves, OneUp
<1> QED BY <1>1, <1>2

\* One generation at a time.
LEMMA AncestorSteps ==
  ASSUME NEW v \in Node
  PROVE  /\ Ancestor[0][v] = v
         /\ \A k \in 1 .. N : Ancestor[k][v] =
              IF Ancestor[k - 1][v] = NoParent THEN NoParent ELSE TreeParent(packed[Ancestor[k - 1][v]])
<1>1. 0 \in 0 .. N /\ \A k \in 1 .. N : k \in 0 .. N /\ k # 0
  BY NAssumption
<1>2. Ancestor[0] = Selves /\ \A k \in 1 .. N : Ancestor[k] = OneUp(Ancestor[k - 1])
  BY <1>1, AncestorUnfold
<1> QED BY <1>2 DEF Selves, OneUp

\* An ancestor is a node, or there is none.
LEMMA AncestorType ==
  ASSUME packed \in [Node -> Word], NEW v \in Node
  PROVE  \A k \in 0 .. N : Ancestor[k][v] \in 0 .. N
<1> DEFINE T == {k \in Nat : k <= N => Ancestor[k][v] \in 0 .. N}
<1>1. 0 \in T
  BY AncestorSteps, NAssumption DEF Node
<1>2. ASSUME NEW k \in Nat, k \in T PROVE k + 1 \in T
  <2> SUFFICES ASSUME k + 1 <= N PROVE Ancestor[k + 1][v] \in 0 .. N
    OBVIOUS
  <2>1. k + 1 \in 1 .. N /\ k + 1 - 1 = k /\ Ancestor[k][v] \in 0 .. N
    BY <1>2, NAssumption
  <2>2. Ancestor[k + 1][v] = IF Ancestor[k][v] = NoParent THEN NoParent ELSE TreeParent(packed[Ancestor[k][v]])
    BY <2>1, AncestorSteps
  <2>3. Ancestor[k][v] # NoParent => packed[Ancestor[k][v]] \in Word
    BY <2>1, WordFacts
  <2> QED BY <2>2, <2>3, WordFacts
<1> HIDE DEF T
<1>3. Nat \subseteq T
  BY <1>1, <1>2, NatSetInduction
<1> QED BY <1>3, NAssumption DEF T

\* i generations and then j are i + j.
LEMMA AncestorsAdd ==
  ASSUME packed \in [Node -> Word], NEW v \in Node, NEW i \in 0 .. N, Ancestor[i][v] # NoParent
  PROVE  \A j \in 0 .. N - i : Ancestor[i + j][v] = Ancestor[j][Ancestor[i][v]]
<1> DEFINE u == Ancestor[i][v]
           T == {j \in Nat : i + j <= N => Ancestor[i + j][v] = Ancestor[j][u]}
<1>0. u \in Node
  BY AncestorType, WordFacts
<1> HIDE DEF u
<1>1. 0 \in T
  BY <1>0, AncestorSteps DEF u
<1>2. ASSUME NEW j \in Nat, j \in T PROVE j + 1 \in T
  <2> SUFFICES ASSUME i + (j + 1) <= N PROVE Ancestor[i + (j + 1)][v] = Ancestor[j + 1][u]
    OBVIOUS
  <2>1. /\ i + (j + 1) \in 1 .. N /\ i + (j + 1) - 1 = i + j /\ j + 1 \in 1 .. N /\ j + 1 - 1 = j
        /\ Ancestor[i + j][v] = Ancestor[j][u]
    BY <1>2, NAssumption
  <2>2. Ancestor[i + (j + 1)][v] =
          IF Ancestor[i + j][v] = NoParent THEN NoParent ELSE TreeParent(packed[Ancestor[i + j][v]])
    BY <2>1, AncestorSteps
  <2>3. Ancestor[j + 1][u] = IF Ancestor[j][u] = NoParent THEN NoParent ELSE TreeParent(packed[Ancestor[j][u]])
    BY <1>0, <2>1, AncestorSteps
  <2> QED BY <2>1, <2>2, <2>3
<1> HIDE DEF T
<1>3. Nat \subseteq T
  BY <1>1, <1>2, NatSetInduction
<1>4. \A j \in 0 .. N - i : j \in Nat /\ i + j <= N
  BY NAssumption
<1>5. \A j \in 0 .. N - i : Ancestor[i + j][v] = Ancestor[j][u]
  BY <1>3, <1>4 DEF T
<1> QED BY <1>5 DEF u

-----------------------------------------------------------------------------
(***************************************************************************)
(* The jumping.                                                            *)
(***************************************************************************)

(***************************************************************************)
(* After r rounds an unmarked node has no root among its nearest 2^r - 1   *)
(* ancestors, and its pointer is the next one; a pointer that has run out  *)
(* has passed all ancestors.                                               *)
(***************************************************************************)
Generations ==
  \A v \in Node \ inv :
    /\ \A k \in 0 .. N : k < 2 ^ jumpRound => Ancestor[k][v] \notin Roots
    /\ jump[v] = NoParent => \A k \in 0 .. N : Ancestor[k][v] \notin Roots
    /\ jump[v] # NoParent /\ 2 ^ jumpRound <= N => jump[v] = Ancestor[2 ^ jumpRound][v]

\* The jumping leaves the packed tree alone.
LEMMA SameAncestors ==
  ASSUME packed' = packed
  PROVE  Ancestor' = Ancestor
BY DEF Ancestor, TreeParent, PackedInf, NoParent, Node

\* Beyond the root of a tree there is nothing.
LEMMA AncestorsEnd ==
  ASSUME NEW v \in Node, NEW i \in 0 .. N, Ancestor[i][v] = NoParent
  PROVE  \A k \in i .. N : Ancestor[k][v] = NoParent
<1> DEFINE T == {j \in Nat : i + j <= N => Ancestor[i + j][v] = NoParent}
<1>1. 0 \in T
  OBVIOUS
<1>2. ASSUME NEW j \in Nat, j \in T PROVE j + 1 \in T
  <2> SUFFICES ASSUME i + (j + 1) <= N PROVE Ancestor[i + (j + 1)][v] = NoParent
    OBVIOUS
  <2>1. i + (j + 1) \in 1 .. N /\ i + (j + 1) - 1 = i + j /\ Ancestor[i + j][v] = NoParent
    BY <1>2, NAssumption
  <2> QED BY <2>1, AncestorSteps
<1> HIDE DEF T
<1>3. Nat \subseteq T
  BY <1>1, <1>2, NatSetInduction
<1>4. ASSUME NEW k \in i .. N PROVE Ancestor[k][v] = NoParent
  <2>1. k - i \in Nat /\ i + (k - i) = k /\ i + (k - i) <= N
    BY NAssumption
  <2>2. k - i \in T
    BY <1>3, <2>1
  <2> QED BY <2>1, <2>2 DEF T
<1> QED BY <1>4

\* What is invalidated is nodes.
LEMMA RootsAreNodes ==
  ASSUME TypeOK
  PROVE  Roots \subseteq Node /\ NoParent \notin Roots
BY Constants DEF Roots, TypeOK

\* Before the first jump.
NoJumpYet == inv = Roots /\ jumpRound = 0 /\ \A v \in Node : jump[v] = TreeParent(packed[v])

\* One generation is looked at then.
LEMMA FirstGenerations == TypeOK /\ NoJumpYet => Generations
<1> SUFFICES ASSUME TypeOK, NoJumpYet, NEW v \in Node \ inv
             PROVE  /\ \A k \in 0 .. N : k < 2 ^ jumpRound => Ancestor[k][v] \notin Roots
                    /\ jump[v] = NoParent => \A k \in 0 .. N : Ancestor[k][v] \notin Roots
                    /\ jump[v] # NoParent /\ 2 ^ jumpRound <= N => jump[v] = Ancestor[2 ^ jumpRound][v]
  BY DEF Generations
<1> USE DEF NoJumpYet
<1>1. 2 ^ jumpRound = 1 /\ 1 \in 1 .. N /\ 1 - 1 = 0 /\ 1 \in 0 .. N
  BY PowersDouble, NAssumption
<1>2. Ancestor[0][v] = v /\ v \in Node /\ v # NoParent
  BY AncestorSteps, Constants
<1>3. Ancestor[1][v] = jump[v]
  <2>1. Ancestor[1][v] = IF Ancestor[0][v] = NoParent THEN NoParent ELSE TreeParent(packed[Ancestor[0][v]])
    BY <1>1, AncestorSteps
  <2> QED BY <1>2, <2>1
<1>4. \A k \in 0 .. N : k < 1 => Ancestor[k][v] \notin Roots
  <2>1. \A k \in 0 .. N : k < 1 => k = 0
    OBVIOUS
  <2> QED BY <1>2, <2>1
<1>5. ASSUME jump[v] = NoParent, NEW k \in 0 .. N PROVE Ancestor[k][v] \notin Roots
  <2>1. CASE k < 1
    BY <1>4, <2>1
  <2>2. CASE k \in 1 .. N
    <3>1. Ancestor[k][v] = NoParent
      BY <1>1, <1>3, <1>5, <2>2, AncestorsEnd
    <3> QED BY <3>1, RootsAreNodes
  <2> QED BY <2>1, <2>2
<1> QED BY <1>1, <1>3, <1>4, <1>5

\* The update begins with every pointer at the parent.
LEMMA BeginUpdateGenerations ==
  ASSUME UInv, BeginUpdate
  PROVE  Generations'
<1>1. TypeOK'
  BY MarkingKeepsTypes
<1>2. inv' = Roots' /\ jumpRound' = 0
  BY DEF BeginUpdate, recomputeVars, batchVars, PackState, Pack, PackedInf, Roots, DeletedTreeEdge, TreeParent
<1>3. \A v \in Node : jump'[v] = TreeParent(packed'[v])
  BY DEF BeginUpdate
<1>4. NoJumpYet'
  BY <1>2, <1>3 DEF NoJumpYet, TreeParent, PackedInf, NoParent, Node
<1> QED BY <1>1, <1>4, FirstGenerations, PTL

\* One launch of jumpKernel doubles the generations that are looked at.
LEMMA JumpRoundGenerations ==
  ASSUME UInv, Generations, JumpRound
  PROVE  Generations'
<1> USE JumpRoundFacts
<1>1. TypeOK /\ packed \in [Node -> Word] /\ UNCHANGED <<Ancestor, Roots>>
  BY SameAncestors DEF UInv, TypeOK
<1> DEFINE far == 2 ^ jumpRound
<1>2. far \in Nat /\ jumpRound' = jumpRound + 1 /\ 2 ^ jumpRound' = far * 2
  <2>1. jumpRound \in Nat /\ jumpRound' = jumpRound + 1
    BY <1>1 DEF TypeOK, JumpRound
  <2> QED BY <2>1, PowersDouble
<1> HIDE DEF far
<1> SUFFICES ASSUME NEW v \in Node \ inv'
             PROVE  /\ \A k \in 0 .. N : k < far * 2 => Ancestor[k][v] \notin Roots
                    /\ jump'[v] = NoParent => \A k \in 0 .. N : Ancestor[k][v] \notin Roots
                    /\ jump'[v] # NoParent /\ far * 2 <= N => jump'[v] = Ancestor[far * 2][v]
  BY <1>1, <1>2 DEF Generations, NoParent, Node
<1>3. /\ v \in Node /\ v \notin inv /\ v \notin JumpMarked
      /\ \A k \in 0 .. N : k < far => Ancestor[k][v] \notin Roots
      /\ jump[v] = NoParent => \A k \in 0 .. N : Ancestor[k][v] \notin Roots
      /\ jump[v] # NoParent /\ far <= N => jump[v] = Ancestor[far][v]
  BY DEF Generations, far
<1>4. CASE jump[v] = NoParent
  <2>1. jump'[v] = NoParent
    BY <1>3, <1>4 DEF JumpMoved, Halted
  <2> QED BY <1>3, <1>4, <2>1
<1>5. CASE jump[v] # NoParent
  <2> DEFINE u == jump[v]
  <2>1. u \in Node \ inv /\ jump'[v] = jump[u]
    BY <1>3, <1>5 DEF JumpMarked, JumpMoved, Halted
  <2>2. /\ \A k \in 0 .. N : k < far => Ancestor[k][u] \notin Roots
        /\ jump[u] = NoParent => \A k \in 0 .. N : Ancestor[k][u] \notin Roots
        /\ jump[u] # NoParent /\ far <= N => jump[u] = Ancestor[far][u]
    BY <2>1 DEF Generations, far
  <2>3. ASSUME NEW k \in 0 .. N, ~ (k < far)
        PROVE  k - far \in 0 .. N /\ Ancestor[k][v] = Ancestor[k - far][u]
    <3>1. far \in 0 .. N /\ k - far \in 0 .. N - far /\ far + (k - far) = k /\ k - far \in 0 .. N
      BY <1>2, <2>3, NAssumption
    <3>2. Ancestor[far][v] = u /\ u # NoParent
      BY <1>3, <1>5, <3>1
    <3>3. \A j \in 0 .. N - far : Ancestor[far + j][v] = Ancestor[j][u]
      BY <1>1, <3>1, <3>2, AncestorsAdd
    <3> QED BY <3>1, <3>3
  <2> HIDE DEF u
  <2>4. ASSUME NEW k \in 0 .. N, k < far * 2 PROVE Ancestor[k][v] \notin Roots
    <3>1. CASE k < far
      BY <1>3, <3>1
    <3>2. CASE ~ (k < far)
      <4>1. k - far < far
        BY <1>2, <2>4, <3>2
      <4> QED BY <2>2, <2>3, <3>2, <4>1
    <3> QED BY <3>1, <3>2
  <2>5. ASSUME jump'[v] = NoParent, NEW k \in 0 .. N PROVE Ancestor[k][v] \notin Roots
    BY <1>3, <2>1, <2>2, <2>3, <2>5
  <2>6. ASSUME jump'[v] # NoParent, far * 2 <= N PROVE jump'[v] = Ancestor[far * 2][v]
    <3>1. far * 2 \in 0 .. N /\ ~ (far * 2 < far) /\ far * 2 - far = far /\ far <= N
      BY <1>2, <2>6, NAssumption
    <3> QED BY <2>1, <2>2, <2>3, <2>6, <3>1
  <2> QED BY <2>4, <2>5, <2>6
<1> QED BY <1>4, <1>5

-----------------------------------------------------------------------------
(***************************************************************************)
(* The shortest distances and the words.                                   *)
(***************************************************************************)

\* What is used of the shortest distances.
Shortest(d) ==
  /\ d \in [Node -> Distance] /\ d[Source] = 0 /\ Respected(graph, d)
  /\ \A v \in Node \ {Source} : d[v] # Inf =>
       \E u \in graph.adj[v] : d[u] # Inf /\ d[v] = d[u] + graph.w[v]

\* The neighbours that v may hang from.
Supporters(d, v) == {u \in graph.adj[v] : d[u] # Inf /\ d[v] = d[u] + graph.w[v]}

\* v's word in the canonical tree.
FinalWord(d, v, x) ==
  IF v = Source THEN x = <<0, NoParent>>
  ELSE IF d[v] = Inf THEN x = PackedInf
  ELSE /\ x # PackedInf /\ x[1] = d[v] /\ x[2] \in Supporters(d, v)
       /\ \A u \in Supporters(d, v) : x[2] <= u

\* The nodes whose word will not change any more.
FinalNodes == {v \in Node : FinalWord(ShortestDistances(graph), v, packed[v])}

\* The words while the warps relax.
Justified ==
  /\ RecomputeTypeOK /\ packed \in [Node -> Word]
  /\ packed[Source] = <<0, NoParent>>
  /\ \A v \in Node \ {Source} : JustifiedBy(v, packed[v])

\* The reference definition satisfies it.
LEMMA ShortestDistancesAre ==
  ASSUME IsGraph(graph)
  PROVE  Shortest(ShortestDistances(graph))
<1> DEFINE D == ShortestDistances(graph)
<1>1. /\ N - 1 \in 0 .. N - 1 /\ N - 1 \in Nat /\ N \in Nat
      /\ N - 1 + 1 >= N - 1 /\ N - 1 >= N - 1 /\ N - 1 + 1 = N
  BY NAssumption
<1>2. /\ HopBound(graph, N - 1) = D /\ HopBound(graph, N) = D
      /\ D \in [Node -> Distance] /\ D[Source] = 0
      /\ \A v \in Node \ {Source} : D[v] # Inf =>
           \E u \in graph.adj[v] : D[u] # Inf /\ D[u] + graph.w[v] <= D[v]
  <2>1. HopBound(graph, N - 1) = D
    BY <1>1, HopBoundFacts
  <2>2. HopBound(graph, N) = D
    BY <1>1, HopBoundFacts
  <2> HIDE DEF D
  <2>3. /\ HopBound(graph, N - 1) \in [Node -> Distance] /\ HopBound(graph, N - 1)[Source] = 0
        /\ \A v \in Node \ {Source} : HopBound(graph, N - 1 + 1)[v] # Inf =>
              \E u \in graph.adj[v] : /\ HopBound(graph, N - 1)[u] # Inf
                                  /\ HopBound(graph, N - 1)[u] + graph.w[v] <= HopBound(graph, N - 1 + 1)[v]
    BY <1>1, HopBoundFacts
  <2> QED BY <1>1, <2>1, <2>2, <2>3
<1>3. Respected(graph, D)
  BY ShortestAreRespected
<1> HIDE DEF D
<1>4. ASSUME NEW v \in Node \ {Source}, D[v] # Inf
      PROVE  \E u \in graph.adj[v] : D[u] # Inf /\ D[v] = D[u] + graph.w[v]
  <2>1. PICK u \in graph.adj[v] : D[u] # Inf /\ D[u] + graph.w[v] <= D[v]
    BY <1>2, <1>4
  <2>2. NoMore(D[v], D[u] + graph.w[v])
    BY <1>3, <2>1 DEF Respected
  <2>3. u \in Node /\ D[u] \in Nat /\ D[v] \in Nat /\ graph.w[v] \in Nat /\ Inf \notin Nat
    BY <1>2, <1>4, <2>1, LineGraphFacts DEF Distance
  <2>4. D[u] + graph.w[v] \in Nat /\ D[u] + graph.w[v] # Inf
    BY <2>3
  <2> QED BY <2>1, <2>2, <2>3, <2>4 DEF NoMore
<1> QED BY <1>2, <1>3, <1>4 DEF Shortest, D

\* A supporter comes before the node in the search order; there is a least one.
LEMMA SupporterFacts ==
  ASSUME IsGraph(graph), NEW d, Shortest(d), NEW v \in Node \ {Source}, d[v] # Inf
  PROVE  /\ \A u \in Supporters(d, v) : /\ u \in Node /\ u \in Nat /\ d[u] \in Nat /\ d[v] \in Nat
                                        /\ SearchKey(d, u) < SearchKey(d, v)
         /\ \E p \in Supporters(d, v) : \A u \in Supporters(d, v) : p <= u
<1>1. ASSUME NEW u \in Supporters(d, v)
      PROVE  u \in Node /\ u \in Nat /\ d[u] \in Nat /\ d[v] \in Nat /\ SearchKey(d, u) < SearchKey(d, v)
  <2>1. /\ u \in graph.adj[v] /\ u \in Node /\ d[u] \in Nat /\ d[v] \in Nat /\ graph.w[v] \in Nat
        /\ d[v] = d[u] + graph.w[v] /\ u # v /\ (v # Target => graph.w[v] > 0)
    BY LineGraphFacts DEF Supporters, Shortest, Distance, Virtual
  <2>2. SearchKey(d, u) < SearchKey(d, v)
    BY <2>1 DEF SearchKey
  <2> QED BY <2>1, <2>2, Constants
<1>2. Supporters(d, v) # {}
  BY DEF Shortest, Supporters
<1>3. \E p \in Supporters(d, v) : \A u \in Supporters(d, v) : p <= u
  BY <1>1, <1>2, LeastNatural
<1> QED BY <1>1, <1>3

\* No word is below the shortest distance.
LEMMA WordsNotBelow ==
  ASSUME Justified, NEW d, Shortest(d)
  PROVE  \A v \in Node : packed[v] # PackedInf => d[v] # Inf /\ d[v] <= packed[v][1]
<1> DEFINE Bad == {v \in Node : packed[v] # PackedInf /\ ~ (d[v] # Inf /\ d[v] <= packed[v][1])}
           Key(v) == 2 * packed[v][1] + (IF v = Target THEN 1 ELSE 0)
<1> SUFFICES ASSUME Bad # {} PROVE FALSE
  OBVIOUS
<1>1. IsGraph(graph) /\ \A v \in Node : packed[v][1] \in Nat
  BY WordFacts DEF Justified, RecomputeTypeOK
<1>2. PICK v \in Bad : \A u \in Bad : Key(v) <= Key(u)
  <2>1. {Key(u) : u \in Bad} \in SUBSET Nat /\ {Key(u) : u \in Bad} # {}
    BY <1>1
  <2>2. PICK k \in {Key(u) : u \in Bad} : \A j \in {Key(u) : u \in Bad} : k <= j
    BY <2>1, LeastNatural
  <2> QED BY <2>2
<1>3. v \in Node /\ packed[v] # PackedInf /\ v # Source
  BY Constants DEF Justified, Shortest
<1> DEFINE p == packed[v][2]
<1>4. /\ p \in graph.adj[v] /\ packed[p] # PackedInf /\ packed[v][1] >= packed[p][1] + graph.w[v]
      /\ p \in Node /\ p # v /\ graph.w[v] \in Nat /\ (v # Target => graph.w[v] > 0)
  BY <1>1, <1>3, LineGraphFacts DEF Justified, JustifiedBy, Virtual
<1>5. Key(p) < Key(v)
  BY <1>1, <1>3, <1>4
<1>6. p \notin Bad
  <2>1. Key(p) \in Nat /\ Key(v) \in Nat
    BY <1>1, <1>3, <1>4
  <2> HIDE DEF Key, Bad
  <2> QED BY <1>2, <1>5, <2>1
<1>7. d[p] # Inf /\ d[p] <= packed[p][1] /\ d[p] \in Nat
  BY <1>4, <1>6 DEF Shortest, Distance
<1>8. NoMore(d[v], d[p] + graph.w[v])
  BY <1>3, <1>4, <1>7 DEF Shortest, Respected
<1>9. d[v] # Inf /\ d[v] <= d[p] + graph.w[v] /\ d[v] \in Nat
  BY <1>3, <1>4, <1>7, <1>8, LineGraphFacts, <1>1 DEF NoMore, Shortest, Distance
<1>10. d[v] <= packed[v][1]
  BY <1>1, <1>3, <1>4, <1>7, <1>9
<1> QED BY <1>2, <1>9, <1>10

\* A good word offers a final node nothing.
LEMMA FinalStays ==
  ASSUME Justified, NEW d, Shortest(d), NEW v \in Node, FinalWord(d, v, packed[v]),
         NEW c \in Word, c # PackedInf, Good(v, c)
  PROVE  ~ Less(c, packed[v])
<1>1. IsGraph(graph) /\ v # Source
  BY DEF Justified, RecomputeTypeOK, Good
<1> DEFINE p == c[2]
<1>2. /\ p \in graph.adj[v] /\ packed[p] # PackedInf /\ c[1] >= packed[p][1] + graph.w[v]
      /\ p \in Node /\ graph.w[v] \in Nat /\ packed[p][1] \in Nat /\ c[1] \in Nat /\ p \in Nat
  BY <1>1, LineGraphFacts, WordFacts, Constants DEF Good, JustifiedBy, Justified
<1>3. d[p] # Inf /\ d[p] <= packed[p][1] /\ d[p] \in Nat
  BY <1>2, WordsNotBelow DEF Shortest, Distance
<1>4. d[v] # Inf /\ d[v] \in Nat /\ d[v] <= d[p] + graph.w[v]
  <2>1. NoMore(d[v], d[p] + graph.w[v])
    BY <1>1, <1>2, <1>3 DEF Shortest, Respected
  <2>2. d[p] + graph.w[v] \in Nat /\ Inf \notin Nat
    BY <1>1, <1>2, <1>3, LineGraphFacts
  <2> QED BY <2>1, <2>2 DEF NoMore, Shortest, Distance
<1>5. packed[v][1] = d[v] /\ \A u \in Supporters(d, v) : packed[v][2] <= u
  BY <1>1, <1>4 DEF FinalWord
<1>6. packed[v][2] \in Nat
  BY WordFacts DEF Justified
<1>7. CASE c[1] = d[v]
  <2>1. d[v] = d[p] + graph.w[v]
    BY <1>2, <1>3, <1>4, <1>7
  <2>2. p \in Supporters(d, v)
    BY <1>2, <1>3, <2>1 DEF Supporters
  <2>3. packed[v][2] <= p
    BY <1>5, <2>2
  <2> QED BY <1>2, <1>4, <1>5, <1>6, <1>7, <2>3 DEF Less
<1>8. CASE c[1] # d[v]
  BY <1>2, <1>3, <1>4, <1>5, <1>8 DEF Less
<1> QED BY <1>7, <1>8

\* Between two launches some node of the next frontier is final.
LEMMA FrontierHasFinal ==
  ASSUME Justified, NEW d, Shortest(d), NEW F \in SUBSET Node, F # {},
         \A u, v \in Node : Improves(u, v) => u \in F
  PROVE  \E m \in F : FinalWord(d, m, packed[m])
<1> DEFINE Open == {v \in Node : ~ FinalWord(d, v, packed[v])}
<1> SUFFICES ASSUME \A m \in F : m \in Open PROVE FALSE
  OBVIOUS
<1>1. IsGraph(graph) /\ \A v \in Node : packed[v][1] \in Nat /\ packed[v][2] \in Nat /\ packed[v] \in Word
  BY WordFacts DEF Justified, RecomputeTypeOK
<1>2. \A v \in Open : v \in Node \ {Source} /\ d[v] # Inf /\ d[v] \in Nat
  <2> SUFFICES ASSUME NEW v \in Open PROVE v # Source /\ d[v] # Inf /\ d[v] \in Nat
    OBVIOUS
  <2>1. v # Source
    BY DEF FinalWord, Justified
  <2>2. d[v] # Inf
    BY <2>1, WordsNotBelow DEF FinalWord
  <2> QED BY <2>1, <2>2 DEF Shortest, Distance
<1>3. PICK m \in Open : \A u \in Open : SearchKey(d, m) <= SearchKey(d, u)
  <2>1. {SearchKey(d, u) : u \in Open} \in SUBSET Nat /\ {SearchKey(d, u) : u \in Open} # {}
    BY <1>2 DEF SearchKey
  <2>2. PICK k \in {SearchKey(d, u) : u \in Open} : \A j \in {SearchKey(d, u) : u \in Open} : k <= j
    BY <2>1, LeastNatural
  <2> QED BY <2>2
<1>4. m \in Node \ {Source} /\ d[m] # Inf /\ d[m] \in Nat
  BY <1>2
<1>5. PICK p \in Supporters(d, m) : \A u \in Supporters(d, m) : p <= u
  BY <1>1, <1>4, SupporterFacts
<1>6. /\ p \in Node /\ p \in Nat /\ d[p] \in Nat /\ SearchKey(d, p) < SearchKey(d, m)
      /\ p \in graph.adj[m] /\ d[p] # Inf /\ d[m] = d[p] + graph.w[m] /\ graph.w[m] \in Nat
      /\ m \in graph.adj[p]
  BY <1>1, <1>4, SupporterFacts, GraphFacts DEF Supporters
<1>7. FinalWord(d, p, packed[p]) /\ p \notin F
  <2>1. SearchKey(d, p) \in Nat /\ SearchKey(d, m) \in Nat
    BY <1>4, <1>6 DEF SearchKey
  <2>2. p \notin Open
    BY <1>3, <1>6, <2>1
  <2> QED BY <1>6, <2>2
<1>8. packed[p] # PackedInf /\ packed[p][1] = d[p]
  BY <1>6, <1>7, BoundsAssumption DEF FinalWord, Shortest, PackedInf
<1>9. packed[m] # PackedInf /\ ~ Less(Offer(packed[p], p, m), packed[m])
  BY <1>4, <1>6, <1>7, <1>8 DEF Improves
<1>10. Offer(packed[p], p, m) = <<d[m], p>>
  BY <1>6, <1>8 DEF Offer
<1>11. packed[m][1] = d[m] /\ packed[m][2] <= p
  <2>1. d[m] <= packed[m][1]
    BY <1>4, <1>9, WordsNotBelow
  <2> QED BY <1>1, <1>4, <1>6, <1>9, <1>10, <2>1 DEF Less
<1> DEFINE q == packed[m][2]
<1>12. /\ q \in graph.adj[m] /\ packed[q] # PackedInf /\ packed[m][1] >= packed[q][1] + graph.w[m]
       /\ q \in Node /\ packed[q][1] \in Nat
  BY <1>1, <1>4, <1>9, GraphFacts DEF Justified, JustifiedBy
<1>13. d[q] # Inf /\ d[q] <= packed[q][1] /\ d[q] \in Nat
  BY <1>12, WordsNotBelow DEF Shortest, Distance
<1>14. d[m] <= d[q] + graph.w[m]
  <2>1. NoMore(d[m], d[q] + graph.w[m])
    BY <1>4, <1>12, <1>13 DEF Shortest, Respected
  <2>2. d[q] + graph.w[m] \in Nat /\ Inf \notin Nat
    BY <1>1, <1>6, <1>13, Constants
  <2> QED BY <2>1, <2>2 DEF NoMore
<1>15. q \in Supporters(d, m)
  BY <1>4, <1>6, <1>11, <1>12, <1>13, <1>14 DEF Supporters
<1>16. q = p
  <2>1. p <= q /\ q <= p
    BY <1>5, <1>11, <1>15
  <2> QED BY <1>1, <1>4, <1>6, <2>1
<1>17. FinalWord(d, m, packed[m])
  BY <1>4, <1>5, <1>9, <1>11, <1>15, <1>16 DEF FinalWord
<1> QED BY <1>17

-----------------------------------------------------------------------------
(***************************************************************************)
(* The pushing.                                                            *)
(***************************************************************************)

(***************************************************************************)
(* At least as many nodes are done, that is final and not on the next      *)
(* frontier, as pushes have been launched.                                 *)
(***************************************************************************)
PushesCounted ==
  /\ iterations <= N
  /\ pc # "push" => iterations = 0
  /\ pc = "push" /\ ~overflow => iterations <= Cardinality(FinalNodes \ next)

\* Unless the update is about to fall back, the words are justified.
LEMMA RelaxingJustified ==
  ASSUME UConv, pc \in {"pull", "insert", "push"}, ~overflow
  PROVE  Justified /\ Words /\ Shortest(ShortestDistances(graph))
<1>1. UInv /\ converged
  BY DEF UConv
<1>2. TypeOK /\ RecomputeTypeOK /\ Words /\ \A v \in Node \ {Source} : JustifiedBy(v, packed[v])
  BY <1>1, RelaxingFacts
<1>3. Shortest(ShortestDistances(graph))
  BY <1>2, ShortestDistancesAre DEF RecomputeTypeOK
<1> QED BY <1>2, <1>3 DEF Justified, Words, TypeOK

\* A launch: the frontier's final node is done once it has been pushed.
LEMMA LaunchPushCounted ==
  ASSUME UConv, PushesCounted, LaunchPush
  PROVE  PushesCounted'
<1>1. /\ pc \in {"insert", "push"} /\ AllDone /\ nextLen > 0 /\ ~overflow
      /\ pc' = "push" /\ next' = {} /\ iterations' = iterations + 1 /\ UNCHANGED <<graph, packed, overflow>>
  BY DEF LaunchPush, AtLoopTest, BudgetSpent
<1>2. /\ TypeOK /\ ListsOK /\ Justified /\ Shortest(ShortestDistances(graph))
      /\ \A u, v \in Node : Improves(u, v) => Covered(u, v)
  BY <1>1, RelaxingJustified, RelaxingFacts DEF UConv
<1>3. next \in SUBSET Node /\ next # {}
  <2>1. next \in SUBSET Node /\ nextLen = Cardinality(next)
    BY <1>2 DEF TypeOK, ListsOK, FrontierWithoutDuplicates
  <2>2. nextLen # 0
    BY <1>1
  <2> QED BY <2>1, <2>2, FS_EmptySet
<1>4. ASSUME NEW u \in Node, NEW v \in Node, Improves(u, v) PROVE u \in next
  BY <1>1, <1>2, <1>4 DEF Covered, InPull, InsertionAhead, AllDone
<1> DEFINE D == ShortestDistances(graph)
<1>5. PICK m \in next : FinalWord(D, m, packed[m])
  <2> HIDE DEF D
  <2>1. Shortest(D)
    BY <1>2 DEF D
  <2> QED BY <1>2, <1>3, <1>4, <2>1, FrontierHasFinal
<1>6. m \in FinalNodes /\ m \in Node
  BY <1>3, <1>5 DEF FinalNodes
<1>7. FinalNodes' = FinalNodes
  BY <1>1 DEF FinalNodes, FinalWord, Supporters, ShortestDistances, CheapestWalks, PackedInf, NoParent,
     Node, Reached
<1>8. iterations <= Cardinality(FinalNodes \ next) /\ iterations \in Nat
  <2>1. Cardinality(FinalNodes \ next) \in Nat
    BY NodesFinite DEF FinalNodes
  <2> QED BY <1>1, <1>2, <2>1 DEF PushesCounted, TypeOK
<1>9. iterations + 1 <= Cardinality(FinalNodes) /\ Cardinality(FinalNodes) <= N
  <2>1. /\ FinalNodes \in SUBSET Node /\ IsFiniteSet(FinalNodes) /\ Cardinality(FinalNodes) \in Nat
        /\ FinalNodes \ next \in SUBSET FinalNodes /\ FinalNodes \ next # FinalNodes
    BY <1>6, NodesFinite DEF FinalNodes
  <2>2. /\ Cardinality(FinalNodes \ next) \in Nat
        /\ Cardinality(FinalNodes \ next) <= Cardinality(FinalNodes)
        /\ Cardinality(FinalNodes \ next) # Cardinality(FinalNodes)
    BY <2>1, FS_Subset, FS_CardinalityType
  <2>3. Cardinality(FinalNodes) <= N
    <3>1. 0 \in Int /\ N - 1 \in Int /\ N \in Nat /\ N > 0
      BY NAssumption
    <3>2. IsFiniteSet(0 .. N - 1) /\ Cardinality(0 .. N - 1) = N
      BY <3>1, FS_Interval
    <3> QED BY <2>1, <3>2, FS_Subset DEF Node
  <2> QED BY <1>8, <2>1, <2>2, <2>3
<1>10. FinalNodes' \ next' = FinalNodes
  BY <1>1, <1>7
<1>11. iterations' <= N /\ iterations' <= Cardinality(FinalNodes' \ next')
  <2>1. Cardinality(FinalNodes) \in Nat
    BY NodesFinite DEF FinalNodes
  <2> QED BY <1>1, <1>8, <1>9, <1>10, <2>1, NAssumption
<1> QED BY <1>1, <1>11 DEF PushesCounted

\* An access of a push warp: what is final and done stays so.
LEMMA PushingCounted ==
  ASSUME UConv, PushesCounted, pc = "push", pc' = "push", iterations' = iterations, graph' = graph,
         ~ overflow' => ~ overflow /\ FinalNodes \ next \subseteq FinalNodes' \ next'
  PROVE  PushesCounted'
<1>1. iterations \in Nat
  BY DEF UConv, UInv, TypeOK
<1>2. ASSUME ~ overflow' PROVE iterations <= Cardinality(FinalNodes' \ next')
  <2>1. FinalNodes' \in SUBSET Node
    BY DEF FinalNodes, Node
  <2>2. /\ IsFiniteSet(FinalNodes' \ next') /\ Cardinality(FinalNodes' \ next') \in Nat
        /\ Cardinality(FinalNodes \ next) \in Nat
    BY <2>1, NodesFinite DEF FinalNodes
  <2>3. Cardinality(FinalNodes \ next) <= Cardinality(FinalNodes' \ next')
    BY <1>2, <2>2, FS_Subset
  <2> QED BY <1>1, <1>2, <2>2, <2>3 DEF PushesCounted
<1> QED BY <1>2 DEF PushesCounted

\* A warp loads its node's word.
LEMMA PushLoadCounted ==
  ASSUME UConv, PushesCounted, NEW u \in Node, PushLoad(u)
  PROVE  PushesCounted'
<1>1. /\ pc = "push" /\ pc' = "push" /\ iterations' = iterations
      /\ UNCHANGED <<graph, packed, next>> /\ (~ overflow' => ~ overflow)
  BY DEF PushLoad, listVars
<1>2. FinalNodes' = FinalNodes
  BY <1>1 DEF FinalNodes, FinalWord, Supporters, ShortestDistances, CheapestWalks, PackedInf, NoParent,
     Node, Reached
<1> QED BY <1>1, <1>2, PushingCounted

\* A lane relaxes: a final node is neither changed nor enqueued.
LEMMA RelaxLaneCounted ==
  ASSUME UConv, PushesCounted, NEW l \in lanes, RelaxLane(l)
  PROVE  PushesCounted'
<1>1. /\ pc \in {"insert", "push"} /\ pc' = pc
      /\ UNCHANGED <<iterations, graph, overflow>> /\ Relax(l[1], l[2])
  BY DEF RelaxLane, counterVars
<1>2. CASE pc = "insert"
  BY <1>1, <1>2 DEF PushesCounted
<1>3. CASE pc = "push"
  <2>1. ASSUME ~ overflow', NEW v \in FinalNodes \ next PROVE v \in FinalNodes' \ next'
    <3>1. TypeOK /\ Justified /\ Words /\ Shortest(ShortestDistances(graph))
      BY <1>1, <1>3, <2>1, RelaxingJustified DEF UConv, UInv
    <3>2. /\ l[1] \in Node \ {Source} /\ l[2] \in Word /\ l[2][1] < Limit /\ l[2] # PackedInf
          /\ Good(l[1], l[2])
      BY <3>1, BoundsAssumption DEF TypeOK, Words, Good, PackedInf
    <3>3. RelaxContext(l[1], l[2])
      BY <1>1, <3>1, <3>2 DEF RelaxContext
    <3> DEFINE D == ShortestDistances(graph)
    <3>4. v \in Node /\ FinalWord(D, v, packed[v]) /\ v \notin next
      BY <2>1 DEF FinalNodes
    <3> HIDE DEF D
    <3>5. packed'[v] = packed[v] /\ v \notin next'
      <4>1. CASE v = l[1]
        <5>1. ~ Less(l[2], packed[v])
          BY <3>1, <3>2, <3>4, <4>1, FinalStays DEF D
        <5> QED BY <1>1, <3>4, <4>1, <5>1 DEF Relax, listVars
      <4>2. CASE v # l[1]
        <5>1. packed'[v] = packed[v]
          BY <3>3, <3>4, <4>2, RelaxFacts
        <5>2. v \notin next'
          BY <1>1, <3>4, <4>2 DEF Relax, Enqueue, listVars
        <5> QED BY <5>1, <5>2
      <4> QED BY <4>1, <4>2
    <3>6. Supporters(D, v)' = Supporters(D, v)
      <4>1. D' = D
        BY <1>1 DEF D, ShortestDistances, CheapestWalks, Node, Reached
      <4> QED BY <1>1, <4>1 DEF Supporters
    <3>7. FinalWord(D, v, packed[v])'
      <4>1. D' = D
        BY <1>1 DEF D, ShortestDistances, CheapestWalks, Node, Reached
      <4> QED BY <3>4, <3>5, <3>6, <4>1 DEF FinalWord, PackedInf, NoParent
    <3> QED BY <3>4, <3>5, <3>7 DEF FinalNodes, D, Node
  <2> QED BY <1>1, <1>3, <2>1, PushingCounted
<1> QED BY <1>1, <1>2, <1>3

-----------------------------------------------------------------------------
(***************************************************************************)
(* The inductive invariant.                                                *)
(***************************************************************************)
RInv ==
  /\ UConv
  /\ pc = "jump" => Generations
  /\ PushesCounted

\* It holds initially.
LEMMA RInvInit == Init => RInv
BY UConvInit, NAssumption DEF Init, RecomputeInit, RInv, PushesCounted

\* Every step keeps the invariant.
LEMMA RInvNext == RInv /\ [Next]_vars => RInv'
<1> SUFFICES ASSUME RInv, [Next]_vars PROVE RInv'
  OBVIOUS
<1>1. UConv /\ PushesCounted /\ UConv' /\ UInv
  BY UConvNext DEF RInv, UConv
<1>2. ASSUME pc' \notin {"jump", "push"}, iterations' = 0 PROVE RInv'
  BY <1>1, <1>2, NAssumption DEF RInv, PushesCounted
<1>3. ASSUME pc \notin {"push"}, iterations' = iterations, pc' \notin {"jump", "push"} PROVE RInv'
  BY <1>1, <1>2, <1>3 DEF PushesCounted
<1>4. CASE FirstRecompute
  BY <1>3, <1>4 DEF FirstRecompute, StartRecompute, Reset, updateVars, counterVars
<1>5. CASE RecomputeStepOnly
  BY <1>3, <1>5 DEF RecomputeStepOnly, RecomputeStep, NextRound, StopRecompute, PullRead, PullWrite,
     updateVars, counterVars
<1>6. ASSUME NEW g \in Graphs, NEW created \in SUBSET g.live, ApplyBatch(g, created) PROVE RInv'
  BY <1>3, <1>6 DEF ApplyBatch, counterVars
<1>7. CASE BeginUpdate
  <2>1. pc' = "jump" /\ iterations' = 0
    BY <1>7 DEF BeginUpdate
  <2>2. Generations'
    BY <1>1, <1>7, BeginUpdateGenerations
  <2> QED BY <1>1, <2>1, <2>2, NAssumption DEF RInv, PushesCounted
<1>8. CASE JumpRound
  <2>1. pc = "jump" /\ pc' \in {"jump", "marked", "giveup"} /\ iterations' = iterations
    BY <1>1, <1>8, JumpRoundFacts DEF JumpRound, counterVars
  <2>2. Generations'
    BY <1>1, <1>8, <2>1, JumpRoundGenerations DEF RInv
  <2> QED BY <1>1, <2>1, <2>2 DEF RInv, PushesCounted
<1>9. CASE Invalidate
  BY <1>3, <1>9 DEF Invalidate, counterVars
<1>10. ASSUME NEW v \in Node, NEW p \in Node, InvalidatedRead(v, p) PROVE RInv'
  BY <1>3, <1>10 DEF InvalidatedRead
<1>11. ASSUME NEW v \in Node, InvalidatedRelax(v) PROVE RInv'
  BY <1>3, <1>11 DEF InvalidatedRelax
<1>12. CASE LaunchInserted
  BY <1>3, <1>12 DEF LaunchInserted, counterVars
<1>13. ASSUME NEW u \in Node, NEW v \in Node, InsertedLoad(u, v) PROVE RInv'
  BY <1>3, <1>13 DEF InsertedLoad
<1>14. ASSUME NEW u \in Node, PushLoad(u) PROVE RInv'
  BY <1>1, <1>14, PushLoadCounted DEF RInv, PushLoad
<1>15. ASSUME NEW l \in lanes, RelaxLane(l) PROVE RInv'
  BY <1>1, <1>15, RelaxLaneCounted DEF RInv, RelaxLane
<1>16. CASE LaunchPush
  BY <1>1, <1>16, LaunchPushCounted DEF RInv, LaunchPush
<1>17. CASE Unpack
  BY <1>2, <1>17 DEF Unpack, DropScratch
<1>18. CASE FallBack
  BY <1>2, <1>18 DEF FallBack, Reset, DropScratch
<1>19. CASE UNCHANGED vars
  <2>1. UNCHANGED <<pc, inv, jump, jumpRound, iterations, overflow, graph, packed, next, dist, parent, delta>>
    BY <1>19 DEF vars, rvars, recomputeVars, updateVars, batchVars, markVars, listVars, counterVars
  <2>2. Ancestor' = Ancestor /\ Roots' = Roots
    BY <2>1, SameAncestors DEF Roots, DeletedTreeEdge, TreeParent, PackState, Pack, PackedInf
  <2>3. Generations' <=> Generations
    BY <2>1, <2>2 DEF Generations, NoParent, Node
  <2>4. FinalNodes' = FinalNodes
    BY <2>1 DEF FinalNodes, FinalWord, Supporters, ShortestDistances, CheapestWalks, PackedInf, NoParent, Node,
       Reached
  <2> QED BY <1>1, <2>1, <2>3, <2>4 DEF RInv, PushesCounted
<1> QED BY <1>4, <1>5, <1>6, <1>7, <1>8, <1>9, <1>10, <1>11, <1>12, <1>13, <1>14, <1>15, <1>16, <1>17,
           <1>18, <1>19
        DEF Next, Compute, UpdateStep, Finished

(***************************************************************************)
(* Both loops end as early as their comments say, whatever the graph, the  *)
(* order of the warps and the budgets.                                     *)
(***************************************************************************)
THEOREM LoopsEndEarly == Spec => []RoundsBounded
<1>1. RInv => RoundsBounded
  BY DEF RInv, Generations, RoundsBounded, MarkedInLogRounds, PushRoundsBounded, PushesCounted
<1> QED BY <1>1, RInvInit, RInvNext, PTL DEF Spec
=============================================================================
