----------------------- MODULE SequentialUpdateProofs -----------------------
(***************************************************************************)
(* Theorems about SequentialUpdate, for every set of digraphs, every       *)
(* sequence of batches and every order of the vertices within a sweep.     *)
(*                                                                         *)
(* The invariant SInv says that every distance is supported by the parent, *)
(* that every pair that an edge could better is about to be evaluated, and *)
(* that after s sweeps no distance exceeds the cheapest walk of s edges.   *)
(***************************************************************************)
EXTENDS SequentialUpdate, WeightedDigraphProofs

Running == phase \in {"roots", "heads", "sweep"}

STypeOK ==
  /\ IsDigraph(graph)
  /\ dist \in [Node -> Distance] /\ parent \in [Node -> Node \cup {NoParent}]
  /\ phase \in {"idle", "roots", "heads", "sweep"}
  /\ todo \in SUBSET (Node \ {Source}) /\ affected \in SUBSET (Node \ {Source})
  /\ inserts \in InsertionLists /\ sweeps \in Nat

\* The pair of v cannot be bettered by u.
Settled(u, v) ==
  dist[u] # Inf => /\ dist[u] + graph[<<u, v>>] >= dist[v]
                   /\ dist[u] + graph[<<u, v>>] = dist[v] => u >= parent[v]

\* The parts of an update: what the phases have left to do.
Phases ==
  /\ phase = "idle" => tree = CanonicalTree(graph)
  /\ phase \in {"roots", "heads"} => sweeps = 0
  /\ phase \in {"idle", "heads"} => todo = {}
  /\ phase = "sweep" => inserts = <<>>

\* The hops that the sweeps have settled, and that the last useful one changes nothing.
HopsSettled ==
  Running =>
    /\ \A v \in Node : dist[v] <= WalkLengths(graph, sweeps)[v]
    /\ phase = "sweep" => \A v \in Node \ todo : dist[v] <= WalkLengths(graph, sweeps + 1)[v]
    /\ sweeps >= N - 1 => affected = {}

SInv ==
  /\ STypeOK /\ Phases /\ NoStaleCycle /\ NothingForgotten /\ HopsSettled
  /\ Running => dist[Source] = 0 /\ parent[Source] = NoParent

-----------------------------------------------------------------------------
(***************************************************************************)
(* The subtrees: N rounds are enough.                                      *)
(***************************************************************************)
Children(tails, S) == {v \in Node \ {Source} : tails[v] \in S}

Descents(tails, roots, m, f) ==
  f = [k \in 0 .. m |-> IF k = 0 THEN roots ELSE f[k - 1] \cup Children(tails, f[k - 1])]

LEMMA DescentsExist ==
  ASSUME NEW tails, NEW roots
  PROVE  \A m \in Nat : \E f : Descents(tails, roots, m, f)
<1> DEFINE T == {m \in Nat : \E f : Descents(tails, roots, m, f)}
<1>1. 0 \in T
  <2> DEFINE f == [k \in 0 .. 0 |-> roots]
  <2>1. f = [k \in 0 .. 0 |-> IF k = 0 THEN roots ELSE f[k - 1] \cup Children(tails, f[k - 1])]
    OBVIOUS
  <2> QED BY <2>1 DEF Descents
<1>2. ASSUME NEW m \in Nat, m \in T PROVE m + 1 \in T
  <2>1. PICK f : Descents(tails, roots, m, f)
    BY <1>2
  <2>2. f = [k \in 0 .. m |-> IF k = 0 THEN roots ELSE f[k - 1] \cup Children(tails, f[k - 1])]
    BY <2>1 DEF Descents
  <2> DEFINE e == [k \in 0 .. m + 1 |-> IF k \in 0 .. m THEN f[k] ELSE f[m] \cup Children(tails, f[m])]
  <2>3. /\ \A k \in 0 .. m : e[k] = f[k]
        /\ e[m + 1] = f[m] \cup Children(tails, f[m])
        /\ e = [k \in 0 .. m + 1 |-> e[k]]
    OBVIOUS
  <2> HIDE DEF e
  <2>4. ASSUME NEW k \in 0 .. m + 1 PROVE e[k] = IF k = 0 THEN roots ELSE e[k - 1] \cup Children(tails, e[k - 1])
    <3>1. CASE k = 0
      <4>1. 0 \in 0 .. m
        OBVIOUS
      <4>2. e[0] = f[0] /\ f[0] = roots
        BY <2>2, <2>3, <4>1
      <4> QED BY <3>1, <4>2
    <3>2. CASE k \in 1 .. m
      <4>1. k \in 0 .. m /\ k - 1 \in 0 .. m /\ k # 0
        BY <3>2
      <4>2. e[k] = f[k] /\ e[k - 1] = f[k - 1]
        BY <2>3, <4>1
      <4> QED BY <2>2, <4>1, <4>2
    <3>3. CASE k = m + 1
      <4>1. k - 1 = m /\ m \in 0 .. m /\ k # 0
        BY <3>3
      <4>2. e[k - 1] = f[m]
        BY <2>3, <4>1
      <4> QED BY <2>3, <3>3, <4>1, <4>2
    <3> QED BY <3>1, <3>2, <3>3
  <2>5. Descents(tails, roots, m + 1, e)
    BY <2>3, <2>4 DEF Descents
  <2> QED BY <2>5
<1> HIDE DEF T
<1>3. Nat \subseteq T
  BY <1>1, <1>2, NatSetInduction
<1> QED BY <1>3 DEF T

\* The subtrees contain the roots and whatever hangs from one of them.
LEMMA SubtreesFacts ==
  ASSUME NEW tails \in [Node -> Node \cup {NoParent}], NEW roots \in SUBSET (Node \ {Source})
  PROVE  /\ Subtrees(tails, roots) \in SUBSET (Node \ {Source}) /\ roots \subseteq Subtrees(tails, roots)
         /\ Children(tails, Subtrees(tails, roots)) \subseteq Subtrees(tails, roots)
<1> DEFINE f == CHOOSE x : Descents(tails, roots, N, x)
<1>0. N \in Nat \ {0} /\ Source \in Node
  BY NodesAssumption, SourceAssumption DEF Node
<1>1. Descents(tails, roots, N, f)
  BY <1>0, DescentsExist
<1>2. Subtrees(tails, roots) = f[N]
  BY DEF Subtrees, Descents, Children
<1> HIDE DEF f
<1>3. /\ f[0] = roots
      /\ \A k \in Nat : k + 1 <= N => f[k + 1] = f[k] \cup Children(tails, f[k])
  <2>1. f = [k \in 0 .. N |-> IF k = 0 THEN roots ELSE f[k - 1] \cup Children(tails, f[k - 1])]
    BY <1>1 DEF Descents
  <2>2. 0 \in 0 .. N
    BY <1>0
  <2>3. ASSUME NEW k \in Nat, k + 1 <= N PROVE f[k + 1] = f[k] \cup Children(tails, f[k])
    <3>1. k + 1 \in 0 .. N /\ k + 1 # 0 /\ (k + 1) - 1 = k
      BY <1>0, <2>3
    <3> QED BY <2>1, <3>1
  <2> QED BY <2>1, <2>2, <2>3
<1> DEFINE Good(k) == /\ f[k] \in SUBSET (Node \ {Source}) /\ roots \subseteq f[k]
                      /\ Children(tails, f[k]) \subseteq f[k] \/ Cardinality(f[k]) >= k
           T == {k \in Nat : k <= N => Good(k)}
<1>4. IsFiniteSet(Node \ {Source}) /\ Cardinality(Node \ {Source}) = N - 1
  <2>1. N \in Nat /\ N > 0 /\ 0 \in Int /\ N - 1 \in Int
    BY <1>0
  <2>2. IsFiniteSet(0 .. N - 1) /\ Cardinality(0 .. N - 1) = N
    BY <2>1, FS_Interval
  <2>3. IsFiniteSet(Node) /\ Cardinality(Node) = N
    BY <2>2 DEF Node
  <2> QED BY <1>0, <2>3, FS_RemoveElement
<1>5. \A S \in SUBSET (Node \ {Source}) : IsFiniteSet(S) /\ Cardinality(S) \in Nat /\ Cardinality(S) <= N - 1
  <2> SUFFICES ASSUME NEW S \in SUBSET (Node \ {Source})
               PROVE  IsFiniteSet(S) /\ Cardinality(S) \in Nat /\ Cardinality(S) <= N - 1
    OBVIOUS
  <2>1. IsFiniteSet(S) /\ Cardinality(S) <= N - 1
    BY <1>4, FS_Subset
  <2> QED BY <2>1, FS_CardinalityType
<1>6. 0 \in T
  <2>1. Cardinality(roots) >= 0
    BY <1>5
  <2> QED BY <1>3, <2>1
<1>7. ASSUME NEW k \in Nat, k \in T PROVE k + 1 \in T
  <2> SUFFICES ASSUME k + 1 <= N PROVE Good(k + 1)
    OBVIOUS
  <2>1. Good(k) /\ f[k + 1] = f[k] \cup Children(tails, f[k])
    BY <1>0, <1>3, <1>7
  <2>2. Children(tails, f[k]) \in SUBSET (Node \ {Source})
    BY DEF Children
  <2>3. CASE Children(tails, f[k]) \subseteq f[k]
    <3>1. f[k + 1] = f[k]
      BY <2>1, <2>3
    <3> QED BY <2>1, <2>3, <3>1
  <2>4. CASE ~ (Children(tails, f[k]) \subseteq f[k])
    <3>1. f[k + 1] \in SUBSET (Node \ {Source}) /\ f[k] \subseteq f[k + 1] /\ f[k] # f[k + 1]
      BY <2>1, <2>2, <2>4
    <3>2. Cardinality(f[k]) <= Cardinality(f[k + 1]) /\ Cardinality(f[k]) # Cardinality(f[k + 1])
      BY <1>5, <3>1, FS_Subset
    <3>3. Cardinality(f[k]) \in Nat /\ Cardinality(f[k + 1]) \in Nat /\ Cardinality(f[k]) >= k
      BY <1>5, <2>1, <2>4, <3>1
    <3>4. Cardinality(f[k + 1]) >= k + 1
      BY <3>2, <3>3
    <3> QED BY <2>1, <3>1, <3>4
  <2> QED BY <2>3, <2>4
<1> HIDE DEF T
<1>8. Nat \subseteq T
  BY <1>6, <1>7, NatSetInduction
<1>9. Good(N)
  BY <1>0, <1>8 DEF T
<1>10. ~ (Cardinality(f[N]) >= N)
  BY <1>0, <1>5, <1>9
<1> QED BY <1>2, <1>9, <1>10

-----------------------------------------------------------------------------
(***************************************************************************)
(* One evaluation.                                                         *)
(***************************************************************************)
Offer(u, v) == dist[u] + graph[<<u, v>>]

Offering(v) == {u \in InNeighbours(graph, v) : dist[u] # Inf}

LEMMA OfferTypes ==
  ASSUME STypeOK, NEW v \in Node, NEW u \in InNeighbours(graph, v)
  PROVE  u \in Node /\ u \in Nat /\ dist[u] \in Nat /\ graph[<<u, v>>] \in Nat \ {0} /\ Offer(u, v) \in Nat
         /\ Offer(u, v) > dist[u]
<1>1. u \in Node /\ u \in Nat /\ graph[<<u, v>>] \in Nat \ {0}
  BY DigraphFacts DEF STypeOK
<1>2. dist[u] \in Nat
  BY <1>1 DEF STypeOK, Distance
<1> QED BY <1>1, <1>2 DEF Offer

\* The best parent is the lowest among those with the least offer.
LEMMA BestFacts ==
  ASSUME STypeOK, NEW v \in Node
  PROVE  IF Offering(v) = {} THEN BestParent(v) = [dist |-> Inf, parent |-> NoParent]
         ELSE /\ BestParent(v).parent \in Offering(v) /\ BestParent(v).dist = Offer(BestParent(v).parent, v)
              /\ \A u \in Offering(v) :
                   BestParent(v).dist < Offer(u, v) \/ (BestParent(v).dist = Offer(u, v) /\ BestParent(v).parent <= u)
<1> DEFINE offers == {[dist |-> dist[u] + graph[<<u, v>>], parent |-> u] :
                        u \in {x \in InNeighbours(graph, v) : dist[x] # Inf}}
           Least(b) == \A o \in offers : b.dist < o.dist \/ (b.dist = o.dist /\ b.parent <= o.parent)
<1>1. BestParent(v) = IF offers = {} THEN [dist |-> Inf, parent |-> NoParent] ELSE CHOOSE b \in offers : Least(b)
  BY DEF BestParent
<1>2. /\ \A u \in Offering(v) : [dist |-> Offer(u, v), parent |-> u] \in offers
      /\ \A o \in offers : o.parent \in Offering(v) /\ o.dist = Offer(o.parent, v)
  <2>1. offers = {[dist |-> Offer(u, v), parent |-> u] : u \in Offering(v)}
    BY DEF Offering, Offer
  <2> HIDE DEF offers
  <2>2. \A o \in offers : \E u \in Offering(v) : o = [dist |-> Offer(u, v), parent |-> u]
    BY <2>1
  <2>3. \A o \in offers : o.parent \in Offering(v) /\ o.dist = Offer(o.parent, v)
    BY <2>2
  <2> QED BY <2>1, <2>3
<1>3. offers = {} <=> Offering(v) = {}
  BY DEF Offering
<1>4. \A u \in Offering(v) : Offer(u, v) \in Nat /\ u \in Nat
  BY OfferTypes DEF Offering
<1> HIDE DEF offers
<1>5. CASE Offering(v) = {}
  BY <1>1, <1>3, <1>5
<1>6. CASE Offering(v) # {}
  <2> DEFINE D == {Offer(u, v) : u \in Offering(v)}
  <2>1. D \in SUBSET Nat /\ D # {}
    BY <1>4, <1>6
  <2>2. PICK d \in D : \A x \in D : d <= x
    BY <2>1, LeastNatural
  <2> DEFINE P == {u \in Offering(v) : Offer(u, v) = d}
  <2>3. P \in SUBSET Nat /\ P # {}
    BY <1>4, <2>2
  <2>4. PICK p \in P : \A x \in P : p <= x
    BY <2>3, LeastNatural
  <2> DEFINE b == [dist |-> Offer(p, v), parent |-> p]
  <2>5. b \in offers /\ b.dist = d /\ b.parent = p
    BY <1>2, <2>4
  <2>6. Least(b)
    <3> SUFFICES ASSUME NEW o \in offers PROVE b.dist < o.dist \/ (b.dist = o.dist /\ b.parent <= o.parent)
      OBVIOUS
    <3>1. o.parent \in Offering(v) /\ o.dist = Offer(o.parent, v)
      BY <1>2
    <3>2. o.dist \in D /\ (o.dist = d => o.parent \in P)
      BY <3>1
    <3>3. d <= o.dist /\ d \in Nat /\ o.dist \in Nat
      BY <2>1, <2>2, <3>2
    <3> HIDE DEF D, P, b
    <3> QED BY <2>4, <2>5, <3>2, <3>3
  <2>7. BestParent(v) = CHOOSE x \in offers : Least(x)
    BY <1>1, <1>3, <1>6
  <2> HIDE DEF b, D, P
  <2>8. BestParent(v) \in offers /\ Least(BestParent(v))
    <3> HIDE DEF Least
    <3> QED BY <2>5, <2>6, <2>7
  <2>9. BestParent(v).parent \in Offering(v) /\ BestParent(v).dist = Offer(BestParent(v).parent, v)
    BY <1>2, <2>8
  <2>10. ASSUME NEW u \in Offering(v)
         PROVE BestParent(v).dist < Offer(u, v) \/ (BestParent(v).dist = Offer(u, v) /\ BestParent(v).parent <= u)
    <3> DEFINE o == [dist |-> Offer(u, v), parent |-> u]
    <3>1. o \in offers /\ o.dist = Offer(u, v) /\ o.parent = u
      BY <1>2
    <3> HIDE DEF o
    <3> QED BY <2>8, <3>1
  <2> QED BY <1>6, <2>9, <2>10
<1> QED BY <1>5, <1>6

LEMMA ParentIsInt == Node \cup {NoParent} \subseteq Int
<1>1. Node \subseteq Int /\ NoParent \in Int
  BY DEF Node, NoParent
<1> QED BY <1>1

\* An evaluation ends with a pair that no in-neighbour betters, and changes no other pair.
LEMMA RelaxFacts ==
  ASSUME STypeOK, NEW v \in Node \ {Source}, Relax(v), dist[v] = Inf <=> parent[v] = NoParent
  PROVE  /\ dist' \in [Node -> Distance] /\ parent' \in [Node -> Node \cup {NoParent}]
         /\ \A u \in Node \ {v} : dist'[u] = dist[u] /\ parent'[u] = parent[u]
         /\ dist'[v] <= dist[v]
         /\ \/ dist'[v] = dist[v] /\ parent'[v] = parent[v]
            \/ parent'[v] \in Offering(v) /\ dist'[v] = Offer(parent'[v], v) /\ dist'[v] # Inf
         /\ \A u \in Offering(v) :
              Offer(u, v) >= dist'[v] /\ (Offer(u, v) = dist'[v] => u >= parent'[v])
         /\ affected' = IF dist'[v] < dist[v] THEN affected \cup {v} ELSE affected
<1> DEFINE best == BestParent(v)
           better == \/ best.dist < dist[v]
                     \/ best.dist = dist[v] /\ best.parent \in Node /\ best.parent < parent[v]
<1>1. /\ dist' = IF better THEN [dist EXCEPT ![v] = best.dist] ELSE dist
      /\ parent' = IF better THEN [parent EXCEPT ![v] = best.parent] ELSE parent
      /\ affected' = IF best.dist < dist[v] THEN affected \cup {v} ELSE affected
  BY DEF Relax
<1>2. /\ IsDigraph(graph) /\ dist \in [Node -> Distance] /\ parent \in [Node -> Node \cup {NoParent}]
      /\ dist[v] \in Nat /\ dist[v] <= Inf /\ Inf \in Nat /\ parent[v] \in Int /\ Node \subseteq Nat
  <2>1. IsDigraph(graph) /\ dist \in [Node -> Distance] /\ parent \in [Node -> Node \cup {NoParent}]
    BY DEF STypeOK
  <2>2. Inf \in Nat /\ Node \subseteq Nat
    BY <2>1, DigraphFacts
  <2>3. parent[v] \in Node \cup {NoParent}
    BY <2>1
  <2>4. parent[v] \in Int
    BY <2>3, ParentIsInt
  <2>5. dist[v] \in Nat /\ dist[v] <= Inf
    BY <2>1, <2>2 DEF Distance
  <2> QED BY <2>1, <2>2, <2>4, <2>5
<1>3. \A u \in Offering(v) : u \in Node /\ Offer(u, v) \in Nat
  BY OfferTypes DEF Offering
<1> HIDE DEF best
<1>4. CASE Offering(v) = {}
  <2>1. best.dist = Inf /\ best.parent = NoParent
    BY <1>4, BestFacts DEF best
  <2>2. ~ better
    BY <1>2, <2>1 DEF NoParent
  <2>3. dist' = dist /\ parent' = parent /\ affected' = affected
    BY <1>1, <2>2
  <2> QED BY <1>2, <1>4, <2>3
<1>5. CASE Offering(v) # {}
  <2>1. /\ best.parent \in Offering(v) /\ best.dist = Offer(best.parent, v)
        /\ \A u \in Offering(v) :
             best.dist < Offer(u, v) \/ (best.dist = Offer(u, v) /\ best.parent <= u)
    BY <1>5, BestFacts DEF best
  <2>2. best.dist \in Nat /\ best.parent \in Node /\ best.parent \in Nat
    BY <1>2, <1>3, <2>1
  <2>3. CASE better
    <3>1. /\ dist' = [dist EXCEPT ![v] = best.dist] /\ parent' = [parent EXCEPT ![v] = best.parent]
          /\ best.dist <= dist[v]
      BY <1>1, <1>2, <2>2, <2>3
    <3>2. dist'[v] = best.dist /\ parent'[v] = best.parent
      BY <1>2, <3>1
    <3>3. best.dist \in Distance /\ best.dist # Inf
      BY <1>2, <2>2, <2>3, <3>1 DEF Distance, NoParent
    <3>4. dist' \in [Node -> Distance] /\ parent' \in [Node -> Node \cup {NoParent}]
      BY <1>2, <2>2, <3>1, <3>3
    <3>5. affected' = IF dist'[v] < dist[v] THEN affected \cup {v} ELSE affected
      BY <1>1, <3>2
    <3>6. \A u \in Node \ {v} : dist'[u] = dist[u] /\ parent'[u] = parent[u]
      BY <1>2, <3>1
    <3>7. \A u \in Offering(v) : Offer(u, v) >= best.dist /\ (Offer(u, v) = best.dist => u >= best.parent)
      BY <1>2, <1>3, <2>1, <2>2
    <3> QED BY <2>1, <3>1, <3>2, <3>3, <3>4, <3>5, <3>6, <3>7
  <2>4. CASE ~ better
    <3>1. dist' = dist /\ parent' = parent /\ affected' = affected
      BY <1>1, <2>4
    <3>2. best.dist >= dist[v] /\ (best.dist = dist[v] => best.parent >= parent[v])
      BY <1>2, <2>2, <2>4
    <3>3. ASSUME NEW u \in Offering(v)
          PROVE  Offer(u, v) >= dist[v] /\ (Offer(u, v) = dist[v] => u >= parent[v])
      <4>1. Offer(u, v) \in Nat /\ u \in Nat
        BY <1>2, <1>3
      <4>2. best.dist < Offer(u, v) \/ (best.dist = Offer(u, v) /\ best.parent <= u)
        BY <2>1
      <4> QED BY <1>2, <2>2, <3>2, <4>1, <4>2
    <3> QED BY <1>2, <3>1, <3>3
  <2> QED BY <2>3, <2>4
<1> QED BY <1>4, <1>5

-----------------------------------------------------------------------------
\* What is left to be looked at.
Improves(u, v) ==
  dist[u] # Inf /\ (Offer(u, v) < dist[v] \/ (Offer(u, v) = dist[v] /\ u < parent[v]))

LEMMA ImprovesIsForgotten ==
  /\ NothingForgotten <=>
       (Running => \A u \in Node : \A v \in OutNeighbours(graph, u) \ {Source} :
                     Improves(u, v) => v \in todo \/ u \in affected \/ v \in Heads(inserts))
  /\ NothingForgotten' <=>
       (Running' => \A u \in Node : \A v \in OutNeighbours(graph', u) \ {Source} :
                      Improves(u, v)' => v \in todo' \/ u \in affected' \/ v \in Heads(inserts'))
<1>1. NothingForgotten <=>
       (Running => \A u \in Node : \A v \in OutNeighbours(graph, u) \ {Source} :
                     Improves(u, v) => v \in todo \/ u \in affected \/ v \in Heads(inserts))
  BY DEF NothingForgotten, Running, Improves, Offer
<1>2. NothingForgotten' <=>
       (Running' => \A u \in Node : \A v \in OutNeighbours(graph', u) \ {Source} :
                      Improves(u, v)' => v \in todo' \/ u \in affected' \/ v \in Heads(inserts'))
  BY DEF NothingForgotten, Running, Improves, Offer
<1> QED BY <1>1, <1>2

\* The last useful sweep: whatever is supported then is as short as it gets.
LEMMA SettledStays ==
  ASSUME SInv, Running, sweeps >= N - 1
  PROVE  dist = Distances(graph)
<1>1. /\ IsDigraph(graph) /\ dist \in [Node -> Distance] /\ dist[Source] = 0 /\ sweeps \in Nat
      /\ parent \in [Node -> Node \cup {NoParent}] /\ phase # "idle"
  BY DEF SInv, STypeOK, Running
<1>2. \A v \in Node : dist[v] <= Distances(graph)[v]
  <2>1. WalkLengths(graph, sweeps) = Distances(graph)
    BY <1>1, WalksSettle
  <2> QED BY <2>1 DEF SInv, HopsSettled
<1>3. \A v \in Node \ {Source} :
        dist[v] # Inf => /\ parent[v] \in InNeighbours(graph, v) /\ dist[parent[v]] # Inf
                         /\ dist[v] >= dist[parent[v]] + graph[<<parent[v], v>>]
  BY <1>1 DEF SInv, NoStaleCycle
<1>4. \A v \in Node : Distances(graph)[v] <= dist[v]
  BY <1>1, <1>3, NotBelowShortest
<1>5. Distances(graph) \in [Node -> Distance]
  BY <1>1, DistancesFacts
<1>6. \A v \in Node : dist[v] \in Int /\ Distances(graph)[v] \in Int
  BY <1>1, <1>5 DEF Distance
<1>7. \A v \in Node : dist[v] = Distances(graph)[v]
  BY <1>2, <1>4, <1>6
<1> QED BY <1>1, <1>5, <1>7

\* What every evaluation keeps, in whatever phase it is made.
LEMMA RelaxKeeps ==
  ASSUME SInv, Running, NEW v \in Node \ {Source}, Relax(v), UNCHANGED <<graph, sweeps>>
  PROVE  /\ dist' \in [Node -> Distance] /\ parent' \in [Node -> Node \cup {NoParent}]
         /\ affected' \in SUBSET (Node \ {Source}) /\ affected \subseteq affected'
         /\ dist'[Source] = 0 /\ parent'[Source] = NoParent
         /\ \A x \in Node : dist'[x] <= dist[x]
         /\ \A x \in Node \ {Source} :
              /\ dist'[x] # Inf =>
                   /\ parent'[x] \in InNeighbours(graph, x) /\ dist'[parent'[x]] # Inf
                   /\ dist'[x] >= dist'[parent'[x]] + graph[<<parent'[x], x>>]
              /\ dist'[x] = Inf <=> parent'[x] = NoParent
         /\ \A u \in Node : \A x \in OutNeighbours(graph, u) :
              Improves(u, x)' => u \in affected' \/ (x # v /\ Improves(u, x))
         /\ dist'[v] <= WalkLengths(graph, sweeps + 1)[v]
         /\ sweeps >= N - 1 => affected' = {}
<1>1. /\ STypeOK /\ IsDigraph(graph) /\ dist \in [Node -> Distance] /\ parent \in [Node -> Node \cup {NoParent}]
      /\ dist[Source] = 0 /\ parent[Source] = NoParent /\ affected \in SUBSET (Node \ {Source})
      /\ sweeps \in Nat /\ phase # "idle"
  BY DEF SInv, STypeOK, Running
<1>2. Inf \in Nat \ {0} /\ Source \in Node /\ Node \subseteq Nat
  BY <1>1, DigraphFacts
<1>3. \A x \in Node \ {Source} :
        /\ dist[x] # Inf =>
             /\ parent[x] \in InNeighbours(graph, x) /\ dist[parent[x]] # Inf
             /\ dist[x] >= dist[parent[x]] + graph[<<parent[x], x>>]
        /\ dist[x] = Inf <=> parent[x] = NoParent
  BY <1>1 DEF SInv, NoStaleCycle
<1>4. /\ dist' \in [Node -> Distance] /\ parent' \in [Node -> Node \cup {NoParent}]
      /\ \A u \in Node \ {v} : dist'[u] = dist[u] /\ parent'[u] = parent[u]
      /\ dist'[v] <= dist[v]
      /\ \/ dist'[v] = dist[v] /\ parent'[v] = parent[v]
         \/ parent'[v] \in Offering(v) /\ dist'[v] = Offer(parent'[v], v) /\ dist'[v] # Inf
      /\ \A u \in Offering(v) :
           Offer(u, v) >= dist'[v] /\ (Offer(u, v) = dist'[v] => u >= parent'[v])
      /\ affected' = IF dist'[v] < dist[v] THEN affected \cup {v} ELSE affected
  BY <1>1, <1>3, RelaxFacts
<1>5. \A x \in Node : /\ dist[x] \in Nat /\ dist'[x] \in Nat /\ dist[x] <= Inf /\ dist'[x] <= Inf
                      /\ parent[x] \in Int /\ parent'[x] \in Int
  <2>1. \A x \in Node : dist[x] \in Distance /\ dist'[x] \in Distance
    BY <1>1, <1>4
  <2>2. \A x \in Node : parent[x] \in Node \cup {NoParent} /\ parent'[x] \in Node \cup {NoParent}
    BY <1>1, <1>4
  <2>3. \A x \in Node : parent[x] \in Int /\ parent'[x] \in Int
    BY <2>2, ParentIsInt
  <2> QED BY <1>2, <2>1, <2>3 DEF Distance
<1>6. affected' \in SUBSET (Node \ {Source}) /\ affected \subseteq affected'
  BY <1>1, <1>4
<1>7. dist'[Source] = 0 /\ parent'[Source] = NoParent
  BY <1>1, <1>2, <1>4
<1>8. \A x \in Node : dist'[x] <= dist[x]
  BY <1>4, <1>5
<1>9. ASSUME NEW x \in Node \ {Source}
      PROVE  /\ dist'[x] # Inf =>
                  /\ parent'[x] \in InNeighbours(graph, x) /\ dist'[parent'[x]] # Inf
                  /\ dist'[x] >= dist'[parent'[x]] + graph[<<parent'[x], x>>]
             /\ dist'[x] = Inf <=> parent'[x] = NoParent
  <2>1. CASE x = v /\ parent'[v] \in Offering(v) /\ dist'[v] = Offer(parent'[v], v) /\ dist'[v] # Inf
    <3> DEFINE p == parent'[v]
    <3>1. p \in InNeighbours(graph, v) /\ p \in Node /\ dist[p] # Inf /\ graph[<<p, v>>] \in Nat
      BY <1>1, <2>1, OfferTypes DEF Offering
    <3>2. dist'[p] <= dist[p] /\ dist'[p] # Inf
      BY <1>2, <1>5, <1>8, <3>1
    <3>3. dist'[v] >= dist'[p] + graph[<<p, v>>]
      BY <1>5, <2>1, <3>1, <3>2 DEF Offer
    <3>4. p # NoParent
      BY <1>2, <3>1 DEF NoParent
    <3> QED BY <2>1, <3>1, <3>2, <3>3, <3>4
  <2>2. CASE dist'[x] = dist[x] /\ parent'[x] = parent[x]
    <3>1. dist'[x] = Inf <=> parent'[x] = NoParent
      BY <1>3, <2>2
    <3>2. ASSUME dist'[x] # Inf
          PROVE  /\ parent'[x] \in InNeighbours(graph, x) /\ dist'[parent'[x]] # Inf
                 /\ dist'[x] >= dist'[parent'[x]] + graph[<<parent'[x], x>>]
      <4> DEFINE p == parent[x]
      <4>1. p \in InNeighbours(graph, x) /\ dist[p] # Inf /\ dist[x] >= dist[p] + graph[<<p, x>>]
        BY <1>3, <2>2, <3>2
      <4>2. p \in Node /\ graph[<<p, x>>] \in Nat
        BY <1>1, <4>1, OfferTypes
      <4>3. dist'[p] <= dist[p] /\ dist'[p] # Inf
        BY <1>2, <1>5, <1>8, <4>1, <4>2
      <4>4. dist'[x] >= dist'[p] + graph[<<p, x>>]
        BY <1>5, <2>2, <4>1, <4>2, <4>3
      <4> QED BY <2>2, <4>1, <4>3, <4>4
    <3> QED BY <3>1, <3>2
  <2> QED BY <1>4, <2>1, <2>2
<1>10. ASSUME NEW u \in Node, NEW x \in OutNeighbours(graph, u), Improves(u, x)'
       PROVE  u \in affected' \/ (x # v /\ Improves(u, x))
  <2>1. x \in Node /\ u \in InNeighbours(graph, x)
    BY DEF OutNeighbours, InNeighbours
  <2>2. graph[<<u, x>>] \in Nat \ {0}
    BY <1>1, <2>1, OfferTypes
  <2>3. /\ dist'[u] # Inf
        /\ \/ dist'[u] + graph[<<u, x>>] < dist'[x]
           \/ dist'[u] + graph[<<u, x>>] = dist'[x] /\ u < parent'[x]
    BY <1>10 DEF Improves, Offer
  <2>4. CASE dist'[u] < dist[u]
    BY <1>4, <1>5, <2>4
  <2>5. CASE dist'[u] = dist[u] /\ x # v
    <3>1. dist'[x] = dist[x] /\ parent'[x] = parent[x]
      BY <1>4, <2>1, <2>5
    <3> QED BY <2>3, <2>5, <3>1 DEF Improves, Offer
  <2>6. CASE dist'[u] = dist[u] /\ x = v
    <3>1. u \in Offering(v)
      BY <2>1, <2>3, <2>6 DEF Offering
    <3>2. Offer(u, v) >= dist'[v] /\ (Offer(u, v) = dist'[v] => u >= parent'[v])
      BY <1>4, <3>1
    <3>3. Offer(u, v) = dist'[u] + graph[<<u, x>>] /\ u \in Int
      BY <1>2, <2>6 DEF Offer
    <3>4. /\ dist'[u] + graph[<<u, x>>] >= dist'[x]
          /\ dist'[u] + graph[<<u, x>>] = dist'[x] => u >= parent'[x]
      BY <2>6, <3>2, <3>3
    <3>5. dist'[u] \in Int /\ dist'[x] \in Int /\ parent'[x] \in Int /\ graph[<<u, x>>] \in Int
      BY <1>5, <2>1, <2>2
    <3> QED BY <2>3, <3>3, <3>4, <3>5
  <2> QED BY <1>5, <1>8, <2>4, <2>5, <2>6
<1>11. dist'[v] <= WalkLengths(graph, sweeps + 1)[v]
  <2> DEFINE W(k) == WalkLengths(graph, k)
  <2>1. \A x \in Node : dist[x] <= W(sweeps)[x] /\ W(sweeps)[x] \in Nat /\ W(sweeps)[x] <= Inf
    BY <1>1, <1>2, WalkTypes DEF SInv, HopsSettled, Distance
  <2>2. CASE W(sweeps + 1)[v] = W(sweeps)[v]
    <3>1. dist[v] <= W(sweeps)[v] /\ W(sweeps)[v] \in Nat
      BY <2>1
    <3> QED BY <1>4, <1>5, <2>2, <3>1
  <2>3. CASE \E u \in InNeighbours(graph, v) : W(sweeps)[u] # Inf /\ W(sweeps + 1)[v] = W(sweeps)[u] + graph[<<u, v>>]
    <3>1. PICK u \in InNeighbours(graph, v) :
            W(sweeps)[u] # Inf /\ W(sweeps + 1)[v] = W(sweeps)[u] + graph[<<u, v>>]
      BY <2>3
    <3>2. u \in Node /\ graph[<<u, v>>] \in Nat /\ dist[u] \in Nat
      BY <1>1, OfferTypes
    <3>3. dist[u] <= W(sweeps)[u] /\ W(sweeps)[u] \in Nat /\ W(sweeps)[u] <= Inf
      BY <2>1, <3>2
    <3>4. dist[u] # Inf
      BY <1>2, <3>1, <3>2, <3>3
    <3>5. Offer(u, v) >= dist'[v]
      BY <1>4, <3>4 DEF Offering
    <3>6. dist'[v] <= W(sweeps + 1)[v]
      <4> HIDE DEF W
      <4>1. dist[u] + graph[<<u, v>>] >= dist'[v]
        BY <3>5 DEF Offer
      <4> QED BY <1>5, <3>1, <3>2, <3>3, <4>1
    <3> QED BY <3>6
  <2> QED BY <1>1, <2>2, <2>3, WalkSteps
<1>12. ASSUME sweeps >= N - 1 PROVE affected' = {}
  <2>1. dist = Distances(graph) /\ affected = {}
    BY <1>12, SettledStays DEF SInv, HopsSettled
  <2>2. Distances(graph)[v] <= dist'[v]
    BY <1>1, <1>4, <1>7, <1>9, NotBelowShortest
  <2>3. ~ (dist'[v] < dist[v])
    BY <1>5, <2>1, <2>2
  <2> QED BY <1>4, <2>1, <2>3
<1> QED BY <1>4, <1>6, <1>7, <1>8, <1>9, <1>10, <1>11, <1>12

-----------------------------------------------------------------------------
(***************************************************************************)
(* The steps.                                                              *)
(***************************************************************************)
LEMMA InitEstablishes == SequentialInit => SInv
<1> SUFFICES ASSUME SequentialInit PROVE SInv
  OBVIOUS
<1>1. /\ IsDigraph(graph) /\ tree = CanonicalTree(graph) /\ dist = tree.dist /\ parent = tree.parent
      /\ phase = "idle" /\ todo = {} /\ inserts = <<>> /\ affected = {} /\ sweeps = 0
  BY BatchAssumption DEF SequentialInit
<1>2. dist \in [Node -> Distance] /\ parent \in [Node -> Node \cup {NoParent}]
  BY <1>1, CanonicalFacts, DistancesFacts
<1>3. STypeOK
  BY <1>1, <1>2 DEF STypeOK, InsertionLists
<1> QED BY <1>1, <1>3 DEF SInv, Phases, NoStaleCycle, NothingForgotten, HopsSettled, Running

LEMMA BeginKeeps ==
  ASSUME SInv, NEW deletes \in DeleteSets, NEW insertedEdges \in InsertLists, Begin(deletes, insertedEdges)
  PROVE  SInv'
<1> DEFINE changed == deletes \cup Increases(graph, deletes, insertedEdges)
           roots == {e[2] : e \in {x \in changed : tree.parent[x[2]] = x[1]}}
           invalid == Subtrees(tree.parent, roots)
           new == Applied(graph, deletes, insertedEdges)
<1>1. /\ phase = "idle" /\ phase' = "roots" /\ graph' = new
      /\ dist' = [v \in Node |-> IF v \in invalid THEN Inf ELSE tree.dist[v]]
      /\ parent' = [v \in Node |-> IF v \in invalid THEN NoParent ELSE tree.parent[v]]
      /\ todo' = invalid /\ inserts' = insertedEdges /\ affected' = {} /\ sweeps' = 0
  BY DEF Begin
<1>2. IsDigraph(graph) /\ tree = CanonicalTree(graph) /\ insertedEdges \in InsertionLists /\ deletes \in SUBSET (Node \X Node)
  BY <1>1, BatchAssumption DEF SInv, STypeOK, Phases, InsertionLists
<1>3. /\ tree.dist \in [Node -> Distance] /\ tree.dist[Source] = 0 /\ Respected(graph, tree.dist)
      /\ tree.parent \in [Node -> Node \cup {NoParent}]
      /\ \A v \in Node : Hangs(graph, tree.dist, tree.parent, v)
  BY <1>2, CanonicalFacts, DistancesFacts
<1>4. /\ IsDigraph(new)
      /\ \A e \in DOMAIN graph \ changed : e \in DOMAIN new /\ new[e] <= graph[e]
      /\ \A e \in DOMAIN new :
           (e \in DOMAIN graph \ deletes /\ new[e] = graph[e]) \/ e[2] \in Heads(insertedEdges)
  BY <1>2, AppliedFacts
<1>5. N \in Nat \ {0} /\ Inf \in Nat \ {0} /\ Source \in Node /\ Node \subseteq Nat
  BY <1>2, DigraphFacts
<1>6. roots \in SUBSET (Node \ {Source})
  <2>1. changed \subseteq Node \X Node
    <3>1. \A i \in DOMAIN insertedEdges : insertedEdges[i].edge \in Node \X Node
      <4> DEFINE R == [edge : Node \X Node, weight : 1 .. MaxWeight]
      <4>1. insertedEdges \in Seq(R)
        BY <1>2 DEF InsertionLists
      <4> HIDE DEF R
      <4>2. \A i \in DOMAIN insertedEdges : insertedEdges[i] \in R
        BY <4>1
      <4> QED BY <4>2 DEF R
    <3> QED BY <1>2, <3>1 DEF Increases
  <2>2. ASSUME NEW e \in changed, tree.parent[e[2]] = e[1] PROVE e[2] \in Node \ {Source}
    <3>1. e[1] \in Node /\ e[2] \in Node
      BY <2>1
    <3>2. tree.parent[Source] = NoParent /\ NoParent \notin Node
      BY <1>3, <1>5 DEF Hangs, NoParent
    <3> QED BY <2>2, <3>1, <3>2
  <2> HIDE DEF changed
  <2> QED BY <2>2
<1>7. /\ invalid \in SUBSET (Node \ {Source}) /\ roots \subseteq invalid
      /\ Children(tree.parent, invalid) \subseteq invalid
  BY <1>3, <1>6, SubtreesFacts
<1>8. \A e \in changed : tree.parent[e[2]] = e[1] => e[2] \in invalid
  BY <1>7
<1> HIDE DEF changed, roots, invalid, new
<1>9. /\ dist' \in [Node -> Distance] /\ parent' \in [Node -> Node \cup {NoParent}]
      /\ \A v \in Node : IF v \in invalid THEN dist'[v] = Inf /\ parent'[v] = NoParent
                         ELSE dist'[v] = tree.dist[v] /\ parent'[v] = tree.parent[v]
      /\ dist'[Source] = 0 /\ parent'[Source] = NoParent
  <2>1. Inf \in Distance
    BY <1>5 DEF Distance
  <2>2. tree.parent[Source] = NoParent
    BY <1>3, <1>5 DEF Hangs
  <2> QED BY <1>1, <1>3, <1>5, <1>7, <2>1, <2>2
<1>10. STypeOK'
  BY <1>1, <1>2, <1>4, <1>7, <1>9 DEF STypeOK
<1>11. Phases'
  BY <1>1 DEF Phases
<1>12. NoStaleCycle'
  <2> SUFFICES ASSUME NEW v \in Node \ {Source}
               PROVE  /\ dist'[v] # Inf =>
                           /\ parent'[v] \in InNeighbours(graph', v) /\ dist'[parent'[v]] # Inf
                           /\ dist'[v] >= dist'[parent'[v]] + graph'[<<parent'[v], v>>]
                      /\ dist'[v] = Inf <=> parent'[v] = NoParent
    BY DEF NoStaleCycle
  <2>1. CASE v \in invalid
    BY <1>9, <2>1
  <2>2. CASE v \notin invalid /\ tree.dist[v] = Inf
    BY <1>3, <1>9, <2>2 DEF Hangs
  <2>3. CASE v \notin invalid /\ tree.dist[v] # Inf
    <3> DEFINE p == tree.parent[v]
    <3>1. p \in Node /\ Explains(graph, tree.dist, p, v)
      BY <1>3, <2>3 DEF Hangs
    <3>2. p \in InNeighbours(graph, v) /\ tree.dist[p] # Inf /\ tree.dist[v] = tree.dist[p] + graph[<<p, v>>]
      BY <3>1 DEF Explains
    <3>3. p \notin invalid
      BY <1>7, <2>3 DEF Children
    <3>4. <<p, v>> \in DOMAIN graph /\ <<p, v>> \notin changed
      BY <1>8, <2>3, <3>2 DEF InNeighbours
    <3>5. <<p, v>> \in DOMAIN new /\ new[<<p, v>>] <= graph[<<p, v>>]
      BY <1>4, <3>4
    <3>6. p \in InNeighbours(new, v)
      BY <3>1, <3>5 DEF InNeighbours
    <3>7. graph[<<p, v>>] \in Nat /\ new[<<p, v>>] \in Nat /\ tree.dist[p] \in Nat
      BY <1>2, <1>3, <1>4, <3>1, <3>2, <3>6, DigraphFacts DEF Distance
    <3>8. dist'[v] = tree.dist[v] /\ parent'[v] = p /\ dist'[p] = tree.dist[p]
      BY <1>9, <2>3, <3>1, <3>3
    <3>9. p # NoParent
      BY <1>5, <3>1 DEF NoParent
    <3>10. dist'[v] >= dist'[p] + new[<<p, v>>]
      BY <3>2, <3>5, <3>7, <3>8
    <3> QED BY <1>1, <2>3, <3>2, <3>6, <3>8, <3>9, <3>10
  <2> QED BY <2>1, <2>2, <2>3
<1>13. NothingForgotten'
  <2> SUFFICES ASSUME NEW u \in Node, NEW v \in OutNeighbours(graph', u) \ {Source}, Improves(u, v)',
                      v \notin invalid, v \notin Heads(insertedEdges)
               PROVE  FALSE
    BY <1>1, ImprovesIsForgotten
  <2>1. v \in Node /\ u \in InNeighbours(new, v) /\ <<u, v>> \in DOMAIN new
    BY <1>1 DEF OutNeighbours, InNeighbours
  <2>2. <<u, v>> \in DOMAIN graph /\ new[<<u, v>>] = graph[<<u, v>>]
    BY <1>4, <2>1
  <2>3. /\ dist'[u] # Inf
        /\ \/ dist'[u] + new[<<u, v>>] < dist'[v]
           \/ dist'[u] + new[<<u, v>>] = dist'[v] /\ u < parent'[v]
    BY <1>1 DEF Improves, Offer
  <2>4. dist'[u] = tree.dist[u] /\ dist'[v] = tree.dist[v] /\ parent'[v] = tree.parent[v]
    BY <1>9, <2>1, <2>3
  <2>5. u \in InNeighbours(graph, v) /\ tree.dist[v] <= tree.dist[u] + graph[<<u, v>>]
    BY <1>3, <2>1, <2>2, <2>3, <2>4 DEF InNeighbours, Respected
  <2>6. tree.dist[u] \in Nat /\ tree.dist[v] \in Nat /\ graph[<<u, v>>] \in Nat
    BY <1>2, <1>3, <2>1, <2>5, DigraphFacts DEF Distance
  <2>7. tree.dist[v] = tree.dist[u] + graph[<<u, v>>] /\ u < tree.parent[v]
    BY <2>2, <2>3, <2>4, <2>5, <2>6
  <2>8. Explains(graph, tree.dist, u, v)
    BY <2>3, <2>4, <2>5, <2>7 DEF Explains
  <2>9. v # Source /\ (tree.dist[v] = Inf => tree.parent[v] = NoParent)
    BY <1>3, <2>1 DEF Hangs
  <2>10. tree.dist[v] # Inf
    BY <1>5, <2>7, <2>9 DEF NoParent
  <2>11. tree.parent[v] \in Node /\ tree.parent[v] <= u
    BY <1>3, <2>1, <2>8, <2>9, <2>10 DEF Hangs
  <2>12. u \in Int /\ tree.parent[v] \in Int
    BY <2>11 DEF Node
  <2> QED BY <2>7, <2>11, <2>12
<1>14. HopsSettled'
  <2>1. \A v \in Node : dist'[v] <= WalkLengths(new, 0)[v]
    <3> SUFFICES ASSUME NEW v \in Node PROVE dist'[v] <= WalkLengths(new, 0)[v]
      OBVIOUS
    <3>1. WalkLengths(new, 0)[v] = IF v = Source THEN 0 ELSE Inf
      BY WalkRounds DEF NoWalk
    <3>2. dist'[v] \in Nat /\ dist'[v] <= Inf
      BY <1>5, <1>9 DEF Distance
    <3> QED BY <1>9, <3>1, <3>2
  <2>2. \A v \in Node : dist'[v] <= WalkLengths(graph', sweeps')[v]
    BY <1>1, <2>1
  <2> QED BY <1>1, <2>2 DEF HopsSettled
<1> QED BY <1>9, <1>10, <1>11, <1>12, <1>13, <1>14 DEF SInv

LEMMA RelaxOneKeeps ==
  ASSUME SInv, NEW v \in todo, RelaxOne(v)
  PROVE  SInv'
<1>1. /\ phase \in {"roots", "sweep"} /\ todo' = todo \ {v} /\ Relax(v) /\ v \in Node \ {Source}
      /\ UNCHANGED <<graph, tree, phase, inserts, sweeps, updates>> /\ Running /\ Running'
  BY DEF RelaxOne, SInv, STypeOK, Running
<1>2. /\ dist' \in [Node -> Distance] /\ parent' \in [Node -> Node \cup {NoParent}]
      /\ affected' \in SUBSET (Node \ {Source}) /\ affected \subseteq affected'
      /\ dist'[Source] = 0 /\ parent'[Source] = NoParent
      /\ \A x \in Node : dist'[x] <= dist[x]
      /\ \A x \in Node \ {Source} :
           /\ dist'[x] # Inf =>
                /\ parent'[x] \in InNeighbours(graph, x) /\ dist'[parent'[x]] # Inf
                /\ dist'[x] >= dist'[parent'[x]] + graph[<<parent'[x], x>>]
           /\ dist'[x] = Inf <=> parent'[x] = NoParent
      /\ \A u \in Node : \A x \in OutNeighbours(graph, u) :
           Improves(u, x)' => u \in affected' \/ (x # v /\ Improves(u, x))
      /\ dist'[v] <= WalkLengths(graph, sweeps + 1)[v]
      /\ sweeps >= N - 1 => affected' = {}
  BY <1>1, RelaxKeeps
<1>3. STypeOK'
  BY <1>1, <1>2 DEF SInv, STypeOK
<1>4. Phases'
  BY <1>1 DEF SInv, Phases
<1>5. NoStaleCycle'
  BY <1>1, <1>2 DEF NoStaleCycle
<1>6. NothingForgotten'
  <2>1. \A u \in Node : \A x \in OutNeighbours(graph, u) \ {Source} :
          Improves(u, x) => x \in todo \/ u \in affected \/ x \in Heads(inserts)
    BY <1>1, ImprovesIsForgotten DEF SInv
  <2>2. \A u \in Node : \A x \in OutNeighbours(graph', u) \ {Source} :
          Improves(u, x)' => x \in todo' \/ u \in affected' \/ x \in Heads(inserts')
    BY <1>1, <1>2, <2>1
  <2> QED BY <2>2, ImprovesIsForgotten
<1>7. HopsSettled'
  <2>1. \A k \in Nat : \A x \in Node : WalkLengths(graph, k)[x] \in Int
    BY WalkTypes DEF SInv, STypeOK, Distance
  <2>2. \A x \in Node : dist[x] \in Int /\ dist'[x] \in Int
    BY <1>2 DEF SInv, STypeOK, Distance
  <2>3. sweeps \in Nat /\ sweeps + 1 \in Nat
    BY DEF SInv, STypeOK
  <2>4. \A x \in Node : dist'[x] <= WalkLengths(graph, sweeps)[x]
    <3> SUFFICES ASSUME NEW x \in Node PROVE dist'[x] <= WalkLengths(graph, sweeps)[x]
      OBVIOUS
    <3>1. dist'[x] <= dist[x] /\ dist[x] <= WalkLengths(graph, sweeps)[x]
      BY <1>1, <1>2 DEF SInv, HopsSettled
    <3> QED BY <2>1, <2>2, <2>3, <3>1
  <2>5. ASSUME phase = "sweep", NEW x \in Node \ todo' PROVE dist'[x] <= WalkLengths(graph, sweeps + 1)[x]
    <3>1. CASE x = v
      BY <1>2, <3>1
    <3>2. CASE x # v
      <4>1. dist'[x] <= dist[x] /\ dist[x] <= WalkLengths(graph, sweeps + 1)[x]
        BY <1>1, <1>2, <2>5, <3>2 DEF SInv, HopsSettled
      <4> QED BY <2>1, <2>2, <2>3, <4>1
    <3> QED BY <3>1, <3>2
  <2>6. /\ graph' = graph /\ sweeps' = sweeps /\ phase' = phase
    BY <1>1
  <2> QED BY <1>2, <2>4, <2>5, <2>6 DEF HopsSettled
<1> QED BY <1>2, <1>3, <1>4, <1>5, <1>6, <1>7 DEF SInv

LEMMA RootsDoneKeeps == ASSUME SInv, RootsDone PROVE SInv'
<1>1. /\ phase = "roots" /\ todo = {} /\ phase' = "heads" /\ Running /\ Running'
      /\ UNCHANGED <<graph, tree, dist, parent, todo, inserts, affected, sweeps, updates>>
  BY DEF RootsDone, Running
<1>2. NothingForgotten'
  BY <1>1 DEF SInv, NothingForgotten
<1>3. STypeOK' /\ Phases' /\ NoStaleCycle' /\ HopsSettled'
  BY <1>1 DEF SInv, STypeOK, Phases, NoStaleCycle, HopsSettled
<1> QED BY <1>1, <1>2, <1>3 DEF SInv

LEMMA RelaxHeadKeeps ==
  ASSUME SInv, RelaxHead
  PROVE  SInv'
<1> DEFINE v == Head(inserts).edge[2]
<1>1. /\ phase = "heads" /\ inserts # <<>> /\ inserts' = Tail(inserts) /\ Running /\ Running'
      /\ UNCHANGED <<graph, tree, phase, todo, sweeps, updates>>
  BY DEF RelaxHead, Running
<1>2. /\ inserts' \in InsertionLists /\ v \in Node
      /\ \A x \in Heads(inserts) : x = v \/ x \in Heads(inserts')
  <2> DEFINE R == [edge : Node \X Node, weight : 1 .. MaxWeight]
  <2>1. inserts \in Seq(R)
    BY DEF SInv, STypeOK, InsertionLists
  <2>2. Head(inserts) \in R => v \in Node
    OBVIOUS
  <2> HIDE DEF R
  <2>3. /\ Head(inserts) \in R /\ Tail(inserts) \in Seq(R) /\ Head(inserts) = inserts[1]
        /\ Len(inserts) \in Nat /\ DOMAIN inserts = 1 .. Len(inserts)
        /\ Len(Tail(inserts)) = Len(inserts) - 1
        /\ \A i \in 1 .. Len(inserts) - 1 : Tail(inserts)[i] = inserts[i + 1]
    BY <1>1, <2>1
  <2>4. DOMAIN Tail(inserts) = 1 .. Len(inserts) - 1
    BY <2>3
  <2>5. ASSUME NEW i \in DOMAIN inserts, i # 1
        PROVE  \E j \in DOMAIN Tail(inserts) : inserts[i].edge[2] = Tail(inserts)[j].edge[2]
    <3>1. i - 1 \in 1 .. Len(inserts) - 1 /\ (i - 1) + 1 = i
      BY <2>3, <2>5
    <3>2. Tail(inserts)[i - 1] = inserts[i]
      BY <2>3, <3>1
    <3> QED BY <2>4, <3>1, <3>2
  <2>6. \A x \in Heads(inserts) : x = v \/ x \in Heads(Tail(inserts))
    <3> SUFFICES ASSUME NEW i \in DOMAIN inserts, inserts[i].edge[2] # v
                 PROVE  inserts[i].edge[2] \in Heads(Tail(inserts))
      BY DEF Heads
    <3>1. i # 1
      BY <2>3
    <3> QED BY <2>5, <3>1 DEF Heads
  <2>7. inserts' \in InsertionLists
    BY <1>1, <2>3 DEF InsertionLists, R
  <2> QED BY <1>1, <2>2, <2>3, <2>6, <2>7
<1>3. CASE v = Source
  <2>1. UNCHANGED <<dist, parent, affected>>
    BY <1>3 DEF RelaxHead
  <2>2. NothingForgotten'
    <3>1. \A u \in Node : \A x \in OutNeighbours(graph, u) \ {Source} :
            Improves(u, x) => x \in todo \/ u \in affected \/ x \in Heads(inserts)
      BY <1>1, ImprovesIsForgotten DEF SInv
    <3>2. \A u, x : Improves(u, x)' = Improves(u, x)
      BY <1>1, <2>1 DEF Improves, Offer
    <3>3. \A u \in Node : \A x \in OutNeighbours(graph', u) \ {Source} :
            Improves(u, x)' => x \in todo' \/ u \in affected' \/ x \in Heads(inserts')
      BY <1>1, <1>2, <1>3, <2>1, <3>1, <3>2
    <3> QED BY <3>3, ImprovesIsForgotten
  <2>3. STypeOK' /\ Phases' /\ NoStaleCycle' /\ HopsSettled'
    BY <1>1, <1>2, <2>1 DEF SInv, STypeOK, Phases, NoStaleCycle, HopsSettled
  <2> QED BY <1>1, <2>1, <2>2, <2>3 DEF SInv
<1>4. CASE v # Source
  <2>0. Relax(v) /\ v \in Node \ {Source} /\ UNCHANGED <<graph, sweeps>>
    BY <1>1, <1>2, <1>4 DEF RelaxHead
  <2> HIDE DEF v
  <2>1. /\ dist' \in [Node -> Distance] /\ parent' \in [Node -> Node \cup {NoParent}]
        /\ affected' \in SUBSET (Node \ {Source}) /\ affected \subseteq affected'
        /\ dist'[Source] = 0 /\ parent'[Source] = NoParent
        /\ \A x \in Node : dist'[x] <= dist[x]
        /\ \A x \in Node \ {Source} :
             /\ dist'[x] # Inf =>
                  /\ parent'[x] \in InNeighbours(graph, x) /\ dist'[parent'[x]] # Inf
                  /\ dist'[x] >= dist'[parent'[x]] + graph[<<parent'[x], x>>]
             /\ dist'[x] = Inf <=> parent'[x] = NoParent
        /\ \A u \in Node : \A x \in OutNeighbours(graph, u) :
             Improves(u, x)' => u \in affected' \/ (x # v /\ Improves(u, x))
        /\ sweeps >= N - 1 => affected' = {}
    BY <1>1, <2>0, RelaxKeeps
  <2>2. STypeOK'
    BY <1>1, <1>2, <2>1 DEF SInv, STypeOK
  <2>3. Phases'
    BY <1>1 DEF SInv, Phases
  <2>4. NoStaleCycle'
    BY <1>1, <2>1 DEF NoStaleCycle
  <2>5. NothingForgotten'
    <3>1. \A u \in Node : \A x \in OutNeighbours(graph, u) \ {Source} :
            Improves(u, x) => x \in todo \/ u \in affected \/ x \in Heads(inserts)
      BY <1>1, ImprovesIsForgotten DEF SInv
    <3>2. \A u \in Node : \A x \in OutNeighbours(graph', u) \ {Source} :
            Improves(u, x)' => x \in todo' \/ u \in affected' \/ x \in Heads(inserts')
      BY <1>1, <1>2, <2>1, <3>1
    <3> QED BY <3>2, ImprovesIsForgotten
  <2>6. HopsSettled'
    <3>1. \A x \in Node : WalkLengths(graph, sweeps)[x] \in Int
      BY WalkTypes DEF SInv, STypeOK, Distance
    <3>2. \A x \in Node : dist[x] \in Int /\ dist'[x] \in Int
      BY <2>1 DEF SInv, STypeOK, Distance
    <3>3. \A x \in Node : dist'[x] <= WalkLengths(graph, sweeps)[x]
      <4> SUFFICES ASSUME NEW x \in Node PROVE dist'[x] <= WalkLengths(graph, sweeps)[x]
        OBVIOUS
      <4>1. dist'[x] <= dist[x] /\ dist[x] <= WalkLengths(graph, sweeps)[x]
        BY <1>1, <2>1 DEF SInv, HopsSettled
      <4> QED BY <3>1, <3>2, <4>1
    <3>4. graph' = graph /\ sweeps' = sweeps /\ phase' = "heads"
      BY <1>1
    <3> QED BY <2>1, <3>3, <3>4 DEF HopsSettled
  <2> QED BY <2>1, <2>2, <2>3, <2>4, <2>5, <2>6 DEF SInv
<1> QED BY <1>3, <1>4

\* What is left behind when nothing is waiting to be evaluated.
LEMMA NothingWaiting ==
  ASSUME SInv, Running, todo = {}, inserts = <<>>, NEW u \in Node, NEW v \in OutNeighbours(graph, u), u \notin affected
  PROVE  ~ Improves(u, v)
<1>1. Heads(inserts) = {}
  BY DEF Heads
<1>2. CASE v # Source
  BY <1>1, <1>2, ImprovesIsForgotten DEF SInv
<1>3. CASE v = Source
  <2>1. dist[v] = 0 /\ u \in InNeighbours(graph, v) /\ STypeOK /\ v \in Node
    BY <1>3 DEF SInv, OutNeighbours, InNeighbours
  <2>2. Offer(u, v) > dist[u] /\ Offer(u, v) \in Nat /\ dist[u] \in Nat
    BY <2>1, OfferTypes
  <2> QED BY <2>1, <2>2 DEF Improves
<1> QED BY <1>2, <1>3

LEMMA HeadsDoneKeeps ==
  ASSUME SInv, HeadsDone
  PROVE  SInv'
<1>1. /\ phase = "heads" /\ inserts = <<>> /\ phase' = "sweep" /\ todo = {} /\ sweeps = 0 /\ Running /\ Running'
      /\ UNCHANGED <<graph, tree, dist, parent, todo, inserts, affected, sweeps, updates>>
  BY DEF HeadsDone, Running, SInv, Phases
<1>2. NothingForgotten'
  BY <1>1 DEF SInv, NothingForgotten
<1>3. STypeOK' /\ Phases' /\ NoStaleCycle'
  BY <1>1 DEF SInv, STypeOK, Phases, NoStaleCycle
<1>4. ASSUME NEW v \in Node PROVE dist[v] <= WalkLengths(graph, 0 + 1)[v]
  <2> DEFINE W(k) == WalkLengths(graph, k)
  <2>0. STypeOK /\ IsDigraph(graph) /\ dist[v] \in Int /\ dist[v] <= W(0)[v]
    BY <1>1 DEF SInv, STypeOK, HopsSettled, Distance
  <2>1. CASE W(0 + 1)[v] = W(0)[v]
    BY <2>0, <2>1
  <2>2. CASE \E u \in InNeighbours(graph, v) : W(0)[u] # Inf /\ W(0 + 1)[v] = W(0)[u] + graph[<<u, v>>]
    <3>1. PICK u \in InNeighbours(graph, v) : W(0)[u] # Inf /\ W(0 + 1)[v] = W(0)[u] + graph[<<u, v>>]
      BY <2>2
    <3>2. u = Source /\ W(0)[u] = 0
      BY <3>1, WalkRounds DEF NoWalk, InNeighbours
    <3>3. u \notin affected /\ dist[u] = 0 /\ u \in Node /\ v \in OutNeighbours(graph, u)
      BY <1>1, <3>2 DEF SInv, STypeOK, InNeighbours, OutNeighbours
    <3>4. ~ Improves(u, v)
      BY <1>1, <3>3, NothingWaiting
    <3>5. dist[u] # Inf /\ Offer(u, v) = graph[<<u, v>>] /\ Offer(u, v) \in Nat
      BY <2>0, <3>3, OfferTypes, DigraphFacts DEF Offer
    <3>6. W(0 + 1)[v] = Offer(u, v)
      BY <3>1, <3>2, <3>5 DEF Offer
    <3> QED BY <2>0, <3>4, <3>5, <3>6 DEF Improves
  <2> QED BY <2>0, <2>1, <2>2, WalkSteps
<1>5. HopsSettled'
  <2>1. \A v \in Node : dist[v] <= WalkLengths(graph, sweeps + 1)[v]
    BY <1>1, <1>4
  <2> QED BY <1>1, <2>1 DEF SInv, HopsSettled
<1> QED BY <1>1, <1>2, <1>3, <1>5 DEF SInv

LEMMA SweepKeeps ==
  ASSUME SInv, Sweep
  PROVE  SInv'
<1>1. /\ phase = "sweep" /\ todo = {} /\ affected # {} /\ sweeps' = sweeps + 1 /\ inserts = <<>>
      /\ todo' = Candidates /\ affected' = {} /\ sweeps \in Nat /\ Running
      /\ phase' = IF sweeps = N THEN "failed" ELSE phase
      /\ UNCHANGED <<graph, tree, dist, parent, inserts, updates>>
  BY DEF Sweep, Running, SInv, STypeOK, Phases
<1>2. phase' = "sweep" /\ Running'
  <2>1. ~ (sweeps >= N - 1)
    BY <1>1 DEF SInv, HopsSettled
  <2>2. sweeps # N
    BY <2>1, NodesAssumption
  <2> QED BY <1>1, <2>2 DEF Running
<1>3. STypeOK'
  <2>1. Candidates \in SUBSET (Node \ {Source})
    BY DEF Candidates, OutNeighbours
  <2> QED BY <1>1, <1>2, <2>1 DEF SInv, STypeOK
<1>4. Phases' /\ NoStaleCycle'
  BY <1>1, <1>2 DEF SInv, Phases, NoStaleCycle
<1>5. \A u \in affected : \A v \in OutNeighbours(graph, u) \ {Source} : v \in Candidates
  BY DEF Candidates
<1>6. NothingForgotten'
  <2>1. \A u \in Node : \A v \in OutNeighbours(graph, u) : Improves(u, v) => u \in affected
    BY <1>1, NothingWaiting
  <2>2. \A u, v : Improves(u, v)' = Improves(u, v)
    BY <1>1 DEF Improves, Offer
  <2>3. \A u \in Node : \A v \in OutNeighbours(graph', u) \ {Source} :
          Improves(u, v)' => v \in todo' \/ u \in affected' \/ v \in Heads(inserts')
    BY <1>1, <1>5, <2>1, <2>2
  <2> QED BY <2>3, ImprovesIsForgotten
<1>7. HopsSettled'
  <2> DEFINE W(k) == WalkLengths(graph, k)
  <2>0. STypeOK /\ IsDigraph(graph) /\ sweeps + 1 \in Nat
    BY <1>1 DEF SInv, STypeOK
  <2>1. \A v \in Node : dist[v] <= W(sweeps + 1)[v]
    BY <1>1 DEF SInv, HopsSettled
  <2>2. \A v \in Node : W(sweeps + 1)[v] \in Nat /\ W(sweeps + 1)[v] <= Inf /\ dist[v] \in Nat /\ Inf \in Nat
    BY <2>0, WalkTypes, DigraphFacts DEF STypeOK, Distance
  <2>3. ASSUME NEW v \in Node \ Candidates PROVE dist[v] <= W(sweeps + 1 + 1)[v]
    <3>1. CASE W(sweeps + 1 + 1)[v] = W(sweeps + 1)[v]
      BY <2>1, <3>1
    <3>2. CASE \E u \in InNeighbours(graph, v) :
                 W(sweeps + 1)[u] # Inf /\ W(sweeps + 1 + 1)[v] = W(sweeps + 1)[u] + graph[<<u, v>>]
      <4>1. PICK u \in InNeighbours(graph, v) :
              W(sweeps + 1)[u] # Inf /\ W(sweeps + 1 + 1)[v] = W(sweeps + 1)[u] + graph[<<u, v>>]
        BY <3>2
      <4>2. u \in Node /\ graph[<<u, v>>] \in Nat /\ Offer(u, v) \in Nat /\ v \in OutNeighbours(graph, u)
        BY <2>0, OfferTypes DEF InNeighbours, OutNeighbours
      <4>3. dist[u] <= W(sweeps + 1)[u] /\ W(sweeps + 1)[u] \in Nat /\ W(sweeps + 1)[u] <= Inf
            /\ dist[u] \in Nat /\ Inf \in Nat
        BY <2>1, <2>2, <4>2
      <4>4. dist[u] # Inf
        BY <4>1, <4>3
      <4>5. W(sweeps + 1 + 1)[v] \in Nat /\ Offer(u, v) <= W(sweeps + 1 + 1)[v]
        <5> HIDE DEF W
        <5> QED BY <4>1, <4>2, <4>3 DEF Offer
      <4>6. CASE v = Source
        <5>1. dist[v] = 0
          BY <1>1, <4>6 DEF SInv
        <5> QED BY <4>5, <5>1
      <4>7. CASE v # Source
        <5>1. u \notin affected
          BY <1>5, <2>3, <4>2, <4>7
        <5>2. ~ Improves(u, v)
          BY <1>1, <4>2, <5>1, NothingWaiting
        <5>3. dist[v] <= Offer(u, v) /\ dist[v] \in Nat
          BY <2>2, <4>2, <4>4, <5>2 DEF Improves
        <5> QED BY <4>2, <4>5, <5>3
      <4> QED BY <4>6, <4>7
    <3> QED BY <2>0, <3>1, <3>2, WalkSteps
  <2> QED BY <1>1, <1>2, <2>1, <2>3 DEF HopsSettled
<1>8. dist'[Source] = 0 /\ parent'[Source] = NoParent
  BY <1>1 DEF SInv
<1> QED BY <1>3, <1>4, <1>6, <1>7, <1>8 DEF SInv

\* With nothing waiting the two arrays are the canonical tree.
LEMMA OutputIsCanonical ==
  ASSUME SInv, Running, todo = {}, inserts = <<>>, affected = {}
  PROVE  [dist |-> dist, parent |-> parent] = CanonicalTree(graph)
<1>1. /\ STypeOK /\ IsDigraph(graph) /\ dist \in [Node -> Distance] /\ dist[Source] = 0
      /\ parent \in [Node -> Node \cup {NoParent}] /\ parent[Source] = NoParent /\ phase # "idle"
      /\ Inf \in Nat \ {0} /\ Node \subseteq Nat
  BY DigraphFacts DEF SInv, STypeOK, Running
<1>2. ASSUME NEW v \in Node, NEW u \in InNeighbours(graph, v), dist[u] # Inf
      PROVE  /\ dist[v] <= dist[u] + graph[<<u, v>>]
             /\ dist[v] = dist[u] + graph[<<u, v>>] => parent[v] <= u
  <2>1. u \in Node /\ v \in OutNeighbours(graph, u) /\ Offer(u, v) \in Nat
    BY <1>1, OfferTypes DEF InNeighbours, OutNeighbours
  <2>2. ~ Improves(u, v)
    BY <2>1, NothingWaiting
  <2>3. dist[v] \in Int /\ u \in Int /\ parent[v] \in Int
    BY <1>1, <2>1, ParentIsInt DEF Distance
  <2> QED BY <1>2, <2>1, <2>2, <2>3 DEF Improves, Offer
<1>3. \A v \in Node \ {Source} :
        /\ dist[v] # Inf => /\ parent[v] \in InNeighbours(graph, v) /\ dist[parent[v]] # Inf
                            /\ dist[v] >= dist[parent[v]] + graph[<<parent[v], v>>]
        /\ dist[v] = Inf <=> parent[v] = NoParent
  BY <1>1 DEF SInv, NoStaleCycle
<1>4. Respected(graph, dist)
  BY <1>2 DEF Respected
<1>5. Supported(graph, dist)
  <2>1. ASSUME NEW v \in Node \ {Source}, dist[v] # Inf PROVE \E u \in Node : Supports(graph, dist, u, v)
    <3>1. parent[v] \in Node /\ Supports(graph, dist, parent[v], v)
      BY <1>3, <2>1 DEF Supports, InNeighbours
    <3> QED BY <3>1
  <2> QED BY <2>1 DEF Supported
<1>6. dist = Distances(graph)
  BY <1>1, <1>4, <1>5, CertifiedDistances
<1>7. ASSUME NEW v \in Node PROVE Hangs(graph, dist, parent, v)
  <2>1. CASE v = Source \/ dist[v] = Inf
    BY <1>1, <1>3, <2>1 DEF Hangs
  <2>2. CASE v # Source /\ dist[v] # Inf
    <3> DEFINE p == parent[v]
    <3>1. p \in InNeighbours(graph, v) /\ dist[p] # Inf /\ dist[v] >= dist[p] + graph[<<p, v>>]
      BY <1>3, <2>2
    <3>2. dist[v] <= dist[p] + graph[<<p, v>>] /\ p \in Node
      BY <1>2, <3>1 DEF InNeighbours
    <3>3. dist[v] \in Int /\ dist[p] + graph[<<p, v>>] \in Int
      BY <1>1, <3>1, OfferTypes DEF Offer, Distance
    <3>4. Explains(graph, dist, p, v)
      BY <3>1, <3>2, <3>3 DEF Explains
    <3>5. \A u \in Node : Explains(graph, dist, u, v) => p <= u
      BY <1>2 DEF Explains
    <3> QED BY <2>2, <3>2, <3>4, <3>5 DEF Hangs
  <2> QED BY <2>1, <2>2
<1> QED BY <1>1, <1>6, <1>7, CertifiedTree

LEMMA WriteOutputKeeps ==
  ASSUME SInv, WriteOutput
  PROVE  SInv' /\ tree' = CanonicalTree(graph)
<1>1. /\ phase = "sweep" /\ todo = {} /\ affected = {} /\ inserts = <<>> /\ phase' = "idle" /\ Running
      /\ tree' = [dist |-> dist, parent |-> parent]
      /\ UNCHANGED <<graph, dist, parent, todo, inserts, affected, sweeps, updates>>
  BY DEF WriteOutput, Running, SInv, Phases
<1>2. tree' = CanonicalTree(graph)
  BY <1>1, OutputIsCanonical
<1>3. STypeOK' /\ Phases'
  BY <1>1, <1>2 DEF SInv, STypeOK, Phases
<1>4. NoStaleCycle' /\ NothingForgotten' /\ HopsSettled' /\ ~ Running'
  BY <1>1 DEF NoStaleCycle, NothingForgotten, HopsSettled, Running
<1> QED BY <1>2, <1>3, <1>4 DEF SInv

LEMMA SInvInductive == SInv /\ [SequentialNext]_sequentialVars => SInv'
<1> SUFFICES ASSUME SInv, [SequentialNext]_sequentialVars PROVE SInv'
  OBVIOUS
<1>1. CASE \E deletes \in DeleteSets : \E insertedEdges \in InsertLists : Begin(deletes, insertedEdges)
  BY <1>1, BeginKeeps
<1>2. CASE \E v \in todo : RelaxOne(v)
  BY <1>2, RelaxOneKeeps
<1>3. CASE RootsDone
  BY <1>3, RootsDoneKeeps
<1>4. CASE RelaxHead
  BY <1>4, RelaxHeadKeeps
<1>5. CASE HeadsDone
  BY <1>5, HeadsDoneKeeps
<1>6. CASE Sweep
  BY <1>6, SweepKeeps
<1>7. CASE WriteOutput
  BY <1>7, WriteOutputKeeps
<1>8. CASE UNCHANGED sequentialVars
  BY <1>8 DEF sequentialVars, SInv, STypeOK, Phases, NoStaleCycle, NothingForgotten, HopsSettled, Running
<1> QED BY <1>1, <1>2, <1>3, <1>4, <1>5, <1>6, <1>7, <1>8 DEF SequentialNext, UpdateStep

LEMMA SInvHolds == SequentialSpec => []SInv
BY InitEstablishes, SInvInductive, PTL DEF SequentialSpec

-----------------------------------------------------------------------------
(***************************************************************************)
(* The theorems.                                                           *)
(***************************************************************************)
\* Types: Distances stay between 0 and Inf, and the graph stays a digraph.
THEOREM SequentialTypeCorrect == SequentialSpec => []STypeOK
<1>1. SInv => STypeOK
  BY DEF SInv
<1> QED BY <1>1, SInvHolds, PTL

\* Parents end at the source over edges of the graph, from the invalidation on:
\* Subtrees removes whatever lost its path, and findBestParent never closes a cycle.
THEOREM NoCycleIsStale == SequentialSpec => []NoStaleCycle
<1>1. SInv => NoStaleCycle
  BY DEF SInv
<1> QED BY <1>1, SInvHolds, PTL

\* A sweep over what lies behind a decrease settles another hop of every
\* shortest path, so that the cap of numberOfNodes sweeps never fails.
THEOREM SweepsAlwaysSuffice == SequentialSpec => []SweepsSuffice
<1>1. SInv => SweepsSuffice
  <2>1. SInv /\ phase = "sweep" => Running
    BY DEF Running
  <2> QED BY <2>1 DEF SInv, STypeOK, HopsSettled, SweepsSuffice, EverySweepSettles
<1> QED BY <1>1, SInvHolds, PTL

\* The abstract service means the same graphs and trees.
LEMMA ServiceMeans ==
  /\ \A g : Service!CanonicalTree(g) = CanonicalTree(g)
  /\ \A g, deletes, insertedEdges : Service!Applied(g, deletes, insertedEdges) = Applied(g, deletes, insertedEdges)
<1>1. Service!Node = Node /\ Service!Inf = Inf /\ Service!NoParent = NoParent
  BY DEF Service!Node, Node, Service!Inf, Inf, Service!NoParent, NoParent
<1>2. \A S : Service!LeastOf(S) = LeastOf(S)
  BY DEF Service!LeastOf, LeastOf
<1>3. \A g, v : Service!InNeighbours(g, v) = InNeighbours(g, v)
  BY <1>1 DEF Service!InNeighbours, InNeighbours
<1>4. \A g, i : Service!WalkLengths(g, i) = WalkLengths(g, i)
  BY DEF Service!WalkLengths, WalkLengths, Service!LeastOf, LeastOf, Service!InNeighbours, InNeighbours,
         Service!Node, Node, Service!Inf, Inf
<1>5. \A g : Service!Distances(g) = Distances(g)
  BY <1>4 DEF Service!Distances, Distances
<1>6. \A g, d, u, v : Service!Explains(g, d, u, v) = Explains(g, d, u, v)
  BY <1>1, <1>3 DEF Service!Explains, Explains
<1>7. \A g : Service!CanonicalTree(g) = CanonicalTree(g)
  BY <1>1, <1>2, <1>5, <1>6 DEF Service!CanonicalTree, CanonicalTree
<1>8. \A g, insert : Service!Inserted(g, insert) = Inserted(g, insert)
  BY DEF Service!Inserted, Inserted
<1>9. \A g, deletes, insertedEdges, i : Service!After(g, deletes, insertedEdges, i) = After(g, deletes, insertedEdges, i)
  BY <1>8 DEF Service!After, After
<1>10. \A g, deletes, insertedEdges : Service!Applied(g, deletes, insertedEdges) = Applied(g, deletes, insertedEdges)
  BY <1>9 DEF Service!Applied, Applied
<1> QED BY <1>7, <1>10

\* Every update ends with the canonical tree of the changed graph, in every order
\* of the vertices within a sweep: a batch and an answer are the only visible steps.
THEOREM SequentialImplementsService == SequentialSpec => ImplementsService
<1>1. SequentialInit => Service!ServiceInit
  <2> SUFFICES ASSUME SequentialInit PROVE Service!ServiceInit
    OBVIOUS
  <2>1. graph \in InitialGraphs /\ tree = Service!CanonicalTree(graph) /\ (phase # "idle") = FALSE
    BY ServiceMeans DEF SequentialInit
  <2> QED BY <2>1 DEF Service!ServiceInit
<1>2. SInv /\ [SequentialNext]_sequentialVars => [Service!ServiceNext]_(Service!serviceVars)
  <2> SUFFICES ASSUME SInv, [SequentialNext]_sequentialVars
               PROVE  Service!ServiceNext \/ UNCHANGED <<graph, tree, phase # "idle">>
    BY DEF Service!serviceVars
  <2>1. CASE \E deletes \in DeleteSets : \E insertedEdges \in InsertLists : Begin(deletes, insertedEdges)
    <3>1. PICK deletes \in DeleteSets, insertedEdges \in InsertLists : Begin(deletes, insertedEdges)
      BY <2>1
    <3>2. /\ ~ (phase # "idle") /\ (phase' # "idle") = TRUE
          /\ graph' = Service!Applied(graph, deletes, insertedEdges) /\ UNCHANGED tree
      BY <3>1, ServiceMeans DEF Begin
    <3>3. Service!Batch(deletes, insertedEdges)
      BY <3>2 DEF Service!Batch
    <3> QED BY <3>3 DEF Service!ServiceNext
  <2>2. CASE (\E v \in todo : RelaxOne(v)) \/ RelaxHead
    BY <2>2 DEF RelaxOne, RelaxHead
  <2>3. CASE RootsDone \/ HeadsDone \/ Sweep
    <3>1. phase # "idle" /\ phase' # "idle" /\ UNCHANGED <<graph, tree>>
      BY <2>3 DEF RootsDone, HeadsDone, Sweep
    <3> QED BY <3>1
  <2>4. CASE WriteOutput
    <3>1. tree' = Service!CanonicalTree(graph)
      BY <2>4, WriteOutputKeeps, ServiceMeans
    <3>2. (phase # "idle") /\ (phase' # "idle") = FALSE /\ UNCHANGED graph
      BY <2>4 DEF WriteOutput
    <3>3. Service!Answer
      BY <3>1, <3>2 DEF Service!Answer
    <3> QED BY <3>3 DEF Service!ServiceNext
  <2>5. CASE UNCHANGED sequentialVars
    BY <2>5 DEF sequentialVars
  <2> QED BY <2>1, <2>2, <2>3, <2>4, <2>5 DEF SequentialNext, UpdateStep
<1> QED BY <1>1, <1>2, SInvHolds, PTL DEF SequentialSpec, ImplementsService, Service!ServiceSpec
=============================================================================
