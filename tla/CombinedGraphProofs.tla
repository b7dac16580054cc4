------------------------ MODULE CombinedGraphProofs ------------------------
(***************************************************************************)
(* Theorems about Dijkstra and CombinedGraph, for every set of networks    *)
(* with positive weights, every change file and every number of            *)
(* objectives.                                                             *)
(*                                                                         *)
(* Dijkstra.  The vertices that were expanded have their final distance    *)
(* and have offered it to their neighbours, everything else hangs from one *)
(* of them, and what is reached and not expanded waits in the queue.  So   *)
(* no distance is below the least entry of the queue that is not final.    *)
(***************************************************************************)
EXTENDS CombinedGraph, WeightedDigraphProofs

Expanded == {expanded[i] : i \in DOMAIN expanded}

RunTypeOK ==
  /\ IsDigraph(graph)
  /\ dist \in [Node -> Distance] /\ parent \in [Node -> Node \cup {NoParent}]
  /\ pq \subseteq (Distance \ {Inf}) \X Node
  /\ expanded \in Seq(Node)

\* v can be reached through x at its present distance.
Reaches(x, v) == x \in InNeighbours(graph, v) /\ dist[v] = dist[x] + graph[<<x, v>>]

\* v hangs from the lowest of the expanded vertices that explain its distance.
HangsFromExpanded(v) ==
  IF v = Source \/ dist[v] = Inf THEN parent[v] = NoParent
  ELSE /\ parent[v] \in Expanded /\ Reaches(parent[v], v)
       /\ \A x \in Expanded : Reaches(x, v) => parent[v] <= x

\* What is final, and final before what is in the queue.
ExpandedFinal ==
  \A x \in Expanded :
    /\ dist[x] # Inf /\ dist[x] = Distances(graph)[x]
    /\ <<dist[x], x>> \notin pq
    /\ \A e \in pq : dist[x] <= e[1]
    /\ \A v \in OutNeighbours(graph, x) : dist[v] <= dist[x] + graph[<<x, v>>]

RunInv ==
  /\ RunTypeOK /\ dist[Source] = 0
  /\ \A i, j \in DOMAIN expanded : expanded[i] = expanded[j] => i = j
  /\ \A v \in Node : dist[v] # Inf => <<dist[v], v>> \in pq \/ v \in Expanded
  /\ ExpandedFinal
  /\ \A v \in Node : HangsFromExpanded(v)

-----------------------------------------------------------------------------
(***************************************************************************)
(* One run of Dijkstra.                                                    *)
(***************************************************************************)
\* The head of the queue.
LEMMA TopFacts ==
  ASSUME RunTypeOK, pq # {}
  PROVE  /\ Top \in pq /\ Top = <<Top[1], Top[2]>>
         /\ Top[1] \in Distance \ {Inf} /\ Top[2] \in Node
         /\ \A e \in pq : Top[1] <= e[1]
<1> DEFINE D == {e[1] : e \in pq}
<1>1. Inf \in Nat /\ Node \subseteq Nat /\ pq \subseteq (Distance \ {Inf}) \X Node
  BY DigraphFacts DEF RunTypeOK
<1>2. \A e \in pq : e = <<e[1], e[2]>> /\ e[1] \in Distance \ {Inf} /\ e[1] \in Nat /\ e[2] \in Node /\ e[2] \in Nat
  <2> SUFFICES ASSUME NEW e \in pq
               PROVE  e = <<e[1], e[2]>> /\ e[1] \in Distance \ {Inf} /\ e[1] \in Nat /\ e[2] \in Node /\ e[2] \in Nat
    OBVIOUS
  <2>1. e \in (Distance \ {Inf}) \X Node
    BY <1>1
  <2>2. e = <<e[1], e[2]>> /\ e[1] \in Distance \ {Inf} /\ e[2] \in Node
    BY <2>1
  <2>3. Distance \subseteq Nat
    BY <1>1 DEF Distance
  <2> QED BY <1>1, <2>2, <2>3
<1>3. D \in SUBSET Nat /\ D # {}
  BY <1>2
<1>4. PICK d \in D : \A x \in D : d <= x
  BY <1>3, LeastNatural
<1> DEFINE P == {e[2] : e \in {x \in pq : x[1] = d}}
<1>5. P \in SUBSET Nat /\ P # {}
  BY <1>2, <1>4
<1>6. PICK p \in P : \A x \in P : p <= x
  BY <1>5, LeastNatural
<1>7. PICK t \in pq : t[1] = d /\ t[2] = p
  BY <1>6
<1>8. \A y \in pq : Before(t, y)
  <2> SUFFICES ASSUME NEW y \in pq PROVE Before(t, y)
    OBVIOUS
  <2>1. y[1] \in D /\ (y[1] = d => y[2] \in P)
    OBVIOUS
  <2>2. d <= y[1] /\ (y[1] = d => p <= y[2]) /\ d \in Nat /\ y[1] \in Nat
    BY <1>2, <1>3, <1>4, <1>6, <2>1
  <2> QED BY <1>7, <2>2 DEF Before
<1>9. Top \in pq /\ \A y \in pq : Before(Top, y)
  BY <1>7, <1>8 DEF Top
<1>10. \A e \in pq : Top[1] <= e[1]
  <2> SUFFICES ASSUME NEW e \in pq PROVE Top[1] <= e[1]
    OBVIOUS
  <2>1. Before(Top, e) /\ Top[1] \in Nat /\ e[1] \in Nat
    BY <1>2, <1>9
  <2> QED BY <2>1 DEF Before
<1> QED BY <1>2, <1>9, <1>10

\* A run starts with the source in the queue.
LEMMA StartRun ==
  ASSUME NEW g, IsDigraph(g), Start(g)
  PROVE  RunInv'
<1>1. /\ graph' = g /\ dist' = Unreached /\ parent' = [v \in Node |-> NoParent]
      /\ pq' = {<<0, Source>>} /\ expanded' = <<>>
  BY DEF Start
<1>2. Inf \in Nat \ {0} /\ Source \in Node /\ 0 \in Distance /\ Inf \in Distance
  BY DigraphFacts DEF Distance
<1>3. /\ dist' \in [Node -> Distance] /\ dist'[Source] = 0
      /\ \A v \in Node : dist'[v] # Inf => v = Source
  BY <1>1, <1>2 DEF Unreached
<1>4. RunTypeOK'
  <2>1. pq' \subseteq (Distance \ {Inf}) \X Node
    BY <1>1, <1>2
  <2>2. expanded' \in Seq(Node)
    BY <1>1
  <2> QED BY <1>1, <1>3, <2>1, <2>2 DEF RunTypeOK
<1>5. Expanded' = {} /\ DOMAIN expanded' = {}
  BY <1>1 DEF Expanded
<1>6. ExpandedFinal'
  BY <1>5 DEF ExpandedFinal
<1>7. \A v \in Node : dist'[v] # Inf => <<dist'[v], v>> \in pq'
  BY <1>1, <1>3
<1>8. \A v \in Node : HangsFromExpanded(v)'
  BY <1>1, <1>3 DEF HangsFromExpanded
<1> QED BY <1>3, <1>4, <1>5, <1>6, <1>7, <1>8 DEF RunInv

LEMMA RunNumbers ==
  ASSUME RunTypeOK
  PROVE  /\ Inf \in Nat \ {0} /\ Source \in Node /\ Node \subseteq Nat
         /\ \A v \in Node : dist[v] \in Nat /\ dist[v] <= Inf
         /\ \A u \in Node : \A v \in OutNeighbours(graph, u) :
              v \in Node /\ u \in InNeighbours(graph, v) /\ graph[<<u, v>>] \in Nat \ {0}
         /\ \A v \in Node : \A u \in InNeighbours(graph, v) :
              u \in Node /\ v \in OutNeighbours(graph, u) /\ graph[<<u, v>>] \in Nat \ {0}
         /\ Expanded \subseteq Node
<1>1. IsDigraph(graph) /\ dist \in [Node -> Distance] /\ expanded \in Seq(Node)
  BY DEF RunTypeOK
<1>2. /\ Inf \in Nat \ {0} /\ Source \in Node /\ Node \subseteq Nat
      /\ \A v \in Node : \A u \in InNeighbours(graph, v) : u \in Node /\ graph[<<u, v>>] \in Nat \ {0}
  BY <1>1, DigraphFacts
<1>3. \A v \in Node : dist[v] \in Nat /\ dist[v] <= Inf
  BY <1>1, DistanceNumbers
<1>4. \A u, v \in Node : v \in OutNeighbours(graph, u) <=> u \in InNeighbours(graph, v)
  BY DEF OutNeighbours, InNeighbours
<1>5. \A u \in Node : OutNeighbours(graph, u) \subseteq Node
  BY DEF OutNeighbours
<1>6. Expanded \subseteq Node
  BY <1>1 DEF Expanded
<1> QED BY <1>2, <1>3, <1>4, <1>5, <1>6

\* No distance is below the shortest one.
LEMMA RunNotBelow ==
  ASSUME RunInv
  PROVE  \A v \in Node : Distances(graph)[v] <= dist[v]
<1>1. RunTypeOK /\ dist[Source] = 0 /\ ExpandedFinal /\ \A v \in Node : HangsFromExpanded(v)
  BY DEF RunInv
<1>2. IsDigraph(graph) /\ dist \in [Node -> Distance] /\ parent \in [Node -> Node \cup {NoParent}]
  BY <1>1 DEF RunTypeOK
<1>3. ASSUME NEW v \in Node \ {Source}, dist[v] # Inf
      PROVE  /\ parent[v] \in InNeighbours(graph, v) /\ dist[parent[v]] # Inf
             /\ dist[v] >= dist[parent[v]] + graph[<<parent[v], v>>]
  <2>1. parent[v] \in Expanded /\ Reaches(parent[v], v)
    BY <1>1, <1>3 DEF HangsFromExpanded
  <2>2. dist[parent[v]] # Inf
    BY <1>1, <2>1 DEF ExpandedFinal
  <2>3. dist[v] \in Nat
    BY <1>1, RunNumbers
  <2> QED BY <2>1, <2>2, <2>3 DEF Reaches
<1> QED BY <1>1, <1>2, <1>3, NotBelowShortest

\* The head of the queue, unless it is out of date, has its final distance.
LEMMA TopIsFinal ==
  ASSUME RunInv, pq # {}, Top[1] = dist[Top[2]]
  PROVE  dist[Top[2]] = Distances(graph)[Top[2]]
<1> DEFINE u == Top[2]
           d == dist[u]
           e == [v \in Node |-> IF dist[v] < d THEN dist[v] ELSE d]
<1>1. /\ RunTypeOK /\ dist[Source] = 0 /\ ExpandedFinal /\ IsDigraph(graph) /\ dist \in [Node -> Distance]
      /\ \A v \in Node : dist[v] # Inf => <<dist[v], v>> \in pq \/ v \in Expanded
  BY DEF RunInv, RunTypeOK
<1>2. u \in Node /\ d \in Distance \ {Inf} /\ \A x \in pq : d <= x[1]
  BY <1>1, TopFacts
<1>3. /\ Inf \in Nat \ {0} /\ Source \in Node /\ \A v \in Node : dist[v] \in Nat /\ dist[v] <= Inf
      /\ \A v \in Node : \A x \in InNeighbours(graph, v) :
           x \in Node /\ v \in OutNeighbours(graph, x) /\ graph[<<x, v>>] \in Nat \ {0}
  BY <1>1, RunNumbers
<1> HIDE DEF u
<1>4. d \in Nat /\ d < Inf
  BY <1>2, <1>3
<1> HIDE DEF d
<1>5. \A v \in Node : e[v] = (IF dist[v] < d THEN dist[v] ELSE d) /\ e[v] \in Nat /\ e[v] <= d /\ e[v] <= dist[v]
  BY <1>3, <1>4
<1>6. e \in [Node -> Distance]
  BY <1>3, <1>4, <1>5 DEF Distance
<1>7. e[Source] = 0
  BY <1>1, <1>3, <1>4, <1>5
<1>8. Respected(graph, e)
  <2> SUFFICES ASSUME NEW v \in Node, NEW x \in InNeighbours(graph, v), e[x] # Inf
               PROVE  e[v] <= e[x] + graph[<<x, v>>]
    BY DEF Respected
  <2>1. x \in Node /\ v \in OutNeighbours(graph, x) /\ graph[<<x, v>>] \in Nat \ {0}
    BY <1>3
  <2>2. CASE dist[x] < d
    <3>1. <<dist[x], x>> \notin pq /\ dist[x] # Inf
      BY <1>2, <1>3, <1>4, <2>1, <2>2
    <3>2. x \in Expanded
      BY <1>1, <2>1, <3>1
    <3>3. dist[v] <= dist[x] + graph[<<x, v>>]
      BY <1>1, <2>1, <3>2 DEF ExpandedFinal
    <3>4. e[x] = dist[x] /\ e[v] <= dist[v] /\ e[v] \in Nat /\ dist[v] \in Nat /\ dist[x] \in Nat
      BY <1>3, <1>5, <2>1, <2>2
    <3> HIDE DEF e
    <3> QED BY <2>1, <3>3, <3>4
  <2>3. CASE ~ (dist[x] < d)
    <3>1. e[x] = d /\ e[v] <= d /\ e[v] \in Nat
      BY <1>5, <2>1, <2>3
    <3> HIDE DEF e
    <3> QED BY <1>4, <2>1, <3>1
  <2> QED BY <2>2, <2>3
<1> HIDE DEF e
<1>9. N - 1 \in Nat
  BY NodesAssumption
<1>10. e[u] <= Distances(graph)[u]
  BY <1>1, <1>2, <1>6, <1>7, <1>8, <1>9, AtMostWalks DEF Distances
<1>11. e[u] = d
  BY <1>2, <1>3, <1>4, <1>5 DEF d
<1>12. Distances(graph)[u] <= d /\ Distances(graph)[u] \in Nat
  <2>1. Distances(graph) \in [Node -> Distance]
    BY <1>1, DistancesFacts
  <2>2. Distances(graph)[u] \in Nat
    BY <1>1, <1>2, <2>1, DistanceNumbers
  <2> QED BY <1>2, <2>2, RunNotBelow DEF d
<1> QED BY <1>4, <1>10, <1>11, <1>12 DEF u, d

\* Expanding the head of the queue, which is up to date.
LEMMA ExpandRun ==
  ASSUME RunInv, pq # {}, Top[1] = dist[Top[2]], Expand(Top[2]), UNCHANGED graph
  PROVE  RunInv'
<1> DEFINE u == Top[2]
           d == dist[u]
           w(v) == graph[<<u, v>>]
<1>1. /\ RunTypeOK /\ dist[Source] = 0 /\ ExpandedFinal /\ IsDigraph(graph)
      /\ dist \in [Node -> Distance] /\ parent \in [Node -> Node \cup {NoParent}]
      /\ pq \subseteq (Distance \ {Inf}) \X Node /\ expanded \in Seq(Node)
      /\ \A i, j \in DOMAIN expanded : expanded[i] = expanded[j] => i = j
      /\ \A v \in Node : dist[v] # Inf => <<dist[v], v>> \in pq \/ v \in Expanded
      /\ \A v \in Node : HangsFromExpanded(v)
  BY DEF RunInv, RunTypeOK
<1>2. /\ Top \in pq /\ Top = <<d, u>> /\ u \in Node /\ d \in Distance \ {Inf}
      /\ \A x \in pq : d <= x[1]
  BY <1>1, TopFacts
<1>3. /\ Inf \in Nat \ {0} /\ Source \in Node /\ Node \subseteq Nat /\ \A v \in Node : dist[v] \in Nat /\ dist[v] <= Inf
      /\ \A v \in OutNeighbours(graph, u) : v \in Node /\ u \in InNeighbours(graph, v) /\ w(v) \in Nat \ {0}
      /\ \A v \in Node : \A x \in InNeighbours(graph, v) :
           x \in Node /\ v \in OutNeighbours(graph, x) /\ graph[<<x, v>>] \in Nat \ {0}
      /\ Expanded \subseteq Node
  BY <1>1, <1>2, RunNumbers
<1>4. d = Distances(graph)[u]
  BY TopIsFinal
<1>5. /\ dist' = [v \in Node |-> IF v \in Decreased(u) THEN d + w(v) ELSE dist[v]]
      /\ parent' = [v \in Node |-> IF v \in Decreased(u) \cup Tied(u) THEN u ELSE parent[v]]
      /\ pq' = (pq \ {Top}) \cup {<<d + w(v), v>> : v \in Decreased(u)}
      /\ expanded' = Append(expanded, u) /\ graph' = graph
  BY DEF Expand
<1>6. /\ Decreased(u) = {v \in OutNeighbours(graph, u) : d + w(v) < dist[v]}
      /\ Tied(u) = {v \in OutNeighbours(graph, u) \ {Source} : d + w(v) = dist[v] /\ u < parent[v]}
  BY DEF Decreased, Tied
<1> HIDE DEF u, d, w
<1>7. d \in Nat /\ d < Inf
  BY <1>2, <1>3 DEF d
<1>8. /\ u \notin Expanded /\ \A x \in Expanded : x \in Node /\ dist[x] \in Nat /\ dist[x] <= d /\ x \notin Decreased(u)
  <2>1. u \notin Expanded
    BY <1>1, <1>2 DEF ExpandedFinal, d
  <2>2. ASSUME NEW x \in Expanded PROVE x \in Node /\ dist[x] \in Nat /\ dist[x] <= d /\ x \notin Decreased(u)
    <3>1. x \in Node /\ dist[x] \in Nat
      BY <1>3
    <3>2. dist[x] <= Top[1] /\ Top[1] = d
      BY <1>1, <1>2 DEF ExpandedFinal
    <3>3. x \notin Decreased(u)
      <4> SUFFICES ASSUME x \in Decreased(u) PROVE FALSE
        OBVIOUS
      <4>1. d + w(x) < dist[x] /\ w(x) \in Nat \ {0}
        BY <1>3, <1>6
      <4> QED BY <1>7, <3>1, <3>2, <4>1
    <3> QED BY <3>1, <3>2, <3>3
  <2> QED BY <2>1, <2>2
<1>9. u \notin Decreased(u) /\ Source \notin Decreased(u)
  <2>1. ASSUME u \in Decreased(u) PROVE FALSE
    <3>1. d + w(u) < d /\ w(u) \in Nat \ {0}
      BY <1>3, <1>6, <2>1 DEF d
    <3> QED BY <1>7, <3>1
  <2>2. ASSUME Source \in Decreased(u) PROVE FALSE
    <3>1. d + w(Source) < 0 /\ w(Source) \in Nat \ {0}
      BY <1>1, <1>3, <1>6, <2>2
    <3> QED BY <1>7, <3>1
  <2> QED BY <2>1, <2>2
<1>10. Expanded' = Expanded \cup {u} /\ expanded' \in Seq(Node)
       /\ \A i, j \in DOMAIN expanded' : expanded'[i] = expanded'[j] => i = j
  <2>1. /\ DOMAIN expanded = 1 .. Len(expanded) /\ Len(expanded) \in Nat
        /\ expanded' \in Seq(Node) /\ DOMAIN expanded' = 1 .. Len(expanded) + 1
        /\ \A i \in 1 .. Len(expanded) : expanded'[i] = expanded[i]
        /\ expanded'[Len(expanded) + 1] = u
    BY <1>1, <1>2, <1>5
  <2>2. DOMAIN expanded' = DOMAIN expanded \cup {Len(expanded) + 1}
    BY <2>1
  <2>3. Expanded' = Expanded \cup {u}
    BY <2>1, <2>2 DEF Expanded
  <2>4. ASSUME NEW i \in DOMAIN expanded', NEW j \in DOMAIN expanded', expanded'[i] = expanded'[j] PROVE i = j
    <3>1. \A k \in DOMAIN expanded : expanded[k] # u
      BY <1>8 DEF Expanded
    <3> QED BY <1>1, <2>1, <2>2, <2>4, <3>1
  <2> QED BY <2>1, <2>3, <2>4
<1>11. /\ \A v \in Decreased(u) : v \in Node /\ dist'[v] = d + w(v) /\ dist'[v] \in Nat /\ dist'[v] < dist[v]
                               /\ d < dist'[v] /\ dist'[v] < Inf
       /\ \A v \in Node \ Decreased(u) : dist'[v] = dist[v]
  <2>1. ASSUME NEW v \in Decreased(u)
        PROVE v \in Node /\ dist'[v] = d + w(v) /\ dist'[v] \in Nat /\ dist'[v] < dist[v] /\ d < dist'[v] /\ dist'[v] < Inf
    <3>1. v \in Node /\ w(v) \in Nat \ {0} /\ d + w(v) < dist[v] /\ dist[v] \in Nat /\ dist[v] <= Inf
      BY <1>3, <1>6
    <3>2. dist'[v] = d + w(v)
      BY <1>5, <3>1
    <3> QED BY <1>3, <1>7, <3>1, <3>2
  <2> QED BY <1>5, <2>1
<1>12. RunTypeOK'
  <2>1. dist' \in [Node -> Distance]
    <3>1. \A v \in Node : dist'[v] \in Distance
      BY <1>1, <1>3, <1>11 DEF Distance
    <3> QED BY <1>5, <3>1
  <2>2. parent' \in [Node -> Node \cup {NoParent}]
    BY <1>1, <1>2, <1>5
  <2>3. pq' \subseteq (Distance \ {Inf}) \X Node
    <3>1. \A v \in Decreased(u) : d + w(v) \in Distance \ {Inf} /\ v \in Node
      BY <1>3, <1>11 DEF Distance
    <3> QED BY <1>1, <1>5, <3>1
  <2> QED BY <1>1, <1>5, <1>10, <2>1, <2>2, <2>3 DEF RunTypeOK
<1>13. \A e \in pq' : d <= e[1]
  <2>1. \A v \in Decreased(u) : d <= d + w(v)
    BY <1>7, <1>11
  <2> QED BY <1>2, <1>5, <2>1
<1>14. dist'[Source] = 0 /\ dist'[u] = d
  BY <1>1, <1>2, <1>3, <1>9, <1>11 DEF d
<1>15. \A v \in Node : dist'[v] # Inf => <<dist'[v], v>> \in pq' \/ v \in Expanded'
  <2> SUFFICES ASSUME NEW v \in Node, dist'[v] # Inf PROVE <<dist'[v], v>> \in pq' \/ v \in Expanded'
    OBVIOUS
  <2>1. CASE v \in Decreased(u)
    BY <1>5, <1>11, <2>1
  <2>2. CASE v \notin Decreased(u)
    <3>1. <<dist[v], v>> \in pq \/ v \in Expanded
      BY <1>1, <1>11, <2>2
    <3>2. <<dist[v], v>> # Top \/ v = u
      BY <1>2
    <3> QED BY <1>5, <1>10, <1>11, <2>2, <3>1, <3>2
  <2> QED BY <2>1, <2>2
<1>16. ExpandedFinal'
  <2> SUFFICES ASSUME NEW x \in Expanded'
               PROVE  /\ dist'[x] # Inf /\ dist'[x] = Distances(graph)[x]
                      /\ <<dist'[x], x>> \notin pq'
                      /\ \A e \in pq' : dist'[x] <= e[1]
                      /\ \A v \in OutNeighbours(graph, x) : dist'[v] <= dist'[x] + graph[<<x, v>>]
    BY <1>5 DEF ExpandedFinal
  <2>0. \A v \in Node : dist'[v] \in Nat /\ dist'[v] <= dist[v]
    BY <1>3, <1>11
  <2>1. x \in Node /\ dist'[x] = dist[x] /\ dist[x] <= d /\ dist[x] \in Nat /\ x \notin Decreased(u)
    BY <1>2, <1>7, <1>8, <1>9, <1>10, <1>11 DEF d
  <2>2. dist'[x] # Inf /\ dist'[x] = Distances(graph)[x]
    <3>1. dist'[x] # Inf
      BY <1>3, <1>7, <2>1
    <3>2. x = u \/ x \in Expanded
      BY <1>10
    <3> QED BY <1>1, <1>4, <2>1, <3>1, <3>2 DEF ExpandedFinal, d
  <2>3. <<dist'[x], x>> \notin pq'
    <3>1. <<dist[x], x>> \notin pq \ {Top}
      BY <1>1, <1>2, <1>10 DEF ExpandedFinal, d
    <3> QED BY <1>5, <2>1, <3>1
  <2>4. \A e \in pq' : dist'[x] <= e[1]
    <3>1. \A e \in pq' : e[1] \in Nat
      <4>1. pq' \subseteq (Distance \ {Inf}) \X Node
        BY <1>12 DEF RunTypeOK
      <4>2. Distance \subseteq Nat
        BY <1>3 DEF Distance
      <4> QED BY <4>1, <4>2
    <3> QED BY <1>7, <1>13, <2>1, <3>1
  <2>5. ASSUME NEW v \in OutNeighbours(graph, x) PROVE dist'[v] <= dist'[x] + graph[<<x, v>>]
    <3>1. v \in Node /\ graph[<<x, v>>] \in Nat
      BY <1>1, <2>1, RunNumbers
    <3>2. CASE x = u
      <4>1. v \in Decreased(u) \/ ~ (d + w(v) < dist[v])
        BY <1>6, <3>2
      <4>2. dist'[v] <= d + w(v)
        BY <1>3, <1>7, <1>11, <2>0, <3>1, <3>2, <4>1 DEF w
      <4> QED BY <1>14, <3>2, <4>2 DEF w
    <3>3. CASE x # u
      <4>1. dist[v] <= dist[x] + graph[<<x, v>>]
        BY <1>1, <1>10, <3>3 DEF ExpandedFinal
      <4>2. dist'[v] <= dist[v] /\ dist'[v] \in Nat /\ dist[v] \in Nat
        BY <1>3, <2>0, <3>1
      <4> QED BY <2>1, <3>1, <4>1, <4>2
    <3> QED BY <3>2, <3>3
  <2> QED BY <2>2, <2>3, <2>4, <2>5
<1>17. \A v \in Node : HangsFromExpanded(v)'
  <2> SUFFICES ASSUME NEW v \in Node PROVE HangsFromExpanded(v)'
    OBVIOUS
  <2> DEFINE Reaches2(x) == x \in InNeighbours(graph, v) /\ dist'[v] = dist'[x] + graph[<<x, v>>]
  <2>1. \A x : Reaches2(x) <=> Reaches(x, v)'
    BY <1>5 DEF Reaches
  <2>2. CASE v = Source \/ dist'[v] = Inf
    <3>1. v = Source \/ dist[v] = Inf
      BY <1>3, <1>11, <2>2
    <3>2. v \notin Decreased(u)
      BY <1>3, <1>9, <1>11, <2>2
    <3>3. parent[v] = NoParent
      BY <1>1, <3>1 DEF HangsFromExpanded
    <3>4. v \notin Tied(u)
      BY <1>2, <1>3, <1>6, <3>3 DEF NoParent
    <3> QED BY <1>5, <2>2, <3>2, <3>3, <3>4 DEF HangsFromExpanded
  <2>3. CASE v # Source /\ dist'[v] # Inf /\ v \in Decreased(u)
    <3>1. parent'[v] = u /\ u \in Expanded' /\ Reaches2(u)
      BY <1>3, <1>5, <1>6, <1>10, <1>11, <1>14, <2>3 DEF w
    <3>2. ASSUME NEW x \in Expanded', Reaches2(x) PROVE u <= x
      <4>1. CASE x = u
        BY <1>2, <1>3, <4>1
      <4>2. CASE x # u
        <5>1. x \in Expanded /\ dist'[x] = dist[x] /\ v \in OutNeighbours(graph, x) /\ x \in Node
          BY <1>3, <1>8, <1>10, <1>11, <3>2, <4>2
        <5>2. dist[v] <= dist[x] + graph[<<x, v>>]
          BY <1>1, <5>1 DEF ExpandedFinal
        <5>3. dist'[v] < dist[v] /\ dist'[v] \in Nat /\ dist[v] \in Nat
          BY <1>3, <1>11, <2>3
        <5> QED BY <3>2, <5>1, <5>2, <5>3
      <4> QED BY <4>1, <4>2
    <3> QED BY <2>1, <2>3, <3>1, <3>2 DEF HangsFromExpanded
  <2>4. CASE v # Source /\ dist'[v] # Inf /\ v \notin Decreased(u)
    <3>1. dist'[v] = dist[v] /\ dist[v] # Inf
      BY <1>11, <2>4
    <3>2. /\ parent[v] \in Expanded /\ Reaches(parent[v], v)
          /\ \A x \in Expanded : Reaches(x, v) => parent[v] <= x
      BY <1>1, <2>4, <3>1 DEF HangsFromExpanded
    <3>3. \A x \in Expanded : dist'[x] = dist[x] /\ (Reaches2(x) <=> Reaches(x, v))
      BY <1>8, <1>11, <3>1 DEF Reaches
    <3>4. parent[v] \in Node /\ parent[v] \in Nat /\ u \in Nat
      BY <1>2, <1>3, <3>2
    <3>5. Reaches2(u) => v \in OutNeighbours(graph, u) /\ d + w(v) = dist[v]
      BY <1>3, <1>14, <3>1 DEF w
    <3>6. CASE v \in Tied(u)
      <4>1. parent'[v] = u /\ u < parent[v] /\ v \in OutNeighbours(graph, u) /\ d + w(v) = dist[v]
        BY <1>5, <1>6, <3>6
      <4>2. u \in Expanded' /\ Reaches2(u)
        BY <1>3, <1>10, <1>14, <3>1, <4>1 DEF w
      <4>3. ASSUME NEW x \in Expanded', Reaches2(x) PROVE u <= x
        <5>1. CASE x = u
          BY <3>4, <5>1
        <5>2. CASE x # u
          <6>1. x \in Expanded /\ x \in Nat
            BY <1>3, <1>10, <5>2
          <6>2. parent[v] <= x
            BY <3>2, <3>3, <4>3, <6>1
          <6> QED BY <3>4, <4>1, <6>1, <6>2
        <5> QED BY <5>1, <5>2
      <4> QED BY <2>1, <2>4, <4>1, <4>2, <4>3 DEF HangsFromExpanded
    <3>7. CASE v \notin Tied(u)
      <4>1. parent'[v] = parent[v]
        BY <1>5, <2>4, <3>7
      <4>2. parent[v] \in Expanded' /\ Reaches2(parent[v])
        BY <1>10, <3>2, <3>3
      <4>3. ASSUME NEW x \in Expanded', Reaches2(x) PROVE parent[v] <= x
        <5>1. CASE x = u
          <6>1. ~ (u < parent[v])
            BY <1>6, <2>4, <3>5, <3>7, <4>3, <5>1
          <6> QED BY <3>4, <5>1, <6>1
        <5>2. CASE x # u
          BY <1>10, <3>2, <3>3, <4>3, <5>2
        <5> QED BY <5>1, <5>2
      <4> QED BY <2>1, <2>4, <4>1, <4>2, <4>3 DEF HangsFromExpanded
    <3> QED BY <3>6, <3>7
  <2> QED BY <2>2, <2>3, <2>4
<1> QED BY <1>10, <1>12, <1>14, <1>15, <1>16, <1>17 DEF RunInv

LEMMA PopRun ==
  ASSUME RunInv, Pop
  PROVE  RunInv'
<1>1. pq # {} /\ UNCHANGED graph
  BY DEF Pop
<1>2. CASE Top[1] = dist[Top[2]]
  <2>1. Expand(Top[2])
    BY <1>2 DEF Pop
  <2> QED BY <1>1, <1>2, <2>1, ExpandRun
<1>3. CASE Top[1] # dist[Top[2]]
  <2>1. pq' = pq \ {Top} /\ UNCHANGED <<graph, dist, parent, expanded>>
    BY <1>1, <1>3 DEF Pop
  <2>2. \A v \in Node : <<dist[v], v>> # Top
    BY <1>3
  <2>3. Expanded' = Expanded /\ RunTypeOK'
    BY <2>1 DEF RunInv, RunTypeOK, Expanded
  <2>4. ExpandedFinal'
    BY <2>1, <2>3 DEF RunInv, ExpandedFinal
  <2>5. \A v \in Node : HangsFromExpanded(v)'
    BY <2>1, <2>3 DEF RunInv, HangsFromExpanded, Reaches
  <2> QED BY <2>1, <2>2, <2>3, <2>4, <2>5 DEF RunInv
<1> QED BY <1>2, <1>3

\* A run whose queue is empty has found the canonical tree.
LEMMA RunEnds ==
  ASSUME RunInv
  PROVE  ExpandedOnce /\ NoneLost /\ EndsCanonical
<1>1. /\ RunTypeOK /\ dist[Source] = 0 /\ ExpandedFinal /\ IsDigraph(graph)
      /\ dist \in [Node -> Distance] /\ parent \in [Node -> Node \cup {NoParent}]
      /\ \A v \in Node : dist[v] # Inf => <<dist[v], v>> \in pq \/ v \in Expanded
      /\ \A v \in Node : HangsFromExpanded(v)
  BY DEF RunInv, RunTypeOK
<1>2. ExpandedOnce /\ NoneLost
  BY DEF RunInv, ExpandedFinal, Expanded, ExpandedOnce, NoneLost
<1>3. ASSUME pq = {} PROVE [dist |-> dist, parent |-> parent] = CanonicalTree(graph)
  <2>1. \A v \in Node : dist[v] # Inf => v \in Expanded
    BY <1>1, <1>3
  <2>2. /\ Expanded \subseteq Node /\ \A v \in Node : dist[v] \in Nat
        /\ \A v \in Node : \A u \in InNeighbours(graph, v) : u \in Node /\ v \in OutNeighbours(graph, u)
    BY <1>1, RunNumbers
  <2>3. Respected(graph, dist)
    BY <1>1, <2>1, <2>2 DEF ExpandedFinal, Respected
  <2>4. Supported(graph, dist)
    <3> SUFFICES ASSUME NEW v \in Node \ {Source}, dist[v] # Inf PROVE Supports(graph, dist, parent[v], v) /\ parent[v] \in Node
      BY DEF Supported
    <3>1. parent[v] \in Expanded /\ Reaches(parent[v], v)
      BY <1>1 DEF HangsFromExpanded
    <3>2. dist[parent[v]] # Inf /\ parent[v] \in Node
      BY <1>1, <2>2, <3>1 DEF ExpandedFinal
    <3> QED BY <2>2, <3>1, <3>2 DEF Reaches, Supports
  <2>5. dist = Distances(graph)
    BY <1>1, <2>3, <2>4, CertifiedDistances
  <2>6. ASSUME NEW v \in Node PROVE Hangs(graph, dist, parent, v)
    <3>1. CASE v = Source \/ dist[v] = Inf
      BY <1>1, <3>1 DEF HangsFromExpanded, Hangs
    <3>2. CASE ~ (v = Source \/ dist[v] = Inf)
      <4>1. /\ parent[v] \in Expanded /\ Reaches(parent[v], v)
            /\ \A x \in Expanded : Reaches(x, v) => parent[v] <= x
        BY <1>1, <3>2 DEF HangsFromExpanded
      <4>2. parent[v] \in Node /\ Explains(graph, dist, parent[v], v)
        BY <1>1, <2>2, <4>1 DEF ExpandedFinal, Reaches, Explains
      <4>3. \A u \in Node : Explains(graph, dist, u, v) => u \in Expanded /\ Reaches(u, v)
        BY <2>1 DEF Reaches, Explains
      <4> QED BY <3>2, <4>1, <4>2, <4>3 DEF Hangs
    <3> QED BY <3>1, <3>2
  <2> QED BY <1>1, <2>5, <2>6, CertifiedTree
<1> QED BY <1>2, <1>3 DEF EndsCanonical

-----------------------------------------------------------------------------
(***************************************************************************)
(* Networks, and their columns.                                            *)
(***************************************************************************)
IsNetwork(g) == g \in [DOMAIN g -> Vector] /\ DOMAIN g \subseteq Node \X Node

NetworkInsertions == Seq([edge : Node \X Node, weight : Vector])

InsertionColumn(list, k) == [i \in DOMAIN list |-> [edge |-> list[i].edge, weight |-> list[i].weight[k]]]

LEMMA ColumnIsDigraph ==
  ASSUME NEW g, IsNetwork(g), NEW k \in 1 .. K
  PROVE  IsDigraph(Column(g, k)) /\ DOMAIN Column(g, k) = DOMAIN g
<1>1. \A e \in DOMAIN g : g[e][k] \in 1 .. MaxWeight
  BY DEF IsNetwork, Vector
<1> QED BY <1>1 DEF IsNetwork, IsDigraph, Column

LEMMA InsertionFacts ==
  ASSUME NEW list \in NetworkInsertions
  PROVE  \A i \in DOMAIN list : list[i].edge \in Node \X Node /\ list[i].weight \in Vector
<1> SUFFICES ASSUME NEW i \in DOMAIN list PROVE list[i].edge \in Node \X Node /\ list[i].weight \in Vector
  OBVIOUS
<1> DEFINE R == [edge : Node \X Node, weight : Vector]
<1>1. list[i] \in R
  <2> HIDE DEF R
  <2>1. list \in Seq(R)
    BY DEF NetworkInsertions, R
  <2> QED BY <2>1
<1> QED BY <1>1

\* Changing a network changes each of its columns.
LEMMA AppliedColumns ==
  ASSUME NEW g, IsNetwork(g), NEW gone \in SUBSET (Node \X Node), NEW list \in NetworkInsertions
  PROVE  /\ IsNetwork(Applied(g, gone, list))
         /\ \A k \in 1 .. K : Column(Applied(g, gone, list), k) = Applied(Column(g, k), gone, InsertionColumn(list, k))
<1> DEFINE G(m) == After(g, gone, list, m)
           C(m, k) == After(Column(g, k), gone, InsertionColumn(list, k), m)
           T == {m \in Nat : m <= Len(list) => IsNetwork(G(m)) /\ \A k \in 1 .. K : Column(G(m), k) = C(m, k)}
<1>0. Len(list) \in Nat /\ DOMAIN list = 1 .. Len(list)
  BY DEF NetworkInsertions
<1>1. 0 \in T
  <2>1. G(0) = [e \in DOMAIN g \ gone |-> g[e]]
    BY AfterStages DEF Kept
  <2>2. \A k \in 1 .. K : C(0, k) = [e \in DOMAIN g \ gone |-> g[e][k]]
    <3>1. \A k \in 1 .. K : C(0, k) = Kept(Column(g, k), gone)
      BY AfterStages
    <3>2. \A k \in 1 .. K : Kept(Column(g, k), gone) = [e \in DOMAIN g \ gone |-> g[e][k]]
      BY DEF Kept, Column
    <3> QED BY <3>1, <3>2
  <2>3. \A k \in 1 .. K : Column(G(0), k) = [e \in DOMAIN g \ gone |-> g[e][k]]
    BY <2>1 DEF Column
  <2>4. IsNetwork(G(0))
    BY <2>1 DEF IsNetwork
  <2> QED BY <2>2, <2>3, <2>4
<1>2. ASSUME NEW m \in Nat, m \in T PROVE m + 1 \in T
  <2> SUFFICES ASSUME m + 1 <= Len(list)
               PROVE  IsNetwork(G(m + 1)) /\ \A k \in 1 .. K : Column(G(m + 1), k) = C(m + 1, k)
    OBVIOUS
  <2> DEFINE new == list[m + 1]
  <2>1. IsNetwork(G(m)) /\ (\A k \in 1 .. K : Column(G(m), k) = C(m, k)) /\ m + 1 \in DOMAIN list
    BY <1>0, <1>2
  <2>2. new.edge \in Node \X Node /\ new.weight \in Vector
    BY <2>1, InsertionFacts
  <2>3. G(m + 1) = Inserted(G(m), new)
    BY AfterStages
  <2>4. \A k \in 1 .. K : C(m + 1, k) = Inserted(C(m, k), [edge |-> new.edge, weight |-> new.weight[k]])
    <3>1. \A k \in 1 .. K : C(m + 1, k) = Inserted(C(m, k), InsertionColumn(list, k)[m + 1])
      BY AfterStages
    <3>2. \A k \in 1 .. K : InsertionColumn(list, k)[m + 1] = [edge |-> new.edge, weight |-> new.weight[k]]
      BY <2>1 DEF InsertionColumn
    <3> QED BY <3>1, <3>2
  <2> HIDE DEF new, G, C
  <2>5. IsNetwork(G(m + 1))
    BY <2>1, <2>2, <2>3 DEF IsNetwork, Inserted
  <2>6. ASSUME NEW k \in 1 .. K PROVE Column(G(m + 1), k) = C(m + 1, k)
    <3>1. Column(Inserted(G(m), new), k) = Inserted(Column(G(m), k), [edge |-> new.edge, weight |-> new.weight[k]])
      BY DEF Column, Inserted
    <3> QED BY <2>1, <2>3, <2>4, <3>1
  <2> QED BY <2>5, <2>6
<1> HIDE DEF T
<1>3. Nat \subseteq T
  BY <1>1, <1>2, NatSetInduction
<1>4. IsNetwork(G(Len(list))) /\ \A k \in 1 .. K : Column(G(Len(list)), k) = C(Len(list), k)
  BY <1>0, <1>3 DEF T
<1>5. \A k \in 1 .. K : Len(InsertionColumn(list, k)) = Len(list)
  BY <1>0 DEF InsertionColumn
<1> QED BY <1>4, <1>5 DEF Applied

\* The insertions of one objective.
LEMMA InsertionColumnType ==
  ASSUME NEW list \in NetworkInsertions, NEW k \in 1 .. K
  PROVE  InsertionColumn(list, k) \in InsertionLists
<1>1. Len(list) \in Nat /\ DOMAIN list = 1 .. Len(list)
  BY DEF NetworkInsertions
<1>2. \A i \in DOMAIN list : list[i].edge \in Node \X Node /\ list[i].weight[k] \in 1 .. MaxWeight
  BY InsertionFacts DEF Vector
<1> QED BY <1>1, <1>2 DEF InsertionColumn, InsertionLists

-----------------------------------------------------------------------------
(***************************************************************************)
(* The path of a tree: the least set that holds a vertex and the parents   *)
(* of its members.                                                         *)
(***************************************************************************)
Closed(p, S) == \A x \in S : p[x] \in Node => p[x] \in S

LEMMA StepsExist ==
  ASSUME NEW S, NEW a \in S, NEW G \in [S -> S]
  PROVE  \A m \in Nat : \E f \in [0 .. m -> S] : f = [i \in 0 .. m |-> IF i = 0 THEN a ELSE G[f[i - 1]]]
<1> DEFINE Stepped(f, m) == f = [i \in 0 .. m |-> IF i = 0 THEN a ELSE G[f[i - 1]]]
           T == {m \in Nat : \E f \in [0 .. m -> S] : Stepped(f, m)}
<1>1. 0 \in T
  <2> DEFINE f == [i \in 0 .. 0 |-> a]
  <2>1. f \in [0 .. 0 -> S] /\ Stepped(f, 0)
    OBVIOUS
  <2> QED BY <2>1
<1>2. ASSUME NEW m \in Nat, m \in T PROVE m + 1 \in T
  <2>1. PICK f \in [0 .. m -> S] : Stepped(f, m)
    BY <1>2
  <2> DEFINE e == [i \in 0 .. m + 1 |-> IF i \in 0 .. m THEN f[i] ELSE G[f[m]]]
  <2>2. /\ \A i \in 0 .. m : e[i] = f[i]
        /\ e[m + 1] = G[f[m]] /\ e = [i \in 0 .. m + 1 |-> e[i]]
    OBVIOUS
  <2>3. e \in [0 .. m + 1 -> S]
    OBVIOUS
  <2> HIDE DEF e
  <2>4. ASSUME NEW i \in 0 .. m + 1 PROVE e[i] = IF i = 0 THEN a ELSE G[e[i - 1]]
    <3>1. CASE i \in 0 .. m
      <4>1. i # 0 => i - 1 \in 0 .. m
        BY <3>1
      <4>2. f[i] = IF i = 0 THEN a ELSE G[f[i - 1]]
        BY <2>1, <3>1
      <4> QED BY <2>2, <3>1, <4>1, <4>2
    <3>2. CASE i = m + 1
      <4>1. i - 1 = m /\ m \in 0 .. m /\ i # 0
        BY <3>2
      <4> QED BY <2>2, <3>2, <4>1
    <3> QED BY <3>1, <3>2
  <2>5. Stepped(e, m + 1)
    BY <2>2, <2>4
  <2>6. m + 1 \in Nat
    OBVIOUS
  <2> HIDE DEF Stepped
  <2> QED BY <2>3, <2>5, <2>6
<1> HIDE DEF T
<1>3. Nat \subseteq T
  BY <1>1, <1>2, NatSetInduction
<1> QED BY <1>3 DEF T

LEMMA PathFacts ==
  ASSUME NEW t, t.parent \in [Node -> Node \cup {NoParent}], NEW v \in Node
  PROVE  /\ PathTo(t, v) \in SUBSET Node /\ v \in PathTo(t, v)
         /\ Closed(t.parent, PathTo(t, v))
         /\ \A S : v \in S /\ Closed(t.parent, S) => PathTo(t, v) \subseteq S
<1> DEFINE Up(S) == S \cup {u \in Node : \E x \in S : t.parent[x] = u}
           G == [S \in SUBSET Node |-> Up(S)]
           Climb(f) == f = [i \in 0 .. N |-> IF i = 0 THEN {v} ELSE Up(f[i - 1])]
           b == CHOOSE f : Climb(f)
<1>0. N \in Nat \ {0}
  BY NodesAssumption
<1>1. PathTo(t, v) = b[N]
  BY DEF PathTo
<1>2. \E f : Climb(f)
  <2>1. G \in [SUBSET Node -> SUBSET Node] /\ {v} \in SUBSET Node
    OBVIOUS
  <2> HIDE DEF G
  <2>2. \E f \in [0 .. N -> SUBSET Node] : f = [i \in 0 .. N |-> IF i = 0 THEN {v} ELSE G[f[i - 1]]]
    <3> DEFINE S == SUBSET Node
               a == {v}
    <3>1. a \in S /\ G \in [S -> S] /\ N \in Nat
      BY <1>0, <2>1
    <3> HIDE DEF S, a
    <3>2. \E f \in [0 .. N -> S] : f = [i \in 0 .. N |-> IF i = 0 THEN a ELSE G[f[i - 1]]]
      BY ONLY <3>1, StepsExist
    <3> QED BY <3>2 DEF S, a
  <2>2a. PICK f \in [0 .. N -> SUBSET Node] : f = [i \in 0 .. N |-> IF i = 0 THEN {v} ELSE G[f[i - 1]]]
    BY <2>2
  <2>3. \A i \in 0 .. N : i # 0 => i - 1 \in 0 .. N /\ G[f[i - 1]] = Up(f[i - 1])
    <3> SUFFICES ASSUME NEW i \in 0 .. N, i # 0 PROVE i - 1 \in 0 .. N /\ G[f[i - 1]] = Up(f[i - 1])
      OBVIOUS
    <3>1. i - 1 \in 0 .. N
      BY <1>0
    <3>2. f[i - 1] \in SUBSET Node
      BY <3>1
    <3> HIDE DEF Up
    <3> QED BY <3>1, <3>2 DEF G
  <2> HIDE DEF Up
  <2>4. Climb(f)
    BY <2>2a, <2>3
  <2> QED BY <2>4
<1>3. Climb(b)
  <2> HIDE DEF Climb
  <2> QED BY <1>2
<1> HIDE DEF b, Up
<1>4. b[0] = {v} /\ \A k \in Nat : k + 1 <= N => b[k + 1] = Up(b[k])
  <2>1. 0 \in 0 .. N
    BY <1>0
  <2>2. ASSUME NEW k \in Nat, k + 1 <= N PROVE b[k + 1] = Up(b[k])
    <3>1. k + 1 \in 0 .. N /\ k + 1 # 0 /\ (k + 1) - 1 = k
      BY <1>0, <2>2
    <3> QED BY <1>3, <3>1
  <2> QED BY <1>3, <2>1, <2>2
<1>5. IsFiniteSet(Node) /\ Cardinality(Node) = N
  <2>1. 0 \in Int /\ N - 1 \in Int /\ ~ (0 > N - 1) /\ N - 1 - 0 + 1 = N
    BY <1>0
  <2> QED BY <2>1, FS_Interval DEF Node
<1>6. \A S \in SUBSET Node : IsFiniteSet(S) /\ Cardinality(S) \in Nat /\ Cardinality(S) <= N
  <2> SUFFICES ASSUME NEW S \in SUBSET Node PROVE IsFiniteSet(S) /\ Cardinality(S) \in Nat /\ Cardinality(S) <= N
    OBVIOUS
  <2> QED BY <1>5, FS_Subset, FS_CardinalityType
<1> DEFINE Good(k) == /\ b[k] \in SUBSET Node /\ v \in b[k]
                      /\ Closed(t.parent, b[k]) \/ Cardinality(b[k]) >= k + 1
                      /\ \A S : v \in S /\ Closed(t.parent, S) => b[k] \subseteq S
           T == {k \in Nat : k <= N => Good(k)}
<1>7. 0 \in T
  <2>1. Cardinality({v}) = 1
    BY FS_Singleton
  <2> QED BY <1>4, <2>1
<1>8. ASSUME NEW k \in Nat, k \in T PROVE k + 1 \in T
  <2> SUFFICES ASSUME k + 1 <= N PROVE Good(k + 1)
    OBVIOUS
  <2>1. Good(k) /\ b[k + 1] = Up(b[k])
    BY <1>0, <1>4, <1>8
  <2>2. b[k + 1] \in SUBSET Node /\ b[k] \subseteq b[k + 1]
    BY <2>1 DEF Up
  <2>3. \A S : v \in S /\ Closed(t.parent, S) => b[k + 1] \subseteq S
    BY <2>1 DEF Up, Closed
  <2>4. CASE Closed(t.parent, b[k])
    <3>1. b[k + 1] = b[k]
      BY <2>1, <2>4 DEF Up, Closed
    <3> QED BY <2>1, <2>4, <3>1
  <2>5. CASE ~ Closed(t.parent, b[k])
    <3>1. b[k + 1] # b[k]
      BY <2>1, <2>5 DEF Up, Closed
    <3>2. Cardinality(b[k]) <= Cardinality(b[k + 1]) /\ Cardinality(b[k]) # Cardinality(b[k + 1])
      BY <1>6, <2>2, <3>1, FS_Subset
    <3>3. Cardinality(b[k]) \in Nat /\ Cardinality(b[k + 1]) \in Nat /\ Cardinality(b[k]) >= k + 1
      BY <1>6, <2>1, <2>2, <2>5
    <3>4. Cardinality(b[k + 1]) >= (k + 1) + 1
      BY <3>2, <3>3
    <3> QED BY <2>1, <2>2, <2>3, <3>4
  <2> QED BY <2>4, <2>5
<1> HIDE DEF T
<1>9. Nat \subseteq T
  BY <1>7, <1>8, NatSetInduction
<1>10. Good(N)
  BY <1>0, <1>9 DEF T
<1>11. ~ (Cardinality(b[N]) >= N + 1)
  BY <1>0, <1>6, <1>10
<1> QED BY <1>1, <1>10, <1>11
\* A vertex as many steps from the root as it is far away has a path of one
\* vertex more.
LEMMA PathLength ==
  ASSUME NEW t, t.parent \in [Node -> Node \cup {NoParent}], NEW P \in SUBSET Node, NEW d \in [Node -> Nat],
         \A x \in P : \/ t.parent[x] \notin Node /\ d[x] = 0
                      \/ t.parent[x] \in P /\ d[x] = d[t.parent[x]] + 1
  PROVE  \A x \in P : Cardinality(PathTo(t, x)) = d[x] + 1
<1> DEFINE p == t.parent
           T == {n \in Nat : \A x \in P : d[x] = n => Cardinality(PathTo(t, x)) = n + 1}
<1>0. \A x \in P : x \in Node /\ d[x] \in Nat /\ PathTo(t, x) \in SUBSET Node /\ x \in PathTo(t, x) /\ Closed(p, PathTo(t, x))
                   /\ \A S : x \in S /\ Closed(p, S) => PathTo(t, x) \subseteq S
  BY PathFacts
<1>1. 0 \in T
  <2> SUFFICES ASSUME NEW x \in P, d[x] = 0 PROVE Cardinality(PathTo(t, x)) = 0 + 1
    OBVIOUS
  <2>1. p[x] \notin Node
    BY <1>0
  <2>2. Closed(p, {x})
    BY <2>1 DEF Closed
  <2>3. PathTo(t, x) = {x}
    BY <1>0, <2>2
  <2> QED BY <2>3, FS_Singleton
<1>2. ASSUME NEW n \in Nat, n \in T PROVE n + 1 \in T
  <2> SUFFICES ASSUME NEW x \in P, d[x] = n + 1 PROVE Cardinality(PathTo(t, x)) = (n + 1) + 1
    OBVIOUS
  <2>1. p[x] \in P /\ d[p[x]] = n /\ p[x] \in Node
    BY <1>0
  <2>2. Cardinality(PathTo(t, p[x])) = n + 1
    BY <1>2, <2>1
  <2> DEFINE up == PathTo(t, p[x])
  <2>3. /\ up \in SUBSET Node /\ p[x] \in up /\ Closed(p, up)
        /\ \A S : p[x] \in S /\ Closed(p, S) => up \subseteq S
    BY <1>0, <2>1
  <2> HIDE DEF up
  <2>4. Closed(p, up \cup {x})
    BY <2>3 DEF Closed
  <2>5. up \subseteq PathTo(t, x)
    BY <1>0, <2>1, <2>3 DEF Closed
  <2>6. PathTo(t, x) = up \cup {x}
    BY <1>0, <2>4, <2>5
  <2>7. x \notin up
    <3> DEFINE S == {y \in P : d[y] <= n}
    <3>1. \A y \in S : p[y] \in Node => p[y] \in S
      <4> SUFFICES ASSUME NEW y \in S, p[y] \in Node PROVE p[y] \in S
        OBVIOUS
      <4>1. y \in P /\ d[y] <= n /\ d[y] \in Nat
        BY <1>0
      <4>2. p[y] \in P /\ d[y] = d[p[y]] + 1
        BY <4>1
      <4> QED BY <1>0, <4>1, <4>2
    <3>2. p[x] \in S
      BY <2>1
    <3>3. up \subseteq S
      BY <2>3, <3>1, <3>2 DEF Closed
    <3> QED BY <3>3
  <2>8. IsFiniteSet(Node)
    <3>1. 0 \in Int /\ N - 1 \in Int
      BY NodesAssumption
    <3> QED BY <3>1, FS_Interval DEF Node
  <2>9. IsFiniteSet(up)
    BY <2>3, <2>8, FS_Subset
  <2>10. Cardinality(up \cup {x}) = Cardinality(up) + 1
    BY <2>7, <2>9, FS_AddElement
  <2> QED BY <2>2, <2>6, <2>10 DEF up
<1> HIDE DEF T
<1>3. Nat \subseteq T
  BY <1>1, <1>2, NatSetInduction
<1> QED BY <1>0, <1>3 DEF T

-----------------------------------------------------------------------------
(***************************************************************************)
(* The combined graph, of the trees of all columns of one network.         *)
(***************************************************************************)
TreesOf(g) == \A k \in 1 .. K : trees[k] = CanonicalTree(Column(g, k))

TreeGraph == [e \in TreeEdges |-> CombinedWeight(e)]

\* How many trees an edge is in.
LEMMA MembershipFacts ==
  ASSUME NEW e
  PROVE  /\ Membership(e) \in 0 .. K
         /\ Membership(e) > 0 <=> \E k \in 1 .. K : trees[k].parent[e[2]] = e[1]
         /\ (\A k \in 1 .. K : trees[k].parent[e[2]] = e[1]) => Membership(e) = K
<1> DEFINE in == {k \in 1 .. K : trees[k].parent[e[2]] = e[1]}
<1>1. K \in Nat \ {0}
  BY ObjectivesAssumption
<1>2. IsFiniteSet(1 .. K) /\ Cardinality(1 .. K) = K
  <2>1. 1 \in Int /\ K \in Int /\ ~ (1 > K) /\ K - 1 + 1 = K
    BY <1>1
  <2> QED BY <2>1, FS_Interval
<1>3. in \subseteq 1 .. K
  OBVIOUS
<1> HIDE DEF in
<1>4. IsFiniteSet(in) /\ Cardinality(in) <= K /\ Cardinality(in) \in Nat
  BY <1>2, <1>3, FS_Subset, FS_CardinalityType
<1>5. Cardinality(in) = 0 <=> in = {}
  BY <1>4, FS_EmptySet
<1>6. Membership(e) = Cardinality(in)
  BY DEF Membership, in
<1>7. Membership(e) > 0 <=> in # {}
  BY <1>4, <1>5, <1>6
<1>8. Membership(e) > 0 <=> \E k \in 1 .. K : trees[k].parent[e[2]] = e[1]
  BY <1>7 DEF in
<1>9. (\A k \in 1 .. K : trees[k].parent[e[2]] = e[1]) => in = 1 .. K
  BY DEF in
<1> QED BY <1>1, <1>2, <1>4, <1>6, <1>8, <1>9

\* Every edge of the combined graph is one of the network, over which one of
\* the trees reaches its head.
LEMMA TreeGraphFacts ==
  ASSUME NEW g, IsNetwork(g), TreesOf(g)
  PROVE  /\ IsDigraph(TreeGraph) /\ TreeEdges \subseteq DOMAIN g
         /\ CanonicalTree(TemporaryGraph) = CanonicalTree(TreeGraph)
         /\ \A k \in 1 .. K : \A v \in Node \ {Source} :
              trees[k].dist[v] # Inf => <<trees[k].parent[v], v>> \in TreeEdges
<1>1. K \in Nat \ {0} /\ K <= MaxWeight /\ MaxWeight \in Nat /\ NoParent \notin Node
  BY ObjectivesAssumption, WeightAssumption, NodesAssumption DEF Node, NoParent
<1>2. \A k \in 1 .. K :
        /\ IsDigraph(Column(g, k)) /\ DOMAIN Column(g, k) = DOMAIN g
        /\ \A v \in Node : Hangs(Column(g, k), trees[k].dist, trees[k].parent, v)
  BY ColumnIsDigraph, CanonicalFacts DEF TreesOf
<1>3. ASSUME NEW e \in TreeEdges PROVE CombinedWeight(e) \in 1 .. MaxWeight /\ e \in DOMAIN g /\ e \in Node \X (Node \ {Source})
  <2>1. e \in Node \X (Node \ {Source}) /\ Membership(e) > 0
    BY DEF TreeEdges
  <2>2. CombinedWeight(e) \in 1 .. MaxWeight
    BY <1>1, <2>1, MembershipFacts DEF CombinedWeight
  <2>3. PICK k \in 1 .. K : trees[k].parent[e[2]] = e[1]
    BY <2>1, MembershipFacts
  <2>4. e = <<e[1], e[2]>> /\ e[1] \in Node /\ e[2] \in Node \ {Source}
    BY <2>1
  <2>5. e[1] \in InNeighbours(Column(g, k), e[2])
    BY <1>1, <1>2, <2>3, <2>4 DEF Hangs, Explains
  <2>6. <<e[1], e[2]>> \in DOMAIN g
    BY <1>2, <2>5 DEF InNeighbours
  <2> QED BY <2>1, <2>2, <2>4, <2>6
<1>4. IsDigraph(TreeGraph) /\ DOMAIN TreeGraph = TreeEdges
  <2>1. TreeEdges \subseteq Node \X Node
    BY <1>3
  <2> QED BY <1>3, <2>1 DEF TreeGraph, IsDigraph
<1>5. CanonicalTree(TemporaryGraph) = CanonicalTree(TreeGraph)
  <2>1. <<Source, Source>> \notin TreeEdges
    BY DEF TreeEdges
  <2>2. TemporaryGraph = [e \in DOMAIN TreeGraph \cup {<<Source, Source>>} |->
                            IF e = <<Source, Source>> THEN 0 ELSE TreeGraph[e]]
    BY <1>4 DEF TemporaryGraph, TreeGraph
  <2> QED BY <1>4, <2>1, <2>2, LoopAtSource
<1>6. ASSUME NEW k \in 1 .. K, NEW v \in Node \ {Source}, trees[k].dist[v] # Inf
      PROVE  <<trees[k].parent[v], v>> \in TreeEdges
  <2> DEFINE e == <<trees[k].parent[v], v>>
  <2>1. trees[k].parent[v] \in Node
    BY <1>2, <1>6 DEF Hangs
  <2>2. e[2] = v /\ e[1] = trees[k].parent[v] /\ e \in Node \X (Node \ {Source})
    BY <2>1
  <2> HIDE DEF e
  <2>3. Membership(e) > 0
    BY <2>2, MembershipFacts
  <2>4. e \in TreeEdges
    BY <2>2, <2>3 DEF TreeEdges
  <2> QED BY <2>4 DEF e
<1> QED BY <1>3, <1>4, <1>5, <1>6

\* The edges of one tree alone reach what the network reaches.
LEMMA TreeGraphSpans ==
  ASSUME NEW g, IsNetwork(g), TreesOf(g), NEW v \in Node
  PROVE  Distances(TreeGraph)[v] = Inf <=> Distances(Column(g, 1))[v] = Inf
<1> DEFINE c == Column(g, 1)
           d == Distances(c)
           p == trees[1].parent
           own == {e \in TreeEdges : p[e[2]] = e[1]}
           h == [e \in own |-> c[e]]
<1>1. 1 \in 1 .. K
  BY ObjectivesAssumption
<1>2. /\ IsDigraph(TreeGraph) /\ DOMAIN TreeGraph = TreeEdges /\ TreeEdges \subseteq DOMAIN g
      /\ \A x \in Node \ {Source} : trees[1].dist[x] # Inf => <<p[x], x>> \in TreeEdges
  BY <1>1, TreeGraphFacts DEF TreeGraph
<1>3. IsDigraph(c) /\ DOMAIN c = DOMAIN g /\ trees[1] = CanonicalTree(c)
  BY <1>1, ColumnIsDigraph DEF TreesOf
<1> HIDE DEF c
<1>4. trees[1].dist = d /\ \A x \in Node : Hangs(c, d, p, x)
  BY <1>3, CanonicalFacts
<1>5. d \in [Node -> Distance] /\ d[Source] = 0 /\ Respected(c, d)
  BY <1>3, DistancesFacts
<1>6. Distances(TreeGraph)[v] # Inf => d[v] # Inf
  BY <1>2, <1>3, ReachGrows
<1>7. DOMAIN h = own /\ own \subseteq TreeEdges /\ \A e \in own : h[e] = c[e]
  OBVIOUS
<1>8. IsDigraph(h)
  <2>1. \A e \in own : h[e] \in 1 .. MaxWeight
    BY <1>2, <1>3, <1>7 DEF IsDigraph
  <2>2. own \subseteq Node \X Node
    BY <1>2, <1>3 DEF IsDigraph
  <2>3. h \in [DOMAIN h -> 1 .. MaxWeight]
    BY <1>7, <2>1
  <2> QED BY <1>7, <2>2, <2>3 DEF IsDigraph
<1>9. \A x \in Node : p[x] \in Node /\ x # Source /\ d[x] # Inf => <<p[x], x>> \in own
  BY <1>2, <1>4
<1> HIDE DEF h, own, d, p
<1>10. Respected(h, d)
  <2> SUFFICES ASSUME NEW x \in Node, NEW u \in InNeighbours(h, x), d[u] # Inf
               PROVE  d[x] <= d[u] + h[<<u, x>>]
    BY DEF Respected
  <2>1. u \in InNeighbours(c, x) /\ h[<<u, x>>] = c[<<u, x>>]
    BY <1>2, <1>3, <1>7 DEF InNeighbours
  <2> QED BY <1>5, <2>1 DEF Respected
<1>11. Supported(h, d)
  <2> SUFFICES ASSUME NEW x \in Node \ {Source}, d[x] # Inf
               PROVE  p[x] \in Node /\ Supports(h, d, p[x], x)
    BY DEF Supported
  <2>1. p[x] \in Node /\ Explains(c, d, p[x], x)
    BY <1>4 DEF Hangs
  <2>2. p[x] \in InNeighbours(h, x) /\ h[<<p[x], x>>] = c[<<p[x], x>>]
    BY <1>7, <1>9, <2>1 DEF InNeighbours
  <2>3. d[x] = d[p[x]] + h[<<p[x], x>>] /\ d[x] \in Nat /\ d[p[x]] # Inf
    BY <1>5, <2>1, <2>2, DigraphFacts DEF Explains, Distance
  <2> QED BY <2>1, <2>2, <2>3 DEF Supports
<1>12. d = Distances(h)
  BY <1>5, <1>8, <1>10, <1>11, CertifiedDistances
<1>13. d[v] # Inf => Distances(TreeGraph)[v] # Inf
  BY <1>2, <1>7, <1>8, <1>12, ReachGrows
<1> QED BY <1>6, <1>13 DEF d, c

\* A path that all trees have is the only way along it, at one per edge.
LEMMA AgreedPath ==
  ASSUME NEW g, IsNetwork(g), TreesOf(g), NEW t, t = CanonicalTree(TreeGraph), NEW v \in Node,
         trees[1].dist[v] # Inf,
         \A k \in 1 .. K, x \in PathTo(trees[1], v) : trees[k].parent[x] = trees[1].parent[x]
  PROVE  PathTo(t, v) = PathTo(trees[1], v) /\ t.dist[v] = Cardinality(PathTo(trees[1], v)) - 1
<1> DEFINE P == PathTo(trees[1], v)
           p == trees[1].parent
           c == Column(g, 1)
<1>1. 1 \in 1 .. K /\ K \in Nat \ {0} /\ NoParent \notin Node
  BY ObjectivesAssumption, NodesAssumption DEF Node, NoParent
<1>2. /\ IsDigraph(TreeGraph) /\ DOMAIN TreeGraph = TreeEdges
      /\ \A x \in Node \ {Source} : trees[1].dist[x] # Inf => <<p[x], x>> \in TreeEdges
  BY <1>1, TreeGraphFacts DEF TreeGraph
<1>3. IsDigraph(c) /\ trees[1] = CanonicalTree(c) /\ Source \in Node
  BY <1>1, ColumnIsDigraph, DigraphFacts DEF TreesOf
<1>4. /\ trees[1].dist = Distances(c) /\ p \in [Node -> Node \cup {NoParent}]
      /\ \A x \in Node : Hangs(c, trees[1].dist, p, x)
  BY <1>3, CanonicalFacts
<1>5. /\ P \in SUBSET Node /\ v \in P /\ Closed(p, P)
      /\ \A S : v \in S /\ Closed(p, S) => P \subseteq S
  BY <1>4, PathFacts
<1>6. /\ t.dist = Distances(TreeGraph) /\ t.parent \in [Node -> Node \cup {NoParent}]
      /\ \A x \in Node : Hangs(TreeGraph, t.dist, t.parent, x)
  BY <1>2, CanonicalFacts
<1>7. t.dist \in [Node -> Distance] /\ t.dist[Source] = 0
  BY <1>2, <1>6, DistancesFacts
<1>8. \A x \in Node : t.dist[x] = Inf <=> trees[1].dist[x] = Inf
  BY <1>4, <1>6, TreeGraphSpans
<1>9. \A k \in 1 .. K, x \in P : trees[k].parent[x] = p[x]
  OBVIOUS
<1> HIDE DEF P, p, c
<1>10. \A x \in P : trees[1].dist[x] # Inf
  <2> DEFINE S == {x \in Node : trees[1].dist[x] # Inf}
  <2>1. \A x \in S : p[x] \in Node => p[x] \in S
    <3> SUFFICES ASSUME NEW x \in S, p[x] \in Node PROVE p[x] \in S
      OBVIOUS
    <3>1. Explains(c, trees[1].dist, p[x], x)
      BY <1>1, <1>4 DEF Hangs
    <3> QED BY <3>1 DEF Explains
  <2>2. v \in S /\ Closed(p, S)
    BY <2>1 DEF Closed
  <2>3. P \subseteq S
    BY <1>5, <2>2
  <2> QED BY <2>3
<1>11. ASSUME NEW x \in P, x # Source
       PROVE  p[x] \in P /\ t.parent[x] = p[x] /\ t.dist[x] = t.dist[p[x]] + 1
  <2>1. x \in Node \ {Source} /\ t.dist[x] # Inf /\ trees[1].dist[x] # Inf
    BY <1>5, <1>8, <1>10, <1>11
  <2>2. /\ t.parent[x] \in Node /\ t.parent[x] \in InNeighbours(TreeGraph, x)
        /\ t.dist[x] = t.dist[t.parent[x]] + TreeGraph[<<t.parent[x], x>>]
    BY <1>6, <2>1 DEF Hangs, Explains
  <2>3. <<t.parent[x], x>> \in TreeEdges
    BY <1>2, <2>2 DEF InNeighbours
  <2> DEFINE e == <<t.parent[x], x>>
  <2>4. e \in TreeEdges /\ e[1] = t.parent[x] /\ e[2] = x
    BY <2>3
  <2> HIDE DEF e
  <2>5. PICK k \in 1 .. K : trees[k].parent[e[2]] = e[1]
    BY <2>4, MembershipFacts DEF TreeEdges
  <2>6. t.parent[x] = p[x]
    BY <1>9, <2>4, <2>5
  <2>7. \A j \in 1 .. K : trees[j].parent[e[2]] = e[1]
    BY <1>9, <2>4, <2>6
  <2>8. CombinedWeight(e) = 1
    BY <1>1, <2>7, MembershipFacts DEF CombinedWeight
  <2>9. TreeGraph[e] = 1
    BY <2>4, <2>8 DEF TreeGraph
  <2>10. p[x] \in P
    BY <1>5, <2>2, <2>6 DEF Closed
  <2> QED BY <2>2, <2>6, <2>9, <2>10 DEF e
<1>12. t.parent[Source] = NoParent /\ p[Source] = NoParent
  BY <1>3, <1>4, <1>6 DEF Hangs
<1>13. /\ PathTo(t, v) \in SUBSET Node /\ v \in PathTo(t, v) /\ Closed(t.parent, PathTo(t, v))
       /\ \A S : v \in S /\ Closed(t.parent, S) => PathTo(t, v) \subseteq S
  BY <1>6, PathFacts
<1>14. Closed(t.parent, P)
  BY <1>1, <1>11, <1>12 DEF Closed
<1>15. PathTo(t, v) \subseteq P
  BY <1>5, <1>13, <1>14
<1>16. Closed(p, PathTo(t, v))
  BY <1>1, <1>11, <1>12, <1>13, <1>15 DEF Closed
<1>17. PathTo(t, v) = P
  BY <1>5, <1>13, <1>15, <1>16
<1>18. t.dist \in [Node -> Nat]
  BY <1>2, <1>7, DigraphFacts DEF Distance
<1>19. \A x \in P : \/ t.parent[x] \notin Node /\ t.dist[x] = 0
                    \/ t.parent[x] \in P /\ t.dist[x] = t.dist[t.parent[x]] + 1
  BY <1>1, <1>7, <1>11, <1>12
<1>20. Cardinality(PathTo(t, v)) = t.dist[v] + 1
  BY <1>5, <1>6, <1>18, <1>19, PathLength
<1>21. t.dist[v] \in Nat
  BY <1>18
<1>22. Cardinality(P) - 1 = t.dist[v]
  BY <1>17, <1>20, <1>21
<1> QED BY <1>17, <1>22 DEF P
-----------------------------------------------------------------------------
(***************************************************************************)
(* The program.                                                            *)
(***************************************************************************)
Tree == [dist : [Node -> Distance], parent : [Node -> Node \cup {NoParent}]]

MospTypeOK ==
  /\ IsNetwork(network) /\ IsNetwork(updated)
  /\ deletes \in SUBSET (Node \X Node) /\ inserts \in NetworkInsertions
  /\ trees \in [1 .. K -> Tree] /\ combined \in Tree
  /\ objective \in 1 .. K + 1
  /\ stage \in {"changes", "dijkstra", "popping", "update", "combine", "done"}
  /\ RunTypeOK

\* Whose turn it is in each stage.
TurnsOK ==
  /\ stage = "changes" => objective = 1
  /\ stage \in {"dijkstra", "popping", "update"} => objective \in 1 .. K
  /\ stage \in {"combine", "done"} => objective = K + 1

\* The objectives that had their turn have the tree of the changed graph.
TreesUpdated ==
  /\ stage # "changes" => updated = Applied(network, deletes, inserts)
  /\ \A k \in 1 .. K : k < objective => trees[k] = CanonicalTree(Column(updated, k))

MInv ==
  /\ MospTypeOK /\ TurnsOK /\ TreesUpdated
  /\ stage = "popping" => RunInv /\ graph = Column(network, objective)
  /\ stage = "done" => combined = CanonicalTree(TemporaryGraph)

LEMMA CanonicalIsTree ==
  ASSUME NEW g, IsDigraph(g)
  PROVE  CanonicalTree(g) \in Tree
<1> DEFINE t == CanonicalTree(g)
<1>1. t.dist = Distances(g) /\ t.parent \in [Node -> Node \cup {NoParent}] /\ t = [dist |-> t.dist, parent |-> t.parent]
  BY CanonicalFacts
<1>2. Distances(g) \in [Node -> Distance]
  BY DistancesFacts
<1> QED BY <1>1, <1>2 DEF Tree

LEMMA MospStarts == MospInit => MInv
<1> SUFFICES ASSUME MospInit PROVE MInv
  OBVIOUS
<1>1. K \in Nat \ {0} /\ Inf \in Nat \ {0} /\ Source \in Node
  <2>1. N * MaxWeight \in Nat
    BY NodesAssumption, WeightAssumption
  <2> QED BY <2>1, ObjectivesAssumption, SourceAssumption DEF Inf, Node
<1>2. IsNetwork(network) /\ updated = network /\ deletes \in SUBSET (Node \X Node) /\ inserts \in NetworkInsertions
  BY FilesAssumption DEF MospInit, IsNetwork, NetworkInsertions
<1>3. Unreached \in [Node -> Distance] /\ [v \in Node |-> NoParent] \in [Node -> Node \cup {NoParent}]
  BY <1>1 DEF Unreached, Distance
<1>4. BlankTree \in Tree
  BY <1>3 DEF BlankTree, Tree
<1>5. RunTypeOK
  <2>1. graph = <<>> /\ dist = Unreached /\ parent = [v \in Node |-> NoParent] /\ pq = {} /\ expanded = <<>>
    BY DEF MospInit, DijkstraIdle
  <2>2. DOMAIN graph = {} /\ graph \in [DOMAIN graph -> 1 .. MaxWeight]
    BY <2>1
  <2>3. IsDigraph(graph)
    BY <2>2 DEF IsDigraph
  <2> QED BY <1>3, <2>1, <2>3 DEF RunTypeOK
<1>6. trees \in [1 .. K -> Tree] /\ combined \in Tree /\ objective = 1 /\ stage = "changes"
  BY <1>4 DEF MospInit
<1>7. MospTypeOK
  BY <1>1, <1>2, <1>5, <1>6 DEF MospTypeOK
<1>8. TurnsOK /\ TreesUpdated
  BY <1>1, <1>6 DEF TurnsOK, TreesUpdated
<1> QED BY <1>6, <1>7, <1>8 DEF MInv

\* The updated tree of an objective is the one of the changed graph.
LEMMA UpdatedTree ==
  ASSUME MospTypeOK, objective \in 1 .. K, updated = Applied(network, deletes, inserts), UpdateTree
  PROVE  /\ trees' = [trees EXCEPT ![objective] = CanonicalTree(Column(updated, objective))]
         /\ trees' \in [1 .. K -> Tree]
<1>1. trees' = [trees EXCEPT ![objective] =
                  CanonicalTree(Applied(Column(network, objective), deletes, InsertionColumn(inserts, objective)))]
  BY DEF UpdateTree, InsertionColumn
<1>2. Column(updated, objective) = Applied(Column(network, objective), deletes, InsertionColumn(inserts, objective))
  BY AppliedColumns DEF MospTypeOK
<1>3. CanonicalTree(Column(updated, objective)) \in Tree
  BY ColumnIsDigraph, CanonicalIsTree DEF MospTypeOK
<1> QED BY <1>1, <1>2, <1>3 DEF MospTypeOK

\* Each stage leaves what the next one relies on.
LEMMA MospSteps == MInv /\ [MospNext]_mospVars => MInv'
<1> SUFFICES ASSUME MInv, [MospNext]_mospVars PROVE MInv'
  OBVIOUS
<1>0. K \in Nat \ {0} /\ MospTypeOK /\ TurnsOK /\ TreesUpdated
  BY ObjectivesAssumption DEF MInv
<1>1. CASE UpdateGraph
  <2>1. /\ stage = "changes" /\ stage' = "dijkstra" /\ updated' = Applied(network, deletes, inserts)
        /\ UNCHANGED <<dijkstraVars, network, deletes, inserts, trees, objective, combined>>
    BY <1>1 DEF UpdateGraph
  <2>2. objective = 1 /\ IsNetwork(updated')
    BY <1>0, <2>1, AppliedColumns DEF TurnsOK, MospTypeOK
  <2>3. RunTypeOK'
    BY <1>0, <2>1 DEF MospTypeOK, RunTypeOK, dijkstraVars
  <2>4. MospTypeOK'
    BY <1>0, <2>1, <2>2, <2>3 DEF MospTypeOK
  <2>5. TurnsOK' /\ TreesUpdated'
    BY <1>0, <2>1, <2>2 DEF TurnsOK, TreesUpdated
  <2> QED BY <2>1, <2>4, <2>5 DEF MInv
<1>2. CASE StartDijkstra
  <2>1. /\ stage = "dijkstra" /\ stage' = "popping" /\ Start(Column(network, objective))
        /\ UNCHANGED <<network, deletes, inserts, updated, trees, objective, combined>>
    BY <1>2 DEF StartDijkstra
  <2>2. objective \in 1 .. K /\ IsDigraph(Column(network, objective))
    BY <1>0, <2>1, ColumnIsDigraph DEF TurnsOK, MospTypeOK
  <2>3. RunInv' /\ graph' = Column(network, objective)
    BY <2>1, <2>2, StartRun DEF Start
  <2>4. MospTypeOK'
    BY <1>0, <2>1, <2>3 DEF MospTypeOK, RunInv
  <2>5. TurnsOK' /\ TreesUpdated'
    BY <1>0, <2>1, <2>2 DEF TurnsOK, TreesUpdated
  <2> QED BY <2>1, <2>3, <2>4, <2>5 DEF MInv
<1>3. CASE PopNext
  <2>1. stage = "popping" /\ Pop /\ UNCHANGED mainVars
    BY <1>3 DEF PopNext
  <2>2. RunInv' /\ graph' = Column(network, objective)
    BY <2>1, PopRun DEF MInv, Pop
  <2>3. MospTypeOK'
    BY <1>0, <2>1, <2>2 DEF MospTypeOK, RunInv, mainVars
  <2>4. TurnsOK' /\ TreesUpdated'
    BY <1>0, <2>1 DEF TurnsOK, TreesUpdated, mainVars
  <2> QED BY <2>1, <2>2, <2>3, <2>4 DEF MInv, mainVars
<1>4. CASE WriteTree
  <2>1. /\ stage = "popping" /\ stage' = "update"
        /\ trees' = [trees EXCEPT ![objective] = [dist |-> dist, parent |-> parent]]
        /\ UNCHANGED <<dijkstraVars, network, deletes, inserts, updated, objective, combined>>
    BY <1>4 DEF WriteTree
  <2>2. objective \in 1 .. K
    BY <1>0, <2>1 DEF TurnsOK
  <2>3. RunTypeOK'
    BY <1>0, <2>1 DEF MospTypeOK, RunTypeOK, dijkstraVars
  <2>4. [dist |-> dist, parent |-> parent] \in Tree
    BY <1>0 DEF MospTypeOK, RunTypeOK, Tree
  <2>5. MospTypeOK'
    BY <1>0, <2>1, <2>2, <2>3, <2>4 DEF MospTypeOK
  <2>6. TurnsOK'
    BY <2>1, <2>2 DEF TurnsOK
  <2>7. TreesUpdated'
    <3>1. \A k \in 1 .. K : k < objective => trees'[k] = trees[k]
      BY <1>0, <2>1, <2>2 DEF MospTypeOK
    <3> QED BY <1>0, <2>1, <3>1 DEF TreesUpdated
  <2> QED BY <2>1, <2>5, <2>6, <2>7 DEF MInv
<1>5. CASE UpdateTree
  <2>1. /\ stage = "update" /\ stage' = AfterObjective(objective) /\ objective' = objective + 1
        /\ UNCHANGED <<dijkstraVars, network, deletes, inserts, updated, combined>>
    BY <1>5 DEF UpdateTree
  <2>2. objective \in 1 .. K /\ updated = Applied(network, deletes, inserts)
    BY <1>0, <2>1 DEF TurnsOK, TreesUpdated
  <2>3. /\ trees' = [trees EXCEPT ![objective] = CanonicalTree(Column(updated, objective))]
        /\ trees' \in [1 .. K -> Tree]
    BY <1>0, <1>5, <2>2, UpdatedTree
  <2>4. /\ stage' \in {"combine", "dijkstra"} /\ objective' \in 1 .. K + 1
        /\ stage' = "combine" => objective' = K + 1
        /\ stage' = "dijkstra" => objective' \in 1 .. K
    BY <1>0, <2>1, <2>2 DEF AfterObjective
  <2>5. RunTypeOK'
    BY <1>0, <2>1 DEF MospTypeOK, RunTypeOK, dijkstraVars
  <2>6. MospTypeOK'
    BY <1>0, <2>1, <2>3, <2>4, <2>5 DEF MospTypeOK
  <2>7. TurnsOK'
    BY <2>4 DEF TurnsOK
  <2>8. TreesUpdated'
    <3>1. ASSUME NEW k \in 1 .. K, k < objective' PROVE trees'[k] = CanonicalTree(Column(updated, k))
      <4>1. k = objective \/ k < objective
        BY <2>1, <2>2, <3>1
      <4> QED BY <1>0, <2>2, <2>3, <4>1 DEF TreesUpdated, MospTypeOK
    <3> QED BY <2>1, <2>2, <3>1 DEF TreesUpdated
  <2> QED BY <2>4, <2>6, <2>7, <2>8 DEF MInv
<1>6. CASE Combine
  <2>1. /\ stage = "combine" /\ stage' = "done" /\ combined' = CanonicalTree(TemporaryGraph)
        /\ UNCHANGED <<dijkstraVars, network, deletes, inserts, updated, trees, objective>>
    BY <1>6 DEF Combine
  <2>2. objective = K + 1
    BY <1>0, <2>1 DEF TurnsOK
  <2>3. TreesOf(updated)
    BY <1>0, <2>2 DEF TreesUpdated, TreesOf
  <2>4. CanonicalTree(TemporaryGraph) \in Tree
    BY <1>0, <2>3, TreeGraphFacts, CanonicalIsTree DEF MospTypeOK
  <2>5. TemporaryGraph' = TemporaryGraph
    BY <2>1 DEF TemporaryGraph, TreeEdges, CombinedWeight, Membership
  <2>6. RunTypeOK'
    BY <1>0, <2>1 DEF MospTypeOK, RunTypeOK, dijkstraVars
  <2>7. MospTypeOK'
    BY <1>0, <2>1, <2>4, <2>6 DEF MospTypeOK
  <2>8. TurnsOK' /\ TreesUpdated'
    BY <1>0, <2>1, <2>2 DEF TurnsOK, TreesUpdated
  <2> QED BY <2>1, <2>5, <2>7, <2>8 DEF MInv
<1>7. CASE UNCHANGED mospVars
  BY <1>0, <1>7 DEF MInv, MospTypeOK, TurnsOK, TreesUpdated, mospVars, mainVars, dijkstraVars, RunInv, RunTypeOK,
     ExpandedFinal, HangsFromExpanded, Reaches, Expanded, TemporaryGraph, TreeEdges, CombinedWeight, Membership
<1> QED BY <1>1, <1>2, <1>3, <1>4, <1>5, <1>6, <1>7 DEF MospNext

LEMMA MospInvariant == MospSpec => []MInv
<1> QED BY MospStarts, MospSteps, PTL DEF MospSpec

\* MospTypeOK: the stages of main.cu pass on networks with one weight per
\* objective and one tree per objective, whatever the change files hold.
THEOREM MospTypeCorrect == MospSpec => []MospTypeOK
<1>1. MInv => MospTypeOK
  BY DEF MInv
<1> QED BY <1>1, MospInvariant, PTL

\* DijkstraExact: on every network and for every objective runDijkstra expands
\* no vertex twice and each at its final distance, keeps every vertex that
\* waits in the queue under its distance, and ends with the canonical tree.
THEOREM DijkstraStaysExact == MospSpec => []DijkstraExact
<1>1. MInv => DijkstraExact
  BY RunEnds DEF MInv, DijkstraExact
<1> QED BY <1>1, MospInvariant, PTL

\* SpansUpdatedGraph: the combined tree reaches what the changed graph reaches
\* and uses edges of the changed graph only.
THEOREM ResultSpansGraph == MospSpec => []SpansUpdatedGraph
<1>1. MInv => SpansUpdatedGraph
  <2> SUFFICES ASSUME MInv, stage = "done", NEW v \in Node \ {Source}
               PROVE  /\ (combined.dist[v] = Inf) <=> (Distances(Column(updated, 1))[v] = Inf)
                      /\ combined.dist[v] # Inf => <<combined.parent[v], v>> \in DOMAIN updated
    BY DEF SpansUpdatedGraph
  <2>1. IsNetwork(updated) /\ objective = K + 1 /\ K \in Nat
    BY ObjectivesAssumption DEF MInv, MospTypeOK, TurnsOK
  <2>2. TreesOf(updated)
    BY <2>1 DEF MInv, TreesUpdated, TreesOf
  <2>3. /\ combined = CanonicalTree(TreeGraph) /\ IsDigraph(TreeGraph) /\ TreeEdges \subseteq DOMAIN updated
        /\ DOMAIN TreeGraph = TreeEdges
    BY <2>1, <2>2, TreeGraphFacts DEF MInv, TreeGraph
  <2>4. combined.dist = Distances(TreeGraph) /\ Hangs(TreeGraph, combined.dist, combined.parent, v)
    BY <2>3, CanonicalFacts
  <2>5. Distances(TreeGraph)[v] = Inf <=> Distances(Column(updated, 1))[v] = Inf
    BY <2>1, <2>2, TreeGraphSpans
  <2>6. combined.dist[v] # Inf => combined.parent[v] \in InNeighbours(TreeGraph, v)
    BY <2>4 DEF Hangs, Explains
  <2> QED BY <2>3, <2>4, <2>5, <2>6 DEF InNeighbours
<1> QED BY <1>1, MospInvariant, PTL

\* AgreedPathKept: where the updated trees of all objectives have the same path
\* to a vertex, the combined tree has that path, at a cost of one per edge.
THEOREM AgreedPathsStay == MospSpec => []AgreedPathKept
<1>1. MInv => AgreedPathKept
  <2> SUFFICES ASSUME MInv, stage = "done", NEW v \in Node, trees[1].dist[v] # Inf,
                      \A k \in 1 .. K, x \in PathTo(trees[1], v) : trees[k].parent[x] = trees[1].parent[x]
               PROVE  /\ PathTo(combined, v) = PathTo(trees[1], v)
                      /\ combined.dist[v] = Cardinality(PathTo(trees[1], v)) - 1
    BY DEF AgreedPathKept
  <2>1. IsNetwork(updated) /\ objective = K + 1 /\ K \in Nat
    BY ObjectivesAssumption DEF MInv, MospTypeOK, TurnsOK
  <2>2. TreesOf(updated)
    BY <2>1 DEF MInv, TreesUpdated, TreesOf
  <2>3. combined = CanonicalTree(TreeGraph)
    BY <2>1, <2>2, TreeGraphFacts DEF MInv
  <2> QED BY <2>1, <2>2, <2>3, AgreedPath
<1> QED BY <1>1, MospInvariant, PTL
=============================================================================
