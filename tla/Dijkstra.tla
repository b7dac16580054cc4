------------------------------ MODULE Dijkstra ------------------------------
(***************************************************************************)
(* runDijkstra and runDijkstraCSR (mosp/src/Dijkstra.cu): the trees that   *)
(* every update starts from.  An entry of the queue is never removed when  *)
(* a shorter distance is found; the old one is skipped when it comes up.   *)
(* A vertex is pushed only when its distance has decreased, so no entry is *)
(* in the queue twice and the queue is a set.                              *)
(***************************************************************************)
EXTENDS WeightedDigraph

VARIABLES
  graph,    \* the graph that is read, one objective of it
  dist, parent,
  pq,       \* the queue: pairs of a distance and a vertex
  expanded  \* the vertices whose edges have been relaxed, in order

dijkstraVars == <<graph, dist, parent, pq, expanded>>

Unreached == [v \in Node |-> IF v = Source THEN 0 ELSE Inf]

DijkstraIdle ==
  graph = <<>> /\ dist = Unreached /\ parent = [v \in Node |-> NoParent] /\ pq = {} /\ expanded = <<>>

Start(g) ==
  /\ graph' = g
  /\ dist' = Unreached
  /\ parent' = [v \in Node |-> NoParent]
  /\ pq' = {<<0, Source>>}
  /\ expanded' = <<>>

\* Pairs are ordered by distance, then by vertex.
Before(x, y) == x[1] < y[1] \/ (x[1] = y[1] /\ x[2] <= y[2])

Top == CHOOSE x \in pq : \A y \in pq : Before(x, y)

Decreased(u) == {v \in OutNeighbours(graph, u) : dist[u] + graph[<<u, v>>] < dist[v]}

\* Fault: a parent is replaced on a tie whatever its id.
TiedAny(u) == {v \in OutNeighbours(graph, u) \ {Source} : dist[u] + graph[<<u, v>>] = dist[v]}

Tied(u) ==
  {v \in OutNeighbours(graph, u) \ {Source} : dist[u] + graph[<<u, v>>] = dist[v] /\ u < parent[v]}

\* Fault: a vertex is pushed only when it is reached for the first time.
ExpandPushOnce(u) ==
  /\ dist' = [v \in Node |-> IF v \in Decreased(u) THEN dist[u] + graph[<<u, v>>] ELSE dist[v]]
  /\ parent' = [v \in Node |-> IF v \in Decreased(u) \cup Tied(u) THEN u ELSE parent[v]]
  /\ pq' = (pq \ {Top}) \cup
            {<<dist[u] + graph[<<u, v>>], v>> : v \in {x \in Decreased(u) : dist[x] = Inf}}
  /\ expanded' = Append(expanded, u)

Expand(u) ==
  /\ dist' = [v \in Node |-> IF v \in Decreased(u) THEN dist[u] + graph[<<u, v>>] ELSE dist[v]]
  /\ parent' = [v \in Node |-> IF v \in Decreased(u) \cup Tied(u) THEN u ELSE parent[v]]
  /\ pq' = (pq \ {Top}) \cup {<<dist[u] + graph[<<u, v>>], v>> : v \in Decreased(u)}
  /\ expanded' = Append(expanded, u)

\* Fault: an entry that is out of date is expanded too.
PopAny == pq # {} /\ Expand(Top[2]) /\ UNCHANGED graph

Pop ==
  /\ pq # {}
  /\ IF Top[1] = dist[Top[2]]
     THEN Expand(Top[2])
     ELSE pq' = pq \ {Top} /\ UNCHANGED <<dist, parent, expanded>>
  /\ UNCHANGED graph

-----------------------------------------------------------------------------
\* No vertex is expanded twice, although a vertex may be in the queue several
\* times, and its distance is final when it is.
ExpandedOnce ==
  /\ \A i, j \in DOMAIN expanded : expanded[i] = expanded[j] => i = j
  /\ \A i \in DOMAIN expanded : dist[expanded[i]] = Distances(graph)[expanded[i]]

\* A vertex that has been reached and not expanded is still in the queue under
\* its distance: skipping what is out of date loses nothing.
NoneLost ==
  \A v \in Node : dist[v] # Inf => <<dist[v], v>> \in pq \/ \E i \in DOMAIN expanded : expanded[i] = v

\* A run ends with the canonical tree: among the predecessors that tie, the
\* lowest id wins whatever the order of the queue.
EndsCanonical == pq = {} => [dist |-> dist, parent |-> parent] = CanonicalTree(graph)
=============================================================================
