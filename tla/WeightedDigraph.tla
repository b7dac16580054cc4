-------------------------- MODULE WeightedDigraph --------------------------
(***************************************************************************)
(* The directed graph of the MOSP programs (src/mosp), for one objective,  *)
(* the changes made to it and the shortest-path tree that the updates must *)
(* return.  A graph is a function from its edges <<u, v>> to their         *)
(* weights; the generators write every edge once, with a positive weight.  *)
(***************************************************************************)
EXTENDS Integers, Sequences, FiniteSets

CONSTANTS
  N,          \* numberOfNodes
  Source,     \* source
  MaxWeight   \* bound: the weights are 1 .. MaxWeight

ASSUME NodesAssumption == N \in Nat \ {0}
ASSUME SourceAssumption == Source \in 0 .. N - 1
ASSUME WeightAssumption == MaxWeight \in Nat \ {0}

Node == 0 .. N - 1

NoParent == -1

\* INF_VALUE: longer than any path and than any path with an edge more.
Inf == N * MaxWeight + 1

\* Every edge joins two vertices and has a positive weight.
IsDigraph(graph) == graph \in [DOMAIN graph -> 1 .. MaxWeight] /\ DOMAIN graph \subseteq Node \X Node

InNeighbours(graph, v) == {u \in Node : <<u, v>> \in DOMAIN graph}

OutNeighbours(graph, u) == {v \in Node : <<u, v>> \in DOMAIN graph}

(***************************************************************************)
(* A batch of changes: first all deletions, then the insertions in order,  *)
(* where inserting an edge that exists sets its weight.                    *)
(***************************************************************************)
Inserted(graph, insert) ==
  [e \in DOMAIN graph \cup {insert.edge} |-> IF e = insert.edge THEN insert.weight ELSE graph[e]]

\* The graph after the deletions and the first i insertions.
After(graph, deletes, inserts, i) ==
  LET after[k \in 0 .. i] ==
        IF k = 0 THEN [e \in DOMAIN graph \ deletes |-> graph[e]] ELSE Inserted(after[k - 1], inserts[k])
  IN after[i]

Applied(graph, deletes, inserts) == After(graph, deletes, inserts, Len(inserts))

\* Fault: the weights are compared after the old one was replaced.
IncreasesLate(graph, deletes, inserts) ==
  LET after(i) == After(graph, deletes, inserts, i)
      raises(i) == inserts[i].edge \in DOMAIN after(i) /\ inserts[i].weight > after(i)[inserts[i].edge]
  IN {inserts[i].edge : i \in {k \in DOMAIN inserts : raises(k)}}

\* weightIncreases: the insertions that raise the weight of an edge.
Increases(graph, deletes, inserts) ==
  LET before(i) == After(graph, deletes, inserts, i - 1)
      raises(i) == inserts[i].edge \in DOMAIN before(i) /\ inserts[i].weight > before(i)[inserts[i].edge]
  IN {inserts[i].edge : i \in {k \in DOMAIN inserts : raises(k)}}

Heads(inserts) == {inserts[i].edge[2] : i \in DOMAIN inserts}

(***************************************************************************)
(* The canonical shortest-path tree: the cheapest walks by Bellman's       *)
(* recursion on the number of edges, and for every vertex that is reached  *)
(* the lowest id among the in-neighbours that explain its distance.        *)
(***************************************************************************)
LeastOf(S) == CHOOSE x \in S : \A y \in S : x <= y

\* The lengths of the cheapest walks with at most i edges.
WalkLengths(graph, i) ==
  LET walks[k \in 0 .. i] ==
        IF k = 0 THEN [v \in Node |-> IF v = Source THEN 0 ELSE Inf]
        ELSE LET shorter == walks[k - 1] IN
             [v \in Node |->
                LeastOf({shorter[v]} \cup
                        {shorter[u] + graph[<<u, v>>] : u \in {x \in InNeighbours(graph, v) : shorter[x] # Inf}})]
  IN walks[i]

Distances(graph) == WalkLengths(graph, N - 1)

Explains(graph, dist, u, v) ==
  /\ u \in InNeighbours(graph, v) /\ dist[u] # Inf
  /\ dist[v] = dist[u] + graph[<<u, v>>]

CanonicalTree(graph) ==
  LET dist == Distances(graph)
      explaining(v) == {u \in Node : Explains(graph, dist, u, v)}
  IN [dist |-> dist,
      parent |-> [v \in Node |->
                    IF v = Source \/ dist[v] = Inf THEN NoParent ELSE LeastOf(explaining(v))]]
=============================================================================
