----------------------------- MODULE LineGraph -----------------------------
(***************************************************************************)
(* The weighted line graph (h2h) of the dynamic hypergraph as the device   *)
(* sees it, and the shortest-path tree the SOSP kernels must compute on    *)
(* it.                                                                     *)
(*                                                                         *)
(* A node is a hyperedge id (0-based on the device).  Two hyperedges are   *)
(* adjacent iff they share a vertex, so the adjacency is symmetric, and    *)
(* entering a hyperedge costs its own weight whatever the edge: the graph  *)
(* is a symmetric neighbour set per node plus one weight per node.  The    *)
(* two virtual hyperedges {s} and {t} weigh nothing; every other hyperedge *)
(* has a positive weight.                                                  *)
(***************************************************************************)
EXTENDS Integers, FiniteSets

CONSTANTS
  N,        \* numNodes: the device arrays hold the nodes 0 .. N-1
  Source,   \* the virtual source hyperedge
  Target,   \* the virtual target hyperedge
  Inf       \* INF_VALUE, the distance of an unreachable node

Node == 0 .. N - 1

(***************************************************************************)
(* The parent "none" is -1 in the device arrays and 0xffffffff, greater    *)
(* than every id, in the low half of a packed word.  N plays both parts.   *)
(***************************************************************************)
NoParent == N

ASSUME NAssumption == N \in Nat \ {0, 1}
ASSUME EndsAssumption == Source \in Node /\ Target \in Node /\ Source # Target
ASSUME InfAssumption == Inf \notin Int

Virtual == {Source, Target}

(***************************************************************************)
(* A line graph: which ids are live, the rows, the weights.  A dead id has *)
(* an empty row and keeps the weight it last had.                          *)
(***************************************************************************)
IsGraph(g) ==
  /\ g \in [live : SUBSET Node, adj : [Node -> SUBSET Node], w : [Node -> Nat]]
  /\ Virtual \subseteq g.live
  /\ \A u, v \in Node : v \in g.adj[u] => u # v /\ v \in g.live /\ u \in g.adj[v]
  /\ \A v \in Node : g.w[v] = 0 <=> v \in Virtual

\* numEntries: the directed adjacency entries, two per pair.
Entries(g) == Cardinality({e \in Node \X Node : e[2] \in g.adj[e[1]]})

(***************************************************************************)
(* What a batch of changes tells the update.  From line graph g to line    *)
(* graph h, created are the ids the batch inserted: ids that were not live *)
(* and, as the interface allows ("new (inserted or recreated) nodes",      *)
(* hsosp.cuh:42), ids the batch deleted first, which may get all their     *)
(* pairs back and so leave no trace in del and ins.  Only they change      *)
(* their weight, and the virtual hyperedges are never touched.             *)
(***************************************************************************)
MayFollow(g, h, created) ==
  /\ created \subseteq h.live
  /\ h.live \ g.live \subseteq created
  /\ created \cap Virtual = {}
  /\ \A v \in Node \ created : h.w[v] = g.w[v]

NewPairs(g, h) == {e \in Node \X Node : e[1] < e[2] /\ e[2] \in h.adj[e[1]] \ g.adj[e[1]]}

NetDelta(g, h, created) ==
  [del |-> NewPairs(h, g), ins |-> NewPairs(g, h), new |-> created, dead |-> g.live \ h.live]

EmptyDelta == [del |-> {}, ins |-> {}, new |-> {}, dead |-> {}]

(***************************************************************************)
(* Order on (distance, parent) words: the smaller distance, and among      *)
(* equal distances the lower parent id.  It is the order of the packed     *)
(* 64-bit integers (distance << 32 | parent), and the order of the         *)
(* recompute's warp reduction.                                             *)
(***************************************************************************)
Less(c, x) == c[1] < x[1] \/ (c[1] = x[1] /\ c[2] < x[2])

(***************************************************************************)
(* The canonical shortest-path tree of g, by its local certificate: the    *)
(* source is its root, and every other node hangs from the (distance, id)- *)
(* least neighbour that the tree reaches.  With positive weights there is  *)
(* exactly one such tree.                                                  *)
(***************************************************************************)
Reached(dist) == {v \in Node : dist[v] # Inf}

HangsFrom(g, dist, v, p) ==
  /\ p \in g.adj[v] \cap Reached(dist)
  /\ dist[v] = dist[p] + g.w[v]
  /\ \A q \in g.adj[v] \cap Reached(dist) : q # p => Less(<<dist[p], p>>, <<dist[q], q>>)

CanonicalTree(g, dist, parent) ==
  /\ dist[Source] = 0 /\ parent[Source] = NoParent
  /\ \A v \in Node \ {Source} :
       \/ v \in Reached(dist) /\ HangsFrom(g, dist, v, parent[v])
       \/ /\ dist[v] = Inf /\ parent[v] = NoParent
          /\ g.adj[v] \cap Reached(dist) = {}

(***************************************************************************)
(* Reference definition of the distances, independent of any tree: the     *)
(* cost of the cheapest walk of at most k hops from the source (Bellman's  *)
(* recursion); N - 1 hops reach everything.                                *)
(***************************************************************************)
Least(S) == IF S = {} THEN Inf ELSE CHOOSE x \in S : \A y \in S : x <= y

CheapestWalks(g) ==
  LET walk[k \in 0 .. N - 1] ==
        IF k = 0 THEN [v \in Node |-> IF v = Source THEN 0 ELSE Inf]
        ELSE LET shorter == walk[k-1] IN
             [v \in Node |->
               IF v = Source THEN 0
               ELSE Least(({shorter[v]} \cup
                           {shorter[u] + g.w[v] : u \in g.adj[v] \cap Reached(shorter)}) \ {Inf})]
  IN  walk

ShortestDistances(g) == CheapestWalks(g)[N - 1]

\* Each reached node's parent: the (distance, id)-least neighbour that is reached.
ParentsFor(g, dist) ==
  [v \in Node |->
     LET reached == g.adj[v] \cap Reached(dist)
     IN  IF v = Source \/ reached = {} THEN NoParent
         ELSE CHOOSE p \in reached : \A q \in reached : q # p => Less(<<dist[p], p>>, <<dist[q], q>>)]
=============================================================================
