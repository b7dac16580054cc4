-------------------------- MODULE SequentialUpdate --------------------------
(***************************************************************************)
(* The sequential update of a shortest-path tree                           *)
(* (mosp/src/sequentialSOSPUpdate.cu): the subtrees that lost their path   *)
(* are set to INF, they and the heads of the inserted edges are evaluated  *)
(* again over their in-neighbours, and the vertices behind whatever        *)
(* decreased are evaluated sweep by sweep.                                 *)
(*                                                                         *)
(* The vertices of one sweep come in the order of adjacency lists that     *)
(* removals and insertions have permuted; here they come in any order.     *)
(***************************************************************************)
EXTENDS WeightedDigraph

CONSTANTS
  MaxUpdates,   \* bound: updates per behaviour
  InitialGraphs, DeleteSets, InsertLists \* as in TreeService

ASSUME BatchAssumption ==
  /\ \A graph \in InitialGraphs : IsDigraph(graph)
  /\ DeleteSets \subseteq SUBSET (Node \X Node)
  /\ InsertLists \subseteq Seq([edge : Node \X Node, weight : 1 .. MaxWeight])

VARIABLES
  graph,     \* the adjacency lists, both directions
  tree,      \* the two files: the input of the next update, written at the end of one
  dist, parent, \* distances, parent
  phase,     \* "idle", "roots", "heads", "sweep" or "failed"
  todo,      \* what is still to be evaluated: the rest of roots or candidateVertices
  inserts,   \* the rest of insertedEdges
  affected,  \* affectedVertices
  sweeps,    \* iterationCount
  updates    \* updates so far (bounded by MaxUpdates)

sequentialVars == <<graph, tree, dist, parent, phase, todo, inserts, affected, sweeps, updates>>

SequentialInit ==
  /\ graph \in InitialGraphs /\ tree = CanonicalTree(graph)
  /\ dist = tree.dist /\ parent = tree.parent
  /\ phase = "idle" /\ todo = {} /\ inserts = <<>> /\ affected = {} /\ sweeps = 0 /\ updates = 0

-----------------------------------------------------------------------------
\* Fault: the descendants of a root keep the distance they had through it.
RootsOnly(tails, roots) == roots

\* The tree subtrees of the roots; the traversal never enters the source.
Subtrees(tails, roots) ==
  LET below[i \in 0 .. N] ==
        IF i = 0 THEN roots
        ELSE below[i - 1] \cup {v \in Node \ {Source} : tails[v] \in below[i - 1]}
  IN below[N]

\* The files are read, the changes applied and the subtrees invalidated.
Begin(deletes, insertedEdges) ==
  LET changed == deletes \cup Increases(graph, deletes, insertedEdges)
      roots == {e[2] : e \in {x \in changed : tree.parent[x[2]] = x[1]}}
      invalid == Subtrees(tree.parent, roots)
  IN /\ phase = "idle" /\ updates < MaxUpdates
     /\ updates' = updates + 1 /\ phase' = "roots"
     /\ graph' = Applied(graph, deletes, insertedEdges)
     /\ dist' = [v \in Node |-> IF v \in invalid THEN Inf ELSE tree.dist[v]]
     /\ parent' = [v \in Node |-> IF v \in invalid THEN NoParent ELSE tree.parent[v]]
     /\ todo' = invalid
     /\ inserts' = insertedEdges
     /\ affected' = {} /\ sweeps' = 0
     /\ UNCHANGED tree

\* Fault: of equal distances the highest id wins.
BestParentHigh(v) ==
  LET offers == {[dist |-> dist[u] + graph[<<u, v>>], parent |-> u] :
                   u \in {x \in InNeighbours(graph, v) : dist[x] # Inf}}
  IN IF offers = {} THEN [dist |-> Inf, parent |-> NoParent]
     ELSE CHOOSE b \in offers : \A o \in offers :
            b.dist < o.dist \/ (b.dist = o.dist /\ b.parent >= o.parent)

\* findBestParent
BestParent(v) ==
  LET offers == {[dist |-> dist[u] + graph[<<u, v>>], parent |-> u] :
                   u \in {x \in InNeighbours(graph, v) : dist[x] # Inf}}
  IN IF offers = {} THEN [dist |-> Inf, parent |-> NoParent]
     ELSE CHOOSE b \in offers : \A o \in offers :
            b.dist < o.dist \/ (b.dist = o.dist /\ b.parent <= o.parent)

\* Fault: a vertex that is reached again does not count as decreased.
RelaxQuiet(v) ==
  LET best == BestParent(v)
      better == \/ best.dist < dist[v]
                \/ best.dist = dist[v] /\ best.parent \in Node /\ best.parent < parent[v]
  IN /\ dist' = IF better THEN [dist EXCEPT ![v] = best.dist] ELSE dist
     /\ parent' = IF better THEN [parent EXCEPT ![v] = best.parent] ELSE parent
     /\ affected' = IF best.dist < dist[v] /\ dist[v] # Inf THEN affected \cup {v} ELSE affected

\* relax and markAffected: only a better pair is taken, and only a smaller
\* distance is passed on.
Relax(v) ==
  LET best == BestParent(v)
      better == \/ best.dist < dist[v]
                \/ best.dist = dist[v] /\ best.parent \in Node /\ best.parent < parent[v]
  IN /\ dist' = IF better THEN [dist EXCEPT ![v] = best.dist] ELSE dist
     /\ parent' = IF better THEN [parent EXCEPT ![v] = best.parent] ELSE parent
     /\ affected' = IF best.dist < dist[v] THEN affected \cup {v} ELSE affected

RelaxOne(v) ==
  /\ phase \in {"roots", "sweep"} /\ v \in todo
  /\ todo' = todo \ {v}
  /\ Relax(v)
  /\ UNCHANGED <<graph, tree, phase, inserts, sweeps, updates>>

RootsDone ==
  /\ phase = "roots" /\ todo = {}
  /\ phase' = "heads"
  /\ UNCHANGED <<graph, tree, dist, parent, todo, inserts, affected, sweeps, updates>>

\* The next inserted edge: its head is evaluated, the source never.
RelaxHead ==
  /\ phase = "heads" /\ inserts # <<>>
  /\ inserts' = Tail(inserts)
  /\ IF Head(inserts).edge[2] # Source
     THEN Relax(Head(inserts).edge[2])
     ELSE UNCHANGED <<dist, parent, affected>>
  /\ UNCHANGED <<graph, tree, phase, todo, sweeps, updates>>

HeadsDone ==
  /\ phase = "heads" /\ inserts = <<>>
  /\ phase' = "sweep"
  /\ UNCHANGED <<graph, tree, dist, parent, todo, inserts, affected, sweeps, updates>>

Candidates == (UNION {OutNeighbours(graph, u) : u \in affected}) \ {Source}

\* One iteration of the loop; after numberOfNodes of them the update gives up
\* and writes nothing.
Sweep ==
  /\ phase = "sweep" /\ todo = {} /\ affected # {}
  /\ sweeps' = sweeps + 1
  /\ phase' = IF sweeps = N THEN "failed" ELSE phase
  /\ todo' = Candidates /\ affected' = {}
  /\ UNCHANGED <<graph, tree, dist, parent, inserts, updates>>

WriteOutput ==
  /\ phase = "sweep" /\ todo = {} /\ affected = {}
  /\ phase' = "idle"
  /\ tree' = [dist |-> dist, parent |-> parent]
  /\ UNCHANGED <<graph, dist, parent, todo, inserts, affected, sweeps, updates>>

UpdateStep ==
  (\E v \in todo : RelaxOne(v)) \/ RootsDone \/ RelaxHead \/ HeadsDone \/ Sweep \/ WriteOutput

SequentialNext ==
  \/ \E deletes \in DeleteSets : \E insertedEdges \in InsertLists : Begin(deletes, insertedEdges)
  \/ UpdateStep

SequentialSpec == SequentialInit /\ [][SequentialNext]_sequentialVars

-----------------------------------------------------------------------------
Service == INSTANCE TreeService WITH busy <- phase # "idle"

\* Every update ends with the canonical tree of the changed graph, whatever the
\* order in which a sweep evaluates its vertices.
ImplementsService == Service!ServiceSpec

\* Following parents from a vertex that is reached ends at the source, over
\* edges of the graph and with distances that are upper bounds: there is no
\* stale cycle that could count to infinity.
NoStaleCycle ==
  phase # "idle" =>
    \A v \in Node \ {Source} :
      /\ dist[v] # Inf =>
           /\ parent[v] \in InNeighbours(graph, v) /\ dist[parent[v]] # Inf
           /\ dist[v] >= dist[parent[v]] + graph[<<parent[v], v>>]
      /\ dist[v] = Inf <=> parent[v] = NoParent

\* An in-neighbour that offers a better pair is about to be looked at: the
\* head is still to be evaluated, or the tail has decreased since.
NothingForgotten ==
  phase \in {"roots", "heads", "sweep"} =>
    \A u \in Node : \A v \in OutNeighbours(graph, u) \ {Source} :
      LET offer == dist[u] + graph[<<u, v>>] IN
      dist[u] # Inf /\ (offer < dist[v] \/ (offer = dist[v] /\ u < parent[v])) =>
        \/ v \in todo \/ u \in affected
        \/ v \in Heads(inserts)

\* "Every sweep settles at least one more hop of every shortest path."
EverySweepSettles ==
  phase = "sweep" /\ todo = {} =>
    \A v \in Node : dist[v] <= WalkLengths(graph, sweeps + 1)[v]

\* A sweep may leave out every vertex but those behind a decrease, and numberOfNodes
\* sweeps suffice: no update gives up.
SweepsSuffice == NothingForgotten /\ EverySweepSettles /\ phase # "failed"
=============================================================================
