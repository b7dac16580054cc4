--------------------------- MODULE CombinedGraph ---------------------------
(***************************************************************************)
(* The MOSP program (mosp/src/main.cu) from the change files on: one tree  *)
(* per objective is computed on the original graph, updated, and the trees *)
(* are combined into one graph whose edges are the cheaper the more trees  *)
(* they belong to (mosp/src/parallelCombinedGraph.cu); its tree is the     *)
(* result.  The stages read and write files and none of them runs before   *)
(* the one in front has ended.  Dijkstra runs step by step; the other      *)
(* stages are used by what they promise: the canonical tree (TreeService)  *)
(* and the changed graph (GraphUpdate).                                    *)
(***************************************************************************)
EXTENDS Dijkstra

CONSTANTS
  K,                                   \* numberOfObjectives
  Networks, DeleteSets, InsertLists    \* graphs with K weights per edge, and change files

ASSUME ObjectivesAssumption == K \in Nat \ {0} /\ K <= MaxWeight

Vector == [1 .. K -> 1 .. MaxWeight]

ASSUME FilesAssumption ==
  /\ \A g \in Networks : g \in [DOMAIN g -> Vector] /\ DOMAIN g \subseteq Node \X Node
  /\ DeleteSets \subseteq SUBSET (Node \X Node)
  /\ InsertLists \subseteq Seq([edge : Node \X Node, weight : Vector])

VARIABLES
  network,          \* originalGraph
  deletes, inserts, \* the change files
  updated,          \* updatedGraph, or network while it is not there
  trees,            \* the tree files of the objectives
  objective,        \* obj: the objective whose turn it is
  stage,
  combined          \* combinedGraph/SSSPTreeCsr and distancesCsr

mainVars == <<network, deletes, inserts, updated, trees, objective, stage, combined>>
mospVars == <<mainVars, dijkstraVars>>

BlankTree == [dist |-> Unreached, parent |-> [v \in Node |-> NoParent]]

\* The weights of one objective.
Column(g, k) == [e \in DOMAIN g |-> g[e][k]]

MospInit ==
  /\ network \in Networks /\ deletes \in DeleteSets /\ inserts \in InsertLists
  /\ updated = network
  /\ trees = [k \in 1 .. K |-> BlankTree]
  /\ objective = 1 /\ stage = "changes" /\ combined = BlankTree
  /\ DijkstraIdle

UpdateGraph ==
  /\ stage = "changes" /\ stage' = "dijkstra"
  /\ updated' = Applied(network, deletes, inserts)
  /\ UNCHANGED <<dijkstraVars, network, deletes, inserts, trees, objective, combined>>

StartDijkstra ==
  /\ stage = "dijkstra" /\ stage' = "popping"
  /\ Start(Column(network, objective))
  /\ UNCHANGED <<network, deletes, inserts, updated, trees, objective, combined>>

PopNext == stage = "popping" /\ Pop /\ UNCHANGED mainVars

WriteTree ==
  /\ stage = "popping" /\ pq = {} /\ stage' = "update"
  /\ trees' = [trees EXCEPT ![objective] = [dist |-> dist, parent |-> parent]]
  /\ UNCHANGED <<dijkstraVars, network, deletes, inserts, updated, objective, combined>>

AfterObjective(k) == IF k = K THEN "combine" ELSE "dijkstra"

\* Fault: the path of the tree before the update is handed on.
UpdateTreeStale ==
  /\ stage = "update" /\ stage' = AfterObjective(objective)
  /\ objective' = objective + 1
  /\ UNCHANGED <<dijkstraVars, network, deletes, inserts, updated, trees, combined>>

\* parallelSOSPUpdate: from the tree of the original graph and the same files.
UpdateTree ==
  LET column == [i \in DOMAIN inserts |-> [edge |-> inserts[i].edge, weight |-> inserts[i].weight[objective]]]
  IN /\ stage = "update" /\ stage' = AfterObjective(objective)
     /\ objective' = objective + 1
     /\ trees' = [trees EXCEPT ![objective] =
                    CanonicalTree(Applied(Column(network, objective), deletes, column))]
     /\ UNCHANGED <<dijkstraVars, network, deletes, inserts, updated, combined>>

\* edgeMembership
Membership(e) == Cardinality({k \in 1 .. K : trees[k].parent[e[2]] = e[1]})

\* Fault: an edge in all trees costs nothing.
WeightFromZero(e) == K - Membership(e)

CombinedWeight(e) == K + 1 - Membership(e)

\* The temporary files: a self-loop at the source, and the tree edges.
TreeEdges == {e \in Node \X (Node \ {Source}) : Membership(e) > 0}

TemporaryGraph ==
  [e \in TreeEdges \cup {<<Source, Source>>} |->
     IF e = <<Source, Source>> THEN 0 ELSE CombinedWeight(e)]

Combine ==
  /\ stage = "combine" /\ stage' = "done"
  /\ combined' = CanonicalTree(TemporaryGraph)
  /\ UNCHANGED <<dijkstraVars, network, deletes, inserts, updated, trees, objective>>

MospNext == UpdateGraph \/ StartDijkstra \/ PopNext \/ WriteTree \/ UpdateTree \/ Combine

MospSpec == MospInit /\ [][MospNext]_mospVars

-----------------------------------------------------------------------------
\* Every run of Dijkstra is right at every pop, and at its end.
DijkstraExact == stage = "popping" => ExpandedOnce /\ NoneLost /\ EndsCanonical

\* The vertices of the path of tree t to v, which is reached.
PathTo(t, v) ==
  LET back[i \in 0 .. N] ==
        IF i = 0 THEN {v}
        ELSE back[i - 1] \cup {u \in Node : \E x \in back[i - 1] : t.parent[x] = u}
  IN back[N]

\* The result reaches what the changed graph reaches, over edges that are in
\* it: nothing that a change removed comes back through one of the trees.
SpansUpdatedGraph ==
  stage = "done" =>
    \A v \in Node \ {Source} :
      /\ (combined.dist[v] = Inf) <=> (Distances(Column(updated, 1))[v] = Inf)
      /\ combined.dist[v] # Inf => <<combined.parent[v], v>> \in DOMAIN updated

\* Where all the objectives agree on the path to a vertex, the result is that
\* path, at the least cost, one per edge.
AgreedPathKept ==
  stage = "done" =>
    \A v \in Node :
      LET path == PathTo(trees[1], v) IN
      trees[1].dist[v] # Inf /\ (\A k \in 1 .. K, x \in path : trees[k].parent[x] = trees[1].parent[x]) =>
        PathTo(combined, v) = path /\ combined.dist[v] = Cardinality(path) - 1
=============================================================================
