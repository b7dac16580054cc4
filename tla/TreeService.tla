---------------------------- MODULE TreeService ----------------------------
(***************************************************************************)
(* What every way of updating a shortest-path tree in src/mosp promises:   *)
(* a call that is given a graph, its canonical tree and a batch of changes *)
(* ends with the canonical tree of the changed graph.  The sequential      *)
(* update and the update on the device both implement it, which is what    *)
(* tests/unit/test_mosp_update.cu compares on three cases.                 *)
(***************************************************************************)
EXTENDS WeightedDigraph

CONSTANTS
  InitialGraphs,  \* the graphs of the first call
  DeleteSets,     \* the sets of edges that one batch deletes
  InsertLists     \* the sequences of insertions of one batch

VARIABLES
  graph,  \* the current graph
  tree,   \* the tree that was returned last
  busy    \* whether a call is running

serviceVars == <<graph, tree, busy>>

ServiceInit == graph \in InitialGraphs /\ tree = CanonicalTree(graph) /\ busy = FALSE

\* The updates reject no batch: an edge that is not there is not deleted.
Batch(deletes, inserts) ==
  /\ ~ busy /\ busy' = TRUE
  /\ graph' = Applied(graph, deletes, inserts)
  /\ UNCHANGED tree

Answer == busy /\ busy' = FALSE /\ tree' = CanonicalTree(graph) /\ UNCHANGED graph

\* A call that computes the tree from scratch is given no changes.
ServiceNext ==
  \/ Batch({}, <<>>)
  \/ \E deletes \in DeleteSets : \E inserts \in InsertLists : Batch(deletes, inserts)
  \/ Answer

ServiceSpec == ServiceInit /\ [][ServiceNext]_serviceVars
=============================================================================
