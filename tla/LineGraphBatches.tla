-------------------------- MODULE LineGraphBatches --------------------------
(***************************************************************************)
(* The interface between the two halves of the hypergraph SOSP: applyBatch *)
(* replaces the line graph by one that may follow it and reports the exact *)
(* net change; hsospUpdate takes the graph and the report and changes      *)
(* neither.                                                                *)
(***************************************************************************)
EXTENDS LineGraph

VARIABLES
  graph,    \* the line graph the device holds between batches
  delta     \* DeviceDelta: what the last batch changed

Init == IsGraph(graph) /\ delta = EmptyDelta

Batch ==
  /\ IsGraph(graph')
  /\ \E created \in SUBSET Node :
       /\ MayFollow(graph, graph', created)
       /\ delta' = NetDelta(graph, graph', created)

Spec == Init /\ [][Batch]_<<graph, delta>>
=============================================================================
