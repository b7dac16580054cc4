------------------------------ MODULE MCGraphs ------------------------------
(***************************************************************************)
(* Small sets of line graphs for the model-checking runs.                  *)
(***************************************************************************)
EXTENDS LineGraph

\* All weight assignments with real hyperedge weights from W.
WeightsFrom(W) == {[v \in Node |-> IF v \in Virtual THEN 0 ELSE x[v]] : x \in [Node -> W]}

Pairs(S) == {e \in S \X S : e[1] < e[2]}

\* The line graph with the given live nodes, node pairs and weights.
GraphOf(live, pairs, w) ==
  [live |-> live, w |-> w,
   adj |-> [v \in Node |-> {u \in Node : <<u, v>> \in pairs \/ <<v, u>> \in pairs}]]

\* Every line graph on the live sets of Lives.
GraphsOn(Lives, W) ==
  UNION {{GraphOf(L, E, w) : E \in SUBSET Pairs(L), w \in WeightsFrom(W)} : L \in Lives}

LiveSets == {L \in SUBSET Node : Virtual \subseteq L}

\* Chain 0 - 1 - ... - (N-1), all live, with the given weights.
Chain(w) == GraphOf(Node, {e \in Pairs(Node) : e[2] = e[1] + 1}, w)
=============================================================================
