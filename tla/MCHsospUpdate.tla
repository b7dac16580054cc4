--------------------------- MODULE MCHsospUpdate ---------------------------
(***************************************************************************)
(* Instances of HsospUpdate.                                               *)
(***************************************************************************)
EXTENDS HsospUpdate, MCGraphs

Weight(f) == [v \in Node |-> IF v \in Virtual THEN 0 ELSE f[v]]

(***************************************************************************)
(* Five nodes, 0 and 4 virtual.  A batch may kill, create and recycle the  *)
(* hyperedges 1 and 2 and rewire everything; where node 3 is live too, the *)
(* trees are up to four hops deep.                                         *)
(***************************************************************************)
Ring == {<<0, 1>>, <<1, 2>>, <<2, 3>>, <<3, 4>>, <<0, 4>>}

Chords == {<<1, 3>>, <<0, 2>>}

MCDeepInitial == {GraphOf(Node, Ring \ {<<0, 4>>}, Weight([v \in Node |-> 1]))}

MCDeepGraphs ==
  {GraphOf(Node, E, Weight([v \in Node |-> IF v = 1 THEN 3 ELSE 1])) :
     E \in {Ring \cup Chords, Ring \ {<<0, 1>>}, (Ring \cup Chords) \ {<<1, 2>>}}}

MCFlatGraphs ==
  UNION {{GraphOf(L, E, Weight([v \in Node |-> CASE v = 1 -> x [] v = 2 -> y [] OTHER -> 1])) :
            E \in SUBSET Pairs(L), x \in {1, 2}, y \in {1, 2}} : L \in {M \in LiveSets : 3 \notin M}}

MCFlatInitial ==
  LET w == Weight([v \in Node |-> IF v = 1 THEN 2 ELSE 1])
  IN  {GraphOf(Node \ {3}, {<<0, 2>>, <<1, 2>>, <<1, 4>>}, w),
       GraphOf(Node \ {3}, {<<0, 1>>, <<0, 2>>, <<1, 2>>, <<1, 4>>, <<2, 4>>}, w),
       GraphOf({0, 1, 4}, {<<0, 1>>, <<1, 4>>}, w)}

(***************************************************************************)
(* A tie that a recompute finds late: node 4 hangs from 3 before it hangs  *)
(* from 2, at the same distance.                                           *)
(***************************************************************************)
MCTiedInitial ==
  {GraphOf(Node, {<<0, 1>>, <<0, 3>>, <<1, 2>>, <<2, 4>>, <<3, 4>>},
           Weight([v \in Node |-> IF v = 3 THEN 2 ELSE 1]))}

MCInitial == MCFlatInitial \cup MCDeepInitial \cup MCTiedInitial

MCAllGraphs == MCFlatGraphs \cup MCDeepGraphs \cup MCInitial

(***************************************************************************)
(* Four nodes with tight budgets (see MCHsospUpdateBudget.cfg): all live,  *)
(* node 1 may be recycled with another weight, and two batches follow each *)
(* other.                                                                  *)
(***************************************************************************)
MCBudgetGraphs ==
  {GraphOf(Node, E \cup {<<2, 3>>}, Weight([v \in Node |-> IF v = 1 THEN x ELSE 2])) :
     E \in SUBSET {<<0, 1>>, <<0, 2>>, <<1, 2>>}, x \in {1, 2}}

MCBudgetInitial == {g \in MCBudgetGraphs : 1 \in g.adj[0] /\ g.w[1] = 1}
=============================================================================
