-------------------------- MODULE MCCombinedGraph --------------------------
(***************************************************************************)
(* All graphs on six edges between four vertices with one of three weight  *)
(* vectors each, so that the trees of three objectives agree on some paths *)
(* and not on others.                                                      *)
(***************************************************************************)
EXTENDS CombinedGraph, TLC

Frame == { <<0, 1>>, <<0, 2>>, <<1, 2>>, <<2, 1>>, <<2, 3>>, <<1, 3>> }

Vectors == { <<1, 3, 1>>, <<3, 1, 2>>, <<2, 2, 3>> }

NetworksOnFrame == UNION {[edges -> Vectors] : edges \in SUBSET Frame}

Deletions == { {}, {<<0, 1>>}, {<<2, 3>>, <<0, 2>>} }

Insertions ==
  { <<>>, <<[edge |-> <<0, 3>>, weight |-> <<3, 1, 3>>], [edge |-> <<3, 1>>, weight |-> <<1, 1, 1>>]>> }
=============================================================================
