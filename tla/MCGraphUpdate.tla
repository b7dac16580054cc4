--------------------------- MODULE MCGraphUpdate ---------------------------
(***************************************************************************)
(* Three vertices.  The change files have edges that collide: deleted      *)
(* twice, inserted twice, deleted and inserted, inserted over one that is  *)
(* there.  Five ids leave room for two insertions, so that direct calls    *)
(* use ids again and fill the CBSTs; their batches have edges with a       *)
(* common tail or head, one that is there already, and pairs out of range. *)
(***************************************************************************)
EXTENDS GraphUpdate, MCDigraphs

Loaded == { <<0, 1>> :> 1 @@ <<0, 2>> :> 2 @@ <<1, 2>> :> 1, <<0, 1>> :> 2 @@ <<1, 0>> :> 1 @@ <<2, 0>> :> 1 }

Deleting ==
  { <<>>, <<<<0, 1>>>>, <<<<0, 2>>, <<0, 2>>, <<1, 3>>>>, <<<<1, 0>>, <<1, 2>>, <<0, 1>>>> }

Inserting ==
  { <<>>, <<Insertion(0, 1, 2)>>, <<Insertion(2, 1, 1), Insertion(0, 3, 1), Insertion(2, 1, 2)>>,
    <<Insertion(0, 2, 1), Insertion(1, 0, 2), Insertion(0, 2, 2)>>, <<Insertion(1, 2, 2), Insertion(0, 1, 1)>> }

Batches ==
  { <<Insertion(2, 0, 1)>>, <<Insertion(0, 1, 2)>>, <<Insertion(0, 1, 2), Insertion(0, 2, 1)>>,
    <<Insertion(1, 0, 1), Insertion(2, 0, 2)>>, <<Insertion(2, 1, 1), Insertion(1, 3, 1)>> }

Removals == { <<<<0, 1>>>>, <<<<0, 2>>, <<1, 2>>>>, <<<<0, 1>>, <<0, 1>>, <<2, 1>>>>, <<<<2, 0>>>>,
    <<<<1, 2>>, <<0, 3>>>>, <<<<0, 3>>, <<0, 2>>>> }

\* The same edge twice in one batch.
BatchesTwice == { <<Insertion(2, 0, 1), Insertion(2, 0, 2)>> }

NoFiles == {<<>>}
=============================================================================
