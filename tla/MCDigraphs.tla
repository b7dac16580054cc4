---------------------------- MODULE MCDigraphs ----------------------------
(***************************************************************************)
(* Small directed graphs and batches for the MOSP modules.  The first two  *)
(* graphs are the cases "disconnect" and "ties" of                         *)
(* tests/unit/test_mosp_update.cu with smaller weights.                    *)
(***************************************************************************)
EXTENDS Integers, Sequences, TLC

Disconnect == <<0, 1>> :> 1 @@ <<0, 3>> :> 3 @@ <<1, 2>> :> 1 @@ <<2, 1>> :> 1 @@ <<3, 1>> :> 3

Ties == <<0, 2>> :> 1 @@ <<0, 1>> :> 3 @@ <<2, 3>> :> 2 @@ <<1, 3>> :> 1

Chain == <<0, 1>> :> 1 @@ <<1, 2>> :> 1 @@ <<2, 3>> :> 1 @@ <<3, 1>> :> 1 @@ <<0, 3>> :> 3

Digraphs == {Disconnect, Ties, Chain}

Deletions ==
  { {}, {<<0, 1>>}, {<<0, 2>>}, {<<1, 2>>, <<2, 3>>}, {<<0, 1>>, <<0, 3>>}, {<<2, 3>>, <<3, 1>>} }

Insertion(u, v, w) == [edge |-> <<u, v>>, weight |-> w]

\* Among them an edge that is raised, lowered, or both in one batch.
Insertions ==
  { <<>>, <<Insertion(2, 1, 1)>>, <<Insertion(0, 1, 3)>>, <<Insertion(0, 3, 1), Insertion(2, 3, 1)>>,
    <<Insertion(0, 1, 3), Insertion(0, 1, 2)>>, <<Insertion(1, 0, 1), Insertion(0, 2, 2)>> }

\* Five vertices: the case "ties" with its own weights and the edge it inserts;
\* a graph with two ways to every vertex, the longer one cheaper; a chain, with
\* the deepest tree, that a raised or a deleted edge cuts.
TiesOfFive == <<0, 1>> :> 5 @@ <<0, 2>> :> 1 @@ <<2, 3>> :> 1 @@ <<1, 4>> :> 2 @@ <<3, 4>> :> 2

Ladder ==
  <<0, 1>> :> 5 @@ <<0, 2>> :> 1 @@ <<2, 1>> :> 2 @@ <<1, 3>> :> 1 @@ <<2, 3>> :> 5 @@ <<3, 4>> :> 1
  @@ <<1, 4>> :> 4 @@ <<4, 2>> :> 1

ChainOfFive == <<0, 1>> :> 1 @@ <<1, 2>> :> 1 @@ <<2, 3>> :> 1 @@ <<3, 4>> :> 1 @@ <<0, 4>> :> 5

DigraphsOfFive == {TiesOfFive, Ladder, ChainOfFive}

DeletionsOfFive == { {}, {<<0, 2>>}, {<<0, 1>>}, {<<2, 3>>, <<0, 2>>} }

InsertionsOfFive ==
  { <<>>, <<Insertion(2, 1, 1)>>, <<Insertion(0, 1, 5), Insertion(0, 1, 3)>>,
    <<Insertion(0, 3, 4), Insertion(0, 4, 4)>>, <<Insertion(1, 0, 1), Insertion(0, 2, 2)>>,
    <<Insertion(0, 1, 1), Insertion(0, 3, 3), Insertion(4, 1, 1)>> }
=============================================================================
