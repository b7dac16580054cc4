---------------------------- MODULE MCHsospBatch ----------------------------
(***************************************************************************)
(* Instances of HsospBatch.  The nodes 0 and 1 are virtual.                *)
(***************************************************************************)
EXTENDS HsospBatch

\* Rows of a sequence, as a function on the nodes.
RowsOf(s) == [h \in 0 .. Len(s) - 1 |-> s[h + 1]]

(***************************************************************************)
(* Two vertices: hypergraphs with an id that was never used, one of them   *)
(* with a hyperedge that shares nothing with the target, and one with two  *)
(* overlapping hyperedges.                                                 *)
(***************************************************************************)
MCBatchRows ==
  {RowsOf(<<{0}, {1}, {0, 1}>>), RowsOf(<<{0}, {1}, {0}>>), RowsOf(<<{0}, {1}, {0, 1}, {1}>>)}
=============================================================================
