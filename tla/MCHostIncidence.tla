-------------------------- MODULE MCHostIncidence --------------------------
(***************************************************************************)
(* Instances of HostIncidence.  The nodes 0 and 1 are virtual.             *)
(***************************************************************************)
EXTENDS HostIncidence

\* Rows of a sequence, as a function on the nodes.
RowsOf(s) == [h \in 0 .. Len(s) - 1 |-> s[h + 1]]

MCHostRows == {RowsOf(<<{0}, {1}, {0}>>), RowsOf(<<{0}, {1}, {0, 1}, {1}>>)}
=============================================================================
