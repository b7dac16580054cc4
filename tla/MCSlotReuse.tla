---------------------------- MODULE MCSlotReuse ----------------------------
(***************************************************************************)
(* Trees of up to seven nodes, the last level empty, partly and completely *)
(* filled; the capacities of the deleted nodes, in key order, run through  *)
(* the subsequences of two sequences, in order and out of order.           *)
(***************************************************************************)
EXTENDS SlotReuse, TLC

CapsByPosition ==
  { [p \in 0 .. MaxNodes - 1 |-> <<2, 0, 3, 1, 3, 2, 1>>[p + 1]], [p \in 0 .. MaxNodes - 1 |-> (p % 3) + 1] }
=============================================================================
