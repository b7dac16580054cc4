------------------------- MODULE MCSequentialUpdate -------------------------
(***************************************************************************)
(* The graphs and batches of the MOSP modules, several updates in a row.   *)
(***************************************************************************)
EXTENDS SequentialUpdate, MCDigraphs
=============================================================================
