----------------------------- MODULE MCRowStore -----------------------------
(***************************************************************************)
(* Small row stores.  A row of three values fills its slot, so the lists   *)
(* below overflow, chain over two and three segments and run out of room;  *)
(* the inserted rows reuse slots, become surplus or do not fit.            *)
(***************************************************************************)
EXTENDS RowStore

Tables == { << <<1, 2, 3>>, <<2>> >> }
Lists == { <<3>>, <<1, 2, 3, 1>> }
Removes == { {1}, {2, 3} }
News == { <<3>>, <<1, 2, 3, 1>> }
=============================================================================
