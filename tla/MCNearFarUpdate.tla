-------------------------- MODULE MCNearFarUpdate --------------------------
(***************************************************************************)
(* Five vertices.  The weights go up to five, so that a bucket of width    *)
(* one or three leaves vertices on the far pile.                           *)
(***************************************************************************)
EXTENDS NearFarUpdate, MCDigraphs

(***************************************************************************)
(* Four vertices and words that hold the distances below 16: the bound of  *)
(* 3 * 4 fits, but the last vertex of the path offers 12 + 4 to another.   *)
(* In the code: 2^17 - 1 vertices in 17 bits, and weights of about 2^30.   *)
(***************************************************************************)
HeavyPath == {<<0, 1>> :> 4 @@ <<1, 2>> :> 4 @@ <<2, 3>> :> 4 @@ <<3, 1>> :> 4}

NoDeletions == {{}}

NoInsertions == {<<>>}
=============================================================================
