------------------------------ MODULE RowCalls ------------------------------
(***************************************************************************)
(* What the calls of a CBST do to its rows (escher/include/structure.hpp): *)
(* a map from keys to rows, a row being a sequence of positive values.  A  *)
(* call that runs out of room throws and leaves a part of its work behind. *)
(***************************************************************************)
EXTENDS Sequences, SortedSets

CONSTANT MaxKey  \* bound: the keys are 1 .. MaxKey

Key == 1 .. MaxKey

VARIABLE rows  \* the live rows, by key

Grown(adds, got) ==
  [k \in DOMAIN rows |-> IF k \in DOMAIN adds THEN rows[k] \o SubSeq(adds[k], 1, got[k]) ELSE rows[k]]

Whole(adds) == [k \in DOMAIN adds |-> Len(adds[k])]

\* Values are appended in order; the values of an unknown key are dropped.
Fill(adds) == rows' = Grown(adds, Whole(adds))

\* Not enough room: each row has got a part of its values, from the front.
FillPart(adds) ==
  \E got \in [DOMAIN adds -> UNION {0 .. Len(adds[k]) : k \in DOMAIN adds}] :
    /\ \A k \in DOMAIN adds : got[k] <= Len(adds[k])
    /\ \E k \in DOMAIN adds \cap DOMAIN rows : got[k] < Len(adds[k])
    /\ rows' = Grown(adds, got)

Unfill(removes) ==
  rows' = [k \in DOMAIN rows |->
             IF k \in DOMAIN removes
             THEN Sifted(rows[k], {i \in DOMAIN rows[k] : rows[k][i] \notin removes[k]})
             ELSE rows[k]]

Erase(keys) == rows' = [k \in DOMAIN rows \ keys |-> rows[k]]

\* The ways to give some of the new rows keys that are free.
Placements(some) ==
  {place \in [some -> Key \ DOMAIN rows] : \A i, j \in some : place[i] = place[j] => i = j}

\* The rows of news under new keys; place is the mapping that is returned.
Insert(news, place) ==
  rows' = [k \in DOMAIN rows \cup {place[i] : i \in DOMAIN place} |->
             IF k \in DOMAIN rows THEN rows[k] ELSE news[CHOOSE i \in DOMAIN place : place[i] = k]]

\* Not enough room: some of the rows may be there, under keys that the
\* caller is not told.
InsertPart(news) ==
  \E some \in (SUBSET DOMAIN news) \ {DOMAIN news} : \E place \in Placements(some) : Insert(news, place)
=============================================================================
