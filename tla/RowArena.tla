------------------------------ MODULE RowArena ------------------------------
(***************************************************************************)
(* Growing rows in one device array.  Three structures are kept this way:  *)
(* the two rows of the incidence mirror (DeviceIncidence in hsosp.cuh) and *)
(* the CSR of the line graph (DeviceH2H).  A row owns a slot of cap[k]     *)
(* places from off[k] on.  A row that outgrows its slot moves to the free  *)
(* tail, and its old slot is lost; when the tail is full the whole array   *)
(* is laid out anew.  The contents of a row are a set here: no row holds a *)
(* value twice and nothing depends on the order of its values.             *)
(***************************************************************************)
EXTENDS Integers, FiniteSets, FiniteSetsExt

\* Where k's slot starts when the slots are laid one after the other from base on.
SlotStart(slots, base, k) ==
  base + MapThenSumSet(LAMBDA j : slots[j], {j \in DOMAIN slots : j < k})

TotalOf(slots) == MapThenSumSet(LAMBDA j : slots[j], DOMAIN slots)

(***************************************************************************)
(* The array laid out anew with room free places at its tail.  The code    *)
(* takes a growth factor and a constant; room is any number of places.     *)
(***************************************************************************)
LayOut(rows, slots, room) ==
  [off |-> [k \in DOMAIN rows |-> SlotStart(slots, 0, k)],
   cap |-> slots,
   row |-> rows,
   tail |-> TotalOf(slots),
   capacity |-> TotalOf(slots) + room]

RoomFor(a, slots) == a.tail + TotalOf(slots) <= a.capacity

\* Fault: the tail is not advanced past the slots given out.
MovedOver(a, slots) ==
  [a EXCEPT !.off = [k \in DOMAIN @ |-> IF k \in DOMAIN slots THEN SlotStart(slots, a.tail, k) ELSE @[k]],
            !.cap = [k \in DOMAIN @ |-> IF k \in DOMAIN slots THEN slots[k] ELSE @[k]]]

\* The rows DOMAIN slots move to new slots at the tail.
Moved(a, slots) ==
  [a EXCEPT !.off = [k \in DOMAIN @ |-> IF k \in DOMAIN slots THEN SlotStart(slots, a.tail, k) ELSE @[k]],
            !.cap = [k \in DOMAIN @ |-> IF k \in DOMAIN slots THEN slots[k] ELSE @[k]],
            !.tail = @ + TotalOf(slots)]

(***************************************************************************)
(* A sound array: every row fits its slot, the slots lie below the tail,   *)
(* and no two of them overlap.                                             *)
(***************************************************************************)
Sound(a) ==
  /\ a.tail <= a.capacity
  /\ \A k \in DOMAIN a.row :
       /\ Cardinality(a.row[k]) <= a.cap[k]
       /\ a.off[k] + a.cap[k] <= a.tail
  /\ \A j, k \in DOMAIN a.row :
       \/ j = k \/ a.cap[j] = 0 \/ a.cap[k] = 0
       \/ a.off[j] + a.cap[j] <= a.off[k] \/ a.off[k] + a.cap[k] <= a.off[j]
=============================================================================
