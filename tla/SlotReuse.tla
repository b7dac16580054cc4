----------------------------- MODULE SlotReuse -----------------------------
(***************************************************************************)
(* The first half of insertCBST (escher/structure/operations.cu): the      *)
(* deleted nodes are found by the counts of SlotTree, their slots matched  *)
(* with the new rows by BestFit, and the counts made anew after the slots  *)
(* were taken.  Only the sizes of rows and slots are kept; RowStore has    *)
(* the rest of the call.                                                   *)
(***************************************************************************)
EXTENDS SlotTree, BestFit

CONSTANTS
  CapTables, \* the slot capacities of the nodes, by position
  MaxItems,  \* bound: rows of one insertion
  MaxSize    \* bound: values of one row

ASSUME ReuseAssumption ==
  CapTables \subseteq [0 .. MaxNodes - 1 -> Nat] /\ MaxItems \in Nat /\ MaxSize \in Nat

VARIABLE capOf  \* length - 1 of each node

reuseVars == <<treeVars, capOf>>

ReuseInit == SlotInit /\ capOf \in CapTables

\* d_emptySlots: where the walks of locateReusableSlots end.
EmptySlots == [k \in 1 .. sub[0] |-> KthSlot(avail, sub, k)]

SlotCaps == [k \in DOMAIN EmptySlots |-> capOf[EmptySlots[k]]]

\* No more rows than slots take part.
Insertions == {sizes \in UNION {[1 .. k -> 0 .. MaxSize] : k \in 1 .. MaxItems} : Len(sizes) <= sub[0]}

\* applyReuse clears the marks of the matched slots, and the counts follow.
ReuseSlots(sizes) ==
  LET taken == {EmptySlots[m[2]] : m \in Matches(SlotCaps, sizes)} IN
  /\ Idle /\ taken # {}
  /\ avail' = [p \in Positions(n) |-> IF p \in taken THEN 0 ELSE avail[p]]
  /\ LaunchDeepest
  /\ UNCHANGED <<n, sub, capOf>>

ReuseNext ==
  \/ Idle /\ \E sizes \in Insertions : ReuseSlots(sizes)
  \/ SlotNext /\ UNCHANGED capOf

ReuseSpec == ReuseInit /\ [][ReuseNext]_reuseVars

-----------------------------------------------------------------------------
\* The ways to place some of the rows into slots of their own.
Placements(sizes, some) ==
  {f \in [some -> DOMAIN SlotCaps] :
     /\ \A i \in some : sizes[i] <= SlotCaps[f[i]]
     /\ \A i, j \in some : f[i] = f[j] => i = j}

\* The parallel matching is as good as any: every row that it places has a
\* slot of its own that is large enough, so no row is cut off, and no other
\* placement has more rows, so the tree is rebuilt only when it has to be.
ReuseIsBestFit ==
  Idle =>
    \A sizes \in Insertions :
      LET matches == Matches(SlotCaps, sizes) IN
      /\ \A m \in matches : sizes[m[1]] <= SlotCaps[m[2]]
      /\ \A m1, m2 \in matches : (m1[1] = m2[1]) <=> (m1[2] = m2[2])
      /\ \A some \in SUBSET DOMAIN sizes :
           Cardinality(some) > Cardinality(matches) => Placements(sizes, some) = {}
=============================================================================
