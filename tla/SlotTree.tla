------------------------------ MODULE SlotTree ------------------------------
(***************************************************************************)
(* The availability counts of a CBST (recomputeSubtreeAvail in             *)
(* escher/structure/operations.cu).  After some nodes were deleted or      *)
(* reused, the host launches one kernel per level of the tree, from the    *)
(* deepest level to the root.  The threads of a launch run in any order;   *)
(* a launch begins when the one before it has ended (stream order).        *)
(***************************************************************************)
EXTENDS CbstLayout

CONSTANT MaxNodes   \* bound: the trees have 1 .. MaxNodes nodes

ASSUME MaxNodesAssumption == MaxNodes \in Nat \ {0}

VARIABLES
  n,          \* numRecords
  avail,      \* d_avail
  sub,        \* d_subtreeAvail
  levelStart, \* the level of the launch; -1 when nothing is being recomputed
  levelEnd,
  todo        \* threads of the launch that have not run

treeVars == <<n, avail, sub, levelStart, levelEnd, todo>>

Idle == levelStart = -1

\* After constructCBST: no node is deleted.
SlotInit ==
  /\ n \in 1 .. MaxNodes
  /\ avail = [p \in Positions(n) |-> 0]
  /\ sub = [p \in Positions(n) |-> 0]
  /\ levelStart = -1 /\ levelEnd = -1 /\ todo = {}

\* The first launch covers the deepest level.
LaunchDeepest ==
  /\ levelStart' = 2 ^ Log2[n] - 1
  /\ levelEnd' = n - 1
  /\ todo' = 2 ^ Log2[n] - 1 .. n - 1

\* deleteCBST: applyDeletes marks the nodes, deleted ones again.
Delete(gone) ==
  /\ Idle /\ gone # {}
  /\ avail' = [p \in Positions(n) |-> IF p \in gone THEN 1 ELSE avail[p]]
  /\ LaunchDeepest
  /\ UNCHANGED <<n, sub>>

\* One thread of reduceAvailLevel.
ReduceThread(p) ==
  /\ p \in todo
  /\ sub' = [sub EXCEPT ![p] = Reduced(avail, sub, p)]
  /\ todo' = todo \ {p}
  /\ UNCHANGED <<n, avail, levelStart, levelEnd>>

\* Fault: one launch covers two levels, so that its parents may read children
\* that another thread has yet to write.
NextTwoLevels ==
  /\ ~ Idle /\ todo = {}
  /\ levelEnd' = levelStart - 1
  /\ levelStart' = IF levelStart = 0 THEN -1 ELSE (levelStart - 1) \div 4
  /\ todo' = IF levelStart = 0 THEN {} ELSE (levelStart - 1) \div 4 .. levelStart - 1
  /\ UNCHANGED <<n, avail, sub>>

\* The loop goes on to the level above, and ends after the root.
NextLevel ==
  /\ ~ Idle /\ todo = {}
  /\ levelEnd' = levelStart - 1
  /\ levelStart' = IF levelStart = 0 THEN -1 ELSE (levelStart - 1) \div 2
  /\ todo' = IF levelStart = 0 THEN {} ELSE (levelStart - 1) \div 2 .. levelStart - 1
  /\ UNCHANGED <<n, avail, sub>>

SlotNext ==
  \/ \E gone \in SUBSET Positions(n) : Delete(gone)
  \/ \E p \in Positions(n) : ReduceThread(p)
  \/ NextLevel

-----------------------------------------------------------------------------
\* The levels are visited from the deepest to the root and none is skipped:
\* a node above the current launch may be out of date, a node below it, or
\* one whose thread has run, counts its subtree exactly, whatever the order
\* in which the threads ran (recomputeSubtreeAvail).
CountedBelow ==
  \A p \in Positions(n) :
    (Idle \/ p > levelEnd \/ (p >= levelStart /\ p \notin todo)) => sub[p] = Sums(avail)[p]

\* The deleted nodes to the left of p, itself included.
DeletedUpTo(p) == {q \in Positions(n) : avail[q] = 1 /\ Rank(q, n) <= Rank(p, n)}

\* The walk by the counts gives every deleted node once: the k-th thread of
\* locateReusableSlots finds the k-th deleted node in key order, so no two
\* threads share a slot and none leaves the tree.
SlotsFoundOnce ==
  Idle =>
    \A k \in 1 .. sub[0] :
      LET p == KthSlot(avail, sub, k) IN
      /\ p \in Positions(n) /\ avail[p] = 1
      /\ Cardinality(DeletedUpTo(p)) = k

\* The rank formula lays the keys out as a search tree: ranks are given out
\* once each, and the walk from the root reaches the node of every rank
\* (cbstRankOfPosition).
RanksSearchable ==
  LET ranks == [p \in Positions(n) |-> Rank(p, n)] IN
  \A p \in Positions(n) : ranks[p] \in Positions(n) /\ Find(ranks, ranks[p]) = p

\* The tree and its counts lead to every node and to every slot, and half a
\* recomputation leaves no wrong count behind it.
SlotsSound == CountedBelow /\ SlotsFoundOnce /\ RanksSearchable
=============================================================================
