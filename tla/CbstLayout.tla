----------------------------- MODULE CbstLayout -----------------------------
(***************************************************************************)
(* The complete binary search tree of ESCHER (CBST): n nodes at the heap   *)
(* positions 0 .. n - 1, where the keys are in order from left to right.   *)
(* An array with one entry per node is a function on these positions.      *)
(***************************************************************************)
EXTENDS Integers, FiniteSets

NoNode == -1

Positions(n) == 0 .. n - 1

LeftChild(p) == 2 * p + 1
RightChild(p) == 2 * p + 2

Log2[x \in Nat] == IF x <= 1 THEN 0 ELSE 1 + Log2[x \div 2]

\* Fault: the tree is taken for a full one.
FullRank(pos, n) ==
  LET level == Log2[pos + 1]
  IN (2 * (pos + 1 - 2 ^ level) + 1) * 2 ^ (Log2[n] - level) - 1

(***************************************************************************)
(* cbstRankOfPosition: how many of the n nodes lie to the left of pos.     *)
(***************************************************************************)
Rank(pos, n) ==
  LET level == Log2[pos + 1]
      full == (2 * (pos + 1 - 2 ^ level) + 1) * 2 ^ (Log2[n] - level)
      short == full - (full \div 2) + (n + 1 - 2 ^ Log2[n])
  IN (IF full <= short THEN full ELSE short) - 1

\* The position of the node of a rank.
PositionOfRank(r, n) == CHOOSE p \in Positions(n) : Rank(p, n) = r

\* bstFind: the walk of every kernel from the root to a key.
Find(keys, key) ==
  LET n == Cardinality(DOMAIN keys)
      walk[p \in Nat] ==
        IF p >= n THEN NoNode
        ELSE IF keys[p] = key THEN p
        ELSE walk[IF keys[p] > key THEN LeftChild(p) ELSE RightChild(p)]
  IN walk[0]

-----------------------------------------------------------------------------
(***************************************************************************)
(* avail[p] is 1 at a deleted node, whose slot can be reused; sub[p] is to *)
(* be the number of deleted nodes in the subtree of p.                     *)
(***************************************************************************)
At(f, p) == IF p \in DOMAIN f THEN f[p] ELSE 0

\* reduceAvailLevel, for one node.
Reduced(avail, sub, p) == avail[p] + At(sub, LeftChild(p)) + At(sub, RightChild(p))

\* What recomputeSubtreeAvail leaves (SlotTree has its launches).
Sums(avail) ==
  LET sum[p \in Nat] ==
        IF p \in DOMAIN avail THEN avail[p] + sum[LeftChild(p)] + sum[RightChild(p)] ELSE 0
  IN [p \in DOMAIN avail |-> sum[p]]

\* Fault: the node itself is not counted on the way to the right.
KthSlotPastSelf(avail, sub, k) ==
  LET n == Cardinality(DOMAIN avail)
      walk[at \in Nat \X Int] ==
        LET p == at[1]
            left == at[2]
            before == At(sub, LeftChild(p))
        IN IF p >= n THEN NoNode
           ELSE IF left <= before THEN walk[<<LeftChild(p), left>>]
           ELSE IF avail[p] = 1 /\ left = before + 1 THEN p
           ELSE walk[<<RightChild(p), left - before>>]
  IN walk[<<0, k>>]

\* locateReusableSlots: the k-th deleted node from the left, by the sums.
KthSlot(avail, sub, k) ==
  LET n == Cardinality(DOMAIN avail)
      walk[at \in Nat \X Int] ==
        LET p == at[1]
            left == at[2]
            before == At(sub, LeftChild(p))
        IN IF p >= n THEN NoNode
           ELSE IF left <= before THEN walk[<<LeftChild(p), left>>]
           ELSE IF avail[p] = 1 /\ left = before + 1 THEN p
           ELSE walk[<<RightChild(p), left - before - avail[p]>>]
  IN walk[<<0, k>>]

=============================================================================
