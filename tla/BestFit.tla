------------------------------ MODULE BestFit ------------------------------
(***************************************************************************)
(* Which inserted row goes into which deleted slot: the best-fit pipeline  *)
(* of insertCBST (escher/structure/operations.cu and                       *)
(* escher/kernel/insert_reuse.cu).  Rows are sorted by size and slots by   *)
(* capacity; lo[i] is the first slot that holds the i-th row; the i-th row *)
(* takes the slot i + max over j <= i of lo[j] - j.  Arrays are sequences, *)
(* so every index is one more than in the code.                            *)
(***************************************************************************)
EXTENDS Integers, Sequences, FiniteSets, FiniteSetsExt

\* thrust::sort_by_key of s and 1 .. Len(s), a stable sort: the place in s
\* of the entry that is r-th in order.
SortedOrder(s) ==
  LET before(j, i) == s[j] < s[i] \/ (s[j] = s[i] /\ j < i)
  IN [r \in DOMAIN s |-> CHOOSE i \in DOMAIN s : Cardinality({j \in DOMAIN s : before(j, i)}) = r - 1]

Permuted(s, order) == [r \in DOMAIN s |-> s[order[r]]]

\* Fault: the row may fill the slot's terminator place.
LowerBoundLoose(caps, size) ==
  LET search[at \in Nat \X Nat] ==
        LET lo == at[1]
            hi == at[2]
            mid == lo + (hi - lo) \div 2
        IN IF lo >= hi THEN lo
           ELSE IF caps[mid] + 1 < size THEN search[<<mid + 1, hi>>]
           ELSE search[<<lo, mid>>]
  IN search[<<1, Len(caps) + 1>>]

\* lowerBoundKernel, on sorted capacities.
LowerBound(caps, size) ==
  LET search[at \in Nat \X Nat] ==
        LET lo == at[1]
            hi == at[2]
            mid == lo + (hi - lo) \div 2
        IN IF lo >= hi THEN lo
           ELSE IF caps[mid] < size THEN search[<<mid + 1, hi>>]
           ELSE search[<<lo, mid>>]
  IN search[<<1, Len(caps) + 1>>]

\* thrust::inclusive_scan with max.
PrefixMax(b) == [i \in DOMAIN b |-> Max({b[j] : j \in 1 .. i})]

\* Fault: every row takes the first slot that holds it.
FirstThatFits(caps, sizes) == [i \in DOMAIN sizes |-> LowerBound(caps, sizes[i])]

\* Fault: slots are skipped where rows of one size meet.
AssignedSparsely(caps, sizes) ==
  LET b == [i \in DOMAIN sizes |-> LowerBound(caps, sizes[i])]
  IN [i \in DOMAIN sizes |-> i - 1 + PrefixMax(b)[i]]

\* computeBInPlace, the scan and computeAssigned; caps and sizes are sorted.
Assigned(caps, sizes) ==
  LET b == [i \in DOMAIN sizes |-> LowerBound(caps, sizes[i]) - i]
  IN [i \in DOMAIN sizes |-> i + PrefixMax(b)[i]]

\* pairMatches: <<row, slot>> for the first matchCount rows in order of size.
Matches(caps, sizes) ==
  LET slotOrder == SortedOrder(caps)
      itemOrder == SortedOrder(sizes)
      assigned == Assigned(Permuted(caps, slotOrder), Permuted(sizes, itemOrder))
      matchCount == Cardinality({i \in DOMAIN assigned : assigned[i] <= Len(caps)})
  IN {<<itemOrder[i], slotOrder[assigned[i]]>> : i \in 1 .. matchCount}
=============================================================================
