----------------------------- MODULE SortedSets -----------------------------
(***************************************************************************)
(* Finite sets in an order, as std::sort leaves them.  Whoever sorts gives *)
(* each element a key, a pair of numbers, and no two the same key.         *)
(***************************************************************************)
EXTENDS Integers, FiniteSets

\* The order of the pairs.
Precedes(p, q) == p[1] < q[1] \/ (p[1] = q[1] /\ p[2] < q[2])

\* How many elements come before x.
Rank(S, key, x) == Cardinality({y \in S : Precedes(key[y], key[x])})

SortedBy(S, key) == [i \in 1 .. Cardinality(S) |-> CHOOSE x \in S : Rank(S, key, x) = i - 1]

\* A set of numbers in ascending order.
Ascending(S) == SortedBy(S, [x \in S |-> <<x, 0>>])

\* The elements of a sequence at some of its places.
Sifted(s, places) == LET at == Ascending(places) IN [j \in DOMAIN at |-> s[at[j]]]
=============================================================================
