----------------------------- MODULE CbstProofs -----------------------------
(***************************************************************************)
(* Theorems about the trees of ESCHER: SlotTree and SlotReuse, for every   *)
(* number of nodes, every set of deleted nodes, all sizes of rows and      *)
(* slots, and every order of the threads.                                  *)
(*                                                                         *)
(* First recursion: the walks and sums of CbstLayout and BestFit are       *)
(* recursive functions, and that each of them exists is proved here.       *)
(***************************************************************************)
EXTENDS SlotReuse, FiniteSetTheorems, FunctionTheorems, WellFoundedInduction, TLAPS

-----------------------------------------------------------------------------
(***************************************************************************)
(* Induction over the natural numbers, for a set instead of a predicate.   *)
(***************************************************************************)
\* A nonempty set of natural numbers has a least one.
LEMMA LeastNatural ==
  ASSUME NEW S \in SUBSET Nat, S # {}
  PROVE  \E x \in S : \A y \in S : x <= y
<1> DEFINE R == OpToRel(<, Nat)
<1>1. IsWellFoundedOn(R, Nat)
  BY NatLessThanWellFounded
<1>2. \A x, y \in Nat : <<x, y>> \in R <=> x < y
  BY DEF OpToRel
<1> HIDE DEF R
<1>3. PICK x \in S : \A y \in S : ~ (<<y, x>> \in R)
  BY <1>1, WFMin
<1>4. ASSUME NEW y \in S PROVE x <= y
  <2>1. ~ (y < x)
    BY <1>2, <1>3
  <2> QED BY <2>1
<1> QED BY <1>4

\* A set that contains 0 and the successors of its members contains them all.
LEMMA NatSetInduction ==
  ASSUME NEW T, 0 \in T, \A k \in Nat : k \in T => k + 1 \in T
  PROVE  Nat \subseteq T
<1> SUFFICES ASSUME Nat \ T # {} PROVE FALSE
  OBVIOUS
<1>1. PICK m \in Nat \ T : \A y \in Nat \ T : m <= y
  BY LeastNatural
<1>2. m # 0 /\ m - 1 \in Nat /\ m - 1 \in T
  BY <1>1
<1> QED BY <1>1, <1>2

\* Twice as many subsets with one more element.
LEMMA SubsetsDouble ==
  ASSUME NEW S, NEW x, x \notin S, IsFiniteSet(S)
  PROVE  Cardinality(SUBSET (S \cup {x})) = Cardinality(SUBSET S) * 2
<1> DEFINE A == (SUBSET S) \X (0 .. 1)
           B == SUBSET (S \cup {x})
           f == [e \in A |-> IF e[2] = 0 THEN e[1] ELSE e[1] \cup {x}]
<1>1. IsFiniteSet(SUBSET S) /\ IsFiniteSet(0 .. 1) /\ Cardinality(0 .. 1) = 2
  <2>1. IsFiniteSet(SUBSET S)
    BY FS_SUBSET
  <2>2. 0 \in Int /\ 1 \in Int
    OBVIOUS
  <2>3. IsFiniteSet(0 .. 1) /\ Cardinality(0 .. 1) = IF 0 > 1 THEN 0 ELSE 1 - 0 + 1
    BY <2>2, FS_Interval
  <2> QED BY <2>1, <2>3
<1>2. IsFiniteSet(A) /\ Cardinality(A) = Cardinality(SUBSET S) * 2
  BY <1>1, FS_Product
<1>3. f \in [A -> B]
  OBVIOUS
<1>4. ASSUME NEW a \in A, NEW b \in A, f[a] = f[b] PROVE a = b
  <2>1. PICK s \in SUBSET S, i \in {0, 1} : a = <<s, i>>
    OBVIOUS
  <2>2. PICK t \in SUBSET S, j \in {0, 1} : b = <<t, j>>
    OBVIOUS
  <2>3. (IF i = 0 THEN s ELSE s \cup {x}) = (IF j = 0 THEN t ELSE t \cup {x})
    BY <1>4, <2>1, <2>2
  <2>4. i = j
    BY <2>3
  <2>5. s = t
    BY <2>3, <2>4
  <2> QED BY <2>1, <2>2, <2>4, <2>5
<1>5. ASSUME NEW b \in B PROVE \E a \in A : f[a] = b
  <2>1. CASE x \in b
    <3>1. <<b \ {x}, 1>> \in A /\ f[<<b \ {x}, 1>>] = (b \ {x}) \cup {x}
      OBVIOUS
    <3>2. (b \ {x}) \cup {x} = b
      BY <2>1
    <3> QED BY <3>1, <3>2
  <2>2. CASE x \notin b
    <3>1. <<b, 0>> \in A /\ f[<<b, 0>>] = b
      BY <2>2
    <3> QED BY <3>1
  <2> QED BY <2>1, <2>2
<1> HIDE DEF f, A, B
<1>6. f \in Bijection(A, B)
  BY <1>3, <1>4, <1>5, Fun_IsBij
<1>7. Cardinality(B) = Cardinality(A)
  BY <1>2, <1>6, FS_Bijection DEF ExistsBijection
<1> QED BY <1>2, <1>7 DEF B

\* Powers of two, as numbers of subsets: the provers know nothing else of ^.
LEMMA PowersDouble ==
  ASSUME NEW k \in Nat
  PROVE  /\ 2 ^ 0 = 1 /\ 2 ^ k \in Nat /\ 2 ^ (k + 1) = 2 ^ k * 2
<1>1. /\ IsFiniteSet(1 .. k) /\ Cardinality(1 .. k) = k
      /\ IsFiniteSet(1 .. k + 1) /\ Cardinality(1 .. k + 1) = k + 1
  <2>1. 1 \in Int /\ k \in Int /\ k + 1 \in Int
    OBVIOUS
  <2>2. IsFiniteSet(1 .. k) /\ Cardinality(1 .. k) = IF 1 > k THEN 0 ELSE k - 1 + 1
    BY <2>1, FS_Interval
  <2>3. IsFiniteSet(1 .. k + 1) /\ Cardinality(1 .. k + 1) = IF 1 > k + 1 THEN 0 ELSE k + 1 - 1 + 1
    BY <2>1, FS_Interval
  <2> QED BY <2>2, <2>3
<1>2. 1 .. k + 1 = (1 .. k) \cup {k + 1} /\ k + 1 \notin 1 .. k
  OBVIOUS
<1>3. Cardinality(SUBSET (1 .. k)) = 2 ^ k /\ IsFiniteSet(SUBSET (1 .. k))
  BY <1>1, FS_SUBSET
<1>4. Cardinality(SUBSET (1 .. k + 1)) = 2 ^ (k + 1)
  BY <1>1, FS_SUBSET
<1>5. Cardinality(SUBSET (1 .. k + 1)) = Cardinality(SUBSET (1 .. k)) * 2
  BY <1>1, <1>2, SubsetsDouble
<1>6. 2 ^ 0 = 1
  OBVIOUS
<1>7. 2 ^ k \in Nat
  BY <1>3, FS_CardinalityType
<1> QED BY <1>3, <1>4, <1>5, <1>6, <1>7

\* The powers of two double, are positive and grow.
LEMMA Powers ==
  /\ 2 ^ 0 = 1
  /\ \A k \in Nat : 2 ^ k \in Nat /\ 2 ^ k > 0 /\ 2 ^ (k + 1) = 2 * 2 ^ k
  /\ \A j, k \in Nat : 2 ^ (j + k) = 2 ^ j * 2 ^ k
  /\ \A j, k \in Nat : j < k => 2 * 2 ^ j <= 2 ^ k
<1>1. 2 ^ 0 = 1
  OBVIOUS
<1>2. \A k \in Nat : 2 ^ k \in Nat /\ 2 ^ (k + 1) = 2 * 2 ^ k
  BY PowersDouble
<1>3. \A k \in Nat : 2 ^ k > 0
  <2> DEFINE T == {k \in Nat : 2 ^ k > 0}
  <2>1. 0 \in T
    BY <1>1
  <2>2. ASSUME NEW k \in Nat, k \in T PROVE k + 1 \in T
    BY <1>2, <2>2
  <2> HIDE DEF T
  <2>3. Nat \subseteq T
    BY <2>1, <2>2, NatSetInduction
  <2> QED BY <2>3 DEF T
<1>4. ASSUME NEW j \in Nat PROVE \A k \in Nat : 2 ^ (j + k) = 2 ^ j * 2 ^ k
  <2> DEFINE T == {k \in Nat : 2 ^ (j + k) = 2 ^ j * 2 ^ k}
  <2>1. 0 \in T
    <3>1. j + 0 = j /\ 2 ^ j \in Nat
      BY <1>2
    <3> QED BY <1>1, <3>1
  <2>2. ASSUME NEW k \in Nat, k \in T PROVE k + 1 \in T
    <3>1. j + (k + 1) = (j + k) + 1 /\ j + k \in Nat
      OBVIOUS
    <3>2. 2 ^ (j + (k + 1)) = 2 * (2 ^ j * 2 ^ k)
      BY <1>2, <2>2, <3>1
    <3>3. 2 ^ j \in Nat /\ 2 ^ k \in Nat /\ 2 ^ (k + 1) = 2 * 2 ^ k
      BY <1>2
    <3>4. \A a, b \in Nat : 2 * (a * b) = a * (2 * b)
      OBVIOUS
    <3> QED BY <3>2, <3>3, <3>4
  <2> HIDE DEF T
  <2>3. Nat \subseteq T
    BY <2>1, <2>2, NatSetInduction
  <2> QED BY <2>3 DEF T
<1>5. ASSUME NEW j \in Nat PROVE \A k \in Nat : 2 * 2 ^ j <= 2 ^ (j + 1 + k)
  <2> DEFINE T == {k \in Nat : 2 * 2 ^ j <= 2 ^ (j + 1 + k)}
  <2>1. 0 \in T
    <3>1. j + 1 + 0 = j + 1 /\ 2 ^ j \in Nat /\ 2 ^ (j + 1) = 2 * 2 ^ j
      BY <1>2
    <3> QED BY <3>1
  <2>2. ASSUME NEW k \in Nat, k \in T PROVE k + 1 \in T
    <3>1. j + 1 + (k + 1) = (j + 1 + k) + 1 /\ j + 1 + k \in Nat
      OBVIOUS
    <3>2. 2 ^ (j + 1 + (k + 1)) = 2 * 2 ^ (j + 1 + k) /\ 2 ^ (j + 1 + k) \in Nat /\ 2 ^ j \in Nat
      BY <1>2, <3>1
    <3> QED BY <2>2, <3>2
  <2> HIDE DEF T
  <2>3. Nat \subseteq T
    BY <2>1, <2>2, NatSetInduction
  <2> QED BY <2>3 DEF T
<1>6. ASSUME NEW j \in Nat, NEW k \in Nat, j < k PROVE 2 * 2 ^ j <= 2 ^ k
  <2>1. k - j - 1 \in Nat /\ j + 1 + (k - j - 1) = k
    BY <1>6
  <2> QED BY <1>5, <2>1
<1> QED BY <1>1, <1>2, <1>3, <1>4, <1>6

LEMMA NextPowers ==
  ASSUME NEW k \in Nat
  PROVE  2 ^ k \in Nat /\ 2 ^ (k + 1) = 2 * 2 ^ k /\ 2 ^ ((k + 1) + 1) = 2 * 2 ^ (k + 1)
<1>1. k + 1 \in Nat
  OBVIOUS
<1> QED BY <1>1, Powers

-----------------------------------------------------------------------------
(***************************************************************************)
(* The logarithm.                                                          *)
(***************************************************************************)
LEMMA FloorLog ==
  ASSUME NEW x \in Nat, x > 0
  PROVE  \E k \in Nat : 2 ^ k <= x /\ x < 2 ^ (k + 1)
<1> DEFINE S == {k \in Nat : x < 2 ^ (k + 1)}
           T == {k \in Nat : k < 2 ^ (k + 1)}
<1>1. 0 \in T
  <2>1. 0 + 1 = 1 /\ 2 ^ (0 + 1) = 2
    BY Powers
  <2> QED BY <2>1
<1>2. ASSUME NEW k \in Nat, k \in T PROVE k + 1 \in T
  <2>1. 2 ^ ((k + 1) + 1) = 2 * 2 ^ (k + 1) /\ 2 ^ (k + 1) \in Nat
    BY Powers
  <2> QED BY <1>2, <2>1
<1> HIDE DEF T
<1>3. x \in S
  <2>1. Nat \subseteq T
    BY <1>1, <1>2, NatSetInduction
  <2> QED BY <2>1 DEF T
<1>4. PICK k \in S : \A j \in S : k <= j
  BY <1>3, LeastNatural
<1>5. CASE k = 0
  BY <1>4, <1>5, Powers
<1>6. CASE k > 0
  <2>1. k - 1 \in Nat /\ k - 1 \notin S /\ (k - 1) + 1 = k
    BY <1>4, <1>6
  <2>2. 2 ^ k \in Nat /\ ~ (x < 2 ^ k)
    BY <2>1, Powers
  <2> QED BY <1>4, <2>2
<1> QED BY <1>4, <1>5, <1>6

LEMMA Log2Unfolds ==
  \A x \in Nat : Log2[x] = IF x <= 1 THEN 0 ELSE 1 + Log2[x \div 2]
<1> DEFINE Fits(x, k) == 2 ^ k <= x /\ x < 2 ^ (k + 1)
           f == [x \in Nat |-> IF x = 0 THEN 0 ELSE CHOOSE k \in Nat : Fits(x, k)]
<1>1. ASSUME NEW x \in Nat, x > 0, NEW j \in Nat, NEW k \in Nat, Fits(x, j), Fits(x, k) PROVE j = k
  <2>1. ASSUME NEW a \in Nat, NEW b \in Nat, Fits(x, a), Fits(x, b) PROVE ~ (a < b)
    <3>1. a < b => 2 * 2 ^ a <= 2 ^ b
      BY Powers
    <3>2. 2 ^ (a + 1) = 2 * 2 ^ a /\ 2 ^ a \in Nat /\ 2 ^ b \in Nat
      BY Powers
    <3> QED BY <2>1, <3>1, <3>2
  <2> QED BY <1>1, <2>1
<1>2. ASSUME NEW x \in Nat, x > 0 PROVE f[x] \in Nat /\ Fits(x, f[x])
  <2>1. f[x] = CHOOSE k \in Nat : Fits(x, k)
    BY <1>2
  <2>2. \E k \in Nat : Fits(x, k)
    BY <1>2, FloorLog
  <2> HIDE DEF f, Fits
  <2> QED BY <2>1, <2>2
<1>3. ASSUME NEW x \in Nat PROVE f[x] = IF x <= 1 THEN 0 ELSE 1 + f[x \div 2]
  <2>1. CASE x = 0
    BY <2>1
  <2>2. CASE x = 1
    <3>1. Fits(1, 0)
      BY Powers
    <3> HIDE DEF Fits, f
    <3>2. f[1] = 0
      BY <1>1, <1>2, <3>1
    <3> QED BY <2>2, <3>2
  <2>3. CASE x > 1
    <3> DEFINE y == x \div 2
    <3>1. y \in Nat /\ y > 0 /\ 2 * y <= x /\ x <= 2 * y + 1
      BY <2>3
    <3> HIDE DEF y, f
    <3>2. f[y] \in Nat /\ Fits(y, f[y]) /\ f[x] \in Nat /\ Fits(x, f[x])
      BY <1>2, <2>3, <3>1
    <3>3. /\ 2 ^ (f[y] + 1) = 2 * 2 ^ f[y] /\ 2 ^ f[y] \in Nat
          /\ 2 ^ ((f[y] + 1) + 1) = 2 * 2 ^ (f[y] + 1)
      BY <3>2, NextPowers
    <3>4. Fits(x, f[y] + 1) /\ f[y] + 1 \in Nat
      BY <3>1, <3>2, <3>3
    <3> HIDE DEF Fits
    <3>5. f[x] = f[y] + 1
      BY <1>1, <2>3, <3>2, <3>4
    <3> QED BY <2>3, <3>2, <3>5 DEF y
  <2> QED BY <2>1, <2>2, <2>3
<1> HIDE DEF f
<1>4. f = [x \in Nat |-> IF x <= 1 THEN 0 ELSE 1 + f[x \div 2]]
  <2>1. f = [x \in Nat |-> f[x]]
    BY DEF f
  <2> QED BY <1>3, <2>1
<1>5. Log2 = CHOOSE g : g = [x \in Nat |-> IF x <= 1 THEN 0 ELSE 1 + g[x \div 2]]
  BY DEF Log2
<1>6. Log2 = [x \in Nat |-> IF x <= 1 THEN 0 ELSE 1 + Log2[x \div 2]]
  BY <1>4, <1>5
<1> HIDE <1>5
<1> QED BY <1>6

LEMMA Log2Facts ==
  ASSUME NEW x \in Nat, x > 0
  PROVE  /\ Log2[x] \in Nat
         /\ \A k \in Nat : (2 ^ k <= x /\ x < 2 ^ (k + 1)) <=> k = Log2[x]
<1> DEFINE Fits(y, k) == k \in Nat /\ 2 ^ k <= y /\ y < 2 ^ (k + 1)
           T == {b \in Nat : \A y \in 1 .. b : Fits(y, Log2[y])}
<1>1. 0 \in T
  OBVIOUS
<1>2. ASSUME NEW b \in Nat, b \in T PROVE b + 1 \in T
  <2> SUFFICES Fits(b + 1, Log2[b + 1])
    BY <1>2
  <2>1. CASE b = 0
    <3>1. b + 1 = 1 /\ Log2[1] = 0
      BY <2>1, Log2Unfolds
    <3>2. Fits(1, 0)
      BY Powers
    <3> QED BY <3>1, <3>2
  <2>2. CASE b > 0
    <3> DEFINE y == (b + 1) \div 2
    <3>1. y \in 1 .. b /\ 2 * y <= b + 1 /\ b + 1 <= 2 * y + 1
      BY <2>2
    <3>2. Log2[b + 1] = 1 + Log2[y]
      BY <2>2, Log2Unfolds
    <3> HIDE DEF y
    <3>3. Fits(y, Log2[y])
      BY <1>2, <3>1
    <3>4. /\ 2 ^ (Log2[y] + 1) = 2 * 2 ^ Log2[y] /\ 2 ^ Log2[y] \in Nat
          /\ 2 ^ ((Log2[y] + 1) + 1) = 2 * 2 ^ (Log2[y] + 1)
      BY <3>3, NextPowers
    <3>5. Log2[b + 1] = Log2[y] + 1
      BY <3>2, <3>3
    <3> QED BY <3>1, <3>3, <3>4, <3>5
  <2> QED BY <2>1, <2>2
<1> HIDE DEF T
<1>3. x \in T
  BY <1>1, <1>2, NatSetInduction
<1>4. Fits(x, Log2[x])
  BY <1>3 DEF T
<1>5. ASSUME NEW a \in Nat, NEW b \in Nat, Fits(x, a), Fits(x, b) PROVE ~ (a < b)
  <2>1. a < b => 2 * 2 ^ a <= 2 ^ b
    BY Powers
  <2>2. 2 ^ (a + 1) = 2 * 2 ^ a /\ 2 ^ a \in Nat /\ 2 ^ b \in Nat
    BY Powers
  <2> QED BY <1>5, <2>1, <2>2
<1> QED BY <1>4, <1>5

-----------------------------------------------------------------------------
(***************************************************************************)
(* The shape of the tree.  The nodes in the subtree of p are, level by     *)
(* level, intervals of positions.                                          *)
(***************************************************************************)
Under(p, q) == \E k \in Nat : 2 ^ k * (p + 1) <= q + 1 /\ q + 1 < 2 ^ k * (p + 2)

LEMMA UnderFacts ==
  ASSUME NEW p \in Nat, NEW q \in Nat
  PROVE  /\ Under(p, q) <=> q = p \/ Under(LeftChild(p), q) \/ Under(RightChild(p), q)
         /\ Under(p, q) => p <= q
         /\ Under(0, q)
<1>1. ASSUME Under(p, q) PROVE p <= q
  <2>1. PICK k \in Nat : 2 ^ k * (p + 1) <= q + 1
    BY <1>1 DEF Under
  <2>2. 2 ^ k \in Nat /\ 2 ^ k >= 1
    BY Powers
  <2>3. \A x \in Nat : x >= 1 => x * (p + 1) >= p + 1
    OBVIOUS
  <2> QED BY <2>1, <2>2, <2>3
<1>2. Under(0, q)
  <2>0. q + 1 \in Nat /\ q + 1 > 0
    OBVIOUS
  <2>1. PICK k \in Nat : 2 ^ k <= q + 1 /\ q + 1 < 2 ^ (k + 1)
    BY <2>0, FloorLog
  <2>2. 2 ^ k \in Nat /\ 2 ^ (k + 1) = 2 * 2 ^ k
    BY Powers
  <2>3. 2 ^ k * (0 + 1) <= q + 1 /\ q + 1 < 2 ^ k * (0 + 2)
    BY <2>1, <2>2
  <2> QED BY <2>3 DEF Under
<1>3. ASSUME Under(p, q), q # p PROVE Under(LeftChild(p), q) \/ Under(RightChild(p), q)
  <2>1. PICK k \in Nat : 2 ^ k * (p + 1) <= q + 1 /\ q + 1 < 2 ^ k * (p + 2)
    BY <1>3 DEF Under
  <2>2. k # 0
    <3> SUFFICES ASSUME k = 0 PROVE FALSE
      OBVIOUS
    <3>1. 1 * (p + 1) <= q + 1 /\ q + 1 < 1 * (p + 2)
      BY <2>1, Powers
    <3> QED BY <1>3, <3>1
  <2>3. k - 1 \in Nat /\ (k - 1) + 1 = k
    BY <2>2
  <2>4. 2 ^ k = 2 * 2 ^ (k - 1) /\ 2 ^ (k - 1) \in Nat
    BY <2>3, Powers
  <2> DEFINE x == 2 ^ (k - 1)
  <2>5. /\ x * (2 * p + 2) <= q + 1 /\ q + 1 < x * (2 * p + 4)
        /\ 2 * p + 1 + 1 = 2 * p + 2 /\ 2 * p + 1 + 2 = 2 * p + 3
        /\ 2 * p + 2 + 1 = 2 * p + 3 /\ 2 * p + 2 + 2 = 2 * p + 4
    <3>1. \A y \in Nat : 2 * y * (p + 1) = y * (2 * p + 2) /\ 2 * y * (p + 2) = y * (2 * p + 4)
      OBVIOUS
    <3> QED BY <2>1, <2>4, <3>1
  <2>6. x \in Nat
    BY <2>4
  <2>7. CASE q + 1 < x * (2 * p + 3)
    BY <2>3, <2>5, <2>7 DEF Under, LeftChild
  <2>8. CASE ~ (q + 1 < x * (2 * p + 3))
    <3>1. x * (2 * p + 3) \in Nat
      BY <2>6
    <3>2. x * (2 * p + 3) <= q + 1
      BY <2>8, <3>1
    <3> QED BY <2>3, <2>5, <3>2 DEF Under, RightChild
  <2> QED BY <2>7, <2>8
<1>4. ASSUME Under(LeftChild(p), q) \/ Under(RightChild(p), q) PROVE Under(p, q)
  <2>1. PICK k \in Nat : \/ 2 ^ k * (2 * p + 1 + 1) <= q + 1 /\ q + 1 < 2 ^ k * (2 * p + 1 + 2)
                         \/ 2 ^ k * (2 * p + 2 + 1) <= q + 1 /\ q + 1 < 2 ^ k * (2 * p + 2 + 2)
    BY <1>4 DEF Under, LeftChild, RightChild
  <2>2. k + 1 \in Nat /\ 2 ^ (k + 1) = 2 * 2 ^ k /\ 2 ^ k \in Nat
    BY Powers
  <2>3. \A x \in Nat : /\ 2 * x * (p + 1) = x * (2 * p + 1 + 1) /\ 2 * x * (p + 2) = x * (2 * p + 2 + 2)
                       /\ x * (2 * p + 1 + 1) <= x * (2 * p + 2 + 1) /\ x * (2 * p + 1 + 2) <= x * (2 * p + 2 + 2)
    OBVIOUS
  <2>4. 2 ^ (k + 1) * (p + 1) <= q + 1 /\ q + 1 < 2 ^ (k + 1) * (p + 2)
    <3> DEFINE x == 2 ^ k
    <3>1. /\ 2 * x * (p + 1) = x * (2 * p + 1 + 1) /\ 2 * x * (p + 2) = x * (2 * p + 2 + 2)
          /\ x * (2 * p + 1 + 1) <= x * (2 * p + 2 + 1) /\ x * (2 * p + 1 + 2) <= x * (2 * p + 2 + 2)
      BY <2>2, <2>3
    <3>2. /\ x * (2 * p + 1 + 1) \in Nat /\ x * (2 * p + 1 + 2) \in Nat
          /\ x * (2 * p + 2 + 1) \in Nat /\ x * (2 * p + 2 + 2) \in Nat
      BY <2>2
    <3>3. 2 ^ (k + 1) * (p + 1) = 2 * x * (p + 1) /\ 2 ^ (k + 1) * (p + 2) = 2 * x * (p + 2)
      BY <2>2
    <3> QED BY <2>1, <3>1, <3>2, <3>3
  <2> QED BY <2>2, <2>4 DEF Under
<1>5. ASSUME q = p PROVE Under(p, q)
  <2>1. 2 ^ 0 * (p + 1) <= q + 1 /\ q + 1 < 2 ^ 0 * (p + 2)
    BY <1>5, Powers
  <2> QED BY <2>1 DEF Under
<1> QED BY <1>1, <1>2, <1>3, <1>4, <1>5

-----------------------------------------------------------------------------
(***************************************************************************)
(* Ranks.  Full is the place of a node from the left in the tree whose     *)
(* last level, h, is full; Rank takes the missing nodes away.              *)
(***************************************************************************)
Full(p, h) == (2 * (p + 1 - 2 ^ Log2[p + 1]) + 1) * 2 ^ (h - Log2[p + 1])

LEMMA LevelsBelow ==
  ASSUME NEW p \in Nat, NEW q \in Nat, NEW j \in Nat, NEW k \in Nat, j = Log2[p + 1],
         \/ 2 ^ k * (2 * p + 2) <= q + 1 /\ q + 1 < 2 ^ k * (2 * p + 3)
         \/ 2 ^ k * (2 * p + 3) <= q + 1 /\ q + 1 < 2 ^ k * (2 * p + 4)
  PROVE  Log2[q + 1] = j + 1 + k /\ 2 ^ (j + 1 + k) = 2 * (2 ^ j * 2 ^ k)
<1> DEFINE a == 2 ^ j
           x == 2 ^ k
<1>1. a \in Nat /\ x \in Nat /\ x > 0 /\ a <= p + 1 /\ p + 1 < 2 * a
  <2>1. p + 1 \in Nat /\ p + 1 > 0
    OBVIOUS
  <2>2. 2 ^ j <= p + 1 /\ p + 1 < 2 ^ (j + 1)
    BY <2>1, Log2Facts
  <2> QED BY <2>2, Powers
<1>2. 2 ^ (j + 1 + k) = 2 * (a * x) /\ 2 ^ (j + 1 + k + 1) = 4 * (a * x)
  <2>1. 2 ^ (j + 1 + k) = 2 ^ (j + 1) * x /\ 2 ^ (j + 1) = 2 * a
    <3>1. j + 1 \in Nat
      OBVIOUS
    <3> QED BY <3>1, Powers
  <2>2. 2 ^ (j + 1 + k + 1) = 2 * 2 ^ (j + 1 + k)
    <3>1. j + 1 + k \in Nat
      OBVIOUS
    <3> QED BY <3>1, Powers
  <2>3. (2 * a) * x = 2 * (a * x) /\ 2 * ((2 * a) * x) = 4 * (a * x)
    BY <1>1
  <2> QED BY <2>1, <2>2, <2>3
<1> HIDE DEF a, x
<1>3. x * (2 * p + 2) <= q + 1 /\ q + 1 < x * (2 * p + 4)
  <2>1. x * (2 * p + 2) <= x * (2 * p + 3) /\ x * (2 * p + 3) <= x * (2 * p + 4)
    BY <1>1
  <2>2. x * (2 * p + 2) \in Nat /\ x * (2 * p + 3) \in Nat /\ x * (2 * p + 4) \in Nat
    BY <1>1
  <2> QED BY <2>1, <2>2 DEF x
<1>4. 2 * (a * x) <= x * (2 * p + 2) /\ x * (2 * p + 4) <= 4 * (a * x)
  <2>1. \A b, c \in Nat : b <= c => x * b <= x * c
    BY <1>1
  <2>2. x * (2 * a) <= x * (2 * p + 2) /\ x * (2 * p + 4) <= x * (4 * a)
    <3>1. 2 * a <= 2 * p + 2 /\ 2 * p + 4 <= 4 * a /\ 2 * a \in Nat /\ 4 * a \in Nat
      BY <1>1
    <3> QED BY <2>1, <3>1
  <2>3. x * (2 * a) = 2 * (a * x) /\ x * (4 * a) = 4 * (a * x)
    BY <1>1
  <2> QED BY <2>2, <2>3
<1>5. 2 ^ (j + 1 + k) <= q + 1 /\ q + 1 < 2 ^ (j + 1 + k + 1)
  <2>1. a * x \in Nat /\ x * (2 * p + 2) \in Nat /\ x * (2 * p + 4) \in Nat
    BY <1>1
  <2> HIDE <1>1
  <2> QED BY <1>2, <1>3, <1>4, <2>1
<1>6. j + 1 + k \in Nat /\ q + 1 \in Nat /\ q + 1 > 0
  OBVIOUS
<1> QED BY <1>2, <1>5, <1>6, Log2Facts DEF a, x

\* What lies under the left child comes before a node, what lies under the
\* right child after it.
LEMMA FullOrder ==
  ASSUME NEW p \in Nat, NEW q \in Nat, NEW h \in Nat, Log2[q + 1] <= h
  PROVE  /\ Under(LeftChild(p), q) => Full(q, h) < Full(p, h)
         /\ Under(RightChild(p), q) => Full(p, h) < Full(q, h)
<1> DEFINE j == Log2[p + 1]
           a == 2 ^ j
<1>1. j \in Nat /\ a \in Nat
  <2>1. p + 1 \in Nat /\ p + 1 > 0
    OBVIOUS
  <2> QED BY <2>1, Log2Facts, Powers
<1>2. ASSUME NEW k \in Nat,
             \/ 2 ^ k * (2 * p + 2) <= q + 1 /\ q + 1 < 2 ^ k * (2 * p + 3)
             \/ 2 ^ k * (2 * p + 3) <= q + 1 /\ q + 1 < 2 ^ k * (2 * p + 4)
      PROVE  \E y \in Nat : /\ y > 0
                            /\ Full(p, h) = (2 * 2 ^ k * (2 * (p + 1 - a) + 1)) * y
                            /\ Full(q, h) = (2 * (q + 1) - 4 * (a * 2 ^ k) + 1) * y
  <2> DEFINE x == 2 ^ k
             r == h - (j + 1 + k)
             y == 2 ^ r
  <2>1. Log2[q + 1] = j + 1 + k /\ 2 ^ (j + 1 + k) = 2 * (a * x)
    BY <1>1, <1>2, LevelsBelow
  <2>2. r \in Nat /\ x \in Nat
    <3>1. x \in Nat
      BY Powers
    <3> HIDE DEF j, a, x
    <3>2. r \in Nat
      BY <1>1, <2>1
    <3> QED BY <3>1, <3>2
  <2>3. y \in Nat /\ y > 0
    BY <2>2, Powers
  <2>4. 2 ^ (h - j) = (2 * x) * y
    <3>1. h - j = (k + 1) + r /\ k + 1 \in Nat
      BY <1>1
    <3>2. 2 ^ ((k + 1) + r) = 2 ^ (k + 1) * y /\ 2 ^ (k + 1) = 2 * x
      BY <2>2, <3>1, Powers
    <3> QED BY <3>1, <3>2
  <2> HIDE DEF x, r, y
  <2>5. Full(p, h) = (2 * (p + 1 - a) + 1) * ((2 * x) * y)
    BY <2>4 DEF Full
  <2>6. Full(q, h) = (2 * (q + 1 - 2 * (a * x)) + 1) * y
    BY <2>1 DEF Full, r, y
  <2>7. (2 * (p + 1 - a) + 1) * ((2 * x) * y) = (2 * x * (2 * (p + 1 - a) + 1)) * y
    <3> HIDE DEF a
    <3> QED BY <1>1, <2>2, <2>3
  <2>8. 2 * (q + 1 - 2 * (a * x)) + 1 = 2 * (q + 1) - 4 * (a * x) + 1
    <3> HIDE DEF a
    <3> QED BY <1>1, <2>2
  <2>9. /\ Full(p, h) = (2 * x * (2 * (p + 1 - a) + 1)) * y
        /\ Full(q, h) = (2 * (q + 1) - 4 * (a * x) + 1) * y
    BY <2>5, <2>6, <2>7, <2>8
  <2> QED BY <2>3, <2>9 DEF x
<1> HIDE DEF a, j
<1>3. \A b, c \in Int : \A y \in Nat : b < c /\ y > 0 => b * y < c * y
  OBVIOUS
<1>4. ASSUME Under(LeftChild(p), q) PROVE Full(q, h) < Full(p, h)
  <2>1. PICK k \in Nat : 2 ^ k * (2 * p + 1 + 1) <= q + 1 /\ q + 1 < 2 ^ k * (2 * p + 1 + 2)
    BY <1>4 DEF Under, LeftChild
  <2>2. 2 * p + 1 + 1 = 2 * p + 2 /\ 2 * p + 1 + 2 = 2 * p + 3
    OBVIOUS
  <2>3. 2 ^ k * (2 * p + 2) <= q + 1 /\ q + 1 < 2 ^ k * (2 * p + 3)
    BY <2>1, <2>2
  <2> DEFINE x == 2 ^ k
  <2>4. PICK y \in Nat : y > 0 /\ Full(p, h) = (2 * x * (2 * (p + 1 - a) + 1)) * y
                               /\ Full(q, h) = (2 * (q + 1) - 4 * (a * x) + 1) * y
    BY <1>2, <2>3
  <2>5. x \in Nat
    BY Powers
  <2>6. q + 1 < x * (2 * p + 3)
    BY <2>3
  <2> HIDE DEF x
  <2>7. 2 * (q + 1) - 4 * (a * x) + 1 < 2 * x * (2 * (p + 1 - a) + 1)
    <3>1. 2 * x * (2 * (p + 1 - a) + 1) = 2 * (x * (2 * p + 3)) - 4 * (a * x)
      BY <1>1, <2>5
    <3>2. x * (2 * p + 3) \in Nat /\ a * x \in Nat
      BY <1>1, <2>5
    <3> QED BY <2>6, <3>1, <3>2
  <2>8. 2 * (q + 1) - 4 * (a * x) + 1 \in Int /\ 2 * x * (2 * (p + 1 - a) + 1) \in Int
    BY <1>1, <2>5
  <2> QED BY <1>3, <2>4, <2>7, <2>8
<1>5. ASSUME Under(RightChild(p), q) PROVE Full(p, h) < Full(q, h)
  <2>1. PICK k \in Nat : 2 ^ k * (2 * p + 2 + 1) <= q + 1 /\ q + 1 < 2 ^ k * (2 * p + 2 + 2)
    BY <1>5 DEF Under, RightChild
  <2>2. 2 * p + 2 + 1 = 2 * p + 3 /\ 2 * p + 2 + 2 = 2 * p + 4
    OBVIOUS
  <2>3. 2 ^ k * (2 * p + 3) <= q + 1 /\ q + 1 < 2 ^ k * (2 * p + 4)
    BY <2>1, <2>2
  <2> DEFINE x == 2 ^ k
  <2>4. PICK y \in Nat : y > 0 /\ Full(p, h) = (2 * x * (2 * (p + 1 - a) + 1)) * y
                               /\ Full(q, h) = (2 * (q + 1) - 4 * (a * x) + 1) * y
    BY <1>2, <2>3
  <2>5. x \in Nat
    BY Powers
  <2>6. x * (2 * p + 3) <= q + 1
    BY <2>3
  <2> HIDE DEF x
  <2>7. 2 * x * (2 * (p + 1 - a) + 1) < 2 * (q + 1) - 4 * (a * x) + 1
    <3>1. 2 * x * (2 * (p + 1 - a) + 1) = 2 * (x * (2 * p + 3)) - 4 * (a * x)
      BY <1>1, <2>5
    <3>2. x * (2 * p + 3) \in Nat /\ a * x \in Nat
      BY <1>1, <2>5
    <3> QED BY <2>6, <3>1, <3>2
  <2>8. 2 * (q + 1) - 4 * (a * x) + 1 \in Int /\ 2 * x * (2 * (p + 1 - a) + 1) \in Int
    BY <1>1, <2>5
  <2> QED BY <1>3, <2>4, <2>7, <2>8
<1> QED BY <1>4, <1>5

\* The last level of a tree with size nodes has its first
\* size + 1 - 2 ^ Log2[size] places taken; these are the odd ones from the left.
LEMMA FullFacts ==
  ASSUME NEW size \in Nat, size > 0, NEW h \in Nat, h = Log2[size], NEW p \in Positions(size)
  PROVE  /\ Log2[p + 1] <= h /\ Full(p, h) \in Nat
         /\ Full(p, h) >= 1 /\ Full(p, h) <= 2 * 2 ^ h - 1
         /\ \/ \E d \in Nat : Full(p, h) = 2 * d
            \/ \E d \in Nat : Full(p, h) = 2 * d + 1 /\ Full(p, h) <= 2 * (size + 1 - 2 ^ h) - 1
<1> DEFINE j == Log2[p + 1]
           a == 2 ^ j
           c == p + 1 - a
           y == 2 ^ (h - j)
<1>1. p \in Nat /\ p + 1 \in Nat /\ p + 1 > 0 /\ p + 1 <= size
  BY DEF Positions
<1>2. j \in Nat /\ a \in Nat /\ a > 0 /\ a <= p + 1 /\ p + 1 < 2 * a
  <2>1. j \in Nat /\ 2 ^ j <= p + 1 /\ p + 1 < 2 ^ (j + 1)
    BY <1>1, Log2Facts
  <2> QED BY <2>1, Powers
<1>3. 2 ^ h \in Nat /\ size < 2 * 2 ^ h /\ 2 ^ h <= size
  <2>1. 2 ^ h <= size /\ size < 2 ^ (h + 1)
    BY Log2Facts
  <2> QED BY <2>1, Powers
<1>4. j <= h
  <2> SUFFICES ASSUME h < j PROVE FALSE
    BY <1>2
  <2>1. 2 * 2 ^ h <= a
    BY <1>2, Powers
  <2> QED BY <1>1, <1>2, <1>3, <2>1
<1>5. h - j \in Nat /\ y \in Nat /\ y > 0 /\ 2 ^ h = a * y
  <2>1. h - j \in Nat /\ h = j + (h - j)
    BY <1>2, <1>4
  <2> QED BY <1>2, <2>1, Powers
<1>6. c \in Nat /\ c <= a - 1
  BY <1>1, <1>2
<1>7. Full(p, h) = (2 * c + 1) * y
  BY DEF Full
<1>8. CASE j = h
  <2>1. y = 1
    <3>1. h - j = 0
      BY <1>2, <1>8
    <3> QED BY <3>1, Powers
  <2>2. Full(p, h) = 2 * c + 1 /\ a = 2 ^ h
    BY <1>6, <1>7, <1>8, <2>1
  <2> HIDE DEF a, y, j
  <2>3. c <= size - 2 ^ h
    BY <1>1, <1>3, <2>2
  <2> HIDE DEF c
  <2>4. /\ Full(p, h) >= 1 /\ Full(p, h) <= 2 * 2 ^ h - 1
        /\ Full(p, h) <= 2 * (size + 1 - 2 ^ h) - 1
    BY <1>3, <1>6, <2>2, <2>3
  <2> HIDE DEF Full
  <2> QED BY <1>4, <1>6, <2>2, <2>4 DEF j
<1>9. CASE j < h
  <2> DEFINE z == 2 ^ (h - j - 1)
  <2>1. z \in Nat /\ y = 2 * z
    <3>1. h - j - 1 \in Nat /\ (h - j - 1) + 1 = h - j
      BY <1>2, <1>9
    <3> QED BY <3>1, Powers
  <2> HIDE DEF a, y, j, z
  <2>2. (2 * c + 1) * y = 2 * ((2 * c + 1) * z) /\ (2 * c + 1) * z \in Nat
    <3> HIDE DEF c
    <3> QED BY <1>6, <2>1
  <2>3. (2 * c + 1) * y >= 1 /\ (2 * c + 1) * y <= 2 * 2 ^ h - 1
    <3> HIDE DEF c
    <3>1. (2 * c + 1) * y >= y
      BY <1>5, <1>6
    <3>2. (2 * c + 1) * y <= (2 * a - 1) * y
      <4>1. 2 * c + 1 <= 2 * a - 1 /\ 2 * c + 1 \in Int /\ 2 * a - 1 \in Int
        BY <1>2, <1>6
      <4>2. \A b, d \in Int : b <= d => b * y <= d * y
        BY <1>5
      <4> QED BY <4>1, <4>2
    <3>3. (2 * a - 1) * y = 2 * (a * y) - y
      BY <1>2, <1>5
    <3>4. (2 * c + 1) * y \in Int /\ a * y \in Int
      BY <1>2, <1>5, <1>6
    <3> QED BY <1>5, <3>1, <3>2, <3>3, <3>4
  <2> HIDE DEF c
  <2> QED BY <1>4, <1>7, <2>2, <2>3 DEF j
<1> QED BY <1>2, <1>4, <1>8, <1>9

\* The rank of a node from its place in the full tree.
LEMMA RankOfFull ==
  ASSUME NEW size \in Nat, size > 0, NEW p \in Positions(size)
  PROVE  \E f, m, d \in Nat :
           /\ f = Full(p, Log2[size]) /\ m = size + 1 - 2 ^ Log2[size]
           /\ m > 0 /\ m <= 2 ^ Log2[size] /\ f >= 1 /\ f <= 2 * 2 ^ Log2[size] - 1
           /\ f = 2 * d \/ (f = 2 * d + 1 /\ f <= 2 * m - 1)
           /\ Rank(p, size) = (IF f <= 2 * m THEN f ELSE d + m) - 1
<1> DEFINE h == Log2[size]
           b == 2 ^ h
           m == size + 1 - b
           f == Full(p, h)
<1>1. h \in Nat /\ b \in Nat /\ b <= size /\ size < 2 * b
  <2>1. h \in Nat /\ 2 ^ h <= size /\ size < 2 ^ (h + 1)
    BY Log2Facts
  <2> QED BY <2>1, Powers
<1>2. m \in Nat /\ m > 0 /\ m <= b
  <2> HIDE DEF b
  <2> QED BY <1>1
<1>3. /\ f \in Nat /\ f >= 1 /\ f <= 2 * b - 1
      /\ \/ \E d \in Nat : f = 2 * d
         \/ \E d \in Nat : f = 2 * d + 1 /\ f <= 2 * m - 1
  BY <1>1, FullFacts
<1>4. Rank(p, size) = (IF f <= f - (f \div 2) + m THEN f ELSE f - (f \div 2) + m) - 1
  BY DEF Rank, Full
<1> HIDE DEF f, m, b, h
<1>5. CASE \E d \in Nat : f = 2 * d
  <2>1. PICK d \in Nat : f = 2 * d
    BY <1>5
  <2>2. f \div 2 = d
    BY <2>1
  <2>3. Rank(p, size) = (IF f <= 2 * m THEN f ELSE d + m) - 1
    BY <1>2, <1>4, <2>1, <2>2
  <2> QED BY <1>2, <1>3, <2>1, <2>3 DEF f, m, b, h
<1>6. CASE \E d \in Nat : f = 2 * d + 1 /\ f <= 2 * m - 1
  <2>1. PICK d \in Nat : f = 2 * d + 1 /\ f <= 2 * m - 1
    BY <1>6
  <2>2. f \div 2 = d
    BY <2>1
  <2>3. Rank(p, size) = (IF f <= 2 * m THEN f ELSE d + m) - 1
    BY <1>2, <1>4, <2>1, <2>2
  <2> QED BY <1>2, <1>3, <2>1, <2>3 DEF f, m, b, h
<1> QED BY <1>3, <1>5, <1>6

\* Ranks lie in 0 .. size - 1 and lay the tree out as a search tree.
LEMMA RankFacts ==
  ASSUME NEW size \in Nat, size > 0, NEW p \in Positions(size)
  PROVE  /\ Rank(p, size) \in Positions(size)
         /\ \A q \in Positions(size) : /\ Under(LeftChild(p), q) => Rank(q, size) < Rank(p, size)
                                       /\ Under(RightChild(p), q) => Rank(p, size) < Rank(q, size)
<1> DEFINE h == Log2[size]
           b == 2 ^ h
<1>1. h \in Nat /\ b \in Nat /\ b <= size /\ size < 2 * b
  <2>1. h \in Nat /\ 2 ^ h <= size /\ size < 2 ^ (h + 1)
    BY Log2Facts
  <2> QED BY <2>1, Powers
<1>2. PICK f, m, d \in Nat :
        /\ f = Full(p, h) /\ m = size + 1 - b /\ m > 0 /\ m <= b /\ f >= 1 /\ f <= 2 * b - 1
        /\ f = 2 * d \/ (f = 2 * d + 1 /\ f <= 2 * m - 1)
        /\ Rank(p, size) = (IF f <= 2 * m THEN f ELSE d + m) - 1
  BY RankOfFull
<1> HIDE DEF b
<1>3. Rank(p, size) \in 0 .. size - 1
  BY <1>1, <1>2
<1>4. ASSUME NEW x \in Positions(size), NEW y \in Positions(size), Full(x, h) < Full(y, h)
      PROVE  Rank(x, size) < Rank(y, size)
  <2> HIDE DEF h
  <2>1. PICK f1, m1, d1 \in Nat :
          /\ f1 = Full(x, h) /\ m1 = size + 1 - b
          /\ m1 > 0 /\ m1 <= b /\ f1 >= 1 /\ f1 <= 2 * b - 1
          /\ f1 = 2 * d1 \/ (f1 = 2 * d1 + 1 /\ f1 <= 2 * m1 - 1)
          /\ Rank(x, size) = (IF f1 <= 2 * m1 THEN f1 ELSE d1 + m1) - 1
    BY RankOfFull DEF b, h
  <2>2. PICK f2, m2, d2 \in Nat :
          /\ f2 = Full(y, h) /\ m2 = size + 1 - b
          /\ m2 > 0 /\ m2 <= b /\ f2 >= 1 /\ f2 <= 2 * b - 1
          /\ f2 = 2 * d2 \/ (f2 = 2 * d2 + 1 /\ f2 <= 2 * m2 - 1)
          /\ Rank(y, size) = (IF f2 <= 2 * m2 THEN f2 ELSE d2 + m2) - 1
    BY RankOfFull DEF b, h
  <2>3. f1 < f2
    BY <1>4, <2>1, <2>2
  <2>4. m1 = m /\ m2 = m
    BY <1>2, <2>1, <2>2
  <2> QED BY <2>1, <2>2, <2>3, <2>4
<1> HIDE DEF h
<1>5. ASSUME NEW q \in Positions(size)
      PROVE  /\ Under(LeftChild(p), q) => Rank(q, size) < Rank(p, size)
             /\ Under(RightChild(p), q) => Rank(p, size) < Rank(q, size)
  <2>1. Log2[q + 1] <= h
    BY <1>1, FullFacts DEF h
  <2>2. p \in Nat /\ q \in Nat
    BY DEF Positions
  <2> QED BY <1>1, <1>4, <2>1, <2>2, FullOrder
<1> QED BY <1>3, <1>5 DEF Positions

\* No two nodes have the same rank.
LEMMA RanksDiffer ==
  ASSUME NEW size \in Nat, size > 0, NEW p \in Positions(size), NEW q \in Positions(size),
         Rank(p, size) = Rank(q, size)
  PROVE  p = q
<1> DEFINE T == {k \in Nat : \A x \in Nat : x + k >= size =>
                   \A a, b \in Positions(size) :
                     Under(x, a) /\ Under(x, b) /\ Rank(a, size) = Rank(b, size) => a = b}
<1>1. 0 \in T
  <2> SUFFICES ASSUME NEW x \in Nat, x + 0 >= size, NEW a \in Positions(size), Under(x, a) PROVE FALSE
    OBVIOUS
  <2>1. a \in Nat /\ a < size
    BY DEF Positions
  <2> QED BY <2>1, UnderFacts
<1>2. ASSUME NEW k \in Nat, k \in T PROVE k + 1 \in T
  <2> SUFFICES ASSUME NEW x \in Nat, x + (k + 1) >= size, NEW a \in Positions(size), NEW b \in Positions(size),
                      Under(x, a), Under(x, b), Rank(a, size) = Rank(b, size)
               PROVE  a = b
    OBVIOUS
  <2>1. a \in Nat /\ b \in Nat /\ a < size /\ b < size
    BY DEF Positions
  <2>2. x <= a /\ x \in Positions(size)
    BY <2>1, UnderFacts DEF Positions
  <2>3. /\ LeftChild(x) \in Nat /\ LeftChild(x) + k >= size
        /\ RightChild(x) \in Nat /\ RightChild(x) + k >= size
    BY DEF LeftChild, RightChild
  <2>4. \A c \in Positions(size) : Rank(c, size) \in Nat
    BY RankFacts DEF Positions
  <2>5. /\ \A c \in Positions(size) : Under(LeftChild(x), c) => Rank(c, size) < Rank(x, size)
        /\ \A c \in Positions(size) : Under(RightChild(x), c) => Rank(x, size) < Rank(c, size)
    BY <2>2, RankFacts
  <2>6. /\ a = x \/ Under(LeftChild(x), a) \/ Under(RightChild(x), a)
        /\ b = x \/ Under(LeftChild(x), b) \/ Under(RightChild(x), b)
    BY <2>1, UnderFacts
  <2>7. /\ Under(LeftChild(x), a) /\ Under(LeftChild(x), b) => a = b
        /\ Under(RightChild(x), a) /\ Under(RightChild(x), b) => a = b
    BY <1>2, <2>3
  <2> QED BY <2>2, <2>4, <2>5, <2>6, <2>7
<1> HIDE DEF T
<1>3. size \in T
  BY <1>1, <1>2, NatSetInduction
<1>4. Under(0, p) /\ Under(0, q)
  BY UnderFacts DEF Positions
<1> QED BY <1>3, <1>4 DEF T

-----------------------------------------------------------------------------
(***************************************************************************)
(* Walks: recursive functions that stop at S, where out is their value,    *)
(* and otherwise go on at next, which is nearer to the end by measure m.   *)
(***************************************************************************)
IsWalk(A, S, out, next, m) ==
  /\ DOMAIN out = A
  /\ \A x \in A : m[x] \in Nat
  /\ \A x \in A \ S : next[x] \in A /\ m[next[x]] < m[x]

LEMMA TailRecursion ==
  ASSUME NEW A, NEW S, NEW out, NEW next, NEW m, IsWalk(A, S, out, next, m)
  PROVE  \E f : \A x \in A : f[x] = (IF x \in S THEN out[x] ELSE f[next[x]])
<1> USE DEF IsWalk
<1> DEFINE OK(e, k) == \A x \in A : m[x] <= k => e[x] = (IF x \in S THEN out[x] ELSE e[next[x]])
           T == {k \in Nat : \E e : OK(e, k)}
<1>1. 0 \in T
  <2> DEFINE e == [x \in A |-> out[x]]
  <2>1. ASSUME NEW x \in A, m[x] <= 0 PROVE x \in S
    <3> SUFFICES ASSUME x \notin S PROVE FALSE
      OBVIOUS
    <3>1. next[x] \in A /\ m[next[x]] < m[x] /\ m[x] \in Nat
      OBVIOUS
    <3>2. m[next[x]] \in Nat
      BY <3>1
    <3> QED BY <2>1, <3>1, <3>2
  <2>2. OK(e, 0)
    BY <2>1
  <2> HIDE DEF e
  <2> QED BY <2>2
<1>2. ASSUME NEW k \in Nat, k \in T PROVE k + 1 \in T
  <2>1. PICK e : OK(e, k)
    BY <1>2
  <2> DEFINE g == [x \in A |-> IF m[x] <= k THEN e[x] ELSE IF x \in S THEN out[x] ELSE e[next[x]]]
  <2>2. ASSUME NEW x \in A, m[x] <= k + 1, x \notin S PROVE next[x] \in A /\ m[next[x]] <= k /\ g[next[x]] = e[next[x]]
    <3>1. next[x] \in A /\ m[next[x]] < m[x] /\ m[x] \in Nat
      BY <2>2
    <3>2. m[next[x]] \in Nat
      BY <3>1
    <3>3. m[next[x]] <= k
      BY <2>2, <3>1, <3>2
    <3> QED BY <3>1, <3>3
  <2>3. ASSUME NEW x \in A, m[x] <= k + 1 PROVE g[x] = (IF x \in S THEN out[x] ELSE g[next[x]])
    <3>1. CASE m[x] <= k
      <4>1. e[x] = (IF x \in S THEN out[x] ELSE e[next[x]]) /\ g[x] = e[x]
        BY <2>1, <3>1
      <4> QED BY <2>2, <2>3, <4>1
    <3>2. CASE ~ (m[x] <= k)
      <4>1. g[x] = (IF x \in S THEN out[x] ELSE e[next[x]])
        BY <3>2
      <4> QED BY <2>2, <2>3, <4>1
    <3> QED BY <3>1, <3>2
  <2> HIDE DEF g
  <2> QED BY <2>3
<1>3. ASSUME NEW k \in Nat PROVE \E e : OK(e, k)
  <2> HIDE DEF OK
  <2>1. Nat \subseteq T
    <3> HIDE DEF T
    <3> QED BY <1>1, <1>2, NatSetInduction
  <2> QED BY <2>1
<1>4. ASSUME NEW e, NEW g, NEW i \in Nat, NEW j \in Nat, OK(e, i), OK(g, j)
      PROVE  \A x \in A : m[x] <= i /\ m[x] <= j => e[x] = g[x]
  <2> DEFINE U == {k \in Nat : \A x \in A : m[x] <= k /\ m[x] <= i /\ m[x] <= j => e[x] = g[x]}
  <2>1. ASSUME NEW x \in A, m[x] <= i, m[x] <= j,
               \A y \in A : m[y] < m[x] => e[y] = g[y]
        PROVE  e[x] = g[x]
    <3>1. /\ e[x] = (IF x \in S THEN out[x] ELSE e[next[x]])
          /\ g[x] = (IF x \in S THEN out[x] ELSE g[next[x]])
      BY <1>4, <2>1
    <3>2. x \notin S => e[next[x]] = g[next[x]]
      BY <2>1
    <3> QED BY <3>1, <3>2
  <2> HIDE <1>4
  <2>2. 0 \in U
    <3> SUFFICES ASSUME NEW x \in A, m[x] <= 0, m[x] <= i, m[x] <= j PROVE e[x] = g[x]
      OBVIOUS
    <3>1. \A y \in A : ~ (m[y] < m[x])
      OBVIOUS
    <3> QED BY <2>1, <3>1
  <2>3. ASSUME NEW k \in Nat, k \in U PROVE k + 1 \in U
    <3> SUFFICES ASSUME NEW x \in A, m[x] <= k + 1, m[x] <= i, m[x] <= j PROVE e[x] = g[x]
      OBVIOUS
    <3>1. ASSUME NEW y \in A, m[y] < m[x] PROVE e[y] = g[y]
      <4>1. m[y] <= k /\ m[y] <= i /\ m[y] <= j
        BY <3>1
      <4> QED BY <2>3, <4>1
    <3> QED BY <2>1, <3>1
  <2>4. Nat \subseteq U
    <3> HIDE DEF U
    <3> QED BY <2>2, <2>3, NatSetInduction
  <2> SUFFICES ASSUME NEW x \in A, m[x] <= i, m[x] <= j PROVE e[x] = g[x]
    OBVIOUS
  <2>5. m[x] \in U
    BY <2>4
  <2> QED BY <2>5
<1> DEFINE c(k) == CHOOSE e : OK(e, k)
           f == [x \in A |-> c(m[x])[x]]
<1>5. ASSUME NEW k \in Nat PROVE OK(c(k), k)
  <2> HIDE DEF OK
  <2> QED BY <1>3
<1> HIDE DEF c
<1>6. ASSUME NEW x \in A PROVE f[x] = (IF x \in S THEN out[x] ELSE f[next[x]])
  <2>1. m[x] \in Nat /\ f[x] = c(m[x])[x]
    OBVIOUS
  <2>2. c(m[x])[x] = (IF x \in S THEN out[x] ELSE c(m[x])[next[x]])
    BY <1>5, <2>1
  <2>3. ASSUME x \notin S PROVE c(m[x])[next[x]] = f[next[x]]
    <3>1. next[x] \in A /\ m[next[x]] < m[x] /\ m[next[x]] \in Nat
      BY <2>3
    <3>2. OK(c(m[x]), m[x]) /\ OK(c(m[next[x]]), m[next[x]])
      BY <1>5, <2>1, <3>1
    <3>3. m[next[x]] <= m[next[x]] /\ m[next[x]] <= m[x]
      BY <2>1, <3>1
    <3> HIDE DEF OK
    <3>4. c(m[x])[next[x]] = c(m[next[x]])[next[x]]
      BY <1>4, <2>1, <3>1, <3>2, <3>3
    <3> QED BY <3>1, <3>4
  <2> QED BY <2>1, <2>2, <2>3
<1> HIDE DEF f
<1> QED BY <1>6

-----------------------------------------------------------------------------
(***************************************************************************)
(* The walk by key.                                                        *)
(***************************************************************************)
LEMMA CardPositions ==
  ASSUME NEW size \in Nat
  PROVE  IsFiniteSet(Positions(size)) /\ Cardinality(Positions(size)) = size
<1>1. 0 \in Int /\ size - 1 \in Int
  OBVIOUS
<1>2. IsFiniteSet(0 .. size - 1) /\ Cardinality(0 .. size - 1) = IF 0 > size - 1 THEN 0 ELSE size - 1 - 0 + 1
  BY <1>1, FS_Interval
<1> QED BY <1>2 DEF Positions

LEMMA FindUnfolds ==
  ASSUME NEW size \in Nat, NEW keys, DOMAIN keys = Positions(size), NEW key
  PROVE  \E walk : /\ Find(keys, key) = walk[0]
                   /\ \A p \in Nat : walk[p] =
                        IF p >= size THEN NoNode ELSE IF keys[p] = key THEN p
                        ELSE walk[IF keys[p] > key THEN LeftChild(p) ELSE RightChild(p)]
<1> DEFINE S == {p \in Nat : p >= size \/ keys[p] = key}
           out == [p \in Nat |-> IF p >= size THEN NoNode ELSE p]
           next == [p \in Nat |-> IF keys[p] > key THEN LeftChild(p) ELSE RightChild(p)]
           m == [p \in Nat |-> IF p >= size THEN 0 ELSE size - p]
           Walks(g) == g = [p \in Nat |-> IF p >= size THEN NoNode ELSE IF keys[p] = key THEN p
                                          ELSE g[IF keys[p] > key THEN LeftChild(p) ELSE RightChild(p)]]
           walk == CHOOSE g : Walks(g)
<1>1. Cardinality(DOMAIN keys) = size
  BY CardPositions
<1>2. Find(keys, key) = walk[0]
  BY <1>1 DEF Find
<1>3. \E f : \A p \in Nat : f[p] = (IF p \in S THEN out[p] ELSE f[next[p]])
  <2>1. \A p \in Nat \ S : next[p] \in Nat /\ m[next[p]] < m[p]
    BY DEF LeftChild, RightChild
  <2>2. IsWalk(Nat, S, out, next, m)
    BY <2>1 DEF IsWalk
  <2> HIDE DEF S, out, next, m
  <2> QED BY <2>2, TailRecursion
<1>4. \E f : Walks(f)
  <2>1. PICK f : \A p \in Nat : f[p] = (IF p \in S THEN out[p] ELSE f[next[p]])
    BY <1>3
  <2> DEFINE g == [p \in Nat |-> f[p]]
  <2>2. ASSUME NEW p \in Nat
        PROVE  g[p] = IF p >= size THEN NoNode ELSE IF keys[p] = key THEN p
                      ELSE g[IF keys[p] > key THEN LeftChild(p) ELSE RightChild(p)]
    <3>1. LeftChild(p) \in Nat /\ RightChild(p) \in Nat
      BY DEF LeftChild, RightChild
    <3> QED BY <2>1, <3>1
  <2>3. g = [p \in Nat |-> g[p]]
    OBVIOUS
  <2> HIDE DEF g
  <2>4. Walks(g)
    BY <2>2, <2>3
  <2> HIDE DEF Walks
  <2> QED BY <2>4
<1> HIDE DEF Walks
<1>5. Walks(walk)
  BY <1>4
<1> HIDE DEF walk
<1> QED BY <1>2, <1>5 DEF Walks

\* The walk reaches every key of a tree whose keys are in order, and leaves
\* the tree for every other.
LEMMA WalkByKey ==
  ASSUME NEW size \in Nat, size > 0, NEW keys \in [Positions(size) -> Int],
         \A p, q \in Positions(size) : Rank(p, size) < Rank(q, size) => keys[p] < keys[q]
  PROVE  \A q \in Positions(size) : Find(keys, keys[q]) = q
<1> SUFFICES ASSUME NEW q \in Positions(size) PROVE Find(keys, keys[q]) = q
  OBVIOUS
<1>1. PICK walk :
        /\ Find(keys, keys[q]) = walk[0]
        /\ \A p \in Nat : walk[p] =
             IF p >= size THEN NoNode ELSE IF keys[p] = keys[q] THEN p
             ELSE walk[IF keys[p] > keys[q] THEN LeftChild(p) ELSE RightChild(p)]
  <2>1. DOMAIN keys = Positions(size)
    OBVIOUS
  <2> QED BY <2>1, FindUnfolds
<1> DEFINE T == {k \in Nat : \A x \in Nat : x + k >= size /\ Under(x, q) => walk[x] = q}
<1>2. q \in Nat /\ q < size
  BY DEF Positions
<1>3. 0 \in T
  <2>1. ASSUME NEW x \in Nat, x + 0 >= size PROVE ~ Under(x, q)
    BY <1>2, <2>1, UnderFacts
  <2> QED BY <2>1
<1>4. ASSUME NEW k \in Nat, k \in T PROVE k + 1 \in T
  <2> SUFFICES ASSUME NEW x \in Nat, x + (k + 1) >= size, Under(x, q) PROVE walk[x] = q
    OBVIOUS
  <2>1. x <= q /\ x \in Positions(size) /\ x < size
    BY <1>2, UnderFacts DEF Positions
  <2>2. /\ LeftChild(x) \in Nat /\ LeftChild(x) + k >= size
        /\ RightChild(x) \in Nat /\ RightChild(x) + k >= size
    BY DEF LeftChild, RightChild
  <2>3. /\ Under(LeftChild(x), q) => walk[LeftChild(x)] = q
        /\ Under(RightChild(x), q) => walk[RightChild(x)] = q
    BY <1>4, <2>2
  <2>4. q = x \/ Under(LeftChild(x), q) \/ Under(RightChild(x), q)
    BY <1>2, UnderFacts
  <2>5. /\ Under(LeftChild(x), q) => keys[q] < keys[x]
        /\ Under(RightChild(x), q) => keys[x] < keys[q]
    BY <2>1, RankFacts
  <2>6. keys[x] \in Int /\ keys[q] \in Int
    BY <2>1
  <2>7. walk[x] = IF keys[x] = keys[q] THEN x
                  ELSE walk[IF keys[x] > keys[q] THEN LeftChild(x) ELSE RightChild(x)]
    BY <1>1, <2>1
  <2>8. CASE q = x
    BY <2>7, <2>8
  <2>9. CASE Under(LeftChild(x), q)
    BY <2>3, <2>5, <2>6, <2>7, <2>9
  <2>10. CASE Under(RightChild(x), q)
    BY <2>3, <2>5, <2>6, <2>7, <2>10
  <2> QED BY <2>4, <2>8, <2>9, <2>10
<1> HIDE DEF T
<1>5. size \in T
  BY <1>3, <1>4, NatSetInduction
<1>6. walk[0] = q
  BY <1>2, <1>5, UnderFacts DEF T
<1> QED BY <1>1, <1>6

LEMMA RanksAreSearchable ==
  ASSUME n \in Nat, n > 0
  PROVE  RanksSearchable
<1> DEFINE ranks == [p \in Positions(n) |-> Rank(p, n)]
<1>1. \A p \in Positions(n) : Rank(p, n) \in Positions(n) /\ Rank(p, n) \in Int
  BY RankFacts DEF Positions
<1>2. /\ ranks \in [Positions(n) -> Int]
      /\ \A p, q \in Positions(n) : Rank(p, n) < Rank(q, n) => ranks[p] < ranks[q]
  BY <1>1
<1>3. \A p \in Positions(n) : ranks[p] = Rank(p, n)
  OBVIOUS
<1> HIDE DEF ranks
<1>4. \A p \in Positions(n) : Find(ranks, ranks[p]) = p
  BY <1>2, WalkByKey
<1> QED BY <1>1, <1>3, <1>4 DEF RanksSearchable, ranks

-----------------------------------------------------------------------------
(***************************************************************************)
(* The sums, and the walk by them.                                         *)
(***************************************************************************)
LEMMA ChildFacts ==
  ASSUME NEW p \in Nat
  PROVE  LeftChild(p) \in Nat /\ RightChild(p) \in Nat /\ p < LeftChild(p) /\ p < RightChild(p)
         /\ LeftChild(p) # RightChild(p)
BY DEF LeftChild, RightChild

LEMMA SumsFacts ==
  ASSUME NEW size \in Nat, NEW marks \in [Positions(size) -> {0, 1}]
  PROVE  /\ Sums(marks) \in [Positions(size) -> Nat]
         /\ \A p \in Positions(size) : Sums(marks)[p] = Reduced(marks, Sums(marks), p)
<1> DEFINE Here(g, p) == IF p \in Positions(size) THEN marks[p] + g[LeftChild(p)] + g[RightChild(p)] ELSE 0
           T == {k \in Nat : \E g \in [Nat -> Nat] : \A p \in Nat : p + k >= size => g[p] = Here(g, p)}
           SumOf(g) == g = [p \in Nat |-> IF p \in DOMAIN marks
                                          THEN marks[p] + g[LeftChild(p)] + g[RightChild(p)] ELSE 0]
           sum == CHOOSE g : SumOf(g)
<1>0. DOMAIN marks = Positions(size) /\ \A p \in Positions(size) : p \in Nat /\ p < size /\ marks[p] \in Nat
  BY DEF Positions
<1>1. 0 \in T
  <2> DEFINE g == [p \in Nat |-> 0]
  <2>1. g \in [Nat -> Nat] /\ \A p \in Nat : p + 0 >= size => g[p] = Here(g, p)
    BY <1>0
  <2> HIDE DEF g
  <2> QED BY <2>1
<1>2. ASSUME NEW k \in Nat, k \in T PROVE k + 1 \in T
  <2>1. PICK g \in [Nat -> Nat] : \A p \in Nat : p + k >= size => g[p] = Here(g, p)
    BY <1>2
  <2> DEFINE e == [p \in Nat |-> IF p + k >= size THEN g[p] ELSE Here(g, p)]
  <2>2. \A p \in Nat : LeftChild(p) \in Nat /\ RightChild(p) \in Nat /\ p < LeftChild(p) /\ p < RightChild(p)
    BY ChildFacts
  <2>3. e \in [Nat -> Nat]
    BY <1>0, <2>2
  <2>4. ASSUME NEW p \in Nat, p + (k + 1) >= size PROVE e[p] = Here(e, p)
    <3>1. e[LeftChild(p)] = g[LeftChild(p)] /\ e[RightChild(p)] = g[RightChild(p)]
      BY <2>2, <2>4
    <3>2. e[p] = Here(g, p)
      BY <2>1
    <3> QED BY <3>1, <3>2
  <2> HIDE DEF e, Here
  <2> QED BY <2>3, <2>4
<1> HIDE DEF T
<1>3. PICK g \in [Nat -> Nat] : \A p \in Nat : g[p] = Here(g, p)
  <2>1. size \in T
    BY <1>1, <1>2, NatSetInduction
  <2> HIDE DEF Here
  <2> QED BY <2>1 DEF T
<1>4. SumOf(g)
  <2>1. g = [p \in Nat |-> g[p]]
    OBVIOUS
  <2> QED BY <1>0, <1>3, <2>1
<1> HIDE DEF SumOf
<1>5. SumOf(sum)
  BY <1>4
<1>6. Sums(marks) = [p \in Positions(size) |-> sum[p]]
  BY <1>0 DEF Sums, SumOf
<1> HIDE DEF sum
<1>7. \A p \in Nat : sum[p] = Here(sum, p)
  BY <1>0, <1>5 DEF SumOf
<1> DEFINE U == {k \in Nat : \A p \in Nat : p + k >= size => sum[p] \in Nat}
<1>8. 0 \in U
  BY <1>0, <1>7
<1>9. ASSUME NEW k \in Nat, k \in U PROVE k + 1 \in U
  <2> SUFFICES ASSUME NEW p \in Nat, p + (k + 1) >= size PROVE sum[p] \in Nat
    OBVIOUS
  <2>1. sum[LeftChild(p)] \in Nat /\ sum[RightChild(p)] \in Nat
    BY <1>9, ChildFacts
  <2> QED BY <1>0, <1>7, <2>1
<1> HIDE DEF U
<1>10. size \in U
  BY <1>8, <1>9, NatSetInduction
<1>11. \A p \in Nat : sum[p] \in Nat
  BY <1>10 DEF U
<1>12. ASSUME NEW p \in Nat PROVE At(Sums(marks), p) = sum[p]
  BY <1>6, <1>7, <1>12 DEF At
<1>13. ASSUME NEW p \in Positions(size) PROVE Sums(marks)[p] = Reduced(marks, Sums(marks), p)
  <2>1. LeftChild(p) \in Nat /\ RightChild(p) \in Nat
    BY <1>0, ChildFacts
  <2> QED BY <1>0, <1>6, <1>7, <1>12, <2>1 DEF Reduced
<1> QED BY <1>0, <1>6, <1>11, <1>13

\* The marked nodes in the subtree of p.
MarkedUnder(marks, p) == {q \in DOMAIN marks : marks[q] = 1 /\ Under(p, q)}

\* A subtree is its root and the two subtrees of the children, which are apart.
LEMMA SplitUnder ==
  ASSUME NEW size \in Nat, size > 0, NEW marks \in [Positions(size) -> {0, 1}], NEW p \in Positions(size)
  PROVE  /\ MarkedUnder(marks, p) =
              (MarkedUnder(marks, LeftChild(p)) \cup MarkedUnder(marks, RightChild(p)))
                \cup {q \in {p} : marks[q] = 1}
         /\ \A q \in MarkedUnder(marks, LeftChild(p)) : Rank(q, size) < Rank(p, size)
         /\ \A q \in MarkedUnder(marks, RightChild(p)) : Rank(p, size) < Rank(q, size)
         /\ MarkedUnder(marks, LeftChild(p)) \cap MarkedUnder(marks, RightChild(p)) = {}
         /\ p \notin MarkedUnder(marks, LeftChild(p)) \cup MarkedUnder(marks, RightChild(p))
<1>1. p \in Nat /\ DOMAIN marks = Positions(size) /\ \A q \in Positions(size) : q \in Nat /\ Rank(q, size) \in Nat
  BY RankFacts DEF Positions
<1>2. \A q \in Positions(size) : /\ Under(LeftChild(p), q) => Rank(q, size) < Rank(p, size)
                                 /\ Under(RightChild(p), q) => Rank(p, size) < Rank(q, size)
  BY RankFacts
<1>3. \A q \in Positions(size) : Under(p, q) <=> q = p \/ Under(LeftChild(p), q) \/ Under(RightChild(p), q)
  BY <1>1, UnderFacts
<1>4. \A q \in Positions(size) : ~ (Under(LeftChild(p), q) /\ Under(RightChild(p), q))
  BY <1>1, <1>2
<1>5. ~ Under(LeftChild(p), p) /\ ~ Under(RightChild(p), p)
  BY <1>1, <1>2
<1> QED BY <1>1, <1>2, <1>3, <1>4, <1>5 DEF MarkedUnder

\* The sums count the marked nodes of the subtrees.
LEMMA SumsCount ==
  ASSUME NEW size \in Nat, size > 0, NEW marks \in [Positions(size) -> {0, 1}]
  PROVE  \A p \in Nat : /\ IsFiniteSet(MarkedUnder(marks, p))
                        /\ Cardinality(MarkedUnder(marks, p)) = At(Sums(marks), p)
<1> DEFINE Good(p) == Cardinality(MarkedUnder(marks, p)) = At(Sums(marks), p)
           T == {k \in Nat : \A p \in Nat : p + k >= size => Good(p)}
<1>0. DOMAIN marks = Positions(size) /\ \A p \in Positions(size) : p \in Nat /\ p < size /\ marks[p] \in {0, 1}
  BY DEF Positions
<1>1. \A p \in Nat : IsFiniteSet(MarkedUnder(marks, p))
  <2>1. \A p \in Nat : MarkedUnder(marks, p) \subseteq Positions(size)
    BY <1>0 DEF MarkedUnder
  <2> QED BY <2>1, CardPositions, FS_Subset
<1>2. 0 \in T
  <2> SUFFICES ASSUME NEW p \in Nat, p + 0 >= size PROVE Good(p)
    OBVIOUS
  <2>1. MarkedUnder(marks, p) = {}
    BY <1>0, UnderFacts DEF MarkedUnder
  <2>2. p \notin DOMAIN Sums(marks)
    <3>1. Sums(marks) \in [Positions(size) -> Nat]
      BY SumsFacts
    <3> QED BY <1>0, <3>1
  <2> QED BY <2>1, <2>2, FS_EmptySet DEF At
<1>3. ASSUME NEW k \in Nat, k \in T PROVE k + 1 \in T
  <2> SUFFICES ASSUME NEW p \in Nat, p + (k + 1) >= size PROVE Good(p)
    OBVIOUS
  <2>1. /\ LeftChild(p) \in Nat /\ LeftChild(p) + k >= size
        /\ RightChild(p) \in Nat /\ RightChild(p) + k >= size
    BY ChildFacts
  <2>2. Good(LeftChild(p)) /\ Good(RightChild(p))
    BY <1>3, <2>1
  <2> HIDE DEF T
  <2>3. CASE p >= size
    <3>1. MarkedUnder(marks, p) = {}
      BY <1>0, <2>3, UnderFacts DEF MarkedUnder
    <3>2. p \notin DOMAIN Sums(marks)
      <4>1. Sums(marks) \in [Positions(size) -> Nat]
        BY SumsFacts
      <4> QED BY <1>0, <2>3, <4>1
    <3> QED BY <3>1, <3>2, FS_EmptySet DEF At
  <2>4. CASE p < size
    <3> DEFINE L == MarkedUnder(marks, LeftChild(p))
               R == MarkedUnder(marks, RightChild(p))
               own == {q \in {p} : marks[q] = 1}
    <3>0. p \in Positions(size)
      BY <2>4 DEF Positions
    <3>1. MarkedUnder(marks, p) = (L \cup R) \cup own /\ L \cap R = {} /\ p \notin L \cup R
      BY <3>0, SplitUnder
    <3>2. /\ IsFiniteSet(L) /\ Cardinality(L) \in Nat
          /\ IsFiniteSet(R) /\ Cardinality(R) \in Nat
      BY <1>1, <2>1, FS_CardinalityType
    <3>3. IsFiniteSet(L \cup R) /\ Cardinality(L \cup R) = Cardinality(L) + Cardinality(R)
      <4>1. IsFiniteSet(L \cup R) /\ Cardinality(L \cup R) = Cardinality(L) + Cardinality(R) - Cardinality(L \cap R)
        <5> HIDE DEF L, R
        <5> QED BY <3>2, FS_Union
      <4>2. Cardinality(L \cap R) = 0
        BY <3>1, FS_EmptySet
      <4> HIDE DEF L, R
      <4> QED BY <3>2, <4>1, <4>2
    <3>4. Cardinality(MarkedUnder(marks, p)) = Cardinality(L) + Cardinality(R) + marks[p]
      <4>1. CASE marks[p] = 0
        <5>1. MarkedUnder(marks, p) = L \cup R
          BY <3>1, <4>1
        <5> HIDE DEF L, R
        <5> QED BY <3>2, <3>3, <4>1, <5>1
      <4>2. CASE marks[p] = 1
        <5>1. MarkedUnder(marks, p) = (L \cup R) \cup {p}
          BY <3>1, <4>2
        <5> HIDE DEF L, R
        <5>2. Cardinality((L \cup R) \cup {p}) = Cardinality(L \cup R) + 1
          BY <3>1, <3>3, FS_AddElement
        <5> QED BY <3>2, <3>3, <4>2, <5>1, <5>2
      <4> QED BY <1>0, <3>0, <4>1, <4>2
    <3>5. At(Sums(marks), p) = marks[p] + At(Sums(marks), LeftChild(p)) + At(Sums(marks), RightChild(p))
      <4>1. Sums(marks) \in [Positions(size) -> Nat] /\ Sums(marks)[p] = Reduced(marks, Sums(marks), p)
        BY <3>0, SumsFacts
      <4> QED BY <3>0, <4>1 DEF At, Reduced
    <3>6. marks[p] \in Nat
      BY <1>0, <3>0
    <3> HIDE DEF own
    <3> QED BY <2>2, <3>2, <3>4, <3>5, <3>6
  <2> QED BY <2>3, <2>4
<1> HIDE DEF T
<1>4. size \in T
  BY <1>2, <1>3, NatSetInduction
<1> QED BY <1>1, <1>4 DEF T

\* At the node p, with left marked nodes to go.
LEMMA KthSlotUnfolds ==
  ASSUME NEW size \in Nat, NEW marks \in [Positions(size) -> {0, 1}],
         NEW counts \in [Positions(size) -> Nat]
  PROVE  \E walk : /\ \A slot : KthSlot(marks, counts, slot) = walk[<<0, slot>>]
                   /\ \A p \in Nat, left \in Int : walk[<<p, left>>] =
                        IF p >= size THEN NoNode
                        ELSE IF left <= At(counts, LeftChild(p)) THEN walk[<<LeftChild(p), left>>]
                        ELSE IF marks[p] = 1 /\ left = At(counts, LeftChild(p)) + 1 THEN p
                        ELSE walk[<<RightChild(p), left - At(counts, LeftChild(p)) - marks[p]>>]
<1> DEFINE A == Nat \X Int
           Before(p) == At(counts, LeftChild(p))
           Ends(p, left) == p >= size \/ (left > Before(p) /\ marks[p] = 1 /\ left = Before(p) + 1)
           S == {at \in A : Ends(at[1], at[2])}
           out == [at \in A |-> IF at[1] >= size THEN NoNode ELSE at[1]]
           next == [at \in A |-> IF at[2] <= Before(at[1]) THEN <<LeftChild(at[1]), at[2]>>
                                 ELSE <<RightChild(at[1]), at[2] - Before(at[1]) - marks[at[1]]>>]
           m == [at \in A |-> IF at[1] >= size THEN 0 ELSE size - at[1]]
           Step(g, p, left) ==
             IF p >= size THEN NoNode
             ELSE IF left <= Before(p) THEN g[<<LeftChild(p), left>>]
             ELSE IF marks[p] = 1 /\ left = Before(p) + 1 THEN p
             ELSE g[<<RightChild(p), left - Before(p) - marks[p]>>]
           Walks(g) == g = [at \in A |-> Step(g, at[1], at[2])]
           walk == CHOOSE g : Walks(g)
<1>1. Cardinality(DOMAIN marks) = size
  BY CardPositions
<1>2. \A slot : KthSlot(marks, counts, slot) = walk[<<0, slot>>]
  BY <1>1 DEF KthSlot
<1>3. \A p \in Nat : Before(p) \in Nat
  BY DEF At
<1>4. \A p \in Nat : p >= size \/ marks[p] \in {0, 1}
  BY DEF Positions
<1> HIDE DEF Before
<1>5. IsWalk(A, S, out, next, m)
  <2>1. ASSUME NEW at \in A \ S PROVE next[at] \in A /\ m[next[at]] < m[at]
    <3>1. PICK p \in Nat, left \in Int : at = <<p, left>>
      OBVIOUS
    <3>2. /\ LeftChild(p) \in Nat /\ p < LeftChild(p) /\ RightChild(p) \in Nat /\ p < RightChild(p)
      BY ChildFacts
    <3>3. p < size /\ Before(p) \in Nat /\ marks[p] \in {0, 1}
      BY <1>3, <1>4, <2>1, <3>1
    <3>4. \/ next[at] = <<LeftChild(p), left>>
          \/ next[at] = <<RightChild(p), left - Before(p) - marks[p]>> /\ left - Before(p) - marks[p] \in Int
      BY <3>1, <3>3
    <3>5. PICK q \in Nat, rest \in Int : q > p /\ next[at] = <<q, rest>>
      BY <3>2, <3>4
    <3>6. m[next[at]] = (IF q >= size THEN 0 ELSE size - q) /\ m[at] = size - p
      BY <3>1, <3>3, <3>5
    <3> QED BY <3>3, <3>5, <3>6
  <2>2. DOMAIN out = A /\ \A at \in A : m[at] \in Nat
    OBVIOUS
  <2> HIDE DEF A, S, out, next, m
  <2> QED BY <2>1, <2>2 DEF IsWalk
<1>6. \E g : Walks(g)
  <2>1. PICK f : \A at \in A : f[at] = (IF at \in S THEN out[at] ELSE f[next[at]])
    <3> HIDE DEF A, S, out, next, m
    <3> QED BY <1>5, TailRecursion
  <2> DEFINE g == [at \in A |-> f[at]]
  <2>2. ASSUME NEW p \in Nat, NEW left \in Int PROVE g[<<p, left>>] = Step(g, p, left)
    <3>1. LeftChild(p) \in Nat /\ RightChild(p) \in Nat
      BY ChildFacts
    <3>2. Before(p) \in Nat /\ (p >= size \/ marks[p] \in {0, 1})
      BY <1>3, <1>4
    <3>3. g[<<p, left>>] = (IF Ends(p, left) THEN (IF p >= size THEN NoNode ELSE p)
                            ELSE IF left <= Before(p) THEN f[<<LeftChild(p), left>>]
                            ELSE f[<<RightChild(p), left - Before(p) - marks[p]>>])
      BY <2>1, <3>2
    <3>4. g[<<LeftChild(p), left>>] = f[<<LeftChild(p), left>>]
      BY <3>1
    <3>5. p < size => g[<<RightChild(p), left - Before(p) - marks[p]>>] = f[<<RightChild(p), left - Before(p) - marks[p]>>]
      BY <3>1, <3>2
    <3> HIDE DEF g
    <3> QED BY <3>2, <3>3, <3>4, <3>5
  <2>3. g = [at \in A |-> g[at]]
    OBVIOUS
  <2> HIDE DEF g, Step
  <2>4. \A at \in A : g[at] = Step(g, at[1], at[2])
    BY <2>2
  <2>5. Walks(g)
    BY <2>3, <2>4
  <2> HIDE DEF Walks
  <2> QED BY <2>5
<1> HIDE DEF Walks
<1>7. Walks(walk)
  BY <1>6
<1> HIDE DEF walk
<1>8. \A p \in Nat, left \in Int : walk[<<p, left>>] = Step(walk, p, left)
  <2> HIDE DEF Step
  <2> QED BY <1>7 DEF Walks
<1> QED BY <1>2, <1>8 DEF Before

\* Those of them that are not to the right of s.
MarkedUpTo(marks, p, s) ==
  {q \in MarkedUnder(marks, p) : Rank(q, Cardinality(DOMAIN marks)) <= Rank(s, Cardinality(DOMAIN marks))}

\* The walk for the k-th marked node ends at the k-th marked node.
LEMMA WalkByCount ==
  ASSUME NEW size \in Nat, size > 0, NEW marks \in [Positions(size) -> {0, 1}],
         NEW slot \in 1 .. Sums(marks)[0]
  PROVE  LET s == KthSlot(marks, Sums(marks), slot) IN
         s \in Positions(size) /\ marks[s] = 1 /\ Cardinality(MarkedUpTo(marks, 0, s)) = slot
<1> DEFINE counts == Sums(marks)
           Before(p) == At(counts, LeftChild(p))
<1>0. /\ DOMAIN marks = Positions(size) /\ Cardinality(DOMAIN marks) = size
      /\ \A p \in Positions(size) : p \in Nat /\ p < size /\ marks[p] \in {0, 1}
  BY CardPositions DEF Positions
<1>1. counts \in [Positions(size) -> Nat] /\ \A p \in Positions(size) : counts[p] = Reduced(marks, counts, p)
  BY SumsFacts
<1>2. \A p \in Nat : /\ IsFiniteSet(MarkedUnder(marks, p))
                     /\ Cardinality(MarkedUnder(marks, p)) = At(counts, p)
  BY SumsCount
<1> HIDE DEF counts
<1>3. PICK walk :
        /\ \A k : KthSlot(marks, counts, k) = walk[<<0, k>>]
        /\ \A p \in Nat, left \in Int : walk[<<p, left>>] =
             IF p >= size THEN NoNode
             ELSE IF left <= At(counts, LeftChild(p)) THEN walk[<<LeftChild(p), left>>]
             ELSE IF marks[p] = 1 /\ left = At(counts, LeftChild(p)) + 1 THEN p
             ELSE walk[<<RightChild(p), left - At(counts, LeftChild(p)) - marks[p]>>]
  BY <1>1, KthSlotUnfolds
<1> DEFINE Right(p, left) ==
             /\ walk[<<p, left>>] \in MarkedUnder(marks, p)
             /\ Cardinality(MarkedUpTo(marks, p, walk[<<p, left>>])) = left
           T == {k \in Nat : \A p \in Nat, left \in Int :
                               p + k >= size /\ left >= 1 /\ left <= At(counts, p) => Right(p, left)}
<1>4. 0 \in T
  <2>1. ASSUME NEW p \in Nat, p + 0 >= size PROVE At(counts, p) = 0
    BY <1>0, <1>1, <2>1 DEF At
  <2> QED BY <2>1
<1>5. ASSUME NEW k \in Nat, k \in T PROVE k + 1 \in T
  <2> SUFFICES ASSUME NEW p \in Nat, NEW left \in Int, p + (k + 1) >= size, left >= 1, left <= At(counts, p)
               PROVE  Right(p, left)
    OBVIOUS
  <2>1. /\ LeftChild(p) \in Nat /\ LeftChild(p) + k >= size
        /\ RightChild(p) \in Nat /\ RightChild(p) + k >= size
    BY ChildFacts
  <2>2. \A x \in Int : /\ x >= 1 /\ x <= At(counts, LeftChild(p)) => Right(LeftChild(p), x)
                       /\ x >= 1 /\ x <= At(counts, RightChild(p)) => Right(RightChild(p), x)
    <3> HIDE DEF Right
    <3> QED BY <1>5, <2>1
  <2> HIDE DEF T
  <2>3. p \in Positions(size) /\ p < size
    <3>1. p \in DOMAIN counts
      BY DEF At
    <3> QED BY <1>0, <1>1, <3>1
  <2> DEFINE L == MarkedUnder(marks, LeftChild(p))
             R == MarkedUnder(marks, RightChild(p))
             own == {q \in {p} : marks[q] = 1}
             b == At(counts, LeftChild(p))
  <2>4. /\ MarkedUnder(marks, p) = (L \cup R) \cup own
        /\ \A q \in L : Rank(q, size) < Rank(p, size)
        /\ \A q \in R : Rank(p, size) < Rank(q, size)
        /\ L \cap R = {} /\ p \notin L \cup R
    BY <2>3, SplitUnder
  <2>5. \A q \in Positions(size) : Rank(q, size) \in Nat
    BY RankFacts DEF Positions
  <2>6. L \subseteq Positions(size) /\ R \subseteq Positions(size) /\ own \subseteq Positions(size)
    BY <1>0, <2>3 DEF MarkedUnder
  <2>7. /\ IsFiniteSet(L) /\ Cardinality(L) = b /\ b \in Nat
        /\ IsFiniteSet(R) /\ Cardinality(R) = At(counts, RightChild(p))
    BY <1>1, <1>2, <2>1 DEF At
  <2>8. At(counts, p) = marks[p] + b + At(counts, RightChild(p)) /\ marks[p] \in {0, 1}
        /\ At(counts, RightChild(p)) \in Nat
    BY <1>0, <1>1, <2>3 DEF At, Reduced
  <2>9. walk[<<p, left>>] =
          IF left <= b THEN walk[<<LeftChild(p), left>>]
          ELSE IF marks[p] = 1 /\ left = b + 1 THEN p
          ELSE walk[<<RightChild(p), left - b - marks[p]>>]
    BY <1>3, <2>3
  <2>10. CASE left <= b
    <3> DEFINE s == walk[<<LeftChild(p), left>>]
    <3>1. s \in L /\ Cardinality(MarkedUpTo(marks, LeftChild(p), s)) = left
      BY <2>2, <2>10
    <3>2. walk[<<p, left>>] = s
      BY <2>9, <2>10
    <3> HIDE DEF s, L, R, own
    <3>3. MarkedUpTo(marks, p, s) = MarkedUpTo(marks, LeftChild(p), s)
      <4>1. MarkedUpTo(marks, p, s) = {q \in (L \cup R) \cup own : Rank(q, size) <= Rank(s, size)}
        BY <1>0, <2>4 DEF MarkedUpTo
      <4>2. MarkedUpTo(marks, LeftChild(p), s) = {q \in L : Rank(q, size) <= Rank(s, size)}
        BY <1>0 DEF MarkedUpTo, L
      <4>3. \A q \in R \cup own : ~ (Rank(q, size) <= Rank(s, size))
        <5>1. Rank(s, size) < Rank(p, size) /\ Rank(s, size) \in Nat /\ Rank(p, size) \in Nat
          BY <2>3, <2>4, <2>5, <2>6, <3>1
        <5>2. \A q \in R : Rank(p, size) < Rank(q, size) /\ Rank(q, size) \in Nat
          BY <2>4, <2>5, <2>6
        <5>3. \A q \in own : q = p
          BY DEF own
        <5> QED BY <5>1, <5>2, <5>3
      <4> QED BY <4>1, <4>2, <4>3
    <3>4. s \in MarkedUnder(marks, p)
      BY <2>4, <3>1
    <3> QED BY <3>1, <3>2, <3>3, <3>4
  <2>11. CASE left > b /\ marks[p] = 1 /\ left = b + 1
    <3>1. walk[<<p, left>>] = p
      BY <2>7, <2>9, <2>11
    <3>2. own = {p}
      BY <2>11
    <3> HIDE DEF L, R, own
    <3>3. MarkedUpTo(marks, p, p) = L \cup {p}
      <4>1. MarkedUpTo(marks, p, p) = {q \in (L \cup R) \cup {p} : Rank(q, size) <= Rank(p, size)}
        BY <1>0, <2>4, <3>2 DEF MarkedUpTo
      <4>2. \A q \in R : ~ (Rank(q, size) <= Rank(p, size))
        BY <2>3, <2>4, <2>5, <2>6
      <4>3. \A q \in L \cup {p} : Rank(q, size) <= Rank(p, size)
        BY <2>3, <2>4, <2>5, <2>6
      <4> QED BY <4>1, <4>2, <4>3
    <3>4. Cardinality(L \cup {p}) = b + 1
      BY <2>4, <2>7, FS_AddElement
    <3>5. p \in MarkedUnder(marks, p)
      BY <2>4, <3>2
    <3> QED BY <2>11, <3>1, <3>3, <3>4, <3>5
  <2>12. CASE left > b /\ ~ (marks[p] = 1 /\ left = b + 1)
    <3> DEFINE rest == left - b - marks[p]
               s == walk[<<RightChild(p), rest>>]
    <3>1. rest \in Int /\ rest >= 1 /\ rest <= At(counts, RightChild(p)) /\ left = b + marks[p] + rest
      <4> HIDE DEF b
      <4> QED BY <2>7, <2>8, <2>12
    <3>2. walk[<<p, left>>] = s
      <4>1. ~ (left <= b)
        BY <2>7, <2>12
      <4> QED BY <2>9, <2>12, <4>1
    <3> HIDE DEF rest
    <3>3. s \in R /\ Cardinality(MarkedUpTo(marks, RightChild(p), s)) = rest
      BY <2>2, <3>1
    <3> DEFINE M == MarkedUpTo(marks, RightChild(p), s)
    <3> HIDE DEF s, L, R
    <3>4. M = {q \in R : Rank(q, size) <= Rank(s, size)}
      BY <1>0 DEF MarkedUpTo, R
    <3>5. MarkedUpTo(marks, p, s) = (L \cup own) \cup M
      <4> HIDE DEF own, M
      <4>1. MarkedUpTo(marks, p, s) = {q \in (L \cup R) \cup own : Rank(q, size) <= Rank(s, size)}
        BY <1>0, <2>4 DEF MarkedUpTo
      <4>2. \A q \in L \cup own : Rank(q, size) <= Rank(s, size)
        <5>1. Rank(p, size) < Rank(s, size) /\ Rank(s, size) \in Nat /\ Rank(p, size) \in Nat
          BY <2>3, <2>4, <2>5, <2>6, <3>3
        <5>2. \A q \in L : Rank(q, size) < Rank(p, size) /\ Rank(q, size) \in Nat
          BY <2>4, <2>5, <2>6
        <5>3. \A q \in own : q = p
          BY DEF own
        <5> QED BY <5>1, <5>2, <5>3
      <4> QED BY <3>4, <4>1, <4>2
    <3>6. IsFiniteSet(L \cup own) /\ Cardinality(L \cup own) = b + marks[p]
      <4>1. CASE marks[p] = 0
        <5>1. L \cup own = L
          BY <4>1
        <5> HIDE DEF own
        <5> QED BY <2>7, <4>1, <5>1
      <4>2. CASE marks[p] = 1
        <5>1. L \cup own = L \cup {p}
          BY <4>2
        <5>2. IsFiniteSet(L \cup {p}) /\ Cardinality(L \cup {p}) = b + 1
          BY <2>4, <2>7, FS_AddElement
        <5> HIDE DEF own
        <5> QED BY <4>2, <5>1, <5>2
      <4> QED BY <2>8, <4>1, <4>2
    <3>7. M \subseteq R /\ (L \cup own) \cap M = {}
      <4>1. M \subseteq R
        BY <3>4
      <4>2. (L \cup own) \cap R = {}
        BY <2>4
      <4> QED BY <4>1, <4>2
    <3>8. IsFiniteSet(M)
      BY <2>7, <3>7, FS_Subset
    <3>9. Cardinality((L \cup own) \cup M) = Cardinality(L \cup own) + Cardinality(M) - Cardinality((L \cup own) \cap M)
      <4> DEFINE X == L \cup own
      <4>1. IsFiniteSet(X)
        BY <3>6
      <4> HIDE DEF X, M
      <4>2. Cardinality(X \cup M) = Cardinality(X) + Cardinality(M) - Cardinality(X \cap M)
        BY <3>8, <4>1, FS_Union
      <4> QED BY <4>2 DEF X
    <3>10. Cardinality((L \cup own) \cap M) = 0
      BY <3>7, FS_EmptySet
    <3>11. s \in MarkedUnder(marks, p)
      BY <2>4, <3>3
    <3>12. Cardinality(M) = rest
      BY <3>3
    <3> HIDE DEF M, own
    <3>13. Cardinality(MarkedUpTo(marks, p, s)) = left
      BY <2>7, <2>8, <3>1, <3>5, <3>6, <3>9, <3>10, <3>12
    <3> QED BY <3>2, <3>11, <3>13
  <2> HIDE DEF b, Right
  <2> QED BY <2>7, <2>10, <2>11, <2>12
<1> HIDE DEF T
<1>6. size \in T
  BY <1>4, <1>5, NatSetInduction
<1>7. Right(0, slot)
  <2>1. 0 \in Positions(size) /\ At(counts, 0) = counts[0] /\ counts[0] \in Nat
    BY <1>1 DEF At, Positions
  <2>2. slot \in Int /\ slot >= 1 /\ slot <= At(counts, 0)
    BY <2>1 DEF counts
  <2> HIDE DEF Right
  <2> QED BY <1>6, <2>2 DEF T
<1> QED BY <1>0, <1>3, <1>7 DEF MarkedUnder, counts

(***************************************************************************)
(* Counts that are too large: an insert that threw has filled slots, and   *)
(* the counts are those from before.                                       *)
(***************************************************************************)
\* KthSlot by these marks and counts is walk.
IsCountWalk(size, marks, counts, walk) ==
  /\ \A k : KthSlot(marks, counts, k) = walk[<<0, k>>]
  /\ \A p \in Nat, left \in Int : walk[<<p, left>>] =
       IF p >= size THEN NoNode
       ELSE IF left <= At(counts, LeftChild(p)) THEN walk[<<LeftChild(p), left>>]
       ELSE IF marks[p] = 1 /\ left = At(counts, LeftChild(p)) + 1 THEN p
       ELSE walk[<<RightChild(p), left - At(counts, LeftChild(p)) - marks[p]>>]

LEMMA CountWalkExists ==
  ASSUME NEW size \in Nat, NEW marks \in [Positions(size) -> {0, 1}],
         NEW counts \in [Positions(size) -> Nat]
  PROVE  \E walk : IsCountWalk(size, marks, counts, walk)
BY KthSlotUnfolds DEF IsCountWalk

\* The walks in the subtree of p find nothing but its marked nodes, no node
\* twice, and every one within the count.
Leads(marks, counts, walk, p) ==
  /\ \A k \in Int : k >= 1 => walk[<<p, k>>] = NoNode \/ walk[<<p, k>>] \in MarkedUnder(marks, p)
  /\ \A j, k \in Int :
       j >= 1 /\ j < k /\ walk[<<p, j>>] = walk[<<p, k>>] => walk[<<p, j>>] = NoNode
  /\ \A q \in MarkedUnder(marks, p) :
       \E k \in Int : k >= 1 /\ k <= At(counts, p) /\ walk[<<p, k>>] = q

LEMMA WalksLead ==
  ASSUME NEW size \in Nat, size > 0, NEW marks \in [Positions(size) -> {0, 1}],
         NEW counts \in [Positions(size) -> Nat],
         \A p \in Positions(size) : counts[p] >= Reduced(marks, counts, p),
         NEW walk, IsCountWalk(size, marks, counts, walk)
  PROVE  Leads(marks, counts, walk, 0)
<1> DEFINE T == {k \in Nat : \A p \in Nat : p + k >= size => Leads(marks, counts, walk, p)}
<1>0. /\ DOMAIN marks = Positions(size)
      /\ \A p \in Positions(size) : p \in Nat /\ p < size /\ p # NoNode
  BY DEF Positions, NoNode
<1>1. 0 \in T
  <2>1. ASSUME NEW p \in Nat, p >= size PROVE Leads(marks, counts, walk, p)
    <3>1. \A k \in Int : walk[<<p, k>>] = NoNode
      BY <2>1 DEF IsCountWalk
    <3>2. MarkedUnder(marks, p) = {}
      <4>1. ASSUME NEW q \in Positions(size), Under(p, q) PROVE FALSE
        <5>1. p <= q /\ q < size /\ q \in Nat
          BY <1>0, <4>1, UnderFacts
        <5> QED BY <2>1, <5>1
      <4> QED BY <1>0, <4>1 DEF MarkedUnder
    <3> QED BY <3>1, <3>2 DEF Leads
  <2> QED BY <2>1
<1>2. ASSUME NEW m \in Nat, m \in T PROVE m + 1 \in T
  <2> SUFFICES ASSUME NEW p \in Nat, p + (m + 1) >= size PROVE Leads(marks, counts, walk, p)
    OBVIOUS
  <2>1. CASE p >= size
    <3>1. p + 0 >= size
      BY <2>1
    <3> QED BY <1>1, <3>1
  <2>2. CASE p < size
    <3> DEFINE L == MarkedUnder(marks, LeftChild(p))
               R == MarkedUnder(marks, RightChild(p))
               own == {q \in {p} : marks[q] = 1}
               b == At(counts, LeftChild(p))
               d == At(counts, RightChild(p))
    <3>1. /\ LeftChild(p) \in Nat /\ LeftChild(p) + m >= size
          /\ RightChild(p) \in Nat /\ RightChild(p) + m >= size
      BY ChildFacts
    <3>2. Leads(marks, counts, walk, LeftChild(p)) /\ Leads(marks, counts, walk, RightChild(p))
      BY <1>2, <3>1
    <3> HIDE DEF T
    <3>3. p \in Positions(size)
      BY <2>2 DEF Positions
    <3>4. /\ MarkedUnder(marks, p) = (L \cup R) \cup own
          /\ L \cap R = {} /\ p \notin L \cup R
      BY <3>3, SplitUnder
    <3>5. NoNode \notin L /\ NoNode \notin R /\ p # NoNode
      BY <1>0, <3>3 DEF MarkedUnder
    <3>6. b \in Nat /\ d \in Nat /\ marks[p] \in {0, 1} /\ At(counts, p) \in Nat /\ At(counts, p) >= marks[p] + b + d
      BY <3>3 DEF At, Reduced
    <3>7. \A left \in Int : walk[<<p, left>>] =
            IF left <= b THEN walk[<<LeftChild(p), left>>]
            ELSE IF marks[p] = 1 /\ left = b + 1 THEN p
            ELSE walk[<<RightChild(p), left - b - marks[p]>>]
      BY <2>2 DEF IsCountWalk
    <3> DEFINE l == [k \in Int |-> walk[<<LeftChild(p), k>>]]
               r == [k \in Int |-> walk[<<RightChild(p), k>>]]
               w == [k \in Int |-> walk[<<p, k>>]]
    <3>8. /\ \A k \in Int : k >= 1 => l[k] = NoNode \/ l[k] \in L
          /\ \A j, k \in Int : j >= 1 /\ j < k /\ l[j] = l[k] => l[j] = NoNode
          /\ \A q \in L : \E k \in Int : k >= 1 /\ k <= b /\ l[k] = q
      <4> HIDE DEF L, b
      <4> QED BY <3>2 DEF Leads, L, b
    <3>9. /\ \A k \in Int : k >= 1 => r[k] = NoNode \/ r[k] \in R
          /\ \A j, k \in Int : j >= 1 /\ j < k /\ r[j] = r[k] => r[j] = NoNode
          /\ \A q \in R : \E k \in Int : k >= 1 /\ k <= d /\ r[k] = q
      <4> HIDE DEF R, d
      <4> QED BY <3>2 DEF Leads, R, d
    <3> DEFINE rest(k) == k - b - marks[p]
    <3>10. ASSUME NEW k \in Int, k >= 1
           PROVE  \/ k <= b /\ w[k] = l[k]
                  \/ k > b /\ marks[p] = 1 /\ k = b + 1 /\ w[k] = p
                  \/ k > b /\ rest(k) \in Int /\ rest(k) >= 1 /\ w[k] = r[rest(k)]
      <4>1. rest(k) \in Int
        BY <3>6
      <4>2. w[k] = IF k <= b THEN l[k] ELSE IF marks[p] = 1 /\ k = b + 1 THEN p ELSE r[rest(k)]
        BY <3>7, <4>1
      <4>3. k > b /\ ~ (marks[p] = 1 /\ k = b + 1) => rest(k) >= 1
        BY <3>6
      <4> HIDE DEF w, l, r, rest, b
      <4> QED BY <3>6, <4>1, <4>2, <4>3
    <3>11. \A k \in Int : w[k] = walk[<<p, k>>]
      OBVIOUS
    <3> HIDE DEF w, l, r, L, R, b, d
    <3>12. ASSUME NEW k \in Int, k >= 1 PROVE w[k] = NoNode \/ w[k] \in (L \cup R) \cup own
      BY <3>8, <3>9, <3>10, <3>12
    <3>13. ASSUME NEW j \in Int, NEW k \in Int, j >= 1, j < k, w[j] = w[k] PROVE w[j] = NoNode
      <4>1. \/ j <= b /\ w[j] = l[j]
            \/ j > b /\ marks[p] = 1 /\ j = b + 1 /\ w[j] = p
            \/ j > b /\ rest(j) \in Int /\ rest(j) >= 1 /\ w[j] = r[rest(j)]
        BY <3>10, <3>13
      <4>2. k >= 1
        BY <3>13
      <4>3. \/ k <= b /\ w[k] = l[k]
            \/ k > b /\ marks[p] = 1 /\ k = b + 1 /\ w[k] = p
            \/ k > b /\ rest(k) \in Int /\ rest(k) >= 1 /\ w[k] = r[rest(k)]
        BY <3>10, <4>2
      <4>4. rest(j) < rest(k)
        BY <3>6, <3>13
      <4>5. j > b => k > b
        BY <3>6, <3>13
      <4>6. ~ (j = b + 1 /\ k = b + 1)
        BY <3>6, <3>13
      <4> HIDE DEF rest, own
      <4>7. CASE j <= b /\ w[j] = l[j]
        <5>1. CASE k <= b /\ w[k] = l[k]
          BY <3>8, <3>13, <4>7, <5>1
        <5>2. CASE w[k] = p
          BY <3>4, <3>8, <3>13, <4>7, <5>2
        <5>3. CASE rest(k) \in Int /\ rest(k) >= 1 /\ w[k] = r[rest(k)]
          BY <3>4, <3>8, <3>9, <3>13, <4>7, <5>3
        <5> QED BY <4>3, <5>1, <5>2, <5>3
      <4>8. CASE j > b /\ j = b + 1 /\ w[j] = p
        <5>1. rest(k) \in Int /\ rest(k) >= 1 /\ w[k] = r[rest(k)]
          BY <3>6, <4>3, <4>5, <4>6, <4>8
        <5> QED BY <3>4, <3>5, <3>9, <3>13, <4>8, <5>1
      <4>9. CASE j > b /\ rest(j) \in Int /\ rest(j) >= 1 /\ w[j] = r[rest(j)]
        <5>1. CASE w[k] = p
          BY <3>4, <3>9, <3>13, <4>9, <5>1
        <5>2. CASE rest(k) \in Int /\ w[k] = r[rest(k)]
          BY <3>9, <3>13, <4>4, <4>9, <5>2
        <5> QED BY <3>6, <4>3, <4>5, <4>9, <5>1, <5>2
      <4> QED BY <4>1, <4>7, <4>8, <4>9
    <3>14. ASSUME NEW q \in (L \cup R) \cup own
           PROVE  \E k \in Int : k >= 1 /\ k <= At(counts, p) /\ w[k] = q
      <4>1. CASE q \in L
        <5>1. PICK k \in Int : k >= 1 /\ k <= b /\ l[k] = q
          BY <3>8, <4>1
        <5>2. w[k] = q
          BY <3>6, <3>10, <5>1
        <5>3. k <= At(counts, p)
          BY <3>6, <5>1
        <5> QED BY <5>1, <5>2, <5>3
      <4>2. CASE q \in own
        <5>1. q = p /\ marks[p] = 1
          BY <4>2
        <5>2. b + 1 \in Int /\ b + 1 >= 1 /\ b + 1 <= At(counts, p) /\ ~ (b + 1 <= b)
          BY <3>6, <5>1
        <5>3. w[b + 1] = p
          BY <3>7, <3>11, <5>1, <5>2
        <5> QED BY <5>1, <5>2, <5>3
      <4>3. CASE q \in R
        <5>1. PICK i \in Int : i >= 1 /\ i <= d /\ r[i] = q
          BY <3>9, <4>3
        <5> DEFINE k == i + b + marks[p]
        <5>2. k \in Int /\ k >= 1 /\ k <= At(counts, p) /\ k > b /\ rest(k) = i /\ ~ (marks[p] = 1 /\ k = b + 1)
          BY <3>6, <5>1
        <5> HIDE DEF k, rest
        <5>3. w[k] = q
          BY <3>6, <3>10, <5>1, <5>2
        <5> QED BY <5>2, <5>3
      <4> QED BY <4>1, <4>2, <4>3
    <3> HIDE DEF own
    <3> QED BY <3>4, <3>11, <3>12, <3>13, <3>14 DEF Leads
  <2> QED BY <2>1, <2>2
<1> HIDE DEF T
<1>3. size \in T
  BY <1>1, <1>2, NatSetInduction
<1> QED BY <1>3 DEF T

\* An insert that throws has given slots away and left the counts as they
\* were (insertCBST before recomputeSubtreeAvail).  By such counts the walks
\* of locateReusableSlots still find every deleted node, no two of them the
\* same, and a walk too many finds nothing.
THEOREM StaleCountsLead ==
  ASSUME NEW size \in Nat, size > 0,
         NEW marked \in [Positions(size) -> {0, 1}], NEW marks \in [Positions(size) -> {0, 1}],
         \A p \in Positions(size) : marks[p] <= marked[p]
  PROVE  LET slots == [k \in 1 .. Sums(marked)[0] |-> KthSlot(marks, Sums(marked), k)] IN
         /\ \A p \in Positions(size) : marks[p] = 1 => \E k \in DOMAIN slots : slots[k] = p
         /\ \A j, k \in DOMAIN slots : j # k /\ slots[j] = slots[k] => slots[j] = NoNode
         /\ \A k \in DOMAIN slots : slots[k] # NoNode => slots[k] \in Positions(size) /\ marks[slots[k]] = 1
<1> DEFINE counts == Sums(marked)
           top == counts[0]
           slots == [k \in 1 .. top |-> KthSlot(marks, counts, k)]
<1>1. counts \in [Positions(size) -> Nat] /\ \A p \in Positions(size) : counts[p] = Reduced(marked, counts, p)
  BY SumsFacts
<1>1a. counts \in [Positions(size) -> Nat]
  BY <1>1
<1> HIDE DEF counts, top, slots
<1>2. ASSUME NEW p \in Positions(size) PROVE counts[p] >= Reduced(marks, counts, p)
  <2>1. At(counts, LeftChild(p)) \in Nat /\ At(counts, RightChild(p)) \in Nat
    BY <1>1 DEF At
  <2>2. marks[p] \in Nat /\ marked[p] \in Nat /\ marks[p] <= marked[p]
    OBVIOUS
  <2>3. counts[p] = Reduced(marked, counts, p)
    BY <1>1
  <2> QED BY <2>1, <2>2, <2>3 DEF Reduced
<1>3. PICK walk : IsCountWalk(size, marks, counts, walk)
  BY <1>1a, CountWalkExists
<1>4. Leads(marks, counts, walk, 0)
  BY <1>1, <1>2, <1>3, WalksLead
<1>5. top \in Nat /\ At(counts, 0) = top
  BY <1>1 DEF At, Positions, top
<1>6. \A q \in Positions(size) : marks[q] = 1 <=> q \in MarkedUnder(marks, 0)
  BY UnderFacts DEF MarkedUnder, Positions
<1>7. MarkedUnder(marks, 0) \subseteq Positions(size)
  BY DEF MarkedUnder
<1>8. \A k \in 1 .. top : slots[k] = walk[<<0, k>>]
  BY <1>3 DEF slots, IsCountWalk
<1>9. DOMAIN slots = 1 .. top
  BY DEF slots
<1>10. ASSUME NEW p \in Positions(size), marks[p] = 1 PROVE \E k \in 1 .. top : slots[k] = p
  <2>1. PICK k \in Int : k >= 1 /\ k <= At(counts, 0) /\ walk[<<0, k>>] = p
    BY <1>4, <1>6, <1>10 DEF Leads
  <2>2. k \in 1 .. top
    BY <1>5, <2>1
  <2> QED BY <1>8, <2>1, <2>2
<1>11. ASSUME NEW j \in 1 .. top, NEW k \in 1 .. top, j # k, slots[j] = slots[k] PROVE slots[j] = NoNode
  <2>1. j \in Int /\ k \in Int /\ j >= 1 /\ k >= 1 /\ (j < k \/ k < j)
    BY <1>11
  <2> QED BY <1>4, <1>8, <1>11, <2>1 DEF Leads
<1>12. ASSUME NEW k \in 1 .. top, slots[k] # NoNode PROVE slots[k] \in Positions(size) /\ marks[slots[k]] = 1
  <2>1. k \in Int /\ k >= 1
    OBVIOUS
  <2>2. slots[k] \in MarkedUnder(marks, 0)
    BY <1>4, <1>8, <1>12, <2>1 DEF Leads
  <2> QED BY <1>6, <1>7, <2>2
<1>13. /\ \A p \in Positions(size) : marks[p] = 1 => \E k \in DOMAIN slots : slots[k] = p
       /\ \A j, k \in DOMAIN slots : j # k /\ slots[j] = slots[k] => slots[j] = NoNode
       /\ \A k \in DOMAIN slots : slots[k] # NoNode => slots[k] \in Positions(size) /\ marks[slots[k]] = 1
  BY <1>9, <1>10, <1>11, <1>12
<1> QED BY <1>13 DEF slots, top, counts

-----------------------------------------------------------------------------
(***************************************************************************)
(* The recomputation of the counts, launch by launch and thread by thread. *)
(***************************************************************************)
SlotTypeOK ==
  /\ n \in 1 .. MaxNodes
  /\ avail \in [Positions(n) -> {0, 1}] /\ sub \in [Positions(n) -> Nat]
  /\ levelStart \in Int /\ levelEnd \in Int /\ todo \subseteq Positions(n)

\* A launch covers one level of the tree, or what there is of the last one.
LaunchesOK ==
  \/ levelStart = -1 /\ levelEnd = -1 /\ todo = {}
  \/ \E h \in Nat :
       /\ levelStart = 2 ^ h - 1 /\ levelStart <= levelEnd
       /\ levelEnd <= 2 * levelStart /\ levelEnd <= n - 1
       /\ todo \subseteq levelStart .. levelEnd

SlotInv == SlotTypeOK /\ LaunchesOK /\ CountedBelow

LEMMA SlotsStart == SlotInit => SlotInv
<1> SUFFICES ASSUME SlotInit PROVE SlotInv
  OBVIOUS
<1> USE DEF SlotInit
<1>1. n \in Nat /\ n > 0
  BY MaxNodesAssumption
<1>2. avail \in [Positions(n) -> {0, 1}] /\ DOMAIN avail = Positions(n) /\ \A q \in Positions(n) : avail[q] = 0
  OBVIOUS
<1>3. SlotTypeOK /\ LaunchesOK
  BY DEF SlotTypeOK, LaunchesOK
<1>4. ASSUME NEW p \in Positions(n) PROVE Sums(avail)[p] = 0
  <2>1. p \in Nat
    BY DEF Positions
  <2>2. MarkedUnder(avail, p) = {}
    BY <1>2 DEF MarkedUnder
  <2>3. At(Sums(avail), p) = 0
    <3>1. Cardinality(MarkedUnder(avail, p)) = At(Sums(avail), p)
      BY <1>1, <1>2, <2>1, SumsCount
    <3> QED BY <2>2, <3>1, FS_EmptySet
  <2>4. DOMAIN Sums(avail) = Positions(n)
    BY <1>1, <1>2, SumsFacts
  <2> QED BY <2>3, <2>4 DEF At
<1>5. CountedBelow
  BY <1>4 DEF CountedBelow
<1> QED BY <1>3, <1>5 DEF SlotInv

\* A new recomputation: every count may be out of date.
LEMMA LaunchKeepsInv ==
  ASSUME SlotInv, LaunchDeepest, UNCHANGED <<n, sub>>, avail' \in [Positions(n) -> {0, 1}]
  PROVE  SlotInv'
<1> DEFINE h == Log2[n]
<1>1. n \in Nat /\ n > 0 /\ n \in 1 .. MaxNodes
  BY MaxNodesAssumption DEF SlotInv, SlotTypeOK
<1>2. h \in Nat /\ 2 ^ h \in Nat /\ 2 ^ h > 0 /\ 2 ^ h <= n /\ n < 2 * 2 ^ h
  <2>1. h \in Nat /\ 2 ^ h <= n /\ n < 2 ^ (h + 1)
    BY <1>1, Log2Facts
  <2> QED BY <2>1, Powers
<1>3. levelStart' = 2 ^ h - 1 /\ levelEnd' = n - 1 /\ todo' = 2 ^ h - 1 .. n - 1
  BY DEF LaunchDeepest
<1> HIDE DEF h
<1>4. SlotTypeOK'
  <2>1. todo' \subseteq Positions(n)
    BY <1>1, <1>2, <1>3 DEF Positions
  <2> QED BY <1>1, <1>2, <1>3, <2>1 DEF SlotInv, SlotTypeOK
<1>5. LaunchesOK'
  <2>1. /\ levelStart' <= levelEnd' /\ levelEnd' <= 2 * levelStart' /\ levelEnd' <= n' - 1
        /\ todo' \subseteq levelStart' .. levelEnd'
    BY <1>1, <1>2, <1>3
  <2> QED BY <1>2, <1>3, <2>1 DEF LaunchesOK
<1>6. CountedBelow'
  BY <1>1, <1>2, <1>3 DEF CountedBelow, Idle, Positions
<1> QED BY <1>4, <1>5, <1>6 DEF SlotInv

LEMMA DeleteKeepsInv ==
  ASSUME SlotInv, NEW gone \in SUBSET Positions(n), Delete(gone)
  PROVE  SlotInv'
<1>1. avail' \in [Positions(n) -> {0, 1}]
  BY DEF SlotInv, SlotTypeOK, Delete
<1> QED BY <1>1, LaunchKeepsInv DEF Delete

LEMMA ThreadKeepsInv ==
  ASSUME SlotInv, NEW p \in Positions(n), ReduceThread(p)
  PROVE  SlotInv'
<1>0. n \in Nat /\ n > 0
  BY MaxNodesAssumption DEF SlotInv, SlotTypeOK
<1>1. /\ p \in todo /\ sub' = [sub EXCEPT ![p] = Reduced(avail, sub, p)] /\ todo' = todo \ {p}
      /\ UNCHANGED <<n, avail, levelStart, levelEnd>>
  BY DEF ReduceThread
<1>2. /\ avail \in [Positions(n) -> {0, 1}] /\ sub \in [Positions(n) -> Nat]
      /\ levelStart \in Int /\ levelEnd \in Int /\ todo \subseteq Positions(n)
  BY DEF SlotInv, SlotTypeOK
<1>3. levelStart >= 0 /\ levelEnd <= 2 * levelStart /\ p \in levelStart .. levelEnd /\ ~ Idle
  <2>1. PICK h \in Nat : /\ levelStart = 2 ^ h - 1 /\ levelEnd <= 2 * levelStart
                         /\ todo \subseteq levelStart .. levelEnd
    BY <1>1 DEF SlotInv, LaunchesOK
  <2>2. 2 ^ h \in Nat /\ 2 ^ h > 0
    BY Powers
  <2> QED BY <1>1, <2>1, <2>2 DEF Idle
<1>4. Sums(avail) \in [Positions(n) -> Nat] /\ Sums(avail)[p] = Reduced(avail, Sums(avail), p)
  BY <1>0, <1>2, SumsFacts
<1>5. At(sub, LeftChild(p)) = At(Sums(avail), LeftChild(p)) /\ At(sub, RightChild(p)) = At(Sums(avail), RightChild(p))
  <2>1. LeftChild(p) > levelEnd /\ RightChild(p) > levelEnd
    BY <1>2, <1>3 DEF LeftChild, RightChild
  <2>2. \A q \in Positions(n) : q > levelEnd => sub[q] = Sums(avail)[q]
    BY DEF SlotInv, CountedBelow
  <2>3. DOMAIN sub = Positions(n) /\ DOMAIN Sums(avail) = Positions(n)
    BY <1>2, <1>4
  <2> QED BY <2>1, <2>2, <2>3 DEF At
<1>6. Reduced(avail, sub, p) = Sums(avail)[p]
  BY <1>4, <1>5 DEF Reduced
<1>7. sub' \in [Positions(n) -> Nat]
  BY <1>1, <1>2, <1>4, <1>6
<1>8. SlotTypeOK'
  BY <1>1, <1>2, <1>7 DEF SlotInv, SlotTypeOK
<1>9. LaunchesOK'
  <2>1. PICK h \in Nat :
          /\ levelStart = 2 ^ h - 1 /\ levelStart <= levelEnd
          /\ levelEnd <= 2 * levelStart /\ levelEnd <= n - 1
          /\ todo \subseteq levelStart .. levelEnd
    BY <1>1 DEF SlotInv, LaunchesOK
  <2>2. todo' \subseteq levelStart' .. levelEnd'
    BY <1>1, <2>1
  <2> QED BY <1>1, <2>1, <2>2 DEF LaunchesOK
<1>10. CountedBelow'
  <2> SUFFICES ASSUME NEW q \in Positions(n), q > levelEnd \/ (q >= levelStart /\ q \notin todo \ {p})
               PROVE  sub'[q] = Sums(avail)[q]
    BY <1>1, <1>3 DEF CountedBelow, Idle
  <2>1. CASE q = p
    BY <1>1, <1>2, <1>6, <2>1
  <2>2. CASE q # p
    <3>1. sub'[q] = sub[q]
      BY <1>1, <1>2, <2>2
    <3>2. sub[q] = Sums(avail)[q]
      BY <2>2 DEF SlotInv, CountedBelow
    <3> QED BY <3>1, <3>2
  <2> QED BY <2>1, <2>2
<1> QED BY <1>8, <1>9, <1>10 DEF SlotInv

LEMMA LevelKeepsInv ==
  ASSUME SlotInv, NextLevel
  PROVE  SlotInv'
<1>0. n \in Nat /\ n > 0
  BY MaxNodesAssumption DEF SlotInv, SlotTypeOK
<1>1. /\ ~ Idle /\ todo = {} /\ levelEnd' = levelStart - 1
      /\ levelStart' = IF levelStart = 0 THEN -1 ELSE (levelStart - 1) \div 2
      /\ todo' = IF levelStart = 0 THEN {} ELSE (levelStart - 1) \div 2 .. levelStart - 1
      /\ UNCHANGED <<n, avail, sub>>
  BY DEF NextLevel
<1>2. PICK h \in Nat : levelStart = 2 ^ h - 1 /\ levelStart <= levelEnd /\ levelEnd <= n - 1
  BY <1>1 DEF SlotInv, LaunchesOK, Idle
<1>3. 2 ^ h \in Nat /\ 2 ^ h > 0 /\ levelStart \in Nat /\ levelEnd \in Int
  <2>1. 2 ^ h \in Nat /\ 2 ^ h > 0
    BY Powers
  <2> QED BY <1>2, <2>1 DEF SlotInv, SlotTypeOK
<1>4. \A q \in Positions(n) : q >= levelStart => sub[q] = Sums(avail)[q]
  BY <1>1 DEF SlotInv, CountedBelow
<1>5. CASE levelStart = 0
  <2>1. levelStart' = -1 /\ levelEnd' = -1 /\ todo' = {}
    BY <1>1, <1>5
  <2>2. SlotTypeOK' /\ LaunchesOK'
    BY <1>1, <2>1 DEF SlotInv, SlotTypeOK, LaunchesOK
  <2>3. \A q \in Positions(n) : sub[q] = Sums(avail)[q]
    BY <1>4, <1>5 DEF Positions
  <2> QED BY <1>1, <2>2, <2>3 DEF SlotInv, CountedBelow
<1>6. CASE levelStart > 0
  <2>1. h # 0
    BY <1>2, <1>6, Powers
  <2>2. h - 1 \in Nat /\ 2 ^ h = 2 * 2 ^ (h - 1) /\ 2 ^ (h - 1) \in Nat /\ 2 ^ (h - 1) > 0
    <3>1. h - 1 \in Nat /\ (h - 1) + 1 = h
      BY <2>1
    <3> QED BY <3>1, Powers
  <2> DEFINE z == 2 ^ (h - 1)
  <2>3. levelStart - 1 = 2 * (z - 1)
    BY <1>2, <2>2
  <2> HIDE DEF z
  <2>4. (levelStart - 1) \div 2 = z - 1 /\ z \in Nat /\ z > 0
    BY <2>2, <2>3 DEF z
  <2>5. /\ levelStart' = z - 1 /\ levelEnd' = levelStart - 1 /\ todo' = z - 1 .. levelStart - 1
        /\ levelEnd' = 2 * levelStart' /\ levelStart' >= 0
    BY <1>1, <1>6, <2>3, <2>4
  <2>6. LaunchesOK'
    <3>1. levelStart' <= levelEnd' /\ levelEnd' <= n' - 1 /\ todo' \subseteq levelStart' .. levelEnd'
      BY <1>0, <1>1, <1>2, <1>3, <2>4, <2>5
    <3>2. levelStart' = 2 ^ (h - 1) - 1 /\ levelEnd' <= 2 * levelStart'
      BY <2>4, <2>5 DEF z
    <3> QED BY <2>2, <3>1, <3>2 DEF LaunchesOK
  <2>7. SlotTypeOK'
    <3>1. todo' \subseteq Positions(n)
      BY <1>0, <1>2, <1>3, <2>4, <2>5 DEF Positions
    <3>2. levelStart' \in Int /\ levelEnd' \in Int
      BY <1>3, <2>4, <2>5
    <3> QED BY <1>1, <3>1, <3>2 DEF SlotInv, SlotTypeOK
  <2>8. CountedBelow'
    <3> SUFFICES ASSUME NEW q \in Positions(n), q > levelStart - 1 \/ (q >= z - 1 /\ q \notin z - 1 .. levelStart - 1)
                 PROVE  sub[q] = Sums(avail)[q]
      BY <1>1, <2>4, <2>5 DEF CountedBelow, Idle
    <3>1. q \in Nat
      BY DEF Positions
    <3>2. q >= levelStart
      BY <1>3, <2>4, <3>1
    <3> QED BY <1>4, <3>2
  <2> QED BY <2>6, <2>7, <2>8 DEF SlotInv
<1> QED BY <1>3, <1>5, <1>6

\* Between two recomputations all counts are right, hence the walks.
LEMMA InvIsSound == SlotInv => SlotsSound
<1> SUFFICES ASSUME SlotInv PROVE SlotsSound
  OBVIOUS
<1>1. n \in Nat /\ n > 0
  BY MaxNodesAssumption DEF SlotInv, SlotTypeOK
<1>2. avail \in [Positions(n) -> {0, 1}] /\ sub \in [Positions(n) -> Nat] /\ DOMAIN avail = Positions(n)
  BY DEF SlotInv, SlotTypeOK
<1>3. ASSUME Idle PROVE sub = Sums(avail)
  <2>1. Sums(avail) \in [Positions(n) -> Nat]
    BY <1>1, <1>2, SumsFacts
  <2>2. \A p \in Positions(n) : sub[p] = Sums(avail)[p]
    BY <1>3 DEF SlotInv, CountedBelow
  <2> QED BY <1>2, <2>1, <2>2
<1>4. ASSUME Idle, NEW k \in 1 .. sub[0]
      PROVE  /\ KthSlot(avail, sub, k) \in Positions(n) /\ avail[KthSlot(avail, sub, k)] = 1
             /\ Cardinality(DeletedUpTo(KthSlot(avail, sub, k))) = k
  <2> DEFINE s == KthSlot(avail, sub, k)
  <2>1. s \in Positions(n) /\ avail[s] = 1 /\ Cardinality(MarkedUpTo(avail, 0, s)) = k
    <3>1. k \in 1 .. Sums(avail)[0]
      BY <1>3, <1>4
    <3> QED BY <1>1, <1>2, <1>3, <1>4, <3>1, WalkByCount
  <2>2. MarkedUpTo(avail, 0, s) = DeletedUpTo(s)
    <3>1. \A q \in Positions(n) : Under(0, q)
      BY UnderFacts DEF Positions
    <3>2. Cardinality(DOMAIN avail) = n
      BY <1>1, <1>2, CardPositions
    <3> HIDE DEF s
    <3> QED BY <1>2, <3>1, <3>2 DEF MarkedUpTo, MarkedUnder, DeletedUpTo
  <2> QED BY <2>1, <2>2
<1>5. SlotsFoundOnce
  BY <1>4 DEF SlotsFoundOnce
<1>6. RanksSearchable
  BY <1>1, RanksAreSearchable
<1> QED BY <1>5, <1>6 DEF SlotsSound, SlotInv

-----------------------------------------------------------------------------
(***************************************************************************)
(* The parts of the matching: sort, lower bound, prefix maximum.           *)
(***************************************************************************)
LEMMA LenOfArray ==
  ASSUME NEW c \in Nat, NEW S, NEW s \in [1 .. c -> S]
  PROVE  s \in Seq(S) /\ Len(s) = c /\ DOMAIN s = 1 .. c
OBVIOUS

\* SortedOrder takes each place once and leaves the entries in order.
LEMMA OrderFacts ==
  ASSUME NEW c \in Nat, NEW s \in [1 .. c -> Nat], NEW order, order = SortedOrder(s)
  PROVE  /\ order \in [1 .. c -> 1 .. c]
         /\ \A i, j \in 1 .. c : order[i] = order[j] => i = j
         /\ \A x \in 1 .. c : \E i \in 1 .. c : order[i] = x
         /\ \A i, j \in 1 .. c : i <= j => s[order[i]] <= s[order[j]]
<1> DEFINE D == DOMAIN s
           before(j, i) == s[j] < s[i] \/ (s[j] = s[i] /\ j < i)
           Ahead(i) == {j \in D : before(j, i)}
           r == [i \in D |-> Cardinality(Ahead(i))]
<1>0. IsFiniteSet(D) /\ Cardinality(D) = c /\ D = 1 .. c
  <2>1. 1 \in Int /\ c \in Int /\ (IF 1 > c THEN 0 ELSE c - 1 + 1) = c
    OBVIOUS
  <2> QED BY <2>1, FS_Interval
<1>1. ASSUME NEW A \in SUBSET D PROVE IsFiniteSet(A) /\ Cardinality(A) \in Nat
  <2> HIDE DEF D
  <2> QED BY <1>0, FS_Subset, FS_CardinalityType
<1>2. ASSUME NEW B \in SUBSET D, NEW A \in SUBSET B, A # B
      PROVE  Cardinality(A) < Cardinality(B)
  <2>1. IsFiniteSet(A) /\ Cardinality(A) \in Nat /\ IsFiniteSet(B) /\ Cardinality(B) \in Nat
    <3> HIDE DEF D
    <3> QED BY <1>1
  <2> HIDE DEF D, before
  <2> QED BY <1>2, <2>1, FS_Subset
<1>3. \A i \in D : Ahead(i) \in SUBSET D /\ i \notin Ahead(i)
  OBVIOUS
<1>4. ASSUME NEW i \in D PROVE r[i] \in 0 .. c - 1
  <2>1. Ahead(i) \in SUBSET D /\ Ahead(i) # D
    BY <1>3
  <2> HIDE DEF Ahead, D
  <2>2. Cardinality(Ahead(i)) < c /\ Cardinality(Ahead(i)) \in Nat
    BY <1>0, <1>1, <1>2, <2>1
  <2> QED BY <2>2
<1>5. ASSUME NEW i \in D, NEW j \in D, before(i, j) PROVE r[i] < r[j]
  <2>1. Ahead(i) \subseteq Ahead(j) /\ i \in Ahead(j) /\ i \notin Ahead(i) /\ Ahead(j) \in SUBSET D
    BY <1>5
  <2> HIDE DEF Ahead, D
  <2> QED BY <1>2, <2>1
<1>6. ASSUME NEW i \in D, NEW j \in D, r[i] = r[j] PROVE i = j
  <2>1. r[i] \in Nat /\ r[j] \in Nat
    BY <1>4
  <2>2. ~ before(i, j) /\ ~ before(j, i)
    <3> HIDE DEF r, before
    <3> QED BY <1>5, <1>6, <2>1
  <2> QED BY <2>2
<1>7. r \in Injection(D, 0 .. c - 1)
  <2> HIDE DEF Ahead
  <2> QED BY <1>4, <1>6 DEF Injection, IsInjective
<1>8. IsFiniteSet(0 .. c - 1) /\ Cardinality(0 .. c - 1) = c
  <2>1. 0 \in Int /\ c - 1 \in Int /\ (IF 0 > c - 1 THEN 0 ELSE c - 1 - 0 + 1) = c
    OBVIOUS
  <2> QED BY <2>1, FS_Interval
<1>9. r \in Surjection(D, 0 .. c - 1)
  <2> HIDE DEF r, D
  <2> QED BY <1>0, <1>7, <1>8, FS_Injection
<1>10. ASSUME NEW i \in D PROVE \E x \in D : r[x] = i - 1
  <2>1. i - 1 \in 0 .. c - 1
    OBVIOUS
  <2> HIDE DEF r, D
  <2> QED BY <1>9, <2>1 DEF Surjection
<1>11. order = [i \in D |-> CHOOSE x \in D : Cardinality(Ahead(x)) = i - 1]
  BY DEF SortedOrder
<1>12. order = [i \in D |-> CHOOSE x \in D : r[x] = i - 1]
  <2>1. ASSUME NEW i \in D PROVE (CHOOSE x \in D : Cardinality(Ahead(x)) = i - 1) = (CHOOSE x \in D : r[x] = i - 1)
    <3>1. \A x \in D : (Cardinality(Ahead(x)) = i - 1) <=> (r[x] = i - 1)
      OBVIOUS
    <3> HIDE DEF r, D, Ahead
    <3> QED BY <3>1
  <2> HIDE DEF r, D, Ahead
  <2> QED BY <1>11, <2>1
<1> HIDE DEF r
<1>13. \A i \in D : order[i] \in D /\ r[order[i]] = i - 1
  <2> HIDE DEF D
  <2> QED BY <1>10, <1>12
<1>14. order \in [D -> D]
  <2> HIDE DEF D
  <2> QED BY <1>12, <1>13
<1>15. ASSUME NEW i \in D, NEW j \in D, order[i] = order[j] PROVE i = j
  <2>1. i - 1 = j - 1
    <3> HIDE DEF D
    <3> QED BY <1>13, <1>15
  <2> QED BY <2>1
<1>16. ASSUME NEW x \in D PROVE \E i \in D : order[i] = x
  <2>1. r[x] \in 0 .. c - 1
    BY <1>4
  <2>2. PICK y \in D : r[x] = y - 1
    <3>1. r[x] + 1 \in D /\ r[x] = (r[x] + 1) - 1
      BY <1>0, <2>1
    <3> QED BY <3>1
  <2>3. r[order[y]] = r[x] /\ order[y] \in D
    <3> HIDE DEF D
    <3> QED BY <1>13, <2>2
  <2> QED BY <1>6, <2>3
<1>17. ASSUME NEW i \in D, NEW j \in D, i <= j PROVE s[order[i]] <= s[order[j]]
  <2>1. order[i] \in D /\ order[j] \in D /\ r[order[i]] <= r[order[j]] /\ r[order[i]] \in Nat /\ r[order[j]] \in Nat
    BY <1>13, <1>17
  <2>2. ~ before(order[j], order[i])
    <3> HIDE DEF before, D
    <3> QED BY <1>5, <2>1
  <2>3. s[order[i]] \in Nat /\ s[order[j]] \in Nat
    BY <2>1
  <2> QED BY <2>2, <2>3
<1> HIDE DEF D
<1> QED BY <1>0, <1>14, <1>15, <1>16, <1>17

\* lo is the first of the c sorted slots that holds size values.
FirstFit(caps, c, size, lo) ==
  /\ lo \in 1 .. c + 1
  /\ \A j \in 1 .. c : IF j < lo THEN caps[j] < size ELSE size <= caps[j]

Halves(search, caps, size, lo, hi, mid) ==
  /\ lo <= mid /\ mid < hi
  /\ search[<<lo, hi>>] = IF caps[mid] < size THEN search[<<mid + 1, hi>>] ELSE search[<<lo, mid>>]

Searches(search, caps, size) ==
  /\ \A lo, hi \in Nat : lo >= hi => search[<<lo, hi>>] = lo
  /\ \A lo, hi \in Nat : lo < hi => \E mid \in Nat : Halves(search, caps, size, lo, hi, mid)

LEMMA LowerBoundUnfolds ==
  ASSUME NEW c \in Nat, NEW caps \in [1 .. c -> Nat], NEW size \in Nat
  PROVE  \E search : LowerBound(caps, size) = search[<<1, c + 1>>] /\ Searches(search, caps, size)
<1> DEFINE A == Nat \X Nat
           mid(lo, hi) == lo + (hi - lo) \div 2
           S == {at \in A : at[1] >= at[2]}
           out == [at \in A |-> at[1]]
           next == [at \in A |-> IF caps[mid(at[1], at[2])] < size THEN <<mid(at[1], at[2]) + 1, at[2]>>
                                 ELSE <<at[1], mid(at[1], at[2])>>]
           m == [at \in A |-> IF at[1] >= at[2] THEN 0 ELSE at[2] - at[1]]
           Step(g, lo, hi) == IF lo >= hi THEN lo
                              ELSE IF caps[mid(lo, hi)] < size THEN g[<<mid(lo, hi) + 1, hi>>]
                              ELSE g[<<lo, mid(lo, hi)>>]
           Solves(g) == g = [at \in A |-> Step(g, at[1], at[2])]
           search == CHOOSE g : Solves(g)
<1>1. Len(caps) = c
  BY LenOfArray
<1>2. LowerBound(caps, size) = search[<<1, c + 1>>]
  BY <1>1 DEF LowerBound
<1>3. ASSUME NEW lo \in Nat, NEW hi \in Nat, lo < hi PROVE mid(lo, hi) \in Nat /\ lo <= mid(lo, hi) /\ mid(lo, hi) < hi
  <2>1. hi - lo \in Nat /\ hi - lo > 0
    BY <1>3
  <2>2. (hi - lo) \div 2 \in Nat /\ (hi - lo) \div 2 < hi - lo
    BY <2>1
  <2> QED BY <2>2
<1> HIDE DEF mid
<1>4. IsWalk(A, S, out, next, m)
  <2>1. ASSUME NEW at \in A \ S PROVE next[at] \in A /\ m[next[at]] < m[at]
    <3>1. PICK lo \in Nat, hi \in Nat : at = <<lo, hi>> /\ lo < hi
      BY <2>1
    <3>2. mid(lo, hi) \in Nat /\ lo <= mid(lo, hi) /\ mid(lo, hi) < hi
      BY <1>3, <3>1
    <3>3. PICK a \in Nat, b \in Nat : next[at] = <<a, b>> /\ lo <= a /\ b <= hi /\ (lo < a \/ b < hi)
      BY <3>1, <3>2
    <3>4. m[next[at]] = (IF a >= b THEN 0 ELSE b - a) /\ m[at] = hi - lo
      BY <3>1, <3>3
    <3> QED BY <3>1, <3>3, <3>4
  <2>2. DOMAIN out = A /\ \A at \in A : m[at] \in Nat
    OBVIOUS
  <2> HIDE DEF A, S, out, next, m
  <2> QED BY <2>1, <2>2 DEF IsWalk
<1>5. \E g : Solves(g)
  <2>1. PICK f : \A at \in A : f[at] = (IF at \in S THEN out[at] ELSE f[next[at]])
    <3> HIDE DEF A, S, out, next, m
    <3> QED BY <1>4, TailRecursion
  <2> DEFINE g == [at \in A |-> f[at]]
  <2>2. ASSUME NEW lo \in Nat, NEW hi \in Nat PROVE g[<<lo, hi>>] = Step(g, lo, hi)
    <3>1. lo < hi => mid(lo, hi) \in Nat
      BY <1>3
    <3>2. g[<<lo, hi>>] = (IF lo >= hi THEN lo
                           ELSE IF caps[mid(lo, hi)] < size THEN f[<<mid(lo, hi) + 1, hi>>]
                           ELSE f[<<lo, mid(lo, hi)>>])
      BY <2>1
    <3>3. lo < hi => /\ g[<<mid(lo, hi) + 1, hi>>] = f[<<mid(lo, hi) + 1, hi>>]
                     /\ g[<<lo, mid(lo, hi)>>] = f[<<lo, mid(lo, hi)>>]
      BY <3>1
    <3> HIDE DEF g
    <3> QED BY <3>2, <3>3
  <2>3. g = [at \in A |-> g[at]]
    OBVIOUS
  <2> HIDE DEF g, Step
  <2>4. \A at \in A : g[at] = Step(g, at[1], at[2])
    BY <2>2
  <2>5. Solves(g)
    BY <2>3, <2>4
  <2> HIDE DEF Solves
  <2> QED BY <2>5
<1> HIDE DEF Solves
<1>6. Solves(search)
  BY <1>5
<1> HIDE DEF search
<1>7. \A lo, hi \in Nat : search[<<lo, hi>>] = Step(search, lo, hi)
  <2> HIDE DEF Step
  <2> QED BY <1>6 DEF Solves
<1>8. Searches(search, caps, size)
  <2>1. ASSUME NEW lo \in Nat, NEW hi \in Nat, lo >= hi PROVE search[<<lo, hi>>] = lo
    BY <1>7, <2>1
  <2>2. ASSUME NEW lo \in Nat, NEW hi \in Nat, lo < hi
        PROVE  \E k \in Nat : Halves(search, caps, size, lo, hi, k)
    <3>1. mid(lo, hi) \in Nat /\ lo <= mid(lo, hi) /\ mid(lo, hi) < hi
      BY <1>3, <2>2
    <3>2. ~ (lo >= hi)
      BY <2>2
    <3>3. search[<<lo, hi>>] = Step(search, lo, hi)
      BY <1>7
    <3>4. search[<<lo, hi>>] = IF caps[mid(lo, hi)] < size THEN search[<<mid(lo, hi) + 1, hi>>]
                               ELSE search[<<lo, mid(lo, hi)>>]
      BY <3>2, <3>3
    <3> QED BY <3>1, <3>4 DEF Halves
  <2> QED BY <2>1, <2>2 DEF Searches
<1> QED BY <1>2, <1>8

LEMMA LowerBoundFacts ==
  ASSUME NEW c \in Nat, NEW caps \in [1 .. c -> Nat], NEW size \in Nat,
         \A i, j \in 1 .. c : i <= j => caps[i] <= caps[j]
  PROVE  FirstFit(caps, c, size, LowerBound(caps, size))
<1>1. PICK search : LowerBound(caps, size) = search[<<1, c + 1>>] /\ Searches(search, caps, size)
  BY LowerBoundUnfolds
<1> DEFINE Between(lo, hi) == /\ lo >= 1 /\ lo <= hi /\ hi <= c + 1
                              /\ \A j \in 1 .. c : (j < lo => caps[j] < size) /\ (hi <= j => size <= caps[j])
           T == {k \in Nat : \A lo, hi \in Nat :
                               hi - lo <= k /\ Between(lo, hi) => FirstFit(caps, c, size, search[<<lo, hi>>])}
<1>2. ASSUME NEW lo \in Nat, Between(lo, lo) PROVE FirstFit(caps, c, size, search[<<lo, lo>>])
  <2>1. search[<<lo, lo>>] = lo
    BY <1>1 DEF Searches
  <2> QED BY <1>2, <2>1 DEF FirstFit
<1>3. 0 \in T
  <2> SUFFICES ASSUME NEW lo \in Nat, NEW hi \in Nat, hi - lo <= 0, Between(lo, hi)
               PROVE  FirstFit(caps, c, size, search[<<lo, hi>>])
    OBVIOUS
  <2>1. hi = lo
    OBVIOUS
  <2> HIDE DEF Between
  <2> QED BY <1>2, <2>1
<1>4. ASSUME NEW k \in Nat, k \in T PROVE k + 1 \in T
  <2> SUFFICES ASSUME NEW lo \in Nat, NEW hi \in Nat, hi - lo <= k + 1, Between(lo, hi)
               PROVE  FirstFit(caps, c, size, search[<<lo, hi>>])
    OBVIOUS
  <2>1. CASE lo = hi
    <3> HIDE DEF Between
    <3> QED BY <1>2, <2>1
  <2>2. CASE lo < hi
    <3>0. PICK mid \in Nat : Halves(search, caps, size, lo, hi, mid)
      <4> HIDE DEF Between, T
      <4> QED BY <1>1, <2>2 DEF Searches
    <3>1. /\ lo <= mid /\ mid < hi
          /\ search[<<lo, hi>>] = IF caps[mid] < size THEN search[<<mid + 1, hi>>] ELSE search[<<lo, mid>>]
      BY <3>0 DEF Halves
    <3>2. mid \in 1 .. c
      BY <3>1
    <3>3. \A j \in 1 .. c : caps[j] \in Nat
      OBVIOUS
    <3>4. CASE caps[mid] < size
      <4>1. Between(mid + 1, hi)
        <5>1. ASSUME NEW j \in 1 .. c, j < mid + 1 PROVE caps[j] < size
          <6>1. j <= mid
            BY <3>1, <3>2, <5>1
          <6>2. caps[j] <= caps[mid]
            BY <3>1, <3>2, <6>1
          <6> QED BY <3>1, <3>2, <3>3, <3>4, <6>2
        <5> QED BY <3>1, <5>1
      <4>2. hi - (mid + 1) <= k /\ mid + 1 \in Nat
        BY <3>1
      <4>3. FirstFit(caps, c, size, search[<<mid + 1, hi>>])
        <5> HIDE DEF Between
        <5> QED BY <1>4, <4>1, <4>2
      <4> QED BY <3>1, <3>4, <4>3
    <3>5. CASE ~ (caps[mid] < size)
      <4>1. Between(lo, mid)
        <5>1. ASSUME NEW j \in 1 .. c, mid <= j PROVE size <= caps[j]
          <6>1. caps[mid] <= caps[j]
            BY <3>1, <3>2, <5>1
          <6> QED BY <3>1, <3>2, <3>3, <3>5, <6>1
        <5> QED BY <3>1, <5>1
      <4>2. mid - lo <= k
        BY <3>1
      <4>3. FirstFit(caps, c, size, search[<<lo, mid>>])
        <5> HIDE DEF Between
        <5> QED BY <1>4, <3>1, <4>1, <4>2
      <4> QED BY <3>1, <3>5, <4>3
    <3> QED BY <3>4, <3>5
  <2> QED BY <2>1, <2>2
<1>5. Between(1, c + 1) /\ c + 1 \in Nat /\ (c + 1) - 1 <= c
  OBVIOUS
<1> HIDE DEF T, Between
<1>6. c \in T
  BY <1>3, <1>4, NatSetInduction
<1>7. FirstFit(caps, c, size, search[<<1, c + 1>>])
  BY <1>5, <1>6 DEF T
<1> QED BY <1>1, <1>7

LEMMA PrefixMaxFacts ==
  ASSUME NEW z \in Nat, NEW b \in [1 .. z -> Int], NEW i \in 1 .. z
  PROVE  /\ PrefixMax(b)[i] \in Int
         /\ \E j \in 1 .. i : PrefixMax(b)[i] = b[j]
         /\ \A j \in 1 .. i : b[j] <= PrefixMax(b)[i]
<1> DEFINE V(k) == {b[j] : j \in 1 .. k}
           T == {k \in Nat : k + 1 <= z => \E x \in V(k + 1) : \A y \in V(k + 1) : x >= y}
<1>1. 0 \in T
  <2> SUFFICES ASSUME 1 <= z PROVE \E x \in V(1) : \A y \in V(1) : x >= y
    OBVIOUS
  <2>1. V(1) = {b[1]} /\ b[1] \in Int
    OBVIOUS
  <2>2. b[1] \in V(1) /\ \A y \in V(1) : b[1] >= y
    BY <2>1
  <2> QED BY <2>2
<1>2. ASSUME NEW k \in Nat, k \in T PROVE k + 1 \in T
  <2> SUFFICES ASSUME k + 1 + 1 <= z PROVE \E x \in V(k + 1 + 1) : \A y \in V(k + 1 + 1) : x >= y
    OBVIOUS
  <2>1. PICK x \in V(k + 1) : \A y \in V(k + 1) : x >= y
    BY <1>2
  <2>2. V(k + 1 + 1) = V(k + 1) \cup {b[k + 2]} /\ b[k + 2] \in Int /\ V(k + 1) \subseteq Int
    OBVIOUS
  <2> HIDE DEF V, T
  <2>3. CASE x >= b[k + 2]
    BY <2>1, <2>2, <2>3
  <2>4. CASE ~ (x >= b[k + 2])
    <3>1. x \in Int /\ \A y \in V(k + 1) : y \in Int /\ b[k + 2] >= y
      BY <2>1, <2>2, <2>4
    <3>2. b[k + 2] \in V(k + 1 + 1) /\ \A y \in V(k + 1 + 1) : b[k + 2] >= y
      BY <2>2, <3>1
    <3> QED BY <3>2
  <2> QED BY <2>3, <2>4
<1>3. i - 1 \in T
  <2> HIDE DEF T
  <2>1. i - 1 \in Nat
    OBVIOUS
  <2> QED BY <1>1, <1>2, <2>1, NatSetInduction
<1>4. \E x \in V(i) : \A y \in V(i) : x >= y
  <2>1. i - 1 + 1 = i /\ i <= z
    OBVIOUS
  <2> HIDE DEF V
  <2> QED BY <1>3, <2>1
<1>5. PrefixMax(b)[i] = Max(V(i))
  BY DEF PrefixMax
<1>6. Max(V(i)) \in V(i) /\ \A y \in V(i) : Max(V(i)) >= y
  <2> HIDE DEF V
  <2> QED BY <1>4 DEF Max
<1>7. \A j \in 1 .. i : b[j] \in Int
  OBVIOUS
<1> QED BY <1>5, <1>6, <1>7

-----------------------------------------------------------------------------
(***************************************************************************)
(* The matching.                                                           *)
(***************************************************************************)
Ascends(c, s) == \A i, j \in 1 .. c : i <= j => s[i] <= s[j]

\* Every row is put at or after the first slot that holds it, after the rows
\* before it, and no later than some row up to it makes necessary.
LEMMA AssignedFacts ==
  ASSUME NEW c \in Nat, NEW z \in Nat, NEW caps \in [1 .. c -> Nat], NEW sizes \in [1 .. z -> Nat],
         Ascends(c, caps), NEW a, a = Assigned(caps, sizes)
  PROVE  /\ a \in [1 .. z -> Nat]
         /\ \A i \in 1 .. z : a[i] >= 1 /\ (a[i] <= c => sizes[i] <= caps[a[i]])
         /\ \A i, j \in 1 .. z : i < j => a[i] < a[j]
         /\ \A i \in 1 .. z : \E j \in 1 .. i : FirstFit(caps, c, sizes[j], a[i] - i + j)
<1> DEFINE lo(i) == LowerBound(caps, sizes[i])
           b == [i \in 1 .. z |-> lo(i) - i]
<1>1. DOMAIN sizes = 1 .. z
  OBVIOUS
<1>2. \A i \in 1 .. z : FirstFit(caps, c, sizes[i], lo(i)) /\ sizes[i] \in Nat
  BY LowerBoundFacts DEF Ascends
<1> HIDE DEF lo
<1>3. \A i \in 1 .. z : lo(i) \in 1 .. c + 1 /\ lo(i) \in Nat
  BY <1>2 DEF FirstFit
<1>4. b \in [1 .. z -> Int] /\ \A i \in 1 .. z : b[i] = lo(i) - i
  BY <1>3
<1>5. a = [i \in 1 .. z |-> i + PrefixMax(b)[i]]
  BY <1>1 DEF Assigned, lo
<1> HIDE DEF b
<1>6. \A i \in 1 .. z : /\ PrefixMax(b)[i] \in Int
                        /\ \E j \in 1 .. i : PrefixMax(b)[i] = b[j]
                        /\ \A j \in 1 .. i : b[j] <= PrefixMax(b)[i]
  BY <1>4, PrefixMaxFacts
<1> DEFINE P(i) == PrefixMax(b)[i]
<1>7. \A i \in 1 .. z : a[i] = i + P(i) /\ P(i) \in Int
  BY <1>5, <1>6
<1>8. \A i \in 1 .. z : \A j \in 1 .. i : j \in 1 .. z /\ b[j] \in Int /\ b[j] <= P(i)
  <2>1. \A i \in 1 .. z : \A j \in 1 .. i : j \in 1 .. z
    OBVIOUS
  <2> QED BY <1>4, <1>6, <2>1
<1>9. \A i \in 1 .. z : \E j \in 1 .. i : P(i) = b[j]
  BY <1>6
<1> HIDE DEF P
<1>10. ASSUME NEW i \in 1 .. z PROVE a[i] \in Nat /\ a[i] >= 1 /\ a[i] >= lo(i)
  <2>1. 1 \in 1 .. i /\ i \in 1 .. i
    OBVIOUS
  <2>2. b[1] <= P(i) /\ b[i] <= P(i) /\ 1 \in 1 .. z
    BY <1>8, <2>1
  <2>3. b[1] = lo(1) - 1 /\ b[i] = lo(i) - i /\ lo(1) >= 1 /\ lo(1) \in Nat /\ lo(i) \in Nat
    BY <1>3, <1>4, <2>2
  <2> QED BY <1>7, <2>2, <2>3
<1>11. ASSUME NEW i \in 1 .. z, a[i] <= c PROVE sizes[i] <= caps[a[i]]
  BY <1>2, <1>10, <1>11 DEF FirstFit
<1>12. ASSUME NEW i \in 1 .. z, NEW j \in 1 .. z, i < j PROVE a[i] < a[j]
  <2>1. PICK k \in 1 .. i : P(i) = b[k]
    BY <1>9
  <2>2. k \in 1 .. j
    BY <1>12
  <2>3. P(i) <= P(j)
    BY <1>8, <2>1, <2>2
  <2> QED BY <1>7, <1>12, <2>3
<1>13. ASSUME NEW i \in 1 .. z PROVE \E j \in 1 .. i : FirstFit(caps, c, sizes[j], a[i] - i + j)
  <2>1. PICK k \in 1 .. i : P(i) = b[k]
    BY <1>9
  <2>2. k \in 1 .. z
    OBVIOUS
  <2>3. a[i] - i + k = lo(k)
    <3>1. a[i] = i + P(i) /\ P(i) \in Int
      BY <1>7
    <3>2. P(i) = lo(k) - k /\ lo(k) \in Nat /\ k \in Int
      BY <1>3, <1>4, <2>1, <2>2
    <3> QED BY <3>1, <3>2
  <2> QED BY <1>2, <2>2, <2>3
<1>14. a \in [1 .. z -> Nat]
  BY <1>5, <1>10
<1> QED BY <1>10, <1>11, <1>12, <1>13, <1>14

LEMMA CardInterval ==
  ASSUME NEW a \in Int, NEW b \in Int, a <= b + 1
  PROVE  IsFiniteSet(a .. b) /\ Cardinality(a .. b) = b + 1 - a
<1>1. IsFiniteSet(a .. b) /\ Cardinality(a .. b) = IF a > b THEN 0 ELSE b - a + 1
  BY FS_Interval
<1> QED BY <1>1

\* A set that holds with every number the smaller ones is an interval.
LEMMA CountIsLast ==
  ASSUME NEW z \in Nat, NEW D \in SUBSET (1 .. z), \A i, j \in 1 .. z : i <= j /\ j \in D => i \in D
  PROVE  Cardinality(D) \in 0 .. z /\ D = 1 .. Cardinality(D)
<1>1. CASE D = 1 .. z
  <2>1. Cardinality(1 .. z) = z
    BY CardInterval
  <2> QED BY <1>1, <2>1
<1>2. CASE D # 1 .. z
  <2> DEFINE Out == (1 .. z) \ D
  <2>1. Out # {} /\ Out \subseteq Nat
    <3>1. PICK x \in 1 .. z : x \notin D
      BY <1>2
    <3>2. Out \subseteq Nat
      OBVIOUS
    <3> QED BY <3>1, <3>2
  <2>2. PICK k \in Out : \A y \in Out : k <= y
    BY <2>1, LeastNatural
  <2>3. D = 1 .. k - 1
    <3>1. ASSUME NEW i \in 1 .. k - 1 PROVE i \in D
      BY <2>2
    <3>2. ASSUME NEW i \in D PROVE i \in 1 .. k - 1
      BY <2>2
    <3> QED BY <3>1, <3>2
  <2>4. k \in Nat /\ k >= 1 /\ k <= z
    BY <2>2
  <2>5. Cardinality(1 .. k - 1) = k - 1
    BY <2>4, CardInterval
  <2> QED BY <2>3, <2>4, <2>5
<1> QED BY <1>1, <1>2

\* What Matches works with, and how many rows it places.
MatchedBy(caps, sizes, c, z, slotOrder, itemOrder, sorted, rows, assigned, last) ==
  /\ slotOrder = SortedOrder(caps) /\ itemOrder = SortedOrder(sizes)
  /\ sorted \in [1 .. c -> Nat] /\ \A k \in 1 .. c : sorted[k] = caps[slotOrder[k]]
  /\ rows \in [1 .. z -> Nat] /\ \A i \in 1 .. z : rows[i] = sizes[itemOrder[i]]
  /\ Ascends(c, sorted) /\ Ascends(z, rows)
  /\ assigned = Assigned(sorted, rows)
  /\ last \in 0 .. z /\ \A i \in 1 .. z : assigned[i] <= c <=> i <= last
  /\ Matches(caps, sizes) = {<<itemOrder[i], slotOrder[assigned[i]]>> : i \in 1 .. last}

\* order puts the places 1 .. c into an order of their own.
IsOrder(c, order) ==
  /\ order \in [1 .. c -> 1 .. c]
  /\ \A i, j \in 1 .. c : order[i] = order[j] => i = j
  /\ \A x \in 1 .. c : \E i \in 1 .. c : order[i] = x

LEMMA SortedOrderIsOrder ==
  ASSUME NEW c \in Nat, NEW s \in [1 .. c -> Nat]
  PROVE  IsOrder(c, SortedOrder(s))
<1> DEFINE order == SortedOrder(s)
<1>1. /\ order \in [1 .. c -> 1 .. c]
      /\ \A i, j \in 1 .. c : order[i] = order[j] => i = j
      /\ \A x \in 1 .. c : \E i \in 1 .. c : order[i] = x
      /\ \A i, j \in 1 .. c : i <= j => s[order[i]] <= s[order[j]]
  BY OrderFacts
<1> HIDE DEF order
<1>2. IsOrder(c, order)
  BY <1>1 DEF IsOrder
<1> QED BY <1>2 DEF order

LEMMA MatchFacts ==
  ASSUME NEW c \in Nat, NEW z \in Nat, NEW caps \in [1 .. c -> Nat], NEW sizes \in [1 .. z -> Nat]
  PROVE  \E slotOrder, itemOrder, sorted, rows, assigned, last :
           MatchedBy(caps, sizes, c, z, slotOrder, itemOrder, sorted, rows, assigned, last)
<1> DEFINE slotOrder == SortedOrder(caps)
           itemOrder == SortedOrder(sizes)
           sorted == Permuted(caps, slotOrder)
           rows == Permuted(sizes, itemOrder)
           assigned == Assigned(sorted, rows)
           D == {i \in DOMAIN assigned : assigned[i] <= c}
           last == Cardinality(D)
<1>1. Len(caps) = c /\ DOMAIN caps = 1 .. c /\ DOMAIN sizes = 1 .. z
  BY LenOfArray
<1>2. Matches(caps, sizes) = {<<itemOrder[i], slotOrder[assigned[i]]>> : i \in 1 .. last}
  BY <1>1 DEF Matches
<1>3. /\ slotOrder \in [1 .. c -> 1 .. c] /\ itemOrder \in [1 .. z -> 1 .. z]
      /\ \A i, j \in 1 .. c : i <= j => caps[slotOrder[i]] <= caps[slotOrder[j]]
      /\ \A i, j \in 1 .. z : i <= j => sizes[itemOrder[i]] <= sizes[itemOrder[j]]
  BY OrderFacts
<1>4. sorted = [k \in 1 .. c |-> caps[slotOrder[k]]] /\ rows = [i \in 1 .. z |-> sizes[itemOrder[i]]]
  BY <1>1 DEF Permuted
<1> HIDE DEF slotOrder, itemOrder, sorted, rows
<1>5. /\ sorted \in [1 .. c -> Nat] /\ \A k \in 1 .. c : sorted[k] = caps[slotOrder[k]]
      /\ rows \in [1 .. z -> Nat] /\ \A i \in 1 .. z : rows[i] = sizes[itemOrder[i]]
      /\ Ascends(c, sorted) /\ Ascends(z, rows)
  BY <1>3, <1>4 DEF Ascends
<1>6. /\ assigned \in [1 .. z -> Nat]
      /\ \A i, j \in 1 .. z : i < j => assigned[i] < assigned[j]
  BY <1>5, AssignedFacts
<1> HIDE DEF assigned
<1>7. D \in SUBSET (1 .. z) /\ \A i, j \in 1 .. z : i <= j /\ j \in D => i \in D
  <2>1. DOMAIN assigned = 1 .. z /\ \A i \in 1 .. z : assigned[i] \in Nat
    BY <1>6
  <2>2. ASSUME NEW i \in 1 .. z, NEW j \in 1 .. z, i <= j, j \in D PROVE i \in D
    <3>1. i = j \/ assigned[i] < assigned[j]
      BY <1>6, <2>2
    <3> QED BY <2>1, <2>2, <3>1
  <2> QED BY <2>1, <2>2
<1>8. last \in 0 .. z /\ D = 1 .. last
  <2> HIDE DEF D
  <2> QED BY <1>7, CountIsLast
<1>9. \A i \in 1 .. z : assigned[i] <= c <=> i <= last
  <2>1. \A i \in 1 .. z : i \in D <=> assigned[i] <= c
    BY <1>6
  <2>2. \A i \in 1 .. z : i \in 1 .. last <=> i <= last
    BY <1>8
  <2> HIDE DEF D, last
  <2> QED BY <1>8, <2>1, <2>2
<1> HIDE DEF last, D
<1>10. slotOrder = SortedOrder(caps) /\ itemOrder = SortedOrder(sizes) /\ assigned = Assigned(sorted, rows)
  BY DEF slotOrder, itemOrder, assigned
<1>11. MatchedBy(caps, sizes, c, z, slotOrder, itemOrder, sorted, rows, assigned, last)
  BY <1>2, <1>5, <1>8, <1>9, <1>10 DEF MatchedBy
<1> QED BY <1>11

LEMMA InjectionBounds ==
  ASSUME NEW S, NEW k \in Int, NEW l \in Int, k <= l + 1, NEW f \in [S -> k .. l],
         \A x, y \in S : f[x] = f[y] => x = y
  PROVE  IsFiniteSet(S) /\ Cardinality(S) <= l + 1 - k
<1>1. f \in Injection(S, k .. l)
  BY DEF Injection, IsInjective
<1>2. IsFiniteSet(k .. l) /\ Cardinality(k .. l) = l + 1 - k
  BY CardInterval
<1> QED BY <1>1, <1>2, FS_Injection

\* The matching gives no slot twice, cuts no row off, and places as many rows
\* as can be placed.
BestMatching(c, z, caps, sizes, matches) ==
  /\ IsFiniteSet(matches)
  /\ \A m \in matches : m[1] \in 1 .. z /\ m[2] \in 1 .. c /\ sizes[m[1]] <= caps[m[2]]
  /\ \A m1, m2 \in matches : (m1[1] = m2[1]) <=> (m1[2] = m2[2])
  /\ \A some \in SUBSET (1 .. z) : \A f :
       /\ f \in [some -> 1 .. c] /\ \A x, y \in some : f[x] = f[y] => x = y
       /\ \A x \in some : sizes[x] <= caps[f[x]]
       => Cardinality(some) <= Cardinality(matches)

LEMMA MatchingIsBest ==
  ASSUME NEW c \in Nat, NEW z \in Nat, NEW caps \in [1 .. c -> Nat], NEW sizes \in [1 .. z -> Nat]
  PROVE  BestMatching(c, z, caps, sizes, Matches(caps, sizes))
<1> DEFINE matches == Matches(caps, sizes)
<1>0. matches = Matches(caps, sizes)
  OBVIOUS
<1> HIDE DEF matches
<1>1. PICK slotOrder, itemOrder, sorted, rows, a, last :
        MatchedBy(caps, sizes, c, z, slotOrder, itemOrder, sorted, rows, a, last)
  BY MatchFacts
<1>2. /\ slotOrder = SortedOrder(caps) /\ itemOrder = SortedOrder(sizes)
      /\ sorted \in [1 .. c -> Nat] /\ \A k \in 1 .. c : sorted[k] = caps[slotOrder[k]]
      /\ rows \in [1 .. z -> Nat] /\ \A i \in 1 .. z : rows[i] = sizes[itemOrder[i]]
      /\ Ascends(c, sorted) /\ Ascends(z, rows)
      /\ a = Assigned(sorted, rows)
      /\ last \in 0 .. z /\ \A i \in 1 .. z : a[i] <= c <=> i <= last
      /\ matches = {<<itemOrder[i], slotOrder[a[i]]>> : i \in 1 .. last}
  BY <1>0, <1>1 DEF MatchedBy
<1>2a. slotOrder = SortedOrder(caps) /\ itemOrder = SortedOrder(sizes)
  BY <1>2
<1>2b. last \in Nat /\ last <= z
  BY <1>2
<1>2c. \A i \in 1 .. z : a[i] <= c <=> i <= last
  BY <1>2
<1>3. /\ slotOrder \in [1 .. c -> 1 .. c]
      /\ \A i, j \in 1 .. c : slotOrder[i] = slotOrder[j] => i = j
      /\ \A x \in 1 .. c : \E i \in 1 .. c : slotOrder[i] = x
  <2>1. IsOrder(c, slotOrder)
    BY <1>2a, SortedOrderIsOrder
  <2> QED BY <2>1 DEF IsOrder
<1>4. /\ itemOrder \in [1 .. z -> 1 .. z]
      /\ \A i, j \in 1 .. z : itemOrder[i] = itemOrder[j] => i = j
      /\ \A x \in 1 .. z : \E i \in 1 .. z : itemOrder[i] = x
  <2>1. IsOrder(z, itemOrder)
    BY <1>2a, SortedOrderIsOrder
  <2> QED BY <2>1 DEF IsOrder
<1>5. /\ a \in [1 .. z -> Nat]
      /\ \A i \in 1 .. z : a[i] >= 1 /\ (a[i] <= c => rows[i] <= sorted[a[i]])
      /\ \A i, j \in 1 .. z : i < j => a[i] < a[j]
      /\ \A i \in 1 .. z : \E j \in 1 .. i : FirstFit(sorted, c, rows[j], a[i] - i + j)
  BY <1>2, AssignedFacts
<1>6. \A i \in 1 .. last : i \in 1 .. z /\ a[i] \in 1 .. c
  <2>1. \A i \in 1 .. z : a[i] \in Nat /\ a[i] >= 1
    BY <1>5
  <2>2. ASSUME NEW i \in 1 .. last PROVE i \in 1 .. z /\ i <= last
    BY <1>2b
  <2>3. ASSUME NEW i \in 1 .. last PROVE a[i] \in 1 .. c
    <3>1. a[i] \in Nat /\ a[i] >= 1 /\ a[i] <= c
      BY <1>2c, <2>1, <2>2
    <3> QED BY <3>1
  <2> QED BY <2>2, <2>3
<1>7. ASSUME NEW m \in matches PROVE m[1] \in 1 .. z /\ m[2] \in 1 .. c /\ sizes[m[1]] <= caps[m[2]]
  <2>1. PICK i \in 1 .. last : m = <<itemOrder[i], slotOrder[a[i]]>>
    BY <1>2
  <2>2. m[1] = itemOrder[i] /\ m[2] = slotOrder[a[i]] /\ i \in 1 .. z /\ a[i] \in 1 .. c
    BY <1>6, <2>1
  <2>3. rows[i] <= sorted[a[i]]
    BY <1>5, <2>2
  <2>4. rows[i] = sizes[itemOrder[i]] /\ sorted[a[i]] = caps[slotOrder[a[i]]]
    BY <1>2, <2>2
  <2> QED BY <1>3, <1>4, <2>2, <2>3, <2>4
<1>8. ASSUME NEW i \in 1 .. last, NEW j \in 1 .. last
      PROVE  (itemOrder[i] = itemOrder[j]) <=> (slotOrder[a[i]] = slotOrder[a[j]])
  <2>1. i \in 1 .. z /\ j \in 1 .. z /\ a[i] \in 1 .. c /\ a[j] \in 1 .. c /\ i \in Int /\ j \in Int
    BY <1>6
  <2>2. a[i] = a[j] => i = j
    <3>1. i < j => a[i] < a[j]
      BY <1>5, <2>1
    <3>2. j < i => a[j] < a[i]
      BY <1>5, <2>1
    <3> QED BY <2>1, <3>1, <3>2
  <2>3. itemOrder[i] = itemOrder[j] => i = j
    BY <1>4, <2>1
  <2>4. slotOrder[a[i]] = slotOrder[a[j]] => a[i] = a[j]
    BY <1>3, <2>1
  <2> QED BY <2>2, <2>3, <2>4
<1>9. ASSUME NEW m1 \in matches, NEW m2 \in matches PROVE (m1[1] = m2[1]) <=> (m1[2] = m2[2])
  <2>1. PICK i \in 1 .. last : m1 = <<itemOrder[i], slotOrder[a[i]]>>
    BY <1>2
  <2>2. PICK j \in 1 .. last : m2 = <<itemOrder[j], slotOrder[a[j]]>>
    BY <1>2
  <2> QED BY <1>8, <2>1, <2>2
<1>10. IsFiniteSet(matches) /\ Cardinality(matches) = last
  <2> DEFINE g == [i \in 1 .. last |-> <<itemOrder[i], slotOrder[a[i]]>>]
  <2>1. g \in [1 .. last -> matches]
    BY <1>2
  <2>2. ASSUME NEW i \in 1 .. last, NEW j \in 1 .. last, g[i] = g[j] PROVE i = j
    <3>1. itemOrder[i] = itemOrder[j]
      BY <2>2
    <3> QED BY <1>4, <1>6, <3>1
  <2>3. ASSUME NEW m \in matches PROVE \E i \in 1 .. last : g[i] = m
    BY <1>2
  <2> HIDE DEF g
  <2>4. g \in Bijection(1 .. last, matches)
    BY <2>1, <2>2, <2>3, Fun_IsBij
  <2>5. IsFiniteSet(1 .. last) /\ Cardinality(1 .. last) = last
    <3>1. last \in Int /\ 1 <= last + 1 /\ last + 1 - 1 = last
      BY <1>2
    <3> QED BY <3>1, CardInterval
  <2> QED BY <2>4, <2>5, FS_Bijection DEF ExistsBijection
<1>11. ASSUME NEW some \in SUBSET (1 .. z), NEW f \in [some -> 1 .. c],
              \A x, y \in some : f[x] = f[y] => x = y,
              \A x \in some : sizes[x] <= caps[f[x]]
       PROVE  Cardinality(some) <= last
  <2> DEFINE itemRank == [x \in 1 .. z |-> CHOOSE i \in 1 .. z : itemOrder[i] = x]
             slotRank == [x \in 1 .. c |-> CHOOSE i \in 1 .. c : slotOrder[i] = x]
  <2>1. \A x \in 1 .. z : itemRank[x] \in 1 .. z /\ itemOrder[itemRank[x]] = x
    BY <1>4
  <2>2. \A x \in 1 .. c : slotRank[x] \in 1 .. c /\ slotOrder[slotRank[x]] = x
    BY <1>3
  <2> HIDE DEF itemRank, slotRank
  <2>3. IsFiniteSet(some) /\ Cardinality(some) <= z /\ Cardinality(some) \in Nat
    <3>1. IsFiniteSet(1 .. z) /\ Cardinality(1 .. z) = z
      <4>1. 1 <= z + 1 /\ z + 1 - 1 = z
        OBVIOUS
      <4> QED BY <4>1, CardInterval
    <3>2. IsFiniteSet(some) /\ Cardinality(some) <= z
      <4> DEFINE D == 1 .. z
      <4>1. IsFiniteSet(D) /\ Cardinality(D) = z /\ some \in SUBSET D
        BY <3>1
      <4> HIDE DEF D
      <4>2. IsFiniteSet(some) /\ Cardinality(some) <= Cardinality(D)
        BY <4>1, FS_Subset
      <4> QED BY <4>1, <4>2
    <3> QED BY <3>2, FS_CardinalityType
  <2>4. CASE last = z
    BY <2>3, <2>4
  <2>5. CASE last < z
    <3> DEFINE t == last + 1
    <3>1. t \in 1 .. z /\ t \in Nat /\ a[t] \in Nat /\ a[t] > c
      <4>1. t \in 1 .. z /\ t \in Nat /\ ~ (t <= last)
        BY <1>2, <2>5
      <4>2. ~ (a[t] <= c)
        BY <1>2, <4>1
      <4> QED BY <1>5, <4>1, <4>2
    <3> HIDE DEF t
    <3>2. PICK j \in 1 .. t : FirstFit(sorted, c, rows[j], a[t] - t + j)
      BY <1>5, <3>1
    <3> DEFINE lo == a[t] - t + j
               A == {x \in some : itemRank[x] < j}
               B == {x \in some : ~ (itemRank[x] < j)}
               g == [x \in A |-> itemRank[x]]
               h == [x \in B |-> slotRank[f[x]]]
    <3>3. /\ j \in 1 .. z /\ j \in Nat /\ lo \in Nat /\ lo >= 1 /\ lo <= c + 1
          /\ \A k \in 1 .. c : k < lo => sorted[k] < rows[j]
      <4>1. lo \in 1 .. c + 1 /\ \A k \in 1 .. c : IF k < lo THEN sorted[k] < rows[j] ELSE rows[j] <= sorted[k]
        BY <3>2 DEF FirstFit
      <4>2. j \in 1 .. z /\ j \in Nat
        BY <3>1
      <4> HIDE DEF lo
      <4> QED BY <4>1, <4>2
    <3>4. lo - j > c - t
      BY <3>1, <3>3
    <3> HIDE DEF lo
    <3>5. IsFiniteSet(A) /\ Cardinality(A) <= j - 1
      <4> DEFINE w == j - 1
      <4>1. g \in [A -> 1 .. w]
        <5>1. ASSUME NEW x \in A PROVE g[x] \in 1 .. w
          <6>1. x \in 1 .. z /\ itemRank[x] \in 1 .. z /\ itemRank[x] < j /\ g[x] = itemRank[x]
            BY <2>1
          <6> QED BY <3>3, <6>1
        <5>2. g = [x \in A |-> g[x]]
          OBVIOUS
        <5> HIDE DEF g, A, w
        <5> QED BY <5>1, <5>2
      <4>2. ASSUME NEW x \in A, NEW y \in A, g[x] = g[y] PROVE x = y
        BY <2>1, <4>2
      <4>3. 1 <= w + 1 /\ w + 1 - 1 = w /\ w \in Int /\ 1 \in Int
        BY <3>3
      <4>4. w = j - 1
        OBVIOUS
      <4> HIDE DEF g, A, w
      <4>5. IsFiniteSet(A) /\ Cardinality(A) <= w + 1 - 1
        BY <4>1, <4>2, <4>3, InjectionBounds
      <4> QED BY <4>3, <4>4, <4>5
    <3>6. IsFiniteSet(B) /\ Cardinality(B) <= c + 1 - lo
      <4>1. ASSUME NEW x \in B PROVE h[x] \in lo .. c
        <5>1. x \in 1 .. z /\ f[x] \in 1 .. c /\ sizes[x] <= caps[f[x]]
          BY <1>11
        <5> DEFINE u == itemRank[x]
                   v == slotRank[f[x]]
        <5>2. u \in 1 .. z /\ itemOrder[u] = x /\ v \in 1 .. c /\ slotOrder[v] = f[x] /\ j <= u /\ h[x] = v
          BY <2>1, <2>2, <3>3, <5>1
        <5> HIDE DEF u, v
        <5>3. rows[u] = sizes[x] /\ sorted[v] = caps[f[x]]
          BY <1>2, <5>2
        <5>4. rows[j] <= rows[u]
          BY <1>2, <3>3, <5>2 DEF Ascends
        <5>5. rows[j] \in Nat /\ rows[u] \in Nat /\ sorted[v] \in Nat
          BY <1>2, <3>3, <5>2
        <5>6. ~ (sorted[v] < rows[j])
          BY <5>1, <5>3, <5>4, <5>5
        <5>7. ~ (v < lo)
          BY <3>3, <5>2, <5>6
        <5> QED BY <3>3, <5>2, <5>7
      <4>2. h \in [B -> lo .. c]
        <5>1. h = [x \in B |-> h[x]]
          OBVIOUS
        <5> HIDE DEF h, B
        <5> QED BY <4>1, <5>1
      <4>3. ASSUME NEW x \in B, NEW y \in B, h[x] = h[y] PROVE x = y
        <5>1. f[x] \in 1 .. c /\ f[y] \in 1 .. c /\ x \in some /\ y \in some
          OBVIOUS
        <5>2. slotRank[f[x]] = slotRank[f[y]]
          BY <4>3
        <5>3. f[x] = f[y]
          BY <2>2, <5>1, <5>2
        <5> QED BY <1>11, <5>1, <5>3
      <4>4. lo \in Int /\ c \in Int /\ lo <= c + 1
        BY <3>3
      <4> HIDE DEF h, B
      <4> QED BY <4>2, <4>3, <4>4, InjectionBounds
    <3>7. some = A \cup B /\ A \cap B = {}
      OBVIOUS
    <3> HIDE DEF A, B, g, h
    <3>8. Cardinality(some) = Cardinality(A) + Cardinality(B)
      <4>1. Cardinality(A \cup B) = Cardinality(A) + Cardinality(B) - Cardinality(A \cap B)
        BY <3>5, <3>6, FS_Union
      <4>2. Cardinality(A \cap B) = 0 /\ Cardinality(A) \in Nat /\ Cardinality(B) \in Nat
        BY <3>5, <3>6, <3>7, FS_EmptySet, FS_CardinalityType
      <4> QED BY <3>7, <4>1, <4>2
    <3>9. Cardinality(A) \in Nat /\ Cardinality(B) \in Nat
      BY <3>5, <3>6, FS_CardinalityType
    <3>10. t = last + 1 /\ last \in Nat
      BY <1>2 DEF t
    <3> QED BY <3>3, <3>4, <3>5, <3>6, <3>8, <3>9, <3>10
  <2>6. last \in Nat /\ last <= z
    BY <1>2
  <2> QED BY <2>4, <2>5, <2>6
<1>12. BestMatching(c, z, caps, sizes, matches)
  BY <1>7, <1>9, <1>10, <1>11 DEF BestMatching
<1> QED BY <1>0, <1>12

-----------------------------------------------------------------------------
(***************************************************************************)
(* The states of SlotReuse.                                                *)
(***************************************************************************)
ReuseInv == SlotInv /\ capOf \in CapTables

LEMMA ReuseKeepsInv ==
  ASSUME ReuseInv, NEW sizes, ReuseSlots(sizes)
  PROVE  ReuseInv'
<1> DEFINE taken == {EmptySlots[m[2]] : m \in Matches(SlotCaps, sizes)}
<1>1. /\ avail' = [p \in Positions(n) |-> IF p \in taken THEN 0 ELSE avail[p]]
      /\ LaunchDeepest /\ UNCHANGED <<n, sub, capOf>>
  BY DEF ReuseSlots
<1> HIDE DEF taken
<1>2. avail' \in [Positions(n) -> {0, 1}]
  BY <1>1 DEF ReuseInv, SlotInv, SlotTypeOK
<1>3. SlotInv'
  BY <1>1, <1>2, LaunchKeepsInv DEF ReuseInv
<1> QED BY <1>1, <1>3 DEF ReuseInv

LEMMA ReuseInvariant == ReuseSpec => []ReuseInv
<1>1. ReuseInit => ReuseInv
  BY SlotsStart DEF ReuseInit, ReuseInv
<1>2. ReuseInv /\ [ReuseNext]_reuseVars => ReuseInv'
  <2> SUFFICES ASSUME ReuseInv, [ReuseNext]_reuseVars PROVE ReuseInv'
    OBVIOUS
  <2>1. CASE \E sizes \in Insertions : ReuseSlots(sizes)
    BY <2>1, ReuseKeepsInv
  <2>2. CASE SlotNext /\ UNCHANGED capOf
    <3>1. SlotInv'
      BY <2>2, DeleteKeepsInv, ThreadKeepsInv, LevelKeepsInv DEF SlotNext, ReuseInv
    <3> QED BY <2>2, <3>1 DEF ReuseInv
  <2>3. CASE UNCHANGED reuseVars
    <3>1. SlotTypeOK' /\ LaunchesOK'
      BY <2>3 DEF reuseVars, treeVars, ReuseInv, SlotInv, SlotTypeOK, LaunchesOK
    <3>2. CountedBelow'
      BY <2>3 DEF reuseVars, treeVars, ReuseInv, SlotInv, CountedBelow, Idle
    <3> QED BY <2>3, <3>1, <3>2 DEF reuseVars, ReuseInv, SlotInv
  <2> QED BY <2>1, <2>2, <2>3 DEF ReuseNext
<1> QED BY <1>1, <1>2, PTL DEF ReuseSpec

\* The capacities of the slots that the walks found are those of nodes.
LEMMA SlotCapsTyped ==
  ASSUME ReuseInv, Idle
  PROVE  sub[0] \in Nat /\ SlotCaps \in [1 .. sub[0] -> Nat]
<1>1. n \in Nat /\ n > 0 /\ n <= MaxNodes /\ MaxNodes \in Nat
  BY MaxNodesAssumption DEF ReuseInv, SlotInv, SlotTypeOK
<1>2. sub[0] \in Nat
  <2>1. 0 \in Positions(n)
    BY <1>1 DEF Positions
  <2> QED BY <2>1 DEF ReuseInv, SlotInv, SlotTypeOK
<1>3. \A k \in 1 .. sub[0] : KthSlot(avail, sub, k) \in Positions(n)
  BY InvIsSound DEF ReuseInv, SlotsSound, SlotsFoundOnce
<1>4. \A p \in Positions(n) : capOf[p] \in Nat
  BY <1>1, ReuseAssumption DEF ReuseInv, Positions
<1>5. DOMAIN EmptySlots = 1 .. sub[0] /\ \A k \in 1 .. sub[0] : EmptySlots[k] \in Positions(n)
  BY <1>3 DEF EmptySlots
<1>6. \A k \in 1 .. sub[0] : capOf[EmptySlots[k]] \in Nat
  BY <1>4, <1>5
<1>7. SlotCaps = [k \in 1 .. sub[0] |-> capOf[EmptySlots[k]]]
  BY <1>5 DEF SlotCaps
<1> QED BY <1>2, <1>6, <1>7

LEMMA InvIsBestFit == ReuseInv => ReuseIsBestFit
<1> SUFFICES ASSUME ReuseInv, Idle, NEW sizes \in Insertions
             PROVE  LET matches == Matches(SlotCaps, sizes) IN
                    /\ \A m \in matches : sizes[m[1]] <= SlotCaps[m[2]]
                    /\ \A m1, m2 \in matches : (m1[1] = m2[1]) <=> (m1[2] = m2[2])
                    /\ \A some \in SUBSET DOMAIN sizes :
                         Cardinality(some) > Cardinality(matches) => Placements(sizes, some) = {}
  BY DEF ReuseIsBestFit
<1> DEFINE c == sub[0]
           caps == SlotCaps
           matches == Matches(SlotCaps, sizes)
<1>1. c \in Nat /\ caps \in [1 .. c -> Nat]
  BY SlotCapsTyped
<1>2. PICK z \in 1 .. MaxItems : sizes \in [1 .. z -> 0 .. MaxSize]
  BY DEF Insertions
<1>3. z \in Nat /\ sizes \in [1 .. z -> Nat] /\ DOMAIN sizes = 1 .. z
  BY <1>2, ReuseAssumption
<1>4. matches = Matches(caps, sizes) /\ caps = SlotCaps
  OBVIOUS
<1> HIDE DEF c, caps, matches
<1>5. /\ IsFiniteSet(matches)
      /\ \A m \in matches : m[1] \in 1 .. z /\ m[2] \in 1 .. c /\ sizes[m[1]] <= caps[m[2]]
      /\ \A m1, m2 \in matches : (m1[1] = m2[1]) <=> (m1[2] = m2[2])
      /\ \A some \in SUBSET (1 .. z) : \A f :
           /\ f \in [some -> 1 .. c] /\ \A x, y \in some : f[x] = f[y] => x = y
           /\ \A x \in some : sizes[x] <= caps[f[x]]
           => Cardinality(some) <= Cardinality(matches)
  <2>1. BestMatching(c, z, caps, sizes, matches)
    BY <1>1, <1>3, <1>4, MatchingIsBest
  <2> QED BY <2>1 DEF BestMatching
<1>6. ASSUME NEW some \in SUBSET DOMAIN sizes, Cardinality(some) > Cardinality(matches),
             NEW f \in Placements(sizes, some)
      PROVE  FALSE
  <2>1. f \in [some -> 1 .. c]
    BY <1>1, <1>4 DEF Placements
  <2>2. \A x \in some : sizes[x] <= caps[f[x]]
    BY <1>4 DEF Placements
  <2>3. \A x, y \in some : f[x] = f[y] => x = y
    BY DEF Placements
  <2>4. Cardinality(some) <= Cardinality(matches)
    BY <1>3, <1>5, <2>1, <2>2, <2>3
  <2>5. IsFiniteSet(some)
    <3> DEFINE D == 1 .. z
    <3>1. IsFiniteSet(D) /\ some \in SUBSET D
      BY <1>3, FS_Interval
    <3> HIDE DEF D
    <3> QED BY <3>1, FS_Subset
  <2>6. Cardinality(some) \in Nat /\ Cardinality(matches) \in Nat
    BY <1>5, <2>5, FS_CardinalityType
  <2> QED BY <1>6, <2>4, <2>6
<1>7. /\ \A m \in matches : sizes[m[1]] <= SlotCaps[m[2]]
      /\ \A m1, m2 \in matches : (m1[1] = m2[1]) <=> (m1[2] = m2[2])
      /\ \A some \in SUBSET DOMAIN sizes :
           Cardinality(some) > Cardinality(matches) => Placements(sizes, some) = {}
  <2>1. \A some \in SUBSET DOMAIN sizes :
          Cardinality(some) > Cardinality(matches) => Placements(sizes, some) = {}
    BY <1>6
  <2> QED BY <1>4, <1>5, <2>1
<1> QED BY <1>7 DEF matches

\* Every mark is 0 or 1, every count a natural number, and every thread that
\* has yet to run has a node of the tree to count (deleteCBST and insertCBST
\* with recomputeSubtreeAvail).
THEOREM ReuseTypeCorrect == ReuseSpec => [](SlotTypeOK /\ capOf \in CapTables)
<1>1. ReuseInv => SlotTypeOK /\ capOf \in CapTables
  BY DEF ReuseInv, SlotInv
<1> QED BY <1>1, ReuseInvariant, PTL

\* Whatever was deleted and reused before, and in whatever order the threads
\* of reduceAvailLevel run: a node below the current launch counts the deleted
\* nodes of its subtree exactly; the k-th thread of locateReusableSlots finds
\* the k-th deleted node; and the ranks of cbstRankOfPosition lead the walk of
\* bstFind to every node.
THEOREM SlotsStaySound == ReuseSpec => []SlotsSound
<1>1. ReuseInv => SlotsSound
  BY InvIsSound DEF ReuseInv
<1> QED BY <1>1, ReuseInvariant, PTL

\* Sort, binary search and prefix maximum (sort_by_key, lowerBoundKernel,
\* computeBInPlace, inclusive_scan, computeAssigned, pairMatches) place as
\* many of the rows as can be placed at all, each in a slot of its own that
\* is large enough.
THEOREM ReuseStaysBestFit == ReuseSpec => []ReuseIsBestFit
<1>1. ReuseInv => ReuseIsBestFit
  BY InvIsBestFit
<1> QED BY <1>1, ReuseInvariant, PTL
=============================================================================
