------------------------ MODULE NearFarUpdateProofs ------------------------
(***************************************************************************)
(* Theorems about PointerJump and NearFarUpdate, for every set of graphs   *)
(* and batches, every bucket width and every order of the threads.         *)
(*                                                                         *)
(* The pointer jumping.  An ancestor pointer always leads to a proper      *)
(* ancestor, and a vertex that is not flagged has covered what lies in     *)
(* between.  When a thread moves its pointer from a to the pointer of a,   *)
(* what a has covered is added to what its own vertex has, and the two do  *)
(* not meet: the sizes add up.  The vertex has covered half of the         *)
(* launch's distance when its thread starts, and a at least half, whether  *)
(* a's thread has run or not.  After the last launch nothing that is not   *)
(* flagged can have a pointer left, for it would have covered all vertices *)
(* but itself covers not the one it points to.                             *)
(*                                                                         *)
(* The update.  NearFarInv says that every finite word is explained by its *)
(* parent's, that whatever a thread holds of a vertex (a word that it read *)
(* or loaded) is not below the vertex's own distance and not above the     *)
(* heaviest edge times the number of vertices that are nearer, and that an *)
(* edge that could improve its head is ahead of a thread.  The second part *)
(* keeps every offer inside the distance field: it is where OffersFit is   *)
(* needed.  The third one needs the first pass to have seen every edge     *)
(* that the batch may have made better: that is what the tree of before    *)
(* the batch says of the edges between the call and the invalidation.      *)
(* When nothing is ahead of a thread no edge improves, and words that no   *)
(* edge improves and that parents explain are the canonical tree.          *)
(***************************************************************************)
EXTENDS NearFarUpdate, WeightedDigraphProofs

(***************************************************************************)
(* The pointer jumping on its own.                                         *)
(***************************************************************************)
\* Every set of vertices is finite, and a proper one has less than N members.
LEMMA VerticesFinite ==
  ASSUME NEW S \in SUBSET Node
  PROVE  /\ IsFiniteSet(S) /\ Cardinality(S) \in Nat
         /\ \A v \in Node \ S : Cardinality(S) < N
<1>1. IsFiniteSet(Node) /\ Cardinality(Node) = N
  <2>1. N \in Nat /\ N > 0 /\ 0 \in Int /\ N - 1 \in Int
    BY NodesAssumption
  <2>2. IsFiniteSet(0 .. N - 1) /\ Cardinality(0 .. N - 1) = N
    BY <2>1, FS_Interval
  <2> QED BY <2>2 DEF Node
<1>2. /\ IsFiniteSet(S) /\ Cardinality(S) <= Cardinality(Node)
      /\ Cardinality(Node) = Cardinality(S) => Node = S
  BY <1>1, FS_Subset
<1>3. Cardinality(S) \in Nat
  BY <1>2, FS_CardinalityType
<1>4. ASSUME NEW v \in Node \ S PROVE Cardinality(S) < N
  <2>1. Cardinality(S) # N
    BY <1>1, <1>2, <1>4
  <2> QED BY <1>1, <1>2, <1>3, <2>1, NodesAssumption
<1> QED BY <1>2, <1>3, <1>4

-----------------------------------------------------------------------------
(***************************************************************************)
(* Vertices and their ancestors.                                           *)
(***************************************************************************)

\* A vertex is above itself, its parent is, and so is what is above those.
LEMMA AboveFacts ==
  ASSUME NEW v \in Node
  PROVE  /\ Above(v) \subseteq Node
         /\ v \in Above(v)
         /\ parent[v] \in Node => parent[v] \in Above(v)
         /\ \A u \in Above(v) : Above(u) \subseteq Above(v)
<1>1. Above(v) \subseteq Node /\ v \in Above(v)
  BY DEF Above
<1>2. parent[v] \in Node => parent[v] \in Above(v)
  BY DEF Above, ClosedUp
<1>3. ASSUME NEW u \in Above(v), NEW w \in Above(u) PROVE w \in Above(v)
  <2>1. w \in Node /\ u \in Node
    BY <1>3 DEF Above
  <2>2. ASSUME NEW S \in SUBSET Node, v \in S, ClosedUp(S) PROVE w \in S
    <3>1. u \in S
      BY <2>2, <1>3 DEF Above
    <3> QED BY <3>1, <2>2, <1>3 DEF Above
  <2> QED BY <2>1, <2>2 DEF Above
<1> QED BY <1>1, <1>2, <1>3

\* The ancestors of v are v and the ancestors of its parent.
LEMMA AboveParent ==
  ASSUME NEW v \in Node
  PROVE  /\ parent[v] \in Node => Above(v) \subseteq {v} \cup Above(parent[v])
         /\ parent[v] \notin Node => Above(v) \subseteq {v}
<1>1. ASSUME parent[v] \in Node PROVE Above(v) \subseteq {v} \cup Above(parent[v])
  <2> DEFINE S == {v} \cup Above(parent[v])
  <2>1. S \in SUBSET Node /\ v \in S
    BY <1>1, AboveFacts
  <2>2. ASSUME NEW x \in S, parent[x] \in Node PROVE parent[x] \in S
    <3>1. CASE x = v
      BY <3>1, <1>1, AboveFacts
    <3>2. CASE x \in Above(parent[v])
      <4>1. x \in Node
        BY <2>1
      <4>2. parent[x] \in Above(x)
        BY <4>1, <2>2, AboveFacts
      <4>3. Above(x) \subseteq Above(parent[v])
        BY <3>2, <1>1, AboveFacts
      <4> QED BY <4>2, <4>3
    <3> QED BY <3>1, <3>2
  <2>3. ClosedUp(S)
    BY <2>2 DEF ClosedUp
  <2> HIDE DEF S
  <2>4. Above(v) \subseteq S
    BY <2>1, <2>3 DEF Above
  <2> QED BY <2>4 DEF S
<1>2. ASSUME parent[v] \notin Node PROVE Above(v) \subseteq {v}
  <2>1. {v} \in SUBSET Node /\ v \in {v} /\ ClosedUp({v})
    BY <1>2 DEF ClosedUp
  <2> QED BY <2>1 DEF Above
<1> QED BY <1>1, <1>2

-----------------------------------------------------------------------------
(***************************************************************************)
(* The inductive invariant.                                                *)
(***************************************************************************)

\* A pointer leads to a proper ancestor.
PointersLeadUp ==
  \A v \in Node : ancestor[v] \in Node => ancestor[v] \in Above(v) /\ v \notin Above(ancestor[v])

JumpInv == JumpTypeOK /\ PointersLeadUp /\ FlagsJustified /\ JumpsDouble

\* What v has covered is a set of vertices that contains v, and not the vertex
\* its pointer leads to.
LEMMA CoveredFacts ==
  ASSUME PointersLeadUp, NEW v \in Node
  PROVE  /\ Covered(v) \in SUBSET Node /\ v \in Covered(v)
         /\ IsFiniteSet(Covered(v)) /\ Cardinality(Covered(v)) \in Nat
         /\ ancestor[v] \in Node => Cardinality(Covered(v)) < N
<1>1. Covered(v) \in SUBSET Node /\ v \in Covered(v)
  BY AboveFacts DEF Covered, PointersLeadUp
<1>2. ancestor[v] \in Node => ancestor[v] \in Node \ Covered(v)
  BY AboveFacts DEF Covered
<1>3. /\ IsFiniteSet(Covered(v)) /\ Cardinality(Covered(v)) \in Nat
      /\ \A u \in Node \ Covered(v) : Cardinality(Covered(v)) < N
  BY <1>1, VerticesFinite
<1> QED BY <1>1, <1>2, <1>3

\* All parts of the property but the invariant's own follow from it.
LEMMA InvariantSuffices == JumpInv => JumpsSound
<1> SUFFICES ASSUME JumpInv, JumpsDone
             PROVE  flag = {v \in Node : Above(v) \cap roots # {}}
  BY DEF JumpInv, JumpsSound, MarkedExactly
<1>1. flag \subseteq Node /\ reach \in Nat /\ todo = {} /\ reach >= N
  BY DEF JumpInv, JumpTypeOK, JumpsDone
<1>2. ASSUME NEW v \in flag PROVE Above(v) \cap roots # {}
  BY <1>1, <1>2 DEF JumpInv, FlagsJustified
<1>3. ASSUME NEW v \in Node, v \notin flag PROVE Above(v) \cap roots = {}
  <2>1. ancestor[v] \notin Node
    <3> SUFFICES ASSUME ancestor[v] \in Node PROVE FALSE
      OBVIOUS
    <3>1. Cardinality(Covered(v)) \in Nat /\ Cardinality(Covered(v)) < N
      BY CoveredFacts DEF JumpInv
    <3>2. Cardinality(Covered(v)) >= reach
      BY <1>1, <1>3 DEF JumpInv, JumpsDouble
    <3> QED BY <1>1, <3>1, <3>2, NodesAssumption
  <2> QED BY <2>1, <1>3 DEF JumpInv, FlagsJustified, Covered
<1> QED BY <1>1, <1>2, <1>3

LEMMA JumpInvInit == JumpInit => JumpInv
<1> SUFFICES ASSUME JumpInit PROVE JumpInv
  OBVIOUS
<1> USE DEF JumpInit
<1>1. JumpTypeOK
  BY DEF JumpTypeOK
<1>2. PointersLeadUp
  BY AboveFacts DEF PointersLeadUp, IsForest
<1>3. FlagsJustified
  <2>1. ASSUME NEW v \in flag PROVE v \in Node /\ v \in Above(v) \cap roots
    BY AboveFacts
  <2>2. ASSUME NEW v \in Node, v \notin flag PROVE Covered(v) \subseteq {v} /\ v \notin roots
    BY <2>2, AboveParent DEF Covered
  <2> QED BY <2>1, <2>2 DEF FlagsJustified
<1>4. JumpsDouble
  <2> SUFFICES ASSUME NEW v \in Node PROVE Cardinality(Covered(v)) >= 1
    BY DEF JumpsDouble
  <2>1. v \in Covered(v) /\ IsFiniteSet(Covered(v)) /\ Cardinality(Covered(v)) \in Nat
    BY <1>2, CoveredFacts
  <2>2. Cardinality(Covered(v)) # 0
    BY <2>1, FS_EmptySet
  <2> QED BY <2>1, <2>2
<1> QED BY <1>1, <1>2, <1>3, <1>4 DEF JumpInv

\* Nothing changes what is above a vertex, for no step changes the tree.
LEMMA AboveIsConstant ==
  ASSUME parent' = parent
  PROVE  \A v \in Node : Above(v)' = Above(v)
BY DEF Above, ClosedUp

\* A new launch: all threads have covered the distance of the old ones.
LEMMA RoundKeeps ==
  ASSUME JumpInv, NextJumpRound, parent' = parent
  PROVE  JumpInv'
<1>1. /\ todo = {} /\ todo' = Jumping /\ reach' = 2 * reach
      /\ roots' = roots /\ flag' = flag /\ ancestor' = ancestor
  BY DEF NextJumpRound
<1>2. \A v \in Node : Above(v)' = Above(v) /\ Covered(v)' = Covered(v)
  BY <1>1, AboveIsConstant DEF Covered
<1>3. JumpTypeOK'
  BY <1>1 DEF JumpInv, JumpTypeOK, Jumping
<1>4. PointersLeadUp' /\ FlagsJustified'
  BY <1>1, <1>2 DEF JumpInv, PointersLeadUp, FlagsJustified
<1>5. JumpsDouble'
  <2> SUFFICES ASSUME NEW v \in Node, v \notin flag, ancestor[v] \in Node
               PROVE  v \in todo' /\ 2 * Cardinality(Covered(v)) >= reach'
    BY <1>1, <1>2 DEF JumpsDouble
  <2>1. Cardinality(Covered(v)) >= reach
    BY <1>1 DEF JumpInv, JumpsDouble
  <2>2. Cardinality(Covered(v)) \in Nat /\ reach \in Nat
    BY CoveredFacts DEF JumpInv, JumpTypeOK
  <2>3. v \in todo'
    BY <1>1 DEF Jumping
  <2> QED BY <1>1, <2>1, <2>2, <2>3
<1> QED BY <1>3, <1>4, <1>5 DEF JumpInv

\* A thread that finds the flag of its ancestor takes it over.
LEMMA FlagThreadKeeps ==
  ASSUME JumpInv, NEW v \in Node, JumpThread(v), ancestor[v] \in flag, parent' = parent
  PROVE  JumpInv'
<1>1. /\ v \in todo /\ todo' = todo \ {v} /\ flag' = flag \cup {v}
      /\ roots' = roots /\ ancestor' = ancestor /\ reach' = reach
  BY DEF JumpThread
<1>2. \A w \in Node : Above(w)' = Above(w) /\ Covered(w)' = Covered(w)
  BY <1>1, AboveIsConstant DEF Covered
<1>3. ancestor[v] \in Node
  BY <1>1 DEF JumpInv, JumpTypeOK, Jumping
<1>4. JumpTypeOK'
  BY <1>1 DEF JumpInv, JumpTypeOK, Jumping
<1>5. PointersLeadUp'
  BY <1>1, <1>2 DEF JumpInv, PointersLeadUp
<1>6. Above(v) \cap roots # {}
  <2>1. Above(ancestor[v]) \cap roots # {}
    BY <1>3 DEF JumpInv, FlagsJustified
  <2>2. Above(ancestor[v]) \subseteq Above(v)
    BY <1>3, AboveFacts DEF JumpInv, PointersLeadUp
  <2> QED BY <2>1, <2>2
<1>7. FlagsJustified'
  BY <1>1, <1>2, <1>6 DEF JumpInv, FlagsJustified
<1>8. JumpsDouble'
  BY <1>1, <1>2 DEF JumpInv, JumpsDouble
<1> QED BY <1>4, <1>5, <1>7, <1>8 DEF JumpInv

\* A thread that moves its pointer adds what its ancestor has covered, which it
\* had not, and which is enough whether the ancestor's thread has run or not.
LEMMA PointerThreadKeeps ==
  ASSUME JumpInv, NEW v \in Node, JumpThread(v), ancestor[v] \notin flag, parent' = parent
  PROVE  JumpInv'
<1> DEFINE a == ancestor[v]
           b == ancestor[a]
<1>1. /\ v \in todo /\ todo' = todo \ {v} /\ ancestor' = [ancestor EXCEPT ![v] = b]
      /\ roots' = roots /\ flag' = flag /\ reach' = reach
  BY DEF JumpThread
<1>2. /\ a \in Node /\ a \notin flag /\ v \notin flag
      /\ b \in Node \cup {NoParent} /\ reach \in Nat
  BY <1>1 DEF JumpInv, JumpTypeOK, Jumping
<1>3. ancestor'[v] = b /\ \A w \in Node \ {v} : ancestor'[w] = ancestor[w]
  BY <1>1 DEF JumpInv, JumpTypeOK
<1>4. JumpTypeOK'
  BY <1>1, <1>2, <1>3 DEF JumpInv, JumpTypeOK, Jumping
<1>5. /\ a \in Above(v) /\ v \notin Above(a) /\ Above(a) \subseteq Above(v)
      /\ b \in Node => b \in Above(a) /\ Above(b) \subseteq Above(a)
  BY <1>2, AboveFacts DEF JumpInv, PointersLeadUp
<1> HIDE DEF a, b
<1>6. Covered(v) = Above(v) \ Above(a) /\ Covered(a) = IF b \in Node THEN Above(a) \ Above(b) ELSE Above(a)
  BY <1>2 DEF Covered, a, b
<1>7. \A w \in Node \ {v} : Covered(w)' = Covered(w)
  BY <1>3, AboveIsConstant DEF Covered, JumpInv, JumpTypeOK
<1>8. Covered(v)' = Covered(v) \cup Covered(a)
  <2>1. Covered(v)' = IF b \in Node THEN Above(v) \ Above(b) ELSE Above(v)
    BY <1>3, AboveIsConstant DEF Covered
  <2> QED BY <2>1, <1>5, <1>6
<1>9. PointersLeadUp'
  <2> SUFFICES ASSUME NEW w \in Node, ancestor'[w] \in Node
               PROVE  ancestor'[w] \in Above(w) /\ w \notin Above(ancestor'[w])
    BY AboveIsConstant DEF PointersLeadUp
  <2>1. CASE w = v
    BY <2>1, <1>3, <1>5
  <2>2. CASE w # v
    BY <2>2, <1>3 DEF JumpInv, PointersLeadUp
  <2> QED BY <2>1, <2>2
<1>10. FlagsJustified'
  <2>1. Covered(v)' \cap roots = {}
    BY <1>2, <1>8 DEF JumpInv, FlagsJustified
  <2> QED BY <2>1, <1>1, <1>2, <1>7, AboveIsConstant DEF JumpInv, FlagsJustified
<1>11. ASSUME b \in Node PROVE Cardinality(Covered(v)') >= reach
  <2>1. /\ IsFiniteSet(Covered(v)) /\ Cardinality(Covered(v)) \in Nat
        /\ IsFiniteSet(Covered(a)) /\ Cardinality(Covered(a)) \in Nat
    BY <1>2, CoveredFacts DEF JumpInv
  <2>2. Covered(v) \cap Covered(a) = {}
    BY <1>6
  <2>3. Cardinality(Covered(v) \cup Covered(a)) = Cardinality(Covered(v)) + Cardinality(Covered(a))
    <3>1. Cardinality(Covered(v) \cup Covered(a)) = Cardinality(Covered(v)) + Cardinality(Covered(a))
                                                      - Cardinality(Covered(v) \cap Covered(a))
      BY <2>1, FS_Union
    <3>2. Cardinality(Covered(v) \cap Covered(a)) = 0
      BY <2>2, FS_EmptySet
    <3> QED BY <3>1, <3>2, <2>1
  <2>4. 2 * Cardinality(Covered(v)) >= reach
    BY <1>1, <1>2 DEF JumpInv, JumpsDouble, a
  <2>5. 2 * Cardinality(Covered(a)) >= reach
    <3>1. IF a \in todo THEN 2 * Cardinality(Covered(a)) >= reach ELSE Cardinality(Covered(a)) >= reach
      BY <1>2, <1>11 DEF JumpInv, JumpsDouble, b
    <3> QED BY <3>1, <2>1, <1>2
  <2> QED BY <1>8, <1>2, <2>1, <2>3, <2>4, <2>5
<1>12. JumpsDouble'
  <2> SUFFICES ASSUME NEW w \in Node, w \notin flag, ancestor'[w] \in Node
               PROVE  IF w \in todo' THEN 2 * Cardinality(Covered(w)') >= reach
                                     ELSE Cardinality(Covered(w)') >= reach
    BY <1>1 DEF JumpsDouble
  <2>1. CASE w = v
    BY <2>1, <1>1, <1>3, <1>11
  <2>2. CASE w # v
    BY <2>2, <1>1, <1>3, <1>7 DEF JumpInv, JumpsDouble
  <2> QED BY <2>1, <2>2
<1> QED BY <1>4, <1>9, <1>10, <1>12 DEF JumpInv

LEMMA JumpInvNext == JumpInv /\ [JumpNext]_<<parent, jumpVars>> => JumpInv'
<1> SUFFICES ASSUME JumpInv, [JumpNext]_<<parent, jumpVars>> PROVE JumpInv'
  OBVIOUS
<1>1. CASE UNCHANGED <<parent, jumpVars>>
  <2>1. /\ parent' = parent /\ roots' = roots /\ flag' = flag
        /\ ancestor' = ancestor /\ reach' = reach /\ todo' = todo
    BY <1>1 DEF jumpVars
  <2>2. \A v \in Node : Above(v)' = Above(v) /\ Covered(v)' = Covered(v)
    BY <2>1, AboveIsConstant DEF Covered
  <2>3. JumpTypeOK'
    BY <2>1 DEF JumpInv, JumpTypeOK, Jumping
  <2>4. PointersLeadUp' /\ FlagsJustified' /\ JumpsDouble'
    BY <2>1, <2>2 DEF JumpInv, PointersLeadUp, FlagsJustified, JumpsDouble
  <2> QED BY <2>3, <2>4 DEF JumpInv
<1>2. ASSUME NEW v \in Node, JumpThread(v), parent' = parent PROVE JumpInv'
  BY <1>2, FlagThreadKeeps, PointerThreadKeeps
<1>3. CASE NextJumpRound /\ parent' = parent
  BY <1>3, RoundKeeps
<1> QED BY <1>1, <1>2, <1>3 DEF JumpNext

-----------------------------------------------------------------------------
\* The flags, the pointers and the threads of a launch keep their types: a
\* thread runs once, only at a vertex that is not flagged and has a pointer.
THEOREM JumpTypeCorrect == JumpSpec => []JumpTypeOK
<1>1. JumpInv => JumpTypeOK
  BY DEF JumpInv
<1> QED BY <1>1, JumpInvInit, JumpInvNext, PTL DEF JumpSpec

\* pointerJumpKernel marks exactly the subtrees of the roots in ceil(log2 n)
\* launches, on every forest, whatever its threads read of each other.
THEOREM RacingJumpsAreSound == JumpSpec => []JumpsSound
<1> QED BY InvariantSuffices, JumpInvInit, JumpInvNext, PTL DEF JumpSpec

-----------------------------------------------------------------------------
(***************************************************************************)
(* The assumption of the theorems about the update.                        *)
(***************************************************************************)
\* The check that the code should make: an offer over one edge more than a
\* path has still fits the distance field.
OffersFit == N * MaxWeight < Field

-----------------------------------------------------------------------------
(***************************************************************************)
(* Packed words.                                                           *)
(***************************************************************************)
Word == 0 .. PackedInf

\* What a fixed number of values per digit does to the order of numbers.
LEMMA Digits ==
  ASSUME NEW b \in Nat \ {0}
  PROVE  /\ \A d \in Nat : \A q \in 0 .. b - 1 : ((d * b + q) \div b) = d /\ ((d * b + q) % b) = q /\ d * b + q \in Nat
         /\ \A x \in Nat : /\ (x \div b) \in Nat /\ (x % b) \in 0 .. b - 1
                          /\ x = (x \div b) * b + (x % b)
         /\ \A d, e \in Nat : d < e => d * b + b <= e * b
<1>1. \A d \in Nat : \A q \in 0 .. b - 1 : ((d * b + q) \div b) = d /\ ((d * b + q) % b) = q
  OBVIOUS
<1>2. \A d \in Nat : \A q \in 0 .. b - 1 : d * b + q \in Nat
  <2> SUFFICES ASSUME NEW d \in Nat, NEW q \in 0 .. b - 1 PROVE d * b + q \in Nat
    OBVIOUS
  <2>1. d * b \in Nat
    OBVIOUS
  <2> QED BY <2>1
<1>3. \A x \in Nat : (x \div b) \in Nat /\ (x % b) \in 0 .. b - 1 /\ x = (x \div b) * b + (x % b)
  OBVIOUS
<1>4. \A d, e \in Nat : d < e => d * b + b <= e * b
  OBVIOUS
<1> QED BY <1>1, <1>2, <1>3, <1>4

LEMMA Constants ==
  /\ N \in Nat \ {0} /\ MaxWeight \in Nat \ {0} /\ Inf \in Nat \ {0} /\ Field \in Nat \ {0, 1}
  /\ Source \in Node /\ Node \subseteq Nat /\ NoParent \notin Node
  /\ PackedInf = (Field - 1) * (N + 1) + N /\ PackedInf \in Nat
<1>1. N \in Nat \ {0} /\ MaxWeight \in Nat \ {0} /\ Field \in Nat \ {0, 1} /\ Source \in Node /\ Node \subseteq Nat
      /\ NoParent \notin Node
  BY NodesAssumption, WeightAssumption, FieldAssumption, SourceAssumption DEF Node, NoParent
<1>2. N * MaxWeight \in Nat /\ Inf = N * MaxWeight + 1
  BY <1>1 DEF Inf
<1>3. PackedInf = (Field - 1) * (N + 1) + N
  BY <1>1 DEF PackedInf
<1>4. (Field - 1) * (N + 1) \in Nat
  BY <1>1
<1> QED BY <1>1, <1>2, <1>3, <1>4

\* A distance that fits the field comes back from its word, and so does a parent.
LEMMA PackFacts ==
  ASSUME NEW d \in 0 .. Field - 1, NEW p \in Node \cup {NoParent}
  PROVE  /\ Pack(d, p) \in Word /\ Pack(d, p) = d * (N + 1) + ParentField(p) /\ ParentField(p) \in 0 .. N
         /\ DistanceOf(Pack(d, p)) = d /\ ParentOf(Pack(d, p)) = p
         /\ Pack(d, p) = PackedInf => d = Field - 1 /\ p = NoParent
<1> DEFINE b == N + 1
           q == ParentField(p)
           x == d * b + q
<1>1. b \in Nat \ {0} /\ N \in Nat \ {0} /\ d \in Nat /\ Field \in Nat \ {0, 1} /\ d <= Field - 1
  BY Constants
<1>2. q \in 0 .. N /\ (q = N <=> p = NoParent) /\ (p # NoParent => q = p)
  BY <1>1, Constants DEF ParentField, Node
<1>3. (d % Field) = d
  BY <1>1
<1>4. Pack(d, p) = x
  BY <1>3 DEF Pack
<1>5. q \in 0 .. b - 1
  BY <1>1, <1>2
<1> HIDE DEF q
<1>6. (x \div b) = d /\ (x % b) = q /\ x \in Nat
  BY <1>1, <1>5, Digits
<1>7. x <= PackedInf /\ (x = PackedInf => d = Field - 1 /\ q = N)
  <2>1. PackedInf = (Field - 1) * b + N /\ (Field - 1) * b \in Nat /\ d * b \in Nat /\ Field - 1 \in Nat
    BY <1>1, Constants
  <2>2. CASE d = Field - 1
    BY <1>1, <1>2, <2>1, <2>2
  <2>3. CASE d < Field - 1
    <3>1. d * b + b <= (Field - 1) * b
      BY <1>1, <2>1, <2>3, Digits
    <3> QED BY <1>1, <1>2, <2>1, <3>1
  <2> QED BY <1>1, <2>2, <2>3
<1> HIDE DEF x
<1>8. Pack(d, p) \in Word
  BY <1>4, <1>6, <1>7, Constants DEF Word
<1>9. DistanceOf(Pack(d, p)) = d /\ ParentOf(Pack(d, p)) = p
  BY <1>2, <1>4, <1>6 DEF DistanceOf, ParentOf
<1> QED BY <1>2, <1>4, <1>7, <1>8, <1>9 DEF x, q

\* What a word holds.
LEMMA WordFacts ==
  ASSUME NEW x \in Word
  PROVE  /\ x \in Nat /\ x <= PackedInf
         /\ DistanceOf(x) \in 0 .. Field - 1 /\ ParentOf(x) \in Node \cup {NoParent}
         /\ x = Pack(DistanceOf(x), ParentOf(x))
<1> DEFINE b == N + 1
<1>1. /\ b \in Nat \ {0} /\ N \in Nat \ {0} /\ x \in Nat /\ x <= PackedInf /\ Field \in Nat \ {0, 1}
      /\ PackedInf = Field * b - 1
  BY Constants DEF Word, PackedInf
<1>2. (x \div b) \in Nat /\ (x % b) \in 0 .. N /\ x = (x \div b) * b + (x % b)
  <2>1. b = N + 1
    OBVIOUS
  <2> HIDE DEF b
  <2>2. (x \div b) \in Nat /\ (x % b) \in 0 .. b - 1 /\ x = (x \div b) * b + (x % b)
    BY <1>1, Digits
  <2>3. b - 1 = N
    BY <1>1, <2>1
  <2> QED BY <2>2, <2>3
<1>3. DistanceOf(x) = (x \div b) /\ ParentOf(x) = (IF (x % b) = N THEN NoParent ELSE (x % b))
  BY DEF DistanceOf, ParentOf
<1> DEFINE d == x \div b
           q == x % b
<1>4. d \in Nat /\ q \in 0 .. N /\ x = d * b + q
  BY <1>2
<1> HIDE DEF d, q
<1>5. d <= Field - 1
  <2>1. CASE Field <= d
    <3>1. Field * b \in Int /\ d * b \in Int
      BY <1>1, <1>4
    <3>2. Field * b <= d * b
      BY <1>1, <1>4, <2>1
    <3> QED BY <1>1, <1>4, <3>1, <3>2
  <2> QED BY <1>1, <1>4, <2>1
<1>6. ParentOf(x) \in Node \cup {NoParent} /\ ParentField(ParentOf(x)) = q
  <2>1. ParentOf(x) = IF q = N THEN NoParent ELSE q
    BY <1>3 DEF q
  <2> QED BY <1>1, <1>4, <2>1, Constants DEF ParentField, Node
<1>7. DistanceOf(x) = d
  BY <1>3 DEF d
<1>8. Pack(d, ParentOf(x)) = d * b + q
  BY <1>1, <1>4, <1>5, <1>6, PackFacts
<1> QED BY <1>1, <1>4, <1>5, <1>6, <1>7, <1>8

\* Words are ordered by distance, then by parent.
LEMMA WordOrder ==
  ASSUME NEW x \in Word, NEW y \in Word
  PROVE  /\ x <= y => DistanceOf(x) <= DistanceOf(y)
         /\ DistanceOf(x) < DistanceOf(y) => x < y
         /\ DistanceOf(x) = DistanceOf(y) => (x < y <=> ParentField(ParentOf(x)) < ParentField(ParentOf(y)))
<1> DEFINE b == N + 1
           d == DistanceOf(x)
           e == DistanceOf(y)
           q == ParentField(ParentOf(x))
           r == ParentField(ParentOf(y))
<1>1. /\ d \in Nat /\ e \in Nat /\ q \in 0 .. N /\ r \in 0 .. N /\ b \in Nat \ {0} /\ N \in Nat
      /\ x = d * b + q /\ y = e * b + r
  <2>1. /\ d \in 0 .. Field - 1 /\ ParentOf(x) \in Node \cup {NoParent} /\ x = Pack(d, ParentOf(x))
        /\ e \in 0 .. Field - 1 /\ ParentOf(y) \in Node \cup {NoParent} /\ y = Pack(e, ParentOf(y))
    BY WordFacts
  <2>2. x = d * b + q /\ q \in 0 .. N
    BY <2>1, PackFacts
  <2>3. y = e * b + r /\ r \in 0 .. N
    BY <2>1, PackFacts
  <2> QED BY <2>1, <2>2, <2>3, Constants
<1> HIDE DEF d, e, q, r
<1>2. (d < e => d * b + b <= e * b) /\ (e < d => e * b + b <= d * b)
  BY <1>1, Digits
<1>3. d * b \in Nat /\ e * b \in Nat
  BY <1>1
<1>4. (d < e => x < y) /\ (e < d => y < x)
  BY <1>1, <1>2, <1>3
<1>5. d = e => (x < y <=> q < r)
  BY <1>1, <1>3
<1>6. x <= y => d <= e
  BY <1>1, <1>3, <1>4
<1> QED BY <1>4, <1>5, <1>6 DEF d, e, q, r

\* No path and no edge: no distance that is reached looks like it.
LEMMA InfinityFacts ==
  /\ PackedInf \in Word /\ DistanceOf(PackedInf) = Field - 1 /\ ParentOf(PackedInf) = NoParent
<1>1. Field - 1 \in 0 .. Field - 1 /\ NoParent \in Node \cup {NoParent}
  BY Constants
<1>2. Pack(Field - 1, NoParent) = PackedInf
  BY <1>1, PackFacts, Constants DEF ParentField
<1> QED BY <1>1, <1>2, PackFacts


-----------------------------------------------------------------------------
(***************************************************************************)
(* Words that only decrease, under offers that may be out of date.         *)
(***************************************************************************)

\* The vertices that are nearer than a distance.
Near(w, d) == {y \in Node : w[y] # PackedInf /\ DistanceOf(w[y]) < d}

\* A word of u, or one that u had: its distance is at most the heaviest edge
\* for every other vertex that is nearer.  A thread that loaded it may offer
\* it on.
Copy(w, u, x) ==
  /\ x \in Word /\ x # PackedInf /\ w[u] # PackedInf
  /\ DistanceOf(w[u]) <= DistanceOf(x)
  /\ DistanceOf(x) <= MaxWeight * Cardinality(Near(w, DistanceOf(x)) \ {u})

\* The parent of a word explains it, or has improved since.
Explained(g, w, v) ==
  LET p == ParentOf(w[v]) IN
  /\ p \in InNeighbours(g, v) /\ w[p] # PackedInf
  /\ DistanceOf(w[v]) >= DistanceOf(w[p]) + g[<<p, v>>]

Sound(g, w) ==
  /\ w \in [Node -> Word]
  /\ w[Source] = Pack(0, NoParent)
  /\ \A v \in Node \ {Source} : w[v] # PackedInf => Explained(g, w, v)
  /\ \A v \in Node : w[v] # PackedInf => Copy(w, v, w[v])

Improving(g, w, u, v) ==
  w[u] # PackedInf /\ Pack(DistanceOf(w[u]) + g[<<u, v>>], u) < w[v]

\* No copy is as far as the longest path, and every offer fits the field.
LEMMA CopyFits ==
  ASSUME OffersFit, NEW w, NEW u \in Node, NEW x, Copy(w, u, x)
  PROVE  /\ DistanceOf(x) \in Nat /\ DistanceOf(x) < Inf
         /\ DistanceOf(x) + MaxWeight <= Field - 1 /\ DistanceOf(x) + MaxWeight < Inf
         /\ Cardinality(Near(w, DistanceOf(x)) \ {u}) \in Nat
<1> DEFINE c == Cardinality(Near(w, DistanceOf(x)) \ {u})
<1>1. c \in Nat /\ c < N
  <2>1. Near(w, DistanceOf(x)) \ {u} \in SUBSET Node /\ u \in Node \ (Near(w, DistanceOf(x)) \ {u})
    BY DEF Near
  <2> QED BY <2>1, VerticesFinite
<1>2. DistanceOf(x) \in Nat /\ DistanceOf(x) <= MaxWeight * c
  BY WordFacts DEF Copy
<1> HIDE DEF c
<1>3. N \in Nat /\ MaxWeight \in Nat \ {0} /\ Field \in Nat
  BY Constants
<1>4. MaxWeight * c + MaxWeight <= N * MaxWeight
  <2>1. c * MaxWeight + MaxWeight <= N * MaxWeight
    BY <1>1, <1>3, Digits
  <2>2. MaxWeight * c = c * MaxWeight
    BY <1>1, <1>3
  <2> QED BY <2>1, <2>2
<1>5. MaxWeight * c \in Nat /\ N * MaxWeight \in Nat
  BY <1>1, <1>3
<1>6. DistanceOf(x) + MaxWeight <= N * MaxWeight
  BY <1>2, <1>3, <1>4, <1>5
<1>7. N * MaxWeight < Field /\ Inf = N * MaxWeight + 1
  BY DEF OffersFit, Inf
<1> QED BY <1>1, <1>2, <1>3, <1>5, <1>6, <1>7 DEF c

LEMMA OfferFacts ==
  ASSUME OffersFit, NEW g, IsDigraph(g), NEW w, NEW v \in Node, NEW u \in InNeighbours(g, v),
         NEW x, Copy(w, u, x)
  PROVE  /\ u \in Node /\ g[<<u, v>>] \in 1 .. MaxWeight /\ DistanceOf(x) \in Nat
         /\ Pack(DistanceOf(x) + g[<<u, v>>], u) \in Word \ {PackedInf}
         /\ DistanceOf(Pack(DistanceOf(x) + g[<<u, v>>], u)) = DistanceOf(x) + g[<<u, v>>]
         /\ ParentOf(Pack(DistanceOf(x) + g[<<u, v>>], u)) = u
<1>1. u \in Node /\ g[<<u, v>>] \in 1 .. MaxWeight
  BY DigraphFacts
<1>2. DistanceOf(x) \in Nat /\ DistanceOf(x) + MaxWeight <= Field - 1
  BY <1>1, CopyFits
<1>3. DistanceOf(x) + g[<<u, v>>] \in 0 .. Field - 1 /\ u # NoParent
  BY <1>1, <1>2, Constants
<1> QED BY <1>1, <1>2, <1>3, PackFacts

\* A distance that is reached differs from that of the largest word.
LEMMA ReachedFacts ==
  ASSUME OffersFit, NEW g, NEW w, Sound(g, w), NEW v \in Node
  PROVE  /\ w[v] \in Word /\ w[v] \in Nat /\ DistanceOf(w[v]) \in Nat
         /\ w[v] # PackedInf => DistanceOf(w[v]) < Field - 1 /\ DistanceOf(w[v]) < Inf
         /\ w[v] = PackedInf => DistanceOf(w[v]) = Field - 1
<1>1. w[v] \in Word
  BY DEF Sound
<1>2. w[v] \in Nat /\ DistanceOf(w[v]) \in Nat
  BY <1>1, WordFacts
<1>3. ASSUME w[v] # PackedInf PROVE DistanceOf(w[v]) < Field - 1 /\ DistanceOf(w[v]) < Inf
  <2>1. Copy(w, v, w[v])
    BY <1>3 DEF Sound
  <2>2. DistanceOf(w[v]) < Inf /\ DistanceOf(w[v]) + MaxWeight <= Field - 1
    BY <2>1, CopyFits
  <2> QED BY <1>2, <2>2, Constants
<1> QED BY <1>1, <1>2, <1>3, InfinityFacts

\* What a word becomes when a thread writes it: itself, or a smaller offer.
Offered(g, w, v, y) ==
  \/ y = w[v]
  \/ y < w[v] /\ \E u \in InNeighbours(g, v) : \E x \in Word :
                   Copy(w, u, x) /\ y = Pack(DistanceOf(x) + g[<<u, v>>], u)

Written(g, w, v, w2) == w2 = [w EXCEPT ![v] = w2[v]] /\ Offered(g, w, v, w2[v])

LEMMA Lowered ==
  ASSUME OffersFit, NEW g, IsDigraph(g), NEW w, Sound(g, w), NEW v \in Node \ {Source},
         NEW w2, Written(g, w, v, w2)
  PROVE  /\ Sound(g, w2)
         /\ \A a \in Node : \A x \in Word : Copy(w, a, x) => Copy(w2, a, x)
         /\ \A a \in Node : w2[a] <= w[a] /\ DistanceOf(w2[a]) <= DistanceOf(w[a])
         /\ \A a \in Node : w[a] # PackedInf => w2[a] # PackedInf
         /\ \A a \in Node \ {v} : w2[a] = w[a]
<1> DEFINE y == w2[v]
<1>0. w2 = [w EXCEPT ![v] = y] /\ Offered(g, w, v, y)
  BY DEF Written
<1> HIDE DEF y
<1>1. w \in [Node -> Word] /\ v \in Node /\ v # Source
  BY DEF Sound
<1>2. y \in Word /\ y <= w[v] /\ y \in Nat /\ w[v] \in Nat
  <2>1. CASE y = w[v]
    BY <1>1, <2>1, WordFacts
  <2>2. CASE y # w[v]
    <3>1. PICK u \in InNeighbours(g, v), x \in Word : Copy(w, u, x) /\ y = Pack(DistanceOf(x) + g[<<u, v>>], u)
      BY <1>0, <2>2 DEF Offered
    <3>2. y \in Word
      BY <1>1, <3>1, OfferFacts
    <3> QED BY <1>0, <1>1, <2>2, <3>2, WordFacts DEF Offered
  <2> QED BY <2>1, <2>2
<1>3. w2 \in [Node -> Word] /\ w2[v] = y /\ \A a \in Node \ {v} : w2[a] = w[a]
  BY <1>0, <1>1, <1>2
<1>4. \A a \in Node : w2[a] <= w[a] /\ DistanceOf(w2[a]) <= DistanceOf(w[a]) /\ (w[a] # PackedInf => w2[a] # PackedInf)
  <2> SUFFICES ASSUME NEW a \in Node
               PROVE  w2[a] <= w[a] /\ DistanceOf(w2[a]) <= DistanceOf(w[a]) /\ (w[a] # PackedInf => w2[a] # PackedInf)
    OBVIOUS
  <2>1. w2[a] \in Word /\ w[a] \in Word
    BY <1>1, <1>3
  <2>2. w2[a] \in Nat /\ w[a] \in Nat /\ w[a] <= PackedInf /\ PackedInf \in Nat
    BY <2>1, WordFacts, Constants
  <2>3. w2[a] <= w[a]
    BY <1>2, <1>3, <2>2
  <2> QED BY <2>1, <2>2, <2>3, WordOrder
<1>5. ASSUME NEW a \in Node, NEW x \in Word, Copy(w, a, x) PROVE Copy(w2, a, x)
  <2> DEFINE S == Near(w, DistanceOf(x)) \ {a}
             T == Near(w2, DistanceOf(x)) \ {a}
  <2>1. \A b \in Node : DistanceOf(w[b]) \in Nat /\ DistanceOf(w2[b]) \in Nat /\ DistanceOf(x) \in Nat
    BY <1>1, <1>3, WordFacts
  <2>2. S \subseteq T /\ T \in SUBSET Node
    BY <1>4, <2>1 DEF Near
  <2>3. IsFiniteSet(T) /\ Cardinality(T) \in Nat
    BY <2>2, VerticesFinite
  <2>4. Cardinality(S) <= Cardinality(T) /\ Cardinality(S) \in Nat
    BY <2>2, <2>3, FS_Subset, FS_CardinalityType
  <2>5. MaxWeight * Cardinality(S) <= MaxWeight * Cardinality(T)
    <3> DEFINE s == Cardinality(S)
               t == Cardinality(T)
    <3>1. s \in Nat /\ t \in Nat /\ s <= t /\ MaxWeight \in Nat
      BY <2>3, <2>4, Constants
    <3> HIDE DEF s, t
    <3>2. MaxWeight * s <= MaxWeight * t
      BY <3>1
    <3> QED BY <3>2 DEF s, t
  <2>6. MaxWeight * Cardinality(S) \in Nat /\ MaxWeight * Cardinality(T) \in Nat
    BY <2>3, <2>4, Constants
  <2>7. DistanceOf(x) <= MaxWeight * Cardinality(S)
    BY <1>5 DEF Copy
  <2> HIDE DEF S
  <2>8. DistanceOf(x) <= MaxWeight * Cardinality(T)
    BY <2>1, <2>5, <2>6, <2>7
  <2>9. DistanceOf(w2[a]) <= DistanceOf(x) /\ w2[a] # PackedInf /\ x # PackedInf
    <3>1. DistanceOf(w[a]) <= DistanceOf(x) /\ w[a] # PackedInf /\ x # PackedInf
      BY <1>5 DEF Copy
    <3> QED BY <1>4, <2>1, <3>1
  <2> QED BY <2>8, <2>9 DEF Copy
<1>6. \A a \in Node \ {Source} : w2[a] # PackedInf => Explained(g, w2, a)
  <2> SUFFICES ASSUME NEW a \in Node \ {Source}, w2[a] # PackedInf PROVE Explained(g, w2, a)
    OBVIOUS
  <2>1. CASE w2[a] = w[a]
    <3> DEFINE p == ParentOf(w[a])
    <3>1. p \in InNeighbours(g, a) /\ w[p] # PackedInf /\ DistanceOf(w[a]) >= DistanceOf(w[p]) + g[<<p, a>>]
      BY <2>1 DEF Sound, Explained
    <3>2. p \in Node /\ g[<<p, a>>] \in Nat
      BY <3>1, DigraphFacts
    <3>3. w2[p] # PackedInf /\ DistanceOf(w2[p]) <= DistanceOf(w[p])
      BY <1>4, <3>1, <3>2
    <3>4. DistanceOf(w[a]) \in Nat /\ DistanceOf(w[p]) \in Nat /\ DistanceOf(w2[p]) \in Nat
      BY <1>1, <1>3, <3>2, WordFacts
    <3>5. DistanceOf(w[a]) >= DistanceOf(w2[p]) + g[<<p, a>>]
      BY <3>1, <3>2, <3>3, <3>4
    <3> QED BY <2>1, <3>1, <3>3, <3>5 DEF Explained
  <2>2. CASE w2[a] # w[a]
    <3>1. a = v /\ y # w[v]
      BY <1>3, <2>2
    <3>2. PICK u \in InNeighbours(g, v), x \in Word : Copy(w, u, x) /\ y = Pack(DistanceOf(x) + g[<<u, v>>], u)
      BY <1>0, <3>1 DEF Offered
    <3>3. /\ u \in Node /\ DistanceOf(y) = DistanceOf(x) + g[<<u, v>>] /\ ParentOf(y) = u
          /\ g[<<u, v>>] \in Nat
      BY <3>2, OfferFacts
    <3>4. Copy(w2, u, x)
      BY <1>5, <3>2, <3>3
    <3>5. w2[u] # PackedInf /\ DistanceOf(w2[u]) <= DistanceOf(x)
      BY <3>4 DEF Copy
    <3>6. DistanceOf(w2[u]) \in Nat /\ DistanceOf(x) \in Nat
      BY <1>3, <3>3, WordFacts
    <3>7. DistanceOf(y) >= DistanceOf(w2[u]) + g[<<u, v>>]
      BY <3>3, <3>5, <3>6
    <3> QED BY <1>3, <3>1, <3>2, <3>3, <3>5, <3>7 DEF Explained
  <2> QED BY <2>1, <2>2
<1>7. \A a \in Node : w2[a] # PackedInf => Copy(w2, a, w2[a])
  <2> SUFFICES ASSUME NEW a \in Node, w2[a] # PackedInf PROVE Copy(w2, a, w2[a])
    OBVIOUS
  <2>1. CASE w2[a] = w[a]
    BY <1>1, <1>5, <2>1 DEF Sound
  <2>2. CASE w2[a] # w[a]
    <3>1. a = v /\ y # w[v] /\ y < w[v]
      BY <1>0, <1>3, <2>2 DEF Offered
    <3>2. PICK u \in InNeighbours(g, v), x \in Word : Copy(w, u, x) /\ y = Pack(DistanceOf(x) + g[<<u, v>>], u)
      BY <1>0, <3>1 DEF Offered
    <3> DEFINE d == DistanceOf(x)
               e == DistanceOf(y)
               S == Near(w2, d) \ {u}
               T == Near(w2, e) \ {v}
    <3>3. /\ u \in Node /\ e = d + g[<<u, v>>] /\ y # PackedInf
          /\ g[<<u, v>>] \in Nat \ {0} /\ g[<<u, v>>] <= MaxWeight /\ d \in Nat /\ e \in Nat
      <4>1. g[<<u, v>>] \in 1 .. MaxWeight
        BY <3>2, OfferFacts
      <4> QED BY <3>2, <4>1, OfferFacts
    <3>4. Copy(w2, u, x)
      BY <1>5, <3>2, <3>3
    <3>5. w2[u] # PackedInf /\ DistanceOf(w2[u]) <= d /\ d <= MaxWeight * Cardinality(S)
      BY <3>4 DEF Copy
    <3>6. \A b \in Node : DistanceOf(w2[b]) \in Nat /\ DistanceOf(w[b]) \in Nat
      BY <1>1, <1>3, WordFacts
    <3>7. v \notin S /\ u # v
      <4>1. w2[v] = y
        BY <1>3
      <4>2. ~ (DistanceOf(w2[v]) <= d)
        BY <3>3, <4>1
      <4> QED BY <3>3, <3>5, <3>6, <4>2 DEF Near
    <3>8. S \cup {u} \subseteq T /\ u \notin S /\ T \in SUBSET Node /\ S \in SUBSET Node
      <4>1. u \in Near(w2, e)
        BY <3>3, <3>5, <3>6 DEF Near
      <4>2. Near(w2, d) \subseteq Near(w2, e)
        BY <3>3, <3>6 DEF Near
      <4> QED BY <3>7, <4>1, <4>2 DEF Near
    <3>9. IsFiniteSet(S) /\ IsFiniteSet(T) /\ Cardinality(S) \in Nat /\ Cardinality(T) \in Nat
      BY <3>8, VerticesFinite
    <3>10. Cardinality(S) + 1 <= Cardinality(T)
      <4>1. Cardinality(S \cup {u}) = Cardinality(S) + 1
        BY <3>8, <3>9, FS_AddElement
      <4>2. Cardinality(S \cup {u}) <= Cardinality(T)
        BY <3>8, <3>9, FS_Subset
      <4> QED BY <4>1, <4>2
    <3> DEFINE s == Cardinality(S)
               t == Cardinality(T)
    <3>11. s \in Nat /\ t \in Nat /\ s + 1 <= t /\ MaxWeight \in Nat /\ d <= MaxWeight * s
      BY <3>5, <3>9, <3>10, Constants
    <3> HIDE DEF s, t, S, d, e
    <3>12. MaxWeight * s + MaxWeight <= MaxWeight * t /\ MaxWeight * s \in Nat /\ MaxWeight * t \in Nat
      BY <3>11
    <3>13. e <= MaxWeight * t
      BY <3>3, <3>11, <3>12
    <3>14. DistanceOf(y) <= MaxWeight * Cardinality(Near(w2, DistanceOf(y)) \ {v})
      BY <3>13 DEF e, t
    <3>15. Copy(w2, v, y)
      <4>1. y \in Word /\ y # PackedInf /\ w2[v] # PackedInf /\ DistanceOf(w2[v]) <= DistanceOf(y)
        BY <1>2, <1>3, <3>3, WordFacts
      <4> QED BY <3>14, <4>1 DEF Copy
    <3> QED BY <1>3, <3>1, <3>15
  <2> QED BY <2>1, <2>2
<1>8. w2[Source] = Pack(0, NoParent)
  BY <1>3, Constants DEF Sound
<1>9. Sound(g, w2)
  BY <1>3, <1>6, <1>7, <1>8 DEF Sound
<1> QED BY <1>3, <1>4, <1>5, <1>9

\* Only a smaller distance of its tail makes an edge improving.
LEMMA NewlyImproving ==
  ASSUME OffersFit, NEW g, IsDigraph(g), NEW w, Sound(g, w), NEW v \in Node \ {Source},
         NEW w2, Written(g, w, v, w2),
         NEW a \in Node, NEW b \in OutNeighbours(g, a), Improving(g, w2, a, b)
  PROVE  Improving(g, w, a, b) \/ (a = v /\ DistanceOf(w2[v]) < DistanceOf(w[v]))
<1>1. /\ Sound(g, w2) /\ \A x \in Node \ {v} : w2[x] = w[x]
      /\ \A x \in Node : w2[x] <= w[x] /\ DistanceOf(w2[x]) <= DistanceOf(w[x])
  BY Lowered
<1>2. /\ b \in Node /\ a \in InNeighbours(g, b)
      /\ w2[a] # PackedInf /\ Pack(DistanceOf(w2[a]) + g[<<a, b>>], a) < w2[b]
  BY DEF OutNeighbours, InNeighbours, Improving
<1>3. Copy(w2, a, w2[a])
  BY <1>1, <1>2 DEF Sound
<1>4. Pack(DistanceOf(w2[a]) + g[<<a, b>>], a) \in Nat
  <2>1. Pack(DistanceOf(w2[a]) + g[<<a, b>>], a) \in Word
    BY <1>2, <1>3, OfferFacts
  <2> QED BY <2>1, WordFacts
<1>5. w2[b] \in Nat /\ w[b] \in Nat /\ w2[b] <= w[b]
  BY <1>1, <1>2, ReachedFacts
<1>6. Pack(DistanceOf(w2[a]) + g[<<a, b>>], a) < w[b]
  BY <1>2, <1>4, <1>5
<1>7. CASE a # v
  BY <1>1, <1>2, <1>6, <1>7 DEF Improving
<1>8. CASE a = v /\ ~ (DistanceOf(w2[v]) < DistanceOf(w[v]))
  <2>1. DistanceOf(w2[a]) \in Nat /\ DistanceOf(w[a]) \in Nat
    BY <1>1, ReachedFacts
  <2>2. DistanceOf(w2[a]) = DistanceOf(w[a])
    BY <1>1, <1>8, <2>1
  <2>3. w[a] # PackedInf
    <3>1. DistanceOf(w2[a]) < Field - 1
      BY <1>1, <1>2, ReachedFacts
    <3>2. w[a] = PackedInf => DistanceOf(w[a]) = Field - 1
      BY ReachedFacts
    <3> QED BY <2>1, <2>2, <3>1, <3>2, Constants
  <2> QED BY <1>6, <2>2, <2>3 DEF Improving
<1> QED BY <1>7, <1>8

-----------------------------------------------------------------------------
(***************************************************************************)
(* Lists on the device that hold every vertex at most once.                *)
(***************************************************************************)
Simple == [Node -> {0, 1}]

LEMMA EntriesFacts ==
  ASSUME NEW list \in Simple
  PROVE  /\ Entries(list) = On(list) \X {1} /\ IsFiniteSet(Entries(list)) /\ Size(list) \in Nat
         /\ Size(list) = 0 <=> list = Nothing
         /\ On(list) = {} <=> list = Nothing
<1>1. Entries(list) = On(list) \X {1}
  <2>1. \A v \in Node : list[v] = 0 \/ list[v] = 1
    BY DEF Simple
  <2>2. 1 .. 0 = {} /\ 1 .. 1 = {1}
    OBVIOUS
  <2>3. \A v \in Node : 1 .. list[v] = IF v \in On(list) THEN {1} ELSE {}
    <3>1. \A v \in Node : v \in On(list) <=> list[v] = 1
      BY <2>1 DEF On
    <3> QED BY <2>1, <2>2, <3>1
  <2>4. ASSUME NEW e PROVE e \in Entries(list) <=> e \in On(list) \X {1}
    <3>1. e \in Entries(list) <=> \E v \in Node : e \in {v} \X (1 .. list[v])
      BY DEF Entries
    <3>2. On(list) \subseteq Node
      BY DEF On
    <3> QED BY <2>3, <3>1, <3>2
  <2> QED BY <2>4
<1>2. IsFiniteSet(Entries(list))
  <2>1. On(list) \in SUBSET Node
    BY DEF On
  <2>2. IsFiniteSet(On(list)) /\ IsFiniteSet({1})
    BY <2>1, VerticesFinite, FS_Singleton
  <2> QED BY <1>1, <2>2, FS_Product
<1>3. Size(list) \in Nat /\ (Size(list) = 0 <=> Entries(list) = {})
  BY <1>2, FS_CardinalityType, FS_EmptySet DEF Size
<1>4. On(list) = {} <=> list = Nothing
  <2>1. ASSUME On(list) = {} PROVE list = Nothing
    <3>1. \A v \in Node : list[v] = 0
      BY <2>1 DEF On, Simple
    <3> QED BY <3>1 DEF Nothing, AsList, Simple
  <2>2. ASSUME list = Nothing PROVE On(list) = {}
    BY <2>2 DEF Nothing, AsList, On
  <2> QED BY <2>1, <2>2
<1>5. Entries(list) = {} <=> On(list) = {}
  <2>1. ASSUME NEW v \in On(list) PROVE <<v, 1>> \in Entries(list)
    BY <1>1
  <2> QED BY <1>1, <2>1
<1> QED BY <1>1, <1>2, <1>3, <1>4, <1>5

\* A list of a set, and a list with a vertex more.
LEMMA ListFacts ==
  /\ \A S \in SUBSET Node : AsList(S) \in Simple /\ On(AsList(S)) = S /\ (AsList(S) = Nothing <=> S = {})
  /\ Nothing \in Simple /\ On(Nothing) = {} /\ Size(Nothing) = 0
<1>1. ASSUME NEW S \in SUBSET Node PROVE AsList(S) \in Simple /\ On(AsList(S)) = S
  BY DEF AsList, Simple, On
<1>2. \A S \in SUBSET Node : AsList(S) = Nothing <=> S = {}
  BY <1>1, EntriesFacts
<1>3. Nothing = AsList({})
  BY DEF Nothing
<1> QED BY <1>1, <1>2, <1>3, EntriesFacts

LEMMA Appended ==
  ASSUME NEW list \in Simple, NEW v \in Node \ On(list), NEW more, more = [list EXCEPT ![v] = @ + 1]
  PROVE  more \in Simple /\ On(more) = On(list) \cup {v} /\ Size(more) = Size(list) + 1
<1>1. list[v] = 0
  BY DEF On, Simple
<1>2. more \in Simple /\ more[v] = 1 /\ \A u \in Node \ {v} : more[u] = list[u]
  BY <1>1 DEF Simple
<1>3. On(more) = On(list) \cup {v}
  BY <1>2 DEF On
<1>4. Entries(more) = Entries(list) \cup {<<v, 1>>} /\ <<v, 1>> \notin Entries(list)
  <2>1. Entries(more) = On(more) \X {1} /\ Entries(list) = On(list) \X {1}
    BY <1>2, EntriesFacts
  <2>2. \A A : (A \cup {v}) \X {1} = (A \X {1}) \cup {<<v, 1>>} /\ (v \notin A => <<v, 1>> \notin A \X {1})
    OBVIOUS
  <2>3. v \notin On(list)
    OBVIOUS
  <2> QED BY <1>3, <2>1, <2>2, <2>3
<1>5. Cardinality(Entries(list) \cup {<<v, 1>>}) = Cardinality(Entries(list)) + 1
  BY <1>4, EntriesFacts, FS_AddElement
<1> QED BY <1>2, <1>3, <1>4, <1>5 DEF Size

-----------------------------------------------------------------------------
(***************************************************************************)
(* The tree that a call starts from.                                       *)
(***************************************************************************)

\* Along a tree of cheapest walks every vertex adds an edge at most, so that a
\* distance is bounded by the vertices that are nearer.
LEMMA HopsBound ==
  ASSUME NEW d \in [Node -> Distance], NEW p \in [Node -> Node \cup {NoParent}], NEW S \in SUBSET Node,
         d[Source] = 0,
         \A v \in S \ {Source} : p[v] \in S /\ d[p[v]] < d[v] /\ d[v] <= d[p[v]] + MaxWeight
  PROVE  \A v \in S : d[v] <= MaxWeight * Cardinality({u \in S : d[u] < d[v]})
<1> DEFINE C(v) == {u \in S : d[u] < d[v]}
           Bounded(v) == d[v] <= MaxWeight * Cardinality(C(v))
           T == {n \in Nat : \A v \in S : d[v] <= n => Bounded(v)}
<1>1. \A v \in S : d[v] \in Nat
  BY DEF Distance
<1>2. \A v \in S : C(v) \in SUBSET Node /\ IsFiniteSet(C(v)) /\ Cardinality(C(v)) \in Nat
  BY VerticesFinite
<1>3. MaxWeight \in Nat
  BY Constants
<1>4. 0 \in T
  <2> SUFFICES ASSUME NEW v \in S, d[v] <= 0 PROVE Bounded(v)
    OBVIOUS
  <2> DEFINE c == Cardinality(C(v))
  <2>1. c \in Nat
    BY <1>2
  <2> HIDE DEF c
  <2>2. MaxWeight * c \in Nat /\ d[v] \in Nat
    BY <1>1, <1>3, <2>1
  <2>3. d[v] <= MaxWeight * c
    BY <2>2
  <2> QED BY <2>3 DEF c
<1>5. ASSUME NEW n \in Nat, n \in T PROVE n + 1 \in T
  <2> SUFFICES ASSUME NEW v \in S, d[v] <= n + 1 PROVE Bounded(v)
    OBVIOUS
  <2>1. CASE d[v] <= n
    BY <1>5, <2>1
  <2>2. CASE d[v] = n + 1
    <3> DEFINE q == p[v]
               a == Cardinality(C(q))
               b == Cardinality(C(v))
    <3>1. q \in S /\ d[q] < d[v] /\ d[v] <= d[q] + MaxWeight
      BY <2>2
    <3>2. Bounded(q)
      BY <1>1, <1>5, <2>2, <3>1
    <3>3. C(q) \cup {q} \subseteq C(v) /\ q \notin C(q)
      BY <1>1, <3>1
    <3>4. a + 1 <= b /\ a \in Nat /\ b \in Nat
      <4>1. Cardinality(C(q) \cup {q}) = Cardinality(C(q)) + 1
        BY <1>2, <3>1, <3>3, FS_AddElement
      <4>2. Cardinality(C(q) \cup {q}) <= Cardinality(C(v))
        BY <1>2, <3>3, FS_Subset
      <4> QED BY <1>2, <3>1, <4>1, <4>2
    <3>5. d[q] <= MaxWeight * a /\ d[q] \in Nat /\ d[v] \in Nat
      BY <1>1, <3>1, <3>2
    <3> HIDE DEF a, b, q
    <3>6. MaxWeight * a + MaxWeight <= MaxWeight * b /\ MaxWeight * a \in Nat /\ MaxWeight * b \in Nat
      BY <1>3, <3>4
    <3>7. d[v] <= MaxWeight * b
      BY <1>3, <3>1, <3>5, <3>6
    <3> QED BY <3>7 DEF b
  <2> QED BY <1>1, <1>5, <2>1, <2>2
<1> HIDE DEF T
<1>6. Nat \subseteq T
  BY <1>4, <1>5, NatSetInduction
<1> QED BY <1>1, <1>6 DEF T

TreeTypes == dist \in [Node -> Distance] /\ parent \in [Node -> Node \cup {NoParent}]

\* The parent of a vertex is nearer to the source.
ParentsNearer ==
  /\ dist[Source] = 0 /\ parent[Source] = NoParent
  /\ \A v \in Node : parent[v] \in Node => dist[parent[v]] < dist[v]

LEMMA NearerIsForest == TreeTypes /\ ParentsNearer => IsForest
<1> SUFFICES ASSUME TreeTypes, ParentsNearer, NEW v \in Node, parent[v] \in Node
             PROVE  v \notin Above(parent[v])
  BY DEF IsForest
<1> DEFINE S == {u \in Node : dist[u] <= dist[parent[v]]}
<1>1. \A u \in Node : dist[u] \in Nat
  BY DEF TreeTypes, Distance
<1>2. parent[v] \in S /\ S \in SUBSET Node
  BY <1>1
<1>3. v \notin S
  BY <1>1 DEF ParentsNearer
<1>4. ASSUME NEW x \in S, parent[x] \in Node PROVE parent[x] \in S
  <2>1. dist[parent[x]] < dist[x] /\ dist[x] <= dist[parent[v]]
    BY <1>4 DEF ParentsNearer
  <2> QED BY <1>1, <1>4, <2>1
<1>5. ClosedUp(S)
  BY <1>4 DEF ClosedUp
<1> HIDE DEF S
<1> QED BY <1>2, <1>3, <1>5 DEF Above

LEMMA CanonicalNearer ==
  ASSUME NEW g, IsDigraph(g), NEW t, t = CanonicalTree(g)
  PROVE  /\ t.dist \in [Node -> Distance] /\ t.parent \in [Node -> Node \cup {NoParent}]
         /\ t.dist[Source] = 0 /\ t.parent[Source] = NoParent
         /\ \A v \in Node : t.parent[v] \in Node => t.dist[t.parent[v]] < t.dist[v]
<1>1. /\ t.dist = Distances(g) /\ t.parent \in [Node -> Node \cup {NoParent}]
      /\ \A v \in Node : Hangs(g, t.dist, t.parent, v)
  BY CanonicalFacts
<1>2. t.dist \in [Node -> Distance] /\ t.dist[Source] = 0
  BY <1>1, DistancesFacts
<1>3. t.parent[Source] = NoParent
  BY <1>1, Constants DEF Hangs
<1>4. ASSUME NEW v \in Node, t.parent[v] \in Node PROVE t.dist[t.parent[v]] < t.dist[v]
  <2>1. Explains(g, t.dist, t.parent[v], v)
    BY <1>1, <1>4, Constants DEF Hangs
  <2>2. t.parent[v] \in InNeighbours(g, v) /\ t.dist[v] = t.dist[t.parent[v]] + g[<<t.parent[v], v>>]
    BY <2>1 DEF Explains
  <2>3. g[<<t.parent[v], v>>] \in Nat \ {0}
    BY <2>2, DigraphFacts
  <2>4. t.dist[t.parent[v]] \in Nat
    BY <1>2, <1>4 DEF Distance
  <2> QED BY <2>2, <2>3, <2>4
<1> QED BY <1>1, <1>2, <1>3, <1>4

-----------------------------------------------------------------------------
(***************************************************************************)
(* The inductive invariant.                                                *)
(***************************************************************************)
Running == phase \in {"pull", "split", "push", "unpack"}

NearFarTypeOK ==
  /\ IsDigraph(graph) /\ TreeTypes
  /\ word \in [Node -> Word] /\ before \in [Node -> Word] /\ loaded \in [Node -> Word]
  /\ insertHeads \in SUBSET Node
  /\ phase \in {"idle", "jump", "pull", "split", "push", "unpack"}
  /\ waiting \in Simple /\ out \in Simple /\ far \in Simple
  /\ heads \in [Node -> SUBSET Node]
  /\ claimed \in SUBSET Node /\ inFar \in SUBSET Node
  /\ count \in [A : Nat, B : Nat, far : Nat] /\ outSlot \in {"A", "B"}
  /\ threshold \in Nat /\ delta \in Nat /\ calls \in Nat

\* Which lists are in use, and that their counters and flags agree with them.
ListsAgree ==
  /\ phase \in {"idle", "jump"} => out = Nothing /\ claimed = {}
  /\ phase \notin {"pull", "push"} => waiting = Nothing
  /\ phase # "push" => heads = Quiet /\ far = Nothing /\ inFar = {}
  /\ phase \in {"pull", "push"} => claimed = On(out)
  /\ phase = "pull" => waiting[Source] = 0
  /\ phase = "split" => out # Nothing
  /\ phase = "unpack" => out = Nothing
  /\ phase = "push" =>
       /\ On(far) = inFar /\ count.far = Size(far)
       /\ count[outSlot] = Size(out) /\ count[Other(outSlot)] = 0
       /\ \A u \in Node : heads[u] \subseteq OutNeighbours(graph, u) \ {Source}

\* What the new graph keeps of the tree: an edge of it is lost only above a
\* root, and gained only to a head of an insertion.
TreeOfBefore ==
  /\ word = PackedTree
  /\ \A v \in Node \ {Source} :
       v \notin roots /\ dist[v] # Inf =>
         /\ parent[v] \in InNeighbours(graph, v) /\ dist[parent[v]] # Inf
         /\ dist[v] >= dist[parent[v]] + graph[<<parent[v], v>>]
         /\ dist[v] <= dist[parent[v]] + MaxWeight
  /\ \A u \in Node : \A v \in OutNeighbours(graph, u) \ {Source} :
       v \notin insertHeads /\ dist[u] # Inf =>
         \/ dist[v] < dist[u] + graph[<<u, v>>]
         \/ dist[v] = dist[u] + graph[<<u, v>>] /\ parent[v] \in Node /\ parent[v] <= u

JumpsAgree ==
  /\ IF phase = "jump" THEN JumpInv /\ TreeOfBefore ELSE roots = {} /\ JumpInit
  /\ Source \notin roots
  /\ phase = "idle" => [dist |-> dist, parent |-> parent] = CanonicalTree(graph)

\* What a pull thread may have seen of its in-neighbours, and what the push
\* threads have loaded.
CopiesAgree ==
  /\ phase = "pull" =>
       \A u \in Node :
         /\ before[u] # PackedInf => Copy(word, u, before[u])
         /\ word[u] # before[u] =>
              out[u] > 0 \/ (before[u] # PackedInf /\ DistanceOf(word[u]) = DistanceOf(before[u]))
  /\ \A u \in Node : heads[u] # {} => Copy(word, u, loaded[u])

\* A thread will look at the edge.
Ahead(u, v) ==
  \/ phase = "pull" /\ waiting[v] > 0
  \/ out[u] > 0
  \/ phase = "push" /\ waiting[u] > 0
  \/ phase = "push" /\ far[u] > 0 /\ DistanceOf(word[u]) >= threshold
  \/ phase = "push" /\ v \in heads[u] /\ DistanceOf(loaded[u]) = DistanceOf(word[u])

NothingForgotten ==
  \A u \in Node : \A v \in OutNeighbours(graph, u) \ {Source} :
    Improving(graph, word, u, v) => Ahead(u, v)

NearFarInv ==
  /\ OffersFit /\ NearFarTypeOK /\ ParentsNearer /\ ListsAgree /\ JumpsAgree
  /\ Running => Sound(graph, word) /\ CopiesAgree /\ NothingForgotten
-----------------------------------------------------------------------------
(***************************************************************************)
(* The start of a call.                                                    *)
(***************************************************************************)
LEMMA SourceWord ==
  /\ Pack(0, NoParent) \in Word /\ Pack(0, NoParent) # PackedInf
  /\ DistanceOf(Pack(0, NoParent)) = 0 /\ ParentOf(Pack(0, NoParent)) = NoParent
<1>1. 0 \in 0 .. Field - 1 /\ 0 # Field - 1 /\ NoParent \in Node \cup {NoParent}
  BY Constants
<1> QED BY <1>1, PackFacts

\* The tree stays as it is while a call runs.
LEMMA TreeStays ==
  ASSUME NearFarInv, phase # "jump", phase' \notin {"idle", "jump"}, UNCHANGED <<parent, jumpVars, dist>>
  PROVE  TreeTypes' /\ ParentsNearer' /\ JumpsAgree'
<1>1. /\ parent' = parent /\ dist' = dist /\ roots' = roots /\ flag' = flag
      /\ ancestor' = ancestor /\ reach' = reach /\ todo' = todo
  BY DEF jumpVars
<1>2. TreeTypes' /\ ParentsNearer'
  BY <1>1 DEF NearFarInv, NearFarTypeOK, TreeTypes, ParentsNearer
<1>3. IsForest' <=> IsForest
  BY <1>1, AboveIsConstant DEF IsForest
<1>4. JumpInit'
  BY <1>1, <1>3 DEF NearFarInv, JumpsAgree, JumpInit
<1>5. JumpsAgree'
  BY <1>1, <1>4 DEF NearFarInv, JumpsAgree
<1> QED BY <1>2, <1>5

LEMMA InitEstablishes == OffersFit /\ NearFarInit => NearFarInv
<1> SUFFICES ASSUME OffersFit, NearFarInit PROVE NearFarInv
  OBVIOUS
<1>1. /\ IsDigraph(graph) /\ dist = CanonicalTree(graph).dist /\ parent = CanonicalTree(graph).parent
      /\ word = [v \in Node |-> PackedInf] /\ before = word
      /\ roots = {} /\ flag = {} /\ ancestor = parent /\ reach = 1 /\ todo = {}
      /\ insertHeads = {} /\ phase = "idle" /\ calls = 0
      /\ waiting = Nothing /\ heads = Quiet /\ loaded = Nothing /\ out = Nothing
      /\ far = Nothing /\ inFar = {} /\ claimed = {}
      /\ count = [A |-> 0, B |-> 0, far |-> 0] /\ outSlot = "A" /\ threshold = 0 /\ delta = 1
  BY BatchAssumption DEF NearFarInit
<1>2. TreeTypes /\ ParentsNearer
  BY <1>1, CanonicalNearer DEF TreeTypes, ParentsNearer
<1>3. [dist |-> dist, parent |-> parent] = CanonicalTree(graph)
  BY <1>1, CanonicalFacts
<1>4. word \in [Node -> Word] /\ loaded \in [Node -> Word] /\ Nothing \in Simple /\ heads \in [Node -> SUBSET Node]
  <2>1. PackedInf \in Word /\ 0 \in Word
    BY InfinityFacts, Constants DEF Word
  <2>2. Nothing = [v \in Node |-> 0]
    BY DEF Nothing, AsList
  <2> QED BY <1>1, <2>1, <2>2, ListFacts DEF Quiet
<1>5. NearFarTypeOK
  BY <1>1, <1>2, <1>4 DEF NearFarTypeOK
<1>6. JumpsAgree
  <2>1. IsForest /\ parent \in [Node -> Node \cup {NoParent}]
    BY <1>2, NearerIsForest DEF TreeTypes
  <2>2. JumpInit
    BY <1>1, <2>1 DEF JumpInit
  <2> QED BY <1>1, <1>3, <2>2 DEF JumpsAgree
<1>7. ListsAgree
  BY <1>1 DEF ListsAgree
<1> QED BY <1>1, <1>2, <1>5, <1>6, <1>7 DEF NearFarInv, Running

LEMMA FromScratchKeeps ==
  ASSUME NearFarInv, NEW d \in Deltas, FromScratch(d)
  PROVE  NearFarInv' /\ UNCHANGED <<graph, dist, parent>> /\ phase = "idle" /\ phase' # "idle"
<1>1. /\ phase = "idle" /\ phase' = "split" /\ delta' = d /\ calls' = calls + 1
      /\ word' = [v \in Node |-> IF v = Source THEN Pack(0, NoParent) ELSE PackedInf]
      /\ out' = AsList({Source})
      /\ UNCHANGED <<parent, jumpVars, graph, dist, insertHeads, before, waiting, heads, loaded, claimed,
                     count, outSlot, far, inFar, threshold>>
  BY DEF FromScratch
<1>2. TreeTypes' /\ ParentsNearer' /\ JumpsAgree'
  BY <1>1, TreeStays
<1>3. out' \in Simple /\ On(out') = {Source} /\ out' # Nothing /\ out'[Source] > 0
  <2>1. {Source} \in SUBSET Node /\ {Source} # {}
    BY Constants
  <2>2. out' \in Simple /\ On(out') = {Source} /\ out' # Nothing
    BY <1>1, <2>1, ListFacts
  <2> QED BY <2>2 DEF On
<1>4. /\ word' \in [Node -> Word] /\ word'[Source] = Pack(0, NoParent)
      /\ \A v \in Node : word'[v] # PackedInf => v = Source
  BY <1>1, SourceWord, InfinityFacts, Constants
<1>5. NearFarTypeOK'
  <2>1. d \in Nat
    BY DeltasAssumption
  <2> QED BY <1>1, <1>2, <1>3, <1>4, <2>1 DEF NearFarInv, NearFarTypeOK
<1>6. ListsAgree'
  BY <1>1, <1>3 DEF NearFarInv, ListsAgree
<1>7. Sound(graph', word')
  <2>1. Copy(word', Source, word'[Source])
    <3>1. Cardinality(Near(word', 0) \ {Source}) \in Nat
      <4>1. Near(word', 0) \ {Source} \in SUBSET Node
        BY DEF Near
      <4> QED BY <4>1, VerticesFinite
    <3> DEFINE c == Cardinality(Near(word', 0) \ {Source})
    <3>2. 0 <= MaxWeight * c
      <4>1. c \in Nat /\ MaxWeight \in Nat
        BY <3>1, Constants
      <4> HIDE DEF c
      <4> QED BY <4>1
    <3> QED BY <1>4, <3>2, SourceWord DEF Copy
  <2> QED BY <1>4, <2>1 DEF Sound
<1>8. CopiesAgree'
  BY <1>1 DEF CopiesAgree, NearFarInv, ListsAgree, Quiet
<1>9. NothingForgotten'
  BY <1>3, <1>4 DEF NothingForgotten, Improving, Ahead
<1> QED BY <1>1, <1>2, <1>5, <1>6, <1>7, <1>8, <1>9 DEF NearFarInv, OffersFit

\* No shortest path is as long as a walk that visits a vertex twice could be.
LEMMA CanonicalShort ==
  ASSUME NEW g, IsDigraph(g), NEW t, t = CanonicalTree(g)
  PROVE  \A v \in Node : t.dist[v] # Inf => t.dist[v] + MaxWeight < Inf
<1> DEFINE S == {v \in Node : t.dist[v] # Inf}
           C(v) == {u \in S : t.dist[u] < t.dist[v]}
<1>1. /\ t.dist \in [Node -> Distance] /\ t.parent \in [Node -> Node \cup {NoParent}] /\ t.dist[Source] = 0
      /\ \A v \in Node : t.parent[v] \in Node => t.dist[t.parent[v]] < t.dist[v]
      /\ \A v \in Node : Hangs(g, t.dist, t.parent, v)
  BY CanonicalNearer, CanonicalFacts
<1>2. \A v \in Node : t.dist[v] \in Nat
  BY <1>1 DEF Distance
<1>3. ASSUME NEW v \in S \ {Source}
      PROVE  t.parent[v] \in S /\ t.dist[t.parent[v]] < t.dist[v] /\ t.dist[v] <= t.dist[t.parent[v]] + MaxWeight
  <2>1. t.parent[v] \in Node /\ Explains(g, t.dist, t.parent[v], v)
    BY <1>1 DEF Hangs
  <2>2. /\ t.parent[v] \in InNeighbours(g, v) /\ t.dist[t.parent[v]] # Inf
        /\ t.dist[v] = t.dist[t.parent[v]] + g[<<t.parent[v], v>>]
    BY <2>1 DEF Explains
  <2>3. g[<<t.parent[v], v>>] \in 1 .. MaxWeight /\ MaxWeight \in Nat
    BY <2>2, DigraphFacts
  <2> QED BY <1>1, <1>2, <2>1, <2>2, <2>3
<1>4. \A v \in S : t.dist[v] <= MaxWeight * Cardinality(C(v))
  BY <1>1, <1>3, HopsBound
<1> SUFFICES ASSUME NEW v \in Node, t.dist[v] # Inf PROVE t.dist[v] + MaxWeight < Inf
  OBVIOUS
<1> DEFINE c == Cardinality(C(v))
<1>5. c \in Nat /\ c < N
  <2>1. C(v) \in SUBSET Node /\ v \in Node \ C(v)
    BY <1>2
  <2> HIDE DEF C
  <2> QED BY <2>1, VerticesFinite
<1>6. t.dist[v] <= MaxWeight * c
  BY <1>4
<1> HIDE DEF c
<1>7. N \in Nat /\ MaxWeight \in Nat \ {0} /\ Inf = N * MaxWeight + 1
  BY Constants DEF Inf
<1>8. c * MaxWeight + MaxWeight <= N * MaxWeight /\ MaxWeight * c = c * MaxWeight /\ c * MaxWeight \in Nat
  BY <1>5, <1>7, Digits
<1>9. N * MaxWeight \in Nat
  BY <1>7
<1> QED BY <1>2, <1>6, <1>7, <1>8, <1>9

LEMMA HeadsFacts ==
  ASSUME NEW inserts \in InsertionLists
  PROVE  \A i \in DOMAIN inserts : inserts[i].edge \in Node \X Node /\ inserts[i].edge[2] \in Node
<1> DEFINE R == [edge : Node \X Node, weight : 1 .. MaxWeight]
<1>1. inserts \in Seq(R)
  BY DEF InsertionLists
<1> HIDE DEF R
<1>2. \A i \in DOMAIN inserts : inserts[i] \in R
  BY <1>1
<1>3. \A i \in DOMAIN inserts : inserts[i].edge \in Node \X Node
  BY <1>2 DEF R
<1>4. \A e \in Node \X Node : e[2] \in Node
  OBVIOUS
<1> QED BY <1>3, <1>4

LEMMA UpdateKeeps ==
  ASSUME NearFarInv, NEW deletes \in DeleteSets, NEW inserts \in InsertLists, NEW d \in Deltas,
         Update(deletes, inserts, d)
  PROVE  /\ NearFarInv' /\ phase = "idle" /\ phase' # "idle"
         /\ graph' = Applied(graph, deletes, inserts) /\ UNCHANGED <<dist, parent>>
<1> DEFINE changed == deletes \cup Increases(graph, deletes, inserts)
           marked == {e[2] : e \in {x \in changed : parent[x[2]] = x[1]}}
           new == Applied(graph, deletes, inserts)
           t == [dist |-> dist, parent |-> parent]
<1>1. /\ phase = "idle" /\ phase' = "jump" /\ graph' = new /\ word' = PackedTree
      /\ roots' = marked /\ flag' = marked
      /\ ancestor' = IF changed = {} THEN [v \in Node |-> NoParent] ELSE parent
      /\ reach' = IF changed = {} THEN N ELSE 1
      /\ insertHeads' = Heads(inserts) /\ delta' = d /\ calls' = calls + 1
      /\ UNCHANGED <<parent, todo, dist, before, waiting, heads, loaded, claimed, count, outSlot, out,
                     far, inFar, threshold>>
  BY DEF Update
<1>2. /\ IsDigraph(graph) /\ t = CanonicalTree(graph) /\ todo = {} /\ TreeTypes /\ ParentsNearer
      /\ inserts \in InsertionLists /\ deletes \in SUBSET (Node \X Node)
  BY <1>1, BatchAssumption DEF NearFarInv, NearFarTypeOK, JumpsAgree, JumpInit, InsertionLists
<1>3. /\ t.dist = dist /\ t.parent = parent
      /\ dist \in [Node -> Distance] /\ parent \in [Node -> Node \cup {NoParent}]
      /\ dist[Source] = 0 /\ parent[Source] = NoParent
  BY <1>2 DEF TreeTypes, ParentsNearer
<1> HIDE DEF t
<1>4. /\ dist = Distances(graph) /\ Respected(graph, dist)
      /\ \A v \in Node : Hangs(graph, dist, parent, v)
      /\ \A v \in Node : dist[v] # Inf => dist[v] + MaxWeight < Inf
  BY <1>2, <1>3, CanonicalFacts, DistancesFacts, CanonicalShort
<1>5. /\ IsDigraph(new)
      /\ \A e \in DOMAIN graph \ changed : e \in DOMAIN new /\ new[e] <= graph[e]
      /\ \A e \in DOMAIN new :
           (e \in DOMAIN graph \ deletes /\ new[e] = graph[e]) \/ e[2] \in Heads(inserts)
  BY <1>2, AppliedFacts
<1>6. changed \subseteq Node \X Node /\ Heads(inserts) \in SUBSET Node
  BY <1>2, HeadsFacts DEF Increases, Heads
<1>7. marked \in SUBSET (Node \ {Source})
  <2>1. ASSUME NEW e \in changed, parent[e[2]] = e[1] PROVE e[2] \in Node \ {Source}
    <3>1. e[1] \in Node /\ e[2] \in Node
      BY <1>6
    <3> QED BY <1>3, <2>1, <3>1, Constants
  <2> HIDE DEF changed
  <2> QED BY <2>1
<1>8. \A e \in changed : parent[e[2]] = e[1] => e[2] \in marked
  OBVIOUS
<1>9. changed = {} => marked = {}
  OBVIOUS
<1> HIDE DEF changed, marked, new
<1>10. TreeTypes' /\ ParentsNearer'
  BY <1>1, <1>2 DEF TreeTypes, ParentsNearer
<1>11. JumpInv'
  <2>1. parent' = parent /\ todo' = {} /\ IsForest /\ flag' = marked /\ roots' = marked
    BY <1>1, <1>2, NearerIsForest
  <2>2. CASE changed = {}
    <3>1. /\ ancestor' = [v \in Node |-> NoParent] /\ reach' = N /\ marked = {} /\ NoParent \notin Node
          /\ N \in Nat \ {0}
      BY <1>1, <1>9, <2>2, Constants
    <3>2. JumpTypeOK'
      BY <1>3, <2>1, <3>1 DEF JumpTypeOK
    <3>3. PointersLeadUp' /\ JumpsDouble'
      BY <3>1 DEF PointersLeadUp, JumpsDouble
    <3>4. FlagsJustified'
      BY <2>1, <3>1 DEF FlagsJustified
    <3> QED BY <3>2, <3>3, <3>4 DEF JumpInv
  <2>3. CASE changed # {}
    <3>1. ancestor' = parent /\ reach' = 1
      BY <1>1, <2>3
    <3>2. IsForest'
      BY <2>1, AboveIsConstant DEF IsForest
    <3>3. JumpInit'
      BY <1>3, <1>7, <2>1, <3>1, <3>2 DEF JumpInit
    <3>4. JumpInit' => JumpInv'
      BY JumpInvInit, PTL
    <3> QED BY <3>3, <3>4
  <2> QED BY <2>2, <2>3
<1>12. \A v \in Node \ {Source} :
         v \notin roots' /\ dist[v] # Inf =>
           /\ parent[v] \in InNeighbours(new, v) /\ dist[parent[v]] # Inf
           /\ dist[v] >= dist[parent[v]] + new[<<parent[v], v>>]
           /\ dist[v] <= dist[parent[v]] + MaxWeight
  <2> SUFFICES ASSUME NEW v \in Node \ {Source}, v \notin marked, dist[v] # Inf
               PROVE  /\ parent[v] \in InNeighbours(new, v) /\ dist[parent[v]] # Inf
                      /\ dist[v] >= dist[parent[v]] + new[<<parent[v], v>>]
                      /\ dist[v] <= dist[parent[v]] + MaxWeight
    BY <1>1
  <2> DEFINE p == parent[v]
  <2>1. p \in Node /\ Explains(graph, dist, p, v)
    BY <1>4 DEF Hangs
  <2>2. p \in InNeighbours(graph, v) /\ dist[p] # Inf /\ dist[v] = dist[p] + graph[<<p, v>>]
    BY <2>1 DEF Explains
  <2>3. <<p, v>> \in DOMAIN graph /\ <<p, v>> \notin changed
    BY <1>8, <2>2 DEF InNeighbours
  <2>4. <<p, v>> \in DOMAIN new /\ new[<<p, v>>] <= graph[<<p, v>>]
    BY <1>5, <2>3
  <2>5. p \in InNeighbours(new, v)
    BY <2>1, <2>4 DEF InNeighbours
  <2>6. graph[<<p, v>>] \in 1 .. MaxWeight /\ new[<<p, v>>] \in Nat /\ dist[p] \in Nat /\ MaxWeight \in Nat
    BY <1>2, <1>3, <1>5, <2>1, <2>2, <2>5, DigraphFacts DEF Distance
  <2> QED BY <2>2, <2>4, <2>5, <2>6
<1>13. \A u \in Node : \A v \in OutNeighbours(new, u) \ {Source} :
         v \notin Heads(inserts) /\ dist[u] # Inf =>
           \/ dist[v] < dist[u] + new[<<u, v>>]
           \/ dist[v] = dist[u] + new[<<u, v>>] /\ parent[v] \in Node /\ parent[v] <= u
  <2> SUFFICES ASSUME NEW u \in Node, NEW v \in OutNeighbours(new, u) \ {Source},
                      v \notin Heads(inserts), dist[u] # Inf
               PROVE  \/ dist[v] < dist[u] + new[<<u, v>>]
                      \/ dist[v] = dist[u] + new[<<u, v>>] /\ parent[v] \in Node /\ parent[v] <= u
    OBVIOUS
  <2>1. v \in Node /\ <<u, v>> \in DOMAIN new
    BY DEF OutNeighbours
  <2>2. <<u, v>> \in DOMAIN graph /\ new[<<u, v>>] = graph[<<u, v>>]
    BY <1>5, <2>1
  <2>3. u \in InNeighbours(graph, v) /\ dist[v] <= dist[u] + graph[<<u, v>>]
    BY <1>4, <2>1, <2>2 DEF InNeighbours, Respected
  <2>4. dist[u] \in Nat /\ dist[v] \in Nat /\ graph[<<u, v>>] \in 1 .. MaxWeight
    BY <1>2, <1>3, <2>1, <2>3, DigraphFacts DEF Distance
  <2>5. ASSUME dist[v] = dist[u] + graph[<<u, v>>] PROVE parent[v] \in Node /\ parent[v] <= u
    <3>1. Explains(graph, dist, u, v)
      BY <2>3, <2>5 DEF Explains
    <3>2. dist[v] # Inf
      BY <1>4, <2>4, <2>5, Constants
    <3> QED BY <1>4, <2>1, <3>1, <3>2 DEF Hangs
  <2> QED BY <2>2, <2>3, <2>4, <2>5
<1>14. word' = PackedTree'
  BY <1>1 DEF PackedTree
<1>15. TreeOfBefore'
  BY <1>1, <1>12, <1>13, <1>14 DEF TreeOfBefore
<1>16. JumpsAgree'
  BY <1>1, <1>7, <1>11, <1>15 DEF JumpsAgree
<1>17. word' \in [Node -> Word]
  <2> SUFFICES ASSUME NEW v \in Node, dist[v] # Inf PROVE Pack(dist[v], parent[v]) \in Word
    BY <1>1, InfinityFacts DEF PackedTree
  <2>1. dist[v] \in Nat /\ dist[v] < Inf
    BY <1>3, Constants DEF Distance
  <2>2. Inf <= Field
    BY Constants DEF NearFarInv, OffersFit, Inf
  <2>3. dist[v] \in 0 .. Field - 1
    BY <2>1, <2>2, Constants
  <2> QED BY <1>3, <2>3, PackFacts
<1>18. NearFarTypeOK'
  <2>1. d \in Nat
    BY DeltasAssumption
  <2> QED BY <1>1, <1>5, <1>6, <1>10, <1>17, <2>1 DEF NearFarInv, NearFarTypeOK
<1>19. ListsAgree'
  BY <1>1 DEF NearFarInv, ListsAgree
<1> QED BY <1>1, <1>10, <1>16, <1>18, <1>19 DEF NearFarInv, OffersFit, Running, new

LEMMA JumpKeeps ==
  ASSUME NearFarInv, Jump
  PROVE  NearFarInv' /\ phase = "jump" /\ phase' = "jump" /\ UNCHANGED <<graph, dist, parent>>
<1>1. /\ phase = "jump" /\ ((\E v \in Node : JumpThread(v)) \/ NextJumpRound)
      /\ UNCHANGED <<parent, graph, dist, word, insertHeads, phase, before, waiting, pushVars, calls>>
  BY DEF Jump
<1>2. /\ parent' = parent /\ graph' = graph /\ dist' = dist /\ word' = word /\ insertHeads' = insertHeads
      /\ phase' = phase /\ before' = before /\ waiting' = waiting /\ calls' = calls
      /\ heads' = heads /\ loaded' = loaded /\ claimed' = claimed /\ count' = count /\ outSlot' = outSlot
      /\ out' = out /\ far' = far /\ inFar' = inFar /\ threshold' = threshold /\ delta' = delta
  BY <1>1 DEF pushVars, farVars
<1>3. JumpInv'
  BY <1>1, <1>2, JumpInvNext DEF JumpNext, NearFarInv, JumpsAgree
<1>4. roots' = roots
  BY <1>1 DEF JumpThread, NextJumpRound
<1>5. TreeOfBefore'
  BY <1>1, <1>2, <1>4 DEF NearFarInv, JumpsAgree, TreeOfBefore, PackedTree
<1>6. JumpsAgree'
  BY <1>1, <1>2, <1>3, <1>4, <1>5 DEF NearFarInv, JumpsAgree
<1>7. NearFarTypeOK' /\ ParentsNearer' /\ ListsAgree'
  BY <1>2 DEF NearFarInv, NearFarTypeOK, TreeTypes, ParentsNearer, ListsAgree, Size, Entries
<1> QED BY <1>1, <1>2, <1>6, <1>7 DEF NearFarInv, OffersFit, Running

\* What the invalidation leaves is a tree whose vertices are as near as before.
LEMMA InvalidateKeeps ==
  ASSUME NearFarInv, Invalidate
  PROVE  NearFarInv' /\ phase = "jump" /\ phase' = "pull" /\ UNCHANGED <<graph, dist, parent>>
<1> DEFINE S == {v \in Node : v \notin flag /\ dist[v] # Inf}
<1>1. /\ phase = "jump" /\ JumpsDone /\ phase' = "pull"
      /\ word' = [v \in Node |-> IF v \in flag THEN PackedInf ELSE word[v]]
      /\ flag' = {} /\ roots' = {} /\ ancestor' = parent /\ reach' = 1
      /\ waiting' = Candidates /\ before' = word' /\ claimed' = {}
      /\ parent' = parent /\ todo' = todo /\ graph' = graph /\ dist' = dist /\ insertHeads' = insertHeads
      /\ heads' = heads /\ loaded' = loaded /\ count' = count /\ outSlot' = outSlot /\ out' = out
      /\ far' = far /\ inFar' = inFar /\ threshold' = threshold /\ delta' = delta /\ calls' = calls
  BY DEF Invalidate, farVars
<1>2. /\ NearFarTypeOK /\ IsDigraph(graph) /\ TreeTypes /\ ParentsNearer /\ JumpInv /\ TreeOfBefore /\ OffersFit
      /\ Source \notin roots
      /\ dist \in [Node -> Distance] /\ parent \in [Node -> Node \cup {NoParent}] /\ word \in [Node -> Word]
      /\ dist[Source] = 0 /\ parent[Source] = NoParent
      /\ \A v \in Node : parent[v] \in Node => dist[parent[v]] < dist[v]
  BY <1>1 DEF NearFarInv, JumpsAgree, NearFarTypeOK, TreeTypes, ParentsNearer
<1>3. flag = {v \in Node : Above(v) \cap roots # {}} /\ todo = {}
  BY <1>1, <1>2, InvariantSuffices DEF JumpsSound, MarkedExactly, JumpsDone
<1>4. Source \notin flag
  BY <1>2, <1>3, AboveParent, Constants
<1>5. \A v \in Node : v \notin flag => v \notin roots /\ (parent[v] \in Node => parent[v] \notin flag)
  BY <1>3, AboveFacts
<1>6. ASSUME NEW v \in S \ {Source}
      PROVE  /\ parent[v] \in InNeighbours(graph, v) /\ parent[v] \in S
             /\ dist[v] >= dist[parent[v]] + graph[<<parent[v], v>>]
             /\ dist[parent[v]] < dist[v] /\ dist[v] <= dist[parent[v]] + MaxWeight
  <2>1. /\ parent[v] \in InNeighbours(graph, v) /\ dist[parent[v]] # Inf
        /\ dist[v] >= dist[parent[v]] + graph[<<parent[v], v>>] /\ dist[v] <= dist[parent[v]] + MaxWeight
    BY <1>2, <1>5 DEF TreeOfBefore
  <2>2. parent[v] \in Node
    BY <2>1 DEF InNeighbours
  <2> QED BY <1>2, <1>5, <2>1, <2>2
<1>7. ASSUME NEW v \in Node
      PROVE  IF v \in S THEN /\ word'[v] # PackedInf /\ word'[v] = Pack(dist[v], parent[v]) /\ word'[v] \in Word
                            /\ DistanceOf(word'[v]) = dist[v] /\ ParentOf(word'[v]) = parent[v]
             ELSE word'[v] = PackedInf
  <2>1. CASE v \notin S
    BY <1>1, <1>2, <2>1 DEF TreeOfBefore, PackedTree
  <2>2. CASE v \in S
    <3>1. word'[v] = Pack(dist[v], parent[v])
      BY <1>1, <1>2, <2>2 DEF TreeOfBefore, PackedTree
    <3>2. dist[v] \in 0 .. Field - 1 /\ (v = Source => dist[v] # Field - 1)
      <4>1. dist[v] \in Nat /\ dist[v] < Inf
        BY <1>2, <2>2, Constants DEF Distance
      <4>2. Inf <= Field
        BY <1>2, Constants DEF OffersFit, Inf
      <4> QED BY <1>2, <4>1, <4>2, Constants
    <3>3. v # Source => parent[v] # NoParent
      BY <1>6, <2>2, Constants
    <3> QED BY <1>2, <2>2, <3>1, <3>2, <3>3, PackFacts
  <2> QED BY <2>1, <2>2
<1>8. word' \in [Node -> Word]
  <2>1. \A v \in Node : word'[v] \in Word
    BY <1>7, InfinityFacts
  <2>2. word' = [v \in Node |-> word'[v]]
    BY <1>1
  <2> QED BY <2>1, <2>2
<1>9. Candidates = AsList(flag \cup (insertHeads \ {Source})) /\ flag \cup (insertHeads \ {Source}) \in SUBSET Node
  BY <1>2, <1>3 DEF Candidates, NearFarTypeOK
<1>10. /\ waiting' \in Simple /\ waiting'[Source] = 0
       /\ \A v \in Node : v \in flag \cup (insertHeads \ {Source}) => waiting'[v] > 0
  <2> DEFINE L == flag \cup (insertHeads \ {Source})
  <2>1. waiting' = AsList(L) /\ L \in SUBSET Node /\ Source \notin L
    BY <1>1, <1>4, <1>9
  <2> HIDE DEF L
  <2>2. waiting' \in Simple
    BY <2>1, ListFacts
  <2>3. waiting'[Source] = 0 /\ \A v \in Node : v \in L => waiting'[v] > 0
    BY <2>1, Constants DEF AsList
  <2> QED BY <2>2, <2>3 DEF L
<1>11. Sound(graph', word')
  <2>1. word'[Source] = Pack(0, NoParent)
    <3>1. Source \in S
      BY <1>2, <1>4, Constants
    <3> QED BY <1>2, <1>7, <3>1
  <2>2. ASSUME NEW v \in Node \ {Source}, word'[v] # PackedInf PROVE Explained(graph', word', v)
    <3>1. v \in S
      BY <1>7, <2>2
    <3> HIDE DEF S
    <3>2. /\ parent[v] \in InNeighbours(graph, v) /\ parent[v] \in S /\ parent[v] \in Node
          /\ dist[v] >= dist[parent[v]] + graph[<<parent[v], v>>]
      BY <1>6, <3>1 DEF InNeighbours
    <3> QED BY <1>1, <1>7, <3>1, <3>2 DEF Explained
  <2>3. ASSUME NEW v \in Node, word'[v] # PackedInf PROVE Copy(word', v, word'[v])
    <3>1. v \in S
      BY <1>7, <2>3
    <3>2. dist[v] <= MaxWeight * Cardinality({u \in S : dist[u] < dist[v]})
      <4>1. S \in SUBSET Node
        OBVIOUS
      <4>2. \A x \in S \ {Source} : parent[x] \in S /\ dist[parent[x]] < dist[x] /\ dist[x] <= dist[parent[x]] + MaxWeight
        BY <1>6
      <4> HIDE DEF S
      <4> QED BY <1>2, <3>1, <4>1, <4>2, HopsBound
    <3>3. Near(word', dist[v]) \ {v} = {u \in S : dist[u] < dist[v]}
      <4>1. \A u \in Node : u \in Near(word', dist[v]) <=> u \in S /\ dist[u] < dist[v]
        BY <1>7 DEF Near
      <4>2. dist[v] \in Nat
        BY <1>2 DEF Distance
      <4>3. Near(word', dist[v]) \subseteq Node /\ v \notin Near(word', dist[v])
        BY <4>1, <4>2 DEF Near
      <4> QED BY <4>1, <4>3
    <3> HIDE DEF S
    <3>4. word'[v] \in Word /\ DistanceOf(word'[v]) = dist[v] /\ dist[v] \in Nat
      BY <1>2, <1>7, <3>1 DEF Distance
    <3> QED BY <2>3, <3>2, <3>3, <3>4 DEF Copy
  <2> QED BY <1>8, <2>1, <2>2, <2>3 DEF Sound
<1>12. CopiesAgree'
  <2>1. heads = Quiet
    BY <1>1 DEF NearFarInv, ListsAgree
  <2> QED BY <1>1, <1>11, <2>1 DEF CopiesAgree, Sound, Quiet
<1>13. NothingForgotten'
  <2> SUFFICES ASSUME NEW u \in Node, NEW v \in OutNeighbours(graph, u) \ {Source},
                      Improving(graph, word', u, v), v \notin flag, v \notin insertHeads
               PROVE  FALSE
    BY <1>1, <1>10 DEF NothingForgotten, Ahead, OutNeighbours
  <2>1. v \in Node /\ u \in InNeighbours(graph, v) /\ word'[u] # PackedInf
    BY DEF OutNeighbours, InNeighbours, Improving
  <2>2. u \in S /\ DistanceOf(word'[u]) = dist[u] /\ dist[u] # Inf /\ dist[u] \in Nat /\ dist[v] \in Nat
    BY <1>2, <1>7, <2>1 DEF Distance
  <2> DEFINE y == Pack(dist[u] + graph[<<u, v>>], u)
  <2>3. y < word'[v]
    BY <2>2 DEF Improving
  <2>4. Copy(word', u, word'[u])
    BY <1>11, <2>1 DEF Sound
  <2>5. /\ graph[<<u, v>>] \in 1 .. MaxWeight /\ y \in Word /\ DistanceOf(y) = dist[u] + graph[<<u, v>>] /\ ParentOf(y) = u
        /\ dist[u] + MaxWeight < Inf
    <3> DEFINE x == word'[u]
    <3>1. /\ graph[<<u, v>>] \in 1 .. MaxWeight /\ Pack(DistanceOf(x) + graph[<<u, v>>], u) \in Word
          /\ DistanceOf(Pack(DistanceOf(x) + graph[<<u, v>>], u)) = DistanceOf(x) + graph[<<u, v>>]
          /\ ParentOf(Pack(DistanceOf(x) + graph[<<u, v>>], u)) = u
      BY <1>2, <2>1, <2>4, OfferFacts
    <3>2. DistanceOf(x) + MaxWeight < Inf
      BY <1>2, <2>4, CopyFits
    <3>3. DistanceOf(x) = dist[u]
      BY <2>2
    <3> HIDE DEF x
    <3> QED BY <3>1, <3>2, <3>3
  <2>6. \/ dist[v] < dist[u] + graph[<<u, v>>]
        \/ dist[v] = dist[u] + graph[<<u, v>>] /\ parent[v] \in Node /\ parent[v] <= u
    BY <1>2, <2>2 DEF TreeOfBefore
  <2>7. v \in S
    BY <2>1, <2>2, <2>5, <2>6, Constants
  <2>8. word'[v] \in Word /\ DistanceOf(word'[v]) = dist[v] /\ ParentOf(word'[v]) = parent[v]
    BY <1>7, <2>1, <2>7
  <2>9. y \in Nat /\ word'[v] \in Nat
    BY <2>5, <2>8, WordFacts
  <2> HIDE DEF S, y
  <2>10. CASE dist[v] < dist[u] + graph[<<u, v>>]
    <3>1. word'[v] < y
      BY <2>5, <2>8, <2>10, WordOrder
    <3> QED BY <2>3, <2>9, <3>1
  <2>11. CASE dist[v] = dist[u] + graph[<<u, v>>] /\ parent[v] \in Node /\ parent[v] <= u
    <3>1. ParentField(u) < ParentField(parent[v])
      BY <2>3, <2>5, <2>8, <2>11, WordOrder
    <3>2. ParentField(u) = u /\ ParentField(parent[v]) = parent[v] /\ u \in Nat /\ parent[v] \in Nat
      BY <2>11, Constants DEF ParentField
    <3> QED BY <2>11, <3>1, <3>2
  <2> QED BY <2>6, <2>10, <2>11
<1>14. TreeTypes' /\ ParentsNearer'
  BY <1>1, <1>2 DEF TreeTypes, ParentsNearer
<1>15. JumpsAgree'
  <2>1. IsForest'
    <3>1. IsForest
      BY <1>2, NearerIsForest
    <3> QED BY <1>1, <3>1, AboveIsConstant DEF IsForest
  <2>2. JumpInit'
    BY <1>1, <1>2, <1>3, <2>1 DEF JumpInit
  <2> QED BY <1>1, <2>2 DEF JumpsAgree
<1>16. NearFarTypeOK'
  BY <1>1, <1>2, <1>8, <1>10, <1>14 DEF NearFarTypeOK
<1>17. ListsAgree'
  <2>1. out = Nothing /\ heads = Quiet /\ far = Nothing /\ inFar = {} /\ On(out) = {}
    BY <1>1, ListFacts DEF NearFarInv, ListsAgree
  <2> QED BY <1>1, <1>10, <2>1 DEF ListsAgree
<1> QED BY <1>1, <1>2, <1>11, <1>12, <1>13, <1>14, <1>15, <1>16, <1>17 DEF NearFarInv, OffersFit

-----------------------------------------------------------------------------
(***************************************************************************)
(* The pull pass.                                                          *)
(***************************************************************************)
Seen(stale, u) == IF u \in stale THEN before[u] ELSE word[u]

PullOffers(stale, v) ==
  {Pack(DistanceOf(Seen(stale, u)) + graph[<<u, v>>], u) :
     u \in {x \in InNeighbours(graph, v) : Seen(stale, x) # PackedInf}}

\* Whatever a thread sees may be offered on, and it takes the least offer.
LEMMA PullWrites ==
  ASSUME NearFarInv, phase = "pull", NEW v \in Node \ {Source}, NEW stale,
         NEW best, best = LeastOf({word[v]} \cup PullOffers(stale, v)),
         word' = [word EXCEPT ![v] = best]
  PROVE  /\ Written(graph, word, v, word') /\ word'[v] = best
         /\ \A u \in InNeighbours(graph, v) :
              Seen(stale, u) # PackedInf => ~ (Pack(DistanceOf(Seen(stale, u)) + graph[<<u, v>>], u) < best)
<1>1. /\ OffersFit /\ IsDigraph(graph) /\ Sound(graph, word) /\ CopiesAgree
      /\ word \in [Node -> Word] /\ before \in [Node -> Word]
  BY DEF NearFarInv, NearFarTypeOK, Running
<1>2. ASSUME NEW u \in InNeighbours(graph, v), Seen(stale, u) # PackedInf
      PROVE  u \in Node /\ Seen(stale, u) \in Word /\ Copy(word, u, Seen(stale, u))
  <2>1. u \in Node
    BY DEF InNeighbours
  <2>2. CASE u \in stale
    BY <1>1, <1>2, <2>1, <2>2 DEF Seen, CopiesAgree
  <2>3. CASE u \notin stale
    BY <1>1, <1>2, <2>1, <2>3 DEF Seen, Sound
  <2> QED BY <2>1, <2>2, <2>3
<1>3. PullOffers(stale, v) \subseteq Word
  <2> SUFFICES ASSUME NEW u \in InNeighbours(graph, v), Seen(stale, u) # PackedInf
               PROVE  Pack(DistanceOf(Seen(stale, u)) + graph[<<u, v>>], u) \in Word
    BY DEF PullOffers
  <2>1. Copy(word, u, Seen(stale, u))
    BY <1>2
  <2> QED BY <1>1, <2>1, OfferFacts
<1> DEFINE A == {word[v]} \cup PullOffers(stale, v)
<1>4. A \in SUBSET Nat /\ A # {}
  <2>1. word[v] \in Nat /\ Word \subseteq Nat
    BY <1>1, WordFacts
  <2> QED BY <1>3, <2>1
<1>5. best \in A /\ \A x \in A : best <= x
  <2> HIDE DEF A
  <2>1. LeastOf(A) \in A /\ \A x \in A : LeastOf(A) <= x
    BY <1>4, LeastOfFacts
  <2> QED BY <2>1 DEF A
<1>6. best \in Nat /\ word[v] \in Nat /\ best <= word[v]
  BY <1>4, <1>5
<1>7. ASSUME NEW u \in InNeighbours(graph, v), Seen(stale, u) # PackedInf
      PROVE  ~ (Pack(DistanceOf(Seen(stale, u)) + graph[<<u, v>>], u) < best)
  <2> DEFINE y == Pack(DistanceOf(Seen(stale, u)) + graph[<<u, v>>], u)
  <2>1. y \in A
    BY <1>7 DEF PullOffers
  <2> HIDE DEF y, A
  <2>2. y \in Nat /\ best <= y
    BY <1>4, <1>5, <2>1
  <2>3. ~ (y < best)
    BY <1>6, <2>2
  <2> QED BY <2>3 DEF y
<1>8. Offered(graph, word, v, best)
  <2>1. CASE best = word[v]
    BY <2>1 DEF Offered
  <2>2. CASE best # word[v]
    <3>1. best < word[v] /\ best \in PullOffers(stale, v)
      BY <1>5, <1>6, <2>2
    <3>2. PICK u \in InNeighbours(graph, v) :
            Seen(stale, u) # PackedInf /\ best = Pack(DistanceOf(Seen(stale, u)) + graph[<<u, v>>], u)
      BY <3>1 DEF PullOffers
    <3>3. Seen(stale, u) \in Word /\ Copy(word, u, Seen(stale, u))
      BY <1>2, <3>2
    <3> QED BY <3>1, <3>2, <3>3 DEF Offered
  <2> QED BY <2>1, <2>2
<1>9. word'[v] = best
  BY <1>1
<1> QED BY <1>7, <1>8, <1>9 DEF Written

LEMMA PullThreadKeeps ==
  ASSUME NearFarInv, NEW v \in Node, PullThread(v)
  PROVE  NearFarInv' /\ phase = "pull" /\ phase' = "pull" /\ UNCHANGED <<graph, dist, parent>>
<1>1. /\ phase = "pull" /\ waiting[v] > 0 /\ waiting' = [waiting EXCEPT ![v] = @ - 1]
      /\ UNCHANGED <<parent, jumpVars, graph, dist, insertHeads, phase, before, heads, loaded, count,
                     outSlot, farVars, calls>>
  BY DEF PullThread
<1>2. PICK stale \in SUBSET {u \in InNeighbours(graph, v) : before[u] # word[u]} :
        \E best : /\ best = LeastOf({word[v]} \cup PullOffers(stale, v))
                  /\ word' = [word EXCEPT ![v] = best]
                  /\ out' = IF Improved(best, word[v]) /\ v \notin claimed THEN [out EXCEPT ![v] = @ + 1] ELSE out
                  /\ claimed' = IF Improved(best, word[v]) /\ v \notin claimed THEN claimed \cup {v} ELSE claimed
  BY DEF PullThread, PullOffers, Seen
<1>3. PICK best : /\ best = LeastOf({word[v]} \cup PullOffers(stale, v))
                  /\ word' = [word EXCEPT ![v] = best]
                  /\ out' = IF Improved(best, word[v]) /\ v \notin claimed THEN [out EXCEPT ![v] = @ + 1] ELSE out
                  /\ claimed' = IF Improved(best, word[v]) /\ v \notin claimed THEN claimed \cup {v} ELSE claimed
  BY <1>2
<1>4. /\ OffersFit /\ NearFarTypeOK /\ ListsAgree /\ IsDigraph(graph) /\ Sound(graph, word) /\ CopiesAgree
      /\ NothingForgotten /\ word \in [Node -> Word] /\ before \in [Node -> Word]
      /\ waiting \in Simple /\ out \in Simple /\ claimed = On(out) /\ waiting[Source] = 0 /\ heads = Quiet
  BY <1>1 DEF NearFarInv, NearFarTypeOK, ListsAgree, Running
<1>5. v \in Node \ {Source}
  BY <1>1, <1>4
<1>6. /\ Written(graph, word, v, word') /\ word'[v] = best
      /\ \A u \in InNeighbours(graph, v) :
           Seen(stale, u) # PackedInf => ~ (Pack(DistanceOf(Seen(stale, u)) + graph[<<u, v>>], u) < best)
  BY <1>1, <1>3, <1>5, PullWrites
<1>7. /\ Sound(graph, word') /\ \A a \in Node : \A x \in Word : Copy(word, a, x) => Copy(word', a, x)
      /\ \A a \in Node \ {v} : word'[a] = word[a]
      /\ \A a \in Node : DistanceOf(word'[a]) <= DistanceOf(word[a])
  BY <1>4, <1>5, <1>6, Lowered
<1>8. /\ out' \in Simple /\ claimed' = On(out') /\ claimed' \in SUBSET Node
      /\ \A a \in Node : out[a] > 0 => out'[a] > 0
      /\ DistanceOf(best) < DistanceOf(word[v]) => out'[v] > 0
  <2>1. CASE Improved(best, word[v]) /\ v \notin claimed
    <3>1. v \in Node \ On(out) /\ out' = [out EXCEPT ![v] = @ + 1] /\ claimed' = claimed \cup {v}
      BY <1>3, <1>4, <2>1
    <3>2. out' \in Simple /\ On(out') = On(out) \cup {v}
      BY <1>4, <3>1, Appended
    <3> QED BY <1>4, <3>1, <3>2 DEF On
  <2>2. CASE ~ (Improved(best, word[v]) /\ v \notin claimed)
    <3>1. out' = out /\ claimed' = claimed
      BY <1>3, <2>2
    <3> QED BY <1>4, <2>2, <3>1 DEF On, Improved
  <2> QED BY <2>1, <2>2
<1>9. waiting' \in Simple /\ waiting'[Source] = 0 /\ \A a \in Node \ {v} : waiting'[a] = waiting[a]
  BY <1>1, <1>4, <1>5, Constants DEF Simple
<1>10. TreeTypes' /\ ParentsNearer' /\ JumpsAgree'
  BY <1>1, TreeStays
<1>11. NearFarTypeOK'
  BY <1>1, <1>4, <1>7, <1>8, <1>9, <1>10 DEF NearFarTypeOK, Sound, farVars
<1>12. ListsAgree'
  BY <1>1, <1>4, <1>8, <1>9 DEF ListsAgree, farVars
<1>13. CopiesAgree'
  <2>1. ASSUME NEW u \in Node, word'[u] # before[u]
        PROVE  out'[u] > 0 \/ (before[u] # PackedInf /\ DistanceOf(word'[u]) = DistanceOf(before[u]))
    <3>1. CASE word'[u] = word[u]
      BY <1>1, <1>4, <1>8, <2>1, <3>1 DEF CopiesAgree
    <3>2. CASE word'[u] # word[u]
      <4>1. u = v
        BY <1>7, <3>2
      <4>2. CASE DistanceOf(best) < DistanceOf(word[v])
        BY <1>8, <4>1, <4>2
      <4>3. CASE ~ (DistanceOf(best) < DistanceOf(word[v]))
        <5>1. DistanceOf(word'[v]) \in Nat /\ DistanceOf(word[v]) \in Nat
          BY <1>4, <1>7, ReachedFacts
        <5>2. DistanceOf(word'[v]) = DistanceOf(word[v])
          BY <1>6, <1>7, <4>3, <5>1
        <5>3. word[v] # PackedInf
          <6>1. word'[v] # PackedInf
            <7>1. word'[v] < word[v]
              BY <1>6, <3>2, <4>1 DEF Written, Offered
            <7>2. word'[v] \in Nat /\ word[v] \in Nat /\ word[v] <= PackedInf /\ PackedInf \in Nat
              BY <1>4, <1>7, ReachedFacts, WordFacts, Constants
            <7> QED BY <7>1, <7>2
          <6>2. DistanceOf(word'[v]) < Field - 1
            BY <1>4, <1>7, <6>1, ReachedFacts
          <6>3. word[v] = PackedInf => DistanceOf(word[v]) = Field - 1
            BY <1>4, ReachedFacts
          <6> QED BY <5>1, <5>2, <6>2, <6>3, Constants
        <5>4. CASE word[v] = before[v]
          BY <4>1, <5>2, <5>3, <5>4
        <5>5. CASE word[v] # before[v]
          BY <1>1, <1>4, <1>8, <4>1, <5>2, <5>5 DEF CopiesAgree
        <5> QED BY <5>4, <5>5
      <4> QED BY <4>2, <4>3
    <3> QED BY <3>1, <3>2
  <2>2. ASSUME NEW u \in Node, before[u] # PackedInf PROVE Copy(word', u, before[u])
    BY <1>1, <1>4, <1>7, <2>2 DEF CopiesAgree
  <2> QED BY <1>1, <1>4, <2>1, <2>2 DEF CopiesAgree, Quiet
<1>14. NothingForgotten'
  <2> SUFFICES ASSUME NEW a \in Node, NEW b \in OutNeighbours(graph, a) \ {Source}, Improving(graph, word', a, b)
               PROVE  waiting'[b] > 0 \/ out'[a] > 0
    BY <1>1 DEF NothingForgotten, Ahead
  <2>1. b \in Node /\ a \in InNeighbours(graph, b)
    BY DEF OutNeighbours, InNeighbours
  <2>2. CASE a = v /\ DistanceOf(word'[v]) < DistanceOf(word[v])
    BY <1>6, <1>8, <2>2
  <2>3. CASE Improving(graph, word, a, b)
    <3>1. waiting[b] > 0 \/ out[a] > 0
      BY <1>1, <1>4, <2>3 DEF NothingForgotten, Ahead
    <3>2. CASE out[a] > 0
      BY <1>8, <3>2
    <3>3. CASE waiting[b] > 0 /\ b # v
      BY <1>9, <2>1, <3>3
    <3>4. CASE b = v
      <4>1. a # v
        <5> SUFFICES ASSUME a = v PROVE FALSE
          OBVIOUS
        <5> DEFINE y == Pack(DistanceOf(word'[v]) + graph[<<v, v>>], v)
        <5>1. word'[v] # PackedInf /\ y < word'[v]
          BY <3>4 DEF Improving
        <5>2. Copy(word', v, word'[v])
          BY <1>7, <5>1 DEF Sound
        <5>3. v \in InNeighbours(graph, v)
          BY <2>1, <3>4
        <5>4. y \in Word /\ DistanceOf(y) = DistanceOf(word'[v]) + graph[<<v, v>>] /\ graph[<<v, v>>] \in 1 .. MaxWeight
          BY <1>4, <5>2, <5>3, OfferFacts
        <5>5. word'[v] \in Word /\ DistanceOf(word'[v]) \in Nat
          BY <1>4, <1>7, ReachedFacts
        <5> HIDE DEF y
        <5>6. word'[v] < y
          <6>1. DistanceOf(word'[v]) < DistanceOf(y)
            BY <5>4, <5>5
          <6> QED BY <5>4, <5>5, <6>1, WordOrder
        <5>7. y \in Nat /\ word'[v] \in Nat
          BY <5>4, <5>5, WordFacts
        <5> QED BY <5>1, <5>6, <5>7
      <4>2. word[a] # PackedInf /\ Pack(DistanceOf(word[a]) + graph[<<a, v>>], a) < best
        BY <1>6, <1>7, <3>4, <4>1 DEF Improving
      <4>3. CASE a \notin stale
        BY <1>6, <2>1, <3>4, <4>2, <4>3 DEF Seen
      <4>4. CASE a \in stale
        <5>1. before[a] # word[a] /\ Seen(stale, a) = before[a]
          BY <4>4 DEF Seen
        <5>2. out[a] > 0 \/ (before[a] # PackedInf /\ DistanceOf(word[a]) = DistanceOf(before[a]))
          BY <1>1, <1>4, <5>1 DEF CopiesAgree
        <5> QED BY <1>6, <1>8, <2>1, <3>4, <4>2, <5>1, <5>2
      <4> QED BY <4>3, <4>4
    <3> QED BY <3>1, <3>2, <3>3, <3>4
  <2> QED BY <1>4, <1>5, <1>6, <2>2, <2>3, NewlyImproving
<1> QED BY <1>1, <1>4, <1>7, <1>10, <1>11, <1>12, <1>13, <1>14 DEF NearFarInv, OffersFit

LEMMA PullDoneKeeps ==
  ASSUME NearFarInv, PullDone
  PROVE  NearFarInv' /\ phase = "pull" /\ phase' # "idle" /\ UNCHANGED <<graph, dist, parent>>
<1>1. /\ phase = "pull" /\ waiting = Nothing /\ phase' = IF out = Nothing THEN "unpack" ELSE "split"
      /\ UNCHANGED <<parent, jumpVars, graph, dist, word, insertHeads, before, waiting, pushVars, calls>>
  BY DEF PullDone
<1>2. /\ graph' = graph /\ word' = word /\ insertHeads' = insertHeads
      /\ before' = before /\ waiting' = waiting /\ calls' = calls
      /\ heads' = heads /\ loaded' = loaded /\ claimed' = claimed /\ count' = count /\ outSlot' = outSlot
      /\ out' = out /\ far' = far /\ inFar' = inFar /\ threshold' = threshold /\ delta' = delta
  BY <1>1 DEF pushVars, farVars
<1>3. phase' \in {"split", "unpack"}
  BY <1>1
<1>4. TreeTypes' /\ ParentsNearer' /\ JumpsAgree'
  BY <1>1, <1>3, TreeStays
<1>5. NearFarTypeOK'
  BY <1>2, <1>3, <1>4 DEF NearFarInv, NearFarTypeOK
<1>6. ListsAgree'
  BY <1>1, <1>2, <1>3 DEF NearFarInv, ListsAgree
<1>7. Sound(graph', word') /\ CopiesAgree'
  BY <1>1, <1>2, <1>3 DEF NearFarInv, Running, CopiesAgree
<1>8. NothingForgotten'
  BY <1>1, <1>2, <1>3 DEF NearFarInv, Running, NothingForgotten, Ahead, Nothing, AsList, OutNeighbours
<1> QED BY <1>1, <1>2, <1>3, <1>4, <1>5, <1>6, <1>7, <1>8 DEF NearFarInv, OffersFit

-----------------------------------------------------------------------------
(***************************************************************************)
(* The push phase.                                                         *)
(***************************************************************************)
LEMMA LeastDistanceIsNat ==
  ASSUME NearFarInv, NEW list \in Simple, list # Nothing
  PROVE  LeastDistance(list) \in Nat
<1> DEFINE D == {DistanceOf(word[v]) : v \in On(list)}
<1>1. word \in [Node -> Word] /\ On(list) \subseteq Node /\ On(list) # {}
  BY EntriesFacts DEF NearFarInv, NearFarTypeOK, On
<1>2. D \in SUBSET Nat /\ D # {}
  BY <1>1, WordFacts
<1> HIDE DEF D
<1>3. LeastOf(D) \in Nat
  BY <1>2, LeastOfFacts
<1> QED BY <1>3 DEF LeastDistance, D

LEMMA FirstSplitKeeps ==
  ASSUME NearFarInv, FirstSplit
  PROVE  NearFarInv' /\ phase = "split" /\ phase' = "push" /\ UNCHANGED <<graph, dist, parent>>
<1> DEFINE thr == LeastDistance(out) + delta
           near == {v \in On(out) : DistanceOf(word[v]) < thr}
           rest == On(out) \ near
<1>1. /\ phase = "split" /\ phase' = "push" /\ threshold' = thr
      /\ inFar' = inFar \cup rest /\ far' = AsList(rest \ inFar)
      /\ count' = [A |-> 0, B |-> 0, far |-> Size(far')]
      /\ waiting' = AsList(near) /\ out' = Nothing /\ claimed' = {} /\ outSlot' = "B"
      /\ UNCHANGED <<parent, jumpVars, graph, dist, word, insertHeads, before, heads, loaded, delta, calls>>
  BY DEF FirstSplit, LaunchPush
<1>2. /\ OffersFit /\ NearFarTypeOK /\ IsDigraph(graph) /\ Sound(graph, word) /\ CopiesAgree /\ NothingForgotten
      /\ out \in Simple /\ out # Nothing /\ inFar = {} /\ heads = Quiet /\ delta \in Nat /\ word \in [Node -> Word]
  BY <1>1 DEF NearFarInv, NearFarTypeOK, ListsAgree, Running
<1>3. thr \in Nat
  BY <1>2, LeastDistanceIsNat
<1>4. near \in SUBSET Node /\ rest \in SUBSET Node /\ rest \ inFar = rest /\ inFar' = rest
  BY <1>1, <1>2 DEF On
<1>5. ASSUME NEW u \in Node, out[u] > 0 PROVE u \in near \/ (u \in rest /\ DistanceOf(word[u]) >= thr)
  <2>1. u \in On(out) /\ DistanceOf(word[u]) \in Nat
    BY <1>2, <1>5, ReachedFacts DEF On
  <2> QED BY <1>3, <2>1
<1> HIDE DEF thr, near, rest
<1>6. /\ waiting' \in Simple /\ far' \in Simple /\ On(far') = rest /\ out' \in Simple /\ On(out') = {}
      /\ Size(out') = 0 /\ Size(far') \in Nat
      /\ (\A u \in near : waiting'[u] > 0) /\ (\A u \in rest : far'[u] > 0)
  <2>1. waiting' = AsList(near) /\ far' = AsList(rest) /\ out' = Nothing
    BY <1>1, <1>4
  <2>2. waiting' \in Simple /\ far' \in Simple /\ On(far') = rest /\ out' \in Simple /\ On(out') = {} /\ Size(out') = 0
    BY <1>4, <2>1, ListFacts
  <2>3. Size(far') \in Nat
    BY <2>2, EntriesFacts
  <2> QED BY <1>4, <2>1, <2>2, <2>3 DEF AsList
<1>7. TreeTypes' /\ ParentsNearer' /\ JumpsAgree'
  BY <1>1, TreeStays
<1>8. NearFarTypeOK'
  <2>1. count' \in [A : Nat, B : Nat, far : Nat]
    BY <1>1, <1>6
  <2> QED BY <1>1, <1>2, <1>3, <1>4, <1>6, <1>7, <2>1 DEF NearFarTypeOK
<1>9. ListsAgree'
  <2>1. count'[outSlot'] = 0 /\ count'[Other(outSlot')] = 0 /\ count'.far = Size(far')
    BY <1>1 DEF Other
  <2> QED BY <1>1, <1>2, <1>4, <1>6, <2>1 DEF ListsAgree, Quiet
<1>10. CopiesAgree'
  BY <1>1, <1>2 DEF CopiesAgree, Quiet
<1>11. NothingForgotten'
  <2> SUFFICES ASSUME NEW u \in Node, NEW v \in OutNeighbours(graph, u) \ {Source}, Improving(graph, word, u, v)
               PROVE  waiting'[u] > 0 \/ (far'[u] > 0 /\ DistanceOf(word[u]) >= thr)
    BY <1>1 DEF NothingForgotten, Ahead
  <2>1. out[u] > 0
    BY <1>1, <1>2 DEF NothingForgotten, Ahead
  <2> QED BY <1>5, <1>6, <2>1
<1> QED BY <1>1, <1>2, <1>7, <1>8, <1>9, <1>10, <1>11 DEF NearFarInv, OffersFit

LEMMA PushLoadKeeps ==
  ASSUME NearFarInv, NEW u \in Node, PushLoad(u)
  PROVE  NearFarInv' /\ phase = "push" /\ phase' = "push" /\ UNCHANGED <<graph, dist, parent>>
<1>1. /\ phase = "push" /\ waiting[u] > 0 /\ heads[u] = {} /\ waiting' = [waiting EXCEPT ![u] = @ - 1]
      /\ loaded' = [loaded EXCEPT ![u] = word[u]]
      /\ heads' = [heads EXCEPT ![u] = IF word[u] = PackedInf THEN {} ELSE OutNeighbours(graph, u) \ {Source}]
      /\ UNCHANGED <<parent, jumpVars, graph, dist, word, insertHeads, phase, before, claimed, count, outSlot,
                     out, farVars, calls>>
  BY DEF PushLoad
<1>2. /\ OffersFit /\ NearFarTypeOK /\ IsDigraph(graph) /\ Sound(graph, word) /\ CopiesAgree /\ NothingForgotten
      /\ ListsAgree /\ word \in [Node -> Word] /\ loaded \in [Node -> Word] /\ waiting \in Simple
      /\ heads \in [Node -> SUBSET Node]
  BY <1>1 DEF NearFarInv, NearFarTypeOK, Running
<1>3. /\ waiting' \in Simple /\ \A x \in Node \ {u} : waiting'[x] = waiting[x]
      /\ loaded' \in [Node -> Word] /\ loaded'[u] = word[u] /\ \A x \in Node \ {u} : loaded'[x] = loaded[x]
      /\ heads' \in [Node -> SUBSET Node] /\ \A x \in Node \ {u} : heads'[x] = heads[x]
      /\ heads'[u] = IF word[u] = PackedInf THEN {} ELSE OutNeighbours(graph, u) \ {Source}
  <2>1. OutNeighbours(graph, u) \subseteq Node
    BY DEF OutNeighbours
  <2> QED BY <1>1, <1>2, <2>1 DEF Simple
<1>4. TreeTypes' /\ ParentsNearer' /\ JumpsAgree'
  BY <1>1, TreeStays
<1>5. NearFarTypeOK'
  BY <1>1, <1>2, <1>3, <1>4 DEF NearFarTypeOK, farVars
<1>6. ListsAgree'
  <2>1. \A x \in Node : heads'[x] \subseteq OutNeighbours(graph, x) \ {Source}
    BY <1>1, <1>2, <1>3 DEF ListsAgree
  <2> QED BY <1>1, <1>2, <2>1 DEF ListsAgree, farVars
<1>7. CopiesAgree'
  <2>1. ASSUME NEW x \in Node, heads'[x] # {} PROVE Copy(word, x, loaded'[x])
    <3>1. CASE x = u
      BY <1>2, <1>3, <2>1, <3>1 DEF Sound
    <3>2. CASE x # u
      BY <1>2, <1>3, <2>1, <3>2 DEF CopiesAgree
    <3> QED BY <3>1, <3>2
  <2> QED BY <1>1, <2>1 DEF CopiesAgree
<1>8. NothingForgotten'
  <2> SUFFICES ASSUME NEW a \in Node, NEW b \in OutNeighbours(graph, a) \ {Source}, Improving(graph, word, a, b)
               PROVE  Ahead(a, b)'
    BY <1>1 DEF NothingForgotten
  <2>1. Ahead(a, b)
    BY <1>2 DEF NothingForgotten
  <2>2. CASE a = u
    <3>1. b \in heads'[u] /\ loaded'[u] = word[u]
      BY <1>3, <2>2 DEF Improving
    <3> QED BY <1>1, <2>2, <3>1 DEF Ahead
  <2>3. CASE a # u
    BY <1>1, <1>3, <2>1, <2>3 DEF Ahead, farVars
  <2> QED BY <2>2, <2>3
<1> QED BY <1>1, <1>2, <1>4, <1>5, <1>6, <1>7, <1>8 DEF NearFarInv, OffersFit

LEMMA NextNearKeeps ==
  ASSUME NearFarInv, NextNear
  PROVE  NearFarInv' /\ phase = "push" /\ phase' = "push" /\ UNCHANGED <<graph, dist, parent>>
<1>1. /\ phase = "push" /\ waiting = Nothing /\ heads = Quiet
      /\ count' = [count EXCEPT ![outSlot] = 0]
      /\ waiting' = out /\ out' = Nothing /\ claimed' = {} /\ outSlot' = Other(outSlot)
      /\ UNCHANGED <<parent, jumpVars, graph, dist, word, insertHeads, phase, before, heads, loaded,
                     farVars, calls>>
  BY DEF NextNear, LaunchPush, PushesDone
<1>2. /\ OffersFit /\ NearFarTypeOK /\ ListsAgree /\ Sound(graph, word) /\ CopiesAgree /\ NothingForgotten
      /\ count \in [A : Nat, B : Nat, far : Nat] /\ outSlot \in {"A", "B"} /\ count[Other(outSlot)] = 0
      /\ count.far = Size(far) /\ out \in Simple
  BY <1>1 DEF NearFarInv, NearFarTypeOK, ListsAgree, Running
<1>3. /\ count' \in [A : Nat, B : Nat, far : Nat] /\ outSlot' \in {"A", "B"} /\ count'.far = count.far
      /\ count'[outSlot'] = 0 /\ count'[Other(outSlot')] = 0
  <2>1. CASE outSlot = "A"
    BY <1>1, <1>2, <2>1 DEF Other
  <2>2. CASE outSlot = "B"
    BY <1>1, <1>2, <2>2 DEF Other
  <2> QED BY <1>2, <2>1, <2>2
<1>4. out' \in Simple /\ On(out') = {} /\ Size(out') = 0
  BY <1>1, ListFacts
<1>5. far' = far /\ inFar' = inFar /\ threshold' = threshold /\ delta' = delta
  BY <1>1 DEF farVars
<1>6. TreeTypes' /\ ParentsNearer' /\ JumpsAgree'
  BY <1>1, TreeStays
<1>7. NearFarTypeOK'
  BY <1>1, <1>2, <1>3, <1>4, <1>5, <1>6 DEF NearFarTypeOK
<1>8. ListsAgree'
  <2>1. count'.far = Size(far')
    BY <1>2, <1>3, <1>5
  <2> QED BY <1>1, <1>2, <1>3, <1>4, <1>5, <2>1 DEF ListsAgree
<1>9. CopiesAgree'
  BY <1>1, <1>2 DEF CopiesAgree
<1>10. NothingForgotten'
  BY <1>1, <1>2, <1>5 DEF NothingForgotten, Ahead, Nothing, AsList, Quiet
<1> QED BY <1>1, <1>2, <1>6, <1>7, <1>8, <1>9, <1>10 DEF NearFarInv, OffersFit

LEMMA NextFarKeeps ==
  ASSUME NearFarInv, NextFar
  PROVE  NearFarInv' /\ phase = "push" /\ phase' = "push" /\ UNCHANGED <<graph, dist, parent>>
<1> DEFINE thr == Max({threshold, LeastDistance(far)}) + delta
           near == {v \in On(far) : DistanceOf(word[v]) < thr}
<1>1. /\ phase = "push" /\ waiting = Nothing /\ heads = Quiet /\ count[outSlot] = 0 /\ count.far > 0
      /\ threshold' = thr /\ inFar' = inFar \ near
      /\ far' = [v \in Node |-> IF v \in near THEN 0 ELSE far[v]]
      /\ count' = [A |-> 0, B |-> 0, far |-> Size(far')]
      /\ waiting' = AsList(near) /\ out' = Nothing /\ claimed' = {} /\ outSlot' = "B"
      /\ UNCHANGED <<parent, jumpVars, graph, dist, word, insertHeads, phase, before, heads, loaded, delta,
                     calls>>
  BY DEF NextFar, LaunchPush, PushesDone
<1>2. /\ OffersFit /\ NearFarTypeOK /\ ListsAgree /\ Sound(graph, word) /\ CopiesAgree /\ NothingForgotten
      /\ far \in Simple /\ On(far) = inFar /\ count.far = Size(far) /\ out \in Simple /\ count[outSlot] = Size(out)
      /\ threshold \in Nat /\ delta \in Nat
  BY <1>1 DEF NearFarInv, NearFarTypeOK, ListsAgree, Running
<1>3. far # Nothing /\ out = Nothing
  BY <1>1, <1>2, EntriesFacts
<1>4. thr \in Nat
  <2>1. LeastDistance(far) \in Nat
    BY <1>2, <1>3, LeastDistanceIsNat
  <2>2. Max({threshold, LeastDistance(far)}) \in Nat
    <3> DEFINE l == LeastDistance(far)
    <3>1. \E x \in {threshold, l} : \A y \in {threshold, l} : x >= y
      BY <1>2, <2>1
    <3>2. Max({threshold, l}) \in {threshold, l}
      BY <3>1 DEF Max
    <3> QED BY <1>2, <2>1, <3>2
  <2> QED BY <1>2, <2>2
<1>5. near \in SUBSET Node /\ near \subseteq On(far)
  BY DEF On
<1>6. ASSUME NEW u \in Node, far[u] > 0 PROVE u \in near \/ (u \notin near /\ DistanceOf(word[u]) >= thr)
  <2>1. u \in On(far) /\ DistanceOf(word[u]) \in Nat
    BY <1>2, <1>6, ReachedFacts DEF On
  <2> QED BY <1>4, <2>1
<1> HIDE DEF thr, near
<1>7. /\ waiting' \in Simple /\ out' \in Simple /\ On(out') = {} /\ Size(out') = 0
      /\ (\A u \in near : waiting'[u] > 0)
  <2>1. waiting' \in Simple /\ out' \in Simple /\ On(out') = {} /\ Size(out') = 0
    BY <1>1, <1>5, ListFacts
  <2> QED BY <1>1, <1>5, <2>1 DEF AsList
<1>8. /\ far' \in Simple /\ On(far') = inFar' /\ Size(far') \in Nat
      /\ \A u \in Node \ near : far'[u] = far[u]
  <2>1. far' \in Simple
    BY <1>1, <1>2 DEF Simple
  <2>2. On(far') = On(far) \ near
    BY <1>1 DEF On
  <2>3. Size(far') \in Nat
    BY <2>1, EntriesFacts
  <2> QED BY <1>1, <1>2, <2>1, <2>2, <2>3
<1>9. TreeTypes' /\ ParentsNearer' /\ JumpsAgree'
  BY <1>1, TreeStays
<1>10. NearFarTypeOK'
  <2>1. count' \in [A : Nat, B : Nat, far : Nat]
    BY <1>1, <1>8
  <2>2. inFar' \in SUBSET Node
    BY <1>1, <1>2 DEF NearFarTypeOK
  <2> QED BY <1>1, <1>2, <1>4, <1>7, <1>8, <1>9, <2>1, <2>2 DEF NearFarTypeOK
<1>11. ListsAgree'
  <2>1. count'[outSlot'] = 0 /\ count'[Other(outSlot')] = 0 /\ count'.far = Size(far')
    BY <1>1 DEF Other
  <2> QED BY <1>1, <1>2, <1>7, <1>8, <2>1 DEF ListsAgree
<1>12. CopiesAgree'
  BY <1>1, <1>2 DEF CopiesAgree
<1>13. NothingForgotten'
  <2> SUFFICES ASSUME NEW u \in Node, NEW v \in OutNeighbours(graph, u) \ {Source}, Improving(graph, word, u, v)
               PROVE  waiting'[u] > 0 \/ (far'[u] > 0 /\ DistanceOf(word[u]) >= thr)
    BY <1>1 DEF NothingForgotten, Ahead
  <2>1. far[u] > 0
    <3>1. Ahead(u, v)
      BY <1>2 DEF NothingForgotten
    <3> QED BY <1>1, <1>3, <3>1 DEF Ahead, Nothing, AsList, Quiet
  <2> QED BY <1>6, <1>7, <1>8, <2>1
<1> QED BY <1>1, <1>2, <1>9, <1>10, <1>11, <1>12, <1>13 DEF NearFarInv, OffersFit

\* The lists, flags and counters of a push phase.
PushLists ==
  /\ out \in Simple /\ far \in Simple /\ claimed \in SUBSET Node /\ inFar \in SUBSET Node
  /\ count \in [A : Nat, B : Nat, far : Nat] /\ outSlot \in {"A", "B"} /\ threshold \in Nat /\ delta \in Nat
  /\ claimed = On(out) /\ On(far) = inFar /\ count.far = Size(far)
  /\ count[outSlot] = Size(out) /\ count[Other(outSlot)] = 0

LEMMA EnqueueFacts ==
  ASSUME PushLists, NEW w \in Node, NEW nd \in Nat, Enqueue(w, nd), outSlot' = outSlot
  PROVE  /\ PushLists' /\ threshold' = threshold
         /\ \A u \in Node : (out[u] > 0 => out'[u] > 0) /\ (far[u] > 0 => far'[u] > 0)
         /\ IF nd < threshold THEN out'[w] > 0 ELSE far'[w] > 0
<1>1. /\ out \in Simple /\ far \in Simple /\ claimed = On(out) /\ inFar = On(far)
      /\ count \in [A : Nat, B : Nat, far : Nat] /\ count.far = Size(far) /\ count[outSlot] = Size(out)
      /\ count[Other(outSlot)] = 0 /\ outSlot \in {"A", "B"}
  BY DEF PushLists
<1>2. CASE nd < threshold /\ w \in claimed
  <2>1. UNCHANGED <<out, count, far, inFar, threshold, delta>> /\ claimed' = claimed
    BY <1>2 DEF Enqueue, farVars
  <2> QED BY <1>1, <1>2, <2>1 DEF PushLists, On, Size, Entries
<1>3. CASE nd < threshold /\ w \notin claimed
  <2>1. /\ out' = [out EXCEPT ![w] = @ + 1] /\ count' = [count EXCEPT ![outSlot] = @ + 1] /\ claimed' = claimed \cup {w}
        /\ far' = far /\ inFar' = inFar /\ threshold' = threshold /\ delta' = delta
    BY <1>3 DEF Enqueue, farVars
  <2>2. out' \in Simple /\ On(out') = On(out) \cup {w} /\ Size(out') = Size(out) + 1
    BY <1>1, <1>3, <2>1, Appended
  <2>3. /\ count' \in [A : Nat, B : Nat, far : Nat] /\ count'[outSlot] = count[outSlot] + 1 /\ count'.far = count.far
        /\ count'[Other(outSlot)] = 0
    <3>1. CASE outSlot = "A"
      BY <1>1, <2>1, <3>1 DEF Other
    <3>2. CASE outSlot = "B"
      BY <1>1, <2>1, <3>2 DEF Other
    <3> QED BY <1>1, <3>1, <3>2
  <2>4. \A u \in Node : u \in On(out) => u \in On(out')
    BY <2>2
  <2>5. out'[w] > 0 /\ \A u \in Node : out[u] > 0 => out'[u] > 0
    BY <2>2, <2>4 DEF On
  <2> QED BY <1>1, <1>3, <2>1, <2>2, <2>3, <2>5 DEF PushLists
<1>4. CASE ~ (nd < threshold) /\ w \in inFar
  <2>1. UNCHANGED <<out, count, far, claimed, threshold, delta>> /\ inFar' = inFar
    BY <1>4 DEF Enqueue
  <2> QED BY <1>1, <1>4, <2>1 DEF PushLists, On, Size, Entries
<1>5. CASE ~ (nd < threshold) /\ w \notin inFar
  <2>1. /\ far' = [far EXCEPT ![w] = @ + 1] /\ count' = [count EXCEPT !.far = @ + 1] /\ inFar' = inFar \cup {w}
        /\ out' = out /\ claimed' = claimed /\ threshold' = threshold /\ delta' = delta
    BY <1>5 DEF Enqueue
  <2>2. far' \in Simple /\ On(far') = On(far) \cup {w} /\ Size(far') = Size(far) + 1
    BY <1>1, <1>5, <2>1, Appended
  <2>3. /\ count' \in [A : Nat, B : Nat, far : Nat] /\ count'[outSlot] = count[outSlot] /\ count'.far = count.far + 1
        /\ count'[Other(outSlot)] = 0
    <3>1. CASE outSlot = "A"
      BY <1>1, <2>1, <3>1 DEF Other
    <3>2. CASE outSlot = "B"
      BY <1>1, <2>1, <3>2 DEF Other
    <3> QED BY <1>1, <3>1, <3>2
  <2>4. far'[w] > 0 /\ \A u \in Node : far[u] > 0 => far'[u] > 0
    BY <2>2 DEF On
  <2> QED BY <1>1, <1>5, <2>1, <2>2, <2>3, <2>4 DEF PushLists
<1> QED BY <1>2, <1>3, <1>4, <1>5

\* The edge that a thread has looked at cannot improve any more, and a vertex
\* that comes nearer goes on a list.
LEMMA PushEdgeKeeps ==
  ASSUME NearFarInv, NEW u \in Node, NEW w \in heads[u], PushEdge(u, w)
  PROVE  NearFarInv' /\ phase = "push" /\ phase' = "push" /\ UNCHANGED <<graph, dist, parent>>
<1> DEFINE nd == DistanceOf(loaded[u]) + graph[<<u, w>>]
           offer == Pack(nd, u)
<1>1. /\ phase = "push" /\ heads' = [heads EXCEPT ![u] = @ \ {w}]
      /\ loaded' = IF heads[u] = {w} THEN [loaded EXCEPT ![u] = 0] ELSE loaded
      /\ word' = [word EXCEPT ![w] = IF offer < @ THEN offer ELSE @]
      /\ IF offer < word[w] /\ nd < DistanceOf(word[w])
         THEN Enqueue(w, nd)
         ELSE UNCHANGED <<out, count, claimed, farVars>>
      /\ UNCHANGED <<parent, jumpVars, graph, dist, insertHeads, phase, before, waiting, outSlot, calls>>
  BY DEF PushEdge
<1>2. /\ OffersFit /\ NearFarTypeOK /\ IsDigraph(graph) /\ Sound(graph, word) /\ CopiesAgree /\ NothingForgotten
      /\ ListsAgree /\ word \in [Node -> Word] /\ loaded \in [Node -> Word] /\ heads \in [Node -> SUBSET Node]
      /\ heads[u] \subseteq OutNeighbours(graph, u) \ {Source} /\ Copy(word, u, loaded[u]) /\ loaded[u] \in Word
  BY <1>1 DEF NearFarInv, NearFarTypeOK, ListsAgree, CopiesAgree, Running
<1>3. w \in Node \ {Source} /\ u \in InNeighbours(graph, w)
  BY <1>2 DEF OutNeighbours, InNeighbours
<1>4. /\ graph[<<u, w>>] \in 1 .. MaxWeight /\ DistanceOf(loaded[u]) \in Nat
      /\ offer \in Word /\ DistanceOf(offer) = nd
  BY <1>2, <1>3, OfferFacts
<1>5. nd \in Nat /\ nd > DistanceOf(loaded[u])
  BY <1>4
<1>6. /\ word'[w] = IF offer < word[w] THEN offer ELSE word[w]
      /\ word' = [word EXCEPT ![w] = word'[w]]
  BY <1>1, <1>2, <1>3
<1>7. /\ heads' \in [Node -> SUBSET Node] /\ heads'[u] = heads[u] \ {w} /\ \A x \in Node \ {u} : heads'[x] = heads[x]
      /\ loaded' \in [Node -> Word] /\ \A x \in Node : heads'[x] # {} => loaded'[x] = loaded[x]
  <2>1. 0 \in Word
    BY Constants DEF Word
  <2>2. heads' \in [Node -> SUBSET Node] /\ heads'[u] = heads[u] \ {w} /\ \A x \in Node \ {u} : heads'[x] = heads[x]
    BY <1>1, <1>2
  <2>3. CASE heads[u] = {w}
    <3>1. heads'[u] = {} /\ loaded' = [loaded EXCEPT ![u] = 0]
      BY <1>1, <2>2, <2>3
    <3> QED BY <1>2, <2>1, <2>2, <3>1
  <2>4. CASE heads[u] # {w}
    BY <1>1, <1>2, <2>2, <2>4
  <2> QED BY <2>3, <2>4
<1> HIDE DEF nd
<1>8. Written(graph, word, w, word')
  <2>1. Offered(graph, word, w, word'[w])
    <3>1. CASE offer < word[w]
      <4>1. word'[w] = offer /\ word'[w] < word[w] /\ word'[w] = Pack(DistanceOf(loaded[u]) + graph[<<u, w>>], u)
        BY <1>6, <3>1 DEF nd
      <4> QED BY <1>2, <1>3, <4>1 DEF Offered
    <3>2. CASE ~ (offer < word[w])
      BY <1>6, <3>2 DEF Offered
    <3> QED BY <3>1, <3>2
  <2> QED BY <1>6, <2>1 DEF Written
<1>9. /\ Sound(graph, word') /\ \A a \in Node : \A x \in Word : Copy(word, a, x) => Copy(word', a, x)
      /\ \A a \in Node \ {w} : word'[a] = word[a]
      /\ \A a \in Node : DistanceOf(word'[a]) <= DistanceOf(word[a])
  BY <1>2, <1>3, <1>8, Lowered
<1>10. \A a \in Node : DistanceOf(word'[a]) \in Nat /\ DistanceOf(word[a]) \in Nat /\ word'[a] \in Nat /\ word[a] \in Nat
  BY <1>2, <1>9, ReachedFacts
<1>11. PushLists
  BY <1>1, <1>2 DEF PushLists, NearFarTypeOK, ListsAgree
<1>12. /\ PushLists' /\ threshold' = threshold
       /\ \A x \in Node : (out[x] > 0 => out'[x] > 0) /\ (far[x] > 0 => far'[x] > 0)
  <2>1. CASE Enqueue(w, nd)
    BY <1>1, <1>3, <1>5, <1>11, <2>1, EnqueueFacts
  <2>2. CASE UNCHANGED <<out, count, claimed, farVars>>
    <3>1. /\ out' = out /\ count' = count /\ claimed' = claimed /\ far' = far /\ inFar' = inFar
          /\ threshold' = threshold /\ delta' = delta /\ outSlot' = outSlot
      BY <1>1, <2>2 DEF farVars
    <3> QED BY <1>11, <3>1 DEF PushLists, On, Size, Entries
  <2> QED BY <1>1, <2>1, <2>2
<1>13. DistanceOf(word'[w]) < DistanceOf(word[w]) =>
         out'[w] > 0 \/ (far'[w] > 0 /\ DistanceOf(word'[w]) >= threshold)
  <2> SUFFICES ASSUME DistanceOf(word'[w]) < DistanceOf(word[w])
               PROVE  out'[w] > 0 \/ (far'[w] > 0 /\ DistanceOf(word'[w]) >= threshold)
    OBVIOUS
  <2>1. offer < word[w] /\ word'[w] = offer
    BY <1>3, <1>6, <1>10
  <2>2. DistanceOf(word'[w]) = nd /\ nd < DistanceOf(word[w])
    BY <1>4, <2>1
  <2>3. Enqueue(w, nd)
    BY <1>1, <2>1, <2>2
  <2>4. IF nd < threshold THEN out'[w] > 0 ELSE far'[w] > 0
    BY <1>1, <1>3, <1>5, <1>11, <2>3, EnqueueFacts
  <2> QED BY <1>5, <1>11, <2>2, <2>4 DEF PushLists
<1>14. TreeTypes' /\ ParentsNearer' /\ JumpsAgree'
  BY <1>1, TreeStays
<1>15. NearFarTypeOK'
  BY <1>1, <1>2, <1>7, <1>9, <1>12, <1>14 DEF NearFarTypeOK, PushLists, Sound
<1>16. ListsAgree'
  <2>1. \A x \in Node : heads'[x] \subseteq OutNeighbours(graph, x) \ {Source}
    BY <1>1, <1>2, <1>7 DEF ListsAgree
  <2> QED BY <1>1, <1>12, <2>1 DEF ListsAgree, PushLists
<1>17. CopiesAgree'
  <2>1. ASSUME NEW x \in Node, heads'[x] # {} PROVE Copy(word', x, loaded'[x])
    <3>1. heads[x] # {} /\ loaded'[x] = loaded[x] /\ loaded[x] \in Word
      BY <1>2, <1>7, <2>1
    <3>2. Copy(word, x, loaded[x])
      BY <1>2, <3>1 DEF CopiesAgree
    <3> QED BY <1>9, <3>1, <3>2
  <2> QED BY <1>1, <2>1 DEF CopiesAgree
<1>18. NothingForgotten'
  <2> SUFFICES ASSUME NEW a \in Node, NEW b \in OutNeighbours(graph, a) \ {Source}, Improving(graph, word', a, b)
               PROVE  Ahead(a, b)'
    BY <1>1 DEF NothingForgotten
  <2>1. b \in Node
    BY DEF OutNeighbours
  <2>2. CASE a = w /\ DistanceOf(word'[w]) < DistanceOf(word[w])
    BY <1>1, <1>12, <1>13, <2>2 DEF Ahead
  <2>3. CASE Improving(graph, word, a, b) /\ DistanceOf(word'[a]) = DistanceOf(word[a])
    <3>1. Ahead(a, b)
      BY <1>2, <2>3 DEF NothingForgotten
    <3>2. CASE out[a] > 0 \/ waiting[a] > 0 \/ (far[a] > 0 /\ DistanceOf(word[a]) >= threshold)
      BY <1>1, <1>12, <2>3, <3>2 DEF Ahead
    <3>3. CASE b \in heads[a] /\ DistanceOf(loaded[a]) = DistanceOf(word[a])
      <4>1. CASE a = u /\ b = w
        <5>1. Pack(DistanceOf(word'[u]) + graph[<<u, w>>], u) < word'[w]
          BY <4>1 DEF Improving
        <5>2. DistanceOf(word'[u]) + graph[<<u, w>>] = nd
          BY <2>3, <3>3, <4>1 DEF nd
        <5>3. offer < word'[w]
          BY <5>1, <5>2
        <5>4. offer \in Nat
          BY <1>4, WordFacts
        <5> HIDE DEF offer
        <5> QED BY <1>3, <1>6, <1>10, <5>3, <5>4
      <4>2. CASE ~ (a = u /\ b = w)
        <5>1. b \in heads'[a]
          BY <1>7, <3>3, <4>2
        <5>2. loaded'[a] = loaded[a]
          BY <1>7, <5>1
        <5> QED BY <1>1, <2>3, <3>3, <5>1, <5>2 DEF Ahead
      <4> QED BY <4>1, <4>2
    <3> QED BY <1>1, <3>1, <3>2, <3>3 DEF Ahead
  <2>4. Improving(graph, word, a, b) \/ (a = w /\ DistanceOf(word'[w]) < DistanceOf(word[w]))
    BY <1>2, <1>3, <1>8, NewlyImproving
  <2>5. DistanceOf(word'[a]) = DistanceOf(word[a]) \/ (a = w /\ DistanceOf(word'[w]) < DistanceOf(word[w]))
    BY <1>9, <1>10
  <2> QED BY <2>2, <2>3, <2>4, <2>5
<1> QED BY <1>1, <1>2, <1>9, <1>14, <1>15, <1>16, <1>17, <1>18 DEF NearFarInv, OffersFit

-----------------------------------------------------------------------------
(***************************************************************************)
(* The end of a call.                                                      *)
(***************************************************************************)
\* What unpackKernel makes of the words.
UnpackedDist(w) == [v \in Node |-> IF w[v] = PackedInf THEN Inf ELSE DistanceOf(w[v])]

UnpackedParent(w) == [v \in Node |-> ParentOf(w[v])]

\* Words that are sound are a tree of distances that are not below the shortest.
LEMMA UnpackedFacts ==
  ASSUME OffersFit, NEW g, IsDigraph(g), NEW w, Sound(g, w),
         NEW d, d = UnpackedDist(w), NEW p, p = UnpackedParent(w)
  PROVE  /\ d \in [Node -> Distance] /\ d[Source] = 0
         /\ p \in [Node -> Node \cup {NoParent}] /\ p[Source] = NoParent
         /\ \A v \in Node : /\ d[v] = Inf <=> w[v] = PackedInf
                            /\ w[v] # PackedInf => d[v] = DistanceOf(w[v])
                            /\ p[v] = ParentOf(w[v])
                            /\ d[v] = Inf => p[v] = NoParent
         /\ \A v \in Node \ {Source} :
              d[v] # Inf => p[v] \in InNeighbours(g, v) /\ d[p[v]] # Inf /\ d[v] >= d[p[v]] + g[<<p[v], v>>]
         /\ \A v \in Node : Distances(g)[v] <= d[v]
<1>1. ASSUME NEW v \in Node
      PROVE  /\ w[v] \in Word /\ DistanceOf(w[v]) \in Nat
             /\ w[v] # PackedInf => DistanceOf(w[v]) < Inf
  BY ReachedFacts
<1>2. Inf \in Nat \ {0} /\ Source \in Node
  BY Constants
<1>3. ASSUME NEW v \in Node
      PROVE  /\ d[v] = IF w[v] = PackedInf THEN Inf ELSE DistanceOf(w[v])
             /\ p[v] = ParentOf(w[v])
             /\ d[v] \in Distance /\ (d[v] = Inf <=> w[v] = PackedInf) /\ p[v] \in Node \cup {NoParent}
             /\ d[v] = Inf => p[v] = NoParent
  <2>1. d[v] = (IF w[v] = PackedInf THEN Inf ELSE DistanceOf(w[v])) /\ p[v] = ParentOf(w[v])
    BY DEF UnpackedDist, UnpackedParent
  <2>2. d[v] \in Distance /\ (d[v] = Inf <=> w[v] = PackedInf)
    BY <1>1, <1>2, <2>1 DEF Distance
  <2>3. p[v] \in Node \cup {NoParent}
    BY <1>1, <2>1, WordFacts
  <2> QED BY <2>1, <2>2, <2>3, InfinityFacts
<1>4. d \in [Node -> Distance] /\ p \in [Node -> Node \cup {NoParent}]
  BY <1>3 DEF UnpackedDist, UnpackedParent
<1>5. d[Source] = 0 /\ p[Source] = NoParent
  BY <1>2, <1>3, SourceWord DEF Sound
<1>6. ASSUME NEW v \in Node \ {Source}, d[v] # Inf
      PROVE  p[v] \in InNeighbours(g, v) /\ d[p[v]] # Inf /\ d[v] >= d[p[v]] + g[<<p[v], v>>]
  <2>1. Explained(g, w, v) /\ d[v] = DistanceOf(w[v]) /\ p[v] = ParentOf(w[v])
    BY <1>3, <1>6 DEF Sound
  <2>2. p[v] \in InNeighbours(g, v) /\ w[p[v]] # PackedInf /\ DistanceOf(w[v]) >= DistanceOf(w[p[v]]) + g[<<p[v], v>>]
    BY <2>1 DEF Explained
  <2>3. p[v] \in Node
    BY <2>2 DEF InNeighbours
  <2> QED BY <1>3, <2>1, <2>2, <2>3
<1>7. \A v \in Node : Distances(g)[v] <= d[v]
  BY <1>4, <1>5, <1>6, NotBelowShortest
<1> QED BY <1>3, <1>4, <1>5, <1>6, <1>7

\* What a word that no edge could improve says of the distances and parents.
LEMMA NotImproving ==
  ASSUME OffersFit, NEW g, IsDigraph(g), NEW w, Sound(g, w), NEW v \in Node \ {Source}, NEW u \in InNeighbours(g, v),
         w[u] # PackedInf, ~ Improving(g, w, u, v)
  PROVE  /\ w[v] # PackedInf /\ DistanceOf(w[v]) <= DistanceOf(w[u]) + g[<<u, v>>]
         /\ DistanceOf(w[v]) = DistanceOf(w[u]) + g[<<u, v>>] => ParentField(ParentOf(w[v])) <= u
<1> DEFINE offer == Pack(DistanceOf(w[u]) + g[<<u, v>>], u)
           nd == DistanceOf(w[u]) + g[<<u, v>>]
<1>1. u \in Node /\ v \in Node /\ w[v] \in Word /\ w[v] \in Nat /\ DistanceOf(w[v]) \in Nat
  BY ReachedFacts DEF InNeighbours
<1>2. Copy(w, u, w[u])
  BY <1>1 DEF Sound
<1>3. /\ offer \in Word \ {PackedInf} /\ DistanceOf(offer) = nd /\ ParentOf(offer) = u
      /\ nd \in Nat
  <2>1. /\ offer \in Word \ {PackedInf} /\ DistanceOf(offer) = nd /\ ParentOf(offer) = u
        /\ g[<<u, v>>] \in 1 .. MaxWeight /\ DistanceOf(w[u]) \in Nat
    BY <1>1, <1>2, OfferFacts
  <2> HIDE DEF offer
  <2> QED BY <2>1
<1>4. ~ (offer < w[v])
  BY DEF Improving
<1> HIDE DEF offer, nd
<1>5. offer \in Nat /\ offer <= PackedInf /\ PackedInf \in Nat
  BY <1>3, WordFacts, Constants
<1>6. w[v] <= offer /\ w[v] # PackedInf
  BY <1>1, <1>3, <1>4, <1>5
<1>7. DistanceOf(w[v]) <= nd
  BY <1>1, <1>3, <1>6, WordOrder
<1>8. ASSUME DistanceOf(w[v]) = nd PROVE ParentField(ParentOf(w[v])) <= u
  <2>1. ~ (ParentField(ParentOf(offer)) < ParentField(ParentOf(w[v])))
    BY <1>1, <1>3, <1>4, <1>8, WordOrder
  <2>2. ParentField(u) = u /\ u \in Nat
    BY <1>1, Constants DEF ParentField
  <2>3. ParentField(ParentOf(w[v])) \in Nat
    <3>1. ParentOf(w[v]) \in Node \cup {NoParent}
      BY <1>1, WordFacts
    <3> QED BY <3>1, Constants DEF ParentField
  <2> QED BY <1>3, <2>1, <2>2, <2>3
<1> QED BY <1>6, <1>7, <1>8 DEF nd

\* When no edge could improve a word, the words are the canonical tree.
LEMMA SettledIsCanonical ==
  ASSUME OffersFit, NEW g, IsDigraph(g), NEW w, Sound(g, w),
         \A u \in Node : \A v \in OutNeighbours(g, u) \ {Source} : ~ Improving(g, w, u, v),
         NEW d, d = UnpackedDist(w), NEW p, p = UnpackedParent(w)
  PROVE  [dist |-> d, parent |-> p] = CanonicalTree(g)
<1>1. /\ d \in [Node -> Distance] /\ d[Source] = 0 /\ p \in [Node -> Node \cup {NoParent}] /\ p[Source] = NoParent
      /\ \A v \in Node : /\ d[v] = Inf <=> w[v] = PackedInf
                         /\ w[v] # PackedInf => d[v] = DistanceOf(w[v])
                         /\ p[v] = ParentOf(w[v])
                         /\ d[v] = Inf => p[v] = NoParent
      /\ \A v \in Node \ {Source} :
           d[v] # Inf => p[v] \in InNeighbours(g, v) /\ d[p[v]] # Inf /\ d[v] >= d[p[v]] + g[<<p[v], v>>]
  BY UnpackedFacts
<1>2. ASSUME NEW v \in Node, NEW u \in InNeighbours(g, v), d[u] # Inf
      PROVE  /\ d[v] <= d[u] + g[<<u, v>>]
             /\ v # Source /\ d[v] = d[u] + g[<<u, v>>] => p[v] <= u
  <2>1. u \in Node /\ g[<<u, v>>] \in Nat \ {0} /\ v \in OutNeighbours(g, u) /\ u \in Nat
    BY DigraphFacts DEF OutNeighbours
  <2>2. d[u] \in Nat /\ d[v] \in Nat
    BY <1>1, <2>1 DEF Distance
  <2>3. CASE v = Source
    BY <1>1, <2>1, <2>2, <2>3
  <2>4. CASE v # Source
    <3>1. ~ Improving(g, w, u, v) /\ w[u] # PackedInf
      BY <1>1, <1>2, <2>1, <2>4
    <3>2. /\ w[v] # PackedInf /\ DistanceOf(w[v]) <= DistanceOf(w[u]) + g[<<u, v>>]
          /\ DistanceOf(w[v]) = DistanceOf(w[u]) + g[<<u, v>>] => ParentField(ParentOf(w[v])) <= u
      BY <2>4, <3>1, NotImproving
    <3>3. d[v] = DistanceOf(w[v]) /\ d[u] = DistanceOf(w[u]) /\ p[v] = ParentOf(w[v])
      BY <1>1, <2>1, <3>1, <3>2
    <3>4. p[v] \in Node /\ ParentField(p[v]) = p[v]
      <4>1. p[v] \in InNeighbours(g, v)
        BY <1>1, <2>4, <3>2
      <4> QED BY <4>1, Constants DEF InNeighbours, ParentField
    <3> QED BY <3>2, <3>3, <3>4
  <2> QED BY <2>3, <2>4
<1>3. Respected(g, d)
  BY <1>2 DEF Respected
<1>4. Supported(g, d)
  <2>1. ASSUME NEW v \in Node \ {Source}, d[v] # Inf PROVE \E u \in Node : Supports(g, d, u, v)
    <3>1. p[v] \in Node /\ Supports(g, d, p[v], v)
      BY <1>1, <2>1 DEF Supports, InNeighbours
    <3> QED BY <3>1
  <2> QED BY <2>1 DEF Supported
<1>5. d = Distances(g)
  BY <1>1, <1>3, <1>4, CertifiedDistances
<1>6. ASSUME NEW v \in Node PROVE Hangs(g, d, p, v)
  <2>1. CASE v = Source \/ d[v] = Inf
    BY <1>1, <2>1 DEF Hangs
  <2>2. CASE v # Source /\ d[v] # Inf
    <3>1. p[v] \in InNeighbours(g, v) /\ d[p[v]] # Inf /\ d[v] >= d[p[v]] + g[<<p[v], v>>]
      BY <1>1, <2>2
    <3>2. d[v] <= d[p[v]] + g[<<p[v], v>>] /\ p[v] \in Node
      BY <1>2, <3>1 DEF InNeighbours
    <3>3. d[v] \in Int /\ d[p[v]] \in Int /\ g[<<p[v], v>>] \in Int
      BY <1>1, <3>1, <3>2, DigraphFacts DEF Distance
    <3>4. Explains(g, d, p[v], v)
      BY <3>1, <3>2, <3>3 DEF Explains
    <3>5. \A u \in Node : Explains(g, d, u, v) => p[v] <= u
      BY <1>2, <2>2 DEF Explains
    <3> QED BY <2>2, <3>2, <3>4, <3>5 DEF Hangs
  <2> QED BY <2>1, <2>2
<1> QED BY <1>1, <1>5, <1>6, CertifiedTree

\* No edge is ahead of a thread when the host unpacks the words.
LEMMA NothingAhead ==
  ASSUME NearFarInv, phase = "unpack" \/ (PushesDone /\ count[outSlot] = 0 /\ count.far = 0)
  PROVE  /\ Sound(graph, word) /\ IsDigraph(graph) /\ waiting = Nothing /\ heads = Quiet /\ far = Nothing /\ inFar = {}
         /\ \A u \in Node : \A v \in OutNeighbours(graph, u) \ {Source} : ~ Improving(graph, word, u, v)
<1>1. phase \in {"unpack", "push"}
  BY DEF PushesDone
<1>2. /\ Sound(graph, word) /\ NothingForgotten /\ ListsAgree /\ IsDigraph(graph)
      /\ out \in Simple /\ far \in Simple
  BY <1>1 DEF NearFarInv, NearFarTypeOK, Running
<1>3. out = Nothing /\ waiting = Nothing /\ heads = Quiet /\ far = Nothing /\ inFar = {}
  <2>1. CASE phase = "unpack"
    BY <1>2, <2>1 DEF ListsAgree
  <2>2. CASE phase = "push" /\ PushesDone /\ count[outSlot] = 0 /\ count.far = 0
    <3>1. Size(out) = 0 /\ Size(far) = 0 /\ inFar = On(far)
      BY <1>2, <2>2 DEF ListsAgree
    <3>2. out = Nothing /\ far = Nothing
      BY <1>2, <3>1, EntriesFacts
    <3> QED BY <2>2, <3>1, <3>2, ListFacts DEF PushesDone
  <2> QED BY <2>1, <2>2 DEF PushesDone
<1>4. \A u \in Node : \A v \in OutNeighbours(graph, u) \ {Source} : ~ Ahead(u, v)
  <2> SUFFICES ASSUME NEW u \in Node, NEW v \in OutNeighbours(graph, u) \ {Source} PROVE ~ Ahead(u, v)
    OBVIOUS
  <2>1. v \in Node
    BY DEF OutNeighbours
  <2>2. Nothing[u] = 0 /\ Nothing[v] = 0 /\ Quiet[u] = {}
    BY <2>1 DEF Nothing, AsList, Quiet
  <2> QED BY <1>3, <2>2 DEF Ahead
<1> QED BY <1>2, <1>3, <1>4 DEF NothingForgotten

\* The call ends with the canonical tree.
LEMMA ReturnKeeps ==
  ASSUME NearFarInv, Return
  PROVE  /\ NearFarInv' /\ phase # "idle" /\ phase' = "idle" /\ graph' = graph
         /\ [dist |-> dist', parent |-> parent'] = CanonicalTree(graph)
<1>1. /\ phase = "unpack" \/ (PushesDone /\ count[outSlot] = 0 /\ count.far = 0)
      /\ phase' = "idle"
      /\ dist' = UnpackedDist(word) /\ parent' = UnpackedParent(word)
      /\ word' = [v \in Node |-> PackedInf] /\ before' = word' /\ out' = Nothing /\ claimed' = {}
      /\ count' = [A |-> 0, B |-> 0, far |-> 0] /\ outSlot' = "A" /\ threshold' = 0 /\ delta' = 1
      /\ ancestor' = parent' /\ insertHeads' = {}
      /\ UNCHANGED <<todo, flag, roots, reach, graph, waiting, heads, loaded, far, inFar, calls>>
  BY DEF Return, UnpackedDist, UnpackedParent
<1>2. /\ Sound(graph, word) /\ IsDigraph(graph) /\ waiting = Nothing /\ heads = Quiet /\ far = Nothing /\ inFar = {}
      /\ \A u \in Node : \A v \in OutNeighbours(graph, u) \ {Source} : ~ Improving(graph, word, u, v)
  BY <1>1, NothingAhead
<1>3. phase \in {"unpack", "push"} /\ OffersFit /\ NearFarTypeOK /\ roots = {} /\ JumpInit
  BY <1>1 DEF NearFarInv, JumpsAgree, PushesDone
<1>4. [dist |-> dist', parent |-> parent'] = CanonicalTree(graph)
  BY <1>1, <1>2, <1>3, SettledIsCanonical
<1>5. TreeTypes' /\ ParentsNearer'
  <2> DEFINE t == [dist |-> dist', parent |-> parent']
  <2>1. t.dist = dist' /\ t.parent = parent' /\ t = CanonicalTree(graph)
    BY <1>4
  <2> HIDE DEF t
  <2> QED BY <1>2, <2>1, CanonicalNearer DEF TreeTypes, ParentsNearer
<1>6. IsForest'
  BY <1>5, NearerIsForest, PTL
<1>7. JumpInit'
  BY <1>1, <1>3, <1>5, <1>6 DEF JumpInit, TreeTypes
<1>8. JumpsAgree'
  BY <1>1, <1>3, <1>4, <1>7, Constants DEF JumpsAgree
<1>9. ListsAgree'
  BY <1>1, <1>2 DEF ListsAgree
<1>10. NearFarTypeOK'
  <2>1. word' \in [Node -> Word] /\ before' \in [Node -> Word]
    BY <1>1, InfinityFacts
  <2>2. out' \in Simple
    BY <1>1, ListFacts
  <2>3. /\ waiting' \in Simple /\ far' \in Simple /\ loaded' \in [Node -> Word] /\ heads' \in [Node -> SUBSET Node]
        /\ inFar' \in SUBSET Node /\ calls' \in Nat /\ IsDigraph(graph')
    BY <1>1, <1>2, <1>3 DEF NearFarTypeOK
  <2> QED BY <1>1, <1>5, <2>1, <2>2, <2>3 DEF NearFarTypeOK
<1> QED BY <1>1, <1>3, <1>4, <1>5, <1>8, <1>9, <1>10 DEF NearFarInv, OffersFit, Running

LEMMA StutterKeeps == ASSUME NearFarInv, UNCHANGED nearFarVars PROVE NearFarInv'
<1>1. /\ parent' = parent /\ roots' = roots /\ flag' = flag /\ ancestor' = ancestor /\ reach' = reach /\ todo' = todo
      /\ graph' = graph /\ dist' = dist /\ word' = word /\ insertHeads' = insertHeads
      /\ phase' = phase /\ before' = before /\ waiting' = waiting /\ calls' = calls
      /\ heads' = heads /\ loaded' = loaded /\ claimed' = claimed /\ count' = count /\ outSlot' = outSlot
      /\ out' = out /\ far' = far /\ inFar' = inFar /\ threshold' = threshold /\ delta' = delta
  BY DEF nearFarVars, jumpVars, pushVars, farVars
<1>2. JumpInv => JumpInv'
  <2>1. UNCHANGED <<parent, jumpVars>>
    BY <1>1 DEF jumpVars
  <2> QED BY <2>1, JumpInvNext
<1>3. JumpInit => JumpInit'
  <2>1. IsForest' <=> IsForest
    BY <1>1, AboveIsConstant DEF IsForest
  <2> QED BY <1>1, <2>1 DEF JumpInit
<1>4. JumpsAgree'
  BY <1>1, <1>2, <1>3 DEF NearFarInv, JumpsAgree, TreeOfBefore, PackedTree
<1>5. NearFarTypeOK' /\ ParentsNearer' /\ ListsAgree'
  BY <1>1 DEF NearFarInv, NearFarTypeOK, TreeTypes, ParentsNearer, ListsAgree, Size, Entries
<1>6. Running => CopiesAgree' /\ NothingForgotten'
  BY <1>1 DEF NearFarInv, CopiesAgree, NothingForgotten, Ahead
<1> QED BY <1>1, <1>4, <1>5, <1>6 DEF NearFarInv, OffersFit, Running

\* What every step does to the invariant and to what a caller sees.
LEMMA StepKeeps ==
  ASSUME NearFarInv, [NearFarNext]_nearFarVars
  PROVE  /\ NearFarInv'
         /\ \/ /\ phase = "idle" /\ phase' # "idle" /\ UNCHANGED <<dist, parent>>
               /\ graph' = graph \/ \E deletes \in DeleteSets : \E inserts \in InsertLists :
                                       graph' = Applied(graph, deletes, inserts)
            \/ /\ phase # "idle" /\ phase' = "idle" /\ graph' = graph
               /\ [dist |-> dist', parent |-> parent'] = CanonicalTree(graph)
            \/ (phase' # "idle" <=> phase # "idle") /\ UNCHANGED <<graph, dist, parent>>
<1>1. CASE \E d \in Deltas : FromScratch(d)
  BY <1>1, FromScratchKeeps
<1>2. CASE \E d \in Deltas : \E deletes \in DeleteSets : \E inserts \in InsertLists : Update(deletes, inserts, d)
  BY <1>2, UpdateKeeps
<1>3. CASE Jump
  BY <1>3, JumpKeeps
<1>4. CASE Invalidate
  BY <1>4, InvalidateKeeps
<1>5. CASE PullDone
  BY <1>5, PullDoneKeeps
<1>6. CASE FirstSplit
  BY <1>6, FirstSplitKeeps
<1>7. CASE NextNear
  BY <1>7, NextNearKeeps
<1>8. CASE NextFar
  BY <1>8, NextFarKeeps
<1>9. CASE Return
  BY <1>9, ReturnKeeps
<1>10. CASE \E v \in Node : PullThread(v)
  BY <1>10, PullThreadKeeps
<1>11. CASE \E v \in Node : PushLoad(v)
  BY <1>11, PushLoadKeeps
<1>12. CASE \E v \in Node : \E w \in heads[v] : PushEdge(v, w)
  BY <1>12, PushEdgeKeeps
<1>13. CASE UNCHANGED nearFarVars
  <2>1. phase' = phase /\ UNCHANGED <<graph, dist, parent>>
    BY <1>13 DEF nearFarVars
  <2> QED BY <1>13, <2>1, StutterKeeps
<1> QED BY <1>1, <1>2, <1>3, <1>4, <1>5, <1>6, <1>7, <1>8, <1>9, <1>10, <1>11, <1>12, <1>13
        DEF NearFarNext, Call, UpdateStep

LEMMA NearFarInvHolds == OffersFit => (NearFarSpec => []NearFarInv)
<1> SUFFICES ASSUME OffersFit PROVE NearFarSpec => []NearFarInv
  OBVIOUS
<1>1. NearFarInit => NearFarInv
  BY InitEstablishes
<1>2. NearFarInv /\ [NearFarNext]_nearFarVars => NearFarInv'
  BY StepKeeps
<1> QED BY <1>1, <1>2, PTL DEF NearFarSpec

-----------------------------------------------------------------------------
(***************************************************************************)
(* What the invariant says of the runs' properties.                        *)
(***************************************************************************)
\* The counters are the lengths, and a list has a vertex at most once.
LEMMA InvListsFit == NearFarInv => ListsFit
<1> SUFFICES ASSUME NearFarInv PROVE ListsFit
  OBVIOUS
<1>1. /\ waiting \in Simple /\ out \in Simple /\ far \in Simple /\ ListsAgree
      /\ phase \in {"idle", "jump", "pull", "split", "push", "unpack"}
  BY DEF NearFarInv, NearFarTypeOK
<1>2. \A v \in Node : waiting[v] <= 1 /\ out[v] <= 1 /\ far[v] <= 1
  BY <1>1 DEF Simple
<1>3. On(far) = inFar /\ (phase = "idle" => inFar = {})
  BY <1>1, ListFacts DEF ListsAgree
<1> QED BY <1>1, <1>2, <1>3 DEF ListsFit, ListsAgree

LEMMA InvJumpsSound == NearFarInv => JumpsSound
<1>1. NearFarInv => JumpInv
  BY JumpInvInit DEF NearFarInv, JumpsAgree
<1> QED BY <1>1, InvariantSuffices

LEMMA InvWordsJustified == NearFarInv => WordsJustified
BY DEF NearFarInv, Running, Sound, Explained, WordsJustified

LEMMA InvNoLostImprovement == NearFarInv => NoLostImprovement
<1> SUFFICES ASSUME NearFarInv, phase \in {"split", "push", "unpack"},
                    NEW u \in Node, NEW v \in OutNeighbours(graph, u) \ {Source}, Improving(graph, word, u, v)
             PROVE  \/ waiting[u] > 0 \/ out[u] > 0 \/ far[u] > 0
                    \/ v \in heads[u] /\ DistanceOf(loaded[u]) = DistanceOf(word[u])
  BY DEF NoLostImprovement, Improving
<1>1. Ahead(u, v)
  BY DEF NearFarInv, Running, NothingForgotten
<1> QED BY <1>1 DEF Ahead

\* Dijkstra's argument: of the vertices that would be nearer than the threshold
\* and do not have their distance, the nearest has a parent that does, and the
\* edge from there would improve it without being ahead of a thread.
LEMMA InvBelowThresholdSettled == NearFarInv => BelowThresholdSettled
<1> SUFFICES ASSUME NearFarInv, PushesDone, out = Nothing PROVE BelowThresholdSettled
  BY DEF BelowThresholdSettled
<1> DEFINE D == Distances(graph)
           Bad == {v \in Node : D[v] # Inf /\ D[v] < threshold /\ DistanceOf(word[v]) # D[v]}
<1>1. /\ OffersFit /\ IsDigraph(graph) /\ Sound(graph, word) /\ NothingForgotten /\ threshold \in Nat
      /\ phase = "push" /\ waiting = Nothing /\ heads = Quiet
  BY DEF NearFarInv, NearFarTypeOK, PushesDone, Running
<1>2. D \in [Node -> Distance] /\ D[Source] = 0 /\ Supported(graph, D) /\ \A v \in Node : D[v] \in Nat /\ D[v] <= Inf
  <2>1. D \in [Node -> Distance] /\ D[Source] = 0 /\ Supported(graph, D)
    BY <1>1, DistancesFacts
  <2> HIDE DEF D
  <2> QED BY <1>1, <2>1, DistanceNumbers
<1>3. N \in Nat /\ MaxWeight \in Nat /\ N * MaxWeight \in Nat /\ Inf = N * MaxWeight + 1 /\ N * MaxWeight < Field
      /\ Field \in Nat
  BY <1>1, Constants DEF Inf, OffersFit
<1>4. \A v \in Node : /\ DistanceOf(word[v]) \in Nat
                      /\ word[v] # PackedInf => D[v] <= DistanceOf(word[v])
                      /\ word[v] = PackedInf => DistanceOf(word[v]) = Field - 1
  <2> DEFINE d == UnpackedDist(word)
             p == UnpackedParent(word)
  <2>1. \A v \in Node : /\ word[v] # PackedInf => d[v] = DistanceOf(word[v])
                        /\ Distances(graph)[v] <= d[v]
    BY <1>1, UnpackedFacts
  <2> QED BY <1>1, <2>1, ReachedFacts
<1> HIDE DEF D
<1>5. ASSUME NEW v \in Bad, \A x \in Bad : D[v] <= D[x] PROVE FALSE
  <2>1. v \in Node /\ D[v] # Inf /\ D[v] < threshold /\ DistanceOf(word[v]) # D[v]
    BY <1>5
  <2>2. v # Source
    BY <1>1, <1>2, <2>1, SourceWord DEF Sound
  <2>3. PICK u \in Node : Supports(graph, D, u, v)
    BY <1>2, <2>1, <2>2 DEF Supported
  <2>4. u \in InNeighbours(graph, v) /\ D[u] # Inf /\ D[v] >= D[u] + graph[<<u, v>>] /\ graph[<<u, v>>] \in Nat \ {0}
    BY <1>1, <2>1, <2>3, DigraphFacts DEF Supports
  <2>5. D[u] \in Nat /\ D[v] \in Nat /\ D[u] < D[v] /\ D[v] <= N * MaxWeight
    BY <1>2, <1>3, <2>1, <2>4
  <2>6. DistanceOf(word[u]) = D[u]
    <3>1. u \notin Bad
      BY <1>5, <2>5
    <3> QED BY <1>1, <2>1, <2>3, <2>4, <2>5, <3>1
  <2>7. word[u] # PackedInf
    BY <1>3, <1>4, <2>5, <2>6
  <2>8. ~ Improving(graph, word, u, v)
    <3>1. ~ Ahead(u, v)
      <4>1. Nothing[u] = 0 /\ Nothing[v] = 0 /\ Quiet[u] = {}
        BY <2>1 DEF Nothing, AsList, Quiet
      <4>2. ~ (DistanceOf(word[u]) >= threshold)
        BY <1>1, <2>1, <2>5, <2>6
      <4> QED BY <1>1, <4>1, <4>2 DEF Ahead
    <3>2. v \in OutNeighbours(graph, u) \ {Source}
      BY <2>1, <2>2, <2>4 DEF InNeighbours, OutNeighbours
    <3> QED BY <1>1, <3>1, <3>2 DEF NothingForgotten
  <2>9. word[v] # PackedInf /\ DistanceOf(word[v]) <= DistanceOf(word[u]) + graph[<<u, v>>]
    BY <1>1, <2>1, <2>2, <2>4, <2>7, <2>8, NotImproving
  <2>10. DistanceOf(word[v]) <= D[v] /\ D[v] <= DistanceOf(word[v]) /\ DistanceOf(word[v]) \in Nat
    BY <1>4, <2>1, <2>4, <2>5, <2>6, <2>9
  <2> QED BY <2>1, <2>5, <2>10
<1>6. Bad = {}
  <2> SUFFICES ASSUME Bad # {} PROVE FALSE
    OBVIOUS
  <2> DEFINE S == {D[x] : x \in Bad}
  <2>1. S \in SUBSET Nat /\ S # {}
    BY <1>2
  <2>2. PICK m \in S : \A y \in S : m <= y
    BY <2>1, LeastNatural
  <2>3. PICK v \in Bad : m = D[v]
    BY <2>2
  <2>4. \A x \in Bad : D[v] <= D[x]
    BY <2>2, <2>3
  <2> QED BY <1>5, <2>4
<1> QED BY <1>6 DEF BelowThresholdSettled, D

LEMMA InvDistancesAreUpperBounds == NearFarInv => DistancesAreUpperBounds
<1> SUFFICES ASSUME NearFarInv, phase \in {"pull", "split", "push", "unpack"}, NEW v \in Node, word[v] # PackedInf
             PROVE  DistanceOf(word[v]) >= Distances(graph)[v]
  BY DEF DistancesAreUpperBounds
<1>1. OffersFit /\ IsDigraph(graph) /\ Sound(graph, word)
  BY DEF NearFarInv, NearFarTypeOK, Running
<1> DEFINE d == UnpackedDist(word)
           p == UnpackedParent(word)
<1>2. d[v] = DistanceOf(word[v]) /\ Distances(graph)[v] <= d[v]
  BY <1>1, UnpackedFacts
<1>3. Distances(graph)[v] \in Nat /\ DistanceOf(word[v]) \in Nat
  BY <1>1, DistancesFacts, DistanceNumbers, ReachedFacts
<1> QED BY <1>2, <1>3

-----------------------------------------------------------------------------
(***************************************************************************)
(* The theorems.                                                           *)
(***************************************************************************)
\* Types: the words fit their fields, the lists hold a vertex at most once and
\* the graph stays a digraph with the tree over its vertices.
THEOREM NearFarTypeCorrect == OffersFit => (NearFarSpec => []NearFarTypeOK)
<1>1. NearFarInv => NearFarTypeOK
  BY DEF NearFarInv
<1> QED BY <1>1, NearFarInvHolds, PTL

\* Within a call as on its own, the pointer jumping marks the subtrees of the
\* roots: every call finds the flags and pointers that the jumping starts from.
THEOREM JumpsStaySound == OffersFit => (NearFarSpec => []JumpsSound)
<1> QED BY InvJumpsSound, NearFarInvHolds, PTL

\* The lists, their counters and the flags of the far pile agree at all times, so
\* that arrays of numberOfNodes entries are long enough for every launch.
THEOREM ListsAlwaysFit == OffersFit => (NearFarSpec => []ListsFit)
<1> QED BY InvListsFit, NearFarInvHolds, PTL

\* No finite word is unjustified, no improvement is lost by a thread that read an
\* old word, and below the threshold the distances are final.
THEOREM WordsStaySound == OffersFit => (NearFarSpec => []WordsSound)
<1>1. NearFarInv => WordsSound
  BY InvWordsJustified, InvNoLostImprovement, InvBelowThresholdSettled DEF WordsSound
<1> QED BY <1>1, NearFarInvHolds, PTL

\* With room for one edge more than a longest path, every distance is an upper
\* bound; with the room that the code asks for it need not be.
THEOREM UpperBoundsWhenOffersFit == OffersFit => (NearFarSpec => []DistancesAreUpperBounds)
<1> QED BY InvDistancesAreUpperBounds, NearFarInvHolds, PTL

\* The abstract service means the same graphs and trees.
LEMMA ServiceMeans ==
  /\ \A g : Service!CanonicalTree(g) = CanonicalTree(g)
  /\ \A g, deletes, inserts : Service!Applied(g, deletes, inserts) = Applied(g, deletes, inserts)
<1>1. Service!Node = Node /\ Service!Inf = Inf /\ Service!NoParent = NoParent
  BY DEF Service!Node, Node, Service!Inf, Inf, Service!NoParent, NoParent
<1>2. \A S : Service!LeastOf(S) = LeastOf(S)
  BY DEF Service!LeastOf, LeastOf
<1>3. \A g, v : Service!InNeighbours(g, v) = InNeighbours(g, v)
  BY <1>1 DEF Service!InNeighbours, InNeighbours
<1>4. \A g, i : Service!WalkLengths(g, i) = WalkLengths(g, i)
  BY DEF Service!WalkLengths, WalkLengths, Service!LeastOf, LeastOf, Service!InNeighbours, InNeighbours,
         Service!Node, Node, Service!Inf, Inf
<1>5. \A g : Service!Distances(g) = Distances(g)
  BY <1>4 DEF Service!Distances, Distances
<1>6. \A g, d, u, v : Service!Explains(g, d, u, v) = Explains(g, d, u, v)
  BY <1>1, <1>3 DEF Service!Explains, Explains
<1>7. \A g : Service!CanonicalTree(g) = CanonicalTree(g)
  BY <1>1, <1>2, <1>5, <1>6 DEF Service!CanonicalTree, CanonicalTree
<1>8. \A g, insert : Service!Inserted(g, insert) = Inserted(g, insert)
  BY DEF Service!Inserted, Inserted
<1>9. \A g, deletes, inserts, i : Service!After(g, deletes, inserts, i) = After(g, deletes, inserts, i)
  BY <1>8 DEF Service!After, After
<1>10. \A g, deletes, inserts : Service!Applied(g, deletes, inserts) = Applied(g, deletes, inserts)
  BY <1>9 DEF Service!Applied, Applied
<1> QED BY <1>7, <1>10

\* No changes leave the graph as it is.
LEMMA NothingApplied ==
  ASSUME NEW g, IsDigraph(g)
  PROVE  Applied(g, {}, <<>>) = g
<1>1. After(g, {}, <<>>, 0) = Kept(g, {})
  BY AfterStages
<1>2. Kept(g, {}) = [e \in DOMAIN g |-> g[e]]
  BY DEF Kept
<1>3. [e \in DOMAIN g |-> g[e]] = g
  BY DEF IsDigraph
<1>4. Len(<<>>) = 0
  OBVIOUS
<1> QED BY <1>1, <1>2, <1>3, <1>4 DEF Applied

\* Every call, from scratch or with a batch, ends with the canonical tree of the
\* graph, whatever the bucket width and the order of the threads.
THEOREM NearFarImplementsService == OffersFit => (NearFarSpec => ImplementsService)
<1> SUFFICES ASSUME OffersFit PROVE NearFarSpec => ImplementsService
  OBVIOUS
<1>1. NearFarInit => Service!ServiceInit
  <2> SUFFICES ASSUME NearFarInit PROVE Service!ServiceInit
    OBVIOUS
  <2>1. NearFarInv
    BY InitEstablishes
  <2>2. graph \in InitialGraphs /\ phase = "idle" /\ [dist |-> dist, parent |-> parent] = CanonicalTree(graph)
    BY <2>1 DEF NearFarInit, NearFarInv, JumpsAgree
  <2> QED BY <2>2, ServiceMeans DEF Service!ServiceInit
<1>2. NearFarInv /\ [NearFarNext]_nearFarVars => [Service!ServiceNext]_(Service!serviceVars)
  <2> SUFFICES ASSUME NearFarInv, [NearFarNext]_nearFarVars
               PROVE  Service!ServiceNext \/ UNCHANGED <<graph, [dist |-> dist, parent |-> parent], phase # "idle">>
    BY DEF Service!serviceVars
  <2>1. CASE /\ phase = "idle" /\ phase' # "idle" /\ UNCHANGED <<dist, parent>>
             /\ graph' = graph \/ \E deletes \in DeleteSets : \E inserts \in InsertLists :
                                     graph' = Applied(graph, deletes, inserts)
    <3>1. /\ ~ (phase # "idle") /\ (phase' # "idle") = TRUE
          /\ UNCHANGED [dist |-> dist, parent |-> parent]
      BY <2>1
    <3>2. CASE graph' = graph
      <4>1. graph' = Service!Applied(graph, {}, <<>>)
        BY <3>2, ServiceMeans, NothingApplied DEF NearFarInv, NearFarTypeOK
      <4>2. Service!Batch({}, <<>>)
        BY <3>1, <4>1 DEF Service!Batch
      <4> QED BY <4>2 DEF Service!ServiceNext
    <3>3. CASE \E deletes \in DeleteSets : \E inserts \in InsertLists : graph' = Applied(graph, deletes, inserts)
      <4>1. PICK deletes \in DeleteSets, inserts \in InsertLists : graph' = Applied(graph, deletes, inserts)
        BY <3>3
      <4>2. graph' = Service!Applied(graph, deletes, inserts)
        BY <4>1, ServiceMeans
      <4>3. Service!Batch(deletes, inserts)
        BY <3>1, <4>2 DEF Service!Batch
      <4> QED BY <4>3 DEF Service!ServiceNext
    <3> QED BY <2>1, <3>2, <3>3
  <2>2. CASE /\ phase # "idle" /\ phase' = "idle" /\ graph' = graph
             /\ [dist |-> dist', parent |-> parent'] = CanonicalTree(graph)
    <3>1. [dist |-> dist', parent |-> parent'] = Service!CanonicalTree(graph)
      BY <2>2, ServiceMeans
    <3>2. Service!Answer
      BY <2>2, <3>1 DEF Service!Answer
    <3> QED BY <3>2 DEF Service!ServiceNext
  <2>3. CASE (phase' # "idle" <=> phase # "idle") /\ UNCHANGED <<graph, dist, parent>>
    BY <2>3
  <2> QED BY <2>1, <2>2, <2>3, StepKeeps
<1>3. NearFarSpec => []NearFarInv
  BY NearFarInvHolds
<1> QED BY <1>1, <1>2, <1>3, PTL DEF NearFarSpec, ImplementsService, Service!ServiceSpec
=============================================================================
