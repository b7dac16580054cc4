--------------------------- MODULE HsospBatchProofs ---------------------------
(***************************************************************************)
(* Theorems about the host incidence and applyBatch, for every hypergraph, *)
(* every sequence of batches and every choice of ids, slots and keys: the  *)
(* incidence and its free list stay consistent, a batch is one step of the *)
(* contract on which hsospUpdate relies, and between batches the mirror,   *)
(* the line graph and the counts on the device are exact.                  *)
(*                                                                         *)
(* The argument.  The ids in use and the recycled ones lie below maxId, so *)
(* that fresh ids are apart from both, and the record of an op tells the   *)
(* change of the row it touches.  While the host works, the device keeps   *)
(* the state before the batch, and the record (NetIsDifference) tells the  *)
(* difference between the two.  A pair of hyperedges can only change when  *)
(* one of them gained or lost a vertex that the other has before or after  *)
(* the batch, so the candidates miss no pair, and the classification makes *)
(* the delta the exact difference of two line graphs.  The warps then turn *)
(* the old rows into the new ones, unless the tail is full and the host's  *)
(* line graph replaces them.                                               *)
(*                                                                         *)
(* The last part is about the storage: the slots of the arrays and the     *)
(* ESCHER trees.                                                           *)
(***************************************************************************)
EXTENDS HsospBatch, FiniteSetTheorems, SequenceTheorems, WellFoundedInduction, TLAPS

(***************************************************************************)
(* Induction over the natural numbers, for a set instead of a predicate.   *)
(***************************************************************************)

\* A nonempty set of natural numbers has a least one.
LEMMA LeastNatural ==
  ASSUME NEW S \in SUBSET Nat, S # {}
  PROVE  \E x \in S : \A y \in S : x <= y
<1> DEFINE R == OpToRel(<, Nat)
<1>1. IsWellFoundedOn(R, Nat)
  BY NatLessThanWellFounded
<1>2. \A x, y \in Nat : <<x, y>> \in R <=> x < y
  BY DEF OpToRel
<1> HIDE DEF R
<1>3. PICK x \in S : \A y \in S : ~ (<<y, x>> \in R)
  BY <1>1, WFMin
<1>4. ASSUME NEW y \in S PROVE x <= y
  <2>1. ~ (y < x)
    BY <1>2, <1>3
  <2> QED BY <2>1
<1> QED BY <1>4

\* A set that contains 0 and the successors of its members contains them all.
LEMMA NatSetInduction ==
  ASSUME NEW T, 0 \in T, \A n \in Nat : n \in T => n + 1 \in T
  PROVE  Nat \subseteq T
<1> SUFFICES ASSUME Nat \ T # {} PROVE FALSE
  OBVIOUS
<1>1. PICK m \in Nat \ T : \A y \in Nat \ T : m <= y
  BY LeastNatural
<1>2. m # 0 /\ m - 1 \in Nat /\ m - 1 \in T
  BY <1>1
<1> QED BY <1>1, <1>2

(***************************************************************************)
(* The ids in use lie below maxId, and so do the recycled ones: what keeps *)
(* fresh ids apart from both.                                              *)
(***************************************************************************)
IdsBelowMax ==
  /\ alive \subseteq 0 .. maxId - 1
  /\ \A h \in Node : freePos[h] # 0 => h < maxId

HInv == HostTypeOK /\ IncidenceConsistent /\ FreeListExact /\ IdsBelowMax /\ NetIsDifference

Record == [net : [Vertex \X Node -> Int], pre : UNION {[T -> SUBSET Vertex] : T \in SUBSET Node},
           vertices : SUBSET Vertex, new : SUBSET Node, deleted : SUBSET Node]

(***************************************************************************)
(* Touching a hyperedge keeps the rows recorded so far.                    *)
(***************************************************************************)
LEMMA TouchType ==
  ASSUME HostTypeOK, NEW h \in Node
  PROVE  /\ Touch(h) \in UNION {[T -> SUBSET Vertex] : T \in SUBSET Node}
         /\ DOMAIN Touch(h) = Touched \cup {h}
         /\ Touched \in SUBSET Node
         /\ \A x \in Touched : Touch(h)[x] = inc.pre[x]
         /\ h \notin Touched => Touch(h)[h] = rows[h]
<1>1. PICK T \in SUBSET Node : inc.pre \in [T -> SUBSET Vertex]
  BY DEF HostTypeOK
<1>2. Touched = T
  BY <1>1 DEF Touched
<1>3. Touch(h) \in [T \cup {h} -> SUBSET Vertex]
  BY <1>1, <1>2 DEF Touch, HostTypeOK
<1>4. T \cup {h} \in SUBSET Node
  OBVIOUS
<1>5. Touch(h) \in UNION {[U -> SUBSET Vertex] : U \in SUBSET Node}
  BY <1>3, <1>4
<1> QED BY <1>2, <1>5 DEF Touch

(***************************************************************************)
(* The record of an op is a record.                                        *)
(***************************************************************************)
LEMMA RecordedType ==
  ASSUME HostTypeOK, NEW h \in Node, NEW vs \in SUBSET Vertex, NEW sign \in {-1, 1}
  PROVE  /\ Recorded(h, vs, sign) \in Record
         /\ Recorded(h, vs, sign).pre = Touch(h)
         /\ Recorded(h, vs, sign).vertices = inc.vertices \cup vs
         /\ Recorded(h, vs, sign).new = inc.new
         /\ Recorded(h, vs, sign).deleted = inc.deleted
         /\ \A v \in Vertex, x \in Node :
              Recorded(h, vs, sign).net[<<v, x>>] =
                IF v \in vs /\ x = h THEN inc.net[<<v, x>>] + sign ELSE inc.net[<<v, x>>]
<1>1. inc \in Record
  BY DEF HostTypeOK, Record
<1>2. inc.net \in [Vertex \X Node -> Int]
  BY <1>1 DEF Record
<1> DEFINE net == [e \in Vertex \X Node |-> IF e[1] \in vs /\ e[2] = h THEN inc.net[e] + sign ELSE inc.net[e]]
<1>3. net \in [Vertex \X Node -> Int]
  BY <1>2
<1>4. \A v \in Vertex, x \in Node :
        net[<<v, x>>] = IF v \in vs /\ x = h THEN inc.net[<<v, x>>] + sign ELSE inc.net[<<v, x>>]
  BY <1>2
<1>5. Touch(h) \in UNION {[T -> SUBSET Vertex] : T \in SUBSET Node}
  BY TouchType
<1> HIDE DEF net
<1>6. Recorded(h, vs, sign) = [inc EXCEPT !.net = net, !.pre = Touch(h), !.vertices = @ \cup vs]
  BY <1>1 DEF Recorded, net, Record
<1> QED BY <1>1, <1>3, <1>4, <1>5, <1>6 DEF Record

(***************************************************************************)
(* One op on hyperedge h.  If the signs it emits for the vertices vs are   *)
(* the change of h's row, the record still tells the net change.           *)
(***************************************************************************)
LEMMA NetKept ==
  ASSUME HInv, InBatch, NEW h \in Node, NEW vs \in SUBSET Vertex, NEW sign \in {-1, 1},
         rows' \in [Node -> SUBSET Vertex],
         \A x \in Node : x # h => rows'[x] = rows[x],
         \A v \in Vertex : v \notin vs => (v \in rows'[h] <=> v \in rows[h]),
         \A v \in vs : IF sign = 1 THEN v \notin rows[h] /\ v \in rows'[h]
                       ELSE v \in rows[h] /\ v \notin rows'[h],
         inc'.net = Recorded(h, vs, sign).net,
         inc'.pre = Recorded(h, vs, sign).pre,
         inc'.vertices = Recorded(h, vs, sign).vertices
  PROVE  NetIsDifference'
<1> USE DEF HInv
<1> SUFFICES ASSUME NEW v \in Vertex, NEW x \in Node
             PROVE  IF x \in Touched'
                    THEN /\ inc'.net[<<v, x>>] = Member(v, rows'[x]) - Member(v, inc'.pre[x])
                         /\ inc'.net[<<v, x>>] # 0 => v \in inc'.vertices
                    ELSE inc'.net[<<v, x>>] = 0
  BY DEF NetIsDifference, Member
<1>1. /\ inc'.pre = Touch(h) /\ inc'.vertices = inc.vertices \cup vs
      /\ inc'.net[<<v, x>>] = IF v \in vs /\ x = h THEN inc.net[<<v, x>>] + sign ELSE inc.net[<<v, x>>]
  BY RecordedType
<1>2. /\ Touched' = Touched \cup {h}
      /\ \A y \in Touched : inc'.pre[y] = inc.pre[y]
      /\ h \notin Touched => inc'.pre[h] = rows[h]
  <2>1. /\ DOMAIN Touch(h) = Touched \cup {h}
        /\ \A y \in Touched : Touch(h)[y] = inc.pre[y]
        /\ h \notin Touched => Touch(h)[h] = rows[h]
    BY TouchType
  <2>2. inc'.pre = Touch(h)
    BY <1>1
  <2>3. Touched' = DOMAIN inc'.pre
    BY DEF Touched
  <2> QED BY <2>1, <2>2, <2>3
<1>3. IF x \in Touched
      THEN inc.net[<<v, x>>] = Member(v, rows[x]) - Member(v, inc.pre[x])
           /\ (inc.net[<<v, x>>] # 0 => v \in inc.vertices)
      ELSE inc.net[<<v, x>>] = 0
  BY DEF NetIsDifference
<1>4. CASE x # h
  <2>1. x \in Touched' <=> x \in Touched
    BY <1>2, <1>4
  <2>2. x \in Touched => inc'.pre[x] = inc.pre[x]
    BY <1>2
  <2>3. inc'.net[<<v, x>>] = inc.net[<<v, x>>] /\ rows'[x] = rows[x]
    BY <1>1, <1>4
  <2> QED BY <1>1, <1>3, <2>1, <2>2, <2>3
<1>5. CASE x = h
  <2>1. x \in Touched'
    BY <1>2, <1>5
  <2>2. inc'.pre[x] = IF x \in Touched THEN inc.pre[x] ELSE rows[x]
    BY <1>2, <1>5
  <2>3. inc.net[<<v, x>>] = Member(v, rows[x]) - Member(v, inc'.pre[x])
    BY <1>3, <2>2 DEF Member
  <2>4. CASE v \in vs
    BY <1>1, <1>5, <2>1, <2>3, <2>4 DEF Member
  <2>5. CASE v \notin vs
    <3>1. Member(v, rows'[x]) = Member(v, rows[x])
      BY <1>5, <2>5 DEF Member
    <3>2. inc'.net[<<v, x>>] = inc.net[<<v, x>>]
      BY <1>1, <2>5
    <3>3. inc.net[<<v, x>>] # 0 => v \in inc.vertices
      BY <1>3
    <3> QED BY <1>1, <2>1, <2>3, <3>1, <3>2, <3>3
  <2> QED BY <2>4, <2>5
<1> QED BY <1>4, <1>5

(***************************************************************************)
(* The free list after an id was pushed, and after one was removed.        *)
(***************************************************************************)
LEMMA PushKeepsFreeList ==
  ASSUME HInv, NEW h \in alive,
         alive' = alive \ {h},
         freeIds' = Append(freeIds, h),
         freePos' = [freePos EXCEPT ![h] = Len(freeIds) + 1]
  PROVE  /\ FreeListExact' /\ freeIds' \in Seq(Node) /\ freePos' \in [Node -> Nat]
         /\ \A x \in Node : freePos'[x] # 0 => x = h \/ freePos[x] # 0
<1>1. /\ freeIds \in Seq(Node) /\ freePos \in [Node -> Nat] /\ h \in Node
      /\ freePos[h] = 0
  BY DEF HInv, HostTypeOK, FreeListExact
<1>2. /\ freeIds' \in Seq(Node) /\ Len(freeIds') = Len(freeIds) + 1 /\ Len(freeIds) \in Nat
      /\ \A i \in 1 .. Len(freeIds) : freeIds'[i] = freeIds[i] /\ freeIds[i] \in Node
      /\ freeIds'[Len(freeIds) + 1] = h
      /\ DOMAIN freeIds = 1 .. Len(freeIds) /\ DOMAIN freeIds' = 1 .. Len(freeIds) + 1
  BY <1>1, AppendProperties, LenProperties
<1>3. freePos' \in [Node -> Nat]
  BY <1>1, <1>2
<1>4. ASSUME NEW i \in DOMAIN freeIds'
      PROVE  freePos'[freeIds'[i]] = i
  <2>1. CASE i = Len(freeIds) + 1
    BY <1>1, <1>2, <2>1
  <2>2. CASE i \in 1 .. Len(freeIds)
    <3>1. freePos[freeIds[i]] = i
      BY <1>2, <2>2 DEF HInv, FreeListExact
    <3>2. freeIds[i] # h
      BY <1>1, <2>2, <3>1
    <3> QED BY <1>1, <1>2, <2>2, <3>1, <3>2
  <2> QED BY <1>2, <2>1, <2>2
<1>5. ASSUME NEW x \in Node, freePos'[x] # 0
      PROVE  x \notin alive' /\ freePos'[x] \in DOMAIN freeIds' /\ freeIds'[freePos'[x]] = x
  <2>1. CASE x = h
    BY <1>1, <1>2, <2>1
  <2>2. CASE x # h
    <3>1. freePos[x] # 0 /\ freePos'[x] = freePos[x]
      BY <1>1, <1>5, <2>2
    <3>2. x \notin alive /\ freePos[x] \in DOMAIN freeIds /\ freeIds[freePos[x]] = x
      BY <3>1 DEF HInv, FreeListExact
    <3> QED BY <1>2, <3>1, <3>2
  <2> QED BY <2>1, <2>2
<1>6. \A x \in Node : freePos'[x] # 0 => x = h \/ freePos[x] # 0
  BY <1>1
<1> QED BY <1>2, <1>3, <1>4, <1>5, <1>6 DEF FreeListExact

LEMMA RemovalKeepsFreeList ==
  ASSUME HInv, NEW h \in Node \ alive,
         alive' = alive \cup {h},
         freeIds' = FreeIdsWithout(h),
         freePos' = FreePosWithout(h)
  PROVE  /\ FreeListExact' /\ freeIds' \in Seq(Node) /\ freePos' \in [Node -> Nat]
         /\ \A x \in Node : freePos'[x] # 0 => freePos[x] # 0
<1>1. /\ freeIds \in Seq(Node) /\ freePos \in [Node -> Nat]
      /\ Len(freeIds) \in Nat /\ DOMAIN freeIds = 1 .. Len(freeIds)
      /\ \A i \in 1 .. Len(freeIds) : freeIds[i] \in Node
  BY LenProperties DEF HInv, HostTypeOK
<1>2. /\ \A i \in 1 .. Len(freeIds) : freePos[freeIds[i]] = i
      /\ \A x \in Node : freePos[x] # 0 =>
           x \notin alive /\ freePos[x] \in 1 .. Len(freeIds) /\ freeIds[freePos[x]] = x
  BY <1>1 DEF HInv, FreeListExact
<1>3. CASE freePos[h] = 0
  BY <1>1, <1>2, <1>3 DEF FreeIdsWithout, FreePosWithout, FreeListExact
<1>4. CASE freePos[h] # 0
  <2> DEFINE p == freePos[h]
             L == Len(freeIds)
             last == LastFree
  <2>1. p \in 1 .. L /\ freeIds[p] = h /\ L \in Nat
    BY <1>1, <1>2, <1>4
  <2>2. last = freeIds[L] /\ last \in Node /\ freePos[last] = L
    BY <1>1, <1>2, <2>1 DEF LastFree
  <2>3. freeIds' = [i \in 1 .. L - 1 |-> IF i = p THEN last ELSE freeIds[i]]
    BY <1>4 DEF FreeIdsWithout
  <2>4. freePos' = [[freePos EXCEPT ![last] = p] EXCEPT ![h] = 0]
    BY <1>4 DEF FreePosWithout
  <2> HIDE DEF last
  <2>5. freeIds' \in [1 .. L - 1 -> Node]
    BY <1>1, <2>1, <2>2, <2>3
  <2>6. freeIds' \in Seq(Node) /\ DOMAIN freeIds' = 1 .. L - 1
    BY <2>1, <2>5
  <2>7. freePos' \in [Node -> Nat]
    BY <1>1, <2>1, <2>2, <2>4
  <2>8. /\ freePos'[h] = 0
        /\ last # h => freePos'[last] = p
        /\ \A x \in Node \ {h, last} : freePos'[x] = freePos[x]
    BY <1>1, <2>2, <2>4
  <2>9. ASSUME NEW i \in 1 .. L - 1
        PROVE  freePos'[freeIds'[i]] = i
    <3>1. CASE i = p
      <4>1. freeIds'[i] = last
        BY <2>3, <3>1
      <4>2. last # h
        BY <2>1, <2>2, <3>1
      <4> QED BY <2>8, <3>1, <4>1, <4>2
    <3>2. CASE i # p
      <4>1. freeIds'[i] = freeIds[i] /\ freeIds[i] \in Node /\ freePos[freeIds[i]] = i
        BY <1>1, <1>2, <2>1, <2>3, <3>2
      <4>2. freeIds[i] # h /\ freeIds[i] # last
        BY <2>1, <2>2, <3>2, <4>1
      <4> QED BY <2>8, <4>1, <4>2
    <3> QED BY <3>1, <3>2
  <2>10. ASSUME NEW x \in Node, freePos'[x] # 0
         PROVE  x \notin alive' /\ freePos'[x] \in 1 .. L - 1 /\ freeIds'[freePos'[x]] = x /\ freePos[x] # 0
    <3>1. x # h
      BY <2>8, <2>10
    <3>2. CASE x = last
      <4>1. p # L
        BY <2>1, <2>2, <3>1, <3>2
      <4>2. freePos'[x] = p /\ p \in 1 .. L - 1
        BY <2>1, <2>8, <3>1, <3>2, <4>1
      <4>3. freePos[x] # 0
        BY <2>1, <2>2, <3>2
      <4> QED BY <1>2, <2>3, <3>1, <3>2, <4>2, <4>3
    <3>3. CASE x # last
      <4>1. freePos'[x] = freePos[x] /\ freePos[x] # 0
        BY <2>8, <2>10, <3>1, <3>3
      <4>2. x \notin alive /\ freePos[x] \in 1 .. L /\ freeIds[freePos[x]] = x
        BY <1>2, <4>1
      <4>3. freePos[x] # L /\ freePos[x] # p
        BY <2>1, <2>2, <3>1, <3>3, <4>2
      <4>4. freePos[x] \in 1 .. L - 1
        BY <2>1, <4>2, <4>3
      <4> QED BY <2>3, <3>1, <4>1, <4>2, <4>3, <4>4
    <3> QED BY <3>2, <3>3
  <2> QED BY <2>6, <2>7, <2>9, <2>10 DEF FreeListExact
<1> QED BY <1>3, <1>4

(***************************************************************************)
(* The records of a batch that has done nothing.                           *)
(***************************************************************************)
LEMMA BlankRecord ==
  /\ NoChanges \in Record
  /\ NoOps \in [v2hUnfill : SUBSET (Vertex \X Node), v2hFill : SUBSET (Vertex \X Node),
                h2vUnfill : SUBSET (Node \X Vertex), h2vFill : SUBSET (Node \X Vertex)]
<1>1. <<>> \in [{} -> SUBSET Vertex] /\ {} \in SUBSET Node
  OBVIOUS
<1>2. [e \in Vertex \X Node |-> 0] \in [Vertex \X Node -> Int]
  OBVIOUS
<1> QED BY <1>1, <1>2 DEF NoChanges, NoOps, Record

(***************************************************************************)
(* The loaded hypergraph, and the start of a batch.                        *)
(***************************************************************************)
LEMMA HostInitInv == HostInit => HInv
<1> SUFFICES ASSUME HostInit PROVE HInv
  OBVIOUS
<1> USE NAssumption, EndsAssumption
<1>1. PICK r \in InitialRows :
        LET m == Cardinality(DOMAIN r) IN
        /\ phase = "idle" /\ inserts = <<>> /\ inc = NoChanges /\ ops = NoOps
        /\ taken = 0 /\ hostBatches = 0
        /\ maxId = m /\ alive = DOMAIN r
        /\ rows = [h \in Node |-> IF h \in DOMAIN r THEN r[h] ELSE {}]
        /\ \E w \in [Node -> Weights] :
             weight = [h \in Node |-> IF h \in Virtual \/ h >= m THEN 0 ELSE w[h]]
        /\ v2h = [v \in Vertex |-> {h \in DOMAIN r : v \in r[h]}]
        /\ freeIds = <<>> /\ freePos = [h \in Node |-> 0]
  BY DEF HostInit
<1>2. PICK m \in 1 .. N : r \in [0 .. m - 1 -> (SUBSET Vertex) \ {{}}] /\ Virtual \subseteq 0 .. m - 1
  BY InitialRowsAssumption
<1>3. DOMAIN r = 0 .. m - 1 /\ m \in Nat \ {0} /\ m <= N
  BY <1>2
<1>4. Cardinality(0 .. m - 1) = m
  BY <1>3, FS_Interval
<1>5. maxId = m /\ alive = 0 .. m - 1 /\ alive \subseteq Node
  BY <1>1, <1>3, <1>4 DEF Node
<1>6. /\ rows \in [Node -> SUBSET Vertex] /\ v2h \in [Vertex -> SUBSET Node]
      /\ \A h \in Node : rows[h] = IF h \in alive THEN r[h] ELSE {}
      /\ \A v \in Vertex : v2h[v] = {h \in alive : v \in r[h]}
  <2>1. \A h \in alive : r[h] \in (SUBSET Vertex) \ {{}}
    BY <1>2, <1>5
  <2> QED BY <1>1, <1>3, <1>5, <2>1
<1>7. weight \in [Node -> Nat]
  <2>1. PICK w \in [Node -> Weights] :
          weight = [h \in Node |-> IF h \in Virtual \/ h >= Cardinality(DOMAIN r) THEN 0 ELSE w[h]]
    BY <1>1
  <2> QED BY <2>1, WeightsAssumption
<1>8. /\ NoChanges \in Record
      /\ NoOps \in [v2hUnfill : SUBSET (Vertex \X Node), v2hFill : SUBSET (Vertex \X Node),
                    h2vUnfill : SUBSET (Node \X Vertex), h2vFill : SUBSET (Node \X Vertex)]
  BY BlankRecord
<1>9. HostTypeOK
  <2>1. /\ inserts \in Seq([id : Node, verts : (SUBSET Vertex) \ {{}}, w : Weights])
        /\ freeIds \in Seq(Node) /\ freePos \in [Node -> Nat]
    BY <1>1
  <2>2. taken \in 0 .. MaxOps /\ hostBatches \in 0 .. MaxHostBatches /\ maxId \in 0 .. N
    BY <1>1, <1>3, <1>5, HostBoundsAssumption
  <2> QED BY <1>1, <1>5, <1>6, <1>7, <1>8, <2>1, <2>2 DEF HostTypeOK, Record
<1>10. IncidenceConsistent
  <2>1. \A h \in alive : r[h] # {}
    BY <1>2, <1>5
  <2>2. Virtual \subseteq alive
    BY <1>2, <1>5
  <2> QED BY <1>5, <1>6, <2>1, <2>2 DEF IncidenceConsistent
<1>11. FreeListExact /\ IdsBelowMax
  BY <1>1, <1>5 DEF FreeListExact, IdsBelowMax
<1>12. NetIsDifference
  BY <1>1 DEF NetIsDifference, InBatch
<1> QED BY <1>9, <1>10, <1>11, <1>12 DEF HInv

LEMMA BeginKeeps ==
  ASSUME HInv, NEW s \in Insertions, HostBegin(s)
  PROVE  HInv'
<1> USE DEF HostBegin, incidenceVars
<1>1. s \in Seq([id : Node, verts : (SUBSET Vertex) \ {{}}, w : Weights])
  <2> DEFINE Ins == [id : Node, verts : (SUBSET Vertex) \ {{}}, w : Weights]
  <2>1. PICK k \in 0 .. MaxInserts : s \in [1 .. k -> Ins]
    BY DEF Insertions, InsertionsWith
  <2>2. k \in Nat
    BY <2>1, HostBoundsAssumption
  <2> HIDE DEF Ins
  <2>3. s \in Seq(Ins)
    BY <2>1, <2>2
  <2> QED BY <2>3 DEF Ins
<1>2. HostTypeOK'
  <2>1. taken' \in 0 .. MaxOps /\ hostBatches' \in 0 .. MaxHostBatches
    BY HostBoundsAssumption DEF HInv, HostTypeOK
  <2> QED BY <1>1, <2>1, BlankRecord DEF HInv, HostTypeOK, Record
<1>3. IncidenceConsistent' /\ FreeListExact' /\ IdsBelowMax'
  BY DEF HInv, IncidenceConsistent, FreeListExact, IdsBelowMax
<1>4. NetIsDifference'
  <2>1. inc'.net = [e \in Vertex \X Node |-> 0] /\ inc'.pre = <<>>
    BY DEF NoChanges
  <2>2. Touched' = {}
    BY <2>1 DEF Touched
  <2> QED BY <2>1, <2>2 DEF NetIsDifference
<1> QED BY <1>2, <1>3, <1>4 DEF HInv

(***************************************************************************)
(* Steps that change neither the incidence nor the record.                 *)
(***************************************************************************)
LEMMA StillKeeps ==
  ASSUME HInv, UNCHANGED <<incidenceVars, inserts, recordVars, hostBatches>>,
         phase' \in {"idle", "heDelete", "vtxDelete", "vtxInsert", "heInsert", "failed"},
         InBatch' => InBatch
  PROVE  HInv'
<1> USE DEF incidenceVars, recordVars
<1>1. HostTypeOK'
  BY DEF HInv, HostTypeOK
<1>2. IncidenceConsistent' /\ FreeListExact' /\ IdsBelowMax'
  BY DEF HInv, IncidenceConsistent, FreeListExact, IdsBelowMax
<1>3. NetIsDifference'
  BY DEF HInv, NetIsDifference, Touched
<1> QED BY <1>1, <1>2, <1>3 DEF HInv

(***************************************************************************)
(* Phase 1.                                                                *)
(***************************************************************************)
LEMMA DeleteHyperedgeKeeps ==
  ASSUME HInv, NEW h \in Node, DeleteHyperedge(h)
  PROVE  HInv'
<1> USE DEF DeleteHyperedge
<1>1. /\ HostTypeOK /\ InBatch /\ h \in alive /\ h \notin Virtual
      /\ rows \in [Node -> SUBSET Vertex] /\ rows[h] \in SUBSET Vertex
      /\ v2h \in [Vertex -> SUBSET Node] /\ alive \in SUBSET Node
  BY DEF HInv, HostTypeOK, InBatch
<1>2. /\ rows' \in [Node -> SUBSET Vertex] /\ rows'[h] = {}
      /\ \A x \in Node : x # h => rows'[x] = rows[x]
      /\ v2h' \in [Vertex -> SUBSET Node]
      /\ \A v \in Vertex, x \in Node : x \in v2h'[v] <=> x \in v2h[v] /\ ~(x = h /\ v \in rows[h])
  BY <1>1 DEF Without
<1>3. /\ inc' \in Record /\ inc'.net = Recorded(h, rows[h], -1).net
      /\ inc'.pre = Recorded(h, rows[h], -1).pre
      /\ inc'.vertices = Recorded(h, rows[h], -1).vertices
  <2> DEFINE rec == Recorded(h, rows[h], -1)
  <2>1. rec \in Record
    BY <1>1, RecordedType
  <2>2. inc' = [rec EXCEPT !.deleted = @ \cup {h}]
    OBVIOUS
  <2> HIDE DEF rec, DeleteHyperedge
  <2>3. inc' \in Record /\ inc'.net = rec.net /\ inc'.pre = rec.pre /\ inc'.vertices = rec.vertices
    BY <2>1, <2>2 DEF Record
  <2> QED BY <2>3 DEF rec
<1>4. /\ FreeListExact' /\ freeIds' \in Seq(Node) /\ freePos' \in [Node -> Nat]
      /\ \A x \in Node : freePos'[x] # 0 => x = h \/ freePos[x] # 0
  BY <1>1, PushKeepsFreeList
<1>5. HostTypeOK'
  <2>1. ops' \in [v2hUnfill : SUBSET (Vertex \X Node), v2hFill : SUBSET (Vertex \X Node),
                  h2vUnfill : SUBSET (Node \X Vertex), h2vFill : SUBSET (Node \X Vertex)]
    BY <1>1 DEF HostTypeOK
  <2>2. taken' \in 0 .. MaxOps
    BY HostBoundsAssumption DEF HInv, HostTypeOK
  <2>3. /\ phase' \in {"idle", "heDelete", "vtxDelete", "vtxInsert", "heInsert", "failed"}
        /\ weight' \in [Node -> Nat] /\ alive' \in SUBSET Node /\ maxId' \in 0 .. N
        /\ inserts' \in Seq([id : Node, verts : (SUBSET Vertex) \ {{}}, w : Weights])
        /\ hostBatches' \in 0 .. MaxHostBatches
    BY DEF HInv, HostTypeOK
  <2> QED BY <1>2, <1>3, <1>4, <2>1, <2>2, <2>3 DEF HostTypeOK, Record
<1>6. IncidenceConsistent'
  <2>1. Virtual \subseteq alive'
    BY <1>1 DEF HInv, IncidenceConsistent
  <2>2. \A x \in Node, v \in Vertex : v \in rows'[x] <=> x \in v2h'[v]
    BY <1>1, <1>2 DEF HInv, IncidenceConsistent
  <2>3. \A x \in Node : rows'[x] # {} <=> x \in alive'
    BY <1>1, <1>2 DEF HInv, IncidenceConsistent
  <2> QED BY <2>1, <2>2, <2>3 DEF IncidenceConsistent
<1>7. IdsBelowMax'
  BY <1>1, <1>4 DEF HInv, HostTypeOK, IdsBelowMax, Node
<1>8. NetIsDifference'
  BY <1>1, <1>2, <1>3, NetKept
<1> QED BY <1>4, <1>5, <1>6, <1>7, <1>8 DEF HInv

(***************************************************************************)
(* Phases 2 and 3: one vertex leaves or enters a row.                      *)
(***************************************************************************)
LEMMA DeleteVertexKeeps ==
  ASSUME HInv, NEW h \in Node, NEW v \in Vertex, DeleteVertex(h, v)
  PROVE  HInv'
<1> USE DEF DeleteVertex
<1>1. /\ HostTypeOK /\ InBatch /\ h \in alive /\ v \in rows[h] /\ rows[h] # {v}
      /\ rows \in [Node -> SUBSET Vertex] /\ v2h \in [Vertex -> SUBSET Node]
  BY DEF HInv, HostTypeOK, InBatch
<1>2. /\ rows' \in [Node -> SUBSET Vertex] /\ rows'[h] = rows[h] \ {v}
      /\ \A x \in Node : x # h => rows'[x] = rows[x]
      /\ v2h' \in [Vertex -> SUBSET Node]
      /\ \A u \in Vertex, x \in Node : x \in v2h'[u] <=> x \in v2h[u] /\ ~(x = h /\ u = v)
  BY <1>1 DEF Without
<1>3. inc' \in Record
  BY <1>1, RecordedType
<1>4. HostTypeOK'
  <2>1. ops' \in [v2hUnfill : SUBSET (Vertex \X Node), v2hFill : SUBSET (Vertex \X Node),
                  h2vUnfill : SUBSET (Node \X Vertex), h2vFill : SUBSET (Node \X Vertex)]
    <3>1. {<<h, v>>} \in SUBSET (Node \X Vertex) /\ {<<v, h>>} \in SUBSET (Vertex \X Node)
      OBVIOUS
    <3>2. ops' = [ops EXCEPT !.h2vUnfill = @ \cup {<<h, v>>}, !.v2hUnfill = @ \cup {<<v, h>>}]
      OBVIOUS
    <3> HIDE DEF DeleteVertex
    <3> QED BY <1>1, <3>1, <3>2 DEF HostTypeOK
  <2>2. taken' \in 0 .. MaxOps
    BY HostBoundsAssumption DEF HInv, HostTypeOK
  <2> QED BY <1>2, <1>3, <2>1, <2>2 DEF HInv, HostTypeOK, Record
<1>5. IncidenceConsistent'
  <2>1. \A x \in Node, u \in Vertex : u \in rows'[x] <=> x \in v2h'[u]
    BY <1>1, <1>2 DEF HInv, IncidenceConsistent
  <2>2. \A x \in Node : rows'[x] # {} <=> x \in alive'
    BY <1>1, <1>2 DEF HInv, IncidenceConsistent
  <2> QED BY <2>1, <2>2 DEF HInv, IncidenceConsistent
<1>6. FreeListExact' /\ IdsBelowMax'
  BY DEF HInv, FreeListExact, IdsBelowMax
<1>7. NetIsDifference'
  BY <1>1, <1>2, NetKept
<1> QED BY <1>4, <1>5, <1>6, <1>7 DEF HInv

LEMMA InsertVertexKeeps ==
  ASSUME HInv, NEW h \in Node, NEW v \in Vertex, InsertVertex(h, v)
  PROVE  HInv'
<1> USE DEF InsertVertex
<1>1. /\ HostTypeOK /\ InBatch /\ h \in alive /\ v \notin rows[h]
      /\ rows \in [Node -> SUBSET Vertex] /\ v2h \in [Vertex -> SUBSET Node]
  BY DEF HInv, HostTypeOK, InBatch
<1>2. /\ rows' \in [Node -> SUBSET Vertex] /\ rows'[h] = rows[h] \cup {v}
      /\ \A x \in Node : x # h => rows'[x] = rows[x]
      /\ v2h' \in [Vertex -> SUBSET Node]
      /\ \A u \in Vertex, x \in Node : x \in v2h'[u] <=> x \in v2h[u] \/ (x = h /\ u = v)
  BY <1>1 DEF With
<1>3. inc' \in Record
  BY <1>1, RecordedType
<1>4. HostTypeOK'
  <2>1. ops' \in [v2hUnfill : SUBSET (Vertex \X Node), v2hFill : SUBSET (Vertex \X Node),
                  h2vUnfill : SUBSET (Node \X Vertex), h2vFill : SUBSET (Node \X Vertex)]
    <3>1. {<<h, v>>} \in SUBSET (Node \X Vertex) /\ {<<v, h>>} \in SUBSET (Vertex \X Node)
      OBVIOUS
    <3>2. ops' = [ops EXCEPT !.h2vFill = @ \cup {<<h, v>>}, !.v2hFill = @ \cup {<<v, h>>}]
      OBVIOUS
    <3> HIDE DEF InsertVertex
    <3> QED BY <1>1, <3>1, <3>2 DEF HostTypeOK
  <2>2. taken' \in 0 .. MaxOps
    BY HostBoundsAssumption DEF HInv, HostTypeOK
  <2> QED BY <1>2, <1>3, <2>1, <2>2 DEF HInv, HostTypeOK, Record
<1>5. IncidenceConsistent'
  <2>1. \A x \in Node, u \in Vertex : u \in rows'[x] <=> x \in v2h'[u]
    BY <1>1, <1>2 DEF HInv, IncidenceConsistent
  <2>2. \A x \in Node : rows'[x] # {} <=> x \in alive'
    BY <1>1, <1>2 DEF HInv, IncidenceConsistent
  <2> QED BY <2>1, <2>2 DEF HInv, IncidenceConsistent
<1>6. FreeListExact' /\ IdsBelowMax'
  BY DEF HInv, FreeListExact, IdsBelowMax
<1>7. NetIsDifference'
  BY <1>1, <1>2, NetKept
<1> QED BY <1>4, <1>5, <1>6, <1>7 DEF HInv

(***************************************************************************)
(* Phase 4: a dead id, recycled or fresh, gets its row.                    *)
(***************************************************************************)
LEMMA InsertHyperedgeKeeps ==
  ASSUME HInv, InsertHyperedge
  PROVE  HInv'
<1> DEFINE Ins == [id : Node, verts : (SUBSET Vertex) \ {{}}, w : Weights]
           new == Head(inserts)
           h == new.id
<1>1. /\ HostTypeOK /\ InBatch /\ h \notin alive /\ inserts # <<>>
      /\ rows \in [Node -> SUBSET Vertex] /\ v2h \in [Vertex -> SUBSET Node]
      /\ alive \in SUBSET Node
  BY DEF HInv, HostTypeOK, InBatch, InsertHyperedge
<1>2. new \in Ins /\ Tail(inserts) \in Seq(Ins)
  <2>1. inserts \in Seq(Ins)
    BY <1>1 DEF HostTypeOK
  <2> HIDE DEF Ins
  <2> QED BY <1>1, <2>1, HeadTailProperties
<1>3. /\ h \in Node /\ new.verts \in SUBSET Vertex /\ new.verts # {} /\ new.w \in Nat
  BY <1>2, WeightsAssumption
<1>4. /\ inc' = [Recorded(h, new.verts, 1) EXCEPT !.new = @ \cup {h}]
      /\ ops' = [ops EXCEPT !.v2hFill = @ \cup (new.verts \X {h})]
      /\ v2h' = With(h, new.verts)
      /\ rows' = [rows EXCEPT ![h] = new.verts]
      /\ weight' = [weight EXCEPT ![h] = new.w]
      /\ alive' = alive \cup {h}
      /\ maxId' = IF h < maxId THEN maxId ELSE h + 1
      /\ freeIds' = FreeIdsWithout(h) /\ freePos' = FreePosWithout(h)
      /\ inserts' = Tail(inserts) /\ phase' = "heInsert"
      /\ taken' = taken /\ hostBatches' = hostBatches
  BY DEF InsertHyperedge
<1> HIDE DEF new
<1>5. \A u \in Vertex : u \notin rows[h]
  BY <1>1, <1>3 DEF HInv, IncidenceConsistent
<1>6. /\ rows' \in [Node -> SUBSET Vertex] /\ rows'[h] = new.verts
      /\ \A x \in Node : x # h => rows'[x] = rows[x]
      /\ v2h' \in [Vertex -> SUBSET Node]
      /\ \A u \in Vertex, x \in Node : x \in v2h'[u] <=> x \in v2h[u] \/ (x = h /\ u \in new.verts)
  BY <1>1, <1>3, <1>4 DEF With
<1>7. /\ inc' \in Record /\ inc'.net = Recorded(h, new.verts, 1).net
      /\ inc'.pre = Recorded(h, new.verts, 1).pre
      /\ inc'.vertices = Recorded(h, new.verts, 1).vertices
  <2> DEFINE rec == Recorded(h, new.verts, 1)
  <2>1. rec \in Record
    BY <1>1, <1>3, RecordedType
  <2>2. inc' = [rec EXCEPT !.new = @ \cup {h}]
    BY <1>4
  <2> HIDE DEF rec
  <2>3. inc' \in Record /\ inc'.net = rec.net /\ inc'.pre = rec.pre /\ inc'.vertices = rec.vertices
    BY <1>3, <2>1, <2>2 DEF Record
  <2> QED BY <2>3 DEF rec
<1>8. /\ FreeListExact' /\ freeIds' \in Seq(Node) /\ freePos' \in [Node -> Nat]
      /\ \A x \in Node : freePos'[x] # 0 => freePos[x] # 0
  BY <1>1, <1>3, <1>4, RemovalKeepsFreeList
<1>max. /\ maxId \in 0 .. N /\ maxId' \in 0 .. N
        /\ h \in 0 .. N - 1 /\ h < maxId' /\ maxId <= maxId'
  <2>1. maxId \in 0 .. N /\ h \in 0 .. N - 1 /\ N \in Nat
    BY <1>1, <1>3, NAssumption DEF HostTypeOK, Node
  <2>2. maxId' = IF h < maxId THEN maxId ELSE h + 1
    BY <1>4
  <2> HIDE DEF h
  <2> QED BY <2>1, <2>2
<1>9. HostTypeOK'
  <2>1. ops' \in [v2hUnfill : SUBSET (Vertex \X Node), v2hFill : SUBSET (Vertex \X Node),
                  h2vUnfill : SUBSET (Node \X Vertex), h2vFill : SUBSET (Node \X Vertex)]
    BY <1>1, <1>3, <1>4 DEF HostTypeOK
  <2>2. maxId' \in 0 .. N
    BY <1>max
  <2>3. /\ weight' \in [Node -> Nat] /\ alive' \in SUBSET Node
        /\ phase' \in {"idle", "heDelete", "vtxDelete", "vtxInsert", "heInsert", "failed"}
        /\ taken' \in 0 .. MaxOps /\ hostBatches' \in 0 .. MaxHostBatches
    BY <1>1, <1>3, <1>4 DEF HostTypeOK
  <2> QED BY <1>2, <1>4, <1>6, <1>7, <1>8, <2>1, <2>2, <2>3 DEF HostTypeOK, Record
<1>10. IncidenceConsistent'
  <2>1. \A x \in Node, u \in Vertex : u \in rows'[x] <=> x \in v2h'[u]
    BY <1>3, <1>5, <1>6 DEF HInv, IncidenceConsistent
  <2>2. \A x \in Node : rows'[x] # {} <=> x \in alive'
    BY <1>3, <1>4, <1>6 DEF HInv, IncidenceConsistent
  <2>3. Virtual \subseteq alive'
    BY <1>4 DEF HInv, IncidenceConsistent
  <2> QED BY <2>1, <2>2, <2>3 DEF IncidenceConsistent
<1>11. IdsBelowMax'
  <2>1. /\ maxId \in Nat /\ maxId' \in Nat /\ h \in Nat /\ h < maxId' /\ maxId <= maxId'
    BY <1>max, NAssumption
  <2>2. alive' \subseteq 0 .. maxId' - 1
    BY <1>4, <2>1 DEF HInv, IdsBelowMax
  <2>3. \A x \in Node : freePos'[x] # 0 => x < maxId'
    BY <1>8, <2>1 DEF HInv, IdsBelowMax, Node
  <2> QED BY <2>2, <2>3 DEF IdsBelowMax
<1>12. NetIsDifference'
  <2>1. \A u \in new.verts : u \notin rows[h] /\ u \in rows'[h]
    BY <1>3, <1>5, <1>6
  <2>2. \A u \in Vertex : u \notin new.verts => (u \in rows'[h] <=> u \in rows[h])
    BY <1>5, <1>6
  <2> HIDE DEF h
  <2> QED BY <1>1, <1>3, <1>6, <1>7, <2>1, <2>2, NetKept
<1> QED BY <1>8, <1>9, <1>10, <1>11, <1>12 DEF HInv

(***************************************************************************)
(* The inductive invariant holds: whatever batches HostHypergraph applies, *)
(* in their middle and after a throw too (HostHypergraph.cpp:122-295).     *)
(***************************************************************************)
THEOREM HostInvariant == HostSpec => []HInv
<1>1. HostInit => HInv
  BY HostInitInv
<1>2. HInv /\ [HostNext]_hostVars => HInv'
  <2> SUFFICES ASSUME HInv, [HostNext]_hostVars PROVE HInv'
    OBVIOUS
  <2> USE DEF hostVars
  <2>1. ASSUME NEW s \in Insertions, HostBegin(s) PROVE HInv'
    BY <2>1, BeginKeeps
  <2>2. CASE BatchOp
    BY <2>2, DeleteHyperedgeKeeps, DeleteVertexKeeps, InsertVertexKeeps, InsertHyperedgeKeeps DEF BatchOp
  <2>3. CASE IdCollision
    BY <2>3, StillKeeps DEF IdCollision, InBatch
  <2>4. CASE HostDone("idle")
    BY <2>4, StillKeeps DEF HostDone, InBatch
  <2>5. CASE HostStopped \/ UNCHANGED hostVars
    <3>1. UNCHANGED <<incidenceVars, inserts, recordVars, hostBatches, phase>>
      BY <2>5 DEF HostStopped
    <3> QED BY <3>1, StillKeeps DEF HInv, HostTypeOK, InBatch
  <2> QED BY <2>1, <2>2, <2>3, <2>4, <2>5 DEF HostNext
<1> QED BY <1>1, <1>2, PTL DEF HostSpec

(***************************************************************************)
(* The arrays, lists and records of HostHypergraph keep their types        *)
(* (HostHypergraph.hpp:135-165), free-list positions included.             *)
(***************************************************************************)
THEOREM HostTypeCorrect == HostSpec => []HostTypeOK
BY HostInvariant, PTL DEF HInv

(***************************************************************************)
(* heVerts and v2h mirror each other after every op of every batch, and    *)
(* no batch empties a live hyperedge (HostHypergraph.cpp:176-200).         *)
(***************************************************************************)
THEOREM IncidenceStaysConsistent == HostSpec => []IncidenceConsistent
BY HostInvariant, PTL DEF HInv

(***************************************************************************)
(* Swapping the last free id into the place of a removed one keeps every   *)
(* position right (HostHypergraph.cpp:59-67).                              *)
(***************************************************************************)
THEOREM FreeListStaysExact == HostSpec => []FreeListExact
BY HostInvariant, PTL DEF HInv

(***************************************************************************)
(* The signs a batch emits for the device always sum to the net change of  *)
(* the rows (HostHypergraph.cpp:122-295).                                  *)
(***************************************************************************)
THEOREM NetChangeIsExact == HostSpec => []NetIsDifference
BY HostInvariant, PTL DEF HInv

(***************************************************************************)
(* Ids handed out for insertions collide neither with live hyperedges nor  *)
(* with each other (reserveIds, HostHypergraph.cpp:107-120).               *)
(***************************************************************************)
THEOREM ReservedIdsStayUsable == HostSpec => []ReservedIdsUsable
<1>1. HInv => ReservedIdsUsable
  <2> SUFFICES ASSUME HInv, NEW i \in 1 .. Len(freeIds) + MaxInserts, NEW j \in 1 .. Len(freeIds) + MaxInserts
               PROVE  ReservedId(i) \notin alive /\ (ReservedId(i) = ReservedId(j) => i = j)
    BY DEF ReservedIdsUsable
  <2> DEFINE L == Len(freeIds)
  <2>1. /\ L \in Nat /\ MaxInserts \in Nat /\ maxId \in Nat
        /\ DOMAIN freeIds = 1 .. L /\ freeIds \in [1 .. L -> Node]
    BY LenProperties, HostBoundsAssumption DEF HInv, HostTypeOK
  <2>2. ASSUME NEW k \in 1 .. L
        PROVE  /\ freeIds[k] \in Node /\ freePos[freeIds[k]] = k
               /\ freeIds[k] \notin alive /\ freeIds[k] < maxId
    BY <2>1 DEF HInv, FreeListExact, IdsBelowMax
  <2>3. ASSUME NEW k \in 1 .. L + MaxInserts, k <= L
        PROVE  /\ L + 1 - k \in 1 .. L
               /\ ReservedId(k) = freeIds[L + 1 - k]
               /\ ReservedId(k) \notin alive /\ ReservedId(k) < maxId
               /\ freePos[ReservedId(k)] = L + 1 - k
    <3>1. L + 1 - k \in 1 .. L
      BY <2>1, <2>3
    <3>2. ReservedId(k) = freeIds[L + 1 - k]
      BY <2>3 DEF ReservedId
    <3> QED BY <2>2, <3>1, <3>2
  <2>4. ASSUME NEW k \in 1 .. L + MaxInserts, ~(k <= L)
        PROVE  ReservedId(k) = maxId + (k - L - 1) /\ ReservedId(k) >= maxId /\ ReservedId(k) \notin alive
    <3>1. ReservedId(k) = maxId + (k - L - 1) /\ ReservedId(k) >= maxId
      BY <2>1, <2>4 DEF ReservedId
    <3>2. \A x \in alive : x < maxId
      BY <2>1 DEF HInv, IdsBelowMax
    <3> QED BY <2>1, <2>4, <3>1, <3>2
  <2>5. ReservedId(i) \notin alive
    BY <2>3, <2>4
  <2>6. ASSUME ReservedId(i) = ReservedId(j) PROVE i = j
    <3>1. CASE i <= L /\ j <= L
      BY <2>1, <2>3, <2>6, <3>1
    <3>2. CASE i <= L /\ ~(j <= L)
      <4>1. ReservedId(i) < maxId /\ ReservedId(j) >= maxId /\ ReservedId(j) = maxId + (j - L - 1)
        BY <2>3, <2>4, <3>2
      <4> QED BY <2>1, <2>6, <4>1
    <3>3. CASE ~(i <= L) /\ j <= L
      <4>1. ReservedId(j) < maxId /\ ReservedId(i) >= maxId /\ ReservedId(i) = maxId + (i - L - 1)
        BY <2>3, <2>4, <3>3
      <4> QED BY <2>1, <2>6, <4>1
    <3>4. CASE ~(i <= L) /\ ~(j <= L)
      <4>1. ReservedId(i) = maxId + (i - L - 1) /\ ReservedId(j) = maxId + (j - L - 1)
        BY <2>4, <3>4
      <4>2. i \in Int /\ j \in Int /\ L \in Int /\ maxId \in Int
        BY <2>1
      <4>3. maxId + (i - L - 1) = maxId + (j - L - 1)
        BY <2>6, <4>1
      <4> HIDE DEF L
      <4> QED BY <4>2, <4>3
    <3> QED BY <3>1, <3>2, <3>3, <3>4
  <2> QED BY <2>5, <2>6
<1> QED BY HostInvariant, <1>1, PTL

-----------------------------------------------------------------------------
\* The hyperedges that share a vertex, from the rows alone.
Adjacent(r) == [h \in Node |-> {o \in Node \ {h} : r[h] \cap r[o] # {}}]

\* Rows of neighbours: symmetric, without loops.
Symmetric(a) ==
  /\ a \in [Node -> SUBSET Node]
  /\ \A u, v \in Node : v \in a[u] => u # v /\ u \in a[v]

\* The pairs of b that are not pairs of a.
Gain(a, b) == {e \in Node \X Node : e[1] < e[2] /\ e[2] \in b[e[1]] \ a[e[1]]}

\* The ids of the insertions that are still to come.
Pending == {inserts[i].id : i \in DOMAIN inserts}

\* A row array has its five parts.
IsArena(a) == a = [off |-> a.off, cap |-> a.cap, row |-> a.row, tail |-> a.tail, capacity |-> a.capacity]

(***************************************************************************)
(* The parts of the inductive invariant.                                   *)
(***************************************************************************)

\* The host's state, in the phases after the batch on the host too.
HostFacts ==
  /\ rows \in [Node -> SUBSET Vertex] /\ weight \in [Node -> Nat]
  /\ alive \in SUBSET Node /\ maxId \in 0 .. N
  /\ v2h \in [Vertex -> SUBSET Node]
  /\ freeIds \in Seq(Node) /\ freePos \in [Node -> Nat]
  /\ inserts \in Seq([id : Node, verts : (SUBSET Vertex) \ {{}}, w : Weights])
  /\ inc \in Record
  /\ ops \in [v2hUnfill : SUBSET (Vertex \X Node), v2hFill : SUBSET (Vertex \X Node),
              h2vUnfill : SUBSET (Node \X Vertex), h2vFill : SUBSET (Node \X Vertex)]
  /\ taken \in 0 .. MaxOps /\ hostBatches \in 0 .. MaxHostBatches
  /\ IncidenceConsistent /\ FreeListExact /\ IdsBelowMax

\* The h2v tree has no key past the ids in use or about to be; so the keys it
\* gives to new rows leave no gap.
H2vIds ==
  /\ ~InBatch => inserts = <<>>
  /\ phase # "failed" =>
       Source \in DOMAIN h2v /\ DOMAIN h2v \subseteq {h \in Node : h < maxId} \cup Pending

NoGap == \A h \in Node, p \in Pending : maxId <= h /\ h < p => h \in Pending

\* What the batch did to the ids.
AliveKept ==
  /\ alive = (before.graph.live \ inc.deleted) \cup inc.new
  /\ inc.deleted \subseteq before.graph.live
  /\ inc.new \subseteq Node \ Virtual
  /\ phase = "heDelete" => inc.new = {}

\* ... and to the weights.
WeightsKept ==
  \A h \in Node \ Pending :
    IF h \in inc.new THEN h < maxId /\ weight[h] # 0
    ELSE /\ h < maxId => (weight[h] = 0 <=> h \in Virtual)
         /\ before.graph.w[h] = IF h < maxId THEN weight[h] ELSE 1

\* The weights on the device, before they are scattered.
WeightsStale == \A h \in Node \ (inc.new \cup Pending) : h < maxId => nodeW[h] = weight[h]

WeightsFresh == \A h \in Node : h < maxId => nodeW[h] = weight[h]

\* The mirror still has the hyperedge rows from before the batch.
RowsMirrorOld ==
  /\ he.row \in [Node -> SUBSET Vertex]
  /\ before.graph.adj = Adjacent(he.row)
  /\ \A h \in Node : PreRow(h) = he.row[h] /\ PostRow(h) = rows[h]

ListsMirrorOld == vx.row = [v \in Vertex |-> {h \in Node : v \in he.row[h]}]

\* The signs are the difference between the mirror and the host.
NetMirrors ==
  \A v \in Vertex, h \in Node : inc.net[<<v, h>>] = Member(v, rows[h]) - Member(v, he.row[h])

\* Every pair that changes is a candidate.
Complete ==
  /\ cand \subseteq {e \in Node \X Node : e[1] < e[2]}
  /\ Gain(Adjacent(he.row), Adjacent(rows)) \cup Gain(Adjacent(rows), Adjacent(he.row)) \subseteq cand

\* The delta is the net change.
DeltaExact ==
  delta = [del |-> Gain(Adjacent(rows), before.graph.adj), ins |-> Gain(before.graph.adj, Adjacent(rows)),
           new |-> inc.new, dead |-> before.graph.live \ alive]

\* The warps that have run have left the new rows.
RowsApplied ==
  csrFull \/ csr.row = [h \in Node |-> IF h \in csrTodo THEN before.graph.adj[h] ELSE Adjacent(rows)[h]]

AllMirrored ==
  /\ he.row = rows /\ vx.row = v2h
  /\ csr.row = Adjacent(rows) /\ ~csrFull
  /\ WeightsFresh
  /\ \A h \in Node : h < maxId => (weight[h] = 0 <=> h \in Virtual)

BatchPhases == {"heDelete", "vtxDelete", "vtxInsert", "heInsert", "applied", "candidates", "classified",
                "csr", "mirrored"}

(***************************************************************************)
(* The inductive invariant.                                                *)
(***************************************************************************)
BInv ==
  /\ phase \in {"idle", "failed"} \cup BatchPhases
  /\ HostFacts /\ H2vIds
  /\ IsArena(he) /\ IsArena(vx) /\ IsArena(csr) /\ nodeW \in [Node -> Nat]
  /\ Settled => AllMirrored
  /\ phase \in BatchPhases => AliveKept /\ WeightsKept
  /\ InBatch => NetIsDifference /\ NoGap
  /\ InBatch \/ phase = "applied" => ListsMirrorOld
  /\ phase = "applied" => NetMirrors
  /\ InBatch \/ phase \in {"applied", "candidates"} => RowsMirrorOld
  /\ phase = "candidates" => Complete
  /\ InBatch \/ phase \in {"applied", "candidates", "classified"} => csr.row = before.graph.adj /\ ~csrFull
  /\ phase \in {"candidates", "classified", "csr", "mirrored"} => vx.row = v2h
  /\ phase \in {"classified", "csr", "mirrored"} =>
       he.row = rows /\ DeltaExact /\ Symmetric(before.graph.adj)
  /\ phase = "csr" => RowsApplied
  /\ phase \in BatchPhases \ {"mirrored"} => WeightsStale
  /\ phase = "mirrored" => WeightsFresh /\ csr.row = Adjacent(rows) /\ ~csrFull

-----------------------------------------------------------------------------
(***************************************************************************)
(* Rows, pairs and arrays.                                                 *)
(***************************************************************************)

\* The line graph of rows is symmetric and has no loop.
LEMMA AdjacentFacts ==
  ASSUME NEW r \in [Node -> SUBSET Vertex]
  PROVE  /\ Adjacent(r) \in [Node -> SUBSET Node]
         /\ \A a, b \in Node : b \in Adjacent(r)[a] <=> a # b /\ r[a] \cap r[b] # {}
         /\ Symmetric(Adjacent(r))
BY DEF Adjacent, Symmetric

\* A pair is the same both ways round, and tells its two nodes.
LEMMA PairFacts ==
  ASSUME NEW a \in Node, NEW b \in Node, a # b
  PROVE  /\ Pair(a, b) = Pair(b, a) /\ Pair(a, b) \in Node \X Node
         /\ Pair(a, b)[1] < Pair(a, b)[2]
         /\ Pair(a, b) = <<a, b>> \/ Pair(a, b) = <<b, a>>
         /\ a < b => Pair(a, b) = <<a, b>>
BY NAssumption DEF Pair, Node

LEMMA CandidateFacts ==
  ASSUME NEW lists \in [Vertex -> SUBSET Node], NEW p
  PROVE  p \in CandidatesOf(lists) <=>
           \E v \in Vertex, h \in Node : inc.net[<<v, h>>] # 0 /\ \E o \in lists[v] \ {h} : p = Pair(h, o)
<1> DEFINE changed == {f \in Vertex \X Node : inc.net[f] # 0}
           of(e) == {Pair(e[2], o) : o \in lists[e[1]] \ {e[2]}}
<1>1. p \in CandidatesOf(lists) <=> \E e \in changed : p \in of(e)
  BY DEF CandidatesOf
<1>2. \A e \in changed : /\ e[1] \in Vertex /\ e[2] \in Node /\ inc.net[<<e[1], e[2]>>] # 0
                         /\ p \in of(e) => \E o \in lists[e[1]] \ {e[2]} : p = Pair(e[2], o)
  BY DEF Pair
<1>3. ASSUME NEW v \in Vertex, NEW h \in Node, inc.net[<<v, h>>] # 0, NEW o \in lists[v] \ {h}, p = Pair(h, o)
      PROVE  <<v, h>> \in changed /\ p \in of(<<v, h>>)
  BY <1>3
<1> HIDE DEF changed, of
<1> QED BY <1>1, <1>2, <1>3

(***************************************************************************)
(* Between the host's invariant and this one.                              *)
(***************************************************************************)
LEMMA HostInvOfBatch ==
  ASSUME BInv, InBatch
  PROVE  HInv
BY DEF BInv, HostFacts, InBatch, HInv, HostTypeOK, Record

LEMMA HostFactsOfHost ==
  ASSUME HInv
  PROVE  HostFacts
BY DEF HInv, HostTypeOK, HostFacts, Record

LEMMA HostFactsStill ==
  ASSUME HostFacts, UNCHANGED <<incidenceVars, inserts, recordVars, hostBatches>>
  PROVE  HostFacts'
BY DEF HostFacts, incidenceVars, recordVars, IncidenceConsistent, FreeListExact, IdsBelowMax, Record

\* HostHypergraph::lineGraph is the line graph of the rows.
LEMMA HostLineGraphIsAdjacent ==
  ASSUME HostFacts
  PROVE  HostLineGraph = Adjacent(rows)
<1> SUFFICES ASSUME NEW h \in Node
             PROVE  (IF h \in alive THEN (UNION {v2h[v] : v \in rows[h]}) \ {h} ELSE {})
                       = {o \in Node \ {h} : rows[h] \cap rows[o] # {}}
  BY DEF HostLineGraph, Adjacent
<1>1. /\ rows \in [Node -> SUBSET Vertex] /\ v2h \in [Vertex -> SUBSET Node]
      /\ \A x \in Node, v \in Vertex : v \in rows[x] <=> x \in v2h[v]
      /\ \A x \in Node : rows[x] # {} <=> x \in alive
  BY DEF HostFacts, IncidenceConsistent
<1>2. CASE h \notin alive
  BY <1>1, <1>2
<1>3. CASE h \in alive
  <2>1. (UNION {v2h[v] : v \in rows[h]}) \ {h} = {o \in Node \ {h} : \E v \in rows[h] : o \in v2h[v]}
    BY <1>1
  <2>2. \A o \in Node : (\E v \in rows[h] : o \in v2h[v]) <=> rows[h] \cap rows[o] # {}
    BY <1>1
  <2> QED BY <1>3, <2>1, <2>2
<1> QED BY <1>2, <1>3

(***************************************************************************)
(* The batch on the host.                                                  *)
(***************************************************************************)

\* An op on hyperedge h keeps the device's rows those of before the batch.
LEMMA TouchMirrors ==
  ASSUME RowsMirrorOld, HostTypeOK, NEW h \in Node, inc'.pre = Touch(h),
         \A x \in Node : x # h => rows'[x] = rows[x], UNCHANGED <<he, before>>
  PROVE  RowsMirrorOld'
<1>1. /\ Touched' = Touched \cup {h} /\ \A x \in Touched : inc'.pre[x] = inc.pre[x]
      /\ h \notin Touched => inc'.pre[h] = rows[h]
  BY TouchType DEF Touched
<1>2. ASSUME NEW x \in Node
      PROVE  PreRow(x)' = he.row[x] /\ PostRow(x)' = rows'[x]
  <2>1. PreRow(x) = he.row[x] /\ PostRow(x) = rows[x]
    BY DEF RowsMirrorOld
  <2>2. CASE x \in Touched
    BY <1>1, <2>1, <2>2 DEF PreRow, PostRow
  <2>3. CASE x \notin Touched /\ x = h
    BY <1>1, <2>1, <2>3 DEF PreRow, PostRow
  <2>4. CASE x \notin Touched /\ x # h
    BY <1>1, <2>1, <2>4 DEF PreRow, PostRow
  <2> QED BY <2>2, <2>3, <2>4
<1> QED BY <1>2 DEF RowsMirrorOld

\* An op on a live hyperedge.
LEMMA OpKeepsRest ==
  ASSUME BInv, InBatch, InBatch', HInv', AliveKept', inc'.new = inc.new,
         NEW h \in Node, inc'.pre = Touch(h), \A x \in Node : x # h => rows'[x] = rows[x],
         UNCHANGED <<inserts, maxId, weight, deviceVars, escherVars, before>>
  PROVE  BInv'
<1> USE DEF deviceVars, mirrorVars, deltaVars, csrVars, escherVars
<1>1. HInv /\ HostTypeOK /\ RowsMirrorOld /\ ListsMirrorOld /\ WeightsKept /\ WeightsStale /\ NoGap /\ H2vIds
  BY HostInvOfBatch DEF BInv, HInv, InBatch, BatchPhases
<1>2. HostFacts' /\ NetIsDifference'
  BY HostFactsOfHost DEF HInv, HostFacts, HostTypeOK, Record
<1>3. RowsMirrorOld' /\ ListsMirrorOld'
  BY <1>1, TouchMirrors DEF ListsMirrorOld
<1>4. WeightsKept' /\ WeightsStale' /\ NoGap' /\ Pending' = Pending
  BY <1>1 DEF WeightsKept, WeightsStale, NoGap, Pending
<1>5. H2vIds'
  BY <1>1, <1>4 DEF H2vIds, InBatch
<1>6. /\ phase' \in BatchPhases \ {"applied", "candidates", "classified", "csr", "mirrored"}
      /\ ~Settled'
  BY DEF InBatch, BatchPhases, Settled
<1>7. /\ IsArena(he)' /\ IsArena(vx)' /\ IsArena(csr)' /\ nodeW' \in [Node -> Nat]
      /\ csr'.row = before'.graph.adj /\ ~csrFull'
  BY DEF BInv, IsArena, InBatch
<1> QED BY <1>2, <1>3, <1>4, <1>5, <1>6, <1>7 DEF BInv, BatchPhases

LEMMA DeleteHyperedgeBatch ==
  ASSUME BInv, NEW h \in Node, DeleteHyperedge(h), UNCHANGED <<deviceVars, escherVars, before>>
  PROVE  BInv'
<1>1. /\ InBatch /\ phase = "heDelete" /\ phase' = "heDelete" /\ InBatch'
      /\ h \in alive \ Virtual /\ alive' = alive \ {h} /\ rows' = [rows EXCEPT ![h] = {}]
      /\ inc' = [Recorded(h, rows[h], -1) EXCEPT !.deleted = @ \cup {h}]
      /\ UNCHANGED <<inserts, maxId, weight>>
  BY DEF DeleteHyperedge, InBatch
<1>2. HInv /\ HInv' /\ HostTypeOK /\ rows \in [Node -> SUBSET Vertex]
  BY <1>1, HostInvOfBatch, DeleteHyperedgeKeeps DEF HInv, HostTypeOK
<1>3. inc'.pre = Touch(h) /\ inc'.new = inc.new /\ inc'.deleted = inc.deleted \cup {h}
  <2> DEFINE rec == Recorded(h, rows[h], -1)
  <2>1. rec \in Record /\ rec.pre = Touch(h) /\ rec.new = inc.new /\ rec.deleted = inc.deleted
    BY <1>2, RecordedType
  <2> HIDE DEF rec
  <2>2. inc' = [rec EXCEPT !.deleted = @ \cup {h}]
    BY <1>1 DEF rec
  <2> QED BY <2>1, <2>2 DEF Record
<1>4. AliveKept'
  <2>1. AliveKept
    BY <1>1 DEF BInv, BatchPhases
  <2>2. before' = before
    OBVIOUS
  <2> QED BY <1>1, <1>3, <2>1, <2>2 DEF AliveKept
<1>5. \A x \in Node : x # h => rows'[x] = rows[x]
  BY <1>1, <1>2
<1> QED BY <1>1, <1>2, <1>3, <1>4, <1>5, OpKeepsRest

LEMMA DeleteVertexBatch ==
  ASSUME BInv, NEW h \in Node, NEW v \in Vertex, DeleteVertex(h, v),
         UNCHANGED <<deviceVars, escherVars, before>>
  PROVE  BInv'
<1>1. /\ InBatch /\ phase' = "vtxDelete" /\ InBatch'
      /\ rows' = [rows EXCEPT ![h] = @ \ {v}] /\ inc' = Recorded(h, {v}, -1)
      /\ UNCHANGED <<inserts, maxId, weight, alive>>
  BY DEF DeleteVertex, InBatch
<1>2. HInv /\ HInv' /\ HostTypeOK /\ rows \in [Node -> SUBSET Vertex]
  BY <1>1, HostInvOfBatch, DeleteVertexKeeps DEF HInv, HostTypeOK
<1>3. inc'.pre = Touch(h) /\ inc'.new = inc.new /\ inc'.deleted = inc.deleted
  BY <1>1, <1>2, RecordedType
<1>4. AliveKept'
  <2>1. AliveKept
    BY <1>1 DEF BInv, BatchPhases, InBatch
  <2>2. before' = before
    OBVIOUS
  <2> QED BY <1>1, <1>3, <2>1, <2>2 DEF AliveKept
<1>5. \A x \in Node : x # h => rows'[x] = rows[x]
  BY <1>1, <1>2
<1> QED BY <1>1, <1>2, <1>3, <1>4, <1>5, OpKeepsRest

LEMMA InsertVertexBatch ==
  ASSUME BInv, NEW h \in Node, NEW v \in Vertex, InsertVertex(h, v),
         UNCHANGED <<deviceVars, escherVars, before>>
  PROVE  BInv'
<1>1. /\ InBatch /\ phase' = "vtxInsert" /\ InBatch'
      /\ rows' = [rows EXCEPT ![h] = @ \cup {v}] /\ inc' = Recorded(h, {v}, 1)
      /\ UNCHANGED <<inserts, maxId, weight, alive>>
  BY DEF InsertVertex, InBatch
<1>2. HInv /\ HInv' /\ HostTypeOK /\ rows \in [Node -> SUBSET Vertex]
  BY <1>1, HostInvOfBatch, InsertVertexKeeps DEF HInv, HostTypeOK
<1>3. inc'.pre = Touch(h) /\ inc'.new = inc.new /\ inc'.deleted = inc.deleted
  BY <1>1, <1>2, RecordedType
<1>4. AliveKept'
  <2>1. AliveKept
    BY <1>1 DEF BInv, BatchPhases, InBatch
  <2>2. before' = before
    OBVIOUS
  <2> QED BY <1>1, <1>3, <2>1, <2>2 DEF AliveKept
<1>5. \A x \in Node : x # h => rows'[x] = rows[x]
  BY <1>1, <1>2
<1> QED BY <1>1, <1>2, <1>3, <1>4, <1>5, OpKeepsRest

\* The ids that are still to come when the first insertion is done.
LEMMA PendingShrinks ==
  ASSUME HostTypeOK, inserts # <<>>, inserts' = Tail(inserts)
  PROVE  /\ Head(inserts).id \in Pending /\ Head(inserts) = inserts[1]
         /\ Pending' \subseteq Pending /\ Pending \subseteq Pending' \cup {Head(inserts).id}
         /\ Head(inserts) \in [id : Node, verts : (SUBSET Vertex) \ {{}}, w : Weights]
         /\ \A i \in DOMAIN inserts' : i + 1 \in DOMAIN inserts /\ inserts'[i] = inserts[i + 1]
<1> DEFINE Ins == [id : Node, verts : (SUBSET Vertex) \ {{}}, w : Weights]
<1>1. inserts \in Seq(Ins)
  BY DEF HostTypeOK
<1> HIDE DEF Ins
<1>2. /\ Len(inserts) \in Nat \ {0} /\ DOMAIN inserts = 1 .. Len(inserts)
      /\ Head(inserts) = inserts[1] /\ Head(inserts) \in Ins
      /\ DOMAIN inserts' = 1 .. Len(inserts) - 1
      /\ \A i \in 1 .. Len(inserts) - 1 : inserts'[i] = inserts[i + 1]
  BY <1>1, HeadTailProperties, LenProperties, EmptySeq
<1>3. ASSUME NEW i \in 1 .. Len(inserts), i # 1
      PROVE  i - 1 \in DOMAIN inserts' /\ inserts'[i - 1] = inserts[i]
  BY <1>2, <1>3
<1>4. Pending \subseteq Pending' \cup {Head(inserts).id}
  <2> SUFFICES ASSUME NEW i \in DOMAIN inserts
               PROVE  inserts[i].id \in Pending' \cup {Head(inserts).id}
    BY DEF Pending
  <2>1. CASE i = 1
    BY <1>2, <2>1
  <2>2. CASE i # 1
    <3>1. i - 1 \in DOMAIN inserts' /\ inserts'[i - 1] = inserts[i]
      BY <1>2, <1>3, <2>2
    <3>2. inserts'[i - 1].id \in Pending'
      BY <3>1 DEF Pending
    <3> QED BY <3>1, <3>2
  <2> QED BY <2>1, <2>2
<1>5. Pending' \subseteq Pending /\ Head(inserts).id \in Pending
  BY <1>2 DEF Pending
<1> QED BY <1>2, <1>4, <1>5 DEF Ins

LEMMA InsertHyperedgeBatch ==
  ASSUME BInv, InsertHyperedge, UNCHANGED <<deviceVars, escherVars, before>>
  PROVE  BInv'
<1> DEFINE new == Head(inserts)
           h == new.id
<1>1. /\ InBatch /\ phase' = "heInsert" /\ InBatch' /\ inserts # <<>> /\ h \notin alive
      /\ inc' = [Recorded(h, new.verts, 1) EXCEPT !.new = @ \cup {h}]
      /\ rows' = [rows EXCEPT ![h] = new.verts] /\ weight' = [weight EXCEPT ![h] = new.w]
      /\ alive' = alive \cup {h} /\ maxId' = IF h < maxId THEN maxId ELSE h + 1
      /\ inserts' = Tail(inserts)
  BY DEF InsertHyperedge, InBatch
<1>2. HInv /\ HInv' /\ HostTypeOK /\ rows \in [Node -> SUBSET Vertex]
  BY <1>1, HostInvOfBatch, InsertHyperedgeKeeps DEF HInv, HostTypeOK
<1>3. /\ h \in Pending /\ Pending' \subseteq Pending /\ Pending \subseteq Pending' \cup {h}
      /\ new \in [id : Node, verts : (SUBSET Vertex) \ {{}}, w : Weights]
  BY <1>1, <1>2, PendingShrinks
<1>4. h \in Node /\ new.verts \in SUBSET Vertex /\ new.w \in Nat \ {0}
  BY <1>3, WeightsAssumption
<1> HIDE DEF new, h
<1>5. inc'.pre = Touch(h) /\ inc'.new = inc.new \cup {h} /\ inc'.deleted = inc.deleted
  <2> DEFINE rec == Recorded(h, new.verts, 1)
  <2>1. rec \in Record /\ rec.pre = Touch(h) /\ rec.new = inc.new /\ rec.deleted = inc.deleted
    BY <1>2, <1>4, RecordedType
  <2> HIDE DEF rec
  <2>2. inc' = [rec EXCEPT !.new = @ \cup {h}]
    BY <1>1 DEF rec
  <2> QED BY <2>1, <2>2 DEF Record
<1>6. /\ he' = he /\ vx' = vx /\ csr' = csr /\ nodeW' = nodeW /\ csrFull' = csrFull
      /\ h2v' = h2v /\ before' = before
  BY DEF deviceVars, mirrorVars, deltaVars, csrVars, escherVars
<1>7. /\ RowsMirrorOld /\ ListsMirrorOld /\ WeightsKept /\ WeightsStale /\ NoGap /\ H2vIds /\ AliveKept
      /\ phase # "failed" /\ Virtual \subseteq alive /\ inc.new \subseteq Node
  BY <1>1, <1>2 DEF BInv, HInv, InBatch, BatchPhases, IncidenceConsistent, AliveKept
<1>8. HostFacts' /\ NetIsDifference'
  BY <1>2, HostFactsOfHost DEF HInv, HostFacts, HostTypeOK, Record
<1>9. RowsMirrorOld' /\ ListsMirrorOld'
  <2>1. \A x \in Node : x # h => rows'[x] = rows[x]
    BY <1>1, <1>2
  <2> QED BY <1>2, <1>4, <1>5, <1>6, <1>7, <2>1, TouchMirrors DEF ListsMirrorOld
<1>10. /\ maxId \in Nat /\ maxId' \in Nat /\ h \in Nat /\ h < maxId' /\ maxId <= maxId'
       /\ maxId' = maxId \/ maxId' = h + 1
  BY <1>1, <1>2, <1>4, NAssumption DEF HostTypeOK, Node
<1>11. AliveKept'
  BY <1>1, <1>4, <1>5, <1>6, <1>7 DEF AliveKept
<1>gap. ASSUME NEW x \in Node \ Pending, x < maxId' PROVE x < maxId
  BY <1>gap, <1>3, <1>4, <1>7, <1>10 DEF NoGap, Node
<1>12. WeightsKept'
  <2> SUFFICES ASSUME NEW x \in Node \ Pending'
               PROVE  IF x \in inc'.new THEN x < maxId' /\ weight'[x] # 0
                      ELSE /\ x < maxId' => (weight'[x] = 0 <=> x \in Virtual)
                           /\ before'.graph.w[x] = IF x < maxId' THEN weight'[x] ELSE 1
    BY DEF WeightsKept
  <2>1. CASE x = h
    BY <1>1, <1>2, <1>4, <1>5, <1>10, <2>1 DEF HostTypeOK
  <2>2. CASE x # h
    <3>1. x \in Node \ Pending /\ weight'[x] = weight[x] /\ (x \in inc'.new <=> x \in inc.new)
      BY <1>1, <1>2, <1>3, <1>5, <2>2 DEF HostTypeOK
    <3>2. x < maxId' <=> x < maxId
      BY <1>gap, <1>10, <3>1, NAssumption DEF Node
    <3>3. IF x \in inc.new THEN x < maxId /\ weight[x] # 0
          ELSE /\ x < maxId => (weight[x] = 0 <=> x \in Virtual)
               /\ before.graph.w[x] = IF x < maxId THEN weight[x] ELSE 1
      BY <1>7, <3>1 DEF WeightsKept
    <3> QED BY <1>6, <3>1, <3>2, <3>3
  <2> QED BY <2>1, <2>2
<1>13. WeightsStale'
  <2> SUFFICES ASSUME NEW x \in Node \ (inc'.new \cup Pending'), x < maxId'
               PROVE  nodeW'[x] = weight'[x]
    BY DEF WeightsStale
  <2>1. x # h /\ x \in Node \ (inc.new \cup Pending)
    BY <1>3, <1>5
  <2>2. x < maxId
    BY <1>gap, <2>1
  <2>3. weight'[x] = weight[x]
    BY <1>1, <1>2, <2>1 DEF HostTypeOK
  <2> QED BY <1>6, <1>7, <2>1, <2>2, <2>3 DEF WeightsStale
<1>14. NoGap'
  <2> SUFFICES ASSUME NEW x \in Node, NEW p \in Pending', maxId' <= x, x < p
               PROVE  x \in Pending'
    BY DEF NoGap
  <2>1. x \in Pending
    <3>1. maxId <= x /\ p \in Pending
      BY <1>3, <1>10 DEF Node
    <3> QED BY <1>7, <3>1 DEF NoGap
  <2>2. x # h
    BY <1>10, NAssumption DEF Node
  <2> QED BY <1>3, <2>1, <2>2
<1>15. H2vIds'
  <2>1. Source \in DOMAIN h2v /\ DOMAIN h2v \subseteq {x \in Node : x < maxId} \cup Pending
    BY <1>7 DEF H2vIds
  <2>2. \A x \in Node : x < maxId => x < maxId'
    BY <1>10, NAssumption DEF Node
  <2> QED BY <1>1, <1>3, <1>4, <1>6, <1>10, <2>1, <2>2 DEF H2vIds
<1>16. /\ phase' \in BatchPhases \ {"applied", "candidates", "classified", "csr", "mirrored"}
       /\ ~Settled'
  BY <1>1 DEF InBatch, BatchPhases, Settled
<1>17. /\ IsArena(he)' /\ IsArena(vx)' /\ IsArena(csr)' /\ nodeW' \in [Node -> Nat]
       /\ csr'.row = before'.graph.adj /\ ~csrFull'
  BY <1>1, <1>6 DEF BInv, IsArena
<1> QED BY <1>1, <1>8, <1>9, <1>11, <1>12, <1>13, <1>14, <1>15, <1>16, <1>17 DEF BInv, BatchPhases

(***************************************************************************)
(* The ids of new hyperedges leave no gap above the ids in use.            *)
(***************************************************************************)
LEMMA LargestFacts ==
  ASSUME NEW n \in Nat, NEW S \in SUBSET (0 .. n), S # {}
  PROVE  Largest(S) \in S /\ \A y \in S : y <= Largest(S)
<1>1. \E x \in S : \A y \in S : y <= x
  <2> DEFINE T == {n - x : x \in S}
  <2>0. \A x \in S : n - x \in Nat
    OBVIOUS
  <2>1. T \in SUBSET Nat /\ T # {}
    BY <2>0
  <2>2. PICK m \in T : \A y \in T : m <= y
    BY <2>1, LeastNatural
  <2>3. PICK x \in S : m = n - x
    BY <2>2
  <2>4. \A y \in S : n - x <= n - y
    BY <2>2, <2>3
  <2> QED BY <2>4
<1> QED BY <1>1 DEF Largest

\* The ranks of a finite set of positions are 1, 2, ... without a gap.
LEMMA RankFacts ==
  ASSUME NEW k \in Nat, NEW S \in SUBSET (1 .. k), NEW i \in S
  PROVE  /\ Cardinality({j \in S : j <= i}) \in Nat \ {0}
         /\ Cardinality({j \in S : j <= i}) # 1 =>
              \E m \in S : Cardinality({j \in S : j <= m}) = Cardinality({j \in S : j <= i}) - 1
<1> DEFINE L == {j \in S : j < i}
           UpTo(m) == {j \in S : j <= m}
<1>0. \A j \in S : j \in Nat /\ j <= k
  OBVIOUS
<1>1. IsFiniteSet(L) /\ Cardinality(L) \in Nat
  <2>1. IsFiniteSet(1 .. k)
    <3>1. 1 \in Int /\ k \in Int
      OBVIOUS
    <3> QED BY <3>1, FS_Interval
  <2>2. L \in SUBSET (1 .. k)
    OBVIOUS
  <2>3. IsFiniteSet(L)
    BY <2>1, <2>2, FS_Subset
  <2> QED BY <2>3, FS_CardinalityType
<1>2. UpTo(i) = L \cup {i} /\ i \notin L
  <2>1. ASSUME NEW j \in S
        PROVE  (j <= i <=> j < i \/ j = i) /\ ~(i < i)
    <3>1. i \in Nat /\ j \in Nat
      BY <1>0
    <3> QED BY <3>1
  <2>2. \A x : x \in UpTo(i) <=> x \in L \cup {i}
    BY <2>1
  <2>3. i \notin L
    BY <2>1
  <2> HIDE DEF L, UpTo
  <2> QED BY <2>2, <2>3
<1>3. Cardinality(UpTo(i)) = Cardinality(L) + 1
  BY <1>1, <1>2, FS_AddElement
<1>4. ASSUME Cardinality(L) # 0
      PROVE  \E m \in S : Cardinality(UpTo(m)) = Cardinality(L)
  <2>1. L # {} /\ L \in SUBSET (0 .. k)
    <3>1. L # {}
      BY <1>4, FS_EmptySet
    <3>2. \A j \in L : j \in 0 .. k
      BY <1>0
    <3> HIDE DEF L
    <3> QED BY <3>1, <3>2
  <2>2. Largest(L) \in L /\ \A y \in L : y <= Largest(L)
    BY <2>1, LargestFacts
  <2>3. ASSUME NEW j \in S PROVE j <= Largest(L) <=> j < i
    <3>1. /\ j \in Nat /\ i \in Nat /\ Largest(L) \in Nat /\ Largest(L) < i
          /\ j < i => j <= Largest(L)
      BY <1>0, <2>2
    <3> QED BY <3>1
  <2>4. UpTo(Largest(L)) = L
    BY <2>3
  <2> QED BY <2>2, <2>4
<1>5. UpTo(i) = {j \in S : j <= i} /\ \A m : UpTo(m) = {j \in S : j <= m}
  OBVIOUS
<1> HIDE DEF L, UpTo
<1>6. Cardinality(UpTo(i)) \in Nat \ {0} /\ (Cardinality(UpTo(i)) # 1 =>
         \E m \in S : Cardinality(UpTo(m)) = Cardinality(UpTo(i)) - 1)
  BY <1>1, <1>3, <1>4
<1> QED BY <1>5, <1>6

LEMMA InsertionsAreSequences ==
  ASSUME NEW s \in Insertions
  PROVE  /\ s \in Seq([id : Node, verts : (SUBSET Vertex) \ {{}}, w : Weights])
         /\ \E k \in Nat : DOMAIN s = 1 .. k
         /\ \A i \in DOMAIN s : s[i].id \in Node /\ s[i].verts \in SUBSET Vertex
         /\ \A i, j \in DOMAIN s : s[i].id = s[j].id => i = j
<1> DEFINE Ins == [id : Node, verts : (SUBSET Vertex) \ {{}}, w : Weights]
<1>1. PICK k \in 0 .. MaxInserts : s \in [1 .. k -> Ins]
  BY DEF Insertions, InsertionsWith
<1>2. k \in Nat /\ \A i, j \in DOMAIN s : s[i].id = s[j].id => i = j
  BY <1>1, HostBoundsAssumption DEF Insertions, InsertionsWith
<1>3. \A i \in DOMAIN s : s[i] \in Ins
  BY <1>1
<1>4. \A i \in DOMAIN s : s[i].id \in Node /\ s[i].verts \in SUBSET Vertex
  BY <1>3
<1> HIDE DEF Ins
<1>5. s \in Seq(Ins)
  BY <1>1, <1>2
<1> QED BY <1>1, <1>2, <1>4, <1>5 DEF Ins

LEMMA AdoptedIds ==
  ASSUME HostFacts, H2vIds, phase = "idle", NEW s \in Insertions, AdoptedByH2v(s)
  PROVE  /\ \A i \in DOMAIN s : s[i].id \notin DOMAIN h2v
         /\ \A h \in Node : \A i \in DOMAIN s : maxId <= h /\ h < s[i].id => \E j \in DOMAIN s : s[j].id = h
<1>1. PICK k \in Nat : DOMAIN s = 1 .. k
  BY InsertionsAreSequences
<1>2. \A i \in DOMAIN s : s[i].id \in Node
  BY InsertionsAreSequences
<1>3. Source \in DOMAIN h2v /\ DOMAIN h2v \subseteq {h \in Node : h < maxId} /\ maxId \in 0 .. N /\ N \in Nat
  <2>1. inserts = <<>>
    BY DEF H2vIds, InBatch
  <2>2. Pending = {}
    BY <2>1 DEF Pending
  <2> QED BY <2>2, NAssumption DEF H2vIds, HostFacts
<1>4. PICK reused \in SUBSET DOMAIN s :
        /\ \A i \in reused : s[i].id < maxId /\ s[i].id \notin DOMAIN h2v
        /\ LET top == Largest(DOMAIN h2v \cup {s[i].id : i \in reused})
               surplus == DOMAIN s \ reused
           IN  \A i \in surplus : s[i].id = top + Cardinality({j \in surplus : j <= i})
  BY DEF AdoptedByH2v
<1> DEFINE used == DOMAIN h2v \cup {s[i].id : i \in reused}
           top == Largest(used)
           surplus == DOMAIN s \ reused
           rank(i) == Cardinality({j \in surplus : j <= i})
<1>5. used \in SUBSET (0 .. N) /\ used # {} /\ \A x \in used : x < maxId
  BY <1>2, <1>3, <1>4 DEF Node
<1>6. top \in used /\ \A x \in used : x <= top
  BY <1>3, <1>5, LargestFacts
<1>7. top \in Nat /\ top < maxId
  BY <1>5, <1>6
<1>8. \A i \in surplus : s[i].id = top + rank(i)
  BY <1>4
<1>9. \A i \in surplus : rank(i) \in Nat \ {0} /\ (rank(i) # 1 => \E m \in surplus : rank(m) = rank(i) - 1)
  BY <1>1, RankFacts
<1> HIDE DEF top, rank
<1>10. \A i \in DOMAIN s : s[i].id \notin DOMAIN h2v
  <2> SUFFICES ASSUME NEW i \in surplus PROVE s[i].id \notin DOMAIN h2v
    BY <1>4
  <2>1. s[i].id > top
    BY <1>7, <1>8, <1>9
  <2>2. \A x \in DOMAIN h2v : x \in used /\ x <= top /\ x \in Nat
    BY <1>5, <1>6
  <2> QED BY <1>7, <2>1, <2>2
<1>11. ASSUME NEW h \in Node, NEW i \in DOMAIN s, maxId <= h, h < s[i].id
       PROVE  \E j \in DOMAIN s : s[j].id = h
  <2> SUFFICES ASSUME \A j \in DOMAIN s : s[j].id # h PROVE FALSE
    OBVIOUS
  <2> DEFINE above == {x \in Nat : x > h /\ \E j \in surplus : s[j].id = x}
  <2>1. h \in Nat /\ maxId \in Nat /\ s[i].id \in Nat
    BY <1>2, <1>3 DEF Node
  <2>2. i \in surplus
    BY <1>4, <1>11, <2>1
  <2>3. above \in SUBSET Nat /\ above # {}
    BY <1>11, <2>1, <2>2
  <2>4. PICK x \in above : \A y \in above : x <= y
    BY <2>3, LeastNatural
  <2>5. PICK j \in surplus : s[j].id = x
    BY <2>4
  <2>6. x = top + rank(j) /\ rank(j) \in Nat /\ rank(j) # 1
    BY <1>7, <1>8, <1>9, <1>11, <2>1, <2>4, <2>5
  <2>7. PICK m \in surplus : rank(m) = rank(j) - 1
    BY <1>9, <2>6
  <2>8. s[m].id = x - 1
    BY <1>7, <1>8, <2>6, <2>7
  <2>9. x - 1 # h /\ x - 1 \in Nat /\ x - 1 > h
    BY <2>1, <2>4, <2>8
  <2>10. x - 1 \in above
    BY <2>8, <2>9
  <2> QED BY <2>4, <2>10
<1> QED BY <1>10, <1>11

(***************************************************************************)
(* A batch begins.                                                         *)
(***************************************************************************)
LEMMA AdoptedInsertionsInNode ==
  ASSUME NEW s \in AdoptedInsertions, \A i \in DOMAIN s : s[i].id \in Node
  PROVE  s \in Insertions /\ AdoptedByH2v(s)
<1> DEFINE Free == [id : 0 .. N + MaxInserts - 1, verts : (SUBSET Vertex) \ {{}}, w : Weights]
           Ins == [id : Node, verts : (SUBSET Vertex) \ {{}}, w : Weights]
<1>1. AdoptedByH2v(s) /\ \A i, j \in DOMAIN s : s[i].id = s[j].id => i = j
  BY DEF AdoptedInsertions, InsertionsWith
<1>2. PICK k \in 0 .. MaxInserts : s \in [1 .. k -> Free]
  BY DEF AdoptedInsertions, InsertionsWith
<1>3. \A i \in 1 .. k : s[i] \in Ins
  BY <1>2
<1>4. s \in [1 .. k -> Ins]
  <2> HIDE DEF Free, Ins
  <2> QED BY <1>2, <1>3
<1> QED BY <1>1, <1>4 DEF Insertions, InsertionsWith

\* The graph on the device between batches.
LEMMA SettledGraph ==
  ASSUME AllMirrored, HostFacts
  PROVE  /\ DeviceGraph.live = alive /\ DeviceGraph.adj = Adjacent(rows)
         /\ \A h \in Node : DeviceGraph.w[h] = IF h < maxId THEN weight[h] ELSE 1
BY DEF DeviceGraph, AllMirrored, WeightsFresh

\* The lists are those of the rows.
LEMMA ListsOfRows ==
  ASSUME HostFacts
  PROVE  v2h = [v \in Vertex |-> {h \in Node : v \in rows[h]}]
BY DEF HostFacts, IncidenceConsistent

LEMMA BeginBatchKeeps ==
  ASSUME BInv, phase = "idle", NEW s \in AdoptedInsertions, BeginBatch(s)
  PROVE  BInv'
<1>1. /\ \A i \in DOMAIN s : s[i].id \in Node
      /\ HostBegin(s) /\ h2v' = H2vWith(s)
      /\ before' = [graph |-> DeviceGraph, delta |-> delta]
      /\ he' = he /\ vx' = vx /\ csr' = csr /\ nodeW' = nodeW /\ csrFull' = csrFull
      /\ UNCHANGED incidenceVars /\ inserts' = s /\ inc' = NoChanges /\ phase' = "heDelete"
  BY DEF BeginBatch, HostBegin, deviceVars, mirrorVars, deltaVars, csrVars
<1>2. s \in Insertions /\ AdoptedByH2v(s)
  BY <1>1, AdoptedInsertionsInNode
<1>3. HostFacts /\ H2vIds /\ AllMirrored /\ Settled /\ inserts = <<>>
  BY DEF BInv, Settled, H2vIds, InBatch
<1>4. HInv
  BY <1>3 DEF HostFacts, HInv, HostTypeOK, NetIsDifference, InBatch, Record
<1>5. HInv'
  BY <1>1, <1>2, <1>4, BeginKeeps
<1>6. HostFacts' /\ NetIsDifference'
  BY <1>5, HostFactsOfHost DEF HInv, HostFacts, HostTypeOK, Record
<1>7. Pending' = {s[i].id : i \in DOMAIN s}
  BY <1>1 DEF Pending
<1>8. NoGap'
  BY <1>1, <1>2, <1>3, <1>7, AdoptedIds DEF NoGap, incidenceVars
<1>9. /\ Touched' = {} /\ inc'.new = {} /\ inc'.deleted = {}
  BY <1>1 DEF NoChanges, Touched
<1>10. /\ before'.graph.live = alive /\ before'.graph.adj = Adjacent(rows)
       /\ \A h \in Node : before'.graph.w[h] = IF h < maxId THEN weight[h] ELSE 1
       /\ csr.row = Adjacent(rows) /\ ~csrFull
  BY <1>1, <1>3, SettledGraph DEF AllMirrored
<1>11. AliveKept'
  BY <1>1, <1>9, <1>10 DEF AliveKept, incidenceVars
<1>12. WeightsKept' /\ WeightsStale'
  <2>1. /\ \A h \in Node : h < maxId => nodeW[h] = weight[h]
        /\ \A h \in Node : h < maxId => (weight[h] = 0 <=> h \in Virtual)
    BY <1>3 DEF AllMirrored, WeightsFresh
  <2> QED BY <1>1, <1>9, <1>10, <2>1 DEF WeightsKept, WeightsStale, incidenceVars
<1>13. RowsMirrorOld' /\ ListsMirrorOld'
  <2>1. he.row = rows /\ vx.row = v2h /\ rows \in [Node -> SUBSET Vertex]
    BY <1>3 DEF AllMirrored, HostFacts
  <2>2. RowsMirrorOld'
    BY <1>1, <1>9, <1>10, <2>1 DEF RowsMirrorOld, PreRow, PostRow, incidenceVars
  <2>3. ListsMirrorOld'
    BY <1>1, <1>3, <2>1, ListsOfRows DEF ListsMirrorOld
  <2> QED BY <2>2, <2>3
<1>14. H2vIds'
  <2>1. Source \in DOMAIN h2v /\ DOMAIN h2v \subseteq {h \in Node : h < maxId}
    BY <1>3 DEF H2vIds, Pending
  <2>2. DOMAIN h2v' = DOMAIN h2v \cup Pending'
    BY <1>1, <1>7 DEF H2vWith
  <2> QED BY <1>1, <2>1, <2>2 DEF H2vIds, InBatch, incidenceVars
<1>15. /\ phase' \in BatchPhases \ {"applied", "candidates", "classified", "csr", "mirrored"}
       /\ ~Settled' /\ InBatch'
  BY <1>1 DEF InBatch, BatchPhases, Settled
<1>16. /\ IsArena(he)' /\ IsArena(vx)' /\ IsArena(csr)' /\ nodeW' \in [Node -> Nat]
       /\ csr'.row = before'.graph.adj /\ ~csrFull'
  BY <1>1, <1>10 DEF BInv, IsArena
<1> QED BY <1>1, <1>6, <1>8, <1>11, <1>12, <1>13, <1>14, <1>15, <1>16 DEF BInv, BatchPhases

\* Nothing but h2v changes when beginBatch throws.
LEMMA BeginBatchThrowsKeeps ==
  ASSUME BInv, phase = "idle", NEW s \in AdoptedInsertions, BeginBatchThrows(s)
  PROVE  BInv' /\ DeviceGraph' = DeviceGraph
<1>1. /\ phase' = "failed" /\ UNCHANGED <<incidenceVars, inserts, recordVars, hostBatches>>
      /\ he' = he /\ vx' = vx /\ csr' = csr /\ nodeW' = nodeW /\ csrFull' = csrFull
  BY DEF BeginBatchThrows, deviceVars, mirrorVars, deltaVars, csrVars
<1>2. HostFacts /\ H2vIds /\ AllMirrored /\ IsArena(he) /\ IsArena(vx) /\ IsArena(csr) /\ nodeW \in [Node -> Nat]
  BY DEF BInv, Settled
<1>3. HostFacts'
  BY <1>1, <1>2, HostFactsStill
<1>4. H2vIds'
  BY <1>1, <1>2 DEF H2vIds, InBatch
<1>5. AllMirrored'
  BY <1>1, <1>2 DEF AllMirrored, WeightsFresh, incidenceVars
<1>6. IsArena(he)' /\ IsArena(vx)' /\ IsArena(csr)' /\ nodeW' \in [Node -> Nat]
  BY <1>1, <1>2 DEF IsArena
<1>7. phase' \notin BatchPhases /\ ~InBatch'
  BY <1>1 DEF BatchPhases, InBatch
<1> QED BY <1>1, <1>3, <1>4, <1>5, <1>6, <1>7 DEF BInv, DeviceGraph, incidenceVars

\* Everything is applied on the host.
LEMMA HostDoneBatch ==
  ASSUME BInv, HostDone("applied"), UNCHANGED <<deviceVars, escherVars, before>>
  PROVE  BInv'
<1>1. /\ InBatch /\ phase' = "applied" /\ inserts = <<>>
      /\ UNCHANGED <<incidenceVars, inserts, recordVars, hostBatches>>
      /\ he' = he /\ vx' = vx /\ csr' = csr /\ nodeW' = nodeW /\ csrFull' = csrFull
      /\ h2v' = h2v /\ before' = before /\ inc' = inc /\ rows' = rows
  BY DEF HostDone, InBatch, deviceVars, mirrorVars, deltaVars, csrVars, escherVars, recordVars, incidenceVars
<1>2. /\ HostFacts /\ RowsMirrorOld /\ ListsMirrorOld /\ WeightsKept /\ WeightsStale /\ H2vIds /\ AliveKept
      /\ NetIsDifference /\ phase # "failed"
  BY <1>1 DEF BInv, InBatch, BatchPhases
<1>3. HostFacts'
  BY <1>1, <1>2, HostFactsStill
<1>4. NetMirrors
  <2> SUFFICES ASSUME NEW v \in Vertex, NEW h \in Node
               PROVE  inc.net[<<v, h>>] = Member(v, rows[h]) - Member(v, he.row[h])
    BY DEF NetMirrors
  <2>1. PreRow(h) = he.row[h] /\ PostRow(h) = rows[h]
    BY <1>2 DEF RowsMirrorOld
  <2>2. IF h \in Touched THEN inc.net[<<v, h>>] = Member(v, rows[h]) - Member(v, inc.pre[h])
                         ELSE inc.net[<<v, h>>] = 0
    BY <1>1, <1>2 DEF NetIsDifference
  <2> QED BY <2>1, <2>2 DEF PreRow, PostRow, Member
<1>5. RowsMirrorOld' /\ ListsMirrorOld' /\ NetMirrors'
  BY <1>1, <1>2, <1>4 DEF RowsMirrorOld, ListsMirrorOld, NetMirrors, PreRow, PostRow, Touched
<1>6. WeightsKept' /\ WeightsStale' /\ AliveKept'
  BY <1>1, <1>2 DEF WeightsKept, WeightsStale, AliveKept, Pending, incidenceVars, InBatch
<1>7. H2vIds'
  BY <1>1, <1>2 DEF H2vIds, Pending, incidenceVars
<1>8. phase' \in BatchPhases /\ ~Settled' /\ ~InBatch'
  BY <1>1 DEF InBatch, BatchPhases, Settled
<1>9. /\ IsArena(he)' /\ IsArena(vx)' /\ IsArena(csr)' /\ nodeW' \in [Node -> Nat]
      /\ csr'.row = before'.graph.adj /\ ~csrFull'
  BY <1>1 DEF BInv, IsArena
<1> QED BY <1>1, <1>3, <1>5, <1>6, <1>7, <1>8, <1>9 DEF BInv

-----------------------------------------------------------------------------
(***************************************************************************)
(* The steps on the device.                                                *)
(***************************************************************************)

\* Rows that move keep their contents; the contents are then replaced.
LEMMA ArenaFacts ==
  ASSUME NEW a, IsArena(a), NEW slots, NEW r
  PROVE  /\ Moved(a, slots).row = a.row
         /\ IsArena([Moved(a, slots) EXCEPT !.row = r])
         /\ [Moved(a, slots) EXCEPT !.row = r].row = r
<1> DEFINE off == [k \in DOMAIN a.off |-> IF k \in DOMAIN slots THEN SlotStart(slots, a.tail, k) ELSE a.off[k]]
           cap == [k \in DOMAIN a.cap |-> IF k \in DOMAIN slots THEN slots[k] ELSE a.cap[k]]
           tail == a.tail + TotalOf(slots)
<1>1. Moved(a, slots) = [a EXCEPT !.off = off, !.cap = cap, !.tail = tail]
  BY DEF Moved, IsArena
<1> HIDE DEF off, cap, tail
<1>2. Moved(a, slots) = [off |-> off, cap |-> cap, row |-> a.row, tail |-> tail, capacity |-> a.capacity]
  BY <1>1 DEF IsArena
<1>3. [Moved(a, slots) EXCEPT !.row = r] =
        [off |-> off, cap |-> cap, row |-> r, tail |-> tail, capacity |-> a.capacity]
  BY <1>2
<1> QED BY <1>2, <1>3 DEF IsArena

LEMMA LayOutFacts ==
  ASSUME NEW r, NEW slots, NEW room
  PROVE  IsArena(LayOut(r, slots, room)) /\ LayOut(r, slots, room).row = r
BY DEF IsArena, LayOut

\* Once more what no step on the device changes.
LEMMA DeviceStep ==
  ASSUME BInv, ~InBatch, UNCHANGED <<incidenceVars, inserts, recordVars, hostBatches, h2v, before>>,
         phase # "failed", phase' \in BatchPhases, ~InBatch', phase \in BatchPhases
  PROVE  /\ HostFacts' /\ H2vIds' /\ AliveKept' /\ WeightsKept' /\ ~Settled' /\ Pending = {}
         /\ rows' = rows /\ v2h' = v2h /\ inc' = inc /\ alive' = alive
<1>1. HostFacts /\ H2vIds /\ AliveKept /\ WeightsKept
  BY DEF BInv
<1>2. HostFacts'
  BY <1>1, HostFactsStill
<1>3. H2vIds' /\ Pending = {}
  BY <1>1 DEF H2vIds, Pending, incidenceVars
<1>4. AliveKept' /\ WeightsKept'
  BY <1>1 DEF AliveKept, WeightsKept, Pending, incidenceVars, recordVars, InBatch
<1>5. ~Settled'
  BY DEF Settled, BatchPhases
<1> QED BY <1>2, <1>3, <1>4, <1>5 DEF incidenceVars, recordVars

LEMMA FindCandidatesKeeps ==
  ASSUME BInv, FindCandidates
  PROVE  BInv'
<1>1. /\ phase = "applied" /\ phase' = "candidates" /\ ~InBatch /\ ~InBatch'
      /\ phase \in BatchPhases /\ phase' \in BatchPhases
      /\ UNCHANGED <<incidenceVars, inserts, recordVars, hostBatches, h2v, before>>
      /\ vx' = PatchedVertexRows /\ cand' = CandidatesOf(vx.row) \cup CandidatesOf(vx'.row)
      /\ he' = he /\ csr' = csr /\ nodeW' = nodeW /\ csrFull' = csrFull
  BY DEF FindCandidates, InBatch, BatchPhases, csrVars, escherVars
<1>2. /\ HostFacts' /\ H2vIds' /\ AliveKept' /\ WeightsKept' /\ ~Settled' /\ Pending = {}
      /\ rows' = rows /\ v2h' = v2h /\ inc' = inc /\ alive' = alive
  BY <1>1, DeviceStep
<1>3. /\ HostFacts /\ RowsMirrorOld /\ ListsMirrorOld /\ NetMirrors /\ WeightsStale /\ IsArena(vx)
      /\ rows \in [Node -> SUBSET Vertex] /\ he.row \in [Node -> SUBSET Vertex]
  BY <1>1 DEF BInv, HostFacts, RowsMirrorOld
<1>4. /\ vx.row \in [Vertex -> SUBSET Node]
      /\ \A v \in Vertex, h \in Node : h \in vx.row[v] <=> v \in he.row[h]
  BY <1>3 DEF ListsMirrorOld
<1>5. /\ v2h \in [Vertex -> SUBSET Node]
      /\ \A v \in Vertex, h \in Node : h \in v2h[v] <=> v \in rows[h]
  BY <1>3 DEF HostFacts, IncidenceConsistent
<1>6. \A v \in Vertex, h \in Node :
        /\ inc.net[<<v, h>>] > 0 <=> v \in rows[h] /\ v \notin he.row[h]
        /\ inc.net[<<v, h>>] < 0 <=> v \notin rows[h] /\ v \in he.row[h]
        /\ inc.net[<<v, h>>] # 0 <=> (v \in rows[h] <=> v \notin he.row[h])
  <2> SUFFICES ASSUME NEW v \in Vertex, NEW h \in Node
               PROVE  /\ inc.net[<<v, h>>] > 0 <=> v \in rows[h] /\ v \notin he.row[h]
                      /\ inc.net[<<v, h>>] < 0 <=> v \notin rows[h] /\ v \in he.row[h]
                      /\ inc.net[<<v, h>>] # 0 <=> (v \in rows[h] <=> v \notin he.row[h])
    OBVIOUS
  <2>1. inc.net[<<v, h>>] = (IF v \in rows[h] THEN 1 ELSE 0) - (IF v \in he.row[h] THEN 1 ELSE 0)
    BY <1>3 DEF NetMirrors, Member
  <2> QED BY <2>1
<1>7. IsArena(vx') /\ vx'.row = v2h
  <2> DEFINE moving == Outgrown(vx, inc.vertices, [v \in Vertex |-> Cardinality(v2h[v])], VertexSlot)
             new == [v \in Vertex |-> (vx.row[v] \ Lost(v)) \cup Gained(v)]
  <2>1. new = v2h
    <3>1. \A v \in Vertex : (vx.row[v] \ Lost(v)) \cup Gained(v) = v2h[v]
      <4> SUFFICES ASSUME NEW v \in Vertex PROVE (vx.row[v] \ Lost(v)) \cup Gained(v) = v2h[v]
        OBVIOUS
      <4>1. /\ \A h \in Node : h \in Lost(v) <=> v \notin rows[h] /\ v \in he.row[h]
            /\ \A h \in Node : h \in Gained(v) <=> v \in rows[h] /\ v \notin he.row[h]
            /\ Lost(v) \subseteq Node /\ Gained(v) \subseteq Node
        BY <1>6 DEF Lost, Gained
      <4> QED BY <1>4, <1>5, <4>1
    <3> QED BY <1>5, <3>1
  <2>2. CASE RoomFor(vx, moving)
    <3>1. vx' = [Moved(vx, moving) EXCEPT !.row = [v \in Vertex |-> (Moved(vx, moving).row[v] \ Lost(v)) \cup Gained(v)]]
      BY <1>1, <2>2 DEF PatchedVertexRows
    <3>2. Moved(vx, moving).row = vx.row
      BY <1>3, ArenaFacts
    <3>3. vx' = [Moved(vx, moving) EXCEPT !.row = new]
      BY <3>1, <3>2
    <3> HIDE DEF moving, new
    <3>4. IsArena(vx') /\ vx'.row = new
      BY <1>3, <3>3, ArenaFacts
    <3> QED BY <2>1, <3>4
  <2>3. CASE ~RoomFor(vx, moving)
    <3>1. vx' = LayOut(v2h, VertexSlots(v2h), Room)
      BY <1>1, <2>3 DEF PatchedVertexRows
    <3> QED BY <3>1, LayOutFacts
  <2> QED BY <2>2, <2>3
<1>8. Complete'
  <2>1. cand' = CandidatesOf(vx.row) \cup CandidatesOf(v2h)
    BY <1>1, <1>7
  <2>2. ASSUME NEW p \in cand' PROVE p \in {e \in Node \X Node : e[1] < e[2]}
    <3>1. PICK lists \in {vx.row, v2h} : p \in CandidatesOf(lists)
      BY <2>1, <2>2
    <3>lists. lists \in [Vertex -> SUBSET Node]
      BY <1>4, <1>5
    <3>some. p \in CandidatesOf(lists) <=>
               \E v \in Vertex, h \in Node : inc.net[<<v, h>>] # 0 /\ \E o \in lists[v] \ {h} : p = Pair(h, o)
      BY <3>lists, CandidateFacts
    <3>pick. PICK v \in Vertex, h \in Node : inc.net[<<v, h>>] # 0 /\ \E o \in lists[v] \ {h} : p = Pair(h, o)
      BY <3>1, <3>some
    <3>2. PICK o \in lists[v] \ {h} : p = Pair(h, o)
      BY <3>pick
    <3>3. o \in Node /\ o # h
      BY <1>4, <1>5, <3>1, <3>2
    <3> QED BY <3>2, <3>3, PairFacts
  <2>3. ASSUME NEW a \in Node, NEW b \in Node, NEW v \in Vertex, a # b, inc.net[<<v, a>>] # 0,
               v \in rows[b] \/ v \in he.row[b]
        PROVE  Pair(a, b) \in cand'
    <3>1. CASE v \in rows[b]
      <4>1. b \in v2h[v] \ {a}
        BY <1>5, <2>3, <3>1
      <4>2. Pair(a, b) \in CandidatesOf(v2h)
        BY <1>5, <2>3, <4>1, CandidateFacts
      <4> QED BY <2>1, <4>2
    <3>2. CASE v \in he.row[b]
      <4>1. b \in vx.row[v] \ {a}
        BY <1>4, <2>3, <3>2
      <4>2. Pair(a, b) \in CandidatesOf(vx.row)
        BY <1>4, <2>3, <4>1, CandidateFacts
      <4> QED BY <2>1, <4>2
    <3> QED BY <2>3, <3>1, <3>2
  <2>4. ASSUME NEW a \in Node, NEW b \in Node, a < b,
               ~(rows[a] \cap rows[b] # {} <=> he.row[a] \cap he.row[b] # {})
        PROVE  <<a, b>> \in cand'
    <3>1. a # b /\ Pair(a, b) = <<a, b>> /\ Pair(b, a) = <<a, b>>
      BY <2>4, NAssumption DEF Pair, Node
    <3>2. CASE rows[a] \cap rows[b] # {}
      <4>1. PICK v \in rows[a] \cap rows[b] : v \notin he.row[a] \/ v \notin he.row[b]
        BY <2>4, <3>2
      <4>2. v \in Vertex
        BY <1>3, <4>1
      <4>3. inc.net[<<v, a>>] # 0 \/ inc.net[<<v, b>>] # 0
        BY <1>6, <4>1, <4>2
      <4> QED BY <2>3, <3>1, <4>1, <4>2, <4>3
    <3>3. CASE he.row[a] \cap he.row[b] # {}
      <4>1. PICK v \in he.row[a] \cap he.row[b] : v \notin rows[a] \/ v \notin rows[b]
        BY <2>4, <3>3
      <4>2. v \in Vertex
        BY <1>3, <4>1
      <4>3. inc.net[<<v, a>>] # 0 \/ inc.net[<<v, b>>] # 0
        BY <1>6, <4>1, <4>2
      <4> QED BY <2>3, <3>1, <4>1, <4>2, <4>3
    <3> QED BY <2>4, <3>2, <3>3
  <2>5. ASSUME NEW p \in Gain(Adjacent(he.row), Adjacent(rows)) \cup Gain(Adjacent(rows), Adjacent(he.row))
        PROVE  p \in cand'
    <3>1. PICK a \in Node, b \in Node : p = <<a, b>> /\ a < b /\ ~(b \in Adjacent(rows)[a] <=> b \in Adjacent(he.row)[a])
      BY <2>5 DEF Gain
    <3>2. a # b
      BY <3>1, NAssumption DEF Node
    <3>3. ~(rows[a] \cap rows[b] # {} <=> he.row[a] \cap he.row[b] # {})
      BY <1>3, <3>1, <3>2, AdjacentFacts
    <3> QED BY <2>4, <3>1, <3>3
  <2> QED BY <1>1, <1>2, <2>2, <2>5 DEF Complete
<1>9. RowsMirrorOld'
  BY <1>1, <1>2, <1>3 DEF RowsMirrorOld, PreRow, PostRow, Touched
<1>10. WeightsStale'
  BY <1>1, <1>2, <1>3 DEF WeightsStale, Pending, incidenceVars
<1>11. /\ IsArena(he)' /\ IsArena(csr)' /\ nodeW' \in [Node -> Nat]
       /\ csr'.row = before'.graph.adj /\ ~csrFull'
  BY <1>1 DEF BInv, IsArena
<1> QED BY <1>1, <1>2, <1>7, <1>8, <1>9, <1>10, <1>11 DEF BInv

(***************************************************************************)
(* The delta and the rows.                                                 *)
(***************************************************************************)
LEMMA ClassifyPairsKeeps ==
  ASSUME BInv, ClassifyPairs
  PROVE  BInv'
<1>1. /\ phase = "candidates" /\ phase' = "classified" /\ ~InBatch /\ ~InBatch'
      /\ phase \in BatchPhases /\ phase' \in BatchPhases
      /\ UNCHANGED <<incidenceVars, inserts, recordVars, hostBatches, h2v, before>>
      /\ delta' = [del |-> {p \in cand : OverlapPre(p) /\ ~OverlapPost(p)},
                   ins |-> {p \in cand : OverlapPost(p) /\ ~OverlapPre(p)},
                   new |-> inc.new, dead |-> DeadHe]
      /\ he' = WrittenHeRows
      /\ vx' = vx /\ csr' = csr /\ nodeW' = nodeW /\ csrFull' = csrFull /\ before' = before
  BY DEF ClassifyPairs, InBatch, BatchPhases, csrVars, escherVars
<1>2. /\ HostFacts' /\ H2vIds' /\ AliveKept' /\ WeightsKept' /\ ~Settled' /\ Pending = {}
      /\ rows' = rows /\ v2h' = v2h /\ inc' = inc /\ alive' = alive
  BY <1>1, DeviceStep
<1>3. /\ RowsMirrorOld /\ Complete /\ WeightsStale /\ IsArena(he) /\ AliveKept /\ vx.row = v2h
      /\ rows \in [Node -> SUBSET Vertex] /\ he.row \in [Node -> SUBSET Vertex]
  BY <1>1 DEF BInv, HostFacts, RowsMirrorOld
<1>4. IsArena(he') /\ he'.row = rows
  <2> DEFINE moving == Outgrown(he, Touched, [h \in Node |-> Cardinality(rows[h])], HeSlot)
             written == [h \in Node |-> IF h \in Touched THEN rows[h] ELSE he.row[h]]
  <2>1. written = rows
    <3>1. \A h \in Node : (IF h \in Touched THEN rows[h] ELSE he.row[h]) = rows[h]
      BY <1>3 DEF RowsMirrorOld, PostRow
    <3> QED BY <1>3, <3>1
  <2>2. he' = IF RoomFor(he, moving) THEN [Moved(he, moving) EXCEPT !.row = written]
              ELSE LayOut(rows, HeSlots(rows, maxId), Room)
    BY <1>1 DEF WrittenHeRows
  <2> HIDE DEF moving, written
  <2>3. CASE he' = [Moved(he, moving) EXCEPT !.row = written]
    <3>1. IsArena(he') /\ he'.row = written
      BY <1>3, <2>3, ArenaFacts
    <3> QED BY <2>1, <3>1
  <2>4. CASE he' = LayOut(rows, HeSlots(rows, maxId), Room)
    BY <2>4, LayOutFacts
  <2> QED BY <2>2, <2>3, <2>4
<1>5. DeltaExact'
  <2>1. before.graph.adj = Adjacent(he.row)
    BY <1>3 DEF RowsMirrorOld
  <2>2. \A p \in cand : /\ p \in Node \X Node /\ p[1] < p[2] /\ p[1] # p[2]
                        /\ p[1] \in Node /\ p[2] \in Node
                        /\ OverlapPre(p) <=> p[2] \in Adjacent(he.row)[p[1]]
                        /\ OverlapPost(p) <=> p[2] \in Adjacent(rows)[p[1]]
    <3> SUFFICES ASSUME NEW p \in cand
                 PROVE  /\ p \in Node \X Node /\ p[1] < p[2] /\ p[1] # p[2]
                        /\ p[1] \in Node /\ p[2] \in Node
                        /\ OverlapPre(p) <=> p[2] \in Adjacent(he.row)[p[1]]
                        /\ OverlapPost(p) <=> p[2] \in Adjacent(rows)[p[1]]
      OBVIOUS
    <3>1. p \in Node \X Node /\ p[1] < p[2] /\ p[1] \in Node /\ p[2] \in Node
      BY <1>3 DEF Complete
    <3>2. p[1] # p[2]
      BY <3>1, NAssumption DEF Node
    <3>3. /\ PreRow(p[1]) = he.row[p[1]] /\ PreRow(p[2]) = he.row[p[2]]
          /\ PostRow(p[1]) = rows[p[1]] /\ PostRow(p[2]) = rows[p[2]]
      BY <1>3, <3>1 DEF RowsMirrorOld
    <3>4. /\ p[2] \in Adjacent(he.row)[p[1]] <=> p[1] # p[2] /\ he.row[p[1]] \cap he.row[p[2]] # {}
          /\ p[2] \in Adjacent(rows)[p[1]] <=> p[1] # p[2] /\ rows[p[1]] \cap rows[p[2]] # {}
      BY <1>3, <3>1, AdjacentFacts
    <3> QED BY <3>1, <3>2, <3>3, <3>4 DEF OverlapPre, OverlapPost
  <2>3. {p \in cand : OverlapPre(p) /\ ~OverlapPost(p)} = Gain(Adjacent(rows), Adjacent(he.row))
    <3>1. Gain(Adjacent(rows), Adjacent(he.row)) \subseteq cand
      BY <1>3 DEF Complete
    <3> QED BY <2>2, <3>1 DEF Gain
  <2>4. {p \in cand : OverlapPost(p) /\ ~OverlapPre(p)} = Gain(Adjacent(he.row), Adjacent(rows))
    <3>1. Gain(Adjacent(he.row), Adjacent(rows)) \subseteq cand
      BY <1>3 DEF Complete
    <3> QED BY <2>2, <3>1 DEF Gain
  <2>5. DeadHe = before.graph.live \ alive
    BY <1>3 DEF DeadHe, AliveKept
  <2> QED BY <1>1, <1>2, <2>1, <2>3, <2>4, <2>5 DEF DeltaExact
<1>6. Symmetric(before.graph.adj)
  BY <1>3, AdjacentFacts DEF RowsMirrorOld
<1>7. WeightsStale'
  BY <1>1, <1>2, <1>3 DEF WeightsStale, Pending, incidenceVars
<1>8. /\ IsArena(vx)' /\ IsArena(csr)' /\ nodeW' \in [Node -> Nat]
      /\ csr'.row = before'.graph.adj /\ ~csrFull'
  BY <1>1 DEF BInv, IsArena
<1> QED BY <1>1, <1>2, <1>3, <1>4, <1>5, <1>6, <1>7, <1>8 DEF BInv

\* The neighbours that a set of gained pairs gives to a row.
LEMMA GainRows ==
  ASSUME NEW a, NEW b, Symmetric(a), Symmetric(b), NEW h \in Node
  PROVE  /\ NeighboursIn(Gain(a, b), h) = b[h] \ a[h]
         /\ NeighboursIn(Gain(b, a) \cup Gain(a, b), h) = (a[h] \ b[h]) \cup (b[h] \ a[h])
<1>1. ASSUME NEW x, NEW y, Symmetric(x), Symmetric(y), NEW o \in Node
      PROVE  Pair(h, o) \in Gain(x, y) <=> o \in y[h] \ x[h]
  <2>1. CASE h < o
    BY <1>1, <2>1 DEF Pair, Gain
  <2>2. CASE ~(h < o) /\ h # o
    <3>1. o < h
      BY <2>2, NAssumption DEF Node
    <3>2. Pair(h, o) = <<o, h>>
      BY <2>2 DEF Pair
    <3>3. Pair(h, o) \in Gain(x, y) <=> h \in y[o] \ x[o]
      BY <3>1, <3>2 DEF Gain
    <3> QED BY <1>1, <3>3 DEF Symmetric
  <2>3. CASE h = o
    <3>1. ~(h < h)
      BY NAssumption DEF Node
    <3>2. Pair(h, o) = <<h, h>>
      BY <2>3, <3>1 DEF Pair
    <3>3. Pair(h, o) \notin Gain(x, y)
      BY <3>1, <3>2 DEF Gain
    <3> QED BY <1>1, <2>3, <3>3 DEF Symmetric
  <2> QED BY <2>1, <2>2, <2>3
<1>2. \A o \in Node : /\ Pair(h, o) \in Gain(a, b) <=> o \in b[h] \ a[h]
                      /\ Pair(h, o) \in Gain(b, a) <=> o \in a[h] \ b[h]
  BY <1>1
<1>3. a[h] \subseteq Node /\ b[h] \subseteq Node
  BY DEF Symmetric
<1> HIDE DEF Pair
<1> QED BY <1>2, <1>3 DEF NeighboursIn

\* The delta, once classified, is about these rows.
LEMMA DeltaRows ==
  ASSUME BInv, phase \in {"classified", "csr", "mirrored"}
  PROVE  /\ Symmetric(before.graph.adj) /\ Symmetric(Adjacent(rows)) /\ DeltaExact
         /\ rows \in [Node -> SUBSET Vertex]
         /\ \A h \in Node :
              /\ NeighboursIn(delta.del, h) = before.graph.adj[h] \ Adjacent(rows)[h]
              /\ NeighboursIn(delta.ins, h) = Adjacent(rows)[h] \ before.graph.adj[h]
              /\ NeighboursIn(delta.del \cup delta.ins, h) =
                   (before.graph.adj[h] \ Adjacent(rows)[h]) \cup (Adjacent(rows)[h] \ before.graph.adj[h])
<1>1. Symmetric(before.graph.adj) /\ DeltaExact /\ rows \in [Node -> SUBSET Vertex]
  BY DEF BInv, HostFacts
<1>2. Symmetric(Adjacent(rows))
  BY <1>1, AdjacentFacts
<1>3. /\ delta.del = Gain(Adjacent(rows), before.graph.adj)
      /\ delta.ins = Gain(before.graph.adj, Adjacent(rows))
  BY <1>1 DEF DeltaExact
<1> DEFINE a == before.graph.adj
           b == Adjacent(rows)
<1>4. Symmetric(a) /\ Symmetric(b) /\ delta.del = Gain(b, a) /\ delta.ins = Gain(a, b)
  BY <1>1, <1>2, <1>3
<1> HIDE DEF a, b
<1>5. \A h \in Node : /\ NeighboursIn(delta.del, h) = a[h] \ b[h]
                      /\ NeighboursIn(delta.ins, h) = b[h] \ a[h]
                      /\ NeighboursIn(delta.del \cup delta.ins, h) = (a[h] \ b[h]) \cup (b[h] \ a[h])
  BY <1>4, GainRows
<1> QED BY <1>1, <1>2, <1>5 DEF a, b

LEMMA LaunchApplyRowsKeeps ==
  ASSUME BInv, LaunchApplyRows
  PROVE  BInv'
<1>1. /\ phase = "classified" /\ phase' = "csr" /\ ~InBatch /\ ~InBatch'
      /\ phase \in BatchPhases /\ phase' \in BatchPhases
      /\ UNCHANGED <<incidenceVars, inserts, recordVars, hostBatches, h2v, before>>
      /\ csrTodo' = {h \in Node : NeighboursIn(delta.del \cup delta.ins, h) # {}}
      /\ he' = he /\ vx' = vx /\ csr' = csr /\ nodeW' = nodeW /\ csrFull' = csrFull /\ before' = before
      /\ delta' = delta
  BY DEF LaunchApplyRows, InBatch, BatchPhases, mirrorVars, deltaVars, escherVars
<1>2. /\ HostFacts' /\ H2vIds' /\ AliveKept' /\ WeightsKept' /\ ~Settled' /\ Pending = {}
      /\ rows' = rows /\ v2h' = v2h /\ inc' = inc /\ alive' = alive
  BY <1>1, DeviceStep
<1>3. WeightsStale /\ csr.row = before.graph.adj /\ he.row = rows /\ vx.row = v2h
  BY <1>1 DEF BInv
<1>4. csr.row = [h \in Node |-> IF h \in csrTodo' THEN before.graph.adj[h] ELSE Adjacent(rows)[h]]
  <2>1. \A h \in Node : h \notin csrTodo' => before.graph.adj[h] = Adjacent(rows)[h]
    BY <1>1, DeltaRows
  <2>2. before.graph.adj \in [Node -> SUBSET Node]
    BY <1>1, DeltaRows DEF Symmetric
  <2> QED BY <1>3, <2>1, <2>2
<1>5. RowsApplied'
  BY <1>1, <1>2, <1>4 DEF RowsApplied
<1>6. WeightsStale'
  BY <1>1, <1>2, <1>3 DEF WeightsStale, Pending, incidenceVars
<1>7. DeltaExact' /\ Symmetric(before.graph.adj)'
  BY <1>1, <1>2, DeltaRows DEF DeltaExact
<1>8. IsArena(he)' /\ IsArena(vx)' /\ IsArena(csr)' /\ nodeW' \in [Node -> Nat]
  BY <1>1 DEF BInv, IsArena
<1> QED BY <1>1, <1>2, <1>3, <1>5, <1>6, <1>7, <1>8 DEF BInv

\* One warp: its row gets the new neighbours, unless the tail is full.
LEMMA ApplyRowKeeps ==
  ASSUME BInv, NEW h \in Node, ApplyRow(h)
  PROVE  BInv'
<1> DEFINE kept == csr.row[h] \ NeighboursIn(delta.del, h)
           added == NeighboursIn(delta.ins, h)
           need == Cardinality(kept) + Cardinality(added)
           moving == IF added # {} /\ csr.cap[h] < need THEN [k \in {h} |-> RowCapacity(need)] ELSE <<>>
<1>1. /\ phase = "csr" /\ phase' = "csr" /\ ~InBatch /\ ~InBatch'
      /\ phase \in BatchPhases /\ phase' \in BatchPhases
      /\ UNCHANGED <<incidenceVars, inserts, recordVars, hostBatches, h2v, before>>
      /\ h \in csrTodo /\ csrTodo' = csrTodo \ {h}
      /\ he' = he /\ vx' = vx /\ nodeW' = nodeW /\ before' = before /\ delta' = delta
      /\ \/ /\ csr' = [Moved(csr, moving) EXCEPT !.row[h] = kept \cup added]
            /\ csrFull' = csrFull
         \/ /\ csr' = [csr EXCEPT !.row[h] = kept, !.tail = @ + TotalOf(moving)]
            /\ csrFull'
  BY DEF ApplyRow, InBatch, BatchPhases, mirrorVars, deltaVars, escherVars, hostVars
<1> HIDE DEF need, moving
<1>2. /\ HostFacts' /\ H2vIds' /\ AliveKept' /\ WeightsKept' /\ ~Settled' /\ Pending = {}
      /\ rows' = rows /\ v2h' = v2h /\ inc' = inc /\ alive' = alive
  BY <1>1, DeviceStep
<1>3. WeightsStale /\ RowsApplied /\ he.row = rows /\ vx.row = v2h /\ IsArena(csr)
  BY <1>1 DEF BInv
<1>4. IsArena(csr') /\ RowsApplied'
  <2>1. CASE /\ csr' = [Moved(csr, moving) EXCEPT !.row[h] = kept \cup added]
             /\ csrFull' = csrFull
    <3>1. Moved(csr, moving).row = csr.row
      BY <1>3, ArenaFacts
    <3>2. csr' = [Moved(csr, moving) EXCEPT !.row = [csr.row EXCEPT ![h] = kept \cup added]]
      BY <2>1, <3>1
    <3> DEFINE r == [csr.row EXCEPT ![h] = kept \cup added]
    <3>3. csr' = [Moved(csr, moving) EXCEPT !.row = r]
      BY <3>2
    <3> HIDE DEF r
    <3>4. IsArena(csr') /\ csr'.row = r
      BY <1>3, <3>3, ArenaFacts
    <3>5. ASSUME ~csrFull
          PROVE  r = [x \in Node |-> IF x \in csrTodo' THEN before.graph.adj[x] ELSE Adjacent(rows)[x]]
      <4>1. csr.row = [x \in Node |-> IF x \in csrTodo THEN before.graph.adj[x] ELSE Adjacent(rows)[x]]
        BY <1>3, <3>5 DEF RowsApplied
      <4>2. kept \cup added = Adjacent(rows)[h]
        BY <1>1, <4>1, DeltaRows
      <4> HIDE DEF kept, added
      <4> QED BY <1>1, <4>1, <4>2 DEF r
    <3> QED BY <1>1, <1>2, <2>1, <3>4, <3>5 DEF RowsApplied
  <2>2. CASE /\ csr' = [csr EXCEPT !.row[h] = kept, !.tail = @ + TotalOf(moving)]
             /\ csrFull'
    <3> DEFINE tail == csr.tail + TotalOf(moving)
    <3>1. csr' = [csr EXCEPT !.row[h] = kept, !.tail = tail]
      BY <1>3, <2>2 DEF IsArena
    <3> HIDE DEF tail, kept
    <3>2. csr' = [off |-> csr.off, cap |-> csr.cap, row |-> [csr.row EXCEPT ![h] = kept],
                  tail |-> tail, capacity |-> csr.capacity]
      BY <1>3, <3>1 DEF IsArena
    <3> QED BY <2>2, <3>2 DEF IsArena, RowsApplied
  <2> QED BY <1>1, <2>1, <2>2
<1>6. WeightsStale'
  BY <1>1, <1>2, <1>3 DEF WeightsStale, Pending, incidenceVars
<1>7. DeltaExact' /\ Symmetric(before.graph.adj)'
  BY <1>1, <1>2, DeltaRows DEF DeltaExact
<1>8. IsArena(he)' /\ IsArena(vx)' /\ nodeW' \in [Node -> Nat]
  BY <1>1 DEF BInv, IsArena
<1> QED BY <1>1, <1>2, <1>3, <1>4, <1>6, <1>7, <1>8 DEF BInv

\* The weights of new hyperedges are scattered, or all are laid out anew.
LEMMA CsrPatchedKeeps ==
  ASSUME BInv, CsrPatched
  PROVE  BInv'
<1>1. /\ phase = "csr" /\ phase' = "mirrored" /\ ~InBatch /\ ~InBatch'
      /\ phase \in BatchPhases /\ phase' \in BatchPhases
      /\ UNCHANGED <<incidenceVars, inserts, recordVars, hostBatches, h2v, before>>
      /\ csrTodo = {} /\ ~csrFull /\ csrFull' = csrFull /\ csr' = csr
      /\ nodeW' = [h \in Node |-> IF h \in delta.new THEN weight[h] ELSE nodeW[h]]
      /\ he' = he /\ vx' = vx /\ before' = before /\ delta' = delta
  BY DEF CsrPatched, InBatch, BatchPhases, mirrorVars, deltaVars, escherVars
<1>2. /\ HostFacts' /\ H2vIds' /\ AliveKept' /\ WeightsKept' /\ ~Settled' /\ Pending = {}
      /\ rows' = rows /\ v2h' = v2h /\ inc' = inc /\ alive' = alive
  BY <1>1, DeviceStep
<1>3. WeightsStale /\ RowsApplied /\ he.row = rows /\ vx.row = v2h /\ HostFacts /\ nodeW \in [Node -> Nat]
  BY <1>1 DEF BInv
<1>4. csr'.row = Adjacent(rows) /\ ~csrFull'
  BY <1>1, <1>3, DeltaRows DEF RowsApplied, Symmetric
<1>5. delta.new = inc.new
  BY <1>1, DeltaRows DEF DeltaExact
<1>6. WeightsFresh' /\ nodeW' \in [Node -> Nat]
  <2>1. weight \in [Node -> Nat] /\ weight' = weight /\ maxId' = maxId
    BY <1>1, <1>3 DEF HostFacts, incidenceVars
  <2> QED BY <1>1, <1>2, <1>3, <1>5, <2>1 DEF WeightsFresh, WeightsStale
<1>7. DeltaExact' /\ Symmetric(before.graph.adj)'
  BY <1>1, <1>2, DeltaRows DEF DeltaExact
<1>8. IsArena(he)' /\ IsArena(vx)' /\ IsArena(csr)'
  BY <1>1 DEF BInv, IsArena
<1> QED BY <1>1, <1>2, <1>3, <1>4, <1>6, <1>7, <1>8 DEF BInv

LEMMA CsrRebuiltKeeps ==
  ASSUME BInv, CsrRebuilt
  PROVE  BInv'
<1>1. /\ phase = "csr" /\ phase' = "mirrored" /\ ~InBatch /\ ~InBatch'
      /\ phase \in BatchPhases /\ phase' \in BatchPhases
      /\ UNCHANGED <<incidenceVars, inserts, recordVars, hostBatches, h2v, before>>
      /\ ~csrFull' /\ csr' = LayOut(HostLineGraph, CsrSlots(HostLineGraph, maxId), Room)
      /\ nodeW' = [h \in Node |-> IF h < maxId THEN weight[h] ELSE 0]
      /\ he' = he /\ vx' = vx /\ before' = before /\ delta' = delta
  BY DEF CsrRebuilt, InBatch, BatchPhases, mirrorVars, deltaVars, escherVars
<1>2. /\ HostFacts' /\ H2vIds' /\ AliveKept' /\ WeightsKept' /\ ~Settled' /\ Pending = {}
      /\ rows' = rows /\ v2h' = v2h /\ inc' = inc /\ alive' = alive
  BY <1>1, DeviceStep
<1>3. he.row = rows /\ vx.row = v2h /\ HostFacts
  BY <1>1 DEF BInv
<1>4. csr'.row = Adjacent(rows) /\ IsArena(csr')
  BY <1>1, <1>3, LayOutFacts, HostLineGraphIsAdjacent
<1>6. WeightsFresh' /\ nodeW' \in [Node -> Nat]
  <2>1. weight \in [Node -> Nat] /\ weight' = weight /\ maxId' = maxId
    BY <1>1, <1>3 DEF HostFacts, incidenceVars
  <2> QED BY <1>1, <2>1 DEF WeightsFresh
<1>7. DeltaExact' /\ Symmetric(before.graph.adj)'
  BY <1>1, <1>2, DeltaRows DEF DeltaExact
<1>8. IsArena(he)' /\ IsArena(vx)'
  BY <1>1 DEF BInv, IsArena
<1> QED BY <1>1, <1>2, <1>3, <1>4, <1>6, <1>7, <1>8 DEF BInv

\* The trees are flushed: the batch is over.
LEMMA FinishBatchKeeps ==
  ASSUME BInv, FinishBatch
  PROVE  BInv'
<1>1. /\ phase = "mirrored" /\ phase' = "idle" /\ ~InBatch /\ ~InBatch' /\ Settled' /\ phase' \notin BatchPhases
      /\ UNCHANGED <<incidenceVars, inserts, hostBatches>>
      /\ inc' = NoChanges /\ ops' = NoOps /\ taken' = 0
      /\ he' = he /\ vx' = vx /\ csr' = csr /\ nodeW' = nodeW /\ csrFull' = csrFull
      /\ h2v' = Flushed(h2v, delta.dead, ops.h2vUnfill, ops.h2vFill)
  BY DEF FinishBatch, InBatch, BatchPhases, deviceVars, mirrorVars, deltaVars, csrVars, Settled
<1>2. /\ HostFacts /\ H2vIds /\ AliveKept /\ WeightsKept /\ WeightsFresh /\ he.row = rows /\ vx.row = v2h
      /\ csr.row = Adjacent(rows) /\ ~csrFull /\ inserts = <<>> /\ Pending = {}
  BY <1>1 DEF BInv, H2vIds, BatchPhases, Pending
<1>3. HostFacts'
  <2>1. taken' \in 0 .. MaxOps
    BY <1>1, HostBoundsAssumption
  <2> QED BY <1>1, <1>2, <2>1, BlankRecord
          DEF HostFacts, incidenceVars, IncidenceConsistent, FreeListExact, IdsBelowMax
<1>4. H2vIds'
  <2>1. delta.dead = before.graph.live \ alive
    BY <1>1, DeltaRows DEF DeltaExact
  <2>2. DOMAIN h2v' = DOMAIN h2v \ delta.dead
    BY <1>1 DEF Flushed, Filled, Erased, Unfilled
  <2>3. Source \in alive
    BY <1>2 DEF HostFacts, IncidenceConsistent, Virtual
  <2>4. Source \in DOMAIN h2v /\ DOMAIN h2v \subseteq {h \in Node : h < maxId}
    BY <1>1, <1>2 DEF H2vIds
  <2> QED BY <1>1, <1>2, <2>1, <2>2, <2>3, <2>4 DEF H2vIds, Pending, incidenceVars
<1>5. AllMirrored'
  <2>1. ASSUME NEW h \in Node, h < maxId PROVE weight[h] = 0 <=> h \in Virtual
    BY <1>2, <2>1 DEF WeightsKept, AliveKept
  <2> QED BY <1>1, <1>2, <2>1 DEF AllMirrored, WeightsFresh, incidenceVars
<1>6. IsArena(he)' /\ IsArena(vx)' /\ IsArena(csr)' /\ nodeW' \in [Node -> Nat]
  BY <1>1 DEF BInv, IsArena
<1> QED BY <1>1, <1>3, <1>4, <1>5, <1>6 DEF BInv, BatchPhases

\* bulkLoad mirrors the loaded hypergraph.
LEMMA BInvInit == Init => BInv /\ delta = EmptyDelta /\ Settled
<1> SUFFICES ASSUME Init PROVE BInv /\ delta = EmptyDelta /\ Settled
  OBVIOUS
<1> DEFINE heSlots == HeSlots(rows, maxId)
           vxSlots == VertexSlots(v2h)
           csrSlots == CsrSlots(HostLineGraph, maxId)
<1>1. /\ HostInit /\ he = LayOut(rows, heSlots, Room) /\ vx = LayOut(v2h, vxSlots, Room)
      /\ csr = LayOut(HostLineGraph, csrSlots, Room) /\ nodeW = weight /\ ~csrFull
      /\ delta = EmptyDelta /\ h2v = [h \in alive |-> rows[h]] /\ phase = "idle" /\ inserts = <<>>
  BY DEF Init, HostInit
<1> HIDE DEF heSlots, vxSlots, csrSlots
<1>2. HInv
  BY <1>1, HostInitInv
<1>3. HostFacts /\ weight \in [Node -> Nat]
  BY <1>2, HostFactsOfHost DEF HostFacts
<1>4. /\ IsArena(he) /\ he.row = rows /\ IsArena(vx) /\ vx.row = v2h
      /\ IsArena(csr) /\ csr.row = Adjacent(rows)
  BY <1>1, <1>3, LayOutFacts, HostLineGraphIsAdjacent
<1>5. \A h \in Node : h < maxId => (weight[h] = 0 <=> h \in Virtual)
  <2>1. PICK w \in [Node -> Weights] :
          weight = [h \in Node |-> IF h \in Virtual \/ h >= maxId THEN 0 ELSE w[h]]
    BY <1>1 DEF HostInit
  <2>2. \A h \in Node : h < maxId => ~(h >= maxId)
    BY <1>3, NAssumption DEF HostFacts, Node
  <2> QED BY <2>1, <2>2, WeightsAssumption
<1>6. AllMirrored
  BY <1>1, <1>4, <1>5 DEF AllMirrored, WeightsFresh
<1>7. H2vIds
  <2>1. Source \in alive /\ alive \subseteq Node /\ \A h \in alive : h < maxId
    BY <1>2, <1>3, NAssumption DEF HInv, IncidenceConsistent, Virtual, IdsBelowMax, HostFacts, Node
  <2> QED BY <1>1, <2>1 DEF H2vIds
<1>8. ~InBatch /\ phase \notin BatchPhases /\ Settled
  BY <1>1 DEF InBatch, BatchPhases, Settled
<1> QED BY <1>1, <1>3, <1>4, <1>6, <1>7, <1>8 DEF BInv, BatchPhases

\* A stuttering step.
LEMMA BatchStutter ==
  ASSUME BInv, UNCHANGED bvars
  PROVE  BInv'
<1> USE DEF bvars, hostVars, incidenceVars, recordVars, deviceVars, mirrorVars, deltaVars, csrVars, escherVars
<1>1. HostFacts' = HostFacts
  BY DEF HostFacts, IncidenceConsistent, FreeListExact, IdsBelowMax
<1>2. H2vIds' = H2vIds /\ AliveKept' = AliveKept /\ WeightsKept' = WeightsKept /\ NoGap' = NoGap
  BY DEF H2vIds, AliveKept, WeightsKept, NoGap, Pending, InBatch
<1>3. RowsMirrorOld' = RowsMirrorOld /\ ListsMirrorOld' = ListsMirrorOld /\ NetMirrors' = NetMirrors
  BY DEF RowsMirrorOld, ListsMirrorOld, NetMirrors, PreRow, PostRow, Touched
<1>4. /\ Complete' = Complete /\ DeltaExact' = DeltaExact /\ RowsApplied' = RowsApplied
      /\ AllMirrored' = AllMirrored
  BY DEF Complete, DeltaExact, RowsApplied, AllMirrored, WeightsFresh
<1>5. /\ WeightsFresh' = WeightsFresh /\ WeightsStale' = WeightsStale
      /\ NetIsDifference' = NetIsDifference /\ InBatch' = InBatch /\ Settled' = Settled
  BY DEF WeightsFresh, WeightsStale, Pending, NetIsDifference, InBatch, Touched, Settled
<1> QED BY <1>1, <1>2, <1>3, <1>4, <1>5 DEF BInv

\* Every step keeps the invariant.
LEMMA BInvNext == BInv /\ [Next]_bvars => BInv'
<1> SUFFICES ASSUME BInv, [Next]_bvars PROVE BInv'
  OBVIOUS
<1>1. ASSUME phase = "idle", NEW s \in AdoptedInsertions, BeginBatch(s) \/ BeginBatchThrows(s) PROVE BInv'
  BY <1>1, BeginBatchKeeps, BeginBatchThrowsKeeps
<1>2. CASE HostStep
  BY <1>2, HostDoneBatch, DeleteHyperedgeBatch, DeleteVertexBatch, InsertVertexBatch, InsertHyperedgeBatch
     DEF HostStep, BatchOp
<1>3. CASE FindCandidates
  BY <1>3, FindCandidatesKeeps
<1>4. CASE ClassifyPairs
  BY <1>4, ClassifyPairsKeeps
<1>5. CASE LaunchApplyRows
  BY <1>5, LaunchApplyRowsKeeps
<1>6. ASSUME NEW h \in Node, ApplyRow(h) PROVE BInv'
  BY <1>6, ApplyRowKeeps
<1>7. CASE CsrPatched
  BY <1>7, CsrPatchedKeeps
<1>8. CASE CsrRebuilt
  BY <1>8, CsrRebuiltKeeps
<1>9. CASE FinishBatch
  BY <1>9, FinishBatchKeeps
<1>10. CASE Stopped \/ UNCHANGED bvars
  BY <1>10, BatchStutter DEF Stopped
<1> QED BY <1>1, <1>2, <1>3, <1>4, <1>5, <1>6, <1>7, <1>8, <1>9, <1>10 DEF Next

(***************************************************************************)
(* The inductive invariant of the batches holds in every state.            *)
(***************************************************************************)
LEMMA BatchInvariant == Spec => []BInv
BY BInvInit, BInvNext, PTL DEF Spec

-----------------------------------------------------------------------------
(***************************************************************************)
(* The contract.                                                           *)
(***************************************************************************)

\* The contract's operators are those of LineGraph.
LEMMA SameContract ==
  ASSUME NEW g, NEW h, NEW created
  PROVE  /\ Contract!IsGraph(g) = IsGraph(g) /\ Contract!EmptyDelta = EmptyDelta
         /\ Contract!MayFollow(g, h, created) = MayFollow(g, h, created)
         /\ Contract!NetDelta(g, h, created) = NetDelta(g, h, created)
BY DEF Contract!IsGraph, IsGraph, Contract!EmptyDelta, EmptyDelta, Contract!MayFollow, MayFollow,
       Contract!NetDelta, NetDelta, Contract!NewPairs, NewPairs, Contract!Virtual, Virtual,
       Contract!Node, Node

\* Between batches the device holds a line graph.
LEMMA SettledIsGraph == BInv /\ Settled => IsGraph(DeviceGraph)
<1> SUFFICES ASSUME AllMirrored, HostFacts, nodeW \in [Node -> Nat] PROVE IsGraph(DeviceGraph)
  BY DEF BInv
<1>1. /\ DeviceGraph.live = alive /\ DeviceGraph.adj = Adjacent(rows)
      /\ \A h \in Node : DeviceGraph.w[h] = IF h < maxId THEN weight[h] ELSE 1
  BY SettledGraph
<1>2. /\ rows \in [Node -> SUBSET Vertex] /\ alive \in SUBSET Node /\ Virtual \subseteq alive
      /\ \A h \in Node : rows[h] # {} <=> h \in alive
      /\ \A h \in alive : h < maxId
  BY NAssumption DEF HostFacts, IncidenceConsistent, IdsBelowMax, Node
<1>3. DeviceGraph \in [live : SUBSET Node, adj : [Node -> SUBSET Node], w : [Node -> Nat]]
  <2>1. csr.row \in [Node -> SUBSET Node]
    BY <1>2, AdjacentFacts DEF AllMirrored
  <2>2. [h \in Node |-> IF h < maxId THEN nodeW[h] ELSE 1] \in [Node -> Nat]
    OBVIOUS
  <2> QED BY <1>2, <2>1, <2>2 DEF DeviceGraph
<1>4. \A u, v \in Node : v \in DeviceGraph.adj[u] =>
        u # v /\ v \in DeviceGraph.live /\ u \in DeviceGraph.adj[v]
  <2> SUFFICES ASSUME NEW u \in Node, NEW v \in Node, v \in Adjacent(rows)[u]
               PROVE  u # v /\ v \in alive /\ u \in Adjacent(rows)[v]
    BY <1>1
  <2>1. u # v /\ rows[u] \cap rows[v] # {}
    BY <1>2, AdjacentFacts
  <2>2. rows[v] # {} /\ rows[v] \cap rows[u] # {}
    BY <2>1
  <2> QED BY <1>2, <2>1, <2>2, AdjacentFacts
<1>5. \A v \in Node : DeviceGraph.w[v] = 0 <=> v \in Virtual
  <2>1. \A v \in Node : v < maxId => (weight[v] = 0 <=> v \in Virtual)
    BY DEF AllMirrored
  <2> QED BY <1>1, <1>2, <2>1
<1> QED BY <1>1, <1>2, <1>3, <1>4, <1>5 DEF IsGraph

\* The whole batch, seen from its end.
LEMMA FinishIsBatch ==
  ASSUME BInv, BInv', FinishBatch
  PROVE  /\ IsGraph(DeviceGraph') /\ MayFollow(before.graph, DeviceGraph', inc.new)
         /\ delta' = NetDelta(before.graph, DeviceGraph', inc.new)
<1>1. /\ phase = "mirrored" /\ Settled' /\ delta' = delta /\ UNCHANGED incidenceVars
  BY DEF FinishBatch, deviceVars, deltaVars, Settled
<1>2. /\ AllMirrored' /\ HostFacts' /\ nodeW' \in [Node -> Nat]
  BY <1>1 DEF BInv
<1>3. IsGraph(DeviceGraph')
  <2>1. (BInv /\ Settled => IsGraph(DeviceGraph))'
    BY SettledIsGraph, PTL
  <2> QED BY <1>1, <2>1
<1>4. /\ DeviceGraph'.live = alive /\ DeviceGraph'.adj = Adjacent(rows)
      /\ \A h \in Node : DeviceGraph'.w[h] = IF h < maxId THEN weight[h] ELSE 1
  <2>1. /\ DeviceGraph'.live = alive' /\ DeviceGraph'.adj = Adjacent(rows')
        /\ \A h \in Node : DeviceGraph'.w[h] = IF h < maxId' THEN weight'[h] ELSE 1
    BY <1>2 DEF DeviceGraph, AllMirrored, WeightsFresh
  <2> QED BY <1>1, <2>1 DEF incidenceVars
<1>5. AliveKept /\ WeightsKept /\ DeltaExact /\ Pending = {} /\ HostFacts
  BY <1>1 DEF BInv, BatchPhases, H2vIds, Pending, InBatch
<1>6. MayFollow(before.graph, DeviceGraph', inc.new)
  <2>1. inc.new \subseteq alive /\ alive \ before.graph.live \subseteq inc.new /\ inc.new \cap Virtual = {}
    BY <1>5 DEF AliveKept
  <2>2. \A v \in Node \ inc.new : DeviceGraph'.w[v] = before.graph.w[v]
    BY <1>4, <1>5 DEF WeightsKept
  <2> QED BY <1>4, <2>1, <2>2 DEF MayFollow
<1>7. delta' = NetDelta(before.graph, DeviceGraph', inc.new)
  BY <1>1, <1>4, <1>5 DEF DeltaExact, NetDelta, NewPairs, Gain
<1> QED BY <1>3, <1>6, <1>7

\* Every step but the last is invisible.
LEMMA StepsMeetContract ==
  ASSUME BInv, BInv', [Next]_bvars
  PROVE  [Contract!Batch]_<<IF Settled THEN DeviceGraph ELSE before.graph,
                            IF Settled THEN delta ELSE before.delta>>
<1> DEFINE graph == IF Settled THEN DeviceGraph ELSE before.graph
           report == IF Settled THEN delta ELSE before.delta
<1> SUFFICES ASSUME ~(graph' = graph /\ report' = report) PROVE Contract!Batch
  OBVIOUS
<1>1. ASSUME NEW s \in AdoptedInsertions, BeginBatch(s) PROVE FALSE
  <2>1. Settled /\ ~Settled' /\ before' = [graph |-> DeviceGraph, delta |-> delta]
    BY <1>1 DEF BeginBatch, HostBegin, Settled
  <2> QED BY <2>1
<1>2. ASSUME phase = "idle", NEW s \in AdoptedInsertions, BeginBatchThrows(s) PROVE FALSE
  <2>1. Settled /\ Settled' /\ delta' = delta /\ DeviceGraph' = DeviceGraph
    BY <1>2, BeginBatchThrowsKeeps DEF BeginBatchThrows, Settled, deviceVars, deltaVars
  <2> QED BY <2>1
<1>3. ASSUME ~Settled, ~Settled', before' = before PROVE FALSE
  BY <1>3
<1>4. CASE HostStep
  <2>1. InBatch /\ (InBatch' \/ phase' = "applied") /\ before' = before
    BY <1>4 DEF HostStep, BatchOp, DeleteHyperedge, DeleteVertex, InsertVertex, InsertHyperedge, HostDone, InBatch
  <2> QED BY <1>3, <2>1 DEF InBatch, Settled
<1>5. CASE FindCandidates \/ ClassifyPairs
  BY <1>3, <1>5 DEF FindCandidates, ClassifyPairs, Settled
<1>6. CASE LaunchApplyRows \/ CsrPatched \/ CsrRebuilt
  BY <1>3, <1>6 DEF LaunchApplyRows, CsrPatched, CsrRebuilt, Settled
<1>7. ASSUME NEW h \in Node, ApplyRow(h) PROVE FALSE
  BY <1>3, <1>7 DEF ApplyRow, Settled, hostVars
<1>8. CASE FinishBatch
  <2>1. ~Settled /\ Settled' /\ inc.new \in SUBSET Node
    BY <1>8 DEF FinishBatch, Settled, BInv, HostFacts, Record
  <2>2. graph = before.graph /\ graph' = DeviceGraph' /\ report' = delta'
    BY <2>1
  <2>3. /\ Contract!IsGraph(graph') /\ Contract!MayFollow(graph, graph', inc.new)
        /\ report' = Contract!NetDelta(graph, graph', inc.new)
    BY <1>8, <2>2, FinishIsBatch, SameContract
  <2> HIDE DEF graph, report
  <2>4. inc.new \in SUBSET Contract!Node
    BY <2>1 DEF Contract!Node, Node
  <2> QED BY <2>3, <2>4 DEF Contract!Batch, graph, report
<1>9. CASE Stopped \/ UNCHANGED bvars
  BY <1>9 DEF Stopped, bvars, hostVars, incidenceVars, deviceVars, csrVars, deltaVars, Settled, DeviceGraph
<1> QED BY <1>1, <1>2, <1>4, <1>5, <1>6, <1>7, <1>8, <1>9 DEF Next

(***************************************************************************)
(* applyBatch implements the contract that hsospUpdate starts from: from   *)
(* line graph to line graph in one step, with the exact net change, for    *)
(* every batch, every choice of ids and every overflow of the row arrays   *)
(* (hsosp.cuh:38-60).                                                      *)
(***************************************************************************)
THEOREM BatchImplementsContract == Spec => ImplementsBatches
<1>1. Init => Contract!Init
  <2> SUFFICES ASSUME Init PROVE Contract!Init
    OBVIOUS
  <2>1. BInv /\ Settled /\ delta = EmptyDelta
    BY BInvInit
  <2>2. IsGraph(DeviceGraph)
    BY <2>1, SettledIsGraph
  <2> QED BY <2>1, <2>2, SameContract DEF Contract!Init
<1>2. BInv /\ BInv' /\ [Next]_bvars =>
        [Contract!Batch]_<<IF Settled THEN DeviceGraph ELSE before.graph,
                           IF Settled THEN delta ELSE before.delta>>
  BY StepsMeetContract
<1> QED BY <1>1, <1>2, BatchInvariant, PTL DEF Spec, ImplementsBatches, Contract!Spec

(***************************************************************************)
(* Between batches the device's mirror of the incidence is the host's      *)
(* (incidenceMirrorMismatches).                                            *)
(***************************************************************************)
THEOREM MirrorStaysExact == Spec => []MirrorExact
<1>1. BInv => MirrorExact
  BY DEF BInv, AllMirrored, MirrorExact
<1> QED BY <1>1, BatchInvariant, PTL

(***************************************************************************)
(* Between batches the CSR is the line graph of the host's hypergraph,     *)
(* with the host's weights (compareDeviceToHost).                          *)
(***************************************************************************)
THEOREM LineGraphStaysExact == Spec => []LineGraphExact
<1>1. BInv => LineGraphExact
  <2> SUFFICES ASSUME BInv, Settled, NEW a \in Node, NEW b \in Node
               PROVE  /\ b \in csr.row[a] <=> SharesVertex(a, b)
                      /\ a \in alive => nodeW[a] = weight[a]
    BY DEF LineGraphExact
  <2>1. AllMirrored /\ HostFacts /\ rows \in [Node -> SUBSET Vertex]
    BY DEF BInv, HostFacts
  <2>2. b \in csr.row[a] <=> SharesVertex(a, b)
    BY <2>1, AdjacentFacts DEF AllMirrored, SharesVertex
  <2>3. a \in alive => a < maxId
    BY <2>1, NAssumption DEF HostFacts, IdsBelowMax, Node
  <2> QED BY <2>1, <2>2, <2>3 DEF AllMirrored, WeightsFresh
<1> QED BY <1>1, BatchInvariant, PTL

-----------------------------------------------------------------------------
(***************************************************************************)
(* The counts.                                                             *)
(***************************************************************************)
PairsOf(a) == {e \in Node \X Node : e[1] < e[2] /\ e[2] \in a[e[1]]}

PairNumber(a) == Cardinality(PairsOf(a))

\* A symmetric set of entries has two entries per pair.
LEMMA EntriesArePairs ==
  ASSUME NEW a, Symmetric(a)
  PROVE  /\ IsFiniteSet(PairsOf(a)) /\ PairNumber(a) \in Nat
         /\ Cardinality({e \in Node \X Node : e[2] \in a[e[1]]}) = 2 * PairNumber(a)
<1> DEFINE up == PairsOf(a)
           down == {e \in Node \X Node : e[2] < e[1] /\ e[2] \in a[e[1]]}
           all == {e \in Node \X Node : e[2] \in a[e[1]]}
           flip == [e \in up |-> <<e[2], e[1]>>]
<1>1. IsFiniteSet(Node \X Node)
  <2>1. IsFiniteSet(Node)
    <3>1. 0 \in Int /\ N - 1 \in Int
      BY NAssumption
    <3> QED BY <3>1, FS_Interval DEF Node
  <2> QED BY <2>1, FS_Product
<1>2. up \in SUBSET (Node \X Node) /\ down \in SUBSET (Node \X Node)
  BY DEF PairsOf
<1>3. IsFiniteSet(up) /\ IsFiniteSet(down) /\ Cardinality(up) \in Nat /\ Cardinality(down) \in Nat
  BY <1>1, <1>2, FS_Subset, FS_CardinalityType
<1>4. all = up \cup down /\ up \cap down = {}
  <2>1. ASSUME NEW e \in Node \X Node, e[2] \in a[e[1]] PROVE e[1] < e[2] \/ e[2] < e[1]
    <3>1. e[1] \in Node /\ e[2] \in Node /\ e[1] # e[2]
      BY <2>1 DEF Symmetric
    <3> QED BY <3>1, NAssumption DEF Node
  <2>2. \A e \in Node \X Node : ~(e[1] < e[2] /\ e[2] < e[1])
    <3> SUFFICES ASSUME NEW e \in Node \X Node PROVE ~(e[1] < e[2] /\ e[2] < e[1])
      OBVIOUS
    <3>1. e[1] \in Int /\ e[2] \in Int
      BY NAssumption DEF Node
    <3> QED BY <3>1
  <2>3. all = up \cup down
    BY <2>1 DEF PairsOf
  <2>4. up \cap down = {}
    BY <2>2 DEF PairsOf
  <2> QED BY <2>3, <2>4
<1>5. flip \in Bijection(up, down)
  <2>1. ASSUME NEW x \in Node, NEW y \in Node PROVE y \in a[x] <=> x \in a[y]
    BY DEF Symmetric
  <2>2. \A e \in up : flip[e] \in down /\ flip[e] = <<e[2], e[1]>> /\ e \in Node \X Node
    BY <2>1 DEF PairsOf
  <2>3. \A d \in down : <<d[2], d[1]>> \in up /\ flip[<<d[2], d[1]>>] = d
    BY <2>1 DEF PairsOf
  <2>4. flip \in [up -> down]
    BY <2>2
  <2>5. \A e, f \in up : flip[e] = flip[f] => e = f
    BY <2>2
  <2>6. \A d \in down : \E e \in up : flip[e] = d
    BY <2>3
  <2> HIDE DEF flip, up, down
  <2> QED BY <2>4, <2>5, <2>6 DEF Bijection, Injection, IsInjective, Surjection
<1>6. Cardinality(down) = Cardinality(up)
  <2>1. ExistsBijection(up, down)
    BY <1>5 DEF ExistsBijection
  <2> QED BY <1>3, <2>1, FS_Bijection
<1>7. Cardinality(all) = Cardinality(up) + Cardinality(down) - Cardinality(up \cap down)
  BY <1>3, <1>4, FS_Union
<1>8. Cardinality(up \cap down) = 0
  BY <1>4, FS_EmptySet
<1> HIDE DEF up, down
<1> QED BY <1>3, <1>6, <1>7, <1>8 DEF up, PairNumber

\* The counts follow the gains.
LEMMA PairsGained ==
  ASSUME NEW a, NEW b, Symmetric(a), Symmetric(b)
  PROVE  /\ PairNumber(b) = PairNumber(a) + Cardinality(Gain(a, b)) - Cardinality(Gain(b, a))
         /\ PairNumber(b) = PairNumber(a) + (Cardinality(Gain(a, b)) - Cardinality(Gain(b, a)))
         /\ Cardinality(Gain(a, b)) \in Nat /\ Cardinality(Gain(b, a)) \in Nat
<1> DEFINE P == PairsOf(a)
           Q == PairsOf(b)
<1>1. Gain(a, b) = Q \ P /\ Gain(b, a) = P \ Q
  BY DEF Gain, PairsOf
<1>2. IsFiniteSet(P) /\ IsFiniteSet(Q) /\ Cardinality(P) \in Nat /\ Cardinality(Q) \in Nat
  BY EntriesArePairs DEF PairNumber
<1>3. /\ Cardinality(Q \ P) = Cardinality(Q) - Cardinality(Q \cap P) /\ IsFiniteSet(Q \ P)
      /\ Cardinality(P \ Q) = Cardinality(P) - Cardinality(P \cap Q) /\ IsFiniteSet(P \ Q)
      /\ IsFiniteSet(P \cap Q)
  BY <1>2, FS_Difference, FS_Intersection
<1>4. Q \cap P = P \cap Q
  OBVIOUS
<1>5. Cardinality(P \cap Q) \in Nat /\ Cardinality(P \ Q) \in Nat /\ Cardinality(Q \ P) \in Nat
  BY <1>3, FS_CardinalityType
<1> HIDE DEF P, Q
<1>6. \A p, q, i, gained, lost \in Nat :
        gained = q - i /\ lost = p - i => q = p + gained - lost /\ q = p + (gained - lost)
  OBVIOUS
<1>7. /\ Cardinality(Q) = Cardinality(P) + Cardinality(Q \ P) - Cardinality(P \ Q)
      /\ Cardinality(Q) = Cardinality(P) + (Cardinality(Q \ P) - Cardinality(P \ Q))
  <2>1. Cardinality(Q \ P) = Cardinality(Q) - Cardinality(P \cap Q)
    BY <1>3, <1>4
  <2> QED BY <1>2, <1>3, <1>5, <1>6, <2>1
<1>8. PairNumber(a) = Cardinality(P) /\ PairNumber(b) = Cardinality(Q)
  BY DEF PairNumber, P, Q
<1> QED BY <1>1, <1>5, <1>7, <1>8

\* Where the two counts are in each phase.
CountInv ==
  /\ numEntries = 2 * PairNumber(IF phase \in BatchPhases \ {"csr", "mirrored"}
                                 THEN before.graph.adj ELSE Adjacent(rows))
  /\ pairCount = PairNumber(IF phase \in BatchPhases THEN before.graph.adj ELSE Adjacent(rows))

LEMMA CountInvInit == Init => CountInv
<1> SUFFICES ASSUME Init PROVE CountInv
  OBVIOUS
<1>1. HostFacts /\ phase = "idle"
  BY BInvInit DEF BInv, Init, HostInit
<1>2. Symmetric(Adjacent(rows)) /\ HostLineGraph = Adjacent(rows)
  BY <1>1, AdjacentFacts, HostLineGraphIsAdjacent DEF HostFacts
<1>3. EntryCount(HostLineGraph) = 2 * PairNumber(Adjacent(rows)) /\ PairNumber(Adjacent(rows)) \in Nat
  BY <1>2, EntriesArePairs DEF EntryCount
<1>4. (2 * PairNumber(Adjacent(rows))) \div 2 = PairNumber(Adjacent(rows))
  BY <1>3
<1>5. numEntries = EntryCount(HostLineGraph) /\ pairCount = EntryCount(HostLineGraph) \div 2
  BY DEF Init
<1> QED BY <1>1, <1>3, <1>4, <1>5 DEF CountInv, BatchPhases

\* Steps that do not count.
LEMMA CountInvStill ==
  ASSUME CountInv, UNCHANGED <<numEntries, pairCount, before, rows>>,
         phase' \in BatchPhases <=> phase \in BatchPhases,
         phase' \in {"csr", "mirrored"} <=> phase \in {"csr", "mirrored"}
  PROVE  CountInv'
BY DEF CountInv

LEMMA CountInvNext == BInv /\ BInv' /\ CountInv /\ [Next]_bvars => CountInv'
<1> SUFFICES ASSUME BInv, BInv', CountInv, [Next]_bvars PROVE CountInv'
  OBVIOUS
<1>1. ASSUME phase = "idle", NEW s \in AdoptedInsertions, BeginBatch(s) PROVE CountInv'
  <2>1. /\ before'.graph.adj = Adjacent(rows) /\ phase' = "heDelete"
        /\ UNCHANGED <<numEntries, pairCount>>
    <3>1. csr.row = Adjacent(rows)
      BY <1>1 DEF BInv, Settled, AllMirrored
    <3> QED BY <1>1, <3>1 DEF BeginBatch, HostBegin, DeviceGraph, deviceVars, csrVars
  <2> QED BY <1>1, <2>1 DEF CountInv, BatchPhases
<1>2. ASSUME phase = "idle", NEW s \in AdoptedInsertions, BeginBatchThrows(s) PROVE CountInv'
  BY <1>2, CountInvStill DEF BeginBatchThrows, BatchPhases, deviceVars, csrVars, incidenceVars
<1>3. CASE HostStep
  <2>1. /\ UNCHANGED <<numEntries, pairCount, before>>
        /\ InBatch /\ (InBatch' \/ phase' = "applied")
    BY <1>3 DEF HostStep, BatchOp, DeleteHyperedge, DeleteVertex, InsertVertex, InsertHyperedge, HostDone,
                InBatch, deviceVars, csrVars, escherVars
  <2> QED BY <2>1 DEF CountInv, BatchPhases, InBatch
<1>4. CASE FindCandidates \/ ClassifyPairs
  BY <1>4, CountInvStill DEF FindCandidates, ClassifyPairs, BatchPhases, csrVars, escherVars, incidenceVars
<1>5. CASE LaunchApplyRows
  <2>1. /\ phase = "classified" /\ phase' = "csr" /\ rows' = rows /\ before' = before /\ pairCount' = pairCount
        /\ numEntries' = numEntries + 2 * (Cardinality(delta.ins) - Cardinality(delta.del))
    BY <1>5 DEF LaunchApplyRows, incidenceVars, escherVars
  <2> DEFINE a == before.graph.adj
             b == Adjacent(rows)
  <2>2. Symmetric(a) /\ Symmetric(b) /\ delta.del = Gain(b, a) /\ delta.ins = Gain(a, b)
    BY <2>1, DeltaRows DEF DeltaExact
  <2>3. numEntries = 2 * PairNumber(a) /\ pairCount = PairNumber(a)
    BY <2>1 DEF CountInv, BatchPhases
  <2> HIDE DEF a, b
  <2>4. PairNumber(a) \in Nat /\ PairNumber(b) \in Nat
    BY <2>2, EntriesArePairs
  <2>5. numEntries' = 2 * PairNumber(b)
    BY <2>1, <2>2, <2>3, <2>4, PairsGained
  <2> QED BY <2>1, <2>3, <2>5 DEF CountInv, BatchPhases, a, b
<1>6. ASSUME NEW h \in Node, ApplyRow(h) PROVE CountInv'
  BY <1>6, CountInvStill DEF ApplyRow, BatchPhases, escherVars, hostVars, incidenceVars
<1>7. CASE CsrPatched
  BY <1>7, CountInvStill DEF CsrPatched, BatchPhases, escherVars, incidenceVars
<1>8. CASE CsrRebuilt
  <2>1. /\ phase = "csr" /\ phase' = "mirrored" /\ rows' = rows /\ before' = before /\ pairCount' = pairCount
        /\ numEntries' = EntryCount(HostLineGraph) /\ HostFacts
    BY <1>8 DEF CsrRebuilt, incidenceVars, escherVars, BInv
  <2>2. numEntries' = 2 * PairNumber(Adjacent(rows))
    BY <2>1, AdjacentFacts, HostLineGraphIsAdjacent, EntriesArePairs DEF HostFacts, EntryCount
  <2> QED BY <2>1, <2>2 DEF CountInv, BatchPhases
<1>9. CASE FinishBatch
  <2>1. /\ phase = "mirrored" /\ phase' = "idle" /\ rows' = rows /\ numEntries' = numEntries
        /\ pairCount' = pairCount + Cardinality(delta.ins) - Cardinality(delta.del)
    BY <1>9 DEF FinishBatch, incidenceVars, deviceVars, csrVars
  <2> DEFINE a == before.graph.adj
             b == Adjacent(rows)
  <2>2. Symmetric(a) /\ Symmetric(b) /\ delta.del = Gain(b, a) /\ delta.ins = Gain(a, b)
    BY <2>1, DeltaRows DEF DeltaExact
  <2>3. numEntries = 2 * PairNumber(b) /\ pairCount = PairNumber(a)
    BY <2>1 DEF CountInv, BatchPhases
  <2> HIDE DEF a, b
  <2>4. PairNumber(a) \in Nat /\ PairNumber(b) \in Nat
    BY <2>2, EntriesArePairs
  <2>5. pairCount' = PairNumber(b)
    BY <2>1, <2>2, <2>3, <2>4, PairsGained
  <2> QED BY <2>1, <2>3, <2>5 DEF CountInv, BatchPhases, b
<1>10. CASE Stopped \/ UNCHANGED bvars
  BY <1>10 DEF Stopped, bvars, hostVars, incidenceVars, deviceVars, csrVars, escherVars, CountInv
<1> QED BY <1>1, <1>2, <1>3, <1>4, <1>5, <1>6, <1>7, <1>8, <1>9, <1>10 DEF Next

(***************************************************************************)
(* The counts that are kept by adding up the changes stay those of the     *)
(* line graph (numEntries, h2hPairCount: HypergraphDynamic.cu:301,         *)
(* hsospDelta.cu).                                                         *)
(***************************************************************************)
THEOREM CountsStayExact == Spec => []CountsExact
<1>1. Spec => [](BInv /\ CountInv)
  BY BatchInvariant, BInvInit, CountInvInit, CountInvNext, PTL DEF Spec
<1>2. BInv /\ CountInv => CountsExact
  <2> SUFFICES ASSUME BInv, CountInv, Settled
               PROVE  numEntries = Entries(DeviceGraph) /\ 2 * pairCount = numEntries
    BY DEF CountsExact
  <2>1. AllMirrored /\ rows \in [Node -> SUBSET Vertex] /\ phase \notin BatchPhases
    BY DEF BInv, HostFacts, Settled, BatchPhases
  <2>2. Symmetric(Adjacent(rows)) /\ csr.row = Adjacent(rows)
    BY <2>1, AdjacentFacts DEF AllMirrored
  <2>3. Entries(DeviceGraph) = 2 * PairNumber(Adjacent(rows))
    BY <2>2, EntriesArePairs DEF Entries, DeviceGraph
  <2> QED BY <2>1, <2>3 DEF CountInv
<1> QED BY <1>1, <1>2, PTL

(***************************************************************************)
(* What a batch leaves on the device is exact: the mirror, the line graph  *)
(* and the counts (hsospDelta.cu:867-945).                                 *)
(***************************************************************************)
THEOREM DeviceStaysExact == Spec => []DeviceExact
BY MirrorStaysExact, LineGraphStaysExact, CountsStayExact, PTL DEF DeviceExact

-----------------------------------------------------------------------------
(***************************************************************************)
(* Where applyBatch stores what it computes.  The rows of the growing      *)
(* device arrays never overlap or exceed their slots, and the three ESCHER *)
(* trees agree with the host.                                              *)
(*                                                                         *)
(* The argument for the arrays: the slots given out together follow each   *)
(* other, because each starts at the sum of the smaller ones, and they     *)
(* start at the tail, past every slot in use; a row is only written in     *)
(* place when its slot holds it.                                           *)
(*                                                                         *)
(* The argument for the trees: in a batch they lack exactly what the host  *)
(* has listed so far, deletions before insertions, and finishBatch applies *)
(* the lists; the h2h rows change by the delta, which is the difference    *)
(* between the two line graphs, under the keys of the hyperedges that live *)
(* on and new ones for the others.                                         *)
(***************************************************************************)

-----------------------------------------------------------------------------
(***************************************************************************)
(* Sums.  A sum over a finite set is defined by taking its members in an   *)
(* order that CHOOSE determines; first there is a sum that does not depend *)
(* on an order, then the fold is this sum.                                 *)
(***************************************************************************)
SumOver(f, S) == MapThenSumSet(LAMBDA j : f[j], S)

\* g[S] is the sum of f over S, for every S.
IsSum(g, f, D) ==
  /\ g \in [SUBSET D -> Nat] /\ g[{}] = 0
  /\ \A S \in SUBSET D : \A x \in D \ S : g[S \cup {x}] = g[S] + f[x]
  /\ \A S, T \in SUBSET D : S \subseteq T => g[S] <= g[T]

LEMMA SumExists ==
  ASSUME NEW f, NEW D, IsFiniteSet(D), \A x \in D : f[x] \in Nat
  PROVE  \E g : IsSum(g, f, D)
<1> DEFINE T == {n \in Nat : \A E : IsFiniteSet(E) /\ Cardinality(E) = n /\ E \subseteq D => \E g : IsSum(g, f, E)}
<1>1. 0 \in T
  <2> SUFFICES ASSUME NEW E, IsFiniteSet(E), Cardinality(E) = 0 PROVE \E g : IsSum(g, f, E)
    OBVIOUS
  <2>1. E = {}
    BY FS_EmptySet
  <2>2. IsSum([S \in SUBSET E |-> 0], f, E)
    BY <2>1 DEF IsSum
  <2> QED BY <2>2
<1>2. ASSUME NEW n \in Nat, n \in T PROVE n + 1 \in T
  <2> SUFFICES ASSUME NEW E, IsFiniteSet(E), Cardinality(E) = n + 1, E \subseteq D PROVE \E g : IsSum(g, f, E)
    OBVIOUS
  <2>1. PICK y : y \in E
    BY FS_EmptySet
  <2>2. IsFiniteSet(E \ {y}) /\ Cardinality(E \ {y}) = n
    <3>1. IsFiniteSet(E \ {y}) /\ Cardinality(E \ {y}) = Cardinality(E) - 1
      BY <2>1, FS_RemoveElement
    <3> QED BY <3>1
  <2>3. PICK g : IsSum(g, f, E \ {y})
    BY <1>2, <2>2
  <2> DEFINE h == [S \in SUBSET E |-> IF y \in S THEN g[S \ {y}] + f[y] ELSE g[S]]
  <2>4. f[y] \in Nat
    BY <2>1
  <2>5. \A S \in SUBSET E : /\ S \ {y} \in SUBSET (E \ {y}) /\ g[S \ {y}] \in Nat
                            /\ y \notin S => S \ {y} = S
    BY <2>3 DEF IsSum
  <2>6. \A S \in SUBSET E : /\ y \in S => h[S] = g[S \ {y}] + f[y]
                            /\ y \notin S => h[S] = g[S \ {y}]
    BY <2>5
  <2>7. h \in [SUBSET E -> Nat] /\ h[{}] = 0
    <3>1. {} \in SUBSET E /\ {} \ {y} = {} /\ g[{}] = 0
      BY <2>3 DEF IsSum
    <3>2. ASSUME NEW S \in SUBSET E PROVE h[S] \in Nat
      <4>1. g[S \ {y}] \in Nat
        BY <2>5
      <4>2. \A p, q \in Nat : p + q \in Nat
        OBVIOUS
      <4> HIDE DEF h
      <4> QED BY <2>4, <2>6, <4>1, <4>2
    <3> QED BY <3>1, <3>2
  <2>8. ASSUME NEW S \in SUBSET E, NEW x \in E \ S PROVE h[S \cup {x}] = h[S] + f[x]
    <3>1. S \cup {x} \in SUBSET E
      OBVIOUS
    <3>2. CASE x = y
      <4>1. (S \cup {x}) \ {y} = S \ {y} /\ y \notin S /\ y \in S \cup {x}
        BY <2>8, <3>2
      <4> QED BY <2>6, <3>1, <3>2, <4>1
    <3>3. CASE x # y
      <4>1. (S \cup {x}) \ {y} = (S \ {y}) \cup {x} /\ x \in (E \ {y}) \ (S \ {y})
        BY <2>8, <3>3
      <4>2. g[(S \ {y}) \cup {x}] = g[S \ {y}] + f[x]
        BY <2>3, <2>5, <4>1 DEF IsSum
      <4>3. f[x] \in Nat /\ (y \in S \cup {x} <=> y \in S)
        BY <3>3
      <4>4. g[S \ {y}] \in Nat
        BY <2>5
      <4>5. \A p, q, r \in Nat : (p + q) + r = (p + r) + q
        OBVIOUS
      <4> HIDE DEF h
      <4>6. CASE y \in S
        <5>1. h[S \cup {x}] = (g[S \ {y}] + f[x]) + f[y] /\ h[S] = g[S \ {y}] + f[y]
          BY <2>6, <3>1, <4>1, <4>2, <4>3, <4>6
        <5> QED BY <2>4, <4>3, <4>4, <4>5, <5>1
      <4>7. CASE y \notin S
        <5>1. h[S \cup {x}] = g[S \ {y}] + f[x] /\ h[S] = g[S \ {y}]
          BY <2>6, <3>1, <4>1, <4>2, <4>3, <4>7
        <5> QED BY <5>1
      <4> QED BY <4>6, <4>7
    <3> QED BY <3>2, <3>3
  <2>9. ASSUME NEW S \in SUBSET E, NEW U \in SUBSET E, S \subseteq U PROVE h[S] <= h[U]
    <3>1. S \ {y} \subseteq U \ {y} /\ g[S \ {y}] <= g[U \ {y}]
      BY <2>3, <2>5, <2>9 DEF IsSum
    <3>2. g[S \ {y}] \in Nat /\ g[U \ {y}] \in Nat
      BY <2>5
    <3>3. \A p, q, r \in Nat : p <= q => p + r <= q + r /\ p <= q + r
      OBVIOUS
    <3> HIDE DEF h
    <3>4. CASE y \in S
      <4>1. h[S] = g[S \ {y}] + f[y] /\ h[U] = g[U \ {y}] + f[y]
        BY <2>6, <2>9, <3>4
      <4> QED BY <2>4, <3>1, <3>2, <3>3, <4>1
    <3>5. CASE y \notin S
      <4>1. h[S] = g[S \ {y}] /\ (h[U] = g[U \ {y}] \/ h[U] = g[U \ {y}] + f[y])
        BY <2>6, <3>5
      <4> QED BY <2>4, <3>1, <3>2, <3>3, <4>1
    <3> QED BY <3>4, <3>5
  <2> HIDE DEF h
  <2> QED BY <2>7, <2>8, <2>9 DEF IsSum
<1> HIDE DEF T
<1>3. Cardinality(D) \in T
  <2>1. Cardinality(D) \in Nat
    BY FS_CardinalityType
  <2> QED BY <1>1, <1>2, <2>1, NatSetInduction
<1> QED BY <1>3 DEF T

\* The recursion by which the library sums.
IsFold(k, f, S) ==
  k = [s \in SUBSET S |-> IF s = {} THEN 0
                          ELSE LET x == CHOOSE y \in s : TRUE IN f[x] + k[s \ {x}]]

LEMMA SumIsFold == ASSUME NEW f, NEW S PROVE SumOver(f, S) = (CHOOSE k : IsFold(k, f, S))[S]
BY DEF SumOver, MapThenSumSet, MapThenFoldSet, IsFold

LEMMA SumIs ==
  ASSUME NEW f, NEW D, IsFiniteSet(D), \A x \in D : f[x] \in Nat, NEW g, IsSum(g, f, D), NEW S \in SUBSET D
  PROVE  SumOver(f, S) = g[S]
<1>1. IsFiniteSet(S)
  BY FS_Subset
<1>2. ASSUME NEW s \in SUBSET S, s # {}
      PROVE LET x == CHOOSE y \in s : TRUE
            IN  x \in s /\ f[x] \in Nat /\ s \ {x} \in SUBSET S /\ g[s \ {x}] \in Nat /\ g[s] = f[x] + g[s \ {x}]
  <2> DEFINE x == CHOOSE y \in s : TRUE
  <2>1. x \in s
    BY <1>2
  <2> HIDE DEF x
  <2>2. s \ {x} \in SUBSET D /\ x \in D \ (s \ {x}) /\ (s \ {x}) \cup {x} = s
    BY <2>1
  <2>3. g[s] = g[s \ {x}] + f[x] /\ g[s \ {x}] \in Nat /\ f[x] \in Nat
    BY <2>2 DEF IsSum
  <2>4. x \in s /\ f[x] \in Nat /\ s \ {x} \in SUBSET S /\ g[s \ {x}] \in Nat /\ g[s] = f[x] + g[s \ {x}]
    BY <2>1, <2>3
  <2> QED BY <2>4 DEF x
<1>3. IsFold([s \in SUBSET S |-> g[s]], f, S)
  <2> DEFINE h == [s \in SUBSET S |-> g[s]]
  <2>1. ASSUME NEW s \in SUBSET S
        PROVE  h[s] = IF s = {} THEN 0 ELSE LET x == CHOOSE y \in s : TRUE IN f[x] + h[s \ {x}]
    <3>1. CASE s = {}
      BY <3>1 DEF IsSum
    <3>2. CASE s # {}
      <4> DEFINE x == CHOOSE y \in s : TRUE
      <4>1. s \ {x} \in SUBSET S /\ g[s] = f[x] + g[s \ {x}]
        BY <1>2, <3>2
      <4> HIDE DEF x
      <4>2. h[s] = f[x] + h[s \ {x}]
        BY <4>1
      <4> QED BY <3>2, <4>2 DEF x
    <3> QED BY <3>1, <3>2
  <2>2. h = [s \in SUBSET S |-> h[s]]
    OBVIOUS
  <2> HIDE DEF h
  <2>3. h = [s \in SUBSET S |-> IF s = {} THEN 0 ELSE LET x == CHOOSE y \in s : TRUE IN f[x] + h[s \ {x}]]
    BY <2>1, <2>2
  <2>4. IsFold(h, f, S)
    BY <2>3 DEF IsFold
  <2> QED BY <2>4 DEF h
<1> DEFINE k == CHOOSE k : IsFold(k, f, S)
<1>4. IsFold(k, f, S)
  BY <1>3
<1> HIDE DEF k
<1> DEFINE T == {n \in Nat : \A s \in SUBSET S : Cardinality(s) = n => k[s] = g[s]}
<1>5. 0 \in T
  <2> SUFFICES ASSUME NEW s \in SUBSET S, Cardinality(s) = 0 PROVE k[s] = g[s]
    OBVIOUS
  <2>1. s = {}
    BY <1>1, FS_Subset, FS_EmptySet
  <2> QED BY <1>4, <2>1 DEF IsFold, IsSum
<1>6. ASSUME NEW n \in Nat, n \in T PROVE n + 1 \in T
  <2> SUFFICES ASSUME NEW s \in SUBSET S, Cardinality(s) = n + 1 PROVE k[s] = g[s]
    OBVIOUS
  <2>1. s # {} /\ IsFiniteSet(s)
    BY <1>1, FS_Subset, FS_EmptySet
  <2> DEFINE x == CHOOSE y \in s : TRUE
  <2>2. x \in s /\ s \ {x} \in SUBSET S /\ g[s] = f[x] + g[s \ {x}]
    BY <1>2, <2>1
  <2>3. k[s] = f[x] + k[s \ {x}]
    BY <1>4, <2>1 DEF IsFold
  <2> HIDE DEF x
  <2>4. Cardinality(s \ {x}) = n
    <3>1. Cardinality(s \ {x}) = Cardinality(s) - 1
      BY <2>1, <2>2, FS_RemoveElement
    <3> QED BY <3>1
  <2>5. k[s \ {x}] = g[s \ {x}]
    BY <1>6, <2>2, <2>4
  <2> QED BY <2>2, <2>3, <2>5
<1>7. Cardinality(S) \in T
  <2>1. Cardinality(S) \in Nat
    BY <1>1, FS_CardinalityType
  <2> HIDE DEF T
  <2> QED BY <1>5, <1>6, <2>1, NatSetInduction
<1>8. k[S] = g[S]
  BY <1>7
<1> QED BY <1>8, SumIsFold DEF k

\* What the sums of natural numbers over a finite set do.
LEMMA SumFacts ==
  ASSUME NEW f, NEW D, IsFiniteSet(D), \A x \in D : f[x] \in Nat
  PROVE  /\ \A S \in SUBSET D : SumOver(f, S) \in Nat
         /\ \A S \in SUBSET D : \A x \in D \ S : SumOver(f, S \cup {x}) = SumOver(f, S) + f[x]
         /\ \A S, T \in SUBSET D : S \subseteq T => SumOver(f, S) <= SumOver(f, T)
<1>1. PICK g : IsSum(g, f, D)
  BY SumExists
<1>2. ASSUME NEW S \in SUBSET D PROVE SumOver(f, S) = g[S] /\ g[S] \in Nat
  <2>1. SumOver(f, S) = g[S]
    BY <1>1, SumIs
  <2> QED BY <1>1, <2>1 DEF IsSum
<1>3. \A S \in SUBSET D : \A x \in D \ S : S \cup {x} \in SUBSET D
  OBVIOUS
<1> QED BY <1>1, <1>2, <1>3 DEF IsSum

-----------------------------------------------------------------------------
(***************************************************************************)
(* Row arrays.                                                             *)
(***************************************************************************)

\* Slots laid one after the other do not overlap and end where the total says.
LEMMA SlotFacts ==
  ASSUME NEW slots, IsFiniteSet(DOMAIN slots), DOMAIN slots \subseteq Int,
         \A k \in DOMAIN slots : slots[k] \in Nat, NEW base \in Nat
  PROVE  /\ TotalOf(slots) \in Nat
         /\ \A k \in DOMAIN slots :
              /\ SlotStart(slots, base, k) \in Nat /\ base <= SlotStart(slots, base, k)
              /\ SlotStart(slots, base, k) + slots[k] <= base + TotalOf(slots)
         /\ \A j, k \in DOMAIN slots :
              j < k => SlotStart(slots, base, j) + slots[j] <= SlotStart(slots, base, k)
<1> DEFINE D == DOMAIN slots
           Below(k) == {j \in D : j < k}
<1>1. TotalOf(slots) = SumOver(slots, D)
  BY DEF TotalOf, SumOver
<1>2. ASSUME NEW k PROVE SlotStart(slots, base, k) = base + SumOver(slots, Below(k))
  BY DEF SlotStart, SumOver
<1>3. /\ \A S \in SUBSET D : SumOver(slots, S) \in Nat
      /\ \A S \in SUBSET D : \A x \in D \ S : SumOver(slots, S \cup {x}) = SumOver(slots, S) + slots[x]
      /\ \A S, T \in SUBSET D : S \subseteq T => SumOver(slots, S) <= SumOver(slots, T)
  BY SumFacts
<1>4. ASSUME NEW k \in D
      PROVE  /\ SumOver(slots, Below(k)) \in Nat
             /\ SumOver(slots, Below(k) \cup {k}) = SumOver(slots, Below(k)) + slots[k]
             /\ SumOver(slots, Below(k) \cup {k}) <= SumOver(slots, D)
             /\ \A m \in D : k < m => SumOver(slots, Below(k) \cup {k}) <= SumOver(slots, Below(m))
  <2>1. Below(k) \in SUBSET D /\ k \in D \ Below(k) /\ Below(k) \cup {k} \in SUBSET D
    OBVIOUS
  <2>2. ASSUME NEW m \in D, k < m PROVE Below(k) \cup {k} \subseteq Below(m) /\ Below(m) \in SUBSET D
    BY <2>2
  <2> HIDE DEF Below
  <2> QED BY <1>3, <2>1, <2>2
<1>5. SumOver(slots, D) \in Nat
  BY <1>3
<1> HIDE DEF Below, D
<1>6. ASSUME NEW k \in D
      PROVE  /\ SlotStart(slots, base, k) \in Nat /\ base <= SlotStart(slots, base, k)
             /\ SlotStart(slots, base, k) + slots[k] <= base + TotalOf(slots)
             /\ \A m \in D : k < m => SlotStart(slots, base, k) + slots[k] <= SlotStart(slots, base, m)
  <2>1. \A s, b, t, c \in Nat : /\ b + s \in Nat /\ b <= b + s
                                /\ s + c <= t => (b + s) + c <= b + t
    OBVIOUS
  <2>2. slots[k] \in Nat /\ TotalOf(slots) \in Nat
    BY <1>1, <1>5 DEF D
  <2>3. SumOver(slots, Below(k)) + slots[k] <= TotalOf(slots)
    BY <1>1, <1>4
  <2>4. \A m \in D : k < m => SumOver(slots, Below(k)) + slots[k] <= SumOver(slots, Below(m))
    BY <1>4
  <2> DEFINE below == SumOver(slots, Below(k))
  <2>5. below \in Nat /\ SlotStart(slots, base, k) = base + below
    BY <1>2, <1>4
  <2>6. SlotStart(slots, base, k) \in Nat /\ base <= SlotStart(slots, base, k)
    BY <2>1, <2>5
  <2>7. SlotStart(slots, base, k) + slots[k] <= base + TotalOf(slots)
    BY <2>1, <2>2, <2>3, <2>5
  <2>8. ASSUME NEW m \in D, k < m PROVE SlotStart(slots, base, k) + slots[k] <= SlotStart(slots, base, m)
    <3>1. SumOver(slots, Below(m)) \in Nat /\ SlotStart(slots, base, m) = base + SumOver(slots, Below(m))
      BY <1>2, <1>4
    <3> QED BY <2>1, <2>2, <2>4, <2>5, <2>8, <3>1
  <2> QED BY <2>6, <2>7, <2>8
<1> QED BY <1>1, <1>5, <1>6 DEF D

\* The parts of an array with the rows K.
ArenaOver(a, K) ==
  /\ IsArena(a) /\ a.off \in [K -> Nat] /\ a.cap \in [K -> Nat] /\ DOMAIN a.row = K
  /\ a.tail \in Nat /\ a.capacity \in Nat

LEMMA LayOutSound ==
  ASSUME NEW K, IsFiniteSet(K), K \subseteq Int, NEW slots \in [K -> Nat], NEW room \in Nat,
         NEW r, DOMAIN r = K, \A k \in K : Cardinality(r[k]) <= slots[k]
  PROVE  ArenaOver(LayOut(r, slots, room), K) /\ Sound(LayOut(r, slots, room))
<1> DEFINE a == LayOut(r, slots, room)
           total == TotalOf(slots)
<1>1. /\ total \in Nat
      /\ \A k \in K : SlotStart(slots, 0, k) \in Nat /\ SlotStart(slots, 0, k) + slots[k] <= 0 + total
      /\ \A j, k \in K : j < k => SlotStart(slots, 0, j) + slots[j] <= SlotStart(slots, 0, k)
  <2>1. DOMAIN slots = K /\ 0 \in Nat
    OBVIOUS
  <2> QED BY <2>1, SlotFacts
<1>2. /\ a.off = [k \in K |-> SlotStart(slots, 0, k)] /\ a.cap = slots /\ a.row = r
      /\ a.tail = total /\ a.capacity = total + room /\ IsArena(a)
  BY DEF LayOut, IsArena
<1> HIDE DEF a, total
<1>3. ArenaOver(a, K)
  BY <1>1, <1>2 DEF ArenaOver
<1>4. Sound(a)
  <2>1. a.tail <= a.capacity
    BY <1>1, <1>2
  <2>2. \A k \in K : Cardinality(a.row[k]) <= a.cap[k] /\ a.off[k] + a.cap[k] <= a.tail
    BY <1>1, <1>2
  <2>3. ASSUME NEW j \in K, NEW k \in K, j # k
        PROVE  a.off[j] + a.cap[j] <= a.off[k] \/ a.off[k] + a.cap[k] <= a.off[j]
    <3>1. j < k \/ k < j
      BY <2>3
    <3> QED BY <1>1, <1>2, <3>1
  <2>4. DOMAIN a.row = K
    BY <1>2
  <2> QED BY <2>1, <2>2, <2>3, <2>4 DEF Sound
<1> QED BY <1>3, <1>4 DEF a

LEMMA MovedSound ==
  ASSUME NEW K, IsFiniteSet(K), K \subseteq Int, NEW a, ArenaOver(a, K),
         NEW slots, DOMAIN slots \subseteq K, \A k \in DOMAIN slots : slots[k] \in Nat,
         NEW r, DOMAIN r = K
  PROVE  LET b == [Moved(a, slots) EXCEPT !.row = r]
         IN  /\ TotalOf(slots) \in Nat
             /\ ArenaOver(b, K)
             /\ Sound(a) /\ RoomFor(a, slots)
                /\ (\A k \in K : Cardinality(r[k]) <= IF k \in DOMAIN slots THEN slots[k] ELSE a.cap[k])
                => Sound(b)
<1> DEFINE b == [Moved(a, slots) EXCEPT !.row = r]
           total == TotalOf(slots)
<1>1. /\ total \in Nat
      /\ \A k \in DOMAIN slots :
           /\ SlotStart(slots, a.tail, k) \in Nat /\ a.tail <= SlotStart(slots, a.tail, k)
           /\ SlotStart(slots, a.tail, k) + slots[k] <= a.tail + total
      /\ \A j, k \in DOMAIN slots : j < k => SlotStart(slots, a.tail, j) + slots[j] <= SlotStart(slots, a.tail, k)
  <2>1. IsFiniteSet(DOMAIN slots) /\ DOMAIN slots \subseteq Int /\ a.tail \in Nat
    BY FS_Subset DEF ArenaOver
  <2> QED BY <2>1, SlotFacts
<1>2. /\ b.off = [k \in K |-> IF k \in DOMAIN slots THEN SlotStart(slots, a.tail, k) ELSE a.off[k]]
      /\ b.cap = [k \in K |-> IF k \in DOMAIN slots THEN slots[k] ELSE a.cap[k]]
      /\ b.row = r /\ b.tail = a.tail + total /\ b.capacity = a.capacity /\ IsArena(b)
  <2> DEFINE off == [k \in K |-> IF k \in DOMAIN slots THEN SlotStart(slots, a.tail, k) ELSE a.off[k]]
             cap == [k \in K |-> IF k \in DOMAIN slots THEN slots[k] ELSE a.cap[k]]
  <2>1. DOMAIN a.off = K /\ DOMAIN a.cap = K /\ IsArena(a)
    BY DEF ArenaOver
  <2>2. Moved(a, slots) = [a EXCEPT !.off = off, !.cap = cap, !.tail = a.tail + total]
    BY <2>1 DEF Moved, IsArena
  <2> HIDE DEF off, cap, total
  <2>3. Moved(a, slots) = [off |-> off, cap |-> cap, row |-> a.row, tail |-> a.tail + total,
                           capacity |-> a.capacity]
    BY <2>1, <2>2 DEF IsArena
  <2>4. b = [off |-> off, cap |-> cap, row |-> r, tail |-> a.tail + total, capacity |-> a.capacity]
    BY <2>3
  <2>5. b.off = off /\ b.cap = cap /\ b.row = r /\ b.tail = a.tail + total /\ b.capacity = a.capacity /\ IsArena(b)
    BY <2>4 DEF IsArena
  <2> QED BY <2>5 DEF off, cap
<1> HIDE DEF b, total
<1>3. a.off \in [K -> Nat] /\ a.cap \in [K -> Nat] /\ a.tail \in Nat /\ a.capacity \in Nat /\ DOMAIN a.row = K
  BY DEF ArenaOver
<1>4. ArenaOver(b, K)
  <2>1. b.tail \in Nat
    BY <1>1, <1>2, <1>3
  <2> QED BY <1>1, <1>2, <1>3, <2>1 DEF ArenaOver
<1>5. ASSUME Sound(a), RoomFor(a, slots),
             \A k \in K : Cardinality(r[k]) <= IF k \in DOMAIN slots THEN slots[k] ELSE a.cap[k]
      PROVE  Sound(b)
  <2>1. b.tail <= b.capacity
    BY <1>2, <1>5 DEF RoomFor, total
  <2>2. \A k \in K : a.off[k] + a.cap[k] <= a.tail
    BY <1>3, <1>5 DEF Sound
  <2>3. ASSUME NEW k \in K PROVE Cardinality(b.row[k]) <= b.cap[k] /\ b.off[k] + b.cap[k] <= b.tail
    <3>1. Cardinality(b.row[k]) <= b.cap[k]
      BY <1>2, <1>5
    <3>2. CASE k \in DOMAIN slots
      BY <1>1, <1>2, <3>1, <3>2
    <3>3. CASE k \notin DOMAIN slots
      <4>1. b.off[k] = a.off[k] /\ b.cap[k] = a.cap[k]
        BY <1>2, <3>3
      <4>2. \A x, y, z, t \in Nat : x + y <= z => x + y <= z + t
        OBVIOUS
      <4>3. a.off[k] \in Nat /\ a.cap[k] \in Nat
        BY <1>3
      <4> QED BY <1>1, <1>2, <1>3, <2>2, <3>1, <4>1, <4>2, <4>3
    <3> QED BY <3>2, <3>3
  <2>4. ASSUME NEW j \in K, NEW k \in K, j # k, b.cap[j] # 0, b.cap[k] # 0
        PROVE  b.off[j] + b.cap[j] <= b.off[k] \/ b.off[k] + b.cap[k] <= b.off[j]
    <3>1. CASE j \in DOMAIN slots /\ k \in DOMAIN slots
      <4>1. j < k \/ k < j
        BY <2>4
      <4>2. /\ b.off[j] = SlotStart(slots, a.tail, j) /\ b.cap[j] = slots[j]
            /\ b.off[k] = SlotStart(slots, a.tail, k) /\ b.cap[k] = slots[k]
        BY <1>2, <3>1
      <4> QED BY <1>1, <3>1, <4>1, <4>2
    <3>2. ASSUME NEW x \in K, NEW y \in K, x \in DOMAIN slots, y \notin DOMAIN slots
          PROVE  b.off[y] + b.cap[y] <= b.off[x]
      <4>1. /\ b.off[x] = SlotStart(slots, a.tail, x) /\ a.tail <= b.off[x]
            /\ b.off[x] \in Nat
        BY <1>1, <1>2, <3>2
      <4>2. b.off[y] = a.off[y] /\ b.cap[y] = a.cap[y] /\ a.off[y] \in Nat /\ a.cap[y] \in Nat
        BY <1>2, <1>3, <3>2
      <4> QED BY <1>3, <2>2, <4>1, <4>2
    <3>3. CASE j \notin DOMAIN slots /\ k \notin DOMAIN slots
      <4>1. b.off[j] = a.off[j] /\ b.cap[j] = a.cap[j] /\ b.off[k] = a.off[k] /\ b.cap[k] = a.cap[k]
        BY <1>2, <3>3
      <4>2. \/ j = k \/ a.cap[j] = 0 \/ a.cap[k] = 0
            \/ a.off[j] + a.cap[j] <= a.off[k] \/ a.off[k] + a.cap[k] <= a.off[j]
        BY <1>3, <1>5 DEF Sound
      <4> QED BY <2>4, <4>1, <4>2
    <3> QED BY <3>1, <3>2, <3>3
  <2>5. DOMAIN b.row = K
    BY <1>2
  <2> QED BY <2>1, <2>3, <2>4, <2>5 DEF Sound
<1> QED BY <1>1, <1>4, <1>5 DEF b, total

\* A slot holds at least its row.
LEMMA CapacityFacts ==
  ASSUME NEW len \in Nat
  PROVE  /\ HeSlot(len) \in Nat /\ len <= HeSlot(len)
         /\ VertexSlot(len) \in Nat /\ len <= VertexSlot(len)
         /\ RowCapacity(len) \in Nat /\ len <= RowCapacity(len)
<1>1. HeSpare \in Nat /\ VertexSpare \in Nat /\ CsrSpare \in Nat /\ CsrAlign \in Nat \ {0}
  BY SpareAssumption
<1>2. len \div 2 \in Nat /\ len \div 4 \in Nat
  OBVIOUS
<1>3. ASSUME NEW x \in Nat, NEW y \in Nat PROVE AtLeast(x, y) \in Nat /\ len <= len + AtLeast(x, y)
  BY DEF AtLeast
<1>4. ASSUME NEW n \in Nat PROVE Aligned(n) \in Nat /\ n <= Aligned(n)
  <2> DEFINE q == (n + CsrAlign - 1) \div CsrAlign
             m == (n + CsrAlign - 1) % CsrAlign
  <2>1. n + CsrAlign - 1 \in Nat
    BY <1>1
  <2>2. q \in Nat /\ m \in 0 .. CsrAlign - 1 /\ n + CsrAlign - 1 = CsrAlign * q + m
    BY <1>1, <2>1
  <2> QED BY <1>1, <2>2 DEF Aligned
<1>5. \A p, q \in Nat : p + q \in Nat
  OBVIOUS
<1>6. ASSUME NEW x \in Nat, NEW y \in Nat PROVE len + AtLeast(x, y) \in Nat /\ len <= len + AtLeast(x, y)
  BY <1>3, <1>5
<1>7. RowCapacity(len) \in Nat /\ len <= RowCapacity(len)
  <2> DEFINE n == len + AtLeast(CsrSpare, len \div 4)
  <2>1. n \in Nat /\ len <= n
    BY <1>1, <1>2, <1>6
  <2>2. RowCapacity(len) = Aligned(n)
    BY DEF RowCapacity
  <2> HIDE DEF n
  <2>3. Aligned(n) \in Nat /\ n <= Aligned(n)
    BY <1>4, <2>1
  <2> QED BY <2>1, <2>2, <2>3
<1>8. HeSlot(len) \in Nat /\ len <= HeSlot(len) /\ VertexSlot(len) \in Nat /\ len <= VertexSlot(len)
  BY <1>1, <1>2, <1>6 DEF HeSlot, VertexSlot
<1> QED BY <1>7, <1>8

-----------------------------------------------------------------------------
(***************************************************************************)
(* The arrays of applyBatch.                                               *)
(***************************************************************************)
ArenaInv ==
  /\ ArenaOver(he, Node) /\ ArenaOver(vx, Vertex) /\ ArenaOver(csr, Node)
  /\ csr.row \in [Node -> SUBSET Node]
  /\ ArraysSound
  /\ phase = "applied" => \A v \in Vertex \ inc.vertices : vx.row[v] = v2h[v]

LEMMA FiniteKeys ==
  /\ IsFiniteSet(Node) /\ Node \subseteq Int
  /\ IsFiniteSet(Vertex) /\ Vertex \subseteq Int
  /\ Room \in Nat
<1>1. 0 \in Int /\ N - 1 \in Int /\ NumVertices - 1 \in Int
  BY NAssumption, VertexAssumption
<1>2. IsFiniteSet(Node) /\ IsFiniteSet(Vertex)
  BY <1>1, FS_Interval DEF Node, Vertex
<1>3. Room \in Nat
  BY SpareAssumption
<1> QED BY <1>1, <1>2, <1>3 DEF Node, Vertex

LEMMA RowLengths ==
  /\ \A S \in SUBSET Node : IsFiniteSet(S) /\ Cardinality(S) \in Nat
  /\ \A S \in SUBSET Vertex : IsFiniteSet(S) /\ Cardinality(S) \in Nat
  /\ \A S, T \in SUBSET Node : S \subseteq T => Cardinality(S) <= Cardinality(T)
<1>1. ASSUME NEW S \in SUBSET Node PROVE IsFiniteSet(S) /\ Cardinality(S) \in Nat
  BY FiniteKeys, FS_Subset, FS_CardinalityType
<1>2. ASSUME NEW S \in SUBSET Vertex PROVE IsFiniteSet(S) /\ Cardinality(S) \in Nat
  BY FiniteKeys, FS_Subset, FS_CardinalityType
<1>3. ASSUME NEW S \in SUBSET Node, NEW T \in SUBSET Node, S \subseteq T
      PROVE  Cardinality(S) <= Cardinality(T)
  BY <1>1, <1>3, FS_Subset
<1> QED BY <1>1, <1>2, <1>3

\* The rows that are laid out anew from the host.
LEMMA LaidOutFromHost ==
  ASSUME HostFacts
  PROVE  /\ LET a == LayOut(rows, HeSlots(rows, maxId), Room) IN ArenaOver(a, Node) /\ Sound(a)
         /\ LET a == LayOut(v2h, VertexSlots(v2h), Room) IN ArenaOver(a, Vertex) /\ Sound(a)
         /\ LET a == LayOut(HostLineGraph, CsrSlots(HostLineGraph, maxId), Room)
            IN  ArenaOver(a, Node) /\ Sound(a) /\ a.row \in [Node -> SUBSET Node]
<1>1. /\ rows \in [Node -> SUBSET Vertex] /\ v2h \in [Vertex -> SUBSET Node]
      /\ maxId \in Nat
      /\ \A h \in Node : ~(h < maxId) => h \notin alive
      /\ \A h \in Node : h \notin alive => rows[h] = {}
  BY NAssumption DEF HostFacts, IncidenceConsistent, IdsBelowMax, Node
<1>2. Cardinality({}) = 0
  BY FS_EmptySet
<1>3. HeSlots(rows, maxId) \in [Node -> Nat] /\ \A h \in Node : Cardinality(rows[h]) <= HeSlots(rows, maxId)[h]
  <2> SUFFICES ASSUME NEW h \in Node
               PROVE  LET c == IF h < maxId THEN HeSlot(Cardinality(rows[h])) ELSE 0
                      IN  c \in Nat /\ Cardinality(rows[h]) <= c
    BY DEF HeSlots
  <2>1. Cardinality(rows[h]) \in Nat
    BY <1>1, RowLengths
  <2>2. CASE h < maxId
    BY <2>1, <2>2, CapacityFacts
  <2>3. CASE ~(h < maxId)
    <3>1. rows[h] = {}
      BY <1>1, <2>3
    <3> QED BY <1>2, <2>3, <3>1
  <2> QED BY <2>2, <2>3
<1>4. VertexSlots(v2h) \in [Vertex -> Nat] /\ \A v \in Vertex : Cardinality(v2h[v]) <= VertexSlots(v2h)[v]
  <2> SUFFICES ASSUME NEW v \in Vertex
               PROVE  LET c == VertexSlot(Cardinality(v2h[v])) IN c \in Nat /\ Cardinality(v2h[v]) <= c
    BY DEF VertexSlots
  <2>1. Cardinality(v2h[v]) \in Nat
    BY <1>1, RowLengths
  <2> QED BY <2>1, CapacityFacts
<1> DEFINE g == HostLineGraph
<1>5. g \in [Node -> SUBSET Node] /\ \A h \in Node : h \notin alive => g[h] = {}
  BY <1>1 DEF HostLineGraph
<1> HIDE DEF g
<1>6. CsrSlots(g, maxId) \in [Node -> Nat] /\ \A h \in Node : Cardinality(g[h]) <= CsrSlots(g, maxId)[h]
  <2> SUFFICES ASSUME NEW h \in Node
               PROVE  LET c == IF h < maxId THEN RowCapacity(Cardinality(g[h])) ELSE 0
                      IN  c \in Nat /\ Cardinality(g[h]) <= c
    BY DEF CsrSlots
  <2>1. Cardinality(g[h]) \in Nat
    BY <1>5, RowLengths
  <2>2. CASE h < maxId
    BY <2>1, <2>2, CapacityFacts
  <2>3. CASE ~(h < maxId)
    <3>1. g[h] = {}
      BY <1>1, <1>5, <2>3
    <3> QED BY <1>2, <2>3, <3>1
  <2> QED BY <2>2, <2>3
<1>7. LET a == LayOut(rows, HeSlots(rows, maxId), Room) IN ArenaOver(a, Node) /\ Sound(a)
  <2>1. DOMAIN rows = Node
    BY <1>1
  <2> QED BY <1>3, <2>1, FiniteKeys, LayOutSound
<1>8. LET a == LayOut(v2h, VertexSlots(v2h), Room) IN ArenaOver(a, Vertex) /\ Sound(a)
  <2>1. DOMAIN v2h = Vertex
    BY <1>1
  <2> QED BY <1>4, <2>1, FiniteKeys, LayOutSound
<1>9. LET a == LayOut(g, CsrSlots(g, maxId), Room)
      IN  ArenaOver(a, Node) /\ Sound(a) /\ a.row \in [Node -> SUBSET Node]
  <2>1. DOMAIN g = Node
    BY <1>5
  <2>2. LayOut(g, CsrSlots(g, maxId), Room).row = g
    BY LayOutFacts
  <2> QED BY <1>5, <1>6, <2>1, <2>2, FiniteKeys, LayOutSound
<1> QED BY <1>7, <1>8, <1>9 DEF g

LEMMA ArenaInvInit == Init => ArenaInv
<1> SUFFICES ASSUME Init PROVE ArenaInv
  OBVIOUS
<1>1. HostFacts /\ phase = "idle"
  BY BInvInit DEF BInv, Init, HostInit
<1> QED BY <1>1, LaidOutFromHost DEF Init, ArenaInv, ArraysSound

\* The slots that a row moves to hold it.
LEMMA OutgrownFacts ==
  ASSUME NEW K, NEW a, ArenaOver(a, K), NEW ks \in SUBSET K, NEW len \in [K -> Nat]
  PROVE  /\ LET s == Outgrown(a, ks, len, HeSlot)
            IN  /\ DOMAIN s \subseteq K /\ \A k \in DOMAIN s : s[k] \in Nat /\ len[k] <= s[k]
                /\ \A k \in ks : k \notin DOMAIN s => len[k] <= a.cap[k]
                /\ DOMAIN s \subseteq ks
         /\ LET s == Outgrown(a, ks, len, VertexSlot)
            IN  /\ DOMAIN s \subseteq K /\ \A k \in DOMAIN s : s[k] \in Nat /\ len[k] <= s[k]
                /\ \A k \in ks : k \notin DOMAIN s => len[k] <= a.cap[k]
                /\ DOMAIN s \subseteq ks
<1>1. ASSUME NEW k \in ks PROVE len[k] \in Nat /\ a.cap[k] \in Nat /\ (~(a.cap[k] < len[k]) => len[k] <= a.cap[k])
  BY DEF ArenaOver
<1>2. ASSUME NEW k \in ks
      PROVE  HeSlot(len[k]) \in Nat /\ len[k] <= HeSlot(len[k]) /\ VertexSlot(len[k]) \in Nat /\ len[k] <= VertexSlot(len[k])
  BY <1>1, CapacityFacts
<1> DEFINE s1 == Outgrown(a, ks, len, HeSlot)
           s2 == Outgrown(a, ks, len, VertexSlot)
<1>3. s1 = [k \in {j \in ks : a.cap[j] < len[j]} |-> HeSlot(len[k])]
  BY DEF Outgrown
<1>4. s2 = [k \in {j \in ks : a.cap[j] < len[j]} |-> VertexSlot(len[k])]
  BY DEF Outgrown
<1> HIDE DEF s1, s2
<1>5. /\ DOMAIN s1 \subseteq K /\ \A k \in DOMAIN s1 : s1[k] \in Nat /\ len[k] <= s1[k]
      /\ \A k \in ks : k \notin DOMAIN s1 => len[k] <= a.cap[k]
      /\ DOMAIN s1 \subseteq ks
  BY <1>1, <1>2, <1>3
<1>6. /\ DOMAIN s2 \subseteq K /\ \A k \in DOMAIN s2 : s2[k] \in Nat /\ len[k] <= s2[k]
      /\ \A k \in ks : k \notin DOMAIN s2 => len[k] <= a.cap[k]
      /\ DOMAIN s2 \subseteq ks
  BY <1>1, <1>2, <1>4
<1> QED BY <1>5, <1>6 DEF s1, s2

(***************************************************************************)
(* The steps.                                                              *)
(***************************************************************************)
LEMMA ArraysStill ==
  ASSUME ArenaInv, UNCHANGED <<he, vx, csr, csrFull>>, phase' # "applied"
  PROVE  ArenaInv'
BY DEF ArenaInv, ArraysSound, ArenaOver, IsArena, Sound

LEMMA HostDoneArrays ==
  ASSUME BInv, BInv', ArenaInv, HostDone("applied"), UNCHANGED <<deviceVars, escherVars, before>>
  PROVE  ArenaInv'
<1>1. /\ UNCHANGED <<he, vx, csr, csrFull, v2h, rows, inc>> /\ InBatch /\ phase' = "applied"
  BY DEF HostDone, InBatch, deviceVars, mirrorVars, csrVars, incidenceVars, recordVars
<1>2. NetIsDifference /\ HostFacts /\ ListsMirrorOld /\ RowsMirrorOld
  BY <1>1 DEF BInv, InBatch
<1>3. ASSUME NEW v \in Vertex \ inc.vertices PROVE vx.row[v] = v2h[v]
  <2>1. ASSUME NEW h \in Node PROVE h \in v2h[v] <=> v \in he.row[h]
    <3>1. PreRow(h) = he.row[h] /\ PostRow(h) = rows[h]
      BY <1>2 DEF RowsMirrorOld
    <3>2. h \in v2h[v] <=> v \in rows[h]
      BY <1>2 DEF HostFacts, IncidenceConsistent
    <3>3. CASE h \in Touched
      <4>1. inc.net[<<v, h>>] = Member(v, rows[h]) - Member(v, inc.pre[h]) /\ inc.net[<<v, h>>] = 0
        BY <1>1, <1>2, <1>3, <3>3 DEF NetIsDifference
      <4> QED BY <3>1, <3>2, <3>3, <4>1 DEF PreRow, Member
    <3>4. CASE h \notin Touched
      BY <3>1, <3>2, <3>4 DEF PreRow, PostRow
    <3> QED BY <3>3, <3>4
  <2>2. v2h[v] \subseteq Node
    BY <1>2 DEF HostFacts
  <2> QED BY <1>2, <2>1, <2>2 DEF ListsMirrorOld
<1> QED BY <1>1, <1>3 DEF ArenaInv, ArraysSound, ArenaOver, IsArena, Sound

LEMMA FindCandidatesArrays ==
  ASSUME BInv, BInv', ArenaInv, FindCandidates
  PROVE  ArenaInv'
<1> DEFINE len == [v \in Vertex |-> Cardinality(v2h[v])]
           moving == Outgrown(vx, inc.vertices, len, VertexSlot)
           new == [v \in Vertex |-> (Moved(vx, moving).row[v] \ Lost(v)) \cup Gained(v)]
<1>1. /\ UNCHANGED <<he, csr, csrFull, v2h, maxId, rows>> /\ phase = "applied" /\ phase' = "candidates"
      /\ vx' = PatchedVertexRows
  BY DEF FindCandidates, csrVars, incidenceVars
<1>2. HostFacts /\ v2h \in [Vertex -> SUBSET Node] /\ inc.vertices \subseteq Vertex /\ IsArena(vx)
  BY DEF BInv, HostFacts, Record
<1>3. vx'.row = v2h
  BY <1>1 DEF BInv
<1>4. /\ ArenaOver(vx, Vertex) /\ Sound(vx) /\ DOMAIN vx.row = Vertex
      /\ \A v \in Vertex \ inc.vertices : vx.row[v] = v2h[v]
  BY <1>1 DEF ArenaInv, ArraysSound, ArenaOver
<1>5. len \in [Vertex -> Nat]
  <2>1. \A v \in Vertex : Cardinality(v2h[v]) \in Nat
    BY <1>2, RowLengths
  <2> QED BY <2>1
<1>6. /\ DOMAIN moving \subseteq Vertex /\ \A v \in DOMAIN moving : moving[v] \in Nat /\ len[v] <= moving[v]
      /\ \A v \in inc.vertices : v \notin DOMAIN moving => len[v] <= vx.cap[v]
  <2>1. inc.vertices \in SUBSET Vertex
    BY <1>2
  <2> HIDE DEF len, new
  <2> QED BY <1>4, <1>5, <2>1, OutgrownFacts
<1>7. vx' = IF RoomFor(vx, moving) THEN [Moved(vx, moving) EXCEPT !.row = new]
            ELSE LayOut(v2h, VertexSlots(v2h), Room)
  BY <1>1 DEF PatchedVertexRows
<1>8. \A v \in Vertex : Cardinality(v2h[v]) <= IF v \in DOMAIN moving THEN moving[v] ELSE vx.cap[v]
  <2>1. \A v \in Vertex : len[v] = Cardinality(v2h[v])
    OBVIOUS
  <2>2. \A v \in Vertex : Cardinality(vx.row[v]) <= vx.cap[v]
    BY <1>4 DEF Sound
  <2> HIDE DEF len, moving
  <2> QED BY <1>4, <1>6, <2>1, <2>2
<1>9. ArenaOver(vx', Vertex) /\ Sound(vx')
  <2>1. CASE RoomFor(vx, moving)
    <3>1. vx' = [Moved(vx, moving) EXCEPT !.row = new]
      BY <1>7, <2>1
    <3> HIDE DEF new, moving
    <3>2. vx'.row = new
      BY <1>2, <3>1, ArenaFacts
    <3>3. vx' = [Moved(vx, moving) EXCEPT !.row = v2h]
      BY <1>3, <3>1, <3>2
    <3>4. DOMAIN v2h = Vertex
      BY <1>2
    <3> QED BY <1>4, <1>6, <1>8, <2>1, <3>3, <3>4, FiniteKeys, MovedSound
  <2>2. CASE ~RoomFor(vx, moving)
    BY <1>2, <1>7, <2>2, LaidOutFromHost
  <2> QED BY <2>1, <2>2
<1> QED BY <1>1, <1>9 DEF ArenaInv, ArraysSound, ArenaOver, IsArena, Sound

LEMMA ClassifyPairsArrays ==
  ASSUME BInv, BInv', ArenaInv, ClassifyPairs
  PROVE  ArenaInv'
<1> DEFINE len == [h \in Node |-> Cardinality(rows[h])]
           moving == Outgrown(he, Touched, len, HeSlot)
           written == [h \in Node |-> IF h \in Touched THEN rows[h] ELSE he.row[h]]
<1>1. /\ UNCHANGED <<vx, csr, csrFull, v2h, maxId, rows>> /\ phase = "candidates" /\ phase' = "classified"
      /\ he' = WrittenHeRows
  BY DEF ClassifyPairs, csrVars, incidenceVars
<1>2. HostFacts /\ rows \in [Node -> SUBSET Vertex] /\ Touched \subseteq Node /\ IsArena(he) /\ RowsMirrorOld
  BY <1>1 DEF BInv, HostFacts, Record, Touched
<1>3. \A h \in Node : h \notin Touched => he.row[h] = rows[h]
  BY <1>2 DEF RowsMirrorOld, PostRow
<1>4. ArenaOver(he, Node) /\ Sound(he) /\ DOMAIN he.row = Node
  BY DEF ArenaInv, ArraysSound, ArenaOver
<1>5. len \in [Node -> Nat]
  <2>1. \A h \in Node : Cardinality(rows[h]) \in Nat
    BY <1>2, RowLengths
  <2> QED BY <2>1
<1>6. /\ DOMAIN moving \subseteq Node /\ \A h \in DOMAIN moving : moving[h] \in Nat /\ len[h] <= moving[h]
      /\ \A h \in Touched : h \notin DOMAIN moving => len[h] <= he.cap[h]
  <2> HIDE DEF len
  <2> QED BY <1>2, <1>4, <1>5, OutgrownFacts
<1>7. he' = IF RoomFor(he, moving) THEN [Moved(he, moving) EXCEPT !.row = written]
            ELSE LayOut(rows, HeSlots(rows, maxId), Room)
  BY <1>1 DEF WrittenHeRows
<1>8. written = rows
  <2>1. \A h \in Node : (IF h \in Touched THEN rows[h] ELSE he.row[h]) = rows[h]
    BY <1>3
  <2> QED BY <1>2, <2>1
<1>9. \A h \in Node : Cardinality(rows[h]) <= IF h \in DOMAIN moving THEN moving[h] ELSE he.cap[h]
  <2>1. \A h \in Node : len[h] = Cardinality(rows[h])
    OBVIOUS
  <2>2. \A h \in Node : Cardinality(he.row[h]) <= he.cap[h]
    BY <1>4 DEF Sound
  <2> HIDE DEF len, moving
  <2> QED BY <1>3, <1>6, <2>1, <2>2
<1>10. ArenaOver(he', Node) /\ Sound(he')
  <2>1. CASE RoomFor(he, moving)
    <3>1. he' = [Moved(he, moving) EXCEPT !.row = rows]
      BY <1>7, <1>8, <2>1
    <3>2. DOMAIN rows = Node
      BY <1>2
    <3> HIDE DEF moving
    <3> QED BY <1>4, <1>6, <1>9, <2>1, <3>1, <3>2, FiniteKeys, MovedSound
  <2>2. CASE ~RoomFor(he, moving)
    BY <1>2, <1>7, <2>2, LaidOutFromHost
  <2> QED BY <2>1, <2>2
<1> QED BY <1>1, <1>10 DEF ArenaInv, ArraysSound, ArenaOver, IsArena, Sound

LEMMA ApplyRowArrays ==
  ASSUME BInv, ArenaInv, NEW h \in Node, ApplyRow(h)
  PROVE  ArenaInv'
<1> DEFINE kept == csr.row[h] \ NeighboursIn(delta.del, h)
           added == NeighboursIn(delta.ins, h)
           need == Cardinality(kept) + Cardinality(added)
           moving == IF added # {} /\ csr.cap[h] < need THEN [k \in {h} |-> RowCapacity(need)] ELSE <<>>
           new == [csr.row EXCEPT ![h] = kept \cup added]
<1>1. /\ UNCHANGED <<he, vx>> /\ phase = "csr" /\ phase' = "csr"
      /\ \/ /\ RoomFor(csr, moving)
            /\ csr' = [Moved(csr, moving) EXCEPT !.row[h] = kept \cup added]
            /\ csrFull' = csrFull
         \/ /\ csr' = [csr EXCEPT !.row[h] = kept, !.tail = @ + TotalOf(moving)]
            /\ csrFull'
  BY DEF ApplyRow, mirrorVars, hostVars
<1>2. ArenaOver(csr, Node) /\ IsArena(csr) /\ DOMAIN csr.row = Node /\ csr.cap \in [Node -> Nat]
  BY DEF ArenaInv, ArenaOver
<1>3. added \in SUBSET Node /\ Cardinality(added) \in Nat
  BY RowLengths DEF NeighboursIn
<1>4. csr.row \in [Node -> SUBSET Node] /\ kept \in SUBSET Node /\ Cardinality(kept) \in Nat
  <2>1. csr.row \in [Node -> SUBSET Node]
    BY DEF ArenaInv
  <2>2. kept \in SUBSET Node
    BY <2>1
  <2> QED BY <2>1, <2>2, RowLengths
<1>5. need \in Nat /\ new \in [Node -> SUBSET Node]
  <2>1. \A p, q \in Nat : p + q \in Nat
    OBVIOUS
  <2> QED BY <1>3, <1>4, <2>1
<1>6. /\ DOMAIN moving \subseteq {h} /\ \A k \in DOMAIN moving : moving[k] \in Nat /\ need <= moving[k]
      /\ added # {} => h \in DOMAIN moving \/ need <= csr.cap[h]
  <2>1. RowCapacity(need) \in Nat /\ need <= RowCapacity(need)
    BY <1>5, CapacityFacts
  <2>2. csr.cap[h] \in Nat
    BY <1>2
  <2> HIDE DEF kept, added, need
  <2>3. CASE added # {} /\ csr.cap[h] < need
    <3>1. moving = [k \in {h} |-> RowCapacity(need)]
      BY <2>3
    <3> HIDE DEF moving
    <3> QED BY <2>1, <3>1
  <2>4. CASE ~(added # {} /\ csr.cap[h] < need)
    <3>1. moving = <<>>
      BY <2>4
    <3>2. DOMAIN moving = {}
      BY <3>1
    <3> HIDE DEF moving
    <3> QED BY <1>5, <2>2, <2>4, <3>2
  <2> QED BY <2>3, <2>4
<1>7. ASSUME Sound(csr), NEW k \in Node
      PROVE  Cardinality(new[k]) <= IF k \in DOMAIN moving THEN moving[k] ELSE csr.cap[k]
  <2>1. Cardinality(csr.row[k]) <= csr.cap[k]
    BY <1>2, <1>7 DEF Sound
  <2>2. CASE k # h
    <3>1. new[k] = csr.row[k] /\ k \notin DOMAIN moving
      <4> HIDE DEF moving
      <4> QED BY <1>2, <1>6, <2>2
    <3> HIDE DEF new, moving
    <3> QED BY <2>1, <3>1
  <2>3. CASE k = h
    <3>1. new[k] = kept \cup added
      BY <1>2, <2>3
    <3>2. Cardinality(kept \cup added) \in Nat /\ Cardinality(kept \cup added) <= need
      <4>1. IsFiniteSet(kept) /\ IsFiniteSet(added) /\ kept \cap added \in SUBSET Node
        BY <1>3, <1>4, RowLengths
      <4>2. Cardinality(kept \cup added) = Cardinality(kept) + Cardinality(added) - Cardinality(kept \cap added)
        BY <4>1, FS_Union
      <4>3. Cardinality(kept \cap added) \in Nat
        BY <4>1, RowLengths
      <4>4. kept \cup added \in SUBSET Node
        BY <1>3, <1>4
      <4>5. Cardinality(kept \cup added) \in Nat
        BY <4>4, RowLengths
      <4>6. \A p, q, r \in Nat : p + q - r <= p + q
        OBVIOUS
      <4> QED BY <1>3, <1>4, <4>2, <4>3, <4>5, <4>6
    <3>3. CASE added = {}
      <4>1. new[k] \subseteq csr.row[k] /\ new[k] \in SUBSET Node /\ csr.row[k] \in SUBSET Node
        BY <1>4, <3>1, <3>3
      <4>2. moving = <<>>
        BY <3>3
      <4>3. DOMAIN moving = {}
        BY <4>2
      <4>4. Cardinality(new[k]) <= Cardinality(csr.row[k])
        BY <4>1, RowLengths
      <4>5. Cardinality(new[k]) \in Nat /\ Cardinality(csr.row[k]) \in Nat /\ csr.cap[k] \in Nat
        BY <1>2, <4>1, RowLengths
      <4>6. Cardinality(new[k]) <= csr.cap[k]
        <5> HIDE DEF new
        <5> QED BY <2>1, <4>4, <4>5
      <4> QED BY <4>3, <4>6
    <3>4. CASE added # {}
      <4>1. csr.cap[h] \in Nat
        BY <1>2
      <4> HIDE DEF new, moving, need, kept, added
      <4> QED BY <1>5, <1>6, <2>3, <3>1, <3>2, <3>4, <4>1
    <3> QED BY <3>3, <3>4
  <2> QED BY <2>2, <2>3
<1>8. LET b == [Moved(csr, moving) EXCEPT !.row = new]
      IN  /\ TotalOf(moving) \in Nat
          /\ ArenaOver(b, Node)
          /\ Sound(csr) /\ RoomFor(csr, moving) => Sound(b)
  <2>1. DOMAIN moving \subseteq Node /\ \A k \in DOMAIN moving : moving[k] \in Nat
    BY <1>6
  <2>2. DOMAIN new = Node
    BY <1>2
  <2> HIDE DEF moving, new
  <2> QED BY <1>2, <1>7, <2>1, <2>2, FiniteKeys, MovedSound
<1>9. CASE /\ RoomFor(csr, moving)
           /\ csr' = [Moved(csr, moving) EXCEPT !.row[h] = kept \cup added]
           /\ csrFull' = csrFull
  <2>1. Moved(csr, moving).row = csr.row
    BY <1>2, ArenaFacts
  <2>2. csr' = [Moved(csr, moving) EXCEPT !.row = new]
    <3>1. csr' = [Moved(csr, moving) EXCEPT !.row = [csr.row EXCEPT ![h] = kept \cup added]]
      BY <1>9, <2>1
    <3> QED BY <3>1
  <2> HIDE DEF moving, new
  <2>3. csr'.row = new
    BY <1>2, <2>2, ArenaFacts
  <2>4. ArenaOver(csr', Node) /\ (csrFull' \/ Sound(csr'))
    BY <1>8, <1>9, <2>2 DEF ArenaInv, ArraysSound
  <2> QED BY <1>1, <1>5, <2>3, <2>4 DEF ArenaInv, ArraysSound, ArenaOver, IsArena, Sound
<1>10. CASE /\ csr' = [csr EXCEPT !.row[h] = kept, !.tail = @ + TotalOf(moving)]
            /\ csrFull'
  <2> DEFINE tail == csr.tail + TotalOf(moving)
  <2>1. csr' = [csr EXCEPT !.row[h] = kept, !.tail = tail]
    BY <1>2, <1>10 DEF IsArena
  <2>2. tail \in Nat
    <3>1. csr.tail \in Nat /\ TotalOf(moving) \in Nat
      BY <1>8 DEF ArenaInv, ArenaOver
    <3> HIDE DEF moving
    <3> QED BY <3>1
  <2> HIDE DEF tail, kept, moving
  <2>3. csr' = [off |-> csr.off, cap |-> csr.cap, row |-> [csr.row EXCEPT ![h] = kept],
                tail |-> tail, capacity |-> csr.capacity]
    BY <1>2, <2>1 DEF IsArena
  <2>4. [csr.row EXCEPT ![h] = kept] \in [Node -> SUBSET Node]
    BY <1>4
  <2>5. ArenaOver(csr', Node) /\ csr'.row \in [Node -> SUBSET Node]
    BY <2>2, <2>3, <2>4 DEF ArenaInv, ArenaOver, IsArena
  <2> QED BY <1>1, <1>10, <2>5 DEF ArenaInv, ArraysSound, ArenaOver, IsArena, Sound
<1> HIDE DEF moving, kept, added
<1> QED BY <1>1, <1>9, <1>10

LEMMA CsrRebuiltArrays ==
  ASSUME BInv, ArenaInv, CsrRebuilt
  PROVE  ArenaInv'
<1>1. /\ UNCHANGED <<he, vx>> /\ phase' = "mirrored"
      /\ csr' = LayOut(HostLineGraph, CsrSlots(HostLineGraph, maxId), Room)
  BY DEF CsrRebuilt, mirrorVars
<1>2. ArenaOver(csr', Node) /\ Sound(csr') /\ csr'.row \in [Node -> SUBSET Node]
  BY <1>1, LaidOutFromHost DEF BInv
<1> QED BY <1>1, <1>2 DEF ArenaInv, ArraysSound, ArenaOver, IsArena, Sound

LEMMA ArenaInvNext == BInv /\ BInv' /\ ArenaInv /\ [Next]_bvars => ArenaInv'
<1> SUFFICES ASSUME BInv, BInv', ArenaInv, [Next]_bvars PROVE ArenaInv'
  OBVIOUS
<1>1. ASSUME NEW s \in AdoptedInsertions, BeginBatch(s) PROVE ArenaInv'
  BY <1>1, ArraysStill DEF BeginBatch, HostBegin, deviceVars, mirrorVars, csrVars
<1>2. ASSUME NEW s \in AdoptedInsertions, BeginBatchThrows(s) PROVE ArenaInv'
  BY <1>2, ArraysStill DEF BeginBatchThrows, deviceVars, mirrorVars, csrVars
<1>3. CASE HostStep
  <2>1. UNCHANGED <<deviceVars, escherVars, before>>
    BY <1>3 DEF HostStep
  <2>2. CASE HostDone("applied")
    BY <2>1, <2>2, HostDoneArrays
  <2>3. CASE BatchOp
    <3>1. phase' # "applied"
      BY <2>3 DEF BatchOp, DeleteHyperedge, DeleteVertex, InsertVertex, InsertHyperedge
    <3> QED BY <2>1, <3>1, ArraysStill DEF deviceVars, mirrorVars, csrVars
  <2> QED BY <1>3, <2>2, <2>3 DEF HostStep
<1>4. CASE FindCandidates
  BY <1>4, FindCandidatesArrays
<1>5. CASE ClassifyPairs
  BY <1>5, ClassifyPairsArrays
<1>6. CASE LaunchApplyRows \/ CsrPatched
  BY <1>6, ArraysStill DEF LaunchApplyRows, CsrPatched, mirrorVars
<1>7. ASSUME NEW h \in Node, ApplyRow(h) PROVE ArenaInv'
  BY <1>7, ApplyRowArrays
<1>8. CASE CsrRebuilt
  BY <1>8, CsrRebuiltArrays
<1>9. CASE FinishBatch
  BY <1>9, ArraysStill DEF FinishBatch, deviceVars, mirrorVars, csrVars
<1>10. CASE Stopped \/ UNCHANGED bvars
  BY <1>10 DEF Stopped, bvars, hostVars, incidenceVars, recordVars, deviceVars, mirrorVars, csrVars,
               ArenaInv, ArraysSound, ArenaOver, IsArena, Sound
<1> QED BY <1>1, <1>2, <1>3, <1>4, <1>5, <1>6, <1>7, <1>8, <1>9, <1>10 DEF Next

(***************************************************************************)
(* The rows of the mirror and of the CSR stay within their slots and apart *)
(* from each other, however the arrays grow (DeviceIncidence, DeviceH2H).  *)
(***************************************************************************)
THEOREM ArraysStaySound == Spec => []ArraysSound
<1>1. Spec => [](BInv /\ ArenaInv)
  BY BatchInvariant, BInvInit, ArenaInvInit, ArenaInvNext, PTL DEF Spec
<1>2. ArenaInv => ArraysSound
  BY DEF ArenaInv
<1> QED BY <1>1, <1>2, PTL

-----------------------------------------------------------------------------
(***************************************************************************)
(* The ESCHER trees.                                                       *)
(***************************************************************************)

\* The h2h tree stores the neighbours adj of the hyperedges live, each under
\* a key of its own.
StoresNeighbours(live, adj) ==
  /\ h2hKeyOfHe \in [Node -> Nat]
  /\ \A h \in Node : h2hKeyOfHe[h] # 0 <=> h \in live
  /\ \A a, b \in live : h2hKeyOfHe[a] = h2hKeyOfHe[b] => a = b
  /\ DOMAIN h2h = {h2hKeyOfHe[h] : h \in live}
  /\ \A h \in live : h2h[h2hKeyOfHe[h]] = adj[h]

\* Deletions come before insertions: what is listed for removal from a row
\* was in it when the batch began.
OpsInOrder ==
  /\ phase = "heDelete" => ops.h2vUnfill = {}
  /\ phase \in {"heDelete", "vtxDelete"} => ops.h2vFill = {} /\ ops.v2hFill = {}
  /\ phase \in {"heDelete", "vtxDelete", "vtxInsert"} => inc.new = {}

\* In a batch the h2v and v2h trees lack what the ops list.
TreesLackOps ==
  /\ DOMAIN h2v = before.graph.live \cup inc.new \cup Pending
  /\ before.graph.live \cap Pending = {} /\ before.graph.live \cap inc.new = {}
  /\ \A e \in ops.h2vUnfill \cup ops.h2vFill : e[1] \in before.graph.live
  /\ h2v \in [DOMAIN h2v -> SUBSET Vertex]
  /\ \A h \in alive, v \in Vertex :
       v \in rows[h] <=> (v \in h2v[h] /\ <<h, v>> \notin ops.h2vUnfill) \/ <<h, v>> \in ops.h2vFill
  /\ \A i \in DOMAIN inserts : h2v[inserts[i].id] = inserts[i].verts
  /\ v2hTree \in [Vertex -> SUBSET Node]
  /\ \A v \in Vertex, h \in Node :
       h \in v2h[v] <=> (h \in v2hTree[v] /\ <<v, h>> \notin ops.v2hUnfill) \/ <<v, h>> \in ops.v2hFill

TreeInv ==
  /\ Settled =>
       /\ \A h \in alive : h \in DOMAIN h2v /\ h2v[h] = rows[h]
       /\ phase = "idle" => DOMAIN h2v = alive
       /\ v2hTree = v2h
       /\ StoresNeighbours(alive, Adjacent(rows))
  /\ phase \in BatchPhases =>
       /\ OpsInOrder /\ TreesLackOps
       /\ StoresNeighbours(before.graph.live, before.graph.adj)
       /\ \A h \in Node \ before.graph.live : before.graph.adj[h] = {}

\* What is listed for k.
Values(es, k) == {e[2] : e \in {f \in es : f[1] = k}}

LEMMA FlushedFacts ==
  ASSUME NEW t, NEW ks, NEW un, NEW fi
  PROVE  Flushed(t, ks, un, fi) = [k \in DOMAIN t \ ks |-> (t[k] \ Values(un, k)) \cup Values(fi, k)]
<1>1. Unfilled(t, un) = [k \in DOMAIN t |-> t[k] \ Values(un, k)]
  BY DEF Unfilled, Values
<1>2. Erased(Unfilled(t, un), ks) = [k \in DOMAIN t \ ks |-> t[k] \ Values(un, k)]
  BY <1>1 DEF Erased
<1>3. \A u : Filled(u, fi) = [k \in DOMAIN u |-> u[k] \cup Values(fi, k)]
  BY DEF Filled, Values
<1> DEFINE u == [k \in DOMAIN t \ ks |-> t[k] \ Values(un, k)]
<1>4. Flushed(t, ks, un, fi) = Filled(u, fi)
  BY <1>2 DEF Flushed
<1>5. DOMAIN u = DOMAIN t \ ks /\ \A k \in DOMAIN t \ ks : u[k] = t[k] \ Values(un, k)
  OBVIOUS
<1> HIDE DEF u
<1>6. Filled(u, fi) = [k \in DOMAIN u |-> u[k] \cup Values(fi, k)]
  BY <1>3
<1> QED BY <1>4, <1>5, <1>6

\* Pairs are listed by their two parts.
LEMMA ValuesFacts ==
  ASSUME NEW K, NEW V, NEW es \in SUBSET (K \X V), NEW k
  PROVE  \A x : x \in Values(es, k) <=> <<k, x>> \in es
<1> SUFFICES ASSUME NEW x PROVE x \in Values(es, k) <=> <<k, x>> \in es
  OBVIOUS
<1>1. x \in Values(es, k) <=> \E e \in es : e[1] = k /\ e[2] = x
  BY DEF Values
<1>2. \A e \in es : e = <<e[1], e[2]>>
  OBVIOUS
<1>3. <<k, x>>[1] = k /\ <<k, x>>[2] = x
  OBVIOUS
<1>4. (\E e \in es : e[1] = k /\ e[2] = x) <=> <<k, x>> \in es
  BY <1>2, <1>3
<1> QED BY <1>1, <1>4

LEMMA TreeInvInit == Init => TreeInv
<1> SUFFICES ASSUME Init PROVE TreeInv
  OBVIOUS
<1>1. /\ HostFacts /\ phase = "idle" /\ HostLineGraph = Adjacent(rows) /\ alive \subseteq Node
      /\ phase \notin BatchPhases
  BY BInvInit, HostLineGraphIsAdjacent DEF BInv, Init, HostInit, HostFacts, BatchPhases
<1>2. /\ h2v = [h \in alive |-> rows[h]] /\ v2hTree = v2h
      /\ h2h = [k \in {h + 1 : h \in alive} |-> Adjacent(rows)[k - 1]]
      /\ h2hKeyOfHe = [h \in Node |-> IF h \in alive THEN h + 1 ELSE 0]
  BY <1>1 DEF Init
<1>3. \A h \in Node : h + 1 \in Nat /\ h + 1 # 0 /\ (h + 1) - 1 = h
  BY NAssumption DEF Node
<1>4. StoresNeighbours(alive, Adjacent(rows))
  <2>1. h2hKeyOfHe \in [Node -> Nat]
    BY <1>2, <1>3
  <2>2. \A h \in Node : h2hKeyOfHe[h] # 0 <=> h \in alive
    BY <1>2, <1>3
  <2>3. \A h \in alive : h2hKeyOfHe[h] = h + 1
    BY <1>1, <1>2
  <2>4. \A a, b \in alive : h2hKeyOfHe[a] = h2hKeyOfHe[b] => a = b
    <3> SUFFICES ASSUME NEW a \in alive, NEW b \in alive, h2hKeyOfHe[a] = h2hKeyOfHe[b] PROVE a = b
      OBVIOUS
    <3>1. a + 1 = b + 1 /\ a \in Node /\ b \in Node
      BY <1>1, <2>3
    <3>2. (a + 1) - 1 = a /\ (b + 1) - 1 = b
      BY <1>3, <3>1
    <3> QED BY <3>1, <3>2
  <2>5. DOMAIN h2h = {h2hKeyOfHe[h] : h \in alive}
    BY <1>2, <2>3
  <2>6. \A h \in alive : h2h[h2hKeyOfHe[h]] = Adjacent(rows)[h]
    BY <1>1, <1>2, <1>3, <2>3
  <2> QED BY <2>1, <2>2, <2>4, <2>5, <2>6 DEF StoresNeighbours
<1>5. \A h \in alive : h \in DOMAIN h2v /\ h2v[h] = rows[h]
  BY <1>2
<1>6. DOMAIN h2v = alive
  BY <1>2
<1> QED BY <1>1, <1>2, <1>4, <1>5, <1>6 DEF TreeInv

LEMMA BeginBatchTrees ==
  ASSUME BInv, BInv', TreeInv, phase = "idle", NEW s \in AdoptedInsertions, BeginBatch(s)
  PROVE  TreeInv'
<1>1. /\ \A i \in DOMAIN s : s[i].id \in Node
      /\ h2v' = H2vWith(s) /\ before' = [graph |-> DeviceGraph, delta |-> delta]
      /\ UNCHANGED <<v2hTree, h2h, h2hKeyOfHe, rows, alive, v2h>>
      /\ inserts' = s /\ inc' = NoChanges /\ ops' = NoOps /\ phase' = "heDelete"
  BY DEF BeginBatch, HostBegin, incidenceVars
<1>2. HostFacts /\ H2vIds /\ AllMirrored /\ Settled
  BY DEF BInv, Settled
<1>3. /\ DOMAIN h2v = alive /\ \A h \in alive : h2v[h] = rows[h]
      /\ v2hTree = v2h /\ StoresNeighbours(alive, Adjacent(rows))
  BY <1>2 DEF TreeInv
<1>4. /\ before'.graph.live = alive /\ before'.graph.adj = Adjacent(rows)
  BY <1>1, <1>2, SettledGraph
<1>5. Pending' = {s[i].id : i \in DOMAIN s}
  BY <1>1 DEF Pending
<1>6. /\ s \in Insertions /\ AdoptedByH2v(s)
      /\ \A i \in DOMAIN s : s[i].id \notin DOMAIN h2v
      /\ \A i, j \in DOMAIN s : s[i].id = s[j].id => i = j
  BY <1>1, <1>2, AdoptedInsertionsInNode, AdoptedIds, InsertionsAreSequences
<1>7. OpsInOrder'
  BY <1>1 DEF OpsInOrder, NoOps, NoChanges
<1>8. TreesLackOps'
  <2>1. DOMAIN h2v' = alive \cup Pending'
    BY <1>1, <1>3, <1>5 DEF H2vWith
  <2>2. alive \cap Pending' = {}
    BY <1>3, <1>5, <1>6
  <2>3. \A h \in alive : h2v'[h] = rows[h]
    BY <1>1, <1>3 DEF H2vWith
  <2>4. ASSUME NEW i \in DOMAIN s PROVE h2v'[s[i].id] = s[i].verts
    <3> DEFINE j == CHOOSE x \in DOMAIN s : s[x].id = s[i].id
    <3>1. j \in DOMAIN s /\ s[j].id = s[i].id
      OBVIOUS
    <3>2. j = i
      BY <1>6, <3>1
    <3> HIDE DEF j
    <3>3. s[i].id \in DOMAIN h2v \cup {s[x].id : x \in DOMAIN s} /\ s[i].id \notin DOMAIN h2v
      BY <1>6
    <3>4. h2v'[s[i].id] = s[j].verts
      BY <1>1, <3>3 DEF H2vWith, j
    <3> QED BY <3>2, <3>4
  <2>5. ops'.h2vUnfill = {} /\ ops'.h2vFill = {} /\ ops'.v2hUnfill = {} /\ ops'.v2hFill = {} /\ inc'.new = {}
    BY <1>1 DEF NoOps, NoChanges
  <2>6. v2h \in [Vertex -> SUBSET Node]
    BY <1>2 DEF HostFacts
  <2>7. h2v' \in [DOMAIN h2v' -> SUBSET Vertex]
    <3>1. \A h \in alive : h2v'[h] \in SUBSET Vertex
      BY <1>2, <2>3 DEF HostFacts
    <3>2. \A i \in DOMAIN s : s[i].verts \in SUBSET Vertex
      BY <1>6, InsertionsAreSequences
    <3>3. \A h \in DOMAIN h2v' : h2v'[h] \in SUBSET Vertex
      BY <1>5, <2>1, <2>4, <3>1, <3>2
    <3>4. h2v' = [h \in DOMAIN h2v' |-> h2v'[h]]
      BY <1>1 DEF H2vWith
    <3> QED BY <3>3, <3>4
  <2>8. v2hTree' \in [Vertex -> SUBSET Node]
    BY <1>1, <1>3, <2>6
  <2> QED BY <1>1, <1>3, <1>4, <2>1, <2>2, <2>3, <2>4, <2>5, <2>7, <2>8 DEF TreesLackOps
<1>9. StoresNeighbours(before.graph.live, before.graph.adj)'
  BY <1>1, <1>3, <1>4 DEF StoresNeighbours
<1>10. \A h \in Node \ alive : Adjacent(rows)[h] = {}
  BY <1>2 DEF HostFacts, IncidenceConsistent, Adjacent
<1>11. phase' \in BatchPhases /\ ~Settled'
  BY <1>1 DEF BatchPhases, Settled
<1> QED BY <1>4, <1>7, <1>8, <1>9, <1>10, <1>11 DEF TreeInv

LEMMA BeginBatchThrowsTrees ==
  ASSUME BInv, TreeInv, phase = "idle", NEW s \in AdoptedInsertions, BeginBatchThrows(s)
  PROVE  TreeInv'
<1>1. /\ h2v' = H2vWith(s) /\ UNCHANGED <<v2hTree, h2h, h2hKeyOfHe, rows, alive, v2h>> /\ phase' = "failed"
  BY DEF BeginBatchThrows, incidenceVars
<1>2. /\ DOMAIN h2v = alive /\ \A h \in alive : h2v[h] = rows[h]
      /\ v2hTree = v2h /\ StoresNeighbours(alive, Adjacent(rows))
  BY DEF TreeInv, Settled
<1>3. \A h \in alive : h \in DOMAIN h2v' /\ h2v'[h] = rows[h]
  BY <1>1, <1>2 DEF H2vWith
<1>4. phase' \notin BatchPhases
  BY <1>1 DEF BatchPhases
<1> QED BY <1>1, <1>2, <1>3, <1>4 DEF TreeInv, StoresNeighbours

LEMMA TreesStill ==
  ASSUME TreeInv, UNCHANGED <<escherVars, incidenceVars, inserts, inc, ops, before>>,
         phase \in BatchPhases, phase' \in BatchPhases,
         phase' = phase \/ phase' \notin {"heDelete", "vtxDelete", "vtxInsert"}
  PROVE  TreeInv'
<1>1. OpsInOrder'
  BY DEF TreeInv, OpsInOrder
<1>2. TreesLackOps'
  BY DEF TreeInv, TreesLackOps, Pending, escherVars, incidenceVars
<1>3. ~Settled'
  BY DEF Settled, BatchPhases
<1> QED BY <1>1, <1>2, <1>3 DEF TreeInv, StoresNeighbours, escherVars

(***************************************************************************)
(* The batch on the host.                                                  *)
(***************************************************************************)
LEMMA TreesInBatch ==
  ASSUME InBatch, TreeInv
  PROVE  /\ phase \in BatchPhases /\ OpsInOrder /\ TreesLackOps
         /\ (InBatch' /\ OpsInOrder' /\ TreesLackOps' /\ UNCHANGED <<h2h, h2hKeyOfHe, before>> => TreeInv')
<1>1. phase \in BatchPhases
  BY DEF InBatch, BatchPhases
<1>2. InBatch' => phase' \in BatchPhases /\ ~Settled'
  BY DEF InBatch, BatchPhases, Settled
<1>3. InBatch' /\ OpsInOrder' /\ TreesLackOps' /\ UNCHANGED <<h2h, h2hKeyOfHe, before>> => TreeInv'
  <2> SUFFICES ASSUME InBatch', OpsInOrder', TreesLackOps', UNCHANGED <<h2h, h2hKeyOfHe, before>>
               PROVE  TreeInv'
    OBVIOUS
  <2>1. /\ StoresNeighbours(before.graph.live, before.graph.adj)'
        /\ (\A h \in Node \ before.graph.live : before.graph.adj[h] = {})'
    BY <1>1 DEF TreeInv, StoresNeighbours
  <2> QED BY <1>2, <2>1 DEF TreeInv
<1>4. OpsInOrder /\ TreesLackOps
  BY <1>1 DEF TreeInv
<1> QED BY <1>1, <1>3, <1>4

LEMMA DeleteHyperedgeTrees ==
  ASSUME BInv, TreeInv, NEW h \in Node, DeleteHyperedge(h), UNCHANGED <<deviceVars, escherVars, before>>
  PROVE  TreeInv'
<1>1. /\ InBatch /\ InBatch' /\ phase = "heDelete" /\ phase' = "heDelete" /\ inserts' = inserts
      /\ inc' = [Recorded(h, rows[h], -1) EXCEPT !.deleted = @ \cup {h}]
      /\ ops' = [ops EXCEPT !.v2hUnfill = @ \cup (rows[h] \X {h})]
      /\ v2h' = Without(h, rows[h]) /\ rows' = [rows EXCEPT ![h] = {}] /\ alive' = alive \ {h}
      /\ UNCHANGED <<h2v, v2hTree, h2h, h2hKeyOfHe, before>>
  BY DEF DeleteHyperedge, InBatch, escherVars
<1>2. HostFacts /\ HInv /\ OpsInOrder /\ TreesLackOps /\ alive \subseteq Node /\ rows \in [Node -> SUBSET Vertex]
  BY <1>1, TreesInBatch, HostInvOfBatch DEF BInv, HostFacts
<1>3. inc'.new = inc.new
  <2> DEFINE rec == Recorded(h, rows[h], -1)
  <2>1. rec \in Record /\ rec.new = inc.new
    BY <1>2, RecordedType DEF HInv
  <2> HIDE DEF rec
  <2>2. inc' = [rec EXCEPT !.deleted = @ \cup {h}]
    BY <1>1 DEF rec
  <2> QED BY <2>1, <2>2 DEF Record
<1>4. /\ ops'.h2vUnfill = ops.h2vUnfill /\ ops'.h2vFill = ops.h2vFill /\ ops'.v2hFill = ops.v2hFill
      /\ ops'.v2hUnfill = ops.v2hUnfill \cup (rows[h] \X {h})
  BY <1>1, <1>2 DEF HostFacts
<1>5. OpsInOrder'
  BY <1>1, <1>2, <1>3, <1>4 DEF OpsInOrder
<1>6. Pending' = Pending
  BY <1>1 DEF Pending
<1>7. \A x \in alive' : x \in alive /\ rows'[x] = rows[x]
  BY <1>1, <1>2
<1>8. ASSUME NEW v \in Vertex, NEW x \in Node
      PROVE  x \in v2h'[v] <=> (x \in v2hTree'[v] /\ <<v, x>> \notin ops'.v2hUnfill) \/ <<v, x>> \in ops'.v2hFill
  <2>1. x \in v2h[v] <=> (x \in v2hTree[v] /\ <<v, x>> \notin ops.v2hUnfill) \/ <<v, x>> \in ops.v2hFill
    BY <1>2 DEF TreesLackOps
  <2>2. ops'.v2hFill = {} /\ ops.v2hFill = {}
    BY <1>1, <1>2, <1>4 DEF OpsInOrder
  <2>3. <<v, x>> \in ops'.v2hUnfill <=> <<v, x>> \in ops.v2hUnfill \/ (v \in rows[h] /\ x = h)
    BY <1>4
  <2>4. v2h'[v] = IF v \in rows[h] THEN v2h[v] \ {h} ELSE v2h[v]
    BY <1>1 DEF Without
  <2> QED BY <1>1, <2>1, <2>2, <2>3, <2>4
<1>9. TreesLackOps'
  BY <1>1, <1>2, <1>3, <1>4, <1>6, <1>7, <1>8 DEF TreesLackOps
<1> QED BY <1>1, <1>5, <1>9, TreesInBatch

\* The row of h and the list of v change by each other.
LEMMA VertexOpTrees ==
  ASSUME BInv, TreeInv, NEW h \in alive, NEW v \in Vertex, InBatch, InBatch',
         UNCHANGED <<alive, inserts, escherVars, before>>, inc'.new = inc.new, inc.new = {},
         OpsInOrder',
         \/ /\ ops.h2vFill = {} /\ ops.v2hFill = {}
            /\ ops' = [ops EXCEPT !.h2vUnfill = @ \cup {<<h, v>>}, !.v2hUnfill = @ \cup {<<v, h>>}]
            /\ v2h' = Without(h, {v}) /\ rows' = [rows EXCEPT ![h] = @ \ {v}]
         \/ /\ ops' = [ops EXCEPT !.h2vFill = @ \cup {<<h, v>>}, !.v2hFill = @ \cup {<<v, h>>}]
            /\ v2h' = With(h, {v}) /\ rows' = [rows EXCEPT ![h] = @ \cup {v}]
  PROVE  TreeInv'
<1>1. HostFacts /\ TreesLackOps /\ alive \subseteq Node /\ rows \in [Node -> SUBSET Vertex]
  BY TreesInBatch DEF BInv, HostFacts
<1>2. h \in before.graph.live
  BY TreesInBatch DEF BInv, AliveKept
<1>3. Pending' = Pending
  BY DEF Pending
<1>4. UNCHANGED <<h2v, v2hTree, h2h, h2hKeyOfHe, before>>
  BY DEF escherVars
<1>5. CASE /\ ops.h2vFill = {} /\ ops.v2hFill = {}
           /\ ops' = [ops EXCEPT !.h2vUnfill = @ \cup {<<h, v>>}, !.v2hUnfill = @ \cup {<<v, h>>}]
           /\ v2h' = Without(h, {v}) /\ rows' = [rows EXCEPT ![h] = @ \ {v}]
  <2>1. /\ ops'.h2vUnfill = ops.h2vUnfill \cup {<<h, v>>} /\ ops'.v2hUnfill = ops.v2hUnfill \cup {<<v, h>>}
        /\ ops'.h2vFill = {} /\ ops'.v2hFill = {}
    BY <1>1, <1>5 DEF HostFacts
  <2>2. ASSUME NEW x \in alive', NEW y \in Vertex
        PROVE  y \in rows'[x] <=> (y \in h2v'[x] /\ <<x, y>> \notin ops'.h2vUnfill) \/ <<x, y>> \in ops'.h2vFill
    <3>1. y \in rows[x] <=> (y \in h2v[x] /\ <<x, y>> \notin ops.h2vUnfill) \/ <<x, y>> \in ops.h2vFill
      BY <1>1 DEF TreesLackOps
    <3>2. <<x, y>> \in ops'.h2vUnfill <=> <<x, y>> \in ops.h2vUnfill \/ (x = h /\ y = v)
      BY <2>1
    <3>3. rows'[x] = IF x = h THEN rows[x] \ {v} ELSE rows[x]
      BY <1>1, <1>5
    <3> QED BY <1>4, <1>5, <2>1, <3>1, <3>2, <3>3
  <2>3. ASSUME NEW x \in Vertex, NEW y \in Node
        PROVE  y \in v2h'[x] <=> (y \in v2hTree'[x] /\ <<x, y>> \notin ops'.v2hUnfill) \/ <<x, y>> \in ops'.v2hFill
    <3>1. y \in v2h[x] <=> (y \in v2hTree[x] /\ <<x, y>> \notin ops.v2hUnfill) \/ <<x, y>> \in ops.v2hFill
      BY <1>1 DEF TreesLackOps
    <3>2. <<x, y>> \in ops'.v2hUnfill <=> <<x, y>> \in ops.v2hUnfill \/ (x = v /\ y = h)
      BY <2>1
    <3>3. v2h'[x] = IF x = v THEN v2h[x] \ {h} ELSE v2h[x]
      BY <1>5 DEF Without
    <3> QED BY <1>4, <1>5, <2>1, <3>1, <3>2, <3>3
  <2>4. \A e \in ops'.h2vUnfill \cup ops'.h2vFill : e[1] \in before.graph.live
    BY <1>1, <1>2, <2>1 DEF TreesLackOps
  <2>5. TreesLackOps'
    BY <1>1, <1>3, <1>4, <2>2, <2>3, <2>4 DEF TreesLackOps
  <2> QED BY <1>4, <2>5, TreesInBatch
<1>6. CASE /\ ops' = [ops EXCEPT !.h2vFill = @ \cup {<<h, v>>}, !.v2hFill = @ \cup {<<v, h>>}]
           /\ v2h' = With(h, {v}) /\ rows' = [rows EXCEPT ![h] = @ \cup {v}]
  <2>1. /\ ops'.h2vFill = ops.h2vFill \cup {<<h, v>>} /\ ops'.v2hFill = ops.v2hFill \cup {<<v, h>>}
        /\ ops'.h2vUnfill = ops.h2vUnfill /\ ops'.v2hUnfill = ops.v2hUnfill
    BY <1>1, <1>6 DEF HostFacts
  <2>2. ASSUME NEW x \in alive', NEW y \in Vertex
        PROVE  y \in rows'[x] <=> (y \in h2v'[x] /\ <<x, y>> \notin ops'.h2vUnfill) \/ <<x, y>> \in ops'.h2vFill
    <3>1. y \in rows[x] <=> (y \in h2v[x] /\ <<x, y>> \notin ops.h2vUnfill) \/ <<x, y>> \in ops.h2vFill
      BY <1>1 DEF TreesLackOps
    <3>2. <<x, y>> \in ops'.h2vFill <=> <<x, y>> \in ops.h2vFill \/ (x = h /\ y = v)
      BY <2>1
    <3>3. rows'[x] = IF x = h THEN rows[x] \cup {v} ELSE rows[x]
      BY <1>1, <1>6
    <3> QED BY <1>4, <2>1, <3>1, <3>2, <3>3
  <2>3. ASSUME NEW x \in Vertex, NEW y \in Node
        PROVE  y \in v2h'[x] <=> (y \in v2hTree'[x] /\ <<x, y>> \notin ops'.v2hUnfill) \/ <<x, y>> \in ops'.v2hFill
    <3>1. y \in v2h[x] <=> (y \in v2hTree[x] /\ <<x, y>> \notin ops.v2hUnfill) \/ <<x, y>> \in ops.v2hFill
      BY <1>1 DEF TreesLackOps
    <3>2. <<x, y>> \in ops'.v2hFill <=> <<x, y>> \in ops.v2hFill \/ (x = v /\ y = h)
      BY <2>1
    <3>3. v2h'[x] = IF x = v THEN v2h[x] \cup {h} ELSE v2h[x]
      BY <1>6 DEF With
    <3> QED BY <1>4, <2>1, <3>1, <3>2, <3>3
  <2>4. \A e \in ops'.h2vUnfill \cup ops'.h2vFill : e[1] \in before.graph.live
    BY <1>1, <1>2, <2>1 DEF TreesLackOps
  <2>5. TreesLackOps'
    BY <1>1, <1>3, <1>4, <2>2, <2>3, <2>4 DEF TreesLackOps
  <2> QED BY <1>4, <2>5, TreesInBatch
<1> QED BY <1>5, <1>6

LEMMA DeleteVertexTrees ==
  ASSUME BInv, TreeInv, NEW h \in Node, NEW v \in Vertex, DeleteVertex(h, v),
         UNCHANGED <<deviceVars, escherVars, before>>
  PROVE  TreeInv'
<1>1. /\ InBatch /\ InBatch' /\ phase \in {"heDelete", "vtxDelete"} /\ phase' = "vtxDelete"
      /\ UNCHANGED <<alive, inserts, escherVars, before>> /\ h \in alive /\ inc' = Recorded(h, {v}, -1)
      /\ ops' = [ops EXCEPT !.h2vUnfill = @ \cup {<<h, v>>}, !.v2hUnfill = @ \cup {<<v, h>>}]
      /\ v2h' = Without(h, {v}) /\ rows' = [rows EXCEPT ![h] = @ \ {v}]
  BY DEF DeleteVertex, InBatch
<1>2. HInv /\ OpsInOrder /\ HostFacts
  BY <1>1, TreesInBatch, HostInvOfBatch DEF BInv
<1>3. inc'.new = inc.new
  BY <1>1, <1>2, RecordedType DEF HInv
<1>4. inc.new = {} /\ ops.h2vFill = {} /\ ops.v2hFill = {}
  BY <1>1, <1>2 DEF OpsInOrder
<1>5. ops'.h2vFill = ops.h2vFill /\ ops'.v2hFill = ops.v2hFill
  BY <1>1, <1>2 DEF HostFacts
<1>6. OpsInOrder'
  BY <1>1, <1>3, <1>4, <1>5 DEF OpsInOrder
<1> QED BY <1>1, <1>3, <1>4, <1>6, VertexOpTrees

LEMMA InsertVertexTrees ==
  ASSUME BInv, TreeInv, NEW h \in Node, NEW v \in Vertex, InsertVertex(h, v),
         UNCHANGED <<deviceVars, escherVars, before>>
  PROVE  TreeInv'
<1>1. /\ InBatch /\ InBatch' /\ phase \in {"heDelete", "vtxDelete", "vtxInsert"} /\ phase' = "vtxInsert"
      /\ UNCHANGED <<alive, inserts, escherVars, before>> /\ h \in alive /\ inc' = Recorded(h, {v}, 1)
      /\ ops' = [ops EXCEPT !.h2vFill = @ \cup {<<h, v>>}, !.v2hFill = @ \cup {<<v, h>>}]
      /\ v2h' = With(h, {v}) /\ rows' = [rows EXCEPT ![h] = @ \cup {v}]
  BY DEF InsertVertex, InBatch
<1>2. HInv /\ OpsInOrder
  BY <1>1, TreesInBatch, HostInvOfBatch
<1>3. inc'.new = inc.new
  BY <1>1, <1>2, RecordedType DEF HInv
<1>4. inc.new = {}
  BY <1>1, <1>2 DEF OpsInOrder
<1>5. OpsInOrder'
  BY <1>1, <1>3, <1>4 DEF OpsInOrder
<1> QED BY <1>1, <1>3, <1>4, <1>5, VertexOpTrees

LEMMA InsertHyperedgeTrees ==
  ASSUME BInv, TreeInv, InsertHyperedge, UNCHANGED <<deviceVars, escherVars, before>>
  PROVE  TreeInv'
<1> DEFINE new == Head(inserts)
           h == new.id
<1>1. /\ InBatch /\ InBatch' /\ phase' = "heInsert" /\ inserts # <<>> /\ h \notin alive
      /\ inc' = [Recorded(h, new.verts, 1) EXCEPT !.new = @ \cup {h}]
      /\ ops' = [ops EXCEPT !.v2hFill = @ \cup (new.verts \X {h})]
      /\ v2h' = With(h, new.verts) /\ rows' = [rows EXCEPT ![h] = new.verts]
      /\ alive' = alive \cup {h} /\ inserts' = Tail(inserts)
      /\ UNCHANGED <<h2v, v2hTree, h2h, h2hKeyOfHe, before>>
  BY DEF InsertHyperedge, InBatch, escherVars
<1>2. HostFacts /\ HInv /\ HostTypeOK /\ OpsInOrder /\ TreesLackOps /\ alive \subseteq Node /\ rows \in [Node -> SUBSET Vertex]
  BY <1>1, TreesInBatch, HostInvOfBatch DEF BInv, HostFacts, HInv
<1>3. /\ h \in Pending /\ Pending' \subseteq Pending /\ Pending \subseteq Pending' \cup {h} /\ new = inserts[1]
      /\ new \in [id : Node, verts : (SUBSET Vertex) \ {{}}, w : Weights]
      /\ \A i \in DOMAIN inserts' : i + 1 \in DOMAIN inserts /\ inserts'[i] = inserts[i + 1]
  BY <1>1, <1>2, PendingShrinks
<1>4. h \in Node /\ new.verts \in SUBSET Vertex
  BY <1>3
<1>5. h2v[h] = new.verts
  <2>1. 1 \in DOMAIN inserts
    <3>1. inserts \in Seq([id : Node, verts : (SUBSET Vertex) \ {{}}, w : Weights])
      BY <1>2 DEF HostTypeOK
    <3> HIDE DEF new, h
    <3> QED BY <1>1, <3>1, HeadTailProperties, LenProperties, EmptySeq
  <2> QED BY <1>2, <1>3, <2>1 DEF TreesLackOps
<1> HIDE DEF new, h
<1>6. inc'.new = inc.new \cup {h}
  <2> DEFINE rec == Recorded(h, new.verts, 1)
  <2>1. rec \in Record /\ rec.new = inc.new
    BY <1>2, <1>4, RecordedType
  <2> HIDE DEF rec
  <2>2. inc' = [rec EXCEPT !.new = @ \cup {h}]
    BY <1>1 DEF rec
  <2> QED BY <2>1, <2>2 DEF Record
<1>7. /\ ops'.h2vUnfill = ops.h2vUnfill /\ ops'.h2vFill = ops.h2vFill /\ ops'.v2hUnfill = ops.v2hUnfill
      /\ ops'.v2hFill = ops.v2hFill \cup (new.verts \X {h})
  BY <1>1, <1>2 DEF HostFacts
<1>8. OpsInOrder'
  BY <1>1 DEF OpsInOrder
<1>9. h \notin before.graph.live
  BY <1>2, <1>3 DEF TreesLackOps
<1>10. ASSUME NEW x \in alive', NEW y \in Vertex
       PROVE  y \in rows'[x] <=> (y \in h2v'[x] /\ <<x, y>> \notin ops'.h2vUnfill) \/ <<x, y>> \in ops'.h2vFill
  <2>1. CASE x = h
    <3>1. <<h, y>> \notin ops.h2vUnfill /\ <<h, y>> \notin ops.h2vFill
      <4>1. <<h, y>>[1] \notin before.graph.live
        BY <1>9
      <4> QED BY <1>2, <4>1 DEF TreesLackOps
    <3>2. rows'[h] = new.verts
      BY <1>1, <1>2, <1>4
    <3> QED BY <1>1, <1>5, <1>7, <2>1, <3>1, <3>2
  <2>2. CASE x # h
    <3>1. x \in alive /\ rows'[x] = rows[x]
      BY <1>1, <1>2, <2>2
    <3> QED BY <1>1, <1>2, <1>7, <3>1 DEF TreesLackOps
  <2> QED BY <2>1, <2>2
<1>11. ASSUME NEW v \in Vertex, NEW x \in Node
       PROVE  x \in v2h'[v] <=> (x \in v2hTree'[v] /\ <<v, x>> \notin ops'.v2hUnfill) \/ <<v, x>> \in ops'.v2hFill
  <2>1. x \in v2h[v] <=> (x \in v2hTree[v] /\ <<v, x>> \notin ops.v2hUnfill) \/ <<v, x>> \in ops.v2hFill
    BY <1>2 DEF TreesLackOps
  <2>2. <<v, x>> \in ops'.v2hFill <=> <<v, x>> \in ops.v2hFill \/ (v \in new.verts /\ x = h)
    BY <1>7
  <2>3. v2h'[v] = IF v \in new.verts THEN v2h[v] \cup {h} ELSE v2h[v]
    BY <1>1 DEF With
  <2> QED BY <1>1, <1>7, <2>1, <2>2, <2>3
<1>12. \A i \in DOMAIN inserts' : h2v'[inserts'[i].id] = inserts'[i].verts
  BY <1>1, <1>2, <1>3 DEF TreesLackOps
<1>13. TreesLackOps'
  <2>1. DOMAIN h2v' = before'.graph.live \cup inc'.new \cup Pending'
    BY <1>1, <1>2, <1>3, <1>6 DEF TreesLackOps
  <2>2. before'.graph.live \cap Pending' = {} /\ before'.graph.live \cap inc'.new = {}
    BY <1>1, <1>2, <1>3, <1>6, <1>9 DEF TreesLackOps
  <2> QED BY <1>1, <1>2, <1>3, <1>7, <1>10, <1>11, <1>12, <2>1, <2>2 DEF TreesLackOps
<1> QED BY <1>1, <1>8, <1>13, TreesInBatch

(***************************************************************************)
(* The batch reaches the trees.                                            *)
(***************************************************************************)
LEMMA DirectedValues ==
  ASSUME NEW S \in SUBSET Node, NEW pairs, NEW h \in S,
         h2hKeyOfHe \in [Node -> Nat], \A a, b \in S : h2hKeyOfHe[a] = h2hKeyOfHe[b] => a = b
  PROVE  Values(Directed(pairs, S), h2hKeyOfHe[h]) = NeighboursIn(pairs, h)
<1> DEFINE es == Directed(pairs, S)
           k == h2hKeyOfHe[h]
<1>1. \A e : e \in es <=>
        \E f \in Node \X Node : f[1] \in S /\ Pair(f[1], f[2]) \in pairs /\ e = <<h2hKeyOfHe[f[1]], f[2]>>
  BY DEF Directed
<1>2. es \in SUBSET (Nat \X Node)
  BY <1>1
<1>3. \A x : <<k, x>> \in es <=> x \in NeighboursIn(pairs, h)
  <2> SUFFICES ASSUME NEW x PROVE <<k, x>> \in es <=> x \in NeighboursIn(pairs, h)
    OBVIOUS
  <2>1. <<k, x>> \in es <=>
          \E f \in Node \X Node : f[1] \in S /\ Pair(f[1], f[2]) \in pairs /\ h2hKeyOfHe[f[1]] = k /\ f[2] = x
    BY <1>1
  <2>2. \A f \in Node \X Node : f[1] \in S /\ h2hKeyOfHe[f[1]] = k => f[1] = h
    OBVIOUS
  <2>3. x \in Node => <<h, x>> \in Node \X Node /\ <<h, x>>[1] = h /\ <<h, x>>[2] = x
    OBVIOUS
  <2> QED BY <2>1, <2>2, <2>3 DEF NeighboursIn
<1> HIDE DEF es
<1>4. \A x : x \in Values(es, k) <=> <<k, x>> \in es
  BY <1>2, ValuesFacts
<1> QED BY <1>3, <1>4 DEF es

\* The h2v and v2h trees get what is listed.
LEMMA FinishH2v ==
  ASSUME BInv, TreeInv, FinishBatch
  PROVE  /\ DOMAIN h2v' = alive /\ \A h \in alive : h2v'[h] = rows[h]
         /\ v2hTree' = v2h
<1>1. /\ phase = "mirrored"
      /\ h2v' = Flushed(h2v, delta.dead, ops.h2vUnfill, ops.h2vFill)
      /\ v2hTree' = Flushed(v2hTree, {}, ops.v2hUnfill, ops.v2hFill)
  BY DEF FinishBatch
<1>2. /\ HostFacts /\ TreesLackOps /\ AliveKept /\ inserts = <<>>
      /\ delta.dead = before.graph.live \ alive
  BY <1>1 DEF BInv, TreeInv, BatchPhases, H2vIds, InBatch, DeltaExact
<1>3. Pending = {}
  BY <1>2 DEF Pending
<1>4. /\ ops.h2vUnfill \in SUBSET (Node \X Vertex) /\ ops.h2vFill \in SUBSET (Node \X Vertex)
      /\ ops.v2hUnfill \in SUBSET (Vertex \X Node) /\ ops.v2hFill \in SUBSET (Vertex \X Node)
  BY <1>2 DEF HostFacts
<1>5. h2v' = [k \in DOMAIN h2v \ delta.dead |->
                (h2v[k] \ Values(ops.h2vUnfill, k)) \cup Values(ops.h2vFill, k)]
  BY <1>1, FlushedFacts
<1>6. DOMAIN h2v \ delta.dead = alive
  BY <1>2, <1>3 DEF TreesLackOps, AliveKept
<1>7. ASSUME NEW h \in alive PROVE h2v'[h] = rows[h]
  <2>1. h2v'[h] = (h2v[h] \ Values(ops.h2vUnfill, h)) \cup Values(ops.h2vFill, h)
    BY <1>5, <1>6
  <2>2. /\ \A x : x \in Values(ops.h2vUnfill, h) <=> <<h, x>> \in ops.h2vUnfill
        /\ \A x : x \in Values(ops.h2vFill, h) <=> <<h, x>> \in ops.h2vFill
    BY <1>4, ValuesFacts
  <2>3. h \in DOMAIN h2v
    BY <1>6
  <2>4. h2v[h] \in SUBSET Vertex /\ rows[h] \in SUBSET Vertex
    BY <1>2, <2>3 DEF TreesLackOps, HostFacts
  <2>5. \A x : x \in h2v'[h] => x \in Vertex
    <3>1. \A e \in ops.h2vFill : e[2] \in Vertex
      BY <1>4
    <3>2. \A x : <<h, x>>[2] = x
      OBVIOUS
    <3>3. \A x : <<h, x>> \in ops.h2vFill => x \in Vertex
      BY <3>1, <3>2
    <3> QED BY <2>1, <2>2, <2>4, <3>3
  <2>6. \A x \in Vertex : x \in h2v'[h] <=> x \in rows[h]
    BY <1>2, <2>1, <2>2 DEF TreesLackOps
  <2> QED BY <2>4, <2>5, <2>6
<1>8. v2hTree' = [k \in DOMAIN v2hTree \ {} |->
                    (v2hTree[k] \ Values(ops.v2hUnfill, k)) \cup Values(ops.v2hFill, k)]
  BY <1>1, FlushedFacts
<1>9. DOMAIN v2hTree = Vertex /\ DOMAIN v2hTree \ {} = Vertex
  BY <1>2 DEF TreesLackOps
<1>10. ASSUME NEW v \in Vertex PROVE v2hTree'[v] = v2h[v]
  <2>1. v2hTree'[v] = (v2hTree[v] \ Values(ops.v2hUnfill, v)) \cup Values(ops.v2hFill, v)
    BY <1>8, <1>9
  <2>2. /\ \A x : x \in Values(ops.v2hUnfill, v) <=> <<v, x>> \in ops.v2hUnfill
        /\ \A x : x \in Values(ops.v2hFill, v) <=> <<v, x>> \in ops.v2hFill
    BY <1>4, ValuesFacts
  <2>3. v2hTree[v] \in SUBSET Node /\ v2h[v] \in SUBSET Node
    BY <1>2 DEF TreesLackOps, HostFacts
  <2>4. \A x : x \in v2hTree'[v] => x \in Node
    <3>1. \A e \in ops.v2hFill : e[2] \in Node
      BY <1>4
    <3>2. \A x : <<v, x>>[2] = x
      OBVIOUS
    <3>3. \A x : <<v, x>> \in ops.v2hFill => x \in Node
      BY <3>1, <3>2
    <3> QED BY <2>1, <2>2, <2>3, <3>3
  <2>5. \A x \in Node : x \in v2hTree'[v] <=> x \in v2h[v]
    BY <1>2, <2>1, <2>2 DEF TreesLackOps
  <2> QED BY <2>3, <2>4, <2>5
<1>11. v2hTree' = v2h
  <2>1. v2h = [v \in Vertex |-> v2h[v]]
    BY <1>2 DEF HostFacts
  <2>2. v2hTree' = [v \in Vertex |-> v2hTree'[v]]
    BY <1>8, <1>9
  <2> QED BY <1>10, <2>1, <2>2
<1> QED BY <1>5, <1>6, <1>7, <1>11

\* What is left of h2h when the rows that live on have changed and before the
\* new ones come.
LEMMA KeptRows ==
  ASSUME BInv, TreeInv, phase = "mirrored",
         NEW S, S = alive \cap before.graph.live,
         NEW kept, kept = Flushed(h2h, ErasedKeys, Directed(delta.del, S), Directed(delta.ins, S))
  PROVE  /\ DOMAIN kept = {h2hKeyOfHe[h] : h \in S}
         /\ \A h \in S : kept[h2hKeyOfHe[h]] = Adjacent(rows)[h]
<1> DEFINE live == before.graph.live
           adj == before.graph.adj
<1>1. /\ HostFacts /\ DeltaExact /\ StoresNeighbours(live, adj) /\ delta.dead = live \ alive
      /\ S \subseteq Node /\ Symmetric(adj)
  BY DEF BInv, TreeInv, BatchPhases, DeltaExact, HostFacts
<1>2. /\ h2hKeyOfHe \in [Node -> Nat] /\ DOMAIN h2h = {h2hKeyOfHe[h] : h \in live}
      /\ \A h \in Node : h2hKeyOfHe[h] # 0 <=> h \in live
      /\ \A a, b \in live : h2hKeyOfHe[a] = h2hKeyOfHe[b] => a = b
      /\ \A h \in live : h2h[h2hKeyOfHe[h]] = adj[h]
  BY <1>1 DEF StoresNeighbours
<1>3. live \subseteq Node
  <2>1. AliveKept /\ alive \subseteq Node /\ inc.deleted \subseteq Node
    BY DEF BInv, BatchPhases, HostFacts, Record
  <2> QED BY <2>1 DEF AliveKept
<1>4. kept = [k \in DOMAIN h2h \ ErasedKeys |->
                (h2h[k] \ Values(Directed(delta.del, S), k)) \cup Values(Directed(delta.ins, S), k)]
  BY FlushedFacts
<1>5. ErasedKeys = {h2hKeyOfHe[h] : h \in live \ alive}
  BY <1>1, <1>2, <1>3 DEF ErasedKeys
<1>6. DOMAIN h2h \ ErasedKeys = {h2hKeyOfHe[h] : h \in S}
  BY <1>2, <1>5
<1>7. ASSUME NEW h \in S PROVE kept[h2hKeyOfHe[h]] = Adjacent(rows)[h]
  <2>1. /\ Values(Directed(delta.del, S), h2hKeyOfHe[h]) = NeighboursIn(delta.del, h)
        /\ Values(Directed(delta.ins, S), h2hKeyOfHe[h]) = NeighboursIn(delta.ins, h)
    BY <1>1, <1>2, DirectedValues
  <2>2. h \in Node /\ h \in live
    BY <1>1
  <2>3. /\ NeighboursIn(delta.del, h) = adj[h] \ Adjacent(rows)[h]
        /\ NeighboursIn(delta.ins, h) = Adjacent(rows)[h] \ adj[h]
    BY <1>1, <2>2, DeltaRows
  <2>4. h2hKeyOfHe[h] \in DOMAIN h2h \ ErasedKeys
    BY <1>6
  <2>5. kept[h2hKeyOfHe[h]] = (h2h[h2hKeyOfHe[h]] \ Values(Directed(delta.del, S), h2hKeyOfHe[h]))
                                \cup Values(Directed(delta.ins, S), h2hKeyOfHe[h])
    BY <1>4, <2>4
  <2>6. h2h[h2hKeyOfHe[h]] = adj[h]
    BY <1>2, <2>2
  <2> DEFINE b == Adjacent(rows)[h]
  <2>7. kept[h2hKeyOfHe[h]] = (adj[h] \ (adj[h] \ b)) \cup (b \ adj[h])
    BY <2>1, <2>3, <2>5, <2>6
  <2> HIDE DEF b
  <2>8. kept[h2hKeyOfHe[h]] = b
    BY <2>7
  <2> QED BY <2>8 DEF b
<1> QED BY <1>4, <1>6, <1>7

LEMMA FinishH2h ==
  ASSUME BInv, TreeInv, FinishBatch
  PROVE  StoresNeighbours(alive, Adjacent(rows))'
<1> DEFINE live == before.graph.live
           S == alive \cap live
           kept == Flushed(h2h, ErasedKeys, Directed(delta.del, S), Directed(delta.ins, S))
<1>1. phase = "mirrored" /\ UNCHANGED <<alive, rows>>
  BY DEF FinishBatch, incidenceVars
<1>2. /\ HostFacts /\ DeltaExact /\ AliveKept /\ TreesLackOps /\ inserts = <<>>
      /\ StoresNeighbours(live, before.graph.adj)
      /\ \A h \in Node \ live : before.graph.adj[h] = {}
      /\ delta.new = inc.new /\ delta.dead = live \ alive
  BY <1>1 DEF BInv, TreeInv, BatchPhases, H2vIds, InBatch, DeltaExact
<1>3. /\ alive \subseteq Node /\ delta.new \subseteq alive /\ delta.new \cap live = {}
      /\ alive = S \cup delta.new
  BY <1>2 DEF HostFacts, AliveKept, TreesLackOps
<1>4. /\ h2hKeyOfHe \in [Node -> Nat]
      /\ \A h \in Node : h2hKeyOfHe[h] # 0 <=> h \in live
      /\ \A a, b \in live : h2hKeyOfHe[a] = h2hKeyOfHe[b] => a = b
  BY <1>2 DEF StoresNeighbours
<1>5. {h \in alive : h2hKeyOfHe[h] # 0} = S /\ S \ delta.new = S
  BY <1>3, <1>4
<1>6. DOMAIN kept = {h2hKeyOfHe[h] : h \in S} /\ \A h \in S : kept[h2hKeyOfHe[h]] = Adjacent(rows)[h]
  BY <1>1, KeptRows
<1>7. \E adopted \in [delta.new -> Key \ DOMAIN kept] :
        /\ \A a, b \in delta.new : adopted[a] = adopted[b] => a = b
        /\ h2h' = [k \in DOMAIN kept \cup {adopted[h] : h \in delta.new} |->
                     IF k \in DOMAIN kept THEN kept[k]
                     ELSE NeighboursIn(delta.ins, CHOOSE h \in delta.new : adopted[h] = k)]
        /\ h2hKeyOfHe' = [h \in Node |-> IF h \in delta.new THEN adopted[h]
                                         ELSE IF h \in delta.dead THEN 0
                                         ELSE h2hKeyOfHe[h]]
  BY <1>5 DEF FinishBatch
<1> HIDE DEF kept
<1>8. PICK adopted \in [delta.new -> Key \ DOMAIN kept] :
        /\ \A a, b \in delta.new : adopted[a] = adopted[b] => a = b
        /\ h2h' = [k \in DOMAIN kept \cup {adopted[h] : h \in delta.new} |->
                     IF k \in DOMAIN kept THEN kept[k]
                     ELSE NeighboursIn(delta.ins, CHOOSE h \in delta.new : adopted[h] = k)]
        /\ h2hKeyOfHe' = [h \in Node |-> IF h \in delta.new THEN adopted[h]
                                         ELSE IF h \in delta.dead THEN 0
                                         ELSE h2hKeyOfHe[h]]
  BY <1>7
<1>9. \A h \in delta.new : adopted[h] \in Nat /\ adopted[h] # 0 /\ adopted[h] \notin DOMAIN kept
  BY SpareAssumption DEF Key
<1>10. /\ \A h \in delta.new : h2hKeyOfHe'[h] = adopted[h]
       /\ \A h \in S : h2hKeyOfHe'[h] = h2hKeyOfHe[h]
       /\ \A h \in Node \ alive : h2hKeyOfHe'[h] = 0
  BY <1>2, <1>3, <1>4, <1>8
<1>11. h2hKeyOfHe' \in [Node -> Nat]
  BY <1>4, <1>8, <1>9
<1>12. \A h \in Node : h2hKeyOfHe'[h] # 0 <=> h \in alive
  BY <1>3, <1>4, <1>9, <1>10
<1>13. \A a, b \in alive : h2hKeyOfHe'[a] = h2hKeyOfHe'[b] => a = b
  <2> SUFFICES ASSUME NEW a \in alive, NEW b \in alive, h2hKeyOfHe'[a] = h2hKeyOfHe'[b] PROVE a = b
    OBVIOUS
  <2>1. \A h \in S : h2hKeyOfHe'[h] \in DOMAIN kept
    BY <1>6, <1>10
  <2>2. CASE a \in S /\ b \in S
    BY <1>4, <1>10, <2>2
  <2>3. CASE a \in delta.new /\ b \in delta.new
    BY <1>8, <1>10, <2>3
  <2> QED BY <1>3, <1>9, <1>10, <2>1, <2>2, <2>3
<1>14. DOMAIN h2h' = {h2hKeyOfHe'[h] : h \in alive}
  <2>1. DOMAIN h2h' = DOMAIN kept \cup {adopted[h] : h \in delta.new}
    BY <1>8
  <2> QED BY <1>3, <1>6, <1>10, <2>1
<1>15. \A h \in S : h2h'[h2hKeyOfHe'[h]] = Adjacent(rows)[h]
  BY <1>6, <1>8, <1>10
<1>16. ASSUME NEW h \in delta.new PROVE h2h'[h2hKeyOfHe'[h]] = Adjacent(rows)[h]
  <2> DEFINE c == CHOOSE x \in delta.new : adopted[x] = adopted[h]
  <2>1. c \in delta.new /\ adopted[c] = adopted[h]
    OBVIOUS
  <2>2. c = h
    BY <1>8, <2>1
  <2>3. h2h'[adopted[h]] = NeighboursIn(delta.ins, c)
    BY <1>8, <1>9
  <2>4. h \in Node /\ before.graph.adj[h] = {}
    BY <1>2, <1>3
  <2> HIDE DEF c
  <2>5. NeighboursIn(delta.ins, h) = Adjacent(rows)[h] \ before.graph.adj[h]
    BY <1>1, <2>4, DeltaRows DEF BInv
  <2> QED BY <1>10, <2>2, <2>3, <2>4, <2>5
<1>17. \A h \in alive : h2h'[h2hKeyOfHe'[h]] = Adjacent(rows)[h]
  BY <1>3, <1>15, <1>16
<1>18. Adjacent(rows)' = Adjacent(rows)
  BY <1>1 DEF Adjacent
<1> HIDE DEF S, live
<1> QED BY <1>1, <1>11, <1>12, <1>13, <1>14, <1>17, <1>18 DEF StoresNeighbours

LEMMA FinishBatchTrees ==
  ASSUME BInv, TreeInv, FinishBatch
  PROVE  TreeInv'
<1>1. phase' = "idle" /\ UNCHANGED <<alive, rows, v2h>>
  BY DEF FinishBatch, incidenceVars
<1>2. phase' \notin BatchPhases
  BY <1>1 DEF BatchPhases
<1>3. /\ DOMAIN h2v' = alive /\ \A h \in alive : h2v'[h] = rows[h]
      /\ v2hTree' = v2h
  BY FinishH2v
<1>4. StoresNeighbours(alive, Adjacent(rows))'
  BY FinishH2h
<1> QED BY <1>1, <1>2, <1>3, <1>4 DEF TreeInv

-----------------------------------------------------------------------------
LEMMA TreeInvNext == BInv /\ BInv' /\ TreeInv /\ [Next]_bvars => TreeInv'
<1> SUFFICES ASSUME BInv, BInv', TreeInv, [Next]_bvars PROVE TreeInv'
  OBVIOUS
<1>1. CASE UNCHANGED bvars
  <2>1. /\ UNCHANGED <<escherVars, incidenceVars, inserts, inc, ops, before, phase>>
    BY <1>1 DEF bvars, hostVars, recordVars
  <2>2. CASE Settled
    <3>1. UNCHANGED <<rows, alive, v2h, h2v, v2hTree, h2h, h2hKeyOfHe, phase>> /\ phase \notin BatchPhases
      BY <2>1, <2>2 DEF escherVars, incidenceVars, Settled, BatchPhases
    <3>2. Adjacent(rows)' = Adjacent(rows)
      BY <3>1 DEF Adjacent
    <3>3. StoresNeighbours(alive, Adjacent(rows)) => StoresNeighbours(alive, Adjacent(rows))'
      BY <3>1, <3>2 DEF StoresNeighbours
    <3> QED BY <2>2, <3>1, <3>3 DEF TreeInv, Settled
  <2>3. CASE phase \in BatchPhases
    BY <2>1, <2>3, TreesStill
  <2> QED BY <2>2, <2>3 DEF BInv, Settled
<1>2. CASE phase = "idle" /\ \E s \in AdoptedInsertions : BeginBatch(s) \/ BeginBatchThrows(s)
  BY <1>2, BeginBatchTrees, BeginBatchThrowsTrees
<1>3. CASE HostStep
  <2>1. UNCHANGED <<deviceVars, escherVars, before>> /\ (BatchOp \/ HostDone("applied"))
    BY <1>3 DEF HostStep
  <2>2. CASE BatchOp
    BY <2>1, <2>2, DeleteHyperedgeTrees, DeleteVertexTrees, InsertVertexTrees, InsertHyperedgeTrees DEF BatchOp
  <2>3. CASE HostDone("applied")
    <3>1. /\ InBatch /\ phase' = "applied"
          /\ UNCHANGED <<escherVars, incidenceVars, inserts, inc, ops, before>>
      BY <2>1, <2>3 DEF HostDone, InBatch, recordVars
    <3>2. phase \in BatchPhases /\ phase' \in BatchPhases
      BY <3>1 DEF InBatch, BatchPhases
    <3> QED BY <3>1, <3>2, TreesStill
  <2> QED BY <2>1, <2>2, <2>3
<1>4. CASE \/ FindCandidates \/ ClassifyPairs
           \/ LaunchApplyRows \/ (\E h \in Node : ApplyRow(h)) \/ CsrPatched \/ CsrRebuilt
  <2>1. /\ UNCHANGED <<escherVars, incidenceVars, inserts, inc, ops, before>>
        /\ phase \in {"applied", "candidates", "classified", "csr"}
        /\ phase' \in {"candidates", "classified", "csr", "mirrored"}
    BY <1>4 DEF FindCandidates, ClassifyPairs, LaunchApplyRows, ApplyRow, CsrPatched, CsrRebuilt,
                hostVars, recordVars
  <2>2. phase \in BatchPhases /\ phase' \in BatchPhases
    BY <2>1 DEF BatchPhases
  <2>3. phase' \notin {"heDelete", "vtxDelete", "vtxInsert"}
    BY <2>1
  <2> QED BY <2>1, <2>2, <2>3, TreesStill
<1>5. CASE FinishBatch
  BY <1>5, FinishBatchTrees
<1>6. CASE Stopped
  BY <1>1, <1>6 DEF Stopped
<1> QED BY <1>1, <1>2, <1>3, <1>4, <1>5, <1>6 DEF Next

\* Between batches the three ESCHER trees hold the rows of the live
\* hyperedges, the lists of the vertices and, under distinct keys, the
\* line-graph neighbours of the live hyperedges, and nothing else: what
\* beginBatch inserts, the lists kept by HostHypergraph::applyBatch and the
\* delta applied by finishBatch add up to the host's hypergraph.
THEOREM TreesStayInAgreement == Spec => []TreesAgree
<1>1. BInv /\ TreeInv => TreesAgree
  <2> SUFFICES ASSUME BInv, TreeInv, Settled PROVE TreesAgree
    BY DEF TreesAgree
  <2>1. HostLineGraph = Adjacent(rows)
    BY HostLineGraphIsAdjacent DEF BInv
  <2> QED BY <2>1 DEF TreeInv, TreesAgree, StoresNeighbours
<1>2. Init => TreeInv
  BY TreeInvInit
<1>3. BInv /\ BInv' /\ TreeInv /\ [Next]_bvars => TreeInv'
  BY TreeInvNext
<1> QED BY <1>1, <1>2, <1>3, BatchInvariant, PTL DEF Spec
=============================================================================
