--------------------------- MODULE HostIncidence ---------------------------
(***************************************************************************)
(* HostHypergraph: the incidence of the dynamic hypergraph on the host,    *)
(* kept both ways, and the batches that change it                          *)
(* (hypergraph/src/HostHypergraph.cpp).                                    *)
(*                                                                         *)
(* A batch runs in four phases: hyperedges are deleted, single vertices    *)
(* are deleted, single vertices are inserted, hyperedges are inserted.     *)
(* Every op that the code skips (dead or virtual target, absent or present *)
(* vertex, last vertex of a hyperedge) is a step that changes nothing but  *)
(* a statistic, and is left out.  Next to the incidence itself a batch     *)
(* records what it did, for the device (IncidenceBatch) and for the ESCHER *)
(* trees (EscherHorizOps).                                                 *)
(*                                                                         *)
(* Hyperedge ids are 1-based on the host and 0-based on the device.  Here  *)
(* a hyperedge is its 0-based node.                                        *)
(***************************************************************************)
EXTENDS LineGraph, Sequences

CONSTANTS
  NumVertices,    \* numVertices: the vertices are 0 .. NumVertices - 1
  Weights,        \* the weights of inserted hyperedges
  InitialRows,    \* the hypergraphs that may be loaded: rows of the nodes 0, 1, ...
  MaxHostBatches, \* bound: batches per behaviour
  MaxOps,         \* bound: effective deletions and vertex ops per batch
  MaxInserts      \* bound: inserted hyperedges per batch

Vertex == 0 .. NumVertices - 1

ASSUME VertexAssumption == NumVertices \in Nat
ASSUME WeightsAssumption == Weights \subseteq Nat \ {0}
ASSUME HostBoundsAssumption == MaxHostBatches \in Nat /\ MaxOps \in Nat /\ MaxInserts \in Nat
ASSUME InitialRowsAssumption ==
  \A r \in InitialRows : \E m \in 1 .. N :
    /\ r \in [0 .. m - 1 -> (SUBSET Vertex) \ {{}}]
    /\ Virtual \subseteq 0 .. m - 1

VARIABLES
  phase,     \* where applyBatch is, "idle" between batches
  rows,      \* heVerts
  weight,    \* heW
  alive,     \* alive
  maxId,     \* maxId(): the nodes 0 .. maxId - 1 have been used
  v2h,       \* v2h
  freeIds,   \* freeIds
  freePos,   \* freePos, from 1 on; 0 for the code's -1
  inserts,   \* heInsert with finalIds: what remains to be inserted
  inc,       \* IncidenceBatch of this batch
  ops,       \* EscherHorizOps of this batch
  taken,     \* ops applied in this batch (bounded by MaxOps)
  hostBatches \* batches begun (bounded by MaxHostBatches)

incidenceVars == <<rows, weight, alive, maxId, v2h, freeIds, freePos>>
recordVars == <<inc, ops, taken>>
hostVars == <<phase, incidenceVars, inserts, recordVars, hostBatches>>

(***************************************************************************)
(* The record of a batch.  net sums the signs that the batch emits for an  *)
(* incidence (the device reduces the list by key), pre holds the rows of   *)
(* the touched hyperedges as they were when first touched.                 *)
(***************************************************************************)
NoChanges == [net |-> [e \in Vertex \X Node |-> 0], pre |-> <<>>, vertices |-> {},
              new |-> {}, deleted |-> {}]

NoOps == [v2hUnfill |-> {}, v2hFill |-> {}, h2vUnfill |-> {}, h2vFill |-> {}]

Touched == DOMAIN inc.pre

\* Fault: the row is recorded at every touch, not only at the first.
TouchAgain(h) ==
  [x \in Touched \cup {h} |-> IF x = h THEN rows[h] ELSE inc.pre[x]]

\* touchHe.
Touch(h) ==
  [x \in Touched \cup {h} |-> IF x \in Touched THEN inc.pre[x] ELSE rows[h]]

\* inc after the incidences of h with the vertices vs were added or removed.
Recorded(h, vs, sign) ==
  [inc EXCEPT !.net = [e \in Vertex \X Node |-> IF e[1] \in vs /\ e[2] = h THEN @[e] + sign ELSE @[e]],
              !.pre = Touch(h),
              !.vertices = @ \cup vs]

\* The incidence lists without, and with, h at the vertices vs.
Without(h, vs) == [v \in Vertex |-> IF v \in vs THEN v2h[v] \ {h} ELSE v2h[v]]
With(h, vs) == [v \in Vertex |-> IF v \in vs THEN v2h[v] \cup {h} ELSE v2h[v]]

-----------------------------------------------------------------------------
(***************************************************************************)
(* buildFrom, with the weights of the loaded hyperedges.                   *)
(***************************************************************************)
HostInit ==
  \E r \in InitialRows :
    LET m == Cardinality(DOMAIN r) IN
    /\ phase = "idle" /\ inserts = <<>> /\ inc = NoChanges /\ ops = NoOps
    /\ taken = 0 /\ hostBatches = 0
    /\ maxId = m /\ alive = DOMAIN r
    /\ rows = [h \in Node |-> IF h \in DOMAIN r THEN r[h] ELSE {}]
    /\ \E w \in [Node -> Weights] :
         weight = [h \in Node |-> IF h \in Virtual \/ h >= m THEN 0 ELSE w[h]]
    /\ v2h = [v \in Vertex |-> {h \in DOMAIN r : v \in r[h]}]
    /\ freeIds = <<>> /\ freePos = [h \in Node |-> 0]

(***************************************************************************)
(* A batch begins: its insertions are known, with one final id each.       *)
(***************************************************************************)
InsertionsWith(ids) ==
  {s \in UNION {[1 .. k -> [id : ids, verts : (SUBSET Vertex) \ {{}}, w : Weights]] : k \in 0 .. MaxInserts} :
     \A i, j \in DOMAIN s : s[i].id = s[j].id => i = j}

Insertions == InsertionsWith(Node)

HostBegin(s) ==
  /\ phase = "idle" /\ hostBatches < MaxHostBatches
  /\ phase' = "heDelete"
  /\ inserts' = s
  /\ inc' = NoChanges /\ ops' = NoOps /\ taken' = 0
  /\ hostBatches' = hostBatches + 1
  /\ UNCHANGED incidenceVars

(***************************************************************************)
(* Phase 1.                                                                *)
(***************************************************************************)
DeleteHyperedge(h) ==
  /\ phase = "heDelete" /\ taken < MaxOps
  /\ h \in alive \ Virtual
  /\ inc' = [Recorded(h, rows[h], -1) EXCEPT !.deleted = @ \cup {h}]
  /\ ops' = [ops EXCEPT !.v2hUnfill = @ \cup (rows[h] \X {h})]
  /\ v2h' = Without(h, rows[h])
  /\ rows' = [rows EXCEPT ![h] = {}]
  /\ alive' = alive \ {h}
  /\ freeIds' = Append(freeIds, h)
  /\ freePos' = [freePos EXCEPT ![h] = Len(freeIds) + 1]
  /\ taken' = taken + 1
  /\ UNCHANGED <<phase, weight, maxId, inserts, hostBatches>>

\* Fault: the vertex keeps the hyperedge in its list.
DeleteVertexOneWay(h, v) ==
  /\ phase \in {"heDelete", "vtxDelete"} /\ taken < MaxOps
  /\ h \in alive \ Virtual
  /\ v \in rows[h] /\ rows[h] # {v}
  /\ phase' = "vtxDelete"
  /\ inc' = Recorded(h, {v}, -1)
  /\ ops' = [ops EXCEPT !.h2vUnfill = @ \cup {<<h, v>>}, !.v2hUnfill = @ \cup {<<v, h>>}]
  /\ rows' = [rows EXCEPT ![h] = @ \ {v}]
  /\ taken' = taken + 1
  /\ UNCHANGED <<weight, alive, maxId, v2h, freeIds, freePos, inserts, hostBatches>>

(***************************************************************************)
(* Phase 2.  A hyperedge never loses its last vertex this way.             *)
(***************************************************************************)
DeleteVertex(h, v) ==
  /\ phase \in {"heDelete", "vtxDelete"} /\ taken < MaxOps
  /\ h \in alive \ Virtual
  /\ v \in rows[h] /\ rows[h] # {v}
  /\ phase' = "vtxDelete"
  /\ inc' = Recorded(h, {v}, -1)
  /\ ops' = [ops EXCEPT !.h2vUnfill = @ \cup {<<h, v>>}, !.v2hUnfill = @ \cup {<<v, h>>}]
  /\ v2h' = Without(h, {v})
  /\ rows' = [rows EXCEPT ![h] = @ \ {v}]
  /\ taken' = taken + 1
  /\ UNCHANGED <<weight, alive, maxId, freeIds, freePos, inserts, hostBatches>>

(***************************************************************************)
(* Phase 3.                                                                *)
(***************************************************************************)
InsertVertex(h, v) ==
  /\ phase \in {"heDelete", "vtxDelete", "vtxInsert"} /\ taken < MaxOps
  /\ h \in alive \ Virtual
  /\ v \notin rows[h]
  /\ phase' = "vtxInsert"
  /\ inc' = Recorded(h, {v}, 1)
  /\ ops' = [ops EXCEPT !.h2vFill = @ \cup {<<h, v>>}, !.v2hFill = @ \cup {<<v, h>>}]
  /\ v2h' = With(h, {v})
  /\ rows' = [rows EXCEPT ![h] = @ \cup {v}]
  /\ taken' = taken + 1
  /\ UNCHANGED <<weight, alive, maxId, freeIds, freePos, inserts, hostBatches>>

(***************************************************************************)
(* reserveIds: the i-th id, recycled ones from the back of the list first, *)
(* then fresh ones.                                                        *)
(***************************************************************************)
ReservedId(i) ==
  IF i <= Len(freeIds) THEN freeIds[Len(freeIds) + 1 - i] ELSE maxId + (i - Len(freeIds) - 1)

(***************************************************************************)
(* freeListRemove_: the last id of the list takes the place of h.          *)
(***************************************************************************)
LastFree == freeIds[Len(freeIds)]

\* Fault: a recycled id stays on the free list.
FreeIdsKept(h) == freeIds

FreeIdsWithout(h) ==
  IF freePos[h] = 0 THEN freeIds
  ELSE [i \in 1 .. Len(freeIds) - 1 |-> IF i = freePos[h] THEN LastFree ELSE freeIds[i]]

\* Fault: the id that moved in the list keeps its old position.
FreePosStale(h) == [freePos EXCEPT ![h] = 0]

FreePosWithout(h) ==
  IF freePos[h] = 0 THEN freePos
  ELSE [[freePos EXCEPT ![LastFree] = freePos[h]] EXCEPT ![h] = 0]

(***************************************************************************)
(* Phase 4.  An id may lie past the ids used so far.                       *)
(***************************************************************************)
InsertHyperedge ==
  LET new == Head(inserts) IN
  /\ phase \in {"heDelete", "vtxDelete", "vtxInsert", "heInsert"}
  /\ inserts # <<>> /\ new.id \notin alive
  /\ phase' = "heInsert"
  /\ inc' = [Recorded(new.id, new.verts, 1) EXCEPT !.new = @ \cup {new.id}]
  /\ ops' = [ops EXCEPT !.v2hFill = @ \cup (new.verts \X {new.id})]
  /\ v2h' = With(new.id, new.verts)
  /\ rows' = [rows EXCEPT ![new.id] = new.verts]
  /\ weight' = [weight EXCEPT ![new.id] = new.w]
  /\ alive' = alive \cup {new.id}
  /\ maxId' = IF new.id < maxId THEN maxId ELSE new.id + 1
  /\ freeIds' = FreeIdsWithout(new.id) /\ freePos' = FreePosWithout(new.id)
  /\ inserts' = Tail(inserts)
  /\ UNCHANGED <<taken, hostBatches>>

(***************************************************************************)
(* The final id of an insertion is alive: applyBatch throws, and the ops   *)
(* before it stay applied.                                                 *)
(***************************************************************************)
IdCollision ==
  /\ phase \in {"heDelete", "vtxDelete", "vtxInsert", "heInsert"}
  /\ inserts # <<>> /\ Head(inserts).id \in alive
  /\ phase' = "failed"
  /\ UNCHANGED <<incidenceVars, inserts, recordVars, hostBatches>>

(***************************************************************************)
(* All ops are applied; the rows and lists are now the post rows and       *)
(* lengths of the record.                                                  *)
(***************************************************************************)
HostDone(next) ==
  /\ phase \in {"heDelete", "vtxDelete", "vtxInsert", "heInsert"}
  /\ inserts = <<>>
  /\ phase' = next
  /\ UNCHANGED <<incidenceVars, inserts, recordVars, hostBatches>>

BatchOp ==
  \/ \E h \in Node : DeleteHyperedge(h)
  \/ \E h \in Node, v \in Vertex : DeleteVertex(h, v)
  \/ \E h \in Node, v \in Vertex : InsertVertex(h, v)
  \/ InsertHyperedge

\* MaxHostBatches is spent, or applyBatch has thrown.
HostStopped ==
  /\ phase = "failed" \/ (phase = "idle" /\ hostBatches = MaxHostBatches)
  /\ UNCHANGED hostVars

HostNext ==
  \/ \E s \in Insertions : HostBegin(s)
  \/ BatchOp
  \/ IdCollision
  \/ HostDone("idle")
  \/ HostStopped

HostSpec == HostInit /\ [][HostNext]_hostVars

-----------------------------------------------------------------------------
HostTypeOK ==
  /\ phase \in {"idle", "heDelete", "vtxDelete", "vtxInsert", "heInsert", "failed"}
  /\ rows \in [Node -> SUBSET Vertex] /\ weight \in [Node -> Nat]
  /\ alive \in SUBSET Node /\ maxId \in 0 .. N
  /\ v2h \in [Vertex -> SUBSET Node]
  /\ freeIds \in Seq(Node) /\ freePos \in [Node -> Nat]
  /\ inserts \in Seq([id : Node, verts : (SUBSET Vertex) \ {{}}, w : Weights])
  /\ inc \in [net : [Vertex \X Node -> Int], pre : UNION {[T -> SUBSET Vertex] : T \in SUBSET Node},
              vertices : SUBSET Vertex, new : SUBSET Node, deleted : SUBSET Node]
  /\ ops \in [v2hUnfill : SUBSET (Vertex \X Node), v2hFill : SUBSET (Vertex \X Node),
              h2vUnfill : SUBSET (Node \X Vertex), h2vFill : SUBSET (Node \X Vertex)]
  /\ taken \in 0 .. MaxOps /\ hostBatches \in 0 .. MaxHostBatches

(***************************************************************************)
(* The two directions of the incidence agree after every op, in the middle *)
(* of a batch and after a throw too; the live hyperedges are those with    *)
(* vertices; and the virtual ones stay (HostHypergraph.cpp:176-179).       *)
(***************************************************************************)
IncidenceConsistent ==
  /\ \A h \in Node, v \in Vertex : v \in rows[h] <=> h \in v2h[v]
  /\ \A h \in Node : rows[h] # {} <=> h \in alive
  /\ Virtual \subseteq alive

(***************************************************************************)
(* The free list holds dead ids only, each once, and the positions that    *)
(* make a removal O(1) are right (HostHypergraph.cpp:57-67).               *)
(***************************************************************************)
FreeListExact ==
  /\ \A i \in DOMAIN freeIds : freePos[freeIds[i]] = i
  /\ \A h \in Node : freePos[h] # 0 =>
       h \notin alive /\ freePos[h] \in DOMAIN freeIds /\ freeIds[freePos[h]] = h

(***************************************************************************)
(* reserveIds: the ids it hands out for the next batch are dead or unused, *)
(* and no two of them are equal, whatever was deleted and recycled before. *)
(***************************************************************************)
ReservedIdsUsable ==
  \A i, j \in 1 .. Len(freeIds) + MaxInserts :
    ReservedId(i) \notin alive /\ (ReservedId(i) = ReservedId(j) => i = j)

(***************************************************************************)
(* What a batch ships to the device is the net change, however its ops     *)
(* undo each other: the signs of an incidence sum to the difference        *)
(* between its row now and its row when the hyperedge was first touched,   *)
(* the changed lists belong to touched vertices, and an untouched          *)
(* hyperedge has not changed at all.                                       *)
(***************************************************************************)
Member(v, row) == IF v \in row THEN 1 ELSE 0

InBatch == phase \in {"heDelete", "vtxDelete", "vtxInsert", "heInsert"}

NetIsDifference ==
  InBatch => \A v \in Vertex, h \in Node :
    LET net == inc.net[<<v, h>>] IN
    IF h \in Touched
    THEN net = Member(v, rows[h]) - Member(v, inc.pre[h]) /\ (net # 0 => v \in inc.vertices)
    ELSE net = 0
=============================================================================
