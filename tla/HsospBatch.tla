----------------------------- MODULE HsospBatch -----------------------------
(***************************************************************************)
(* hsosp::applyBatch (hsosp/src/hsospDelta.cu): one batch of hypergraph    *)
(* changes, from the host incidence to the line graph on the device.       *)
(*                                                                         *)
(*   beginBatch       ids from the h2v tree, then HostHypergraph           *)
(*   deriveDelta      which line-graph pairs changed, from the incidence   *)
(*                    changes and the device's mirror of the incidence     *)
(*   applyDeltaPairs  the CSR rows, one warp per changed row               *)
(*   finishBatch      the three ESCHER trees                               *)
(*                                                                         *)
(* The host runs these one after the other.  Only the warps of             *)
(* applyDeltaPairs can observe each other, through the free tail of the    *)
(* CSR, and the one access they share is an atomic addition to its cursor, *)
(* so one warp is one step.  The ESCHER trees are maps from keys to sets   *)
(* here, as their operations promise; they choose the keys of inserted     *)
(* rows.                                                                   *)
(***************************************************************************)
EXTENDS HostIncidence, RowArena

CONSTANTS
  HeSpare,      \* least spare places of a hyperedge row; 2 in the code
  VertexSpare,  \* least spare places of a vertex row; 4 in the code
  CsrSpare,     \* least spare places of a CSR row; 4 in the code
  CsrAlign,     \* alignment of CSR rows; 32 in the code
  Room,         \* free places of an array laid out anew
  MaxKey        \* bound: largest key of the h2h tree

Key == 1 .. MaxKey

ASSUME SpareAssumption ==
  /\ {HeSpare, VertexSpare, CsrSpare, Room, MaxKey} \subseteq Nat
  /\ CsrAlign \in Nat \ {0}

VARIABLES
  he,          \* DeviceIncidence, d_heVal: the vertices of each hyperedge
  vx,          \* DeviceIncidence, d_vVal: the hyperedges of each vertex
  cand,        \* sc.cand: the candidate pairs
  delta,       \* dev.delta
  csr,         \* d_colInd: the neighbours of each node
  nodeW,       \* d_nodeW
  numEntries,  \* dev.numEntries
  csrTodo,     \* changed rows whose warp has not run
  csrFull,     \* d_overflowFlag
  h2v,         \* ESCHER trees, as maps
  v2hTree,
  h2h,
  h2hKeyOfHe,  \* h2hKeyOfHe, 0 for none
  pairCount,   \* h2hPairCount
  before       \* history: graph and delta when the batch began

mirrorVars == <<he, vx>>
deltaVars == <<cand, delta>>
csrVars == <<csr, nodeW, numEntries, csrTodo, csrFull>>
escherVars == <<h2v, v2hTree, h2h, h2hKeyOfHe, pairCount>>
deviceVars == <<mirrorVars, deltaVars, csrVars>>
bvars == <<hostVars, deviceVars, escherVars, before>>

(***************************************************************************)
(* Slots with slack.  Ids never used have no slot yet.                     *)
(***************************************************************************)
AtLeast(a, b) == IF a < b THEN b ELSE a
HeSlot(len) == len + AtLeast(HeSpare, len \div 2)
VertexSlot(len) == len + AtLeast(VertexSpare, len \div 2)
Aligned(n) == ((n + CsrAlign - 1) \div CsrAlign) * CsrAlign
RowCapacity(d) == Aligned(d + AtLeast(CsrSpare, d \div 4))

HeSlots(r, m) == [h \in Node |-> IF h < m THEN HeSlot(Cardinality(r[h])) ELSE 0]
VertexSlots(r) == [v \in Vertex |-> VertexSlot(Cardinality(r[v]))]
CsrSlots(r, m) == [h \in Node |-> IF h < m THEN RowCapacity(Cardinality(r[h])) ELSE 0]

\* HostHypergraph::lineGraph: the live hyperedges that share a vertex with h.
HostLineGraph ==
  [h \in Node |-> IF h \in alive THEN (UNION {v2h[v] : v \in rows[h]}) \ {h} ELSE {}]

EntryCount(r) == Cardinality({e \in Node \X Node : e[2] \in r[e[1]]})

(***************************************************************************)
(* The line graph that the device shows its kernels.  A node that was      *)
(* never used has no weight that anything reads; it is given the weight 1. *)
(***************************************************************************)
DeviceGraph ==
  [live |-> alive, adj |-> csr.row,
   w |-> [h \in Node |-> IF h < maxId THEN nodeW[h] ELSE 1]]

-----------------------------------------------------------------------------
(***************************************************************************)
(* bulkLoad and buildDeviceH2H.                                            *)
(***************************************************************************)
Init ==
  /\ HostInit
  /\ he = LayOut(rows, HeSlots(rows, maxId), Room)
  /\ vx = LayOut(v2h, VertexSlots(v2h), Room)
  /\ csr = LayOut(HostLineGraph, CsrSlots(HostLineGraph, maxId), Room)
  /\ nodeW = weight /\ numEntries = EntryCount(HostLineGraph)
  /\ cand = {} /\ delta = EmptyDelta /\ csrTodo = {} /\ csrFull = FALSE
  /\ h2v = [h \in alive |-> rows[h]]
  /\ v2hTree = v2h
  /\ h2h = [k \in {h + 1 : h \in alive} |-> HostLineGraph[k - 1]]
  /\ h2hKeyOfHe = [h \in Node |-> IF h \in alive THEN h + 1 ELSE 0]
  /\ pairCount = EntryCount(HostLineGraph) \div 2
  /\ before = [graph |-> DeviceGraph, delta |-> delta]

(***************************************************************************)
(* The ids that insertCBST gives to new h2v rows: some reuse the slots of  *)
(* erased rows, any of them as far as sizes are not modelled; the others   *)
(* are numbered from the largest key on.                                   *)
(***************************************************************************)
Largest(S) == CHOOSE x \in S : \A y \in S : y <= x

AdoptedByH2v(s) ==
  \E reused \in SUBSET DOMAIN s :
    /\ \A i \in reused : s[i].id < maxId /\ s[i].id \notin DOMAIN h2v
    /\ LET top == Largest(DOMAIN h2v \cup {s[i].id : i \in reused})
           surplus == DOMAIN s \ reused
       IN  \A i \in surplus : s[i].id = top + Cardinality({j \in surplus : j <= i})

AdoptedInsertions == {s \in InsertionsWith(0 .. N + MaxInserts - 1) : AdoptedByH2v(s)}

H2vWith(s) ==
  [h \in DOMAIN h2v \cup {s[i].id : i \in DOMAIN s} |->
     IF h \in DOMAIN h2v THEN h2v[h] ELSE s[CHOOSE i \in DOMAIN s : s[i].id = h].verts]

(***************************************************************************)
(* beginBatch: the new rows enter h2v before anything else happens; the    *)
(* batch on the host follows, op by op.                                    *)
(***************************************************************************)
BeginBatch(s) ==
  /\ \A i \in DOMAIN s : s[i].id \in Node
  /\ HostBegin(s)
  /\ h2v' = H2vWith(s)
  /\ before' = [graph |-> DeviceGraph, delta |-> delta]
  /\ UNCHANGED <<deviceVars, v2hTree, h2h, h2hKeyOfHe, pairCount>>

(***************************************************************************)
(* An adopted id exceeds maxHyperedges although other ids may be free:     *)
(* beginBatch throws, with the rows already in h2v.                        *)
(***************************************************************************)
BeginBatchThrows(s) ==
  /\ phase = "idle" /\ hostBatches < MaxHostBatches
  /\ \E i \in DOMAIN s : s[i].id \notin Node
  /\ h2v' = H2vWith(s)
  /\ phase' = "failed"
  /\ UNCHANGED <<incidenceVars, inserts, recordVars, hostBatches, deviceVars,
                 v2hTree, h2h, h2hKeyOfHe, pairCount, before>>

HostStep ==
  /\ BatchOp \/ HostDone("applied")
  /\ UNCHANGED <<deviceVars, escherVars, before>>

(***************************************************************************)
(* deriveDelta, steps 1 to 3.  A pair is a candidate when one of its two   *)
(* hyperedges gained or lost, on balance, a vertex that the other has in   *)
(* the list before or after the batch.  Between the two passes the vertex  *)
(* rows change to their state after the batch: in place, after moving to   *)
(* the tail, or by a new upload from the host when the tail is full.       *)
(***************************************************************************)
Gained(v) == {h \in Node : inc.net[<<v, h>>] > 0}
Lost(v) == {h \in Node : inc.net[<<v, h>>] < 0}

Pair(h, o) == IF h < o THEN <<h, o>> ELSE <<o, h>>

CandidatesOf(lists) ==
  UNION {{Pair(e[2], o) : o \in lists[e[1]] \ {e[2]}} :
         e \in {f \in Vertex \X Node : inc.net[f] # 0}}

\* New slots for the rows of ks, whose slot is smaller than they will be.
Outgrown(a, ks, len, Slot(_)) ==
  [k \in {j \in ks : a.cap[j] < len[j]} |-> Slot(len[k])]

PatchedVertexRows ==
  LET moving == Outgrown(vx, inc.vertices, [v \in Vertex |-> Cardinality(v2h[v])], VertexSlot)
  IN  IF RoomFor(vx, moving)
      THEN [Moved(vx, moving) EXCEPT !.row = [v \in Vertex |-> (@[v] \ Lost(v)) \cup Gained(v)]]
      ELSE LayOut(v2h, VertexSlots(v2h), Room)

\* Fault: both passes run before the vertex rows change.
FindCandidatesBefore ==
  /\ phase = "applied"
  /\ vx' = PatchedVertexRows
  /\ cand' = CandidatesOf(vx.row)
  /\ phase' = "candidates"
  /\ UNCHANGED <<incidenceVars, inserts, recordVars, hostBatches, he, delta, csrVars, escherVars, before>>

FindCandidates ==
  /\ phase = "applied"
  /\ vx' = PatchedVertexRows
  /\ cand' = CandidatesOf(vx.row) \cup CandidatesOf(vx'.row)
  /\ phase' = "candidates"
  /\ UNCHANGED <<incidenceVars, inserts, recordVars, hostBatches, he, delta, csrVars, escherVars, before>>

(***************************************************************************)
(* Steps 4 to 6.  Each candidate is classified by whether its rows overlap *)
(* before and after the batch; the rows of touched hyperedges come with    *)
(* the batch, the others from the mirror.  Then the touched rows of the    *)
(* mirror are overwritten.                                                 *)
(***************************************************************************)
PreRow(h) == IF h \in Touched THEN inc.pre[h] ELSE he.row[h]
PostRow(h) == IF h \in Touched THEN rows[h] ELSE he.row[h]

DeadHe == {h \in inc.deleted : h \notin alive}

\* Fault: the first row of a pair is read after the batch.
OverlapPreLate(p) == PostRow(p[1]) \cap PreRow(p[2]) # {}

OverlapPre(p) == PreRow(p[1]) \cap PreRow(p[2]) # {}

OverlapPost(p) == PostRow(p[1]) \cap PostRow(p[2]) # {}

\* Fault: the rows of dead hyperedges are not cleared.
WrittenHeRowsAlive ==
  LET moving == Outgrown(he, Touched, [h \in Node |-> Cardinality(rows[h])], HeSlot)
      written == [h \in Node |-> IF h \in Touched \cap alive THEN rows[h] ELSE he.row[h]]
  IN  IF RoomFor(he, moving)
      THEN [Moved(he, moving) EXCEPT !.row = written]
      ELSE LayOut(rows, HeSlots(rows, maxId), Room)

WrittenHeRows ==
  LET moving == Outgrown(he, Touched, [h \in Node |-> Cardinality(rows[h])], HeSlot)
      written == [h \in Node |-> IF h \in Touched THEN rows[h] ELSE he.row[h]]
  IN  IF RoomFor(he, moving)
      THEN [Moved(he, moving) EXCEPT !.row = written]
      ELSE LayOut(rows, HeSlots(rows, maxId), Room)

ClassifyPairs ==
  /\ phase = "candidates"
  /\ delta' = [del |-> {p \in cand : OverlapPre(p) /\ ~OverlapPost(p)},
               ins |-> {p \in cand : OverlapPost(p) /\ ~OverlapPre(p)},
               new |-> inc.new, dead |-> DeadHe]
  /\ he' = WrittenHeRows
  /\ cand' = {}
  /\ phase' = "classified"
  /\ UNCHANGED <<incidenceVars, inserts, recordVars, hostBatches, vx, csrVars, escherVars, before>>

(***************************************************************************)
(* applyDeltaPairs.  Sorting the directed keys gives one warp per changed  *)
(* row: deletions first, then the insertions, after a move to the tail if  *)
(* the row outgrows its slot.  A warp that finds the tail full leaves its  *)
(* deletions, drops its insertions and raises the flag.                    *)
(***************************************************************************)
NeighboursIn(pairs, h) == {o \in Node : Pair(h, o) \in pairs}

\* Fault: a pair is counted as one entry.
LaunchApplyRowsOnce ==
  /\ phase = "classified"
  /\ csrTodo' = {h \in Node : NeighboursIn(delta.del \cup delta.ins, h) # {}}
  /\ numEntries' = numEntries + Cardinality(delta.ins) - Cardinality(delta.del)
  /\ phase' = "csr"
  /\ UNCHANGED <<incidenceVars, inserts, recordVars, hostBatches, mirrorVars, deltaVars,
                 csr, nodeW, csrFull, escherVars, before>>

LaunchApplyRows ==
  /\ phase = "classified"
  /\ csrTodo' = {h \in Node : NeighboursIn(delta.del \cup delta.ins, h) # {}}
  /\ numEntries' = numEntries + 2 * (Cardinality(delta.ins) - Cardinality(delta.del))
  /\ phase' = "csr"
  /\ UNCHANGED <<incidenceVars, inserts, recordVars, hostBatches, mirrorVars, deltaVars,
                 csr, nodeW, csrFull, escherVars, before>>

ApplyRow(h) ==
  LET kept == csr.row[h] \ NeighboursIn(delta.del, h)
      added == NeighboursIn(delta.ins, h)
      need == Cardinality(kept) + Cardinality(added)
      moving == IF added # {} /\ csr.cap[h] < need THEN [k \in {h} |-> RowCapacity(need)] ELSE <<>>
  IN  /\ phase = "csr" /\ h \in csrTodo
      /\ csrTodo' = csrTodo \ {h}
      /\ IF RoomFor(csr, moving)
         THEN /\ csr' = [Moved(csr, moving) EXCEPT !.row[h] = kept \cup added]
              /\ UNCHANGED csrFull
         ELSE /\ csr' = [csr EXCEPT !.row[h] = kept, !.tail = @ + TotalOf(moving)]
              /\ csrFull' = TRUE
      /\ UNCHANGED <<hostVars, mirrorVars, deltaVars, nodeW, numEntries, escherVars, before>>

\* Fault: the flag is not looked at.
CsrPatchedAnyway ==
  /\ phase = "csr" /\ csrTodo = {}
  /\ nodeW' = [h \in Node |-> IF h \in delta.new THEN weight[h] ELSE nodeW[h]]
  /\ phase' = "mirrored"
  /\ UNCHANGED <<incidenceVars, inserts, recordVars, hostBatches, mirrorVars, deltaVars,
                 csr, numEntries, csrTodo, csrFull, escherVars, before>>

\* scatterWeightsKernel; no row found the tail full.
CsrPatched ==
  /\ phase = "csr" /\ csrTodo = {} /\ ~csrFull
  /\ nodeW' = [h \in Node |-> IF h \in delta.new THEN weight[h] ELSE nodeW[h]]
  /\ phase' = "mirrored"
  /\ UNCHANGED <<incidenceVars, inserts, recordVars, hostBatches, mirrorVars, deltaVars,
                 csr, numEntries, csrTodo, csrFull, escherVars, before>>

(***************************************************************************)
(* The tail was full: buildCsr lays the CSR out anew from the host.        *)
(***************************************************************************)
CsrRebuilt ==
  /\ phase = "csr" /\ csrTodo = {} /\ csrFull
  /\ csr' = LayOut(HostLineGraph, CsrSlots(HostLineGraph, maxId), Room)
  /\ nodeW' = [h \in Node |-> IF h < maxId THEN weight[h] ELSE 0]
  /\ numEntries' = EntryCount(HostLineGraph)
  /\ csrFull' = FALSE
  /\ phase' = "mirrored"
  /\ UNCHANGED <<incidenceVars, inserts, recordVars, hostBatches, mirrorVars, deltaVars,
                 csrTodo, escherVars, before>>

(***************************************************************************)
(* finishBatch.  Values leave the rows, dead rows are erased, values are   *)
(* added, whole rows are inserted.  (h2v erases its dead rows first, which *)
(* is the same: an unfill of a row that is not there does nothing.)        *)
(***************************************************************************)
Unfilled(t, es) == [k \in DOMAIN t |-> t[k] \ {e[2] : e \in {f \in es : f[1] = k}}]
Filled(t, es) == [k \in DOMAIN t |-> t[k] \cup {e[2] : e \in {f \in es : f[1] = k}}]
Erased(t, ks) == [k \in DOMAIN t \ ks |-> t[k]]

\* The directed keys of pairs, whose row is selected, as (h2h key, neighbour).
Directed(pairs, selected) ==
  {<<h2hKeyOfHe[e[1]], e[2]>> :
     e \in {f \in Node \X Node : f[1] \in selected /\ Pair(f[1], f[2]) \in pairs}}

Flushed(t, erased, unfills, fills) ==
  Filled(Erased(Unfilled(t, unfills), erased), fills)

\* Fault: the tree is asked to erase ids.
ErasedIds == {h + 1 : h \in delta.dead}

\* The keys that dead hyperedges give up.
ErasedKeys == {h2hKeyOfHe[h] : h \in delta.dead} \ {0}

FinishBatch ==
  LET live == {h \in alive : h2hKeyOfHe[h] # 0}
      kept == Flushed(h2h, ErasedKeys, Directed(delta.del, live),
                      Directed(delta.ins, live \ delta.new))
  IN
  /\ phase = "mirrored"
  /\ h2v' = Flushed(h2v, delta.dead, ops.h2vUnfill, ops.h2vFill)
  /\ v2hTree' = Flushed(v2hTree, {}, ops.v2hUnfill, ops.v2hFill)
  /\ \E adopted \in [delta.new -> Key \ DOMAIN kept] :
       /\ \A a, b \in delta.new : adopted[a] = adopted[b] => a = b
       /\ h2h' = [k \in DOMAIN kept \cup {adopted[h] : h \in delta.new} |->
                    IF k \in DOMAIN kept THEN kept[k]
                    ELSE NeighboursIn(delta.ins, CHOOSE h \in delta.new : adopted[h] = k)]
       /\ h2hKeyOfHe' = [h \in Node |-> IF h \in delta.new THEN adopted[h]
                                        ELSE IF h \in delta.dead THEN 0
                                        ELSE h2hKeyOfHe[h]]
  /\ pairCount' = pairCount + Cardinality(delta.ins) - Cardinality(delta.del)
  /\ phase' = "idle"
  /\ inc' = NoChanges /\ ops' = NoOps /\ taken' = 0
  /\ UNCHANGED <<incidenceVars, inserts, hostBatches, deviceVars, before>>

\* beginBatch has thrown, or MaxHostBatches is spent.
Stopped ==
  /\ phase = "failed" \/ (phase = "idle" /\ hostBatches = MaxHostBatches)
  /\ UNCHANGED bvars

Next ==
  \/ phase = "idle" /\ \E s \in AdoptedInsertions : BeginBatch(s) \/ BeginBatchThrows(s)
  \/ HostStep
  \/ FindCandidates \/ ClassifyPairs
  \/ LaunchApplyRows \/ (\E h \in Node : ApplyRow(h)) \/ CsrPatched \/ CsrRebuilt
  \/ FinishBatch
  \/ Stopped

Spec == Init /\ [][Next]_bvars

-----------------------------------------------------------------------------
Settled == phase \in {"idle", "failed"}

(***************************************************************************)
(* Between batches, and after one that beginBatch refused, the device's    *)
(* mirror of the incidence is the host's incidence                         *)
(* (incidenceMirrorMismatches).                                            *)
(***************************************************************************)
MirrorExact == Settled => he.row = rows /\ vx.row = v2h

(***************************************************************************)
(* No row ever overlaps another or exceeds its slot, in the mirror and in  *)
(* the CSR, except in a CSR that is about to be laid out anew.             *)
(***************************************************************************)
ArraysSound == Sound(he) /\ Sound(vx) /\ (csrFull \/ Sound(csr))

(***************************************************************************)
(* Between batches the three ESCHER trees hold what the host holds         *)
(* (checkEscher): the rows of the live hyperedges, the lists of the        *)
(* vertices, and under the key of each live hyperedge its neighbours in    *)
(* the line graph; nothing else is stored, and dead hyperedges have no     *)
(* key.  After a refused batch only h2v disagrees, by rows too many.       *)
(***************************************************************************)
TreesAgree ==
  Settled =>
    /\ \A h \in alive : h \in DOMAIN h2v /\ h2v[h] = rows[h]
    /\ phase = "idle" => DOMAIN h2v = alive
    /\ v2hTree = v2h
    /\ \A h \in Node : h2hKeyOfHe[h] # 0 <=> h \in alive
    /\ \A a, b \in alive : h2hKeyOfHe[a] = h2hKeyOfHe[b] => a = b
    /\ DOMAIN h2h = {h2hKeyOfHe[h] : h \in alive}
    /\ \A h \in alive : h2h[h2hKeyOfHe[h]] = HostLineGraph[h]

(***************************************************************************)
(* The counts kept by adding up the changes are those of the line graph.   *)
(***************************************************************************)
CountsExact ==
  Settled => numEntries = Entries(DeviceGraph) /\ 2 * pairCount = numEntries

(***************************************************************************)
(* The device holds the line graph of the host's hypergraph: by the        *)
(* definition, hyperedges that share a vertex (bruteForceH2H), with the    *)
(* host's weights.                                                         *)
(***************************************************************************)
SharesVertex(a, b) == a # b /\ rows[a] \cap rows[b] # {}

LineGraphExact ==
  Settled =>
    \A a, b \in Node : /\ b \in csr.row[a] <=> SharesVertex(a, b)
                       /\ a \in alive => nodeW[a] = weight[a]

(***************************************************************************)
(* What a batch leaves on the device is exact.                             *)
(***************************************************************************)
DeviceExact == MirrorExact /\ LineGraphExact /\ CountsExact

(***************************************************************************)
(* The whole batch implements the contract on which hsospUpdate relies:    *)
(* one step from line graph to line graph, with the exact net change.      *)
(***************************************************************************)
Contract == INSTANCE LineGraphBatches WITH
  graph <- IF Settled THEN DeviceGraph ELSE before.graph,
  delta <- IF Settled THEN delta ELSE before.delta

ImplementsBatches == Contract!Spec
=============================================================================
