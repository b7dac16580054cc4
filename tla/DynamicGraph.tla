---------------------------- MODULE DynamicGraph ----------------------------
(***************************************************************************)
(* The graph of MOSP kept on ESCHER (graph/src/DynamicGraph.cpp): one CBST *)
(* with a record per edge, two with the ids of the edges that leave and    *)
(* that enter each vertex, and a shadow of all of it on the host, from     *)
(* which the CSR arrays are made.  An edge's id is the key that the first  *)
(* CBST gave its record.                                                   *)
(*                                                                         *)
(* The three CBSTs are used by their contract (RowCalls), which RowStore   *)
(* implements.  A call can throw between two of them.  One weight stands   *)
(* for the weights of all objectives, which are copied together.           *)
(***************************************************************************)
EXTENDS WeightedDigraph, SortedSets, Functions

CONSTANTS
  MaxEdgeId,      \* bound: the ids are 1 .. MaxEdgeId
  MaxCalls,       \* bound: calls per behaviour
  InitialGraphs,  \* the graphs that are loaded
  InsertBatches,  \* the sequences of insertions of one call
  DeleteBatches   \* the sequences of pairs of one call

ASSUME GraphsAssumption ==
  /\ \A graph \in InitialGraphs : IsDigraph(graph)
  /\ InsertBatches \subseteq Seq([edge : Int \X Int, weight : 1 .. MaxWeight])
  /\ DeleteBatches \subseteq Seq(Int \X Int)
  /\ MaxEdgeId \in Nat

VARIABLES
  edgeRows, outRows, inRows,  \* the rows of edgesCBST, outAdjCBST and inAdjCBST
  meta,      \* edgeSrc, edgeDst and edgeWeights of the ids that are in use
  idOf,      \* edgeIdBySrcDst
  outShadow, inShadow, \* the ids at each vertex
  numEdges,
  outcome,   \* of the last call: "ok", "refused" before any change, or "threw"
  whole,     \* no call has thrown after it had changed something
  calls      \* calls so far (bounded by MaxCalls)

treeVars == <<edgeRows, outRows, inRows>>
hostVars == <<meta, idOf, outShadow, inShadow>>
dynamicVars == <<treeVars, hostVars, numEdges, outcome, whole, calls>>

Edges == INSTANCE RowCalls WITH rows <- edgeRows, MaxKey <- MaxEdgeId
Out == INSTANCE RowCalls WITH rows <- outRows, MaxKey <- N
In == INSTANCE RowCalls WITH rows <- inRows, MaxKey <- N

-----------------------------------------------------------------------------
\* The row of an edge.  Every field is one larger: 0 ends a row.
EdgeRecord(e) == <<e.src + 1, e.dst + 1, e.weight + 1>>

\* The row of vertex v in the two trees of vertices.
VertexKey(v) == v + 1

EdgesInOrder(graph) == SortedBy(DOMAIN graph, [e \in DOMAIN graph |-> e])

\* loadFromCSR: the edges get the ids 1, 2, ... in the order of the CSR.
LoadFromCSR(graph) ==
  LET csr == EdgesInOrder(graph)
      ids == DOMAIN csr
      rowsOf(shadow) == [k \in 1 .. N |-> Ascending(shadow[k - 1])]
  IN /\ meta = [i \in ids |-> [src |-> csr[i][1], dst |-> csr[i][2], weight |-> graph[csr[i]]]]
     /\ idOf = [e \in DOMAIN graph |-> CHOOSE i \in ids : csr[i] = e]
     /\ outShadow = [v \in Node |-> {i \in ids : csr[i][1] = v}]
     /\ inShadow = [v \in Node |-> {i \in ids : csr[i][2] = v}]
     /\ edgeRows = [i \in ids |-> EdgeRecord(meta[i])]
     /\ outRows = rowsOf(outShadow) /\ inRows = rowsOf(inShadow)
     /\ numEdges = Cardinality(ids)

StartsWith(graph) == LoadFromCSR(graph) /\ outcome = "ok" /\ whole = TRUE /\ calls = 0

DynamicInit == \E graph \in InitialGraphs : StartsWith(graph)

InRange(pair) == pair[1] \in Node /\ pair[2] \in Node

\* Fault: only the first edge of a batch is looked up.
FirstAlreadyThere(batch) == batch # <<>> /\ batch[1].edge \in DOMAIN idOf

AlreadyThere(batch) == \E i \in DOMAIN batch : batch[i].edge \in DOMAIN idOf

Insertable(batch) == (\A i \in DOMAIN batch : InRange(batch[i].edge)) /\ ~ AlreadyThere(batch)

AsMeta(insert) == [src |-> insert.edge[1], dst |-> insert.edge[2], weight |-> insert.weight]

Records(batch) == [i \in DOMAIN batch |-> EdgeRecord(AsMeta(batch[i]))]

\* Fault: the ids are those the host had in mind, not those of the mapping.
AdoptTentative(batch, place) ==
  LET first == LeastOf((1 .. MaxEdgeId + 1) \ DOMAIN meta)
      idFor(i) == first + i - 1
      given == {idFor(i) : i \in DOMAIN batch}
  IN /\ meta' = [id \in DOMAIN meta \cup given |->
                   IF id \in given THEN AsMeta(batch[id - first + 1]) ELSE meta[id]]
     /\ idOf' = [e \in DOMAIN idOf \cup {batch[i].edge : i \in DOMAIN batch} |->
                   IF e \in DOMAIN idOf THEN idOf[e]
                   ELSE idFor(CHOOSE i \in DOMAIN batch : batch[i].edge = e)]
     /\ outShadow' = [v \in Node |-> outShadow[v] \cup {idFor(i) : i \in {j \in DOMAIN batch : batch[j].edge[1] = v}}]
     /\ inShadow' = [v \in Node |-> inShadow[v] \cup {idFor(i) : i \in {j \in DOMAIN batch : batch[j].edge[2] = v}}]

\* The host adopts the keys that the insertion returned.  For two equal edges
\* in one batch the map keeps the last.
Adopt(batch, place) ==
  LET index(id) == CHOOSE i \in DOMAIN place : place[i] = id
      given == {place[i] : i \in DOMAIN place}
      last(e) == CHOOSE i \in DOMAIN batch :
                   batch[i].edge = e /\ \A j \in DOMAIN batch : batch[j].edge = e => j <= i
      at(v, end) == {place[i] : i \in {j \in DOMAIN batch : batch[j].edge[end] = v}}
  IN /\ meta' = [id \in DOMAIN meta \cup given |-> IF id \in given THEN AsMeta(batch[index(id)]) ELSE meta[id]]
     /\ idOf' = [e \in DOMAIN idOf \cup {batch[i].edge : i \in DOMAIN batch} |->
                   IF e \in DOMAIN idOf THEN idOf[e] ELSE place[last(e)]]
     /\ outShadow' = [v \in Node |-> outShadow[v] \cup at(v, 1)]
     /\ inShadow' = [v \in Node |-> inShadow[v] \cup at(v, 2)]

\* outAdds and inAdds: the new ids by vertex, in the order of the batch.
Adds(batch, place, end) ==
  LET vertices == {batch[i].edge[end] : i \in DOMAIN batch}
      at(v) == {i \in DOMAIN batch : batch[i].edge[end] = v}
  IN [k \in {VertexKey(v) : v \in vertices} |-> Sifted(place, at(k - 1))]

Called == calls < MaxCalls /\ calls' = calls + 1

InsertRefused(batch) ==
  /\ Called /\ ~ Insertable(batch)
  /\ outcome' = "refused"
  /\ UNCHANGED <<treeVars, hostVars, numEdges, whole>>

\* The CBST of the edges is full; the host has not changed anything yet.
InsertThrows(batch) ==
  /\ Called /\ batch # <<>> /\ Insertable(batch)
  /\ Edges!InsertPart(Records(batch))
  /\ outcome' = "threw" /\ whole' = FALSE
  /\ UNCHANGED <<outRows, inRows, hostVars, numEdges>>

\* One of the two fills throws.
FillThrows(batch) ==
  /\ Called /\ batch # <<>> /\ Insertable(batch)
  /\ \E place \in Edges!Placements(DOMAIN batch) :
       /\ Edges!Insert(Records(batch), place) /\ Adopt(batch, place)
       /\ \/ Out!FillPart(Adds(batch, place, 1)) /\ UNCHANGED inRows
          \/ Out!Fill(Adds(batch, place, 1)) /\ In!FillPart(Adds(batch, place, 2))
  /\ outcome' = "threw" /\ whole' = FALSE
  /\ UNCHANGED numEdges

\* That the key of a live edge is given again, which the code tests for, is
\* excluded by RecordsKept.
InsertEdges(batch) ==
  /\ Called /\ batch # <<>> /\ Insertable(batch)
  /\ \E place \in Edges!Placements(DOMAIN batch) :
       /\ Edges!Insert(Records(batch), place) /\ Adopt(batch, place)
       /\ Out!Fill(Adds(batch, place, 1)) /\ In!Fill(Adds(batch, place, 2))
  /\ numEdges' = numEdges + Len(batch)
  /\ outcome' = "ok" /\ UNCHANGED whole

\* The ids that the pairs of a batch stand for; a pair that is not there, or
\* no longer there, is skipped.
Found(batch) == {idOf[e] : e \in {batch[i] : i \in DOMAIN batch} \cap DOMAIN idOf}

\* Fault: the map still leads to the id.
ForgetButMap(gone) ==
  /\ meta' = [id \in DOMAIN meta \ gone |-> meta[id]]
  /\ outShadow' = [v \in Node |-> outShadow[v] \ gone]
  /\ inShadow' = [v \in Node |-> inShadow[v] \ gone]
  /\ UNCHANGED idOf

\* releaseEdgeId_, the map and the shadows.
Forget(gone) ==
  /\ meta' = [id \in DOMAIN meta \ gone |-> meta[id]]
  /\ idOf' = [e \in {x \in DOMAIN idOf : idOf[x] \notin gone} |-> idOf[e]]
  /\ outShadow' = [v \in Node |-> outShadow[v] \ gone]
  /\ inShadow' = [v \in Node |-> inShadow[v] \ gone]

\* outRem and inRem.
Removes(gone, side) ==
  [k \in {VertexKey(v) : v \in {x \in Node : side[x] \cap gone # {}}} |-> side[k - 1] \cap gone]

\* Fault: the ids stay in the rows of the heads.
DeleteKeepsIn(batch) ==
  LET gone == Found(batch) IN
  /\ Called
  /\ Forget(gone)
  /\ Out!Unfill(Removes(gone, outShadow)) /\ UNCHANGED inRows
  /\ Edges!Erase(gone)
  /\ numEdges' = numEdges - Cardinality(gone)
  /\ outcome' = "ok" /\ UNCHANGED whole

DeleteEdges(batch) ==
  LET gone == Found(batch) IN
  /\ Called /\ \A i \in DOMAIN batch : InRange(batch[i])
  /\ Forget(gone)
  /\ Out!Unfill(Removes(gone, outShadow)) /\ In!Unfill(Removes(gone, inShadow))
  /\ Edges!Erase(gone)
  /\ numEdges' = numEdges - Cardinality(gone)
  /\ outcome' = "ok" /\ UNCHANGED whole

\* A vertex is out of range: the host has forgotten the pairs before it, and
\* no CBST has been called.
DeleteThrows(batch) ==
  \E i \in DOMAIN batch :
    LET gone == Found(SubSeq(batch, 1, i - 1)) IN
    /\ Called /\ ~ InRange(batch[i]) /\ \A j \in 1 .. i - 1 : InRange(batch[j])
    /\ Forget(gone)
    /\ outcome' = IF gone = {} THEN "refused" ELSE "threw"
    /\ whole' = (whole /\ gone = {})
    /\ UNCHANGED <<treeVars, numEdges>>

InsertCall(batch) == InsertRefused(batch) \/ InsertThrows(batch) \/ FillThrows(batch) \/ InsertEdges(batch)

DeleteCall(batch) == DeleteEdges(batch) \/ DeleteThrows(batch)

DynamicNext ==
  \/ \E batch \in InsertBatches : InsertCall(batch)
  \/ \E batch \in DeleteBatches : DeleteCall(batch)

DynamicSpec == DynamicInit /\ [][DynamicNext]_dynamicVars

-----------------------------------------------------------------------------
\* dumpToCSR: the neighbours of each vertex by their number.
CsrRow(u) ==
  LET sorted == SortedBy(outShadow[u], [id \in outShadow[u] |-> <<meta[id].dst, id>>])
  IN [j \in DOMAIN sorted |-> [vertex |-> meta[sorted[j]].dst, weight |-> meta[sorted[j]].weight]]

DumpToCSR == [u \in Node |-> CsrRow(u)]

\* The places <<u, j>> of a CSR that hold v.
Entering(csr, v) == UNION {{u} \X {j \in DOMAIN csr[u] : csr[u][j].vertex = v} : u \in Node}

\* Fault: the rows are laid out in descending order of the tails.
ReverseDescending(csr) ==
  LET scanned(v) == SortedBy(Entering(csr, v), [x \in Entering(csr, v) |-> <<N - x[1], x[2]>>])
      entry(x) == [vertex |-> x[1], weight |-> csr[x[1]][x[2]].weight]
  IN [v \in Node |-> [j \in DOMAIN scanned(v) |-> entry(scanned(v)[j])]]

\* snapshot: the counting sort of the edges by their heads, in the order of
\* one scan of the CSR.
ReverseCSR(csr) ==
  LET scanned(v) == SortedBy(Entering(csr, v), [x \in Entering(csr, v) |-> x])
      entry(x) == [vertex |-> x[1], weight |-> csr[x[1]][x[2]].weight]
  IN [v \in Node |-> [j \in DOMAIN scanned(v) |-> entry(scanned(v)[j])]]

-----------------------------------------------------------------------------
\* The metadata, the map and the two shadows describe one graph, and still do
\* after a call that threw halfway.
HostAgrees ==
  /\ \A v \in Node : outShadow[v] = {id \in DOMAIN meta : meta[id].src = v}
  /\ \A v \in Node : inShadow[v] = {id \in DOMAIN meta : meta[id].dst = v}
  /\ DOMAIN idOf = {<<meta[id].src, meta[id].dst>> : id \in DOMAIN meta}
  /\ \A e \in DOMAIN idOf : idOf[e] \in DOMAIN meta /\ <<meta[idOf[e]].src, meta[idOf[e]].dst>> = e

\* No record of a live edge is lost or overwritten, whatever has thrown: so
\* its key is not given again.
RecordsKept == \A id \in DOMAIN meta : id \in DOMAIN edgeRows /\ edgeRows[id] = EdgeRecord(meta[id])

\* "The shadow is updated in lock-step with every ESCHER operation so it never
\* drifts" (DynamicGraph.hpp): the host and the CBSTs hold the same edges.
SameEdges ==
  /\ edgeRows = [id \in DOMAIN meta |-> EdgeRecord(meta[id])]
  /\ \A v \in Node : /\ Range(outRows[VertexKey(v)]) = outShadow[v]
                     /\ Range(inRows[VertexKey(v)]) = inShadow[v]
                     /\ IsInjective(outRows[VertexKey(v)]) /\ IsInjective(inRows[VertexKey(v)])
  /\ numEdges = Cardinality(DOMAIN meta)

\* ... as long as no call throws in its middle.
LockStep == whole => SameEdges

\* No two live edges have the same ends: a duplicate fails "loudly instead of
\* leaking" (insertEdges).
NoParallelEdges ==
  \A a, b \in DOMAIN meta : meta[a].src = meta[b].src /\ meta[a].dst = meta[b].dst => a = b

\* A snapshot's two CSRs hold the same edges, each with its neighbours in
\* ascending order.
SnapshotMirrors ==
  LET out == DumpToCSR
      in == ReverseCSR(out)
      ascending(row) == \A i, j \in DOMAIN row : i < j => row[i].vertex < row[j].vertex
  IN \A v \in Node :
       /\ ascending(out[v]) /\ ascending(in[v])
       /\ \A u \in Node, w \in 1 .. MaxWeight :
            /\ [vertex |-> v, weight |-> w] \in Range(out[u]) <=> [vertex |-> u, weight |-> w] \in Range(in[v])
            /\ [vertex |-> v, weight |-> w] \in Range(out[u]) <=>
                 <<u, v>> \in DOMAIN idOf /\ meta[idOf[<<u, v>>]].weight = w

\* What the host believes is one graph without parallel edges whose records are
\* all in the CBST, and a snapshot shows it from both sides.
HostSound == HostAgrees /\ RecordsKept /\ NoParallelEdges /\ SnapshotMirrors
=============================================================================
