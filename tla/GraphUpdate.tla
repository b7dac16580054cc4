---------------------------- MODULE GraphUpdate ----------------------------
(***************************************************************************)
(* updateGraphWithESCHER (graph/src/updateGraphWithESCHER.cpp): the change *)
(* files are applied through a DynamicGraph, in three calls, and the CSR   *)
(* is written.  It replaces updateGraphCSR (mosp/src/updateGraphCSR.cu),   *)
(* which applies them to a map, and is to write the same.  The other       *)
(* client of a DynamicGraph calls it directly, any number of times.        *)
(***************************************************************************)
EXTENDS DynamicGraph

CONSTANTS
  DeleteFiles,  \* sequences of pairs
  InsertFiles   \* sequences of insertions

ASSUME FilesAssumption ==
  /\ DeleteFiles \subseteq Seq(Int \X Int)
  /\ InsertFiles \subseteq Seq([edge : Int \X Int, weight : 1 .. MaxWeight])

VARIABLES
  original,         \* the graph that is read
  deletes, inserts, \* the two files
  stage,            \* the call that is next, "written", "failed", or "direct"
  csr               \* the file that is written

fileVars == <<original, deletes, inserts>>
graphUpdateVars == <<dynamicVars, fileVars, stage, csr>>

GraphUpdateInit ==
  /\ original \in InitialGraphs /\ StartsWith(original)
  /\ \/ stage = "deletes" /\ deletes \in DeleteFiles /\ inserts \in InsertFiles
     \/ stage = "direct" /\ deletes = <<>> /\ inserts = <<>>
  /\ csr = <<>>

\* Lines with a vertex that does not exist are skipped.
ListedDeletes == Sifted(deletes, {i \in DOMAIN deletes : InRange(deletes[i])})

ListedInserts == Sifted(inserts, {i \in DOMAIN inserts : InRange(inserts[i].edge)})

ApplyDeletes ==
  /\ stage = "deletes" /\ stage' = "collisions"
  /\ DeleteCall(ListedDeletes)
  /\ UNCHANGED <<fileVars, csr>>

\* Fault: the edges that are already there stay.
SkipCollisions ==
  /\ stage = "collisions" /\ stage' = "inserts"
  /\ DeleteCall(<<>>)
  /\ UNCHANGED <<fileVars, csr>>

\* Upsert: whatever is to be inserted is deleted before.
DeleteCollisions ==
  /\ stage = "collisions" /\ stage' = "inserts"
  /\ DeleteCall([i \in DOMAIN ListedInserts |-> ListedInserts[i].edge])
  /\ UNCHANGED <<fileVars, csr>>

\* Fault: the first line of an edge is kept.
FirstPerEdge(lines) ==
  Sifted(lines, {i \in DOMAIN lines : \A j \in DOMAIN lines : lines[j].edge = lines[i].edge => j >= i})

\* dedup: of the lines for one edge the last is kept.
LastPerEdge(lines) ==
  Sifted(lines, {i \in DOMAIN lines : \A j \in DOMAIN lines : lines[j].edge = lines[i].edge => j <= i})

ApplyInserts ==
  /\ stage = "inserts"
  /\ IF ListedInserts = <<>>
     THEN UNCHANGED dynamicVars
     ELSE InsertCall(LastPerEdge(ListedInserts))
  /\ stage' = IF outcome' = "ok" THEN "write" ELSE "failed"
  /\ UNCHANGED <<fileVars, csr>>

WriteCsr ==
  /\ stage = "write" /\ stage' = "written"
  /\ csr' = DumpToCSR
  /\ UNCHANGED <<dynamicVars, fileVars>>

\* The other client.
UseDirectly == stage = "direct" /\ DynamicNext /\ UNCHANGED <<fileVars, stage, csr>>

GraphUpdateNext == ApplyDeletes \/ DeleteCollisions \/ ApplyInserts \/ WriteCsr \/ UseDirectly

GraphUpdateSpec == GraphUpdateInit /\ [][GraphUpdateNext]_graphUpdateVars

-----------------------------------------------------------------------------
\* writeCSRFromMap
LegacyCsr(graph) ==
  [u \in Node |->
     LET sorted == Ascending(OutNeighbours(graph, u))
     IN [j \in DOMAIN sorted |-> [vertex |-> sorted[j], weight |-> graph[<<u, sorted[j]>>]]]]

\* "The resulting CSR files are byte-identical to the legacy updateGraphCSR
\* output" (main.cu): edges deleted and inserted again, lines for one edge
\* twice, and lines that name nothing, through reused ids.
SameAsLegacy ==
  stage = "written" =>
    csr = LegacyCsr(Applied(original, Range(ListedDeletes), ListedInserts))

\* The duplicate test of insertEdges never stops an update: when one fails, a
\* CBST was full.
OnlyFullFails == stage = "failed" => outcome = "threw"

\* The new path does what the old one did.
UpdateMatches == SameAsLegacy /\ OnlyFullFails
=============================================================================
