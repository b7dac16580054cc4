-------------------------------- MODULE Sosp --------------------------------
(***************************************************************************)
(* What the SOSP component promises its caller (hsosp.cuh:287-313): after  *)
(* every batch of changes the next answer is the exact canonical           *)
(* shortest-path tree of the line graph as it is then, by the reference    *)
(* definition of LineGraph.  How the answer is computed, from the previous *)
(* one or from blank, with which budget and in which warp order, is not    *)
(* visible here.                                                           *)
(***************************************************************************)
EXTENDS LineGraph

CONSTANTS
  InitialGraphs,   \* the line graphs the device may be loaded with
  Graphs           \* the line graphs a batch may produce

VARIABLES
  graph,    \* the current line graph
  answer    \* the trees returned for it: none yet, or one

svars == <<graph, answer>>

Init == graph \in InitialGraphs /\ answer = {}

ExactTree(g) ==
  LET d == ShortestDistances(g) IN [dist |-> d, parent |-> ParentsFor(g, d)]

Answer ==
  /\ answer = {}
  /\ answer' = {ExactTree(graph)}
  /\ UNCHANGED graph

Batch ==
  /\ answer # {}
  /\ graph' \in Graphs
  /\ answer' = {}

Next == Answer \/ Batch

Spec == Init /\ [][Next]_svars

(***************************************************************************)
(* Every graph is eventually answered for.                                 *)
(***************************************************************************)
EveryBatchAnswered == answer = {} ~> answer # {}
=============================================================================
