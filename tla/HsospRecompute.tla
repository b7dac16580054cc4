--------------------------- MODULE HsospRecompute ---------------------------
(***************************************************************************)
(* hsospRecompute: the static SOSP computation from blank, a frontier      *)
(* Bellman-Ford on the GPU (hsosp/src/hsospDevice.cu).                     *)
(*                                                                         *)
(* The host loop launches two kernels per round and reads back a counter   *)
(* after each.  In pullDistancesWarp one warp per candidate v takes the    *)
(* best (distance, id) over v's row and writes v's distance and parent;    *)
(* the warps of a launch run in any order and read the distances of their  *)
(* neighbours one at a time while other warps lower them (the "benign      *)
(* chaotic-relaxation race" of the source).  collectCandidatesWarp then    *)
(* makes the neighbours of every changed node the next candidates; it      *)
(* only sets flags with atomicCAS, so its result does not depend on the    *)
(* order of its warps and it is part of the host step here.                *)
(*                                                                         *)
(* The candidate and affected lists are sets: isCandidate / isAffected     *)
(* admit a node to its list once.  v's parent is written before its        *)
(* distance, but only v's own warp writes them and only the distance is    *)
(* read by others, so the pair is written in one step.                     *)
(***************************************************************************)
EXTENDS LineGraph

CONSTANTS
  Graphs,          \* the line graphs the device may be given
  MaxIterations    \* UpdateConfig::maxIterations

ASSUME GraphsAssumption == \A g \in Graphs : IsGraph(g)
ASSUME MaxIterationsAssumption == MaxIterations \in Nat

VARIABLES
  graph,      \* DeviceH2H: rows and node weights
  dist,       \* HsospState::d_dist
  parent,     \* HsospState::d_parent
  pc,         \* what the host is doing
  rounds,     \* propagate(): iterations
  converged,  \* propagate() did not return -1
  affected,   \* affList of the last kernel
  todo,       \* warps of the running kernel that have not finished
  unread,     \* <<v, p>>: v's warp has not read its neighbour p yet
  best        \* v's warp: best word read so far

recomputeVars == <<dist, parent, rounds, converged, affected, best>>
rvars == <<graph, pc, todo, unread, recomputeVars>>

NoWord == <<Inf, NoParent>>

Blank == [v \in Node |-> NoWord]

\* Fault: ties between parents are left to the order of the reads.
BetterNoTies(c, x) == x = NoWord \/ c[1] < x[1]

Better(c, x) == x = NoWord \/ Less(c, x)

\* No warp of the launched kernel is left: the host may go on.
KernelDone == todo = {} /\ unread = {}

\* Fault: the recompute inherits the caller's update budget.
RecomputeCapOfUpdate == MaxIterations

RecomputeCap == IF MaxIterations > N + 1 THEN MaxIterations ELSE N + 1

\* Fault: the row loop stops one entry early.
RowReadsShort(nodes) == {e \in nodes \X Node : e[2] \in graph.adj[e[1]] /\ e[2] < N - 1}

RowReads(nodes) == {e \in nodes \X Node : e[2] \in graph.adj[e[1]]}

-----------------------------------------------------------------------------
RecomputeInit ==
  /\ graph \in Graphs
  /\ dist = [v \in Node |-> Inf] /\ parent = [v \in Node |-> NoParent]
  /\ pc = "blank"
  /\ rounds = 0 /\ converged = TRUE
  /\ affected = {} /\ todo = {} /\ unread = {} /\ best = Blank

(***************************************************************************)
(* resetForRecompute, and the affected list {source} that primes the loop. *)
(***************************************************************************)
Reset ==
  /\ dist' = [v \in Node |-> IF v = Source THEN 0 ELSE Inf]
  /\ parent' = [v \in Node |-> NoParent]
  /\ affected' = {Source}
  /\ rounds' = 0
  /\ pc' = "recompute"

StartRecompute ==
  /\ pc = "blank"
  /\ Reset
  /\ UNCHANGED <<graph, converged, todo, unread, best>>

\* collectCandidatesWarp: the neighbours of the changed nodes.
Candidates == (UNION {graph.adj[u] : u \in affected}) \ {Source}

\* Fault: the host forgets to clear the affected list between rounds.
NextRoundKeepsAffected ==
  /\ pc = "recompute" /\ KernelDone
  /\ Candidates # {} /\ rounds < RecomputeCap
  /\ rounds' = rounds + 1
  /\ todo' = Candidates
  /\ unread' = RowReads(Candidates)
  /\ UNCHANGED <<graph, pc, dist, parent, converged, affected, best>>

(***************************************************************************)
(* The host between two pull kernels: collect the candidates, then launch  *)
(* the next pull, or stop because nothing changed, or stop at the cap      *)
(* (propagate returns -1).                                                 *)
(***************************************************************************)
NextRound ==
  /\ pc = "recompute" /\ KernelDone
  /\ Candidates # {} /\ rounds < RecomputeCap
  /\ rounds' = rounds + 1
  /\ todo' = Candidates
  /\ unread' = RowReads(Candidates)
  /\ affected' = {}
  /\ UNCHANGED <<graph, pc, dist, parent, converged, best>>

StopRecompute ==
  /\ pc = "recompute" /\ KernelDone
  /\ Candidates = {} \/ rounds >= RecomputeCap
  /\ converged' = (Candidates = {})
  /\ pc' = "idle"
  /\ affected' = {}
  /\ UNCHANGED <<graph, dist, parent, rounds, todo, unread, best>>

\* Fault: the read loop does not advance.
PullReadStuck(v, p) ==
  /\ pc = "recompute" /\ <<v, p>> \in unread
  /\ LET c == <<dist[p] + graph.w[v], p>>
     IN  best' = IF dist[p] # Inf /\ Better(c, best[v])
                 THEN [best EXCEPT ![v] = c] ELSE best
  /\ UNCHANGED <<graph, pc, dist, parent, rounds, converged, affected, todo, unread>>

(***************************************************************************)
(* pullDistancesWarp, the warp of v: one read of a neighbour's distance.   *)
(***************************************************************************)
PullRead(v, p) ==
  /\ pc = "recompute" /\ <<v, p>> \in unread
  /\ unread' = unread \ {<<v, p>>}
  /\ LET c == <<dist[p] + graph.w[v], p>>
     IN  best' = IF dist[p] # Inf /\ Better(c, best[v])
                 THEN [best EXCEPT ![v] = c] ELSE best
  /\ UNCHANGED <<graph, pc, dist, parent, rounds, converged, affected, todo>>

\* Fault: the parent is kept when the distance did not change.
PullWriteKeepsParent(v) ==
  /\ pc = "recompute" /\ v \in todo
  /\ \A p \in Node : <<v, p>> \notin unread
  /\ dist' = [dist EXCEPT ![v] = best[v][1]]
  /\ parent' = [parent EXCEPT ![v] = IF dist[v] # best[v][1] THEN best[v][2] ELSE @]
  /\ affected' = affected \cup {u \in {v} : dist[u] # best[u][1]}
  /\ todo' = todo \ {v}
  /\ best' = [best EXCEPT ![v] = NoWord]
  /\ UNCHANGED <<graph, pc, rounds, converged, unread>>

(***************************************************************************)
(* pullDistancesWarp, the end of v's warp: write the parent and the        *)
(* distance; v is affected if the distance changed.                        *)
(***************************************************************************)
PullWrite(v) ==
  /\ pc = "recompute" /\ v \in todo
  /\ \A p \in Node : <<v, p>> \notin unread
  /\ dist' = [dist EXCEPT ![v] = best[v][1]]
  /\ parent' = [parent EXCEPT ![v] = best[v][2]]
  /\ affected' = affected \cup {u \in {v} : dist[u] # best[u][1]}
  /\ todo' = todo \ {v}
  /\ best' = [best EXCEPT ![v] = NoWord]
  /\ UNCHANGED <<graph, pc, rounds, converged, unread>>

\* The kernels and the host loop of one hsospRecompute call.
RecomputeStep ==
  \/ NextRound
  \/ StopRecompute
  \/ \E v, p \in Node : PullRead(v, p)
  \/ \E v \in Node : PullWrite(v)

\* The call has returned.
Returned == pc = "idle" /\ UNCHANGED rvars

RecomputeNext == StartRecompute \/ RecomputeStep \/ Returned

(***************************************************************************)
(* The GPU runs every launched warp to its end and the host waits for it,  *)
(* so a call makes progress as long as one of its steps is possible.       *)
(***************************************************************************)
RecomputeSpec ==
  RecomputeInit /\ [][RecomputeNext]_rvars /\ WF_rvars(StartRecompute \/ RecomputeStep)

-----------------------------------------------------------------------------
RecomputeTypeOK ==
  /\ IsGraph(graph)
  /\ dist \in [Node -> Nat \cup {Inf}]
  /\ parent \in [Node -> Node \cup {NoParent}]
  /\ rounds \in Nat /\ converged \in BOOLEAN
  /\ affected \in SUBSET Node /\ todo \in SUBSET Node
  /\ unread \in SUBSET (Node \X Node)
  /\ best \in [Node -> (Nat \X Node) \cup {NoWord}]

(***************************************************************************)
(* When hsospRecompute returns with its loop converged, dist and parent    *)
(* are the canonical tree of the graph, whatever the order in which the    *)
(* warps of the racing pull kernels ran ("the benign chaotic-relaxation    *)
(* race", hsospDevice.cu:162-164).  This is the certificate of the          *)
(* recompute on its own; HsospUpdate's TreeIsCanonical contains it.        *)
(***************************************************************************)
RecomputeExact == pc = "idle" /\ converged => CanonicalTree(graph, dist, parent)

(***************************************************************************)
(* The distances hsospRecompute returns are the costs of the cheapest      *)
(* walks from the source, by a definition that knows nothing of trees.     *)
(***************************************************************************)
DistancesAreShortest == pc = "idle" => dist = ShortestDistances(graph)

(***************************************************************************)
(* The chaotic rounds still converge as fast as the synchronous ones: the  *)
(* loop needs at most N rounds, so the cap of hsospRecompute (at least     *)
(* N + 1) never cuts it short.                                             *)
(***************************************************************************)
CapNeverReached == rounds <= N /\ converged

(***************************************************************************)
(* So a call always ends for the right reason and with the right answer.   *)
(***************************************************************************)
ConvergesToShortest == CapNeverReached /\ DistancesAreShortest

(***************************************************************************)
(* A node with no work left is settled: unless v's warp is still running   *)
(* or a neighbour of v changed in this round (then v is a candidate of the *)
(* next), v hangs from its best neighbour at their current distances.      *)
(* This is what a lost candidate would break, rounds before it shows.      *)
(***************************************************************************)
Settled(v) ==
  \/ dist[v] # Inf /\ HangsFrom(graph, dist, v, parent[v])
  \/ /\ dist[v] = Inf /\ parent[v] = NoParent
     /\ \A p \in graph.adj[v] : dist[p] = Inf

IdleNodesSettled ==
  pc = "recompute" => \A v \in Node \ {Source} : v \in todo \cup Candidates \/ Settled(v)
=============================================================================
