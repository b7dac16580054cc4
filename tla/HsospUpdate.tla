---------------------------- MODULE HsospUpdate ----------------------------
(***************************************************************************)
(* hsospUpdate: the exact dynamic SOSP update on the GPU                   *)
(* (hsosp/src/hsospDevice.cu), between batches of line-graph changes.      *)
(*                                                                         *)
(* A batch leaves the new line graph on the device and its net delta: the  *)
(* pairs that appeared and disappeared, and the ids that are new (created  *)
(* in the batch, a recycled id included) or dead.  The update packs the    *)
(* pre-batch tree into (distance, parent) words, marks the roots, marks    *)
(* their subtrees by pointer jumping, invalidates the marked nodes, pulls  *)
(* a first word for each of them, relaxes the inserted pairs and pushes    *)
(* from frontier to frontier until no word decreases; or it gives up (a    *)
(* spent budget, a distance that does not fit) and recomputes from blank.  *)
(*                                                                         *)
(* The host launches one kernel after the other on one stream; the warps   *)
(* of a launch run concurrently.  packed is lowered by atomicMin while     *)
(* other warps read it, so each read and each relaxation of a pull, insert *)
(* or push warp is a step of its own here.  The other kernels write only   *)
(* their own node (or set a flag to 1) from data nobody changes in that    *)
(* launch, so their order cannot be observed and they are part of the host *)
(* step that launches them.                                                *)
(***************************************************************************)
EXTENDS HsospRecompute

CONSTANTS
  InitialGraphs,   \* the line graphs the device may be loaded with
  MaxBatches,      \* bound: batches per behaviour
  Limit,           \* PACKED_DIST_LIMIT; 2^32 - 1 in the code
  MaxJumpRounds,   \* cap of the pointer-jumping loop; 64 in the code
  WorkBudget       \* UpdateConfig::workBudget, relaxations per entry

ASSUME InitialGraphsAssumption == InitialGraphs \subseteq Graphs
ASSUME BoundsAssumption ==
  /\ MaxBatches \in Nat /\ WorkBudget \in Nat
  /\ Limit \in Nat \ {0} /\ MaxJumpRounds \in Nat \ {0}

VARIABLES
  batches,    \* batches applied so far (bounded by MaxBatches)
  delta,      \* DeviceDelta of the last batch
  packed,     \* d_packed
  inv,        \* d_invA/d_invB: the marked nodes
  jump,       \* d_jumpA/d_jumpB: ancestor pointers, NoParent for -1
  jumpRound,  \* stats.jumpRounds
  next,       \* d_next as a set
  nextLen,    \* counters[kCntNext]: entries appended to d_next
  stamp,      \* d_stamp
  epoch,      \* HsospState::epoch
  threads,    \* <<u, v>>: directions of inserted pairs not started yet
  word,       \* pullInvalidatedKernel, v's warp: best word so far
  lanes,      \* <<v, c>>: a warp is about to relax v with the word c
  work,       \* counters[kCntWork]
  overflow,   \* counters[kCntOverflow] # 0
  iterations  \* stats.iterations

batchVars == <<batches, delta>>
markVars == <<inv, jump, jumpRound>>
listVars == <<next, nextLen, stamp>>
counterVars == <<work, overflow, iterations>>
updateVars == <<batchVars, packed, markVars, listVars, epoch, threads, word, lanes, counterVars>>
vars == <<rvars, updateVars>>

(***************************************************************************)
(* Packed words.  PACKED_INF is 0xffffffff in both halves.                 *)
(***************************************************************************)
PackedInf == <<Limit, NoParent>>
Word == (0 .. Limit) \X (0 .. N)

\* packDist: the shift drops the distance bits above 2^32.
Pack(d, p) == <<d % (Limit + 1), p>>

\* The word that node u with word x offers to its neighbour v.
Offer(x, u, v) == <<x[1] + graph.w[v], u>>
Fits(c) == c[1] < Limit

AllDone == todo = {} /\ unread = {} /\ threads = {} /\ lanes = {}

-----------------------------------------------------------------------------
Init ==
  /\ RecomputeInit /\ graph \in InitialGraphs
  /\ batches = 0 /\ delta = EmptyDelta
  /\ packed = [v \in Node |-> PackedInf]
  /\ inv = {} /\ jump = [v \in Node |-> NoParent] /\ jumpRound = 0
  /\ next = {} /\ nextLen = 0 /\ stamp = [v \in Node |-> 0] /\ epoch = 0
  /\ threads = {} /\ word = [v \in Node |-> PackedInf] /\ lanes = {}
  /\ work = 0 /\ overflow = FALSE /\ iterations = 0

(***************************************************************************)
(* The tree is first computed from blank, as every caller does.            *)
(***************************************************************************)
FirstRecompute == StartRecompute /\ UNCHANGED updateVars

(***************************************************************************)
(* applyBatch: the device graph becomes g, any graph that may follow, and  *)
(* the delta describes the change.                                         *)
(***************************************************************************)
ApplyBatch(g, created) ==
  /\ pc = "idle" /\ batches < MaxBatches
  /\ MayFollow(graph, g, created)
  /\ graph' = g
  /\ delta' = NetDelta(graph, g, created)
  /\ batches' = batches + 1
  /\ pc' = "ready"
  /\ UNCHANGED <<todo, unread, recomputeVars, packed, markVars, listVars, epoch,
                 threads, word, lanes, counterVars>>

(***************************************************************************)
(* zeroDegreeKernel, packStateKernel, markDeletedTreeEdgesKernel,          *)
(* markIdsKernel and initJumpKernel.                                       *)
(***************************************************************************)
PackState ==
  [v \in Node |-> IF dist[v] = Inf THEN PackedInf ELSE Pack(dist[v], parent[v])]

TreeParent(x) == IF x = PackedInf THEN NoParent ELSE x[2]

\* Fault: only the larger end of a deleted pair is tested, not "and vice versa".
DeletedTreeEdgeOneWay(p, v) == <<p, v>> \in delta.del /\ TreeParent(PackState[v]) = p

DeletedTreeEdge(p, v) ==
  (<<p, v>> \in delta.del \/ <<v, p>> \in delta.del) /\ TreeParent(PackState[v]) = p

Roots == {v \in Node : \E p \in Node : DeletedTreeEdge(p, v)} \cup delta.new \cup delta.dead

BeginUpdate ==
  /\ pc = "ready"
  /\ graph' = [graph EXCEPT !.adj = [v \in Node |-> IF v \in delta.dead THEN {} ELSE @[v]]]
  /\ packed' = PackState
  /\ overflow' = (\E v \in Reached(dist) : dist[v] >= Limit)
  /\ inv' = Roots
  /\ jump' = [v \in Node |-> TreeParent(PackState[v])]
  /\ jumpRound' = 0 /\ work' = 0 /\ iterations' = 0
  /\ pc' = "jump"
  /\ UNCHANGED <<todo, unread, recomputeVars, batchVars, listVars, epoch, threads, word, lanes>>

(***************************************************************************)
(* One launch of jumpKernel (double buffered, so synchronous) and the      *)
(* host's test of kCntActive after it.  At the cap the tree is taken for   *)
(* corrupt and the update falls back.                                      *)
(***************************************************************************)
Halted(v) == v \in inv \/ jump[v] = NoParent

\* Fault: the pointer advances before its mark is tested, so one ancestor is skipped.
JumpRoundAhead ==
  LET jumped == {v \in Node : ~Halted(v)}
      marked == {v \in jumped : jump[jump[v]] \in inv}
      active == \E v \in jumped \ marked : jump[jump[v]] # NoParent
  IN  /\ pc = "jump"
      /\ inv' = inv \cup marked
      /\ jump' = [v \in Node |-> IF v \in jumped \ marked THEN jump[jump[v]] ELSE NoParent]
      /\ jumpRound' = jumpRound + 1
      /\ pc' = CASE ~active -> "marked"
                 [] active /\ jumpRound' < MaxJumpRounds -> "jump"
                 [] OTHER -> "giveup"
      /\ UNCHANGED <<graph, todo, unread, recomputeVars, batchVars, packed, listVars, epoch,
                     threads, word, lanes, counterVars>>

\* Fault: the host takes the first round for the last.
JumpRoundOnce ==
  LET marked == {v \in Node : ~Halted(v) /\ jump[v] \in inv}
      jumped == {v \in Node : ~Halted(v) /\ jump[v] \notin inv}
  IN  /\ pc = "jump"
      /\ inv' = inv \cup marked
      /\ jump' = [v \in Node |-> IF v \in jumped THEN jump[jump[v]] ELSE NoParent]
      /\ jumpRound' = jumpRound + 1
      /\ pc' = "marked"
      /\ UNCHANGED <<graph, todo, unread, recomputeVars, batchVars, packed, listVars, epoch,
                     threads, word, lanes, counterVars>>

JumpRound ==
  LET marked == {v \in Node : ~Halted(v) /\ jump[v] \in inv}
      jumped == {v \in Node : ~Halted(v) /\ jump[v] \notin inv}
      active == \E v \in jumped : jump[jump[v]] # NoParent
  IN  /\ pc = "jump"
      /\ inv' = inv \cup marked
      /\ jump' = [v \in Node |-> IF v \in jumped THEN jump[jump[v]] ELSE NoParent]
      /\ jumpRound' = jumpRound + 1
      /\ pc' = CASE ~active -> "marked"
                 [] active /\ jumpRound' < MaxJumpRounds -> "jump"
                 [] OTHER -> "giveup"
      /\ UNCHANGED <<graph, todo, unread, recomputeVars, batchVars, packed, listVars, epoch,
                     threads, word, lanes, counterVars>>

\* Fault: only the roots are invalidated, not their subtrees.
InvalidateRoots ==
  /\ pc = "marked"
  /\ packed' = [v \in Node |-> IF v \in Roots \ {Source} THEN PackedInf ELSE packed[v]]
  /\ epoch' = epoch + 1
  /\ next' = {} /\ nextLen' = 0
  /\ todo' = Roots \ {Source}
  /\ unread' = RowReads(Roots \ {Source})
  /\ pc' = "pull"
  /\ UNCHANGED <<graph, recomputeVars, batchVars, markVars, stamp, threads, word, lanes, counterVars>>

(***************************************************************************)
(* invalidateKernel, and the launch of pullInvalidatedKernel with one warp *)
(* per invalidated node.                                                   *)
(***************************************************************************)
Invalidate ==
  /\ pc = "marked"
  /\ packed' = [v \in Node |-> IF v \in inv \ {Source} THEN PackedInf ELSE packed[v]]
  /\ epoch' = epoch + 1
  /\ next' = {} /\ nextLen' = 0
  /\ todo' = inv \ {Source}
  /\ unread' = RowReads(inv \ {Source})
  /\ pc' = "pull"
  /\ UNCHANGED <<graph, recomputeVars, batchVars, markVars, stamp, threads, word, lanes, counterVars>>

(***************************************************************************)
(* relax and enqueue: the atomicMin on the packed word, and a place on     *)
(* d_next for a node whose stamp is not of this epoch yet.  relax reads    *)
(* the word before the atomicMin; words only decrease, so the test it      *)
(* skips the atomicMin on stays true.  The stamp is raised after the       *)
(* atomicMin, but it is read by nothing but enqueue and the list by        *)
(* nothing before the launch ends, so both belong to one step.             *)
(***************************************************************************)
\* Fault: a node on the running frontier counts as enqueued.
EnqueueStale(v) ==
  IF stamp[v] + 1 < epoch
  THEN /\ stamp' = [stamp EXCEPT ![v] = epoch]
       /\ next' = next \cup {v} /\ nextLen' = nextLen + 1
  ELSE UNCHANGED listVars

\* Fault: no stamp test.
EnqueueAlways(v) ==
  stamp' = [stamp EXCEPT ![v] = epoch] /\ next' = next \cup {v} /\ nextLen' = nextLen + 1

Enqueue(v) ==
  IF stamp[v] < epoch
  THEN /\ stamp' = [stamp EXCEPT ![v] = epoch]
       /\ next' = next \cup {v} /\ nextLen' = nextLen + 1
  ELSE UNCHANGED listVars

\* Fault: a node is enqueued whether its word decreased or not.
RelaxEnqueuesAll(v, c) ==
  /\ packed' = [packed EXCEPT ![v] = IF Less(c, @) THEN c ELSE @]
  /\ Enqueue(v)

Relax(v, c) ==
  IF Less(c, packed[v])
  THEN packed' = [packed EXCEPT ![v] = c] /\ Enqueue(v)
  ELSE UNCHANGED <<packed, listVars>>

\* Fault: the read loop does not advance.
InvalidatedReadStuck(v, p) ==
  /\ pc = "pull" /\ <<v, p>> \in unread
  /\ LET c == Offer(packed[p], p, v)
     IN  /\ word' = IF packed[p] # PackedInf /\ Fits(c) /\ Less(c, word[v])
                    THEN [word EXCEPT ![v] = c] ELSE word
         /\ overflow' = (overflow \/ (packed[p] # PackedInf /\ ~Fits(c)))
  /\ UNCHANGED <<graph, pc, todo, unread, recomputeVars, batchVars, packed, markVars, listVars, epoch,
                 threads, lanes, work, iterations>>

(***************************************************************************)
(* pullInvalidatedKernel, the warp of v: one read of a neighbour's word,   *)
(* and at the end of the row the relaxation of v with the best offer.      *)
(***************************************************************************)
InvalidatedRead(v, p) ==
  /\ pc = "pull" /\ <<v, p>> \in unread
  /\ unread' = unread \ {<<v, p>>}
  /\ LET c == Offer(packed[p], p, v)
     IN  /\ word' = IF packed[p] # PackedInf /\ Fits(c) /\ Less(c, word[v])
                    THEN [word EXCEPT ![v] = c] ELSE word
         /\ overflow' = (overflow \/ (packed[p] # PackedInf /\ ~Fits(c)))
  /\ UNCHANGED <<graph, pc, todo, recomputeVars, batchVars, packed, markVars, listVars, epoch,
                 threads, lanes, work, iterations>>

InvalidatedRelax(v) ==
  /\ pc = "pull" /\ v \in todo
  /\ \A p \in Node : <<v, p>> \notin unread
  /\ IF word[v] # PackedInf THEN Relax(v, word[v]) ELSE UNCHANGED <<packed, listVars>>
  /\ todo' = todo \ {v}
  /\ word' = [word EXCEPT ![v] = PackedInf]
  /\ work' = work + Cardinality(graph.adj[v])
  /\ UNCHANGED <<graph, pc, unread, recomputeVars, batchVars, markVars, epoch, threads, lanes,
                 overflow, iterations>>

(***************************************************************************)
(* The launch of relaxInsertedKernel: one thread per inserted pair (a, b), *)
(* which offers a's word to b and then b's word to a.                      *)
(***************************************************************************)
LaunchInserted ==
  /\ pc = "pull" /\ AllDone
  /\ threads' = delta.ins \cup {<<e[2], e[1]>> : e \in delta.ins}
  /\ pc' = "insert"
  /\ UNCHANGED <<graph, todo, unread, recomputeVars, batchVars, packed, markVars, listVars, epoch,
                 word, lanes, counterVars>>

\* The thread's first direction is over: its load, and its relaxation.
FirstDirectionDone(u, v) ==
  u > v => <<v, u>> \notin threads /\ \A l \in lanes : ~(l[1] = u /\ l[2][2] = v)

InsertedLoad(u, v) ==
  /\ pc = "insert" /\ <<u, v>> \in threads /\ FirstDirectionDone(u, v)
  /\ threads' = threads \ {<<u, v>>}
  /\ LET c == Offer(packed[u], u, v)
         offers == v # Source /\ packed[u] # PackedInf
     IN  /\ lanes' = lanes \cup {l \in {<<v, c>>} : offers /\ Fits(c)}
         /\ overflow' = (overflow \/ (offers /\ ~Fits(c)))
  /\ UNCHANGED <<graph, pc, todo, unread, recomputeVars, batchVars, packed, markVars, listVars, epoch,
                 word, work, iterations>>

(***************************************************************************)
(* pushKernel, the warp of u: it loads u's word once, then its lanes relax *)
(* the neighbours in any order.                                            *)
(***************************************************************************)
Receivers(u) == IF packed[u] = PackedInf THEN {} ELSE graph.adj[u] \ {Source}

PushLoad(u) ==
  /\ pc = "push" /\ u \in todo
  /\ todo' = todo \ {u}
  /\ LET offers == {<<v, Offer(packed[u], u, v)>> : v \in Receivers(u)}
     IN  /\ lanes' = lanes \cup {l \in offers : Fits(l[2])}
         /\ overflow' = (overflow \/ \E l \in offers : ~Fits(l[2]))
  /\ work' = work + (IF packed[u] = PackedInf THEN 0 ELSE Cardinality(graph.adj[u]))
  /\ UNCHANGED <<graph, pc, unread, recomputeVars, batchVars, packed, markVars, listVars, epoch,
                 threads, word, iterations>>

RelaxLane(l) ==
  /\ pc \in {"insert", "push"} /\ l \in lanes
  /\ Relax(l[1], l[2])
  /\ lanes' = lanes \ {l}
  /\ UNCHANGED <<graph, pc, todo, unread, recomputeVars, batchVars, markVars, epoch, threads, word,
                 counterVars>>

(***************************************************************************)
(* The host loop after the insert kernel and after each push kernel.       *)
(***************************************************************************)
WorkLimit == WorkBudget * (IF Entries(graph) > 1 THEN Entries(graph) ELSE 1)

BudgetSpent == iterations >= MaxIterations \/ work > WorkLimit \/ overflow

AtLoopTest == pc \in {"insert", "push"} /\ AllDone

LaunchPush ==
  /\ AtLoopTest /\ nextLen > 0 /\ ~BudgetSpent
  /\ iterations' = iterations + 1
  /\ epoch' = epoch + 1
  /\ todo' = next /\ next' = {} /\ nextLen' = 0
  /\ pc' = "push"
  /\ UNCHANGED <<graph, unread, recomputeVars, batchVars, packed, markVars, stamp, threads, word, lanes,
                 work, overflow>>

(***************************************************************************)
(* The update's scratch is dead when it ends: the next one overwrites it   *)
(* before reading it.  Only the stamps and the epoch live on.              *)
(***************************************************************************)
DropScratch ==
  /\ packed' = [v \in Node |-> PackedInf]
  /\ inv' = {} /\ jump' = [v \in Node |-> NoParent] /\ jumpRound' = 0
  /\ next' = {} /\ nextLen' = 0
  /\ work' = 0 /\ overflow' = FALSE /\ iterations' = 0
  /\ UNCHANGED <<batchVars, stamp, epoch, threads, word, lanes>>

\* Fault: the overflow counter is not tested when the frontier is empty.
UnpackAnyway ==
  /\ AtLoopTest /\ nextLen = 0
  /\ dist' = [v \in Node |-> IF packed[v] = PackedInf THEN Inf ELSE packed[v][1]]
  /\ parent' = [v \in Node |-> TreeParent(packed[v])]
  /\ pc' = "idle"
  /\ DropScratch
  /\ UNCHANGED <<graph, todo, unread, rounds, converged, affected, best>>

\* unpackStateKernel.
Unpack ==
  /\ AtLoopTest /\ nextLen = 0 /\ ~overflow
  /\ dist' = [v \in Node |-> IF packed[v] = PackedInf THEN Inf ELSE packed[v][1]]
  /\ parent' = [v \in Node |-> TreeParent(packed[v])]
  /\ pc' = "idle"
  /\ DropScratch
  /\ UNCHANGED <<graph, todo, unread, rounds, converged, affected, best>>

\* Fault: an update that gives up leaves the previous tree.
FallBackKeepsTree ==
  /\ \/ pc = "giveup"
     \/ AtLoopTest /\ nextLen > 0 /\ BudgetSpent
     \/ AtLoopTest /\ nextLen = 0 /\ overflow
  /\ pc' = "idle"
  /\ DropScratch
  /\ UNCHANGED <<graph, todo, unread, recomputeVars>>

(***************************************************************************)
(* The exact fallback: hsospRecompute on the same graph.                   *)
(***************************************************************************)
FallBack ==
  /\ \/ pc = "giveup"
     \/ AtLoopTest /\ nextLen > 0 /\ BudgetSpent
     \/ AtLoopTest /\ nextLen = 0 /\ overflow
  /\ Reset
  /\ DropScratch
  /\ UNCHANGED <<graph, converged, todo, unread, best>>

RecomputeStepOnly == RecomputeStep /\ UNCHANGED updateVars

(***************************************************************************)
(* MaxBatches is spent and the last update has returned.                   *)
(***************************************************************************)
Finished == pc = "idle" /\ batches = MaxBatches /\ UNCHANGED vars

UpdateStep ==
  \/ BeginUpdate \/ JumpRound \/ Invalidate
  \/ \E v, p \in Node : InvalidatedRead(v, p)
  \/ \E v \in Node : InvalidatedRelax(v)
  \/ LaunchInserted
  \/ \E u, v \in Node : InsertedLoad(u, v)
  \/ \E u \in Node : PushLoad(u)
  \/ \E l \in lanes : RelaxLane(l)
  \/ LaunchPush \/ Unpack \/ FallBack

Compute == FirstRecompute \/ RecomputeStepOnly \/ UpdateStep

Next ==
  \/ Compute
  \/ \E g \in Graphs : \E created \in SUBSET g.live : ApplyBatch(g, created)
  \/ Finished

(***************************************************************************)
(* Launched warps run to their end and the host waits for them: the        *)
(* computation never stops half way.  Batches come when they come.         *)
(***************************************************************************)
Spec == Init /\ [][Next]_vars /\ WF_vars(Compute)

-----------------------------------------------------------------------------
TypeOK ==
  /\ RecomputeTypeOK
  /\ pc \in {"blank", "recompute", "idle", "ready", "jump", "marked", "giveup",
             "pull", "insert", "push"}
  /\ batches \in 0 .. MaxBatches
  /\ delta \in [del : SUBSET (Node \X Node), ins : SUBSET (Node \X Node),
                new : SUBSET Node, dead : SUBSET Node]
  /\ packed \in [Node -> Word] /\ word \in [Node -> Word]
  /\ inv \in SUBSET Node /\ jump \in [Node -> 0 .. N] /\ jumpRound \in Nat
  /\ next \in SUBSET Node /\ nextLen \in Nat
  /\ stamp \in [Node -> Nat] /\ epoch \in Nat
  /\ threads \in SUBSET (Node \X Node)
  /\ lanes \in SUBSET (Node \X Word)
  /\ work \in Nat /\ overflow \in BOOLEAN /\ iterations \in Nat

(***************************************************************************)
(* Whenever a call has returned, by the incremental path or by the         *)
(* fallback, the state holds the canonical tree of the current graph: the  *)
(* word of the header (hsosp.cuh:300-302), "a canonical input tree gives   *)
(* the canonical tree of the new graph".                                   *)
(***************************************************************************)
TreeIsCanonical == pc = "idle" /\ converged => CanonicalTree(graph, dist, parent)

(***************************************************************************)
(* Pointer jumping marks the roots and all their descendants in the        *)
(* pre-batch tree, and nothing else.  Without recursion: a node descends   *)
(* from a root iff every set that is closed under taking the tree parent   *)
(* and contains the node contains a root.                                  *)
(***************************************************************************)
ParentClosed(C) == \A v \in C : TreeParent(packed[v]) \in C \cup {NoParent}

SubtreeOfRoot(v) == \A C \in SUBSET Node : ParentClosed(C) /\ v \in C => C \cap Roots # {}

SubtreesMarked == pc = "marked" => inv = {v \in Node : SubtreeOfRoot(v)}

(***************************************************************************)
(* "After ceil(log2(depth)) + 1 rounds every descendant of a root is       *)
(* marked" (hsospDevice.cu:341-342): r rounds reach 2^r - 1 generations.   *)
(***************************************************************************)
Ancestor[k \in 0 .. N] ==
  [v \in Node |-> IF k = 0 THEN v
                  ELSE IF Ancestor[k-1][v] = NoParent THEN NoParent
                  ELSE TreeParent(packed[Ancestor[k-1][v]])]

MarkedInLogRounds ==
  pc = "jump" => \A v \in Node : \A k \in 0 .. N :
    k < 2 ^ jumpRound /\ Ancestor[k][v] \in Roots => v \in inv

(***************************************************************************)
(* After invalidation every finite word is justified by the new graph:     *)
(* its parent is a neighbour with a finite word, and the distance is at    *)
(* least that of a step from there.  No stale distance is left that could  *)
(* count to infinity (hsosp.cuh:292-295), although the words change under  *)
(* the warps that read them.  An update that will fall back (overflow) or  *)
(* that was given no exact tree is exempt.                                 *)
(***************************************************************************)
Relaxing == pc \in {"pull", "insert", "push"} /\ ~overflow /\ converged

JustifiedBy(v, x) ==
  x # PackedInf => /\ x[2] \in graph.adj[v]
                   /\ packed[x[2]] # PackedInf
                   /\ x[1] >= packed[x[2]][1] + graph.w[v]

NoStaleWord ==
  Relaxing => \A v \in Node \ {Source} : JustifiedBy(v, packed[v])

(***************************************************************************)
(* No improvement is ever lost: if node u could lower or reach its         *)
(* neighbour v, be it with a distance that does not fit, then u is on the  *)
(* next frontier, or its warp has yet to load, or the very word is in a    *)
(* lane, or v's pull has yet to see it or holds a word as good, or the     *)
(* pair is an inserted one whose thread has not started.                   *)
(***************************************************************************)
Improves(u, v) ==
  /\ v \in graph.adj[u] \ {Source} /\ packed[u] # PackedInf
  /\ packed[v] = PackedInf \/ Less(Offer(packed[u], u, v), packed[v])

InPull(u, v) ==
  /\ pc = "pull" /\ v \in todo
  /\ \/ <<v, u>> \in unread
     \/ LET c == Offer(packed[u], u, v) IN Fits(c) /\ ~Less(c, word[v])

InsertionAhead(u, v) ==
  \/ pc = "pull" /\ (<<u, v>> \in delta.ins \/ <<v, u>> \in delta.ins)
  \/ pc = "insert" /\ <<u, v>> \in threads

Covered(u, v) ==
  \/ u \in next
  \/ pc = "push" /\ u \in todo
  \/ <<v, Offer(packed[u], u, v)>> \in lanes
  \/ InPull(u, v)
  \/ InsertionAhead(u, v)

NoLostImprovement == Relaxing => \A u, v \in Node : Improves(u, v) => Covered(u, v)

(***************************************************************************)
(* No node is appended twice to a frontier list of maxNodes entries, under *)
(* any interleaving of the warps that improve it ("epoch stamps instead of *)
(* a reset flag, which raced", hsospDevice.cu:371-372).                    *)
(***************************************************************************)
FrontierWithoutDuplicates == nextLen = Cardinality(next)

(***************************************************************************)
(* The push loop needs no cap to end (hsosp.cuh:300): it never takes more  *)
(* iterations than there are nodes.                                        *)
(***************************************************************************)
PushRoundsBounded == iterations <= N

\* Both loops end as early as the comments say.
RoundsBounded == MarkedInLogRounds /\ PushRoundsBounded

(***************************************************************************)
(* The update implements the abstract component: between a batch and the   *)
(* return nothing is promised, and what is returned is the exact tree.     *)
(***************************************************************************)
Abstract == INSTANCE Sosp WITH
  answer <- IF pc = "idle" THEN {[dist |-> dist, parent |-> parent]} ELSE {}

ImplementsSosp == Abstract!Spec

(***************************************************************************)
(* Every call returns, the first recompute and each update, with whatever  *)
(* budgets and however the warps are scheduled.                            *)
(***************************************************************************)
EveryCallReturns == Abstract!EveryBatchAnswered
=============================================================================
