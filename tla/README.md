# A TLA+ verification of MOSP_ESCHER

The repository maintains shortest-path trees while a graph or a hypergraph
changes. A dynamic hypergraph is stored in ESCHER's payload trees on the GPU;
its line graph (hyperedges as nodes, adjacent when they share a vertex) is kept
as a device CSR; and after every batch of changes the single-objective
shortest-path (SOSP) tree of the line graph is updated rather than recomputed.
An older part (MOSP) does the same on ordinary directed graphs with several
objectives, and combines the trees.

This directory models the program's own logic in TLA+, checks it with TLC on
small instances, and proves with TLAPS what holds for every instance.

Contents: [Inventory](#inventory), [Modules](#modules), [Runs](#runs),
[Bounds](#bounds), [Fairness](#fairness), [Findings](#findings-and-remarks),
[Proofs](#proofs), [What is only model-checked](#what-is-only-model-checked),
[Not modelled](#not-modelled), [What could follow](#what-could-follow).

## Inventory

| Part | State | Operations | Interacts with | What makes it hard | Correct when |
|---|---|---|---|---|---|
| **hsospUpdate** (`hsosp/src/hsospDevice.cu`) | packed words, marks, jump pointers, frontier lists and stamps, counters | pack, mark, jump, invalidate, pull, relax inserted pairs, push, unpack, fall back | reads the device line graph and the delta of `applyBatch`; falls back on hsospRecompute | warps lower words while others read them; budgets run out midway; 32-bit packing | it returns the exact canonical tree of the new graph |
| **hsospRecompute** (same file) | distances, parents, candidate and affected flags | reset, pull, collect, loop | called first, and as the fallback | chaotic relaxation; a cap that must never bite | same tree, from blank |
| **applyBatch** (`hsosp/src/hsospDelta.cu`, CSR part in `hsospDevice.cu`) | incidence mirror, CSR rows with spare capacity and a tail, the delta | derive pairs, patch rows, rebuild | HostHypergraph, DynamicHypergraph | order of incidence changes in one batch; tail overflow midway | the delta is the net change, the CSR is the line graph |
| **HostHypergraph** (`hypergraph/src`) | incidence both ways, weights, alive flags, free ids | applyBatch, lineGraph, host emulation of the update | everything above | four phases in one batch, id recycling | incidence is consistent both ways |
| **DynamicHypergraph** | three CBSTs (h2v, v2h, h2h), the h2h key of each hyperedge | bulkLoad, beginBatch, finishBatch | ESCHER, HostHypergraph | keys are chosen by ESCHER and drift from ids | the CBST rows equal the host's |
| **ESCHER CBST** (`escher/`) | an implicit tree of rows, each a chain of payload segments; availability counts; a bump pointer | construct, fill, unfill, erase, insert with best-fit reuse, compact | used by the hypergraph and by the graph | segment chains, partial effects before a throw, reuse, index arithmetic | a map from keys to value sequences |
| **DynamicGraph** (`graph/`) | three CBSTs, shadows, an edge index | load, insertEdges, deleteEdges, snapshot, dump | ESCHER, the updater | adopted edge ids, a throw between two CBSTs | lists, shadows and index agree |
| **MOSP GPU update** (`mosp/src/sospUpdateGpu.cu`) | packed words, jump pointers and flags, near, far and candidate lists with counters and generations | update, computation from scratch | called per objective by `parallelSOSPUpdate` | in-place pointer jumping, two piles, stale entries | the canonical tree of the changed graph |
| **MOSP on the host** (`mosp/src`) | distances, parents, queues and sweeps; the tree files | Dijkstra, sequential update, combined graph, the map-based graph update, the main program | DynamicGraph and the GPU update, through files | lazy queue, invalidation, order of the stages | same tree; the combined result uses live edges only |
| generators, readers, drivers, benchmarks | none | | | | not modelled |

The components are called one after the other by one host thread. What runs
concurrently are the threads and warps of one kernel launch, and there all
the races of this code are. Data passes between the halves in two places: the
delta and the CSR of `applyBatch`, read by `hsospUpdate`; and the CBST rows, used
by `DynamicHypergraph` and `DynamicGraph` through the calls of
`escher/include/structure.hpp`.

PROJECT.json lists the components with their status, and every hazard with the
properties that would catch it.

## Modules

How they build on each other (arrow: extends or instantiates):

    HsospUpdate -> HsospRecompute -> LineGraph          implements Sosp,
    |                                                   assumes MayFollow/NetDelta of LineGraph
    HsospBatch -> HostIncidence, RowArena, LineGraph    implements LineGraphBatches (the same two operators)
    RowStore -> CbstLayout, BestFit                     implements KeyedRows -> RowCalls
    SlotReuse -> SlotTree -> CbstLayout; SlotReuse -> BestFit
    GraphUpdate -> DynamicGraph -> WeightedDigraph, uses RowCalls three times
    RowCalls, DynamicGraph -> SortedSets
    NearFarUpdate -> PointerJump -> WeightedDigraph     implements TreeService
    SequentialUpdate -> WeightedDigraph                 implements TreeService
    CombinedGraph -> Dijkstra -> WeightedDigraph

    HsospUpdateProofs -> HsospUpdate
    HsospBatchProofs -> HsospBatch
    CbstProofs -> SlotReuse
    SequentialUpdateProofs, NearFarUpdateProofs, CombinedGraphProofs, DynamicGraphProofs
        -> the module of their name (DynamicGraphProofs: GraphUpdate) and WeightedDigraphProofs

| Module | Models |
|---|---|
| `LineGraph` | the weighted line graph, the order on (distance, parent) words, the canonical tree, the reference distances |
| `HsospRecompute` | `hsospRecompute` and `propagate` |
| `HsospUpdate` | `hsospUpdate` between batches, composed with the recompute as its first call and its fallback |
| `Sosp` | abstract: after each batch, the exact tree |
| `HostIncidence` | `HostHypergraph`: the incidence on the host and the batches that change it |
| `RowArena` | growing rows in one device array: slots, free tail, new layout |
| `HsospBatch` | `applyBatch`: from a batch of hypergraph changes to the line graph on the device and the ESCHER trees |
| `LineGraphBatches` | abstract: what `applyBatch` promises to `hsospUpdate` |
| `CbstLayout` | the implicit complete search tree: positions, ranks, walks by key and by count |
| `SlotTree` | the availability counts, launch by launch and thread by thread |
| `BestFit` | the parallel best-fit matching of rows to slots |
| `SlotReuse` | the two composed: which slots an insertion takes |
| `RowStore` | a CBST over its payload array: construct, fill, unfill, erase, insert, compact |
| `SortedSets` | finite sets of numbers or edges in the order in which `std::sort` leaves them |
| `RowCalls`, `KeyedRows` | abstract: what the calls do to a map from keys to rows; any sequence of them |
| `WeightedDigraph` | directed graphs, batches of changes, Bellman distances and the canonical tree |
| `DynamicGraph` | `DynamicGraph.cpp` over three CBSTs used by `RowCalls` |
| `GraphUpdate` | `updateGraphWithESCHER`, compared with the map-based `updateGraphCSR` |
| `TreeService` | abstract: a call given a canonical tree and a batch returns the canonical tree |
| `PointerJump` | the in-place pointer jumping of MOSP |
| `NearFarUpdate` | the MOSP update and the computation from scratch on the device |
| `SequentialUpdate` | `sequentialSOSPUpdate.cu`, sweep by sweep |
| `Dijkstra` | `runDijkstra` and `runDijkstraCSR`, pop by pop |
| `CombinedGraph` | the main program of MOSP from the change files on |
| `*Proofs` | theorems (below) |
| `MC*` | instances for TLC |

### The hypergraph half

**LineGraph.** Nodes are the device indices `0 .. N-1`. The weight belongs to
the node that is entered, the adjacency is symmetric. `NoParent` is `N`: the
code uses -1 in its arrays and the all-ones half word, larger than every id, in
packed words, and one value serves for both. `CanonicalTree` is a *local*
certificate (every node hangs from its (distance, id)-least neighbour), while
`ShortestDistances` is Bellman's recursion over walks; the program is compared
with both, and that they agree is itself a theorem.

**HsospRecompute.** A state of the model lies between two memory accesses that
other threads can observe. One warp per candidate reads its neighbours'
distances one at a time (`PullRead`), in any order and interleaved with the
writes of the others (`PullWrite`). Kernels whose threads only set flags or
write their own node from data nobody changes in the launch cannot be observed
half done, so they are part of the host step that launches them (`NextRound`
contains the collect kernel). Lists guarded by a flag are sets.

**HsospUpdate.** `ApplyBatch` is the contract of the previous stage: any new
line graph, and the net delta (pairs that appeared and disappeared, ids created
and dead). Then one action per kernel launch or per observable access:
`BeginUpdate` (pack, mark the roots), `JumpRound` (one double-buffered jump
kernel and the host's test), `Invalidate`, `InvalidatedRead` and
`InvalidatedRelax` (the pull warps), `LaunchInserted`, `InsertedLoad`,
`PushLoad` and `RelaxLane` (a thread loads a word, builds candidates and relaxes
them later, when the word may be outdated), `LaunchPush`, `Unpack`, `FallBack`.
`packed` is lowered by an atomic minimum; `Relax` is that minimum with its
enqueue. Words are pairs, `Pack` drops the bits above the limit as the shift
does, and a candidate that does not fit raises `overflow`. The stamps, the epoch
and the length of the next list are kept apart from the list itself, so that a
duplicate would show.

**Sosp** has two variables, the graph and the answer (none, or the exact tree by
the reference definition). `HsospUpdate` implements it with the answer being the
state arrays whenever no call is running.

**Created ids.** `ApplyBatch` admits ids that were deleted and created again in
one batch. The interface says so (`hsosp.cuh:42`, `hsosp.cuh:291`) and
`hsospUpdate` takes care of it; today's only producer, `DynamicHypergraph`,
takes its ids before it erases anything and so recycles ids of earlier batches
only.

**HostIncidence.** One action per op of a batch: `DeleteHyperedge`, `DeleteVertex`,
`InsertVertex`, `InsertHyperedge`, in the order of the four phases; an op that the
code skips changes only a statistic and has no step. `rows` and `v2h` are the two
directions of the incidence (sets: no row holds a value twice, and nothing depends
on the order within a row), `freeIds` is a sequence because its order decides what
`reserveIds` returns, and `freePos` counts from 1, with 0 for the code's -1. `inc` and
`ops` are the two records of a batch; `inc.net` sums the signs that the code lists one
by one, which is all the device reads of them. `IdCollision` is the throw in the
middle of a batch.

**HsospBatch.** The composition, in the order in which `applyBatch` runs: `BeginBatch`
(new rows enter h2v, which decides their ids), the ops of `HostIncidence`,
`FindCandidates` (net signs, two passes around the change of the vertex rows),
`ClassifyPairs` (overlap before and after, then the hyperedge rows of the mirror),
`LaunchApplyRows` and one `ApplyRow` per changed CSR row, `CsrPatched` or `CsrRebuilt`,
`FinishBatch` (the three trees). Host steps run one after the other; the warps of one
launch write disjoint rows and share only the cursor of the free tail, which they
advance atomically, so one warp is one step, in any order. `BeginBatchThrows` is the one
failure that a caller can meet: an adopted id out of range.

The ESCHER trees are maps from keys to sets here, changed by four operators
(`Unfilled`, `Erased`, `Filled`, and the insertion of whole rows), as their interface
promises; that ESCHER keeps this promise is what `RowStore` checks. Which keys an
insertion returns depends on sizes that the model does not keep: `AdoptedByH2v` lets any new
row reuse any dead id and numbers the others from the largest key on, as `insertCBST` does;
the h2h keys are any unused ones.

`RowArena` is used three times (hyperedge rows and vertex rows of the mirror, CSR rows). `Room`
stands for what the code computes from a growth factor and a constant: the run makes
it so small that rows move, tails fill up and arrays are laid out anew within a
batch. `before` in `HsospBatch` is a history variable, for the refinement only.

**LineGraphBatches** has the line graph and the delta as its variables, and one action: a
batch leads to a graph that may follow (`MayFollow`) with the exact net change (`NetDelta`).
`HsospUpdate`'s `ApplyBatch` uses the same two operators, so the two halves of the
system meet in one definition: `HsospBatch` implements it, `HsospUpdate` assumes it.

### ESCHER

**CbstLayout.** Arrays with one entry per node are functions on heap positions.
`Rank` is the shift arithmetic of `cbstRankOfPosition`, for a last level that
may be partly filled; `Find` is the walk of the kernels from the root by key,
`KthSlot` the walk by availability counts; `PositionOfRank` is the inverse that
construction sorts by.

**SlotTree** takes the recomputation of the counts apart: the host launches the
deepest level first (`LaunchDeepest`, then `NextLevel` up to the root), and
`ReduceThread` is one thread of a launch. `Delete` and `ReuseSlots` are what makes
the counts outdated.

**BestFit** is the pipeline of sorts, lower bounds, prefix maximum and pairing in the
order in which `insertCBST` runs its thrust calls; `SlotReuse` feeds it from the
counts and compares the outcome with the best possible placement.

**RowStore** keeps the payload array cell by cell: values, empty cells, terminators and
links, because everything that can go wrong in a chain of segments is a wrong cell. One
call of the interface is one step: the kernels of a call run one after the other
on one stream and their threads own different rows. A call that throws leaves exactly
what the code has written by then: `FillResult` includes the first attempt, the compaction
and the second attempt; `InsertResult` the reused slots, whose counts are not yet
recomputed. `view` is what a reader finds by key, and `KeyedRows` says what each call may
do to it.

### The graph half

**WeightedDigraph.** One objective at a time; `Applied` is the order of deletions and
insertions within a batch. The canonical tree takes the smallest parent among ties.

**DynamicGraph** uses three CBSTs by `RowCalls`, any of which may be full at any
call, and keeps the host's arrays next to them: `meta` (metadata per edge id), `idOf`
(the edge index), the two shadows. The lists of a vertex, the edges of a CSR and the new ids of one
batch at one vertex are in the order of `SortedSets`: the code sorts the former and appends the latter as
they come. An insertion is refused before it changes anything when an edge of it is known already or has
an end that is no vertex (`Insertable`). `InsertRefused`, `InsertThrows` and `FillThrows` are the
three places where an insertion stops, `DeleteThrows` the one of a deletion; `whole`
records that no call has stopped after a first change. **GraphUpdate** adds the
program in front: two change files, their collisions, three calls, the CSR written.

**PointerJump** lets the threads of a launch run one by one, in any order and
in place. A thread reads its own cells and its ancestor's; since an ancestor's
thread writes once per launch, a thread cut in two by it has the result of one
before or one after it, and one thread is one step.

**NearFarUpdate** is the host loop with its kernels. A pull thread may see each of
its in-neighbours as it was before the launch or as it is; a push thread loads its word
once and then treats its edges one by one, while others lower words. `out`, `far` and
`waiting` count how often a vertex is listed, so that a duplicate would show; `count` holds
the counters that the host copies back, which are zeroed one launch ahead.

**SequentialUpdate** evaluates the vertices of a sweep in any order: the code's order
comes from adjacency lists that removals and insertions have permuted.

**CombinedGraph** runs the stages of the main program in their order; Dijkstra step by
step, the other stages by what they promise.

Operators whose comment begins with `Fault` are wrong versions of the operator
defined after them; nothing uses them in the specifications.

## Runs

| Run | Instance | Question |
|---|---|---|
| `update` | 5 nodes, flat, deep and tied trees from blank, then every batch | Are the recompute and the incremental path exact in every order of their warps, do their invariants and the bounds on their rounds hold? |
| `update_budget` | 4 nodes, two batches, `Limit` 3, one jump round, one push iteration, work budget 1 | Does every way of giving up still implement `Sosp`, and does every call return? |
| `host` | 4 hyperedge ids, 2 vertices, two batches of up to 3 ops and 2 insertions with any ids | Are the incidence, the free list and the record of the net change right after every op, and after a throw? |
| `batch` | 4 ids, 2 vertices, 2 weights, two batches of up to 2 ops and 2 insertions, arrays without slack | Does the device end with the line graph and the exact delta, and stay right for the next batch? |
| `row_store` | 20 cells, alignment 4, two loaded rows, four calls, keys up to 4 | Do chains, reuse, rebuilds and compactions add up to a map from keys to rows, through partial failures? |
| `slot_reuse` | trees of 1 to 7 nodes, up to 3 rows of up to 3 values inserted | Does the tree lead to every deleted slot once, and is the parallel matching as good as any? |
| `near_far` | 5 vertices, 3 graphs, bucket widths 1 and 3, two calls | Is the MOSP update exact in every order of its threads, do its lists fit, does it return? |
| `near_far_heavy` | 4 vertices, a path whose length just fits a word | Do the words hold what the code packs into them? (They do not.) |
| `sequential` | 4 vertices, 3 graphs, three updates | Is the sequential update exact in every order within a sweep, and are its sweeps enough? |
| `dynamic_graph` | 3 vertices, 5 edge ids, four direct calls, or three calls from change files | Do the host's views agree even after a throw, and does the updater write what the old one writes? |
| `dynamic_graph_twice` | the same, with an edge twice in a batch | Does the duplicate test keep its promise? (It does not.) |
| `combined_graph` | 4 vertices, 3 objectives, all graphs on six edges | Is Dijkstra right at every pop, and the combined tree live and agreed? |

*update.* The recompute comes first. `TreeIsCanonical` covers its result, by the local
certificate of a tree, as that of every later call: the racing reads are harmless.
`IdleNodesSettled` says why, and fails rounds before the result would. `ConvergesToShortest` has two parts: the number of rounds never exceeds
N, so that the cap `max(maxIterations, N + 1)`, whose overrun the code would silently
ignore, is never reached; and the distances returned are those of the cheapest walks.

Then the update. `NoStaleWord`: once the marked nodes are invalidated, every finite word
is supported by a neighbour at every moment, so nothing can count to infinity.
`NoLostImprovement`: whenever a node could improve a neighbour, some running or
future access will do so. Together they give `TreeIsCanonical`.
`FrontierWithoutDuplicates`: the stamps keep the frontier within its array.
`SubtreesMarked` compares the marks with the set-theoretic definition of "descends
from a root"; `RoundsBounded` is the comment at `hsospDevice.cu:341` (the jumping ends
in logarithmically many rounds) and the same for the push loop, which has no cap.

*update_budget.* The instance is small so that all reasons to give up occur: a
tree deeper than the jump cap, more than one push iteration, more relaxations
than the budget, and distances of 3 or more, which do not fit `Limit` and lose
bits when packed. The recompute that follows has its own cap, and a call that ended by it would
return a wrong tree.

*host.* `IncidenceConsistent` and `FreeListExact` hold between any two ops, not just between
batches. `ReservedIdsUsable` is what recycling is for. `NetIsDifference` covers batches
whose ops undo each other: a vertex removed in phase 2 and inserted in phase 3, a hyperedge
deleted in phase 1 whose id an insertion takes in phase 4. With
`DynamicHypergraph` in front the last cannot happen (it fixes the ids first); used on
its own, as the tests do, `HostHypergraph` allows it.

*batch.* `DeviceExact` puts three views side by side: the CSR against the definition of the
line graph, two hyperedges that share a vertex, whether the rows were patched or
rebuilt; the mirror against the host (the check that the stress test calls
`incidenceMirrorMismatches`); and the two counters that are never recounted. `TreesAgree` is
`checkEscher`; the h2h keys drift from the ids after the first recycled hyperedge.
`ArraysSound`: no two rows overlap, also while warps move rows in different orders.
`ImplementsBatches` is the refinement; it says in particular that the delta is the net
change although candidates are found from changing rows and classified from two sources.

*row_store.* `PayloadSound` is what `integrity.cu` checks after the fact: a node describes
the last segment of its chain, no two rows share a cell, nothing is left behind the bump
pointer. `TreeSound`: every row is found by its key and every deleted slot by the
counts, also after an insertion that threw before the counts were made anew.
`FillThrowsOnlyWhenNearlyFull` relates the failure to the compacted size: a retry that started from the
wrong state, or a compaction left out, gives up too early. `KeepsContract` is the refinement
of `KeyedRows`, the map that `HsospBatch` and `DynamicGraph` take the trees to be. Chains
of up to three segments, surplus rows, rebuilds and full arrays all occur within four calls.

*slot_reuse.* `SlotsSound` has the level launches, the walk by counts and the rank formula;
seven nodes give a last level that is empty, partly and completely filled. `ReuseIsBestFit`
compares the pipeline with every possible placement: a wrong prefix maximum loses a row, or
puts one into a slot too small for it.

*near_far.* `JumpsSound` is the argument of the comment on `pointerJumpKernel`, at every moment of
a launch. `ListsFit`: no list ever holds a vertex twice, the counters are the lengths,
and no flag of the far pile survives a call. `WordsSound` is the counterpart of `NoStaleWord` and
`NoLostImprovement`, and adds that a threshold is never raised over a distance that is not
final. With these, `ImplementsService`: the canonical tree, whatever the bucket width.

*sequential.* `NoStaleCycle` is what invalidating whole subtrees is for. `SweepsSuffice`
is the comment at `sequentialSOSPUpdate.cu:575`: each sweep settles one more hop of every
shortest path although it evaluates only what lies behind a decrease, so the cap never fails.

*dynamic_graph.* `HostSound` holds after a throw between two CBSTs too; `LockStep` ("the shadow is
updated in lock-step with every ESCHER operation", `DynamicGraph.hpp:58`) holds as long as no call
has stopped halfway. `UpdateMatches` compares the updater with the map it replaced, over
files that delete and insert the same edge, in any order and more than once.

*combined_graph.* `DijkstraExact` is about the lazy queue: nothing is lost with the entries
that are skipped, and ties end at the lowest id. `SpansUpdatedGraph`: the result reaches what
the changed graph reaches, over edges that are in it. `AgreedPathKept`: where all objectives
agree on a path, the result has that path, at one per edge.

Each property has a mutant in PROJECT.json: a plausible bug in a mapped definition that
makes the run fail.

## Bounds

| Bound | Stands for | Why it is enough |
|---|---|---|
| `N` 4 or 5 | nodes or vertices | a stale cycle, a tie, a detour and a recycled id need four; two jump rounds that matter and a tree four hops deep need five |
| `MaxBatches`, `MaxCalls`, `MaxUpdates`, `MaxHostBatches` | the life of the program | two calls show what one leaves for the next; the state that survives is small (stamps and epoch; free list and slots; far flags and counters) |
| `MaxOps`, `MaxInserts` | effective ops and insertions of a batch | two ops and an insertion suffice for a pair that loses one shared vertex and gains another, and for two rows that compete for the tail |
| `Limit` 15 or 3, `Field` 32 or 16 | 2^32 - 1; the width left of the vertex id | out of reach in `update` and `near_far`, as on ordinary inputs; hit in `update_budget` and `near_far_heavy` |
| `MaxJumpRounds`, `MaxIterations`, `WorkBudget` | 64 and the options of the caller | out of reach in `update`, all hit in `update_budget` |
| `Room`, `*Spare`, `CsrAlign` | the growth factors of the arrays | so small that rows move, tails fill and arrays are laid out anew within one batch |
| `Capacity` 20, `Alignment` 4, `MaxKey`, `MaxBatch` | the payload of a CBST | five slots of four cells: a chain of three segments, one compaction that helps and one that does not |
| `MaxNodes` 7, `MaxItems` 3, `MaxSize` 3 | the tree and one insertion | three levels; three rows make the prefix maximum matter |
| `MaxEdgeId` 5 | the capacity of the edge CBST | two ids more than the loaded edges: reuse and full trees within four calls |
| `MaxWeight`, `Weights`, `Deltas` | weights and bucket widths | detours cheaper than direct ways; buckets that hold several vertices and buckets that hold none |
| `K` 3 | objectives | agreement of all, of two and of none |

`stamp`, `epoch` and `work` are not bounded in the model; they are finite because
the batches are.

## Fairness

`update_budget` and `near_far` check that calls return, under weak fairness of
the computation as a whole: a launched kernel runs all of its threads to the end
and the host waits for it, so some step happens as long as one is possible. No
fairness is assumed between threads or warps, and none for batches and calls. The
abstract specifications and the other runs state no fairness: their properties are about
what a step may do.

The runs whose specification ends with its last bounded call say `CHECK_DEADLOCK FALSE`; the others
go on forever or have an explicit final step, and check deadlock.

## Findings and remarks

The duplicate test of `insertEdges` (`DynamicGraph.cpp:287`) looks only at the map before
the batch. Two equal edges in one batch pass it and become two records, of which
the map knows the second; the comment above (`DynamicGraph.cpp:280-285`) promises
that such a caller fails loudly. `dynamic_graph_twice` shows it. The only caller outside the
tests, `updateGraphWithESCHER`, removes duplicates first (`UpdateMatches`).

`sospUpdateGpu.cu:553` checks that the longest distance, `(n - 1) * maxWeight`, fits the packed word, but
`:287` and the pull kernel also pack offers, which may be one edge longer. Such an offer loses its
high bits, and the small word that is left wins the `atomicMin`: "every distance is an upper bound" (`:30`)
no longer holds. `near_far_heavy` shows it with a path of heavy edges and an edge back from its
end; in the code it takes 2^17 - 1 vertices and weights of about 2^30, or more vertices and smaller
weights. A check of `n * maxWeight` would do. The other runs and the proofs about the MOSP update are
within that check.

Smaller disagreements met while modelling, none of which has a run:

- `hsospDevice.cu:1053-1055` says that the recompute "converges in <=
  eccentricity(source) rounds". A cheapest path may have more hops than the shortest
  one, and one more round finds that nothing changes. It does no harm, because of the cap of
  at least N + 1 rounds, which `RecomputeConverges` proves is never reached.
- `DynamicGraph.cpp:391` throws on a pair out of range in the middle of a deletion, after
  earlier pairs have been dropped from the edge index; the host's arrays and the CBSTs are then no
  longer in the lock-step of `DynamicGraph.hpp:58-59`.
- `operations.cu:712`: an insertion that throws leaves counts that still lead to slots just
  reused. The walk then finds nothing at such a slot, which `TreeSound` shows to be harmless;
  `integrity.hpp:36-38` would call the counts wrong.
- `operations.cu:436`: `fill` counts each appended piece with its padding, so that it may
  throw although "the compacted rows ... plus the new values" would fit, the only reason that
  `structure.hpp:81-83` gives. `FillThrowsOnlyWhenNearlyFull` states the condition that does hold.

## Proofs

Eight modules hold theorems or lemmas, for every value of the constants; all are proved by
`tlapm` from the definitions and the named assumptions.

| Theorem | Module | Says |
|---|---|---|
| `CanonicalTreesAreShortest` | `HsospUpdateProofs` | the local certificate admits one tree: cheapest walks, smallest parents |
| `RecomputeTypeCorrect`, `NoNodeForgotten`, `RecomputeIsExact` | `HsospUpdateProofs` | types; `IdleNodesSettled`; `RecomputeExact`, the result of a recompute on its own |
| `RecomputeConverges` | `HsospUpdateProofs` | `ConvergesToShortest`: at most N rounds, and the cheapest walks |
| `TypeCorrect`, `UpdateIsExact`, `JumpingIsExact`, `WordsStayJustified`, `ImprovementsStayCovered`, `FrontierListsFit` | `HsospUpdateProofs` | types; `TreeIsCanonical`; `SubtreesMarked`; `NoStaleWord`; `NoLostImprovement`; `FrontierWithoutDuplicates` |
| `UpdateImplementsSosp` | `HsospUpdateProofs` | `ImplementsSosp`: the update implements the abstract component |
| `LoopsEndEarly` | `HsospUpdateProofs` | `RoundsBounded`: r rounds of jumping reach 2^r - 1 generations, and there are at most N pushes |
| `HostTypeCorrect`, `IncidenceStaysConsistent`, `FreeListStaysExact`, `ReservedIdsStayUsable`, `NetChangeIsExact` | `HsospBatchProofs` | types, and the four invariants of the run `host` |
| `BatchImplementsContract` | `HsospBatchProofs` | `ImplementsBatches`: the delta is the exact net change of the line graph, for every batch and every order of the warps |
| `MirrorStaysExact`, `LineGraphStaysExact`, `CountsStayExact`, `DeviceStaysExact` | `HsospBatchProofs` | the mirror is the host's incidence, the CSR the line graph, the counts the numbers of entries and pairs; `DeviceExact` |
| `ArraysStaySound`, `TreesStayInAgreement` | `HsospBatchProofs` | `ArraysSound`: slots never overlap; `TreesAgree`: the ESCHER trees hold the host's rows |
| `SequentialTypeCorrect`, `NoCycleIsStale`, `SweepsAlwaysSuffice` | `SequentialUpdateProofs` | types; `NoStaleCycle`; `SweepsSuffice` |
| `SequentialImplementsService` | `SequentialUpdateProofs` | `ImplementsService`: every answer is the canonical tree of the changed graph |
| `JumpTypeCorrect`, `RacingJumpsAreSound` | `NearFarUpdateProofs` | the pointer jumping on its own: types; `JumpsSound` |
| `NearFarTypeCorrect`, `JumpsStaySound`, `ListsAlwaysFit`, `WordsStaySound` | `NearFarUpdateProofs` | if `OffersFit`: types; `JumpsSound`, `ListsFit` and `WordsSound` in any sequence of calls |
| `NearFarImplementsService` | `NearFarUpdateProofs` | if `OffersFit`: `ImplementsService`, from scratch and for every batch, bucket width and order of threads |
| `MospTypeCorrect` | `CombinedGraphProofs` | types of the stages of the MOSP program |
| `DijkstraStaysExact` | `CombinedGraphProofs` | `DijkstraExact`: no vertex is expanded before its distance is final, and the end is the canonical tree |
| `ResultSpansGraph` | `CombinedGraphProofs` | `SpansUpdatedGraph`: the combined tree reaches what the changed graph reaches, over its edges |
| `AgreedPathsStay` | `CombinedGraphProofs` | `AgreedPathKept`: a path on which all objectives agree is in the combined tree, at one per edge |
| `DynamicTypeCorrect`, `TreesInLockStep` | `DynamicGraphProofs` | types; `LockStep` |
| `NoRecordLost` | `DynamicGraphProofs` | the part of `HostSound` that needs no hypothesis: records, shadows and map agree after any call and any throw |
| `HostStaysSound` | `DynamicGraphProofs` | if `NoEdgeTwice`: `HostSound`, which `dynamic_graph_twice` violates without it |
| `UpdateIsLegacy` | `DynamicGraphProofs` | `UpdateMatches`: the updater over ESCHER writes the CSR that the map-based one writes, for all files |
| `ReuseTypeCorrect`, `SlotsStaySound` | `CbstProofs` | types; `SlotsSound`: counts, walks and ranks of the ESCHER tree, for every number of nodes and order of threads |
| `ReuseStaysBestFit` | `CbstProofs` | `ReuseIsBestFit`: the parallel matching cuts no row off and places as many as can be placed |
| `StaleCountsLead` | `CbstProofs` | counts left over by an insert that threw still lead to every slot once, for every tree (the condition `SlotsReachable` of `TreeSound`) |
| `UpperBoundsWhenOffersFit` | `NearFarUpdateProofs` | if `OffersFit`: `DistancesAreUpperBounds`, which `near_far_heavy` violates without it |

**Recompute: the certificate.** `RecomputeExact` is not inductive, and neither is
`IdleNodesSettled`: when a warp ends, it must have computed the right word although its
neighbours changed under it. The inductive invariant `Pulling` adds `ReadsStillGood`: a
running warp's partial result is the least word over the neighbours it has read, *at their
current distances*, unless the node is already a candidate again. A neighbour
that changes after it was read makes the node a candidate (`UnchangedNeighbours`),
so the exception is exactly the case in which a later round repairs the result.

**Shortest paths.** The first part of `HsospUpdateProofs` connects the certificate with Bellman's recursion.
Distances that no neighbour's offer improves (`Respected`) are at most the cost of any walk, by
induction on its hops. Distances that are each explained by a neighbour's are at least the
cost of some walk: a node hangs from one that is nearer, so the number of nearer nodes bounds
the hops. The virtual target weighs nothing, so "nearer" has to break ties: the target comes
after the other nodes at its distance, and nothing hangs from it at its own distance.
`CheapestWalks` is a recursive function; that it exists and unfolds is proved
(`IterationsExist`, `WalksUnfold`), and the inductions run over sets of numbers
(`NatSetInduction`), because an induction theorem with an operator parameter cannot be
instantiated by the provers at hand.

**Recompute: convergence.** The chaotic rounds are squeezed
between two bounds. No distance and no partial result falls below the shortest one
(`NotBelowShortest`). After r rounds none is above the cheapest walk of r hops (`NotAboveHops`): a
warp of round r reads neighbours that are at most their bound for r - 1 hops, before or after they were
lowered in this round, and a node without a warp already hangs from such a neighbour. From r = N - 1
on both bounds are the shortest distance, so round N changes nothing, the loop ends converged, and
the cap of at least N + 1 is never met.

**Update.** The theorems of `HsospUpdateProofs` hold for every N, every set of line graphs, every
sequence of batches and every value of `Limit`, `MaxJumpRounds`, `MaxIterations` and
`WorkBudget`. The first six follow from one inductive invariant, `UInv`, which has a part for each phase:

1. *Batch.* From the canonical tree of the old graph and the contract of
   `ApplyBatch`, `TreeBeforeBatch`: a node that is not a root still hangs from its
   old parent at the same weights, and only an inserted pair can improve it. This is
   where the roots must contain every created id, recycled ones included.
2. *Jumping* (`Jumping`). Three parts are needed to make it inductive: a marked node
   descends from a root; an *unmarked* node comes with a set without roots, the path
   from it up to its pointer; and pointers point to ancestors. When all pointers have
   run out the path sets are closed under parents, so the marks are exactly the
   subtrees of the roots, hence closed under children (`Marked`).
3. *Invalidation.* With `TreeBeforeBatch` and `Marked`: every remaining word is
   justified by a remaining word, and whatever could still improve is a pull of an
   invalidated node or an inserted pair.
4. *Relaxation* (`Words`). Words only decrease (`RelaxFacts`), so a justified word stays
   justified while the word of its parent falls under it (`RelaxKeepsJustified`);
   the words on their way, in a warp or a lane, are justified too. A relaxed node is
   on the next list, because the stamps say exactly who is on it (`ListsOK`), and for
   every other node the offers are the old ones (`RelaxKeepsImproving`).
5. *End.* The next list is empty, so nothing improves; with the words justified, every
   node hangs from its best neighbour (`UnpackIsExact`).

The fallback re-enters `Pulling` of the recompute's proof. `NoLostImprovement` is stated
so that it is strong enough for the proof: an unreached neighbour counts as improvable
even by an offer that does not fit (then `overflow` is raised and the update
falls back), and a pull that has read an offer must hold a word as good.

**Refinement.** `UpdateImplementsSosp` joins the three. Its invariant `UConv` is `UInv`, with the loop
converged and, during a recompute, the bounds of the convergence proof. A call returns a tree that
is canonical, hence by `CanonicalTreesAreShortest` the exact tree of `Sosp`, whose only visible steps are
a batch, which takes the answer back, and a return. The step that empties the rows of
dead ids is invisible because those rows are empty already. `Sosp`
states what may happen, not that it does; that calls return (`EveryCallReturns`) stays with TLC.

**Rounds.** `LoopsEndEarly` states `RoundsBounded` for every N and every cap. Its invariant `RInv` adds two
counts to `UConv`:

- *Jumping* (`Generations`). After r rounds an unmarked node has no root among its nearest 2^r - 1
  ancestors, and its pointer is the 2^r-th ancestor or, when it has run out, all ancestors have been
  passed. A tree on N nodes has no N-th ancestor, so the pointers have run out when 2^r
  reaches N. `Ancestor` is a recursive function whose unfolding is proved by set induction; the provers know
  nothing of `^`, so powers of two are the numbers of subsets of 1..r.
- *Relaxation* (`PushesCounted`). A node is done when its word is final and it is not on the next
  frontier. At least as many nodes are done as pushes were launched: at a launch the first node in search order
  that is not done hangs from a done node, so its word is already final and it is on the frontier that is
  about to be pushed. A final word is the shortest distance and no word falls below it, so a done node
  is never enqueued again. `WorkBudget` plays no part: it can only end the loop sooner.

**Host.** The inductive invariant `HInv` is the conjunction of the four properties and the
types with `IdsBelowMax`: live and free ids lie below `maxId`, which keeps the fresh ids of
`reserveIds` apart from both. Two lemmas carry the free list (`PushKeepsFreeList`, and
`RemovalKeepsFreeList` with its cases: the removed id is the last of the list or not), and
one lemma (`NetKept`) serves all four kinds of ops: if the signs an op emits are the change of
the row it touches, the record still tells the net change.

**Batch.** `HsospBatchProofs` proves the contract that `HsospUpdate` assumes. Its invariant `BInv`
keeps, phase by phase, how far the device lags behind the host. While the ops run, the device still
holds the state before the batch, and the record of net signs (`NetChangeIsExact`) tells the
difference. Then no pair is missed: a pair of hyperedges that gains or loses a shared vertex shares it
before or after, so it is found in one of the two passes around the change of the vertex rows.
The overlaps before and after make the derived delta the exact difference of the two line graphs,
weights included. Each warp turns one old CSR row into the new one or
asks for the rebuild, in any order, and both ways end with the rows of the new line graph. The contract's step is
`FinishBatch`, every other step is invisible. That the counts are right is a
bijection between entries and ordered pairs.

**Storage.** The second half of `HsospBatchProofs` adds where the rows lie and what the trees hold. Slots that one
`Grown` gives out start at the sum of the smaller ones past the tail, so they are disjoint from each other and
from all older ones (`ArraysSound`). During a batch the trees differ from the host by exactly the ops not
yet played, deletions before insertions (`TreesLackOps`); `FinishBatch` plays them, and changes the h2h
rows by the delta under the keys of the survivors and of the new hyperedges, where the
keys stay distinct (`TreesAgree`).

**Sequential update.** `WeightedDigraphProofs` repeats the argument about shortest paths for directed
graphs with positive weights: distances that no edge improves and that are each supported by a parent
are the shortest (`CertifiedDistances`), and with the least parents the tree is the canonical one
(`CertifiedTree`). The inductive invariant `SInv` of the sequential update says that every finite distance is supported
by its parent, that every edge which could improve one has a head that waits to be evaluated, and that after s
sweeps no distance exceeds the cheapest walk of s edges. A batch establishes it: N rounds of invalidation
reach a fixpoint because each adds a vertex, the invalidated set is then closed under children,
and an edge that the batch did not touch weighs no more than before. Supported distances are never below the
shortest, so from sweep N - 1 on both bounds meet, nothing decreases any more, and the cap on the
sweeps is not met. What `WriteOutput` hands over is respected and supported, hence canonical; the batch and the return are the
only steps that `TreeService` sees.

**Pointer jumping.** `PointerJump` is proved for any number of vertices, any forest and any
roots. An ancestor pointer leads to a proper ancestor, and an unflagged vertex has
*covered* the vertices before it. When a thread moves its pointer from `a` to `a`'s pointer, what `a`
covers is added and the two sets are disjoint, so their sizes add up: both are at least
half the distance of the launch whether `a`'s thread has run or not, so the covered distance
doubles in every order. When it reaches N no pointer is left, for what is covered is a proper
subset of the vertices. `JumpsStaySound` says the same of the jumping within `NearFarUpdate`: every call
starts it from the parents of a canonical tree, which are nearer to the source and therefore a
forest (`NearerIsForest`), and from flags that the call before has cleared.

**Near-far update.** The theorems about `NearFarUpdate` have one hypothesis, `OffersFit`: n times the
heaviest weight is below the field of the distances. The code checks (n - 1) times the heaviest weight, which is not
enough (see the finding); `near_far` runs with the one, `near_far_heavy` with the other. The inductive invariant
`NearFarInv` has these parts:

1. *Between call and invalidation* (`TreeOfBefore`). The words are those of the old canonical tree. Above a
   vertex that is not a root the edge of the tree is still there and no heavier, and an edge that could improve its head is
   new, so that its head is on the list of inserted heads. With the marks (`JumpsStaySound`)
   the invalidated vertices are closed under children, hence what is left is explained, and
   whatever could improve has a head on the first list.
2. *Words* (`Sound`). The source has distance 0, every other finite word is at least the offer of its
   parent, and no distance exceeds the heaviest weight times the number of vertices that are nearer. The last
   part bounds every offer, so that it fits the field (`CopyFits`, `OfferFacts`). It is
   not the length of a path that bounds the words: during the relaxation a vertex may hang from one that has improved since.
   The number of nearer vertices can only grow while words fall.
3. *Copies* (`CopiesAgree`). A pull thread sees old words of its neighbours, a push thread has loaded one: whatever they hold is
   at least the present word and obeys the same bound, so that writing an offer made of it keeps
   the words sound (`Lowered`); and a neighbour that a pull thread may see as it was has been listed for
   the push if it has come nearer since.
4. *Lists* (`ListsAgree`). Every list holds a vertex at most once, the stamps of the launch are the members of the list
   that it appends to, the far flags those of the pile, and the counters are the lengths;
   the counter that the next launch appends with is zero.
5. *Nothing forgotten*. An edge that could improve its head is ahead of a thread: the head waits for its pull, or the tail is on a list, or on the
   far pile at a distance not below the threshold, or a push thread with the tail's distance has the edge to do.
   A thread that lowers a word can make only edges out of that vertex improving (`NewlyImproving`), and lists it.

When the host unpacks, nothing is ahead of a thread, so no edge improves; with the words sound the tree
is respected and supported, hence canonical (`SettledIsCanonical`). `BelowThresholdSettled` follows by Dijkstra's
argument: of the vertices below the threshold without their distance take a nearest; its parent on
a shortest path has its distance, and the edge from there improves without being ahead of a thread.
For the refinement, a computation from scratch is a call with no changes.

**Dijkstra and the combined graph.** `CombinedGraphProofs` has two layers. `RunInv` is the invariant of one
run of Dijkstra: every vertex that has a distance is expanded or in the queue at its *present* distance; an
expanded vertex has its final distance, which is no larger than any in the queue, and its edges improve nothing
(`ExpandedFinal`); and every vertex hangs from the lowest expanded vertex that explains its distance
(`HangsFromExpanded`). The entries that the code skips are the outdated ones; a vertex is listed anew
whenever it is lowered, so they are never the only ones. That the head of the queue is final is the usual argument:
on a shortest path to it, the first vertex that is not expanded is in the queue at its final distance, and
weights are positive. When the queue is empty nothing improves and `CertifiedTree` applies. `MInv` follows
the stages of the main program: the objectives that had their turn have the canonical tree of
the changed graph. The combined run then works on `TreeGraph`, the edges that some tree has, each at K + 1 less the number of trees
that have it. Its edges are edges of the changed graph, and each tree lies in it, so it reaches the same
vertices (`TreeGraphSpans`). Where all trees have the same parent, only one edge enters, at the weight 1; a
path of such vertices is the only way to its end.

**DynamicGraph.** The inductive invariant `DynamicInv` has four parts. `HostInv`: the shadows are
the ids by their ends, and the map leads from an edge to an id with those ends. `RecordsKept`: every id of the host has
its record in the edge CBST, under that id. `TreesOK` and `LockStep`: the rows of the other two CBSTs hold the ids of
the shadows, each once, unless a call has thrown. `HostInv` and `RecordsKept` survive every throw: an insertion writes the
edge CBST first and the host only when all of it has returned, a deletion drops the host's ids first; so
the host may know less than the CBST, never more. That ids which the insertion returned are not in use by the host follows from
`RecordsKept` and the contract of `RowCalls`, which returns keys that hold no row. The map leads to *every* edge
(`Complete`) only if no batch names an edge twice: the hypothesis `NoEdgeTwice` of `HostStaysSound`, about the constant
`InsertBatches`, is what the instance of `dynamic_graph_twice` violates.

**The updater.** `UpdateIsLegacy` needs no such hypothesis, because `updateGraphWithESCHER` removes duplicates itself.
`StagesOK` says at each of its stages which graph the host holds (`HostGraph`): the one that was read, the one without the
edges of the deletion file, the one without the edges about to be replaced, the one with the last insertion of
every edge. The last is the graph of the map-based updater, which processes the same insertions one by one, and a later
one overwrites an earlier one. A snapshot of a host that satisfies `HostInv` and `Complete` is the CSR of
`HostGraph`, in which sorting by head and sorting by edge agree (the lemmas about `SortedBy`).

**The ESCHER tree.** `CbstProofs` is about `SlotTree` and `SlotReuse`. The walks of `CbstLayout` and the binary search of
`BestFit` are recursive functions that end because a measure falls (the nodes below, the length of the interval);
`TailRecursion` proves once that a function with such a recursion exists, and each walk unfolds by it.

- *Layout.* `Under(p, q)` says that q lies in the subtree of p. The rank that a node would have in a full tree orders the
  positions from left to right (`FullOrder`); `Rank` is that number less the places missing on the last
  level (`RankOfFull`), so it keeps the order, is below the number of nodes (`RankFacts`) and differs from node to node (`RanksDiffer`).
  What lies under a left child is ranked lower, under a right child higher; hence
  the walk by key never leaves the subtree that holds the key (`WalkByKey`).
- *Counts.* The sum of a node is the number of marked nodes under it (`SumsCount`). The walk by counts keeps the
  number of marked nodes passed on the left, so it ends at the k-th (`WalkByCount`). Where the counts are only
  upper bounds, because an insert threw before they were made anew, the walks still find all
  marked nodes, each by one of them (`WalksLead`).
- *Launches.* `SlotInv` adds to the types that a launch covers one level (`LaunchesOK`: it starts at 2^h - 1 and
  ends no later than at 2 (2^h - 1)), so the children a thread reads lie below the launch, and `CountedBelow` says they are
  right. After the launch of the root all counts are.
- *Matching.* `LowerBoundFacts`: the search ends at the first slot that is large enough. With the prefix maximum
  (`AssignedFacts`) the rows in order of size get ascending slots, each large enough, and the slot of row i is the
  first fit of some row j <= i moved up by i - j. So if row t is the first without a slot, the rows j to z, with j that row, fit only the last
  c + 1 - lo slots, and lo - j > c - t: rows smaller than row j number j - 1, and of the others at most c + 1 - lo
  can be placed at once (`InjectionBounds`), fewer than t together. So no placement has more than t - 1 rows (`MatchingIsBest`).

**Assumptions** are those of the modules: there are at least two nodes, source and
target are distinct nodes, `Inf` is not a number, the given graphs are line graphs
(symmetric, positive weights but for the virtual target), and the limits are natural numbers
(`Limit` and `MaxJumpRounds` positive); for the device arrays, the spare constants are natural numbers and
`CsrAlign` is positive; for the host, the loaded hypergraphs have nonempty rows and
contain both virtual hyperedges, and weights are positive; for MOSP, there is at least one vertex,
the source is one, the given graphs have weights from 1 to `MaxWeight`, the batches insert such edges,
`Field` is at least 2 and the bucket widths are positive; for ESCHER, there is at least one node
and the capacities of slots are natural numbers; for the dynamic graph and the combined graph, the files and
batches are sequences of pairs of integers and of insertions with weights from 1 to `MaxWeight` (pairs out
of range included for the dynamic graph), and there is at least one objective and at most `MaxWeight`, so that
the weights of the combined graph are weights. TLC evaluates them in the runs. The inductive invariants were
checked with TLC before they were proved.

## What is only model-checked

- Liveness: `EveryCallReturns`, of the update on line graphs and of the MOSP update.
- `RowStore`: the payload array of a CBST (`PayloadSound`, `TreeSound`, `FillThrowsOnlyWhenNearlyFull`) and that it
  implements `KeyedRows` (`KeepsContract`). It is written with `SelectSeq` and `SortSeq` of the standard modules, of
  which `tlapm` has no definition. What it takes from `CbstLayout` and `BestFit` is proved: the walks by key and by
  count, the latter also with stale counts, the sums and the matching.

## Not modelled

- `emulateSospUpdate` and `emulateSospRecompute` in `HostHypergraph.cpp`, the host twins of the
  device update that only the tests use.
- In `HsospBatch`: the growth of scratch arrays; the limits of 2^31 candidates and
  keys; the check of the node capacity after `beginBatch`, which cannot fail because the
  device gets the capacity of the hypergraph; invalid insertions (no vertices, a bad
  weight), which `beginBatch` refuses before it changes anything; and errors
  thrown by ESCHER in the middle of `finishBatch`. After a throw the model stops.
- In `HostIncidence`: the `invalid_argument` throws in the middle of phase 4, an id below 1 or an
  insertion without vertices or with one out of range. They leave the incidence, the free list
  and the record as `IdCollision` does; at most the id range has grown by blank rows.
- In `RowStore`: the choice between the thread, warp and block variants of a kernel, which have one
  result; `flattenAndBin` and the other pure functions in front of the calls.
- In `NearFarUpdate`: the growth of the workspace and the statistics.
- In MOSP: the files between the stages. `parallelSOSPUpdate.cu` is file handling around the GPU
  update.
- Random generators, file formats, timing, printing, memory allocation, CUDA errors, benchmarks
  and test drivers: no protocol to check.

The last update of `CombinedGraph` is an answer of `TreeService`, proved for positive weights,
while its temporary graph holds one self-loop of weight 0. That loop is at the source, which
every loop of the update skips (`parallelCombinedGraph.cu:196`), so the answer is the same without it.

CUDA's weak memory is modelled by what the code relies on: plain reads return a value the
location held during the launch, and atomics on one word are ordered.

## What could follow

1. `OffersFit` for the edges of a call instead of for the constant `MaxWeight`.
2. `RowStore` with a selection and a sort of its own, so that `TreeSound` and `PayloadSound` can be proved.
