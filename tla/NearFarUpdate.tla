--------------------------- MODULE NearFarUpdate ---------------------------
(***************************************************************************)
(* The shortest-path tree update of MOSP on the device                     *)
(* (mosp/src/sospUpdateGpu.cu, called from parallelSOSPUpdate.cu): roots,  *)
(* subtree invalidation, one pull pass, then pushing from a near list      *)
(* below a threshold and a far pile above it.                              *)
(*                                                                         *)
(* Kernels run one after the other (one stream).  A push thread loads its  *)
(* word once and then treats its out-edges one by one; a pull thread may   *)
(* see any of its in-neighbours as they were before the launch or as they  *)
(* are.  In every other kernel the threads touch different vertices, so    *)
(* that the kernel is one step, together with the host code around it.     *)
(* Reading a head's word before the atomicMin only saves the atomicMin: a  *)
(* word that is out of date is larger.                                     *)
(***************************************************************************)
EXTENDS PointerJump, FiniteSetsExt

CONSTANTS
  Field,          \* a packed word holds the distances below Field
  Deltas,         \* the bucket widths
  MaxCalls,       \* bound: calls per behaviour
  InitialGraphs, DeleteSets, InsertLists \* as in TreeService

ASSUME FieldAssumption == Field \in Nat \ {0, 1}
ASSUME DeltasAssumption == Deltas \subseteq Nat \ {0}
ASSUME BatchAssumption ==
  /\ \A graph \in InitialGraphs : IsDigraph(graph)
  /\ DeleteSets \subseteq SUBSET (Node \X Node)
  /\ InsertLists \subseteq Seq([edge : Node \X Node, weight : 1 .. MaxWeight])

VARIABLES
  graph,     \* the CSR arrays of the call, both directions
  dist,      \* d_distances; d_parent is parent
  word,      \* packed
  insertHeads, \* changes.insertHeads
  phase,     \* where the host is
  before,    \* the words when the pull kernel was launched
  waiting,   \* the list of the launch: how often each vertex is still to be run
  heads,     \* push threads that are running: the out-neighbours left
  loaded,    \* ... and the word they loaded
  out,       \* the list that the launch appends to
  far, inFar, \* the far pile and its flags
  claimed,   \* the vertices stamped with the generation of the launch
  count,     \* counters
  outSlot,   \* the counter that the push kernel appends with
  threshold, delta,
  calls      \* calls so far (bounded by MaxCalls)

farVars == <<far, inFar, threshold, delta>>
pushVars == <<heads, loaded, claimed, count, outSlot, out, farVars>>
nearFarVars ==
  <<parent, jumpVars, graph, dist, word, insertHeads, phase, before, waiting, pushVars, calls>>

-----------------------------------------------------------------------------
(***************************************************************************)
(* Packed words: (distance << parentBits) | parent.  The shift drops the   *)
(* high bits of a distance that does not fit.                              *)
(***************************************************************************)
ParentField(p) == IF p = NoParent THEN N ELSE p

Pack(d, p) == (d % Field) * (N + 1) + ParentField(p)

PackedInf == Field * (N + 1) - 1

DistanceOf(x) == x \div (N + 1)

\* Fault: the "no parent" value is taken for an id.
ParentFieldOf(x) == x % (N + 1)

ParentOf(x) == IF x % (N + 1) = N THEN NoParent ELSE x % (N + 1)

PackedTree == [v \in Node |-> IF dist[v] = Inf THEN PackedInf ELSE Pack(dist[v], parent[v])]

\* maxWeight: over the edges before and after the changes.
HeaviestEdge(g, h) == Max({1} \cup {g[e] : e \in DOMAIN g} \cup {h[e] : e \in DOMAIN h})

\* Otherwise the call is refused before anything is changed.
BoundFits(g, h) == HeaviestEdge(g, h) * (N - 1) <= Field - 2

(***************************************************************************)
(* A list on the device, as the number of times each vertex is on it.      *)
(***************************************************************************)
AsList(S) == [v \in Node |-> IF v \in S THEN 1 ELSE 0]

On(list) == {v \in Node : list[v] > 0}

Nothing == AsList({})

Entries(list) == UNION {{v} \X (1 .. list[v]) : v \in Node}

Size(list) == Cardinality(Entries(list))

\* A call starts with clean lists.
Quiet == [v \in Node |-> {}]

-----------------------------------------------------------------------------
NearFarInit ==
  /\ graph \in InitialGraphs
  /\ dist = CanonicalTree(graph).dist /\ parent = CanonicalTree(graph).parent
  /\ word = [v \in Node |-> PackedInf] /\ before = word
  /\ roots = {} /\ flag = {} /\ ancestor = parent /\ reach = 1 /\ todo = {}
  /\ insertHeads = {} /\ phase = "idle" /\ calls = 0
  /\ waiting = Nothing /\ heads = Quiet /\ loaded = Nothing /\ out = Nothing
  /\ far = Nothing /\ inFar = {} /\ claimed = {}
  /\ count = [A |-> 0, B |-> 0, far |-> 0] /\ outSlot = "A" /\ threshold = 0 /\ delta = 1

\* packKernel, markRootsKernel, initAncestorsKernel; the changed edges are the
\* deleted ones and those with a raised weight.  Without any nothing jumps.
Update(deletes, inserts, d) ==
  LET changed == deletes \cup Increases(graph, deletes, inserts)
      marked == {e[2] : e \in {x \in changed : parent[x[2]] = x[1]}}
  IN /\ phase = "idle" /\ calls < MaxCalls
     /\ BoundFits(graph, Applied(graph, deletes, inserts))
     /\ calls' = calls + 1 /\ phase' = "jump"
     /\ graph' = Applied(graph, deletes, inserts)
     /\ word' = PackedTree
     /\ roots' = marked /\ flag' = marked
     /\ ancestor' = IF changed = {} THEN [v \in Node |-> NoParent] ELSE parent
     /\ reach' = IF changed = {} THEN N ELSE 1
     /\ insertHeads' = Heads(inserts)
     /\ delta' = d
     /\ UNCHANGED <<parent, todo, dist, before, waiting, heads, loaded, claimed, count, outSlot, out,
                    far, inFar, threshold>>

Jump ==
  /\ phase = "jump"
  /\ (\E v \in Node : JumpThread(v)) \/ NextJumpRound
  /\ UNCHANGED <<parent, graph, dist, word, insertHeads, phase, before, waiting, pushVars, calls>>

\* Fault: the heads of inserted edges are claimed with a new generation.
CandidatesTwice == [v \in Node |-> AsList(flag)[v] + AsList(insertHeads \ {Source})[v]]

\* What invalidateKernel and addCandidatesKernel list; they share a generation.
Candidates == AsList(flag \cup (insertHeads \ {Source}))

\* Fault: only the roots lose their words.
InvalidateRoots ==
  /\ phase = "jump" /\ JumpsDone
  /\ phase' = "pull"
  /\ word' = [v \in Node |-> IF v \in roots THEN PackedInf ELSE word[v]]
  /\ flag' = {} /\ roots' = {} /\ ancestor' = parent /\ reach' = 1
  /\ waiting' = Candidates
  /\ before' = word' /\ claimed' = {}
  /\ UNCHANGED <<parent, todo, graph, dist, insertHeads, heads, loaded,
                 count, outSlot, out, farVars, calls>>

\* Fault: the flags stay for the next update.
InvalidateKeepsFlags ==
  /\ phase = "jump" /\ JumpsDone
  /\ phase' = "pull"
  /\ word' = [v \in Node |-> IF v \in flag THEN PackedInf ELSE word[v]]
  /\ flag' = flag /\ roots' = {} /\ ancestor' = parent /\ reach' = 1
  /\ waiting' = Candidates
  /\ before' = word' /\ claimed' = {}
  /\ UNCHANGED <<parent, todo, graph, dist, insertHeads, heads, loaded,
                 count, outSlot, out, farVars, calls>>

\* invalidateKernel, addCandidatesKernel; the scratch of the jumping, which the
\* next call writes before it reads it, is blanked.
Invalidate ==
  /\ phase = "jump" /\ JumpsDone
  /\ phase' = "pull"
  /\ word' = [v \in Node |-> IF v \in flag THEN PackedInf ELSE word[v]]
  /\ flag' = {} /\ roots' = {} /\ ancestor' = parent /\ reach' = 1
  /\ waiting' = Candidates
  /\ before' = word' /\ claimed' = {}
  /\ UNCHANGED <<parent, todo, graph, dist, insertHeads, heads, loaded,
                 count, outSlot, out, farVars, calls>>

\* Fault: a vertex that is reached for the first time is not put on the frontier.
ImprovedOnly(best, old) == DistanceOf(best) < DistanceOf(old) /\ old # PackedInf

\* A smaller distance goes on; a smaller parent alone does not.
Improved(best, old) == DistanceOf(best) < DistanceOf(old)

PullThread(v) ==
  /\ phase = "pull" /\ waiting[v] > 0
  /\ \E stale \in SUBSET {u \in InNeighbours(graph, v) : before[u] # word[u]} :
       LET seen(u) == IF u \in stale THEN before[u] ELSE word[u]
           offers == {Pack(DistanceOf(seen(u)) + graph[<<u, v>>], u) :
                        u \in {x \in InNeighbours(graph, v) : seen(x) # PackedInf}}
           best == LeastOf({word[v]} \cup offers)
           listed == Improved(best, word[v]) /\ v \notin claimed
       IN /\ word' = [word EXCEPT ![v] = best]
          /\ out' = IF listed THEN [out EXCEPT ![v] = @ + 1] ELSE out
          /\ claimed' = IF listed THEN claimed \cup {v} ELSE claimed
  /\ waiting' = [waiting EXCEPT ![v] = @ - 1]
  /\ UNCHANGED <<parent, jumpVars, graph, dist, insertHeads, phase, before, heads, loaded, count,
                 outSlot, farVars, calls>>

PullDone ==
  /\ phase = "pull" /\ waiting = Nothing
  /\ phase' = IF out = Nothing THEN "unpack" ELSE "split"
  /\ UNCHANGED <<parent, jumpVars, graph, dist, word, insertHeads, before, waiting, pushVars, calls>>

\* sospFromScratchGpu: the frontier is the source.
FromScratch(d) ==
  /\ phase = "idle" /\ calls < MaxCalls /\ BoundFits(graph, graph)
  /\ calls' = calls + 1 /\ phase' = "split" /\ delta' = d
  /\ word' = [v \in Node |-> IF v = Source THEN Pack(0, NoParent) ELSE PackedInf]
  /\ out' = AsList({Source})
  /\ UNCHANGED <<parent, jumpVars, graph, dist, insertHeads, before, waiting, heads, loaded, claimed,
                 count, outSlot, far, inFar, threshold>>

-----------------------------------------------------------------------------
LeastDistance(list) == LeastOf({DistanceOf(word[v]) : v \in On(list)})

\* The next launch of pushKernel, on a list of nearCount vertices.  It appends
\* with one of the two near counters and resets the other.
LaunchPush(near, slot) ==
  /\ waiting' = near /\ out' = Nothing /\ claimed' = {}
  /\ outSlot' = slot

\* The first split of the frontier, with the far flags; then the first push.
FirstSplit ==
  LET thr == LeastDistance(out) + delta
      near == {v \in On(out) : DistanceOf(word[v]) < thr}
      rest == On(out) \ near
  IN /\ phase = "split" /\ phase' = "push"
     /\ threshold' = thr
     /\ inFar' = inFar \cup rest
     /\ far' = AsList(rest \ inFar)
     /\ count' = [A |-> 0, B |-> 0, far |-> Size(far')]
     /\ LaunchPush(AsList(near), "B")
     /\ UNCHANGED <<parent, jumpVars, graph, dist, word, insertHeads, before, heads, loaded, delta, calls>>

PushLoad(u) ==
  /\ phase = "push" /\ waiting[u] > 0 /\ heads[u] = {}
  /\ waiting' = [waiting EXCEPT ![u] = @ - 1]
  /\ loaded' = [loaded EXCEPT ![u] = word[u]]
  /\ heads' = [heads EXCEPT ![u] = IF word[u] = PackedInf THEN {} ELSE OutNeighbours(graph, u) \ {Source}]
  /\ UNCHANGED <<parent, jumpVars, graph, dist, word, insertHeads, phase, before, claimed, count, outSlot,
                 out, farVars, calls>>

\* Fault: a vertex that is on the far pile is appended again.
EnqueueFarAgain(w, nd) ==
  IF nd < threshold
  THEN /\ out' = IF w \in claimed THEN out ELSE [out EXCEPT ![w] = @ + 1]
       /\ count' = IF w \in claimed THEN count ELSE [count EXCEPT ![outSlot] = @ + 1]
       /\ claimed' = claimed \cup {w}
       /\ UNCHANGED farVars
  ELSE /\ far' = [far EXCEPT ![w] = @ + 1]
       /\ count' = [count EXCEPT !.far = @ + 1]
       /\ inFar' = inFar \cup {w}
       /\ UNCHANGED <<out, claimed, threshold, delta>>

\* Fault: a vertex on the far pile does not come near before the far pile does.
EnqueueNotFromFar(w, nd) ==
  IF nd < threshold
  THEN /\ out' = IF w \in claimed \cup inFar THEN out ELSE [out EXCEPT ![w] = @ + 1]
       /\ count' = IF w \in claimed \cup inFar THEN count ELSE [count EXCEPT ![outSlot] = @ + 1]
       /\ claimed' = claimed \cup {w}
       /\ UNCHANGED farVars
  ELSE /\ far' = IF w \in inFar THEN far ELSE [far EXCEPT ![w] = @ + 1]
       /\ count' = IF w \in inFar THEN count ELSE [count EXCEPT !.far = @ + 1]
       /\ inFar' = inFar \cup {w}
       /\ UNCHANGED <<out, claimed, threshold, delta>>

\* An improved head joins the next near list or the far pile, each once.
Enqueue(w, nd) ==
  IF nd < threshold
  THEN /\ out' = IF w \in claimed THEN out ELSE [out EXCEPT ![w] = @ + 1]
       /\ count' = IF w \in claimed THEN count ELSE [count EXCEPT ![outSlot] = @ + 1]
       /\ claimed' = claimed \cup {w}
       /\ UNCHANGED farVars
  ELSE /\ far' = IF w \in inFar THEN far ELSE [far EXCEPT ![w] = @ + 1]
       /\ count' = IF w \in inFar THEN count ELSE [count EXCEPT !.far = @ + 1]
       /\ inFar' = inFar \cup {w}
       /\ UNCHANGED <<out, claimed, threshold, delta>>

PushEdge(u, w) ==
  LET nd == DistanceOf(loaded[u]) + graph[<<u, w>>]
      offer == Pack(nd, u)
  IN /\ phase = "push" /\ w \in heads[u]
     /\ heads' = [heads EXCEPT ![u] = @ \ {w}]
     /\ loaded' = IF heads[u] = {w} THEN [loaded EXCEPT ![u] = 0] ELSE loaded
     /\ word' = [word EXCEPT ![w] = IF offer < @ THEN offer ELSE @]
     /\ IF offer < word[w] /\ nd < DistanceOf(word[w])
        THEN Enqueue(w, nd)
        ELSE UNCHANGED <<out, count, claimed, farVars>>
     /\ UNCHANGED <<parent, jumpVars, graph, dist, insertHeads, phase, before, waiting, outSlot, calls>>

PushesDone == phase = "push" /\ waiting = Nothing /\ heads = Quiet

Other(slot) == IF slot = "A" THEN "B" ELSE "A"

NextNear ==
  /\ PushesDone /\ count[outSlot] > 0
  /\ count' = [count EXCEPT ![outSlot] = 0]
  /\ LaunchPush(out, Other(outSlot))
  /\ UNCHANGED <<parent, jumpVars, graph, dist, word, insertHeads, phase, before, heads, loaded,
                 farVars, calls>>

\* Fault: the threshold moves up to the nearest distance, not past it.
NextFarStuck ==
  LET thr == Max({threshold, LeastDistance(far)})
      near == {v \in On(far) : DistanceOf(word[v]) < thr}
  IN /\ PushesDone /\ count[outSlot] = 0 /\ count.far > 0
     /\ threshold' = thr
     /\ inFar' = inFar \ near
     /\ far' = [v \in Node |-> IF v \in near THEN 0 ELSE far[v]]
     /\ count' = [A |-> 0, B |-> 0, far |-> Size(far')]
     /\ LaunchPush(AsList(near), "B")
     /\ UNCHANGED <<parent, jumpVars, graph, dist, word, insertHeads, phase, before, heads, loaded, delta,
                    calls>>

\* The near list is empty: the threshold moves and the far pile is split.
NextFar ==
  LET thr == Max({threshold, LeastDistance(far)}) + delta
      near == {v \in On(far) : DistanceOf(word[v]) < thr}
  IN /\ PushesDone /\ count[outSlot] = 0 /\ count.far > 0
     /\ threshold' = thr
     /\ inFar' = inFar \ near
     /\ far' = [v \in Node |-> IF v \in near THEN 0 ELSE far[v]]
     /\ count' = [A |-> 0, B |-> 0, far |-> Size(far')]
     /\ LaunchPush(AsList(near), "B")
     /\ UNCHANGED <<parent, jumpVars, graph, dist, word, insertHeads, phase, before, heads, loaded, delta,
                    calls>>

\* unpackKernel, and the return.  The scratch that every call writes before it
\* reads it is blanked; the flags are not, the next call relies on them.
Return ==
  /\ phase = "unpack" \/ (PushesDone /\ count[outSlot] = 0 /\ count.far = 0)
  /\ phase' = "idle"
  /\ dist' = [v \in Node |-> IF word[v] = PackedInf THEN Inf ELSE DistanceOf(word[v])]
  /\ parent' = [v \in Node |-> ParentOf(word[v])]
  /\ word' = [v \in Node |-> PackedInf] /\ before' = word' /\ out' = Nothing /\ claimed' = {}
  /\ count' = [A |-> 0, B |-> 0, far |-> 0] /\ outSlot' = "A" /\ threshold' = 0 /\ delta' = 1
  /\ ancestor' = parent' /\ insertHeads' = {}
  /\ UNCHANGED <<todo, flag, roots, reach, graph, waiting, heads, loaded, far, inFar, calls>>

Call ==
  \E d \in Deltas :
    \/ FromScratch(d)
    \/ \E deletes \in DeleteSets : \E inserts \in InsertLists : Update(deletes, inserts, d)

UpdateStep ==
  \/ Jump \/ Invalidate \/ PullDone \/ FirstSplit \/ NextNear \/ NextFar \/ Return
  \/ \E v \in Node : PullThread(v) \/ PushLoad(v) \/ \E w \in heads[v] : PushEdge(v, w)

NearFarNext == Call \/ UpdateStep

\* Once called, the host runs until it returns.
NearFarSpec == NearFarInit /\ [][NearFarNext]_nearFarVars /\ WF_nearFarVars(UpdateStep)

-----------------------------------------------------------------------------
Service ==
  INSTANCE TreeService WITH tree <- [dist |-> dist, parent |-> parent], busy <- phase # "idle"

\* Whatever the batch, the bucket width and the order of the threads, a call
\* returns the canonical tree of the changed graph.
ImplementsService == Service!ServiceSpec

\* Distances only decrease, so the loops end without a cap.
EveryCallReturns == phase # "idle" ~> phase = "idle"

\* The lists have room for each vertex once, the counters that the host copies
\* back are the lengths of the lists, and no far flag outlives its pile: the
\* next call would take it for its own.
ListsFit ==
  /\ \A v \in Node : waiting[v] <= 1 /\ out[v] <= 1 /\ far[v] <= 1
  /\ On(far) = inFar /\ (phase = "idle" => inFar = {})
  /\ phase = "push" => count[outSlot] = Size(out) /\ count.far = Size(far)

\* "every distance is an upper bound": no word promises less than the shortest
\* distance.
DistancesAreUpperBounds ==
  phase \in {"pull", "split", "push", "unpack"} =>
    \A v \in Node : word[v] # PackedInf => DistanceOf(word[v]) >= Distances(graph)[v]

\* From the invalidation on every finite word is an upper bound: its parent
\* explains it, or has improved since.
WordsJustified ==
  phase \in {"pull", "split", "push", "unpack"} =>
    /\ word[Source] = Pack(0, NoParent)
    /\ \A v \in Node \ {Source} :
         word[v] # PackedInf =>
           LET p == ParentOf(word[v]) IN
           /\ p \in InNeighbours(graph, v) /\ word[p] # PackedInf
           /\ DistanceOf(word[v]) >= DistanceOf(word[p]) + graph[<<p, v>>]

\* Whatever could still improve is ahead of a thread: its tail is on a list, or
\* a thread with the tail's distance has the edge still to do.
NoLostImprovement ==
  phase \in {"split", "push", "unpack"} =>
    \A u \in Node : \A v \in OutNeighbours(graph, u) \ {Source} :
      word[u] # PackedInf /\ Pack(DistanceOf(word[u]) + graph[<<u, v>>], u) < word[v] =>
        \/ waiting[u] > 0 \/ out[u] > 0 \/ far[u] > 0
        \/ v \in heads[u] /\ DistanceOf(loaded[u]) = DistanceOf(word[u])

\* When the near list runs empty, every distance below the threshold is final:
\* the pile in front of it need not be looked at again.
BelowThresholdSettled ==
  PushesDone /\ out = Nothing =>
    \A v \in Node :
      Distances(graph)[v] # Inf /\ Distances(graph)[v] < threshold =>
        DistanceOf(word[v]) = Distances(graph)[v]

\* The words are sound at every moment of a call.
WordsSound == WordsJustified /\ NoLostImprovement /\ BelowThresholdSettled
=============================================================================
