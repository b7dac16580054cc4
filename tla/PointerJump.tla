---------------------------- MODULE PointerJump ----------------------------
(***************************************************************************)
(* Marking the subtrees of some roots by pointer jumping, in place         *)
(* (pointerJumpKernel in mosp/src/sospUpdateGpu.cu).  One launch per       *)
(* round; the threads of a launch run in any order and read what the       *)
(* threads before them have written.  A thread reads only its own cells    *)
(* and its ancestor's, and an ancestor's thread writes once per launch, so *)
(* a thread that is cut in two by it has the result of one that ran        *)
(* before it or of one that ran after it.                                  *)
(***************************************************************************)
EXTENDS WeightedDigraph

VARIABLES
  parent,   \* d_parent
  roots,    \* the vertices that markRootsKernel flags
  flag,     \* the vertices whose flag is 1
  ancestor, \* ancestor
  reach,    \* 1 << r after r launches
  todo      \* the threads of the launch that have not run

jumpVars == <<roots, flag, ancestor, reach, todo>>

\* The threads of a launch that have something to do.
Jumping == {v \in Node : ancestor[v] \in Node /\ v \notin flag}

\* Fault: the pointer moves before the flag behind it is looked at.
JumpThreadAhead(v) ==
  /\ v \in todo
  /\ todo' = todo \ {v}
  /\ ancestor' = [ancestor EXCEPT ![v] = ancestor[ancestor[v]]]
  /\ flag' = IF ancestor'[v] \in flag THEN flag \cup {v} ELSE flag
  /\ UNCHANGED <<roots, reach>>

\* Fault: the thread follows one parent instead of the ancestor's pointer.
JumpThreadByParent(v) ==
  /\ v \in todo
  /\ todo' = todo \ {v}
  /\ IF ancestor[v] \in flag
     THEN flag' = flag \cup {v} /\ UNCHANGED ancestor
     ELSE ancestor' = [ancestor EXCEPT ![v] = parent[ancestor[v]]] /\ UNCHANGED flag
  /\ UNCHANGED <<roots, reach>>

JumpThread(v) ==
  /\ v \in todo
  /\ todo' = todo \ {v}
  /\ IF ancestor[v] \in flag
     THEN flag' = flag \cup {v} /\ UNCHANGED ancestor
     ELSE ancestor' = [ancestor EXCEPT ![v] = ancestor[ancestor[v]]] /\ UNCHANGED flag
  /\ UNCHANGED <<roots, reach>>

\* Fault: a launch is counted twice.
NextJumpRoundTwice ==
  /\ todo = {} /\ reach < N
  /\ reach' = 4 * reach
  /\ todo' = Jumping
  /\ UNCHANGED <<roots, flag, ancestor>>

\* One of the ceil(log2 n) launches.
NextJumpRound ==
  /\ todo = {} /\ reach < N
  /\ reach' = 2 * reach
  /\ todo' = Jumping
  /\ UNCHANGED <<roots, flag, ancestor>>

JumpsDone == todo = {} /\ reach >= N

-----------------------------------------------------------------------------
\* v and its ancestors: what every set contains that contains v and is
\* closed under taking parents.
ClosedUp(S) == \A x \in S : parent[x] \in Node => parent[x] \in S

Above(v) == {u \in Node : \A S \in SUBSET Node : v \in S /\ ClosedUp(S) => u \in S}

IsForest == \A v \in Node : parent[v] \in Node => v \notin Above(parent[v])

(***************************************************************************)
(* The kernel on its own, on every forest with any roots marked.           *)
(***************************************************************************)
JumpInit ==
  /\ parent \in [Node -> Node \cup {NoParent}] /\ IsForest
  /\ roots \in SUBSET Node
  /\ flag = roots /\ ancestor = parent /\ reach = 1 /\ todo = {}

JumpNext ==
  /\ (\E v \in Node : JumpThread(v)) \/ NextJumpRound
  /\ UNCHANGED parent

JumpSpec == JumpInit /\ [][JumpNext]_<<parent, jumpVars>>

-----------------------------------------------------------------------------
JumpTypeOK ==
  /\ parent \in [Node -> Node \cup {NoParent}]
  /\ ancestor \in [Node -> Node \cup {NoParent}]
  /\ roots \subseteq flag /\ flag \subseteq Node
  /\ todo \subseteq Jumping
  /\ reach \in Nat \ {0}

\* What lies between v and its ancestor pointer, v included.
Covered(v) == IF ancestor[v] \in Node THEN Above(v) \ Above(ancestor[v]) ELSE Above(v)

\* The invariant of the comment on the kernel, at every moment of a launch:
\* a flag means that there is a root among the vertex and its ancestors, no
\* flag that there is none before the ancestor pointer.
FlagsJustified ==
  \A v \in Node :
    /\ v \in flag => Above(v) \cap roots # {}
    /\ v \notin flag => Covered(v) \cap roots = {}

\* Every launch at least doubles the covered distance, in whatever order its
\* threads run: the races are benign, and ceil(log2 n) launches suffice.
JumpsDouble ==
  \A v \in Node :
    v \notin flag /\ ancestor[v] \in Node =>
      IF v \in todo THEN 2 * Cardinality(Covered(v)) >= reach ELSE Cardinality(Covered(v)) >= reach

\* After the last launch exactly the subtrees of the roots are marked.
MarkedExactly == JumpsDone => flag = {v \in Node : Above(v) \cap roots # {}}

\* The races of the launches are benign.
JumpsSound == FlagsJustified /\ JumpsDouble /\ MarkedExactly
=============================================================================
