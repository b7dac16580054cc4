------------------------------ MODULE RowStore ------------------------------
(***************************************************************************)
(* ESCHER's CBST: rows of values of varying length in one device array     *)
(* (escher/structure/operations.cu and escher/kernel/).                    *)
(*                                                                         *)
(* A row begins in its first segment.  A cell holds a value (> 0), nothing *)
(* (0), the terminator, or a link -p to the segment that begins at p; the  *)
(* last segment of a chain is the tail, where the row grows.  Segments are *)
(* given out at a bump pointer and come back only by compaction; a deleted *)
(* row leaves its first segment as a slot for a row inserted later.        *)
(*                                                                         *)
(* The host issues one call after the other and the kernels of a call run  *)
(* one after the other.  Callers give a row at most once per call, so the  *)
(* threads of a kernel write to different rows, and one call is one step.  *)
(* The thread, warp and block variants of a kernel, chosen by the number   *)
(* of values, have one result and one definition.                          *)
(***************************************************************************)
EXTENDS CbstLayout, BestFit, Sequences, SequencesExt

CONSTANTS
  Capacity,      \* fixedSize: cells of the payload
  Alignment,     \* alignment; 4 in the code
  MaxCalls,      \* bound: calls per behaviour
  MaxKey, InitialTables, FillLists, RemoveSets, NewRows, MaxBatch \* as in KeyedRows

ASSUME CapacityAssumption == Capacity \in Nat \ {0}
ASSUME AlignmentAssumption == Alignment \in Nat \ {0}

VARIABLES
  ctx,   \* CBSTContext
  threw, \* whether the last call threw EscherError
  view,  \* the rows that a reader of ctx sees, by key
  calls  \* calls so far (bounded by MaxCalls)

storeVars == <<ctx, threw, view, calls>>

Places == 0 .. Capacity - 1

End == -Capacity - 1   \* INT_MIN: no link is as small

IsLink(cell) == cell < 0 /\ cell # End

-----------------------------------------------------------------------------
(***************************************************************************)
(* Reading and writing the payload.                                        *)
(***************************************************************************)
Zeros(k) == [i \in 1 .. k |-> 0]

Write(flat, at, cells) ==
  [p \in Places |-> IF p \in at .. at + Len(cells) - 1 THEN cells[p - at + 1] ELSE flat[p]]

\* Where the values of the segment at base end.
EndOf(flat, base) ==
  CHOOSE p \in base .. Capacity :
    /\ p = Capacity \/ flat[p] <= 0
    /\ \A q \in base .. p - 1 : flat[q] > 0

ValuesAt(flat, base) == [i \in 1 .. EndOf(flat, base) - base |-> flat[base + i - 1]]

\* The segments of the row that begins at base.
Segments(flat, base) ==
  LET chain[b \in Places, left \in Places] ==
        LET e == EndOf(flat, b) IN
        IF left > 0 /\ e < Capacity /\ IsLink(flat[e]) THEN <<b>> \o chain[-flat[e], left - 1] ELSE <<b>>
  IN chain[base, Capacity - 1]

\* warpWalkRow, readRow.
RowFrom(flat, base) ==
  LET segments == Segments(flat, base)
  IN FlattenSeq([s \in DOMAIN segments |-> ValuesAt(flat, segments[s])])

-----------------------------------------------------------------------------
(***************************************************************************)
(* The nodes.                                                              *)
(***************************************************************************)
NumRecords(c) == Cardinality(DOMAIN c.nodes)

Keys(c) == [p \in DOMAIN c.nodes |-> c.nodes[p].key]

NodeOf(c, key) == Find(Keys(c), key)

IsLive(c, p) == c.avail[p] = 0

\* The node positions from left to right.
InOrder(c) == [r \in 1 .. NumRecords(c) |-> PositionOfRank(r - 1, NumRecords(c))]

OneSegment(key, base, slots, count) ==
  [key |-> key, value |-> base, length |-> slots,
   occupancy |-> count, tailBase |-> base, tailCapacity |-> slots - 1]

\* buildEmptyBinaryTree with placeNodeRecords or storeItemsIntoNodes: the
\* records, sorted by key, at their places in the tree; none is deleted.
Tree(flat, bump, records) ==
  LET n == Len(records) IN
  [flat |-> flat, bump |-> bump,
   nodes |-> [p \in Positions(n) |-> records[Rank(p, n) + 1]],
   avail |-> [p \in Positions(n) |-> 0],
   sub |-> [p \in Positions(n) |-> 0]]

\* nextMultipleOf4 and paddedRowSize.
Padded(k) == ((k + 4) \div 4) * 4

PaddedOverflow(k) == IF k = 0 THEN 0 ELSE Padded(k)

NextMultiple(k, a) == ((k + a - 1) \div a) * a

\* Where the s-th of some segments begins when they follow one another.
StartOf(slots, base, s) == base + FoldLeft(LAMBDA sum, k : sum + k, 0, SubSeq(slots, 1, s - 1))

Total(slots) == StartOf(slots, 0, Len(slots) + 1)

(***************************************************************************)
(* flatten2DVector and constructCBST: the rows of the keys 1, 2, ..., with *)
(* the true row counts given.                                              *)
(***************************************************************************)
Constructed(table) ==
  LET slots == [k \in DOMAIN table |-> Padded(Len(table[k]))]
      cells(k) == table[k] \o Zeros(slots[k] - Len(table[k]) - 1) \o <<End>>
  IN Tree(Write([p \in Places |-> 0], 0, FlattenSeq([k \in DOMAIN table |-> cells(k)])),
          Total(slots),
          [k \in DOMAIN table |-> OneSegment(k, StartOf(slots, 0, k), slots[k], Len(table[k]))])

-----------------------------------------------------------------------------
(***************************************************************************)
(* compactCBST: every row in one segment, in key order.  A deleted row     *)
(* keeps a slot as long as its first segment.                              *)
(***************************************************************************)
CompactRows(c) ==
  [r \in 1 .. NumRecords(c) |->
     LET p == InOrder(c)[r] IN IF IsLive(c, p) THEN RowFrom(c.flat, c.nodes[p].value) ELSE <<>>]

CompactSlots(c) ==
  [r \in 1 .. NumRecords(c) |->
     LET p == InOrder(c)[r] IN IF IsLive(c, p) THEN Padded(Len(CompactRows(c)[r])) ELSE c.nodes[p].length]

\* Otherwise it throws, before anything is changed.
FitsCompacted(c) == Total(CompactSlots(c)) <= Capacity

\* Fault: the old cells behind the compacted rows stay.
CompactedUncleared(c) ==
  LET compactRows == CompactRows(c)
      slots == CompactSlots(c)
      cells(r) == compactRows[r] \o <<End>> \o Zeros(slots[r] - Len(compactRows[r]) - 1)
      node(p) ==
        LET r == Rank(p, NumRecords(c)) + 1
        IN OneSegment(c.nodes[p].key, StartOf(slots, 0, r), slots[r], Len(compactRows[r]))
  IN [c EXCEPT
        !.flat = Write(@, 0, FlattenSeq([r \in DOMAIN slots |-> cells(r)])),
        !.bump = Total(slots),
        !.nodes = [p \in DOMAIN @ |-> node(p)]]

Compacted(c) ==
  LET compactRows == CompactRows(c)
      slots == CompactSlots(c)
      cells(r) == compactRows[r] \o <<End>> \o Zeros(slots[r] - Len(compactRows[r]) - 1)
      node(p) ==
        LET r == Rank(p, NumRecords(c)) + 1
        IN OneSegment(c.nodes[p].key, StartOf(slots, 0, r), slots[r], Len(compactRows[r]))
  IN [c EXCEPT
        !.flat = Write([p \in Places |-> IF p < c.bump THEN 0 ELSE @[p]],
                       0, FlattenSeq([r \in DOMAIN slots |-> cells(r)])),
        !.bump = Total(slots),
        !.nodes = [p \in DOMAIN @ |-> node(p)]]

-----------------------------------------------------------------------------
(***************************************************************************)
(* fillCBST.  adds maps the keys of the call to the values to append.      *)
(***************************************************************************)
RoomInTail(nd) == IF nd.tailCapacity > nd.occupancy THEN nd.tailCapacity - nd.occupancy ELSE 0

\* insertNode: what fits is written into the tail.
InsertNode(c, key, vals) ==
  LET p == NodeOf(c, key)
      nd == c.nodes[p]
      room == RoomInTail(nd)
      at == nd.tailBase + nd.occupancy
  IN IF p = NoNode THEN c
     ELSE IF Len(vals) <= room
     THEN [c EXCEPT !.flat = Write(@, at, Append(vals, End)), !.nodes[p].occupancy = @ + Len(vals)]
     ELSE [c EXCEPT !.flat = Write(@, at, SubSeq(vals, 1, room)), !.nodes[p].occupancy = nd.tailCapacity]

KeysInOrder(adds) == SetToSortSeq(DOMAIN adds, <)

TailsFilled(c, adds) == FoldLeft(LAMBDA d, key : InsertNode(d, key, adds[key]), c, KeysInOrder(adds))

\* The relocation plan: the values that do not fit, and where the link goes.
Overflow(c, adds) ==
  LET over(key) == NodeOf(c, key) # NoNode /\ Len(adds[key]) > RoomInTail(c.nodes[NodeOf(c, key)])
      plan(key) ==
        LET nd == c.nodes[NodeOf(c, key)]
            room == RoomInTail(nd)
        IN [key |-> key, vals |-> SubSeq(adds[key], room + 1, Len(adds[key])),
            link |-> nd.tailBase + nd.occupancy + room]
      keys == SelectSeq(KeysInOrder(adds), over)
  IN [i \in DOMAIN keys |-> plan(keys[i])]

FitsBehind(c, rests) ==
  c.bump + Total([i \in DOMAIN rests |-> PaddedOverflow(Len(rests[i].vals))]) <= Capacity

\* Fault: the bump pointer moves past the values only.
SegmentAppendedUnpadded(c, rest) ==
  LET padded == PaddedOverflow(Len(rest.vals))
      cells == rest.vals \o Zeros(padded - Len(rest.vals) - 1) \o <<End>>
      p == NodeOf(c, rest.key)
  IN [c EXCEPT !.flat = Write(Write(@, c.bump, cells), rest.link, <<-c.bump>>),
               !.nodes[p] = [@ EXCEPT !.tailBase = c.bump, !.tailCapacity = padded - 1,
                                      !.occupancy = Len(rest.vals)],
               !.bump = @ + Len(rest.vals)]

\* allocateSpace and fixupOverflowMetadata, for one row.
SegmentAppended(c, rest) ==
  LET padded == PaddedOverflow(Len(rest.vals))
      cells == rest.vals \o Zeros(padded - Len(rest.vals) - 1) \o <<End>>
      p == NodeOf(c, rest.key)
  IN [c EXCEPT !.flat = Write(Write(@, c.bump, cells), rest.link, <<-c.bump>>),
               !.nodes[p] = [@ EXCEPT !.tailBase = c.bump, !.tailCapacity = padded - 1,
                                      !.occupancy = Len(rest.vals)],
               !.bump = @ + padded]

SegmentsAppended(c, rests) == FoldLeft(SegmentAppended, c, rests)

\* The second fillImpl, without compaction: the values that did not fit.
Rests(rests) ==
  [key \in {rests[i].key : i \in DOMAIN rests} |->
     LET i == CHOOSE j \in DOMAIN rests : rests[j].key = key IN rests[i].vals]

\* Fault: the retry after a compaction starts from the whole lists.
FillAgain(c, adds) ==
  LET filled == TailsFilled(c, adds)
      rests == Overflow(c, adds)
      compact == Compacted(filled)
      again == [key \in {rests[i].key : i \in DOMAIN rests} |-> adds[key]]
      refilled == TailsFilled(compact, again)
      more == Overflow(compact, again)
  IN IF FitsBehind(filled, rests) THEN [to |-> SegmentsAppended(filled, rests), threw |-> FALSE]
     ELSE IF ~ FitsCompacted(filled) THEN [to |-> filled, threw |-> TRUE]
     ELSE IF FitsBehind(refilled, more) THEN [to |-> SegmentsAppended(refilled, more), threw |-> FALSE]
     ELSE [to |-> refilled, threw |-> TRUE]

\* Fault: no compaction is tried.
FillOnce(c, adds) ==
  LET filled == TailsFilled(c, adds)
      rests == Overflow(c, adds)
  IN IF FitsBehind(filled, rests) THEN [to |-> SegmentsAppended(filled, rests), threw |-> FALSE]
     ELSE [to |-> filled, threw |-> TRUE]

\* fillImpl, with allowCompact.
FillResult(c, adds) ==
  LET filled == TailsFilled(c, adds)
      rests == Overflow(c, adds)
      compact == Compacted(filled)
      refilled == TailsFilled(compact, Rests(rests))
      more == Overflow(compact, Rests(rests))
  IN IF FitsBehind(filled, rests) THEN [to |-> SegmentsAppended(filled, rests), threw |-> FALSE]
     ELSE IF ~ FitsCompacted(filled) THEN [to |-> filled, threw |-> TRUE]
     ELSE IF FitsBehind(refilled, more) THEN [to |-> SegmentsAppended(refilled, more), threw |-> FALSE]
     ELSE [to |-> refilled, threw |-> TRUE]

-----------------------------------------------------------------------------
(***************************************************************************)
(* unfillCBST.  removes maps the keys of the call to the values to remove. *)
(***************************************************************************)
\* One segment without the removed values; a link moves up to their end.
SegmentUnfilled(flat, base, removed) ==
  LET e == EndOf(flat, base)
      kept == SelectSeq(ValuesAt(flat, base), LAMBDA x : x \notin removed)
      last == IF IsLink(flat[e]) THEN flat[e] ELSE End
  IN Write(flat, base, kept \o <<last>> \o Zeros(e - base - Len(kept)))

\* Fault: every removed value is counted off the tail, wherever it was.
RowUnfilledByCount(c, key, removed) ==
  LET p == NodeOf(c, key)
      segments == Segments(c.flat, c.nodes[p].value)
      unfilled == FoldLeft(LAMBDA f, base : SegmentUnfilled(f, base, removed), c.flat, segments)
      gone == Len(RowFrom(c.flat, c.nodes[p].value)) - Len(RowFrom(unfilled, c.nodes[p].value))
  IN IF p = NoNode THEN c
     ELSE [c EXCEPT !.flat = unfilled, !.nodes[p].occupancy = IF @ > gone THEN @ - gone ELSE 0]

\* unfillRowSerial and its callers.
RowUnfilled(c, key, removed) ==
  LET p == NodeOf(c, key)
      segments == Segments(c.flat, c.nodes[p].value)
      unfilled == FoldLeft(LAMBDA f, base : SegmentUnfilled(f, base, removed), c.flat, segments)
  IN IF p = NoNode THEN c
     ELSE [c EXCEPT !.flat = unfilled,
                    !.nodes[p].occupancy = Len(ValuesAt(unfilled, Last(segments)))]

UnfillResult(c, removes) ==
  FoldLeft(LAMBDA d, key : RowUnfilled(d, key, removes[key]), c, KeysInOrder(removes))

\* applyDeletes: the node keeps its key and its first segment.
Deleted(nd) ==
  [nd EXCEPT !.occupancy = 0, !.tailBase = nd.value,
             !.tailCapacity = IF nd.length > 0 THEN nd.length - 1 ELSE 0]

\* Fault: the counts stay as they were.
EraseUncounted(c, keys) ==
  LET gone == {NodeOf(c, key) : key \in keys} \ {NoNode}
  IN [c EXCEPT !.nodes = [p \in DOMAIN @ |-> IF p \in gone THEN Deleted(@[p]) ELSE @[p]],
               !.avail = [p \in DOMAIN @ |-> IF p \in gone THEN 1 ELSE @[p]]]

\* deleteCBST.
EraseResult(c, keys) ==
  LET gone == {NodeOf(c, key) : key \in keys} \ {NoNode}
      avail == [p \in DOMAIN c.avail |-> IF p \in gone THEN 1 ELSE c.avail[p]]
  IN [c EXCEPT !.nodes = [p \in DOMAIN @ |-> IF p \in gone THEN Deleted(@[p]) ELSE @[p]],
               !.avail = avail, !.sub = Sums(avail)]

-----------------------------------------------------------------------------
(***************************************************************************)
(* insertCBST.  news is the sequence of the new rows.                      *)
(***************************************************************************)
\* The deleted slots that the availability counts lead to.
SlotsOf(c) == [k \in 1 .. At(c.sub, 0) |-> KthSlot(c.avail, c.sub, k)]

\* <<row, slot>>: only the first rows, as many as there are slots, take part.
Reuses(c, news) ==
  LET slots == SlotsOf(c)
      caps == [k \in DOMAIN slots |-> IF slots[k] = NoNode THEN 0 ELSE c.nodes[slots[k]].length - 1]
      eligible == IF Len(news) < Len(slots) THEN Len(news) ELSE Len(slots)
  IN Matches(caps, [i \in 1 .. eligible |-> Len(news[i])])

\* Fault: the rest of the deleted row's data stays in the slot.
SlotRefilled(c, p, row) ==
  LET nd == c.nodes[p]
  IN IF p = NoNode THEN c
     ELSE [c EXCEPT !.flat = Write(@, nd.value, row),
                    !.nodes[p] = OneSegment(nd.key, nd.value, nd.length, Len(row)),
                    !.avail[p] = 0]

\* applyReuse: the row, its terminator and zeros over the whole slot.
SlotReused(c, p, row) ==
  LET nd == c.nodes[p]
  IN IF p = NoNode THEN c
     ELSE [c EXCEPT !.flat = Write(@, nd.value, row \o <<End>> \o Zeros(nd.length - 1 - Len(row))),
                    !.nodes[p] = OneSegment(nd.key, nd.value, nd.length, Len(row)),
                    !.avail[p] = 0]

AfterReuse(c, news) ==
  FoldLeft(LAMBDA d, m : SlotReused(d, SlotsOf(c)[m[2]], news[m[1]]), c, SetToSeq(Reuses(c, news)))

\* The rows without a slot, in the order of the call.
Surplus(c, news) == SelectSeq([i \in DOMAIN news |-> i], LAMBDA i : \A m \in Reuses(c, news) : m[1] # i)

\* Fault: no place for the terminator.
SurplusSlotsTight(rows) == [s \in DOMAIN rows |-> NextMultiple(Len(rows[s]), Alignment)]

SurplusSlots(rows) == [s \in DOMAIN rows |-> NextMultiple(Len(rows[s]), Alignment) + 1]

FitsSurplus(c, rows) == c.bump + Total(SurplusSlots(rows)) <= Capacity

\* Fault: the new keys follow the number of survivors, not the last key.
RebuiltByCount(c, rows) ==
  LET slots == SurplusSlots(rows)
      survivors == SelectSeq(InOrder(c), LAMBDA p : IsLive(c, p))
      cells(s) == rows[s] \o Zeros(slots[s] - Len(rows[s]) - 1) \o <<End>>
  IN Tree(Write(c.flat, c.bump, FlattenSeq([s \in DOMAIN rows |-> cells(s)])),
          c.bump + Total(slots),
          [i \in DOMAIN survivors |-> c.nodes[survivors[i]]]
          \o [s \in DOMAIN rows |->
                OneSegment(Len(survivors) + s, StartOf(slots, c.bump, s), slots[s], Len(rows[s]))])

\* The surplus rows at the bump pointer, and a new tree of the live nodes and
\* of theirs, which get the keys after the last live one.
Rebuilt(c, rows) ==
  LET slots == SurplusSlots(rows)
      survivors == SelectSeq(InOrder(c), LAMBDA p : IsLive(c, p))
      fresh == IF survivors = <<>> THEN 1 ELSE c.nodes[Last(survivors)].key + 1
      cells(s) == rows[s] \o Zeros(slots[s] - Len(rows[s]) - 1) \o <<End>>
  IN Tree(Write(c.flat, c.bump, FlattenSeq([s \in DOMAIN rows |-> cells(s)])),
          c.bump + Total(slots),
          [i \in DOMAIN survivors |-> c.nodes[survivors[i]]]
          \o [s \in DOMAIN rows |->
                OneSegment(fresh + s - 1, StartOf(slots, c.bump, s), slots[s], Len(rows[s]))])

\* A throw leaves the reused slots filled and the counts as they were.
InsertResult(c, news) ==
  LET reused == AfterReuse(c, news)
      surplus == Surplus(c, news)
      rows == [s \in DOMAIN surplus |-> news[surplus[s]]]
      base == IF FitsSurplus(reused, rows) THEN reused ELSE Compacted(reused)
  IN IF surplus = <<>> THEN [to |-> [reused EXCEPT !.sub = Sums(reused.avail)], threw |-> FALSE]
     ELSE IF ~ FitsSurplus(reused, rows) /\ ~ FitsCompacted(reused) THEN [to |-> reused, threw |-> TRUE]
     ELSE IF FitsSurplus(base, rows) THEN [to |-> Rebuilt(base, rows), threw |-> FALSE]
     ELSE [to |-> base, threw |-> TRUE]

-----------------------------------------------------------------------------
LivePositions(c) == {p \in DOMAIN c.nodes : IsLive(c, p)}

\* What a reader sees: every live key is searched from the root and its row
\* is read along the chain.
RowsOf(c) ==
  [key \in {c.nodes[p].key : p \in LivePositions(c)} |-> RowFrom(c.flat, c.nodes[NodeOf(c, key)].value)]

(***************************************************************************)
(* The calls.  A caller appends to and removes from rows that it has not   *)
(* erased.                                                                 *)
(***************************************************************************)
Key == 1 .. MaxKey

Erased == {ctx.nodes[p].key : p \in {q \in DOMAIN ctx.nodes : ~ IsLive(ctx, q)}}

Batches(arg) ==
  UNION {[ks -> arg] : ks \in {s \in SUBSET (Key \ Erased) : s # {} /\ Cardinality(s) <= MaxBatch}}

StoreInit ==
  /\ \E table \in InitialTables : ctx = Constructed(table)
  /\ view = RowsOf(ctx)
  /\ threw = FALSE /\ calls = 0

Called(result) ==
  /\ calls < MaxCalls /\ calls' = calls + 1
  /\ ctx' = result.to /\ threw' = result.threw
  /\ view' = RowsOf(ctx')

Done(c) == [to |-> c, threw |-> FALSE]

FillRows == \E adds \in Batches(FillLists) : Called(FillResult(ctx, adds))

UnfillRows == \E removes \in Batches(RemoveSets) : Called(Done(UnfillResult(ctx, removes)))

EraseRows ==
  \E keys \in (SUBSET Key) \ {{}} : Cardinality(keys) <= MaxBatch /\ Called(Done(EraseResult(ctx, keys)))

\* The keys are bounded by the sizes of the model alone.
InsertRows ==
  \E news \in UNION {[1 .. k -> NewRows] : k \in 1 .. MaxBatch} :
    /\ \A p \in DOMAIN ctx.nodes : ctx.nodes[p].key + Len(news) <= MaxKey
    /\ Called(InsertResult(ctx, news))

CompactStore ==
  Called(IF FitsCompacted(ctx) THEN Done(Compacted(ctx)) ELSE [to |-> ctx, threw |-> TRUE])

StoreNext == FillRows \/ UnfillRows \/ EraseRows \/ InsertRows \/ CompactStore

StoreSpec == StoreInit /\ [][StoreNext]_storeVars

-----------------------------------------------------------------------------
Contract == INSTANCE KeyedRows WITH rows <- view

\* Every call does to the rows what its description promises, with chains,
\* reused slots and compactions underneath; a call that throws has changed
\* no row but those it was asked to extend or insert.
KeepsContract == Contract!KeyedSpec

\* The two conditions that fill and unfill rest on (integrity.hpp): the node
\* describes the last segment of its chain, its occupancy counts the values
\* there, and nothing is left in the free part of that segment.
TailDescribed ==
  \A p \in LivePositions(ctx) :
    LET nd == ctx.nodes[p]
        free == nd.tailBase + nd.occupancy + 1 .. nd.tailBase + nd.tailCapacity
    IN /\ nd.tailBase = Last(Segments(ctx.flat, nd.value))
       /\ nd.occupancy = Len(ValuesAt(ctx.flat, nd.tailBase))
       /\ \A q \in free : q \in Places /\ ctx.flat[q] \in {0, End}

\* The cells that a node may write: the first segment, live or a slot to be
\* reused, the other segments of a live row up to their ends, and its tail.
Extent(p) ==
  LET nd == ctx.nodes[p]
      first == nd.value .. nd.value + nd.length - 1
      chain == Segments(ctx.flat, nd.value)
  IN IF IsLive(ctx, p)
     THEN first \cup (nd.tailBase .. nd.tailBase + nd.tailCapacity)
                \cup UNION {chain[s] .. EndOf(ctx.flat, chain[s]) : s \in DOMAIN chain}
     ELSE first

\* No two rows share a cell, the slots of deleted rows included, and every
\* one lies below the bump pointer.
ExtentsDisjoint ==
  \A p, q \in DOMAIN ctx.nodes :
    /\ p # q => Extent(p) \cap Extent(q) = {}
    /\ Extent(p) \subseteq 0 .. ctx.bump - 1

\* Nothing is left behind the bump pointer (compactCBST).
NothingBehindBump == \A q \in ctx.bump .. Capacity - 1 : ctx.flat[q] = 0

\* The payload after every call, as integrity.cu demands it: tails and links
\* agree, no row reaches into another or behind the bump pointer, and what
\* compaction leaves behind is cleared.
PayloadSound == TailDescribed /\ ExtentsDisjoint /\ NothingBehindBump

\* Every row can be found by its key, whatever was deleted, reused or rebuilt.
EveryKeyFound == \A p \in DOMAIN ctx.nodes : NodeOf(ctx, ctx.nodes[p].key) = p

\* The counts are at least the truth, and lead to every deleted slot once.
SlotsReachable ==
  LET slots == SlotsOf(ctx)
      deleted == DOMAIN ctx.nodes \ LivePositions(ctx)
  IN /\ deleted \subseteq {slots[k] : k \in DOMAIN slots}
     /\ \A j, k \in DOMAIN slots : j # k /\ slots[j] = slots[k] => slots[j] = NoNode

\* The tree leads to every row and to every slot for a new one, also after an
\* insert that threw when it had reused slots, before the counts were made anew.
TreeSound == EveryKeyFound /\ SlotsReachable

\* The live values, each row padded as compaction pads it, and the slots kept
\* for deleted rows.
CompactedSize == Total(CompactSlots(ctx))

\* Fill gives up only near the limit: when the compacted rows and the new
\* values, padded as rows of their own, do not fit (fillImpl compacts once
\* and tries again).
FillThrowsOnlyWhenNearlyFull ==
  calls < MaxCalls =>
    \A adds \in Batches(FillLists) :
      FillResult(ctx, adds).threw =>
        CompactedSize + MapThenSumSet(LAMBDA key : Padded(Len(adds[key])), DOMAIN adds) > Capacity
=============================================================================
