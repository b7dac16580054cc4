----------------------------- MODULE KeyedRows -----------------------------
(***************************************************************************)
(* What a CBST promises to its callers: any sequence of calls does what    *)
(* RowCalls says, and a call that did less has thrown.                     *)
(***************************************************************************)
EXTENDS RowCalls

CONSTANTS
  InitialTables, \* the tables that may be constructed: rows of the keys 1, 2, ...
  FillLists,     \* the lists of values that one fill appends to one row
  RemoveSets,    \* the sets of values that one unfill removes from one row
  NewRows,       \* the rows that may be inserted
  MaxBatch       \* bound: rows of one call

VARIABLE threw   \* whether the last call threw

keyedVars == <<rows, threw>>

\* The arguments of the calls, by key.
Batches(arg) == UNION {[ks -> arg] : ks \in {s \in SUBSET Key : s # {} /\ Cardinality(s) <= MaxBatch}}

NewLists == UNION {[1 .. k -> NewRows] : k \in 1 .. MaxBatch}

KeyedInit == rows \in InitialTables /\ threw = FALSE

CallReturns ==
  /\ threw' = FALSE
  /\ \/ \E adds \in Batches(FillLists) : Fill(adds)
     \/ \E removes \in Batches(RemoveSets) : Unfill(removes)
     \/ \E keys \in SUBSET Key : Erase(keys)
     \/ \E news \in NewLists : \E place \in Placements(DOMAIN news) : Insert(news, place)
     \/ UNCHANGED rows \* compact

CallThrows ==
  /\ threw' = TRUE
  /\ \/ \E adds \in Batches(FillLists) : FillPart(adds)
     \/ \E news \in NewLists : InsertPart(news)
     \/ UNCHANGED rows \* compact

KeyedSpec == KeyedInit /\ [][CallReturns \/ CallThrows]_keyedVars
=============================================================================
