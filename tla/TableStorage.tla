---------------------------- MODULE TableStorage ----------------------------
(***************************************************************************)
(* One table of the relational engine (database/storage.rs, schema.rs and  *)
(* codec.rs): its schema, the rows in its B-Link tree, its MVCC store and  *)
(* the vector indexes over it.  The tree is a map from row id to row, a    *)
(* row is a sequence of values, and a vector index is the set of <<id,     *)
(* vector>> pairs that a search ranks.                                     *)
(***************************************************************************)
EXTENDS Naturals, Sequences, FiniteSets, SequencesExt

CONSTANTS
  RowId,      \* row ids, a range of naturals from 0
  Null,       \* Value::Null
  Vectors,    \* vector values; the other values are integers
  Absent,     \* no row: Option::None
  Tombstone,  \* the buffered write of a row deleted in a transaction
  MinRowsForIndex  \* MIN_ROWS_FOR_INDEX

M == INSTANCE MvccOps WITH Key <- RowId, Value <- {Tombstone}, None <- Absent

ColumnType == {"Int", "Vector"}

NewTable(schema) ==
  [schema |-> schema, tree |-> [id \in RowId |-> Absent], next_row_id |-> 0,
   mvcc |-> M!NewStore, vector_indexes |-> <<>>]

-----------------------------------------------------------------------------
Has(schema, column) == \E i \in DOMAIN schema.columns : schema.columns[i] = column
\* Only used for a column the schema has.
index_of(schema, column) ==
  CHOOSE i \in DOMAIN schema.columns :
    schema.columns[i] = column /\ \A j \in 1..(i - 1) : schema.columns[j] # column

\* decode_row_validated: a row of another arity than the schema is corrupt.
Decodes(ts, row) == Len(row) = Len(ts.schema.columns)

\* literal_to_value: NULL goes anywhere, other literals only in their type.
LiteralFits(type, lit) == lit = Null \/ (lit \in Vectors <=> type = "Vector")

-----------------------------------------------------------------------------
\* An index after `id` got this row; it keeps pairs <<id, vector>>.
Reindexed(ts, index, column, id, row) ==
  {e \in index : e[1] # id}
    \cup IF Has(ts.schema, column) /\ row[index_of(ts.schema, column)] \in Vectors
         THEN {<<id, row[index_of(ts.schema, column)]>>}
         ELSE {}

maintain_vector_indexes_keeps_nulled(ts, id, row) ==
  [ts EXCEPT !.vector_indexes = [c \in DOMAIN @ |->
     IF Has(ts.schema, c) /\ row[index_of(ts.schema, c)] = Null
     THEN @[c] ELSE Reindexed(ts, @[c], c, id, row)]]
maintain_vector_indexes_for_row(ts, id, row) ==
  [ts EXCEPT !.vector_indexes = [c \in DOMAIN @ |-> Reindexed(ts, @[c], c, id, row)]]

maintain_vector_indexes_on_delete(ts, id) ==
  [ts EXCEPT !.vector_indexes = [c \in DOMAIN @ |-> {e \in @[c] : e[1] # id}]]

\* The <<id, vector>> pairs of a column in the tree.
VectorsIn(ts, column) ==
  LET slot == index_of(ts.schema, column)
  IN  {<<id, ts.tree[id][slot]>> :
         id \in {i \in RowId : ts.tree[i] # Absent /\ ts.tree[i][slot] \in Vectors}}

UnindexedColumns(ts) ==
  {ts.schema.columns[i] : i \in {j \in DOMAIN ts.schema.columns :
      ts.schema.types[j] = "Vector"}} \ DOMAIN ts.vector_indexes

\* maybe_build_vector_indexes; it fails on a row that does not decode.
BuildFails(ts) ==
  /\ ts.next_row_id >= MinRowsForIndex
  /\ UnindexedColumns(ts) # {}
  /\ \E id \in RowId : ts.tree[id] # Absent /\ ~Decodes(ts, ts.tree[id])
maybe_build_vector_indexes(ts) ==
  IF ts.next_row_id < MinRowsForIndex \/ BuildFails(ts) THEN ts
  ELSE LET built == {c \in UnindexedColumns(ts) : VectorsIn(ts, c) # {}}
       IN  [ts EXCEPT !.vector_indexes = [c \in DOMAIN @ \cup built |->
              IF c \in built THEN VectorsIn(ts, c) ELSE @[c]]]

-----------------------------------------------------------------------------
\* A row goes into the tree, with the indexes following.
PutRow(ts, id, row) == maintain_vector_indexes_for_row([ts EXCEPT !.tree[id] = row], id, row)
RemoveRow(ts, id) == maintain_vector_indexes_on_delete([ts EXCEPT !.tree[id] = Absent], id)

\* The ids of the written rows, in the order of writes_iter.
WriteOrder(txn) == SetToSortSeq(M!Written(txn), <)

\* The apply loop of COMMIT: a buffered row that does not decode any more is
\* inserted, and then ends the loop with CorruptRow.
ApplyWrites(ts, txn) ==
  LET Step(acc, id) ==
        IF acc.res # "ok" THEN acc
        ELSE IF txn.writes[id] = Tombstone THEN [acc EXCEPT !.ts = RemoveRow(@, id)]
        ELSE IF ~Decodes(acc.ts, txn.writes[id])
        THEN [ts |-> [acc.ts EXCEPT !.tree[id] = txn.writes[id]], res |-> "CorruptRow"]
        ELSE [acc EXCEPT !.ts = PutRow(@, id, txn.writes[id])]
      applied == FoldLeft(Step, [ts |-> ts, res |-> "ok"], WriteOrder(txn))
  IN  IF applied.res # "ok" THEN applied
      ELSE IF BuildFails(applied.ts) THEN [applied EXCEPT !.res = "CorruptRow"]
      ELSE [applied EXCEPT !.ts = maybe_build_vector_indexes(@)]
=============================================================================
