---------------------------- MODULE StatementOps ----------------------------
(***************************************************************************)
(* The statements of the relational database: DML (database/dml.rs), DDL   *)
(* (ddl.rs), transaction control (txn.rs and the session_ methods of       *)
(* mod.rs) and run-time parameters.                                        *)
(***************************************************************************)
EXTENDS DatabaseOps

\* Writes of an open transaction are buffered, others go to the tree.
BufferWrite(db, t, id, w) ==
  [db EXCEPT !.active_txns[TxnOf(db.active_txns, t)].txn = M!write(@, id, w)]
WriteRow(db, t, id, row) ==
  IF db.in_transaction THEN BufferWrite(db, t, id, row)
  ELSE [db EXCEPT !.tables[t] = PutRow(@, id, row)]
DeleteRow(db, t, id) ==
  IF db.in_transaction THEN BufferWrite(db, t, id, Tombstone)
  ELSE [db EXCEPT !.tables[t] = RemoveRow(@, id)]

-----------------------------------------------------------------------------
\* INSERT: [table, columns, values], an empty column list standing for all.
InsertColumns(schema, stmt) == IF stmt.columns = <<>> THEN schema.columns ELSE stmt.columns

\* The row of one VALUES list, with NULL where it names no column.
CandidateRow(schema, columns, values) ==
  [i \in DOMAIN schema.columns |->
     IF \E k \in DOMAIN columns : columns[k] = schema.columns[i]
     THEN values[CHOOSE k \in DOMAIN columns : columns[k] = schema.columns[i]]
     ELSE Null]

ShapeOutcome(schema, columns, stmt) ==
  CASE \E k \in DOMAIN columns : ~Has(schema, columns[k]) -> "UnknownColumn"
    [] \E i \in DOMAIN stmt.values : Len(stmt.values[i]) # Len(columns) -> "ArityMismatch"
    [] \E i \in DOMAIN stmt.values, k \in DOMAIN columns :
         ~LiteralFits(schema.types[index_of(schema, columns[k])], stmt.values[i][k])
         -> "ColumnTypeMismatch"
    [] OTHER -> "ok"

\* A key of row i that another row of the same batch has too.
BatchOutcome(schema, rows, i) ==
  IF \E g \in DOMAIN unique_groups(schema), j \in DOMAIN rows \ {i} :
       LET group == unique_groups(schema)[g]
       IN  /\ ~HasNull(KeyOf(schema, group, rows[i]))
           /\ KeyOf(schema, group, rows[j]) = KeyOf(schema, group, rows[i])
  THEN "UniqueViolation" ELSE "ok"

\* One row of the apply loop: the id is taken from the table at once, also in a
\* transaction that may still roll back.
InsertRow_reuses_ids(db, t, row, explicit_id) ==
  LET id == IF db.in_transaction
            THEN Cardinality({i \in RowId : db.tables[t].tree[i] # Absent})
            ELSE db.tables[t].next_row_id
      numbered == IF explicit_id THEN row ELSE [row EXCEPT ![1] = id]
  IN  Ok(WriteRow([db EXCEPT !.tables[t].next_row_id = id + 1], t, id, numbered))
InsertRow(db, t, row, explicit_id) ==
  LET id == db.tables[t].next_row_id
      numbered == IF explicit_id THEN row ELSE [row EXCEPT ![1] = id]
      written == WriteRow([db EXCEPT !.tables[t].next_row_id = id + 1], t, id, numbered)
  IN  IF db.in_transaction THEN Ok(written)
      ELSE IF BuildFails(written.tables[t]) THEN Err(written, "CorruptRow")
      ELSE Ok([written EXCEPT !.tables[t] = maybe_build_vector_indexes(@)])

run_insert_stmt(db0, stmt) ==
  LET t == stmt.table
      db == EnsuredIfOpen(db0, t)
      schema == db.tables[t].schema
      columns == InsertColumns(schema, stmt)
      rows == [i \in DOMAIN stmt.values |-> CandidateRow(schema, columns, stmt.values[i])]
      refusal == FirstOf([i \in DOMAIN rows |->
                   FirstOf(<<enforce_constraints(db, t, rows[i], {}),
                             BatchOutcome(schema, rows, i)>>)])
      Step(acc, row) ==
        IF acc.res # "ok" THEN acc
        ELSE InsertRow(acc.db, t, row, schema.columns[1] \in {columns[k] : k \in DOMAIN columns})
  IN  IF ~HasTable(db, t) THEN Err(db, "UnknownTable")
      ELSE IF ShapeOutcome(schema, columns, stmt) # "ok"
      THEN Err(db, ShapeOutcome(schema, columns, stmt))
      ELSE IF refusal # "ok" THEN Err(db, refusal)
      ELSE FoldLeft(Step, Ok(db), rows)

-----------------------------------------------------------------------------
\* A filter is Absent (no WHERE) or [column, value] for column = value.
FilterOutcome(db, t, filter) ==
  CASE ~HasTable(db, t) -> "UnknownTable"
    [] ScanFails(db, t, {}) -> "CorruptRow"
    [] filter # Absent /\ all_rows(db, t, {}) # {} /\ ~Has(db.tables[t].schema, filter.column)
         -> "UnknownColumn"
    [] OTHER -> "ok"
matching_row_ids(db, t, filter) ==
  LET schema == db.tables[t].schema
      keep == {id \in all_rows(db, t, {}) :
                 filter # Absent => /\ filter.value # Null
                                    /\ current_row(db, t, id)[index_of(schema, filter.column)]
                                         = filter.value}
  IN  SetToSortSeq(keep, <)

\* UPDATE: [table, column, value, filter].  Slot 1 is skipped silently.
UpdateRow(db, stmt, id) ==
  LET t == stmt.table
      schema == db.tables[t].schema
      slot == index_of(schema, stmt.column)
      old == current_row(db, t, id)
      row == IF slot = 1 THEN old ELSE [old EXCEPT ![slot] = stmt.value]
      refusal == enforce_constraints(db, t, row, {id})
  IN  IF old = Absent THEN Ok(db)
      ELSE IF ~Has(schema, stmt.column) THEN Err(db, "UnknownColumn")
      ELSE IF slot # 1 /\ ~LiteralFits(schema.types[slot], stmt.value)
      THEN Err(db, "ColumnTypeMismatch")
      ELSE IF refusal # "ok" THEN Err(db, refusal)
      ELSE Ok(WriteRow(db, t, id, row))

run_update(db, stmt) ==
  LET Step(acc, id) == IF acc.res # "ok" THEN acc ELSE UpdateRow(acc.db, stmt, id)
  IN  IF FilterOutcome(db, stmt.table, stmt.filter) # "ok"
      THEN Err(db, FilterOutcome(db, stmt.table, stmt.filter))
      ELSE FoldLeft(Step, Ok(EnsuredIfOpen(db, stmt.table)),
                    matching_row_ids(db, stmt.table, stmt.filter))

RemoveMatching(db, t, id) ==
  LET row == current_row(db, t, id)
  IN  IF row = Absent THEN Ok(db)
      ELSE IF enforce_fk_on_delete(db, t, row) # "ok"
      THEN Err(db, enforce_fk_on_delete(db, t, row))
      ELSE Ok(DeleteRow(db, t, id))

\* DELETE: [table, filter].
run_delete(db, stmt) ==
  LET Step(acc, id) == IF acc.res # "ok" THEN acc ELSE RemoveMatching(acc.db, stmt.table, id)
  IN  IF FilterOutcome(db, stmt.table, stmt.filter) # "ok"
      THEN Err(db, FilterOutcome(db, stmt.table, stmt.filter))
      ELSE FoldLeft(Step, Ok(EnsuredIfOpen(db, stmt.table)),
                    matching_row_ids(db, stmt.table, stmt.filter))
-----------------------------------------------------------------------------
\* run_begin, run_rollback and the first lines of run_commit, on the global
\* transaction.
run_begin(db) ==
  IF db.in_transaction THEN Err(db, "TransactionError")
  ELSE Ok([db EXCEPT !.in_transaction = TRUE, !.active_txns = <<>>])
run_rollback(db) ==
  IF ~db.in_transaction THEN Err(db, "TransactionError")
  ELSE Ok([db EXCEPT !.in_transaction = FALSE, !.active_txns = <<>>])

\* One table of the validation phase: its MVCC store commits, or conflicts.
ValidateTable(db, e) ==
  IF M!Validates(db.tables[e.table].mvcc, e.txn)
  THEN Ok([db EXCEPT !.tables[e.table].mvcc = M!commit(@, e.txn)])
  ELSE Err(db, "TransactionError")

\* One table of the apply phase.
ApplyTable(db, e) ==
  LET applied == ApplyWrites(db.tables[e.table], e.txn)
  IN  [db |-> [db EXCEPT !.tables[e.table] = applied.ts], res |-> applied.res]

\* Runs f on every entry, stopping at the first error.
ForEach(f(_, _), db, entries) ==
  LET Step(acc, e) == IF acc.res # "ok" THEN acc ELSE f(acc.db, e)
  IN  FoldLeft(Step, Ok(db), entries)

\* The global COMMIT validates every table before it applies any.
run_commit(db) ==
  LET closed == [db EXCEPT !.in_transaction = FALSE, !.active_txns = <<>>]
      validated == ForEach(ValidateTable, closed, db.active_txns)
  IN  IF ~db.in_transaction THEN Err(db, "TransactionError")
      ELSE IF validated.res # "ok" THEN validated
      ELSE ForEach(ApplyTable, validated.db, db.active_txns)

\* session_begin, session_commit and session_rollback.  The COMMIT of a session
\* validates and applies table by table.
session_begin(db, s) ==
  IF db.session_txns[s].in_transaction THEN Err(db, "TransactionError")
  ELSE Ok([db EXCEPT !.session_txns[s] = [in_transaction |-> TRUE, active_txns |-> <<>>]])
session_rollback(db, s) ==
  IF ~db.session_txns[s].in_transaction THEN Err(db, "TransactionError")
  ELSE Ok([db EXCEPT !.session_txns[s] = NoTxn])

CommitTable_applies_first(db, e) ==
  LET applied == ApplyTable(db, e)
  IN  IF applied.res # "ok" THEN applied ELSE ValidateTable(applied.db, e)
CommitTable(db, e) ==
  LET validated == ValidateTable(db, e)
  IN  IF validated.res # "ok" THEN validated ELSE ApplyTable(validated.db, e)

session_commit(db, s) ==
  IF ~db.session_txns[s].in_transaction THEN Err(db, "TransactionError")
  ELSE ForEach(CommitTable, [db EXCEPT !.session_txns[s] = NoTxn],
               db.session_txns[s].active_txns)

\* execute_in_session: while the session has a transaction open, its list stands
\* in for the global one during the statement.
SwapBack_forgotten(db, s, r) ==
  [r EXCEPT !.db.session_txns[s].active_txns = r.db.active_txns]
SwapBack(db, s, r) ==
  [r EXCEPT !.db.session_txns[s].active_txns = r.db.active_txns,
            !.db.in_transaction = db.in_transaction,
            !.db.active_txns = db.active_txns]
SwapIn(db, s) ==
  [db EXCEPT !.in_transaction = TRUE, !.active_txns = db.session_txns[s].active_txns]
execute_in_session(db, s, Run(_)) ==
  IF ~db.session_txns[s].in_transaction THEN Run(db)
  ELSE SwapBack(db, s, Run(SwapIn(db, s)))

-----------------------------------------------------------------------------
\* CREATE TABLE: [table, columns, constraints]; a column is [name, type,
\* constraints], a table constraint [kind, columns, ref_table, ref_columns, least].
OfKind(list, kind) == SelectSeq(list, LAMBDA tc : tc.kind = kind)
ColumnsWith(ct, constraint) ==
  SelectSeq([i \in DOMAIN ct.columns |-> ct.columns[i].name],
            LAMBDA n : \E i \in DOMAIN ct.columns : /\ ct.columns[i].name = n
                                                    /\ constraint \in ct.columns[i].constraints)
Singletons(names) == [i \in DOMAIN names |-> <<names[i]>>]
PrimaryKeys(ct) ==
  Singletons(ColumnsWith(ct, "PrimaryKey"))
    \o [i \in DOMAIN OfKind(ct.constraints, "PrimaryKey") |->
          OfKind(ct.constraints, "PrimaryKey")[i].columns]

SchemaOf(ct) ==
  LET fks == OfKind(ct.constraints, "ForeignKey")
      uniques == OfKind(ct.constraints, "Unique")
      checks == OfKind(ct.constraints, "Check")
      required == ColumnsWith(ct, "NotNull") \o FlattenSeq(PrimaryKeys(ct))
  IN  [columns |-> <<"id">> \o [i \in DOMAIN ct.columns |-> ct.columns[i].name],
       types |-> <<"Int">> \o [i \in DOMAIN ct.columns |-> ct.columns[i].type],
       not_null |-> SetToSeq({required[i] : i \in DOMAIN required}),
       primary_key |-> PrimaryKeys(ct),
       unique |-> Singletons(ColumnsWith(ct, "Unique"))
                    \o [i \in DOMAIN uniques |-> uniques[i].columns],
       foreign_keys |-> [i \in DOMAIN fks |->
          [columns |-> fks[i].columns, ref_table |-> fks[i].ref_table,
           ref_columns |-> fks[i].ref_columns]],
       checks |-> [i \in DOMAIN checks |->
          [column |-> checks[i].columns[1], least |-> checks[i].least]]]

run_create_table(db, ct) ==
  LET keyed == SelectSeq(ct.constraints, LAMBDA tc : tc.kind # "Check")
  IN  CASE HasTable(db, ct.table) -> Err(db, "TableAlreadyExists")
        [] \E i \in DOMAIN ct.columns : ct.columns[i].name = "id" -> Err(db, "Unsupported")
        [] Len(PrimaryKeys(ct)) > 1 -> Err(db, "Unsupported")
        [] \E i \in DOMAIN keyed : ~HasAll(SchemaOf(ct), keyed[i].columns)
             -> Err(db, "UnknownColumn")
        [] OTHER -> Ok([db EXCEPT !.tables = [t \in DOMAIN @ \cup {ct.table} |->
                          IF t = ct.table THEN NewTable(SchemaOf(ct)) ELSE @[t]]])

\* A view is the set of relation names its query mentions (select_references_table).
run_create_view(db, name, refs) ==
  IF HasTable(db, name) \/ name \in DOMAIN db.views THEN Err(db, "ViewAlreadyExists")
  ELSE IF name \in refs THEN Err(db, "RecursiveView")
  ELSE Ok([db EXCEPT !.views = [v \in DOMAIN @ \cup {name} |->
             IF v = name THEN refs ELSE @[v]]])
run_drop_view(db, name) ==
  IF name \notin DOMAIN db.views THEN Err(db, "UnknownView")
  ELSE Ok([db EXCEPT !.views = [v \in DOMAIN @ \ {name} |-> @[v]]])

\* ALTER TABLE re-encodes the rows of the tree; buffered rows keep their shape,
\* and constraints keep the names they were declared with.
Reencoded(ts, f(_)) ==
  [id \in RowId |-> IF ts.tree[id] = Absent THEN Absent ELSE f(ts.tree[id])]
AddColumn_metadata_only(db, t, name, type) ==
  IF ~HasTable(db, t) THEN Err(db, "UnknownTable")
  ELSE IF Has(db.tables[t].schema, name) THEN Err(db, "Unsupported")
  ELSE Ok([db EXCEPT !.tables[t].schema.columns = Append(@, name),
                     !.tables[t].schema.types = Append(@, type)])
AddColumn(db, t, name, type) ==
  IF ~HasTable(db, t) THEN Err(db, "UnknownTable")
  ELSE IF Has(db.tables[t].schema, name) THEN Err(db, "Unsupported")
  ELSE Ok([db EXCEPT !.tables[t].tree = Reencoded(db.tables[t], LAMBDA row : Append(row, Null)),
                     !.tables[t].schema.columns = Append(@, name),
                     !.tables[t].schema.types = Append(@, type)])
DropColumn(db, t, name) ==
  LET ts == db.tables[t]
      slot == index_of(ts.schema, name)
  IN  CASE ~HasTable(db, t) -> Err(db, "UnknownTable")
        [] ~Has(ts.schema, name) -> Err(db, "UnknownColumn")
        [] slot = 1 -> Err(db, "Unsupported")
        [] \E id \in RowId : ts.tree[id] # Absent /\ slot > Len(ts.tree[id]) -> Err(db, "panic")
        [] OTHER ->
             Ok([db EXCEPT !.tables[t].tree = Reencoded(ts, LAMBDA row : RemoveAt(row, slot)),
                           !.tables[t].schema.columns = RemoveAt(@, slot),
                           !.tables[t].schema.types = RemoveAt(@, slot)])
RenameColumn(db, t, old, new) ==
  LET schema == db.tables[t].schema
  IN  CASE ~HasTable(db, t) -> Err(db, "UnknownTable")
        [] ~Has(schema, old) -> Err(db, "UnknownColumn")
        [] index_of(schema, old) = 1 \/ Has(schema, new) -> Err(db, "Unsupported")
        [] OTHER -> Ok([db EXCEPT !.tables[t].schema.columns[index_of(schema, old)] = new])

-----------------------------------------------------------------------------
\* SET, RESET and RESET ALL work on one map for all sessions.
run_set_parameter(db, p, v) == Ok([db EXCEPT !.session_parameters[p] = v])
run_reset_parameter(db, p) == Ok([db EXCEPT !.session_parameters[p] = Defaults[p]])
run_reset_all(db) == Ok([db EXCEPT !.session_parameters = Defaults])
=============================================================================
