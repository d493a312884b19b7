---------------------------- MODULE DatabaseOps -----------------------------
(***************************************************************************)
(* The relational database (tpt-archon-relational, database/) as a data    *)
(* type: tables and views, the global transaction of `execute`, and the    *)
(* transactions that `execute_in_session` keeps per session.  A statement  *)
(* is an operator that returns the database it leaves behind and its       *)
(* outcome: "ok", the name of a DbError, or "panic" where the code calls   *)
(* expect on a column that is gone.                                        *)
(***************************************************************************)
EXTENDS TableStorage

CONSTANTS
  Session,
  Parameter,  \* names of run-time parameters
  Defaults    \* Defaults[p] is the default of p, or Absent

Ok(db) == [db |-> db, res |-> "ok"]
Err(db, e) == [db |-> db, res |-> e]

\* The first outcome of a list that is not "ok".
FirstOf(outcomes) ==
  LET bad == {i \in DOMAIN outcomes : outcomes[i] # "ok"}
  IN  IF bad = {} THEN "ok" ELSE outcomes[Min(bad)]

NoTxn == [in_transaction |-> FALSE, active_txns |-> <<>>]

empty ==
  [tables |-> <<>>, views |-> <<>>, in_transaction |-> FALSE, active_txns |-> <<>>,
   session_parameters |-> Defaults, session_txns |-> [s \in Session |-> NoTxn]]

HasTable(db, t) == t \in DOMAIN db.tables

\* active_txns is a list of [table, txn], in the order of first touch.
Touched(txns, t) == \E i \in DOMAIN txns : txns[i].table = t
TxnOf(txns, t) == CHOOSE i \in DOMAIN txns : txns[i].table = t

ensure_txn(db, t) ==
  IF Touched(db.active_txns, t) \/ ~HasTable(db, t) THEN db
  ELSE [db EXCEPT !.active_txns =
          Append(@, [table |-> t, txn |-> M!begin(db.tables[t].mvcc)])]

EnsuredIfOpen(db, t) == IF db.in_transaction THEN ensure_txn(db, t) ELSE db

-----------------------------------------------------------------------------
\* Row id of table t as the open transaction sees it: its buffered write if it
\* has one, else the tree.
VisibleRow(tables, txns, t, id) ==
  LET buffered == IF Touched(txns, t) THEN txns[TxnOf(txns, t)].txn.writes[id] ELSE Absent
  IN  CASE buffered = Tombstone -> Absent
        [] buffered = Absent -> tables[t].tree[id]
        [] OTHER -> buffered

current_row(db, t, id) == VisibleRow(db.tables, db.active_txns, t, id)

\* all_rows without the excluded ids; the scan fails if one does not decode.
all_rows(db, t, exclude) ==
  {id \in RowId \ exclude : id < db.tables[t].next_row_id /\ current_row(db, t, id) # Absent}
ScanFails(db, t, exclude) ==
  \E id \in all_rows(db, t, exclude) : ~Decodes(db.tables[t], current_row(db, t, id))

unique_groups(schema) == schema.primary_key \o schema.unique

\* Constraint columns are looked up by name at every use.
HasAll(schema, group) == \A i \in DOMAIN group : Has(schema, group[i])
KeyOf(schema, group, row) == [i \in DOMAIN group |-> row[index_of(schema, group[i])]]
HasNull(key) == \E i \in DOMAIN key : key[i] = Null

NotNullOutcome(schema, column, row) ==
  CASE ~Has(schema, column) -> "panic"
    [] row[index_of(schema, column)] = Null -> "NotNullViolation"
    [] OTHER -> "ok"

UniqueOutcome_ignores_buffer(db, t, group, row, exclude) ==
  LET schema == db.tables[t].schema
      tree == db.tables[t].tree
  IN  IF \E id \in RowId \ exclude : /\ tree[id] # Absent
                                     /\ KeyOf(schema, group, tree[id]) = KeyOf(schema, group, row)
      THEN "UniqueViolation" ELSE "ok"
UniqueOutcome(db, t, group, row, exclude) ==
  LET schema == db.tables[t].schema
  IN  CASE ~HasAll(schema, group) -> "panic"
        [] HasNull(KeyOf(schema, group, row)) -> "ok"
        [] ScanFails(db, t, exclude) -> "CorruptRow"
        [] \E id \in all_rows(db, t, exclude) :
             KeyOf(schema, group, current_row(db, t, id)) = KeyOf(schema, group, row)
             -> "UniqueViolation"
        [] OTHER -> "ok"

\* A CHECK is [column, least]: column >= least, unknown (so refused) on NULL.
CheckOutcome(schema, check, row) ==
  CASE ~Has(schema, check.column) -> "UnknownColumn"
    [] row[index_of(schema, check.column)] = Null -> "CheckViolation"
    [] row[index_of(schema, check.column)] < check.least -> "CheckViolation"
    [] OTHER -> "ok"

ForeignKeyOutcome(db, schema, fk, row) ==
  CASE ~HasAll(schema, fk.columns) -> "panic"
    [] HasNull(KeyOf(schema, fk.columns, row)) -> "ok"
    [] ~HasTable(db, fk.ref_table) -> "ForeignKeyViolation"
    [] ScanFails(db, fk.ref_table, {}) -> "CorruptRow"
    [] all_rows(db, fk.ref_table, {}) # {}
         /\ ~HasAll(db.tables[fk.ref_table].schema, fk.ref_columns) -> "panic"
    [] \E id \in all_rows(db, fk.ref_table, {}) :
         KeyOf(db.tables[fk.ref_table].schema, fk.ref_columns,
               current_row(db, fk.ref_table, id)) = KeyOf(schema, fk.columns, row) -> "ok"
    [] OTHER -> "ForeignKeyViolation"

enforce_constraints(db, t, row, exclude) ==
  LET schema == db.tables[t].schema
      groups == unique_groups(schema)
  IN  FirstOf(
        [i \in DOMAIN schema.not_null |-> NotNullOutcome(schema, schema.not_null[i], row)]
        \o [i \in DOMAIN groups |-> UniqueOutcome(db, t, groups[i], row, exclude)]
        \o [i \in DOMAIN schema.checks |-> CheckOutcome(schema, schema.checks[i], row)]
        \o [i \in DOMAIN schema.foreign_keys |->
              ForeignKeyOutcome(db, schema, schema.foreign_keys[i], row)])

\* ON DELETE RESTRICT, for one foreign key of table o onto table t.
RestrictOutcome(db, t, o, fk, row) ==
  CASE fk.ref_table # t -> "ok"
    [] ~HasAll(db.tables[t].schema, fk.ref_columns) -> "panic"
    [] HasNull(KeyOf(db.tables[t].schema, fk.ref_columns, row)) -> "ok"
    [] ScanFails(db, o, {}) -> "CorruptRow"
    [] all_rows(db, o, {}) # {} /\ ~HasAll(db.tables[o].schema, fk.columns) -> "panic"
    [] \E id \in all_rows(db, o, {}) :
         KeyOf(db.tables[o].schema, fk.columns, current_row(db, o, id))
           = KeyOf(db.tables[t].schema, fk.ref_columns, row) -> "ForeignKeyViolation"
    [] OTHER -> "ok"

enforce_fk_on_delete(db, t, row) ==
  LET fks(o) == db.tables[o].schema.foreign_keys
      names == SetToSeq(DOMAIN db.tables)
  IN  FirstOf([i \in DOMAIN names |->
        FirstOf([k \in DOMAIN fks(names[i]) |->
                   RestrictOutcome(db, t, names[i], fks(names[i])[k], row)])])
=============================================================================
