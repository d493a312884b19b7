------------------------------ MODULE Database ------------------------------
(***************************************************************************)
(* Several users of one relational database.  Either every user is a       *)
(* session of the wire server (execute_in_session), or the database is     *)
(* embedded and all statements go through `execute` with its one global    *)
(* transaction; `api` says which.  A statement is atomic: the engine runs  *)
(* under one mutex.                                                        *)
(***************************************************************************)
EXTENDS StatementOps

CONSTANTS
  Schemas,     \* the CREATE TABLE statements that came first
  Fill,        \* the INSERT statements that followed, some of them or all
  FirstViews, FirstSettings,  \* the views and the parameters set before that
  Creates,     \* further CREATE TABLE statements
  Inserts, Updates, Deletes,  \* DML statements the users issue
  Alters,      \* ALTER TABLE statements: [op, table, name, arg]
  Views,       \* CREATE VIEW statements: [name, refs]
  Settings,    \* values of parameters
  MaxStatements,  \* bound on the number of statements
  MaxDdl          \* bound on the DDL and SET statements among them

VARIABLES
  api,      \* "session" or "embedded"
  db,       \* the Database
  outcome,  \* what the last recorded statement answered
  count,    \* number of statements so far, and of DDL and SET statements
  past      \* history: which unusual things have happened

vars == <<api, db, outcome, count, past>>

\* "overlap": a user changed data while another had a transaction open.
\* "rekeyed": an UPDATE set a column that a foreign key refers to.
\* "altered": ALTER TABLE succeeded; "unnamed": it dropped or renamed a column.
\* "reshaped": ALTER TABLE hit a table with buffered rows.
Past == {"overlap", "rekeyed", "altered", "unnamed", "reshaped"}

User == IF api = "session" THEN Session ELSE {"embedded"}

\* The database after the CREATE statements and SETs, the first n INSERTs, and
\* perhaps a BEGIN or two.
Created ==
  LET tables == FoldLeft(LAMBDA d, ct : run_create_table(d, ct).db, empty, Schemas)
      views == FoldLeft(LAMBDA d, cv : run_create_view(d, cv.name, cv.refs).db, tables, FirstViews)
  IN  FoldLeft(LAMBDA d, set : run_set_parameter(d, set[1], set[2]).db, views, FirstSettings)
Filled(n) == FoldLeft(LAMBDA d, stmt : run_insert_stmt(d, stmt).db, Created, SubSeq(Fill, 1, n))

Init ==
  /\ api \in {"session", "embedded"}
  /\ \E n \in 0..Len(Fill) :
       \/ db = Filled(n)
       \/ api = "embedded" /\ db = run_begin(Filled(n)).db
       \/ api = "session" /\ \E s \in Session : db = session_begin(Filled(n), s).db
       \/ api = "session" /\ db = FoldLeft(LAMBDA d, s : session_begin(d, s).db,
                                           Filled(n), SetToSeq(Session))
  /\ outcome = "ok" /\ count = [statements |-> 0, ddl |-> 0] /\ past = {}

-----------------------------------------------------------------------------
InTxn(u) == IF u = "embedded" THEN db.in_transaction ELSE db.session_txns[u].in_transaction
TxnsOf(u) == IF u = "embedded" THEN db.active_txns ELSE db.session_txns[u].active_txns

Overlaps(u) == IF \E o \in User \ {u} : InTxn(o) THEN {"overlap"} ELSE {}

\* execute, or execute_in_session when the user is a session.
Run(u, Stmt(_)) == IF u = "embedded" THEN Stmt(db) ELSE execute_in_session(db, u, Stmt)

\* A statement that changes nothing (it is refused, or matches no row) is not
\* recorded, unless it shows damage.  A panic takes the server down with its lock
\* held.
Recorded(r) == r.db # db \/ r.res \in {"CorruptRow", "panic"}
Answer(r, ddl, new) ==
  /\ outcome # "panic"
  /\ count.statements < MaxStatements
  /\ Recorded(r)
  /\ count' = [statements |-> count.statements + 1, ddl |-> count.ddl + ddl]
  /\ db' = r.db
  /\ outcome' = r.res
  /\ past' = past \cup new
  /\ UNCHANGED api

Insert(u, stmt) ==
  /\ ~HasTable(db, stmt.table) \/ db.tables[stmt.table].next_row_id + Len(stmt.values)
                                    <= Cardinality(RowId)
  /\ Answer(Run(u, LAMBDA d : run_insert_stmt(d, stmt)), 0, Overlaps(u))

\* The column is part of a key that some foreign key refers to.
Referenced(stmt) ==
  \E t \in DOMAIN db.tables : \E i \in DOMAIN db.tables[t].schema.foreign_keys :
    LET fk == db.tables[t].schema.foreign_keys[i]
    IN  fk.ref_table = stmt.table /\ stmt.column \in {fk.ref_columns[k] : k \in DOMAIN fk.ref_columns}

Update(u, stmt) ==
  /\ Answer(Run(u, LAMBDA d : run_update(d, stmt)), 0,
            Overlaps(u) \cup IF Referenced(stmt) THEN {"rekeyed"} ELSE {})

Delete(u, stmt) ==
  /\ Answer(Run(u, LAMBDA d : run_delete(d, stmt)), 0, Overlaps(u))

Begin(u) ==
  /\ Answer(IF u = "embedded" THEN run_begin(db) ELSE session_begin(db, u), 0, Overlaps(u))

Commit(u) ==
  /\ Answer(IF u = "embedded" THEN run_commit(db) ELSE session_commit(db, u), 0, Overlaps(u))

Rollback(u) ==
  /\ Answer(IF u = "embedded" THEN run_rollback(db) ELSE session_rollback(db, u), 0, {})

-----------------------------------------------------------------------------
\* Statements that change no rows of a transaction.
Definition(r, new) ==
  /\ count.ddl < MaxDdl
  /\ Answer(r, 1, IF r.res = "ok" THEN new ELSE {})

CreateTable(u, ct) == Definition(Run(u, LAMBDA d : run_create_table(d, ct)), {})

CreateView(u, cv) ==
  Definition(Run(u, LAMBDA d : run_create_view(d, cv.name, cv.refs)), {})
DropView(u, name) == Definition(Run(u, LAMBDA d : run_drop_view(d, name)), {})

HasBuffered(t) ==
  \E u \in User : Touched(TxnsOf(u), t) /\ M!Written(TxnsOf(u)[TxnOf(TxnsOf(u), t)].txn) # {}
run_alter_table(d, at) ==
  CASE at.op = "AddColumn" -> AddColumn(d, at.table, at.name, at.arg)
    [] at.op = "DropColumn" -> DropColumn(d, at.table, at.name)
    [] at.op = "RenameColumn" -> RenameColumn(d, at.table, at.name, at.arg)
AlterTable(u, at) ==
  Definition(Run(u, LAMBDA d : run_alter_table(d, at)),
             {"altered"} \cup (IF at.op # "AddColumn" THEN {"unnamed"} ELSE {})
               \cup (IF at.op # "RenameColumn" /\ HasBuffered(at.table) THEN {"reshaped"} ELSE {}))

SetParameter(u, p, v) == Definition(Run(u, LAMBDA d : run_set_parameter(d, p, v)), {})
ResetParameter(u, p) == Definition(Run(u, LAMBDA d : run_reset_parameter(d, p)), {})
ResetAll(u) == Definition(Run(u, run_reset_all), {})

-----------------------------------------------------------------------------
Next ==
  \E u \in User :
    \/ \E stmt \in Inserts : Insert(u, stmt)
    \/ \E stmt \in Updates : Update(u, stmt)
    \/ \E stmt \in Deletes : Delete(u, stmt)
    \/ Begin(u)
    \/ Commit(u)
    \/ Rollback(u)
    \/ \E ct \in Creates : CreateTable(u, ct)
    \/ \E cv \in Views : CreateView(u, cv)
    \/ \E name \in DOMAIN db.views : DropView(u, name)
    \/ \E at \in Alters : AlterTable(u, at)
    \/ \E p \in Parameter, v \in Settings : SetParameter(u, p, v)
    \/ \E p \in Parameter : ResetParameter(u, p)
    \/ ResetAll(u)

Spec == Init /\ [][Next]_vars

-----------------------------------------------------------------------------
TypeOK ==
  /\ api \in {"session", "embedded"}
  /\ outcome \in STRING
  /\ past \subseteq Past
  /\ \A t \in DOMAIN db.tables :
       LET ts == db.tables[t] IN
       /\ DOMAIN ts.schema.types = DOMAIN ts.schema.columns
       /\ \A id \in RowId : id >= ts.next_row_id => ts.tree[id] = Absent
  /\ api = "session" => ~db.in_transaction /\ db.active_txns = <<>>
  /\ \A s \in Session : ~db.session_txns[s].in_transaction =>
       db.session_txns[s].active_txns = <<>>
\* What user u sees of table t: the row under every id.
Sees(d, txns, t) == [id \in RowId |-> VisibleRow(d.tables, txns, t, id)]
Trees(d) == [t \in DOMAIN d.tables |-> d.tables[t].tree]

\* Uncommitted work is private (execute_in_session: "This isolates concurrent
\* sessions"): a statement that grows the buffer of one open transaction changes
\* neither a tree nor the buffer of anybody else, and takes no row id that some
\* other row, buffered or not, already has.
PrivateStep ==
  \A u \in Session :
    LET before == db.session_txns[u]
        after == db'.session_txns[u]
    IN  before.in_transaction /\ after.in_transaction /\ before # after =>
          /\ Trees(db') = Trees(db)
          /\ \A o \in Session \ {u} : db'.session_txns[o] = db.session_txns[o]
          /\ \A t \in DOMAIN db.tables, id \in RowId :
               /\ VisibleRow(db.tables, before.active_txns, t, id) = Absent
               /\ VisibleRow(db'.tables, after.active_txns, t, id) # Absent
               => /\ db.tables[t].tree[id] = Absent
                  /\ \A o \in Session \ {u} :
                       VisibleRow(db.tables, db.session_txns[o].active_txns, t, id) = Absent
UncommittedWorkIsPrivate == [][PrivateStep]_vars

\* The tree of table t once all the buffered writes of one entry are in it.
Installed(e) ==
  [id \in RowId |-> CASE e.txn.writes[id] = Absent -> db.tables[e.table].tree[id]
                      [] e.txn.writes[id] = Tombstone -> Absent
                      [] OTHER -> e.txn.writes[id]]
\* The first n tables of a transaction are installed, all else is as it was.
InstallsFirst(entries, n) ==
  \A t \in DOMAIN db.tables :
    db'.tables[t].tree =
      IF \E i \in 1..n : entries[i].table = t
      THEN Installed(entries[CHOOSE i \in 1..n : entries[i].table = t])
      ELSE db.tables[t].tree

\* What COMMIT answers is what happened: "ok" means that every table of the
\* transaction got exactly its buffered rows.  The global COMMIT
\* never meets a conflict (txn.rs: "no partial application across tables"), having
\* no other transaction to meet; the COMMIT of a session that does may have
\* installed the tables before the one in conflict (mod.rs: "cross-table commit is
\* not atomic"), never part of a table.  The transaction is closed in every case.
CommitStep(u) ==
  LET entries == TxnsOf(u)
  IN  Commit(u) /\ InTxn(u) =>
        /\ outcome' = "ok" => InstallsFirst(entries, Len(entries))
        /\ outcome' = "TransactionError" =>
             /\ u \in Session
             /\ \E n \in 0..(Len(entries) - 1) : InstallsFirst(entries, n)
        /\ ~InTxn(u)'
CommitDoesWhatItSays == [][\A u \in User : CommitStep(u)]_vars

\* Declared constraints hold of what every user sees: keys are unique, key columns
\* not NULL, every reference has its row (dml.rs).  They are checked against the
\* statement's own view only, so they may fail once transactions overlap; UPDATE
\* does not look for children, so references may fail once a key was updated.
SatisfiesKeys(d, txns, t) ==
  LET schema == d.tables[t].schema
      rows == Sees(d, txns, t)
      live == {id \in RowId : rows[id] # Absent}
      groups == unique_groups(schema)
  IN  /\ \A id \in live, i \in DOMAIN schema.not_null :
            rows[id][index_of(schema, schema.not_null[i])] # Null
      /\ \A a, b \in live, g \in DOMAIN groups :
            a # b /\ ~HasNull(KeyOf(schema, groups[g], rows[a])) =>
              KeyOf(schema, groups[g], rows[a]) # KeyOf(schema, groups[g], rows[b])
SatisfiesReferences(d, txns, t) ==
  LET rows == Sees(d, txns, t)
  IN  \A i \in DOMAIN d.tables[t].schema.foreign_keys :
        LET fk == d.tables[t].schema.foreign_keys[i]
            target == Sees(d, txns, fk.ref_table)
        IN  \A id \in RowId :
              rows[id] # Absent /\ ~HasNull(KeyOf(d.tables[t].schema, fk.columns, rows[id])) =>
                \E r \in RowId : /\ target[r] # Absent
                                 /\ KeyOf(d.tables[fk.ref_table].schema, fk.ref_columns, target[r])
                                      = KeyOf(d.tables[t].schema, fk.columns, rows[id])
ConstraintsHold ==
  past \cap {"overlap", "altered"} = {} =>
    \A u \in User, t \in DOMAIN db.tables :
      /\ SatisfiesKeys(db, TxnsOf(u), t)
      /\ "rekeyed" \notin past => SatisfiesReferences(db, TxnsOf(u), t)

\* A vector index ranks exactly the committed rows of its column (storage.rs: built
\* once, "incrementally maintained from then on"): nothing stale, nothing missing,
\* whether rows came by autocommit or by COMMIT, unless a column was dropped or
\* renamed (the index keeps its old name) or rows of another shape were committed.
VectorIndexesExact ==
  past \cap {"unnamed", "reshaped"} = {} =>
    \A t \in DOMAIN db.tables : \A c \in DOMAIN db.tables[t].vector_indexes :
      db.tables[t].vector_indexes[c] = VectorsIn(db.tables[t], c)

\* Every stored row has the arity of its schema, so that a scan never answers
\* CorruptRow and no expect on a constraint column panics, as long as no ALTER TABLE
\* met buffered rows of another shape or took away a column that constraints name.
RowsDecode ==
  /\ "reshaped" \notin past =>
       /\ outcome # "CorruptRow"
       /\ \A t \in DOMAIN db.tables, id \in RowId :
            db.tables[t].tree[id] # Absent => Decodes(db.tables[t], db.tables[t].tree[id])
  /\ past \cap {"reshaped", "unnamed"} = {} => outcome # "panic"
=============================================================================
