------------------------------- MODULE Query --------------------------------
(***************************************************************************)
(* A table in its B-Link tree, written by statements that commit at once   *)
(* and by a transaction that buffers its writes, and read by queries.      *)
(* Every reachable table is queried: the answers of Select are compared    *)
(* with SqlMeaning, with each other and with the executor's plans, and the *)
(* parser is compared with the way statements are written (SqlText).       *)
(***************************************************************************)
EXTENDS BTree, SqlText

CONSTANTS
  MaxRows,        \* row ids are 0 .. MaxRows - 1
  MaxBuffered,    \* writes one transaction may buffer
  MaxAsked,       \* bound on the rows of the tables that are queried
  MaxGone,        \* rows are deleted while fewer ids than this have no row
  RowsFor,        \* RowsFor[id]: the rows that may be stored under an id
  Columns,        \* the columns of the table, named "t" in queries
  VectorColumns,  \* those of them that hold vectors
  OtherTables,    \* the tables queries may join with: name -> scanned table
  Views,          \* name -> statement
  Selects,        \* queries whose answers SqlMeaning gives
  Equivalents,    \* pairs of queries with the same answer
  Ordered,        \* [query, order_by, limit]: queries on "t" that ORDER BY
  Nearest,        \* [k, vector]: vector searches on the column "e"
  Planned,        \* queries on "t" that the executor's plans answer too
  Aggregated,     \* [func, column] pairs
  Operands,       \* the queries of compound statements, of one column each
  Conditions,     \* expressions over AND, OR and NOT
  Statements      \* statements of every kind

VARIABLES
  tree,          \* TableStorage.tree
  next_row_id,   \* TableStorage.next_row_id
  writes,        \* the transaction's buffered writes, by row id
  committed,     \* the rows that statements and commits have stored (history)
  asked          \* the tables have been queried since they last changed
vars == <<tree, next_row_id, writes, committed, asked>>

S == INSTANCE SqlMeaning

Tombstone == <<>>
RowId == 0..(MaxRows - 1)

Init ==
  /\ tree = NewTree
  /\ next_row_id = 0
  /\ writes = <<>>
  /\ committed = <<>>
  /\ asked = FALSE

Without(f, id) == [k \in DOMAIN f \ {id} |-> f[k]]
With(f, id, row) == [k \in DOMAIN f \cup {id} |-> IF k = id THEN row ELSE f[k]]

\* The row a statement of the transaction sees under an id (current_row).
current_row(id) == IF id \in DOMAIN writes THEN writes[id]
                   ELSE IF contains(tree, id) THEN get(tree, id)[1] ELSE Tombstone

FewGone == Cardinality({k \in 0..(next_row_id - 1) : current_row(k) = Tombstone}) < MaxGone

\* INSERT: the id is consumed at once, the row is stored or buffered.
Insert(row) ==
  /\ next_row_id < MaxRows /\ row \in RowsFor[next_row_id]
  /\ tree' = insert(tree, next_row_id, row)
  /\ committed' = With(committed, next_row_id, row)
  /\ next_row_id' = next_row_id + 1
  /\ UNCHANGED writes
InsertInTxn(row) ==
  /\ next_row_id < MaxRows /\ row \in RowsFor[next_row_id]
  /\ Cardinality(DOMAIN writes) < MaxBuffered
  /\ writes' = With(writes, next_row_id, row)
  /\ next_row_id' = next_row_id + 1
  /\ UNCHANGED <<tree, committed>>

\* UPDATE and DELETE of a row, each outside and inside the transaction.
Update(id, row) ==
  /\ contains(tree, id) /\ row \in RowsFor[id] \ {get(tree, id)[1]}
  /\ tree' = insert(tree, id, row)
  /\ committed' = With(committed, id, row)
  /\ UNCHANGED <<next_row_id, writes>>
Delete(id) ==
  /\ contains(tree, id) /\ FewGone
  /\ tree' = delete(tree, id)
  /\ committed' = Without(committed, id)
  /\ UNCHANGED <<next_row_id, writes>>
DeleteInTxn(id) ==
  /\ current_row(id) # Tombstone /\ FewGone
  /\ id \in DOMAIN writes \/ Cardinality(DOMAIN writes) < MaxBuffered
  /\ writes' = With(writes, id, Tombstone)
  /\ UNCHANGED <<tree, next_row_id, committed>>

\* COMMIT applies the writes to the tree in the order of their ids.
ApplyWrite(t, id) == IF writes[id] = Tombstone THEN delete(t, id) ELSE insert(t, id, writes[id])
run_commit ==
  /\ writes # <<>>
  /\ tree' = FoldLeft(ApplyWrite, tree, SetToSortSeq(DOMAIN writes, <))
  /\ committed' = [id \in {k \in DOMAIN committed \cup DOMAIN writes :
                             k \in DOMAIN writes => writes[k] # Tombstone} |->
                     IF id \in DOMAIN writes THEN writes[id] ELSE committed[id]]
  /\ writes' = <<>>
  /\ UNCHANGED next_row_id
run_rollback ==
  /\ writes # <<>>
  /\ writes' = <<>>
  /\ UNCHANGED <<tree, next_row_id, committed>>

Write ==
  \/ \E row \in UNION {RowsFor[id] : id \in RowId} : Insert(row) \/ InsertInTxn(row)
  \/ \E id \in RowId : \E row \in RowsFor[id] : Update(id, row)
  \/ \E id \in RowId : Delete(id) \/ DeleteInTxn(id)
  \/ run_commit
  \/ run_rollback

scan_table ==
  LET ids == SelectSeq([i \in 1..next_row_id |-> i - 1], LAMBDA id : current_row(id) # Tombstone)
  IN Result(Columns, [k \in DOMAIN ids |-> current_row(ids[k])])

\* SELECT: queries change nothing.  The properties say how they are answered.
Ask ==
  /\ ~asked /\ asked' = TRUE /\ Len(scan_table.rows) <= MaxAsked
  /\ UNCHANGED <<tree, next_row_id, writes, committed>>

Next == Ask \/ (Write /\ asked' = FALSE)

Spec == Init /\ [][Next]_vars

-----------------------------------------------------------------------------
StoredRows ==
  LET ids == SelectSeq([i \in 1..next_row_id |-> i - 1], LAMBDA id : contains(tree, id))
  IN Result(Columns, [k \in DOMAIN ids |-> get(tree, ids[k])[1]])

db == [tables |-> ("t" :> scan_table) @@ OtherTables,
       stored |-> ("t" :> StoredRows) @@ OtherTables,
       views |-> Views, vectors |-> VectorColumns]

Count(rows, row) == Cardinality({i \in DOMAIN rows : rows[i] = row})
NoDuplicates(rows) == \A i, j \in DOMAIN rows : rows[i] = rows[j] => i = j

(***************************************************************************)
(* The tree is a map: get, range and len agree with the rows stored and    *)
(* not deleted since, however the inserts, the splits they caused, the     *)
(* out-of-order inserts of commits and the deletes without rebalancing     *)
(* were interleaved (btree.rs).                                            *)
(***************************************************************************)
TreeKeepsTheRows ==
  /\ \A id \in RowId : get(tree, id) = IF id \in DOMAIN committed THEN <<committed[id]>> ELSE <<>>
  /\ len(tree) = Cardinality(DOMAIN committed)
  /\ \A lo, hi \in 0..MaxRows :
       LET ids == SetToSortSeq({id \in DOMAIN committed : lo <= id /\ id < hi}, <)
       IN range(tree, lo, hi) = [i \in DOMAIN ids |-> <<ids[i], committed[ids[i]]>>]

\* The nodes under `id`, with their depth and the keys [lo, hi) they cover.
RECURSIVE Spans(_, _, _, _)
Spans(id, depth, lo, hi) ==
  LET node == tree.nodes[id]
      bound(i) == IF i = 0 THEN lo ELSE IF i > Len(node.keys) THEN hi ELSE node.keys[i]
  IN {[id |-> id, depth |-> depth, lo |-> lo, hi |-> hi]}
       \cup UNION {Spans(node.children[i], depth + 1, bound(i - 1), bound(i)) : i \in DOMAIN node.children}

(***************************************************************************)
(* The B-Link structure: at every level each node's keys lie in the range  *)
(* its parents give it, its high key is the end of that range and its      *)
(* right-link leads to the node of the same level where the next range     *)
(* starts; all leaves are equally deep (split_leaf, split_internal).       *)
(***************************************************************************)
LinksCoverTheLevels ==
  LET spans == Spans(tree.root, 0, 0, MaxRows) IN
    \A s \in spans :
      LET node == tree.nodes[s.id] IN
        /\ Len(node.keys) <= NodeCapacity
        /\ \A i \in DOMAIN node.keys : s.lo <= node.keys[i] /\ node.keys[i] < s.hi
        /\ \A i \in 1..(Len(node.keys) - 1) : node.keys[i] < node.keys[i + 1]
        /\ ~node.leaf => Len(node.children) = Len(node.keys) + 1
        /\ IF s.hi = MaxRows THEN node.high = <<>> /\ node.right = NoNode
           ELSE /\ node.high = <<s.hi>>
                /\ \E r \in spans : r.id = node.right /\ r.depth = s.depth /\ r.lo = s.hi
        /\ \A r \in spans : node.leaf /\ tree.nodes[r.id].leaf => r.depth = s.depth

(***************************************************************************)
(* WHERE, joins and subqueries mean what SQL says: three-valued logic,     *)
(* every kind of join, correlated subqueries and subqueries answered from  *)
(* the cache give exactly the rows of SqlMeaning, each as often as it      *)
(* occurs there (run_select_scoped, eval_where, build_subquery_cache).     *)
(* The exceptions are SqlMeaning's Departs: rows for which an IN or a      *)
(* comparison with a subquery is NULL, and matters, or EXTRACT meets a     *)
(* timestamp before 1970.  Such a row may be shown or not; all others      *)
(* must be right, also in the same answer.  A view, a WITH query and a     *)
(* derived table are transparent: a query over one answers like the query  *)
(* with it written out (resolve_table_ref_with_ctes).                      *)
(***************************************************************************)
QueriesMeanSql ==
  [][Ask =>
    LET d == db IN
      /\ \A q \in Selects :
           LET answer == run_select(d, q, <<>>)
               all == S!Frames(d, [q EXCEPT !.filter = <<>>], <<>>)
               exempt == {f \in all : q.filter # <<>> /\ S!Departs(d, q.filter[1], <<f>>, FALSE)}
               meant == S!Frames(d, q, <<>>) \ exempt
               often(frames, row) == Cardinality({f \in frames : S!RowOf(d, q, f) = row})
           IN /\ answer.ok
              /\ \A row \in {S!RowOf(d, q, f) : f \in all} \cup ToSet(answer.rows) :
                   Count(answer.rows, row) \in often(meant, row)..often(meant \cup exempt, row)
      /\ \A p \in Equivalents :
           LET a == run_select(d, p[1], <<>>)
               b == run_select(d, p[2], <<>>)
           IN a.ok /\ b.ok /\ a.rows = b.rows]_vars

(***************************************************************************)
(* The two ways to answer a query agree: the plan of plan_select run by    *)
(* the executor alone, and the database's own pipeline, which filters and  *)
(* groups before it plans the rest (exec.rs, select.rs).                   *)
(***************************************************************************)
PlansAgree ==
  [][Ask =>
    LET d == db IN \A q \in Planned : execute(q, d.tables["t"]) = run_select(d, q, <<>>)]_vars

-----------------------------------------------------------------------------
T == From(Named("t", ""))
At(row, c) == row[column_index(Columns, c)]
WindowCall(func, agg, column, part, order, frame) ==
  [func |-> func, agg |-> agg, column |-> column, offset |-> 1, default |-> Null,
   partition_by |-> part, order_by |-> order, frame |-> frame]
\* SELECT *, call OVER (...) FROM t: one value per row, in the order of the rows.
Over(d, call) ==
  LET rs == run_select(d, [T EXCEPT !.window_funcs = <<[alias |-> Col("x"), call |-> call]>>], <<>>)
  IN Evaluated([i \in DOMAIN rs.rows |-> rs.rows[i][Len(Columns) + 1]])
\* SELECT func(column) FROM t WHERE pred
AggregateWhere(d, a, pred) ==
  run_select(d, [T EXCEPT !.filter = <<pred>>,
                          !.aggregates = <<[alias |-> Col("x"), func |-> a.func, column |-> a.column]>>],
             <<>>).rows[1][1]
AtMost(c, v) ==   \* NULL is the greatest value of an ORDER BY
  IF v = Null THEN [node |-> "Or", left |-> [node |-> "IsNull", column |-> c, negated |-> FALSE],
                    right |-> [node |-> "IsNull", column |-> c, negated |-> TRUE]]
  ELSE [node |-> "Cmp", column |-> c, op |-> "Le", value |-> v]
Ascending(c) == <<[column |-> c, descending |-> FALSE]>>

(***************************************************************************)
(* GROUP BY and window functions agree with each other and with plain      *)
(* aggregates: a window over a partition has the value of the group; the   *)
(* default frame of an ascending ORDER BY that of the rows at or before    *)
(* the current one; a ROWS frame that of the rows so many row numbers      *)
(* around it, a RANGE frame with offsets that of the rows BETWEEN two      *)
(* values; RANK counts the rows before the ties, LEAD and LAG are inverse  *)
(* (window.rs, aggregate.rs).  Nothing is claimed of a RANGE frame in a    *)
(* descending order: the code compares values whatever the direction       *)
(* (window.rs:303), so its default frame then has the rows at or after the *)
(* current one, which is not SQL's.                                        *)
(***************************************************************************)
WindowsAgreeWithGroups ==
  [][Ask =>
    LET d == db
        rows == d.tables["t"].rows
        id(i) == At(rows[i], Col("id"))
        v(i) == At(rows[i], Col("v"))
        byV == Ascending(Col("v"))
        number == Over(d, WindowCall("RowNumber", "", Col("v"), <<>>, byV, <<>>))
        rank == Over(d, WindowCall("Rank", "", Col("v"), <<>>, byV, <<>>))
        dense == Over(d, WindowCall("DenseRank", "", Col("v"), <<>>, byV, <<>>))
        lead == Over(d, WindowCall("Lead", "", Col("id"), <<>>, byV, <<>>))
        lag == Over(d, WindowCall("Lag", "", Col("id"), <<>>, byV, <<>>))
        before(i) == {j \in DOMAIN rows : ValueLess(v(j), v(i))}
        around == [kind |-> "Rows", start |-> Preceding(1), end |-> Following(1)]
        between == [around EXCEPT !.kind = "Range"]
    IN /\ \A a \in Aggregated :
            LET groups == run_select(d, [T EXCEPT !.group_by = <<Col("v")>>,
                  !.aggregates = <<[alias |-> Col("x"), func |-> a.func, column |-> a.column]>>], <<>>).rows
                whole == Over(d, WindowCall("Agg", a.func, a.column, <<Col("v")>>, <<>>, <<>>))
                running == Over(d, WindowCall("Agg", a.func, a.column, <<>>, byV, <<>>))
                near == Over(d, WindowCall("Agg", a.func, a.column, <<>>, byV, <<around>>))
                close == Over(d, WindowCall("Agg", a.func, a.column, <<>>, byV, <<between>>))
            IN /\ \A k, l \in DOMAIN groups : k < l => ValueLess(groups[k][1], groups[l][1])
               /\ \A i \in DOMAIN rows :
                    /\ \E k \in DOMAIN groups : groups[k] = <<v(i), whole[i]>>
                    /\ running[i] = AggregateWhere(d, a, AtMost(Col("v"), v(i)))
                    /\ v(i) # Null => close[i] = AggregateWhere(d, a,
                         [node |-> "BetweenInt", column |-> Col("v"), low |-> v(i)[2] - 1, high |-> v(i)[2] + 1])
                    /\ near[i] = AggregateWhere(d, a, [node |-> "InInt", column |-> Col("id"),
                         values |-> {id(j)[2] : j \in {j \in DOMAIN rows :
                                       number[j][2] \in (number[i][2] - 1)..(number[i][2] + 1)}}])
       /\ \A i \in DOMAIN rows :
            /\ rank[i] = IntV(Cardinality(before(i)) + 1)
            /\ dense[i] = IntV(Cardinality({v(j) : j \in before(i)}) + 1)
            /\ \A j \in DOMAIN rows : lead[i] = id(j) <=> lag[j] = id(i)
            /\ (lead[i] = Null) <=> (number[i] = IntV(Len(rows)))]_vars

(***************************************************************************)
(* ORDER BY, LIMIT and vector search return the best rows and no others:   *)
(* the answer is in order, rows that tie keep their order, and no row left *)
(* out comes before one that is shown (exec.rs Sort and Limit,             *)
(* vector_topk).  A vector search ranks the rows of the tree: those that a *)
(* transaction has buffered are not among them (run_vector_topk).          *)
(***************************************************************************)
RankedAnswersAreBest ==
  [][Ask =>
    LET d == db
        rows == d.tables["t"].rows
        Best(answer, pool, k, Before(_, _)) ==
          LET place(r) == CHOOSE i \in DOMAIN pool : pool[i] = r
              ahead(r, s) == Before(r, s) \/ (~Before(s, r) /\ place(r) < place(s))
          IN /\ Len(answer) = Min({k, Len(pool)})
             /\ \A i \in DOMAIN answer : Contains(pool, answer[i])
             /\ \A i, j \in DOMAIN answer : i < j => ahead(answer[i], answer[j])
             /\ \A i \in DOMAIN answer, r \in {pool[p] : p \in DOMAIN pool} :
                  Contains(answer, r) \/ ahead(answer[i], r)
        key(o, r) == [k \in DOMAIN o |-> At(r, o[k].column)]
        earlier(o, r, s) == \E k \in DOMAIN o :
          /\ \A j \in 1..(k - 1) : key(o, r)[j] = key(o, s)[j]
          /\ IF o[k].descending THEN ValueLess(key(o, s)[k], key(o, r)[k])
             ELSE ValueLess(key(o, r)[k], key(o, s)[k])
        score(r, q) == LET e == At(r, Col("e"))[2] IN e[1] * q[1] + e[2] * q[2]
    IN /\ \A o \in Ordered : \A k \in 0..3 :
            Best(run_select(d, [T EXCEPT !.order_by = o, !.limit = <<k>>], <<>>).rows, rows, k,
                 LAMBDA r, s : earlier(o, r, s))
       /\ \A q \in Nearest : \A k \in 1..2 :
            Best(run_select(d, [T EXCEPT
                   !.filter = <<[node |-> "Cmp", column |-> Col("v"), op |-> "Ge", value |-> IntV(1)]>>,
                   !.order_by_cosine = <<[column |-> Col("e"), param |-> 1, k |-> k]>>], <<q>>).rows,
                 SelectSeq(d.stored["t"].rows, LAMBDA r : At(r, Col("e")) # Null /\ At(r, Col("v")) \in {IntV(1), IntV(2)}), k,
                 LAMBDA r, s : score(r, q) > score(s, q))]_vars

\* WITH RECURSIVE r(id) AS (SELECT id FROM t WHERE id = start op
\*   SELECT v FROM t JOIN r ON t.id = r.id) SELECT * FROM r
Closure(start, op) ==
  LET anchor == [T EXCEPT !.columns = <<Col("id")>>, !.star = FALSE,
                   !.filter = <<[node |-> "Cmp", column |-> Col("id"), op |-> "Eq", value |-> IntV(start)]>>]
      term == [T EXCEPT !.columns = <<Col("v")>>, !.star = FALSE,
                 !.joins = <<[jtype |-> "Inner", table |-> Named("r", ""),
                              on_expr |-> <<[node |-> "CmpColumn", left |-> Qualified("t", "id"), op |-> "Eq",
                                             right |-> Qualified("r", "id")]>>]>>]
  IN [From(Named("r", "")) EXCEPT !.with_ctes =
        <<[name |-> "r", query |-> anchor, recursive |-> <<[op |-> op, query |-> term]>>]>>]

(***************************************************************************)
(* UNION and INTERSECT compute the sets of their operands, UNION ALL their *)
(* bags, and EXCEPT the rows of the left operand that are not in the       *)
(* right, none more often than there: unlike SQL's EXCEPT it does not      *)
(* remove duplicates, so it is exact only when the left operand has none.  *)
(* A recursive UNION ends on every graph, cyclic ones too, with each node  *)
(* that can be reached once, and a recursive UNION ALL fails exactly when  *)
(* it runs into a cycle (run_compound, run_recursive_cte).                 *)
(***************************************************************************)
SetOperationsAndRecursion ==
  [][Ask =>
    LET d == db
        rows == d.tables["t"].rows
        asSet(rs) == {rs.rows[i] : i \in DOMAIN rs.rows}
        compound(p, op, q) ==
          run_compound(d, [first |-> p, operations |-> <<[op |-> op, query |-> q]>>, order_by |-> <<>>, limit |-> <<>>], <<>>)
        follow(ends) == {At(rows[i], Col("v")) : i \in {i \in DOMAIN rows : At(rows[i], Col("id")) \in ends}}
        \* the ends of the paths of 0, 1, ... MaxRows edges from x
        paths(x) == FoldLeft(LAMBDA ends, n : Append(ends, follow(ends[n])), <<{x}>>, [n \in 1..MaxRows |-> n])
    IN /\ \A p, q \in Operands :
            LET a == run_select(d, p, <<>>)
                b == run_select(d, q, <<>>)
                union == compound(p, "Union", q)
                all == compound(p, "UnionAll", q)
                both == compound(p, "Intersect", q)
                less == compound(p, "Except", q)
            IN /\ asSet(union) = asSet(a) \cup asSet(b) /\ NoDuplicates(union.rows)
               /\ asSet(both) = asSet(a) \cap asSet(b) /\ NoDuplicates(both.rows)
               /\ asSet(less) = asSet(a) \ asSet(b)
               /\ \A r \in asSet(less) : Count(less.rows, r) <= Count(a.rows, r)
               /\ \A r \in asSet(a) \cup asSet(b) : Count(all.rows, r) = Count(a.rows, r) + Count(b.rows, r)
       /\ \A i \in DOMAIN rows :
            LET x == At(rows[i], Col("id"))
                once == run_select(d, Closure(x[2], "Union"), <<>>)
                every == run_select(d, Closure(x[2], "UnionAll"), <<>>)
                ends == paths(x)
            IN /\ once.ok /\ NoDuplicates(once.rows)
               /\ asSet(once) = {<<y>> : y \in UNION {ends[n] : n \in DOMAIN ends}}
               /\ every.ok <=> ends[MaxRows + 1] \subseteq {Null}]_vars

-----------------------------------------------------------------------------
Parse(text) == parse_statement(Append(text, Eof))
Texts == {Written(s) : s \in Statements}
         \cup {Written(Stmt("Delete", [table |-> "t", filter |-> <<e>>])) : e \in Conditions}
\* A text cut short, and a text with one token missing.
Damaged(text) == {SubSeq(text, 1, n) : n \in 1..(Len(text) - 1)} \cup {RemoveAt(text, i) : i \in 2..Len(text)}
Bare(text) == SelectSeq(text, LAMBDA tok : tok \notin {Sym(","), Sym("("), Sym(")")})

\* What a text parses to is what is written there: the statement's own text
\* is the text it came from, up to commas and parentheses one may leave out.
\* CREATE TABLE is read up to its closing parenthesis, wherever that comes.
ReadAsWritten(text) ==
  LET r == Parse(text) IN
    \/ r.ok /\ IF r.val[1] = "CreateTable" THEN IsPrefix(Bare(Written(r.val)), Bare(text))
               ELSE Bare(Written(r.val)) = Bare(text)
    \/ ~r.ok /\ (r.val = "panic" => text[Len(text)] = Sym("."))
\* DELETE FROM t WHERE ((( v = 1 ))), and the same with NOT NOT NOT.
Nested(n, open, close) ==
  Words(<<"delete", "from", "t", "where">>) \o [i \in 1..n |-> open] \o <<Word("v"), OpTok("Eq"), Num(1)>> \o close
Closers(n) == [i \in 1..n |-> Sym(")")]
ParserIsExact ==
  /\ \A s \in Statements : Parse(Written(s)) = Parsed(Len(Written(s)) + 1, s)
  /\ \A s \in Statements : s[1] = "Select" => parse_select(Append(Written(s), Eof)).val = s[2]
  /\ \A e \in Conditions : Parse(Written(Stmt("Delete", [table |-> "t", filter |-> <<e>>]))).val[2].filter = <<e>>
  /\ \A text \in Texts : \A damaged \in Damaged(text) : ReadAsWritten(damaged)
  /\ \A n \in 0..(MaxParseDepth + 1) :
       /\ Parse(Nested(n, Sym("("), Closers(n))).ok = (n < MaxParseDepth)
       /\ Parse(Nested(n, Word("not"), <<>>)).ok = (n < MaxParseDepth)
InsertOf(row) == Stmt("Insert", [table |-> "t", columns |-> <<>>, values |-> <<row>>])

(***************************************************************************)
(* The parser reads what is written: a statement's text parses to that     *)
(* statement (precedence, HAVING aliases, clauses, set operations, WITH,   *)
(* windows, DDL, the INSERT of every stored row), a damaged text is        *)
(* refused or means what is left of it (CREATE TABLE: up to the            *)
(* parenthesis that closes it), parsing never runs past the end except at  *)
(* a dot that ends a FROM, and nesting is accepted exactly up to the depth *)
(* limit (parse_statement).                                                *)
(***************************************************************************)
ParserInvertsText ==
  [][Ask =>
    /\ ParserIsExact
    /\ \A id \in DOMAIN committed : Parse(Written(InsertOf(committed[id]))).val = InsertOf(committed[id])]_vars

=============================================================================
