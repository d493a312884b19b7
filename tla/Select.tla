------------------------------- MODULE Select -------------------------------
(***************************************************************************)
(* How the database runs a query (database/select.rs, subquery.rs and the  *)
(* reference checks of mod.rs): table references, joins, WHERE with        *)
(* subqueries and their cache, grouping, WITH and WITH RECURSIVE, set      *)
(* operations and vector search.                                           *)
(*                                                                         *)
(* A statement is a record of the fields of SelectStatement; a table       *)
(* reference is [name, alias, query], with `query` an Option that is empty *)
(* for a named table, and alias "" for none.  `db` is [tables, stored,     *)
(* views, vectors]: by name, a table as the transaction sees it and as its *)
(* tree stores it, a view's statement, and a table's f32[] columns.        *)
(***************************************************************************)
EXTENDS Window

CONSTANT MaxRecursiveIterations   \* MAX_RECURSIVE_ITERATIONS, 10000 in the code

Named(name, alias) == [name |-> name, alias |-> alias, query |-> <<>>]
Derived(query, alias) == [name |-> alias, alias |-> alias, query |-> <<query>>]
NameOf(ref) == IF ref.alias = "" THEN ref.name ELSE ref.alias

\* SELECT * FROM ref, to be refined with EXCEPT.
From(ref) ==
  [table |-> ref, joins |-> <<>>, filter |-> <<>>, window_funcs |-> <<>>, group_by |-> <<>>,
   aggregates |-> <<>>, having |-> <<>>, columns |-> <<>>, star |-> TRUE, order_by |-> <<>>,
   limit |-> <<>>, with_ctes |-> <<>>, order_by_cosine |-> <<>>]

SubqueryNodes == {"Exists", "InSubquery", "ScalarCmp"}

\* A subquery that has to be run for a row may be this many queries deep.
MaxCorrelation == 8

-----------------------------------------------------------------------------
RECURSIVE select_references_table(_, _), expr_references_table(_, _)
table_ref_references_table(ref, name) ==
  IF ref.query = <<>> THEN ref.name = name ELSE select_references_table(ref.query[1], name)
select_references_table(stmt, name) ==
  \/ table_ref_references_table(stmt.table, name)
  \/ \E i \in DOMAIN stmt.joins : table_ref_references_table(stmt.joins[i].table, name)
  \/ stmt.filter # <<>> /\ expr_references_table(stmt.filter[1], name)
  \/ stmt.having # <<>> /\ expr_references_table(stmt.having[1], name)
expr_references_table(e, name) ==
  CASE e.node \in {"And", "Or"} -> expr_references_table(e.left, name) \/ expr_references_table(e.right, name)
    [] e.node = "Not" -> expr_references_table(e.inner, name)
    [] e.node \in SubqueryNodes -> select_references_table(e.query, name)
    [] OTHER -> FALSE

-----------------------------------------------------------------------------
\* walk_subqueries: the subquery nodes of a predicate, depth first.
RECURSIVE Subqueries(_)
Subqueries(e) ==
  CASE e.node \in {"And", "Or"} -> Subqueries(e.left) \o Subqueries(e.right)
    [] e.node = "Not" -> Subqueries(e.inner)
    [] e.node \in SubqueryNodes -> <<e>>
    [] OTHER -> <<>>

column_resolves_locally(name, own) ==
  \/ column_index(own, name) # 0
  \/ name.q = <<>> /\ Position(own, LAMBDA c : c.n = name.n) # 0

\* The columns of `parent` under the names they have in the subquery: the
\* code has no other idea of what the subquery's own tables contain.
resolve_query_own_columns(query, parent) ==
  LET strip(c, q) == [c EXCEPT !.q = <<q>> \o Tail(@)]
      names(ref) == {ref.name, NameOf(ref)}
      ofTable == IF query.table.query # <<>> THEN parent
        ELSE LET mine == SelectSeq(parent, LAMBDA c : c.q = <<>> \/ c.q[1] \in names(query.table)) IN
               [i \in DOMAIN mine |->
                  IF mine[i].q = <<>> THEN Prefixed(NameOf(query.table), mine[i])
                  ELSE strip(mine[i], NameOf(query.table))]
      ofJoin(ref) ==
        LET theirs == SelectSeq(parent, LAMBDA c : c.q # <<>> /\ c.q[1] \in names(ref)) IN
          [i \in DOMAIN theirs |-> strip(theirs[i], NameOf(ref))]
      own == ofTable \o FlattenSeq([j \in DOMAIN query.joins |-> ofJoin(query.joins[j].table)])
  IN IF own = <<>> THEN parent ELSE own

RECURSIVE expr_references_outer(_, _)
expr_references_outer(e, own) ==
  CASE e.node \in {"And", "Or"} -> expr_references_outer(e.left, own) \/ expr_references_outer(e.right, own)
    [] e.node = "Not" -> expr_references_outer(e.inner, own)
    [] e.node \in {"Agg", "AggCmp"} -> FALSE
    [] e.node = "CmpColumn" -> ~column_resolves_locally(e.left, own) \/ ~column_resolves_locally(e.right, own)
    [] e.node \in SubqueryNodes ->
         /\ e.query.filter # <<>>
         /\ expr_references_outer(e.query.filter[1], resolve_query_own_columns(e.query, own))
    [] OTHER -> ~column_resolves_locally(e.column, own)

\* The answer of a comparison with a scalar subquery: never NULL.
ScalarVerdict(op, lhs, rhs) == Truth(Null \notin {lhs, rhs} /\ eval_cmp(op, lhs, rhs))

-----------------------------------------------------------------------------
\* The rows of a join; verdict[i][j] is that of its ON for a pair of rows.
JoinRows(jtype, lrows, rrows, lnull, rnull, verdict) ==
  LET hit(i, j) == verdict[i][j] = "true"
      ofLeft(i) == LET js == SelectSeq([j \in DOMAIN rrows |-> j], LAMBDA j : hit(i, j)) IN
                     [k \in DOMAIN js |-> lrows[i] \o rrows[js[k]]]
      ofRight(j) == LET is == SelectSeq([i \in DOMAIN lrows |-> i], LAMBDA i : hit(i, j)) IN
                      [k \in DOMAIN is |-> lrows[is[k]] \o rrows[j]]
      loneLeft(i) == IF ofLeft(i) = <<>> THEN <<lrows[i] \o rnull>> ELSE <<>>
      loneRight(j) == IF ofRight(j) = <<>> THEN <<lnull \o rrows[j]>> ELSE <<>>
      lefts(f(_)) == FlattenSeq([i \in DOMAIN lrows |-> f(i)])
      rights(f(_)) == FlattenSeq([j \in DOMAIN rrows |-> f(j)])
  IN CASE jtype \in {"Cross", "Inner"} -> lefts(ofLeft)
       [] jtype = "Left" -> lefts(LAMBDA i : ofLeft(i) \o loneLeft(i))
       [] jtype = "Right" -> rights(LAMBDA j : ofRight(j) \o loneRight(j))
       [] jtype = "Full" -> lefts(ofLeft) \o lefts(loneLeft) \o rights(loneRight)

Nulls(columns) == [i \in DOMAIN columns |-> Null]

\* One JOIN: `rs` so far, the joined table `right`, the FROM table's name.
JoinOne(rs, right, join, base, quals) ==
  LET columns == rs.columns \o [i \in DOMAIN right.columns |-> Prefixed(NameOf(join.table), right.columns[i])]
      on_cols == Evaluated([i \in DOMAIN columns |-> Qualify(base, columns[i])])
      verdict == Evaluated([i \in DOMAIN rs.rows |-> Evaluated([j \in DOMAIN right.rows |->
        IF join.jtype = "Cross" THEN "true"
        ELSE eval_expr(join.on_expr[1], on_cols, rs.rows[i] \o right.rows[j], quals)])])
  IN IF ~rs.ok \/ ~right.ok \/ \E i \in DOMAIN rs.rows, j \in DOMAIN right.rows : verdict[i][j] = "error"
     THEN Failed
     ELSE Result(columns, JoinRows(join.jtype, rs.rows, right.rows,
                                   Nulls(rs.columns), Nulls(right.columns), verdict))

-----------------------------------------------------------------------------
MergeCtes(outer_ctes, own) ==
  FoldLeft(LAMBDA acc, cte : Append(SelectSeq(acc, LAMBDA c : c.name # cte.name), cte), outer_ctes, own)

CtesRejected(db, ctes) ==
  \E i \in DOMAIN ctes :
    \/ ctes[i].name \in DOMAIN db.views \cup DOMAIN db.tables
    \/ select_references_table(ctes[i].query, ctes[i].name)

RECURSIVE run_select_scoped(_, _, _, _, _, _), run_recursive_cte(_, _, _), eval_where(_, _, _, _, _)

\* resolve_table_ref_with_ctes: the binding of a recursive term, then WITH,
\* then views, then tables.  `binding` is an Option of [name, table].
resolve_table_ref(db, ref, ctes, binding) ==
  LET c == Position(ctes, LAMBDA cte : cte.name = ref.name)
      inner == run_select_scoped(db, ref.query[1], <<>>, <<>>, ctes, <<>>)
  IN IF ref.query # <<>>
     THEN [inner EXCEPT !.columns = [i \in DOMAIN @ |-> Prefixed(ref.alias, @[i])]]
     ELSE IF binding # <<>> /\ binding[1].name = ref.name THEN binding[1].table
     ELSE IF c # 0
     THEN IF ctes[c].recursive # <<>> THEN run_recursive_cte(db, ctes[c], ctes)
          ELSE run_select_scoped(db, ctes[c].query, <<>>, <<>>, ctes, <<>>)
     ELSE IF ref.name \in DOMAIN db.views THEN run_select_scoped(db, db.views[ref.name], <<>>, <<>>, <<>>, <<>>)
     ELSE IF ref.name \in DOMAIN db.tables THEN db.tables[ref.name]
     ELSE Failed

\* One entry per subquery node: <<"Uncached">>, or its kind and its answer.
CacheEntry(db, node, own, params, ctes) ==
  LET rs == run_select_scoped(db, node.query, params, <<>>, ctes, <<>>) IN
    IF expr_references_outer(node, own) \/ ~rs.ok THEN <<"Uncached">>
    ELSE CASE node.node = "Exists" -> <<"Exists", rs.rows # <<>>>>
           [] node.node = "InSubquery" -> <<"In", {rs.rows[i][1] : i \in DOMAIN rs.rows}>>
           [] node.node = "ScalarCmp" /\ Len(rs.rows) = 1 /\ Len(rs.columns) = 1 -> <<"Scalar", rs.rows[1][1]>>
           [] OTHER -> <<"Uncached">>
build_subquery_cache(db, e, own, params, ctes) ==
  LET nodes == Subqueries(e) IN
    Evaluated([i \in DOMAIN nodes |-> CacheEntry(db, nodes[i], own, params, ctes)])

\* A subquery node on one row: its cache entry, or its query run for the row.
\* ctx: [columns, params, outer, ctes, scope, quals] of the enclosing query.
\* Too deep a subquery fails an assertion; here it has no answer, like an error.
SubqueryVerdict(db, e, row, ctx, entry) ==
  LET lhs == find_value(e.column, ctx.columns, row, ctx.outer, ctx.quals)
      rs == IF 1 + Len(ctx.outer) > MaxCorrelation THEN Failed
            ELSE run_select_scoped(db, e.query, ctx.params, <<<<ctx.scope, row>>>> \o ctx.outer, ctx.ctes, <<>>)
  IN CASE e.node = "Exists" ->
            IF entry[1] = "Exists" THEN Truth(entry[2])
            ELSE IF ~rs.ok THEN "error" ELSE Truth(rs.rows # <<>>)
       [] e.node = "InSubquery" ->
            IF lhs = <<>> THEN "error"
            ELSE IF entry[1] = "In" THEN Truth(lhs[1] \in entry[2])
            ELSE IF ~rs.ok \/ Len(rs.columns) # 1 THEN "error"
            ELSE Truth(\E i \in DOMAIN rs.rows : rs.rows[i][1] = lhs[1])
       [] e.node = "ScalarCmp" ->
            IF lhs = <<>> THEN "error"
            ELSE IF entry[1] = "Scalar" THEN ScalarVerdict(e.op, lhs[1], entry[2])
            ELSE IF ~rs.ok \/ Len(rs.columns) # 1 \/ Len(rs.rows) # 1 THEN "error"
            ELSE ScalarVerdict(e.op, lhs[1], rs.rows[1][1])

\* `cache` holds the entries of the subqueries of e, in their order.
eval_where(db, e, row, ctx, cache) ==
  LET n == Len(Subqueries(e.left))
      left == eval_where(db, e.left, row, ctx, SubSeq(cache, 1, n))
      right == eval_where(db, e.right, row, ctx, SubSeq(cache, n + 1, Len(cache)))
  IN CASE e.node = "And" -> KleeneAnd(left, right)
       [] e.node = "Or" -> KleeneOr(left, right)
       [] e.node = "Not" -> KleeneNot(eval_where(db, e.inner, row, ctx, cache))
       [] e.node \in SubqueryNodes ->
            SubqueryVerdict(db, e, row, ctx, IF cache = <<>> THEN <<"Uncached">> ELSE cache[1])
       [] OTHER -> eval_expr_scoped(e, ctx.columns, row, ctx.outer, ctx.quals)

\* WHERE, and HAVING: the rows where the predicate is true.
Where(db, rs, pred, ctx) ==
  IF ~rs.ok \/ pred = <<>> THEN rs
  ELSE LET cache == build_subquery_cache(db, pred[1], ctx.columns, ctx.params, ctx.ctes) IN
         Filtered(rs.columns, rs.rows, LAMBDA r : eval_where(db, pred[1], r, ctx, cache))

\* run_vector_topk: WHERE, then the k best of the rows with a vector.  A
\* derived table's rows come from its query, a named one's from its tree (the
\* path without an index), whatever the transaction has buffered; the answer
\* has the names of the SELECT list but the rows in full.
run_vector_topk(db, stmt, params) ==
  LET ob == stmt.order_by_cosine[1]
      query == params[ob.param]
      source == IF stmt.table.query # <<>> THEN resolve_table_ref(db, stmt.table, <<>>, <<>>)
                ELSE IF stmt.table.name \in DOMAIN db.stored THEN db.stored[stmt.table.name]
                ELSE Failed
      slot == column_index(source.columns, ob.column)
      ctx == [columns |-> source.columns, params |-> params, outer |-> <<>>, ctes |-> <<>>,
              scope |-> source.columns, quals |-> {}]
      kept == IF stmt.filter = <<>> THEN source
              ELSE Filtered(source.columns, source.rows,
                            LAMBDA r : eval_where(db, stmt.filter[1], r, ctx, <<>>))
      rows == SelectSeq(kept.rows, LAMBDA r : r[slot][1] = "vector")
      top == vector_topk([i \in DOMAIN rows |-> rows[i][slot][2]], query, ob.k)
  IN IF \/ ob.param \notin DOMAIN params \/ ~source.ok \/ slot = 0 \/ ~kept.ok
        \/ stmt.table.query = <<>> /\ ob.column \notin db.vectors[stmt.table.name]
     THEN Failed
     ELSE Result(IF stmt.star \/ stmt.columns = <<>> THEN source.columns ELSE stmt.columns,
                 [i \in DOMAIN top |-> rows[top[i]]])

\* The statement without the clauses that are applied before planning.
ForPlanning_keeps_groups(stmt) == [stmt EXCEPT !.having = <<>>, !.filter = <<>>]
ForPlanning(stmt) == [stmt EXCEPT !.group_by = <<>>, !.aggregates = <<>>, !.having = <<>>, !.filter = <<>>]

run_select_scoped(db, stmt, params, outer, outer_ctes, binding) ==
  LET ctes == MergeCtes(outer_ctes, stmt.with_ctes)
      base == NameOf(stmt.table)
      quals == {<<base>>} \cup {<<NameOf(stmt.joins[j].table)>> : j \in DOMAIN stmt.joins}
      joined == FoldLeft(
        LAMBDA rs, join : JoinOne(rs, resolve_table_ref(db, join.table, ctes, binding), join, base, quals),
        resolve_table_ref(db, stmt.table, ctes, binding), stmt.joins)
      Ctx(rs, scope) == [columns |-> rs.columns, params |-> params, outer |-> outer, ctes |-> ctes,
                         scope |-> scope, quals |-> quals]
      filtered == Where(db, joined, stmt.filter,
        Ctx(joined, Evaluated([i \in DOMAIN joined.columns |-> Qualify(base, joined.columns[i])])))
      windowed == IF stmt.window_funcs = <<>> THEN filtered
                  ELSE apply_window_funcs(filtered, stmt.window_funcs)
      grouped == IF ~windowed.ok \/ (stmt.group_by = <<>> /\ stmt.aggregates = <<>>) THEN windowed
                 ELSE aggregate_table(windowed.columns, windowed.rows, stmt.group_by, stmt.aggregates)
      having == Where(db, grouped, stmt.having, Ctx(grouped, grouped.columns))
  IN IF stmt.order_by_cosine # <<>> THEN run_vector_topk(db, stmt, params)
     ELSE IF CtesRejected(db, stmt.with_ctes) THEN Failed
     ELSE execute(ForPlanning(stmt), having)

run_select(db, stmt, params) == run_select_scoped(db, stmt, params, <<>>, <<>>, <<>>)

-----------------------------------------------------------------------------
\* The rounds of a recursive term: `all` so far, `working` the last round's
\* new rows.  The code gives up after MaxRecursiveIterations rounds.
RECURSIVE RecursiveRounds(_, _, _, _, _, _)
RecursiveRounds(db, cte, ctes, all, working, round) ==
  LET term == cte.recursive[1]
      step == run_select_scoped(db, term.query, <<>>, <<>>, ctes,
                <<[name |-> cte.name, table |-> Result(all.columns, working)]>>)
      next == IF term.op # "Union" THEN step.rows
              ELSE SortedDedup(SelectSeq(step.rows, LAMBDA r : ~Contains(all.rows, r)))
  IN IF working = <<>> THEN all
     ELSE IF round > MaxRecursiveIterations \/ ~step.ok \/ Len(step.columns) # Len(all.columns) THEN Failed
     ELSE IF next = <<>> THEN all
     ELSE RecursiveRounds(db, cte, ctes, Result(all.columns, all.rows \o next), next, round + 1)

run_recursive_cte(db, cte, ctes) ==
  LET anchor == run_select_scoped(db, cte.query, <<>>, <<>>, ctes, <<>>)
      first == IF cte.recursive[1].op = "Union" THEN SortedDedup(anchor.rows) ELSE anchor.rows
  IN IF ~anchor.ok THEN Failed
     ELSE RecursiveRounds(db, cte, ctes, Result(anchor.columns, first), first, 1)

\* One set operation of a compound statement.
SetOperation_keeps_duplicates(op, rows, right) ==
  CASE op = "UnionAll" -> rows \o right
    [] op = "Union" -> SortedDedup(rows \o right)
    [] op = "Intersect" -> SelectSeq(rows, LAMBDA r : Contains(right, r))
    [] op = "Except" -> SelectSeq(rows, LAMBDA r : ~Contains(right, r))
SetOperation(op, rows, right) ==
  CASE op = "UnionAll" -> rows \o right
    [] op = "Union" -> SortedDedup(rows \o right)
    [] op = "Intersect" -> SortedDedup(SelectSeq(rows, LAMBDA r : Contains(right, r)))
    [] op = "Except" -> SelectSeq(rows, LAMBDA r : ~Contains(right, r))

\* stmt: [first, operations (a sequence of [op, query]), order_by, limit].
run_compound(db, stmt, params) ==
  LET apply(rs, o) ==
        LET right == run_select(db, o.query, params) IN
          IF ~rs.ok \/ ~right.ok \/ Len(rs.columns) # Len(right.columns) THEN Failed
          ELSE Result(rs.columns, SetOperation(o.op, rs.rows, right.rows))
      all == FoldLeft(apply, run_select(db, stmt.first, params), stmt.operations)
      sorted == IF stmt.order_by = <<>> THEN all ELSE Sorted(all, stmt.order_by)
  IN Limited(sorted, stmt.limit)
=============================================================================
