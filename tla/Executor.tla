------------------------------ MODULE Executor ------------------------------
(***************************************************************************)
(* The executor of tpt-archon-relational (executor/value.rs, expr.rs,      *)
(* aggregate.rs, exec.rs and vector.rs) and the plans of planner.rs.       *)
(*                                                                         *)
(* A value is a tuple that starts with its kind.  A column name is a       *)
(* record: `q` is the sequence of its qualifiers, `n` its last part.       *)
(* An Option is a sequence of at most one element.  A predicate is "true", *)
(* "false", "null" or "error"; which error it is is not told apart.        *)
(* Floats appear only as averages, kept as exact fractions.                *)
(***************************************************************************)
EXTENDS Integers, Sequences, FiniteSets, SequencesExt

Null == <<"null">>
IntV(i) == <<"int", i>>
TextV(t) == <<"text", t>>          \* t: a sequence of characters
VectorV(v) == <<"vector", v>>      \* v: a sequence of integers
IsInt(v) == v[1] = "int"

Col(n) == [q |-> <<>>, n |-> <<n>>]
Qualified(q, n) == [q |-> <<q>>, n |-> <<n>>]
Prefixed(q, c) == [c EXCEPT !.q = <<q>> \o @]                  \* format!("{q}.{c}")
Qualify(q, c) == IF c.q = <<>> THEN Prefixed(q, c) ELSE c

\* The same sequence: the concatenation makes TLC evaluate its elements once.
Evaluated(s) == s \o <<>>

-----------------------------------------------------------------------------
\* impl Ord for Value: by kind first, NULL last.
KindRank(v) ==
  CASE v[1] = "int" -> 1 [] v[1] = "float" -> 3 [] v[1] = "text" -> 4
    [] v[1] = "vector" -> 5 [] v[1] = "null" -> 6

CharRank == [a |-> 1, b |-> 2, c |-> 3]
\* Lexicographic order on sequences of naturals, the shorter first.
SeqLess(s, t) ==
  \/ \E i \in DOMAIN t : i \in DOMAIN s /\ s[i] < t[i] /\ \A j \in 1..(i - 1) : s[j] = t[j]
  \/ Len(s) < Len(t) /\ \A j \in DOMAIN s : s[j] = t[j]
ValueLess(v, w) ==
  IF KindRank(v) # KindRank(w) THEN KindRank(v) < KindRank(w)
  ELSE CASE v[1] = "int" -> v[2] < w[2]
         [] v[1] = "float" -> v[2] * w[3] < w[2] * v[3]
         [] v[1] = "text" -> SeqLess([i \in DOMAIN v[2] |-> CharRank[v[2][i]]],
                                     [i \in DOMAIN w[2] |-> CharRank[w[2][i]]])
         [] v[1] = "vector" -> Len(v[2]) < Len(w[2]) \/ (Len(v[2]) = Len(w[2]) /\ SeqLess(v[2], w[2]))
         [] v[1] = "null" -> FALSE

\* Vec<Value> compares value by value.
RowLess(r, s) ==
  \/ \E i \in DOMAIN s : i \in DOMAIN r /\ ValueLess(r[i], s[i]) /\ \A j \in 1..(i - 1) : r[j] = s[j]
  \/ Len(r) < Len(s) /\ \A j \in DOMAIN r : r[j] = s[j]

\* sort_by: stable, by a strict order.
StableSort(s, Less(_, _)) ==
  LET place == Evaluated([i \in DOMAIN s |->
        Cardinality({j \in DOMAIN s : Less(s[j], s[i]) \/ (j <= i /\ ~Less(s[i], s[j]))})])
  IN Evaluated([p \in DOMAIN s |-> s[CHOOSE i \in DOMAIN s : place[i] = p]])

\* rows.sort(); rows.dedup()
SortedDedup(rows) ==
  LET sorted == StableSort(rows, RowLess)
      kept == SelectSeq([i \in DOMAIN sorted |-> i], LAMBDA i : i = 1 \/ sorted[i] # sorted[i - 1])
  IN [k \in DOMAIN kept |-> sorted[kept[k]]]

-----------------------------------------------------------------------------
\* iter().position(): 0 if there is none.
Position(columns, Test(_)) ==
  IF \E i \in DOMAIN columns : Test(columns[i])
  THEN Min({i \in DOMAIN columns : Test(columns[i])}) ELSE 0
column_index(columns, name) == Position(columns, LAMBDA c : c = name)

ValueAt(row, i) == IF i = 0 THEN <<>> ELSE <<row[i]>>
FirstHit(options) ==
  LET i == Position(options, LAMBDA o : o # <<>>) IN IF i = 0 THEN <<>> ELSE options[i]

\* find_value: the row itself, then the enclosing rows; an exact name before
\* one that only ends alike; a qualifier outside a non-empty `quals` never
\* falls back to the ending.
find_value_any_suffix(name, columns, row, outer, quals) ==
  LET scopes == <<<<columns, row>>>> \o outer
      exact == [i \in DOMAIN scopes |->
        ValueAt(scopes[i][2], column_index(scopes[i][1], name))]
      ending == [i \in DOMAIN scopes |->
        ValueAt(scopes[i][2], Position(scopes[i][1], LAMBDA c : c.n = name.n))]
  IN FirstHit(<<exact[1]>> \o ending)
find_value(name, columns, row, outer, quals) ==
  LET scopes == <<<<columns, row>>>> \o outer
      exact == [i \in DOMAIN scopes |->
        ValueAt(scopes[i][2], column_index(scopes[i][1], name))]
      ending == [i \in DOMAIN scopes |->
        ValueAt(scopes[i][2], Position(scopes[i][1], LAMBDA c : c.n = name.n))]
  IN FirstHit(IF name.q = <<>> THEN <<exact[1]>> \o ending
              ELSE IF quals # {} /\ name.q \notin quals THEN exact
              ELSE exact \o ending)

-----------------------------------------------------------------------------
Truth(b) == IF b THEN "true" ELSE "false"

\* eval_cmp, eval_float_cmp and eval_text_cmp, for values of one kind.
eval_cmp(op, l, r) ==
  CASE op = "Eq" -> l = r [] op = "Ne" -> l # r
    [] op = "Lt" -> ValueLess(l, r) [] op = "Le" -> ~ValueLess(r, l)
    [] op = "Gt" -> ValueLess(r, l) [] op = "Ge" -> ~ValueLess(l, r)

CompareValues(op, l, r) ==
  IF Null \in {l, r} THEN "null"
  ELSE IF l[1] # r[1] \/ l[1] = "vector" THEN "error"
  ELSE Truth(eval_cmp(op, l, r))

KleeneAnd(l, r) ==
  IF "error" \in {l, r} THEN "error" ELSE IF "false" \in {l, r} THEN "false"
  ELSE IF {l, r} = {"true"} THEN "true" ELSE "null"
KleeneOr(l, r) ==
  IF "error" \in {l, r} THEN "error" ELSE IF "true" \in {l, r} THEN "true"
  ELSE IF {l, r} = {"false"} THEN "false" ELSE "null"
KleeneNot(p) == CASE p = "true" -> "false" [] p = "false" -> "true" [] OTHER -> p

\* like_recurse: "%" takes any run, "_" one character.
RECURSIVE like_match(_, _)
like_match(text, pat) ==
  IF pat = <<>> THEN text = <<>>
  ELSE IF pat[1] = "%"
       THEN \E i \in 0..Len(text) : like_match(SubSeq(text, i + 1, Len(text)), Tail(pat))
       ELSE text # <<>> /\ pat[1] \in {"_", text[1]} /\ like_match(Tail(text), Tail(pat))

\* i64 division truncates toward zero.
Quot(a, b) == IF a >= 0 THEN a \div b ELSE -((-a) \div b)
civil_from_days(days) ==
  LET z == days + 719468
      era == Quot(IF z >= 0 THEN z ELSE z - 146096, 146097)
      doe == z - era * 146097
      yoe == Quot(doe - Quot(doe, 1460) + Quot(doe, 36524) - Quot(doe, 146096), 365)
      doy == doe - (365 * yoe + Quot(yoe, 4) - Quot(yoe, 100))
      mp == Quot(5 * doy + 2, 153)
      m == IF mp < 10 THEN mp + 3 ELSE mp - 9
      y == yoe + era * 400
  IN [Year |-> IF m <= 2 THEN y + 1 ELSE y, Month |-> m, Day |-> doy - Quot(153 * mp + 2, 5) + 1]

\* A value below the threshold is a date in days, a larger one a timestamp, in
\* seconds here (10^12 microseconds are 10^6 seconds).  Second is not reduced.
DAYS_LIKE_THRESHOLD == 1000000
extract_datetime_field(field, value) ==
  LET date == -DAYS_LIKE_THRESHOLD < value /\ value < DAYS_LIKE_THRESHOLD
      count(perDay) == IF date THEN value * perDay ELSE Quot(value, 86400 \div perDay)
      rem(a, b) == a - b * Quot(a, b)
  IN CASE field = "Hour" -> rem(count(24), 24)
       [] field = "Minute" -> rem(count(1440), 60)
       [] field = "Second" -> count(86400)
       [] OTHER -> civil_from_days(count(1))[field]

-----------------------------------------------------------------------------
\* agg_default_alias: the column an aggregate without AS ends up in.
agg_default_alias(func, column) ==
  [q |-> <<>>, n |-> IF column = Col("*") THEN <<func>> ELSE <<func>> \o column.n]

\* The predicate P of the value a name has here, "error" if it has none.
OfColumn(name, columns, row, outer, quals, P(_)) ==
  LET hit == find_value(name, columns, row, outer, quals) IN IF hit = <<>> THEN "error" ELSE P(hit[1])

\* The leaves of eval_expr_scoped.
eval_leaf(e, columns, row, outer, quals) ==
  LET Of(name, P(_)) == OfColumn(name, columns, row, outer, quals, P)
      IfInt(v, P(_)) == IF v = Null THEN "null" ELSE Truth(IsInt(v) /\ P(v[2]))
  IN CASE e.node = "Cmp" -> Of(e.column, LAMBDA v : CompareValues(e.op, v, e.value))
       [] e.node = "CmpColumn" ->
            Of(e.left, LAMBDA l : Of(e.right, LAMBDA r : CompareValues(e.op, l, r)))
       [] e.node = "IsNull" -> Of(e.column, LAMBDA v : Truth((v = Null) # e.negated))
       [] e.node = "Like" -> Of(e.column, LAMBDA v :
            IF v = Null THEN "null" ELSE Truth(v[1] = "text" /\ like_match(v[2], e.pattern)))
       [] e.node = "InInt" -> Of(e.column, LAMBDA v : IfInt(v, LAMBDA i : i \in e.values))
       [] e.node = "BetweenInt" -> Of(e.column, LAMBDA v : IfInt(v, LAMBDA i : e.low <= i /\ i <= e.high))
       [] e.node = "Agg" -> Of(agg_default_alias(e.func, e.column), LAMBDA v : Truth(v # Null))
       [] e.node = "AggCmp" ->
            Of(agg_default_alias(e.func, e.column), LAMBDA v : CompareValues(e.op, v, e.value))
       [] e.node = "ExtractCmp" -> Of(e.column, LAMBDA v :
            IF Null \in {v, e.value} THEN "null"
            ELSE IF ~(IsInt(v) /\ IsInt(e.value)) THEN "error"
            ELSE Truth(eval_cmp(e.op, IntV(extract_datetime_field(e.field, v[2])), e.value)))
       [] OTHER -> "error"       \* UnresolvedSubquery

RECURSIVE eval_expr_scoped(_, _, _, _, _)
eval_expr_scoped(e, columns, row, outer, quals) ==
  LET Sub(s) == eval_expr_scoped(s, columns, row, outer, quals) IN
    CASE e.node = "And" -> KleeneAnd(Sub(e.left), Sub(e.right))
      [] e.node = "Or" -> KleeneOr(Sub(e.left), Sub(e.right))
      [] e.node = "Not" -> KleeneNot(Sub(e.inner))
      [] OTHER -> eval_leaf(e, columns, row, outer, quals)

eval_expr(e, columns, row, quals) ==
  LET p == eval_expr_scoped(e, columns, row, <<>>, quals) IN IF p = "null" THEN "false" ELSE p

-----------------------------------------------------------------------------
Failed == [ok |-> FALSE, columns |-> <<>>, rows |-> <<>>]
Result(columns, rows) == [ok |-> TRUE, columns |-> Evaluated(columns), rows |-> Evaluated(rows)]

\* The rows where P is true; the first error fails the whole query.
Filtered(columns, rows, P(_)) ==
  LET verdict == Evaluated([i \in DOMAIN rows |-> P(rows[i])])
      kept == SelectSeq([i \in DOMAIN rows |-> i], LAMBDA i : verdict[i] = "true")
  IN IF \E i \in DOMAIN rows : verdict[i] = "error" THEN Failed
     ELSE Result(columns, [k \in DOMAIN kept |-> rows[kept[k]]])

\* Sum of f(i) over the positions of s.
SumOver(s, f(_)) == FoldLeft(LAMBDA total, x : total + f(x), 0, s)

\* eval_aggregate: an Option, empty for an unknown column.  The code counts
\* every row for COUNT, and the numbers only for the others.
eval_aggregate(func, column, columns, rows) ==
  LET idx == column_index(columns, column)
      numbers == SelectSeq(rows, LAMBDA r : IsInt(r[idx]))
      ints == {numbers[i][idx][2] : i \in DOMAIN numbers}
      sum == SumOver(numbers, LAMBDA r : r[idx][2])
  IN IF func = "Count" THEN <<IntV(Len(rows))>>
     ELSE IF idx = 0 THEN <<>>
     ELSE IF numbers = <<>> THEN <<Null>>
     ELSE <<CASE func = "Sum" -> IntV(sum)
              [] func = "Avg" -> <<"float", sum, Len(numbers)>>
              [] func = "Min" -> IntV(Min(ints))
              [] func = "Max" -> IntV(Max(ints))>>

\* aggregates: a sequence of [alias, func, column].
aggregate_table(columns, rows, group_by, aggregates) ==
  LET slots == Evaluated([i \in DOMAIN group_by |-> column_index(columns, group_by[i])])
      key(r) == Evaluated([i \in DOMAIN slots |-> r[slots[i]]])
      keys == SortedDedup([i \in DOMAIN rows |-> key(rows[i])])
      groups == IF group_by = <<>> THEN <<rows>>
                ELSE Evaluated([k \in DOMAIN keys |-> SelectSeq(rows, LAMBDA r : key(r) = keys[k])])
      cells(g) == [a \in DOMAIN aggregates |->
                     eval_aggregate(aggregates[a].func, aggregates[a].column, columns, g)]
  IN IF \/ \E i \in DOMAIN slots : slots[i] = 0
        \/ \E k \in DOMAIN groups, a \in DOMAIN aggregates : cells(groups[k])[a] = <<>>
     THEN Failed
     ELSE Result(group_by \o [a \in DOMAIN aggregates |-> aggregates[a].alias],
                 [k \in DOMAIN groups |->
                    (IF group_by = <<>> THEN <<>> ELSE keys[k])
                      \o [a \in DOMAIN aggregates |-> cells(groups[k])[a][1]]])

-----------------------------------------------------------------------------
\* Rows in the order of an ORDER BY: a sequence of [column, descending].
OrderedBefore(columns, order_by, r, s) ==
  \E k \in DOMAIN order_by :
    LET at(o) == column_index(columns, o.column)
        i == at(order_by[k])
    IN /\ \A j \in 1..(k - 1) : r[at(order_by[j])] = s[at(order_by[j])]
       /\ IF order_by[k].descending THEN ValueLess(s[i], r[i]) ELSE ValueLess(r[i], s[i])

Sorted(rs, order_by) ==
  IF ~rs.ok \/ \E k \in DOMAIN order_by : column_index(rs.columns, order_by[k].column) = 0 THEN Failed
  ELSE Result(rs.columns, StableSort(rs.rows, LAMBDA r, s : OrderedBefore(rs.columns, order_by, r, s)))

Projected(rs, stmt) ==
  LET at == Evaluated([i \in DOMAIN stmt.columns |-> column_index(rs.columns, stmt.columns[i])]) IN
    IF ~rs.ok \/ stmt.star \/ stmt.columns = <<>> THEN rs
    ELSE IF \E i \in DOMAIN at : at[i] = 0 THEN Failed
    ELSE Result(stmt.columns, [k \in DOMAIN rs.rows |-> Evaluated([i \in DOMAIN at |-> rs.rows[k][at[i]]])])

Limited(rs, limit) ==
  IF ~rs.ok \/ limit = <<>> THEN rs
  ELSE [rs EXCEPT !.rows = SubSeq(@, 1, Min({limit[1], Len(@)}))]

\* plan_select stacks its nodes in this order: the plan is the sequence of
\* them, the scan first.
plan_select_limits_first(stmt) ==
  <<"Scan">> \o (IF stmt.filter # <<>> THEN <<"Filter">> ELSE <<>>)
    \o (IF stmt.group_by # <<>> \/ stmt.aggregates # <<>> THEN <<"Aggregate">> ELSE <<>>)
    \o <<"Project">> \o (IF stmt.limit # <<>> THEN <<"Limit">> ELSE <<>>)
    \o (IF stmt.order_by # <<>> THEN <<"Sort">> ELSE <<>>)
plan_select(stmt) ==
  <<"Scan">> \o (IF stmt.filter # <<>> THEN <<"Filter">> ELSE <<>>)
    \o (IF stmt.group_by # <<>> \/ stmt.aggregates # <<>> THEN <<"Aggregate">> ELSE <<>>)
    \o <<"Project">> \o (IF stmt.order_by # <<>> THEN <<"Sort">> ELSE <<>>)
    \o (IF stmt.limit # <<>> THEN <<"Limit">> ELSE <<>>)

\* The aggregate node ignores the errors of its HAVING.
AggregateNode(rs, stmt) ==
  LET out == aggregate_table(rs.columns, rs.rows, stmt.group_by, stmt.aggregates) IN
    IF ~rs.ok \/ ~out.ok \/ stmt.having = <<>> THEN out
    ELSE [out EXCEPT !.rows =
            SelectSeq(@, LAMBDA r : eval_expr(stmt.having[1], out.columns, r, {}) = "true")]

execute_node(node, stmt, rs) ==
  CASE node = "Scan" -> rs
    [] node = "Filter" ->
         Filtered(rs.columns, rs.rows, LAMBDA r : eval_expr(stmt.filter[1], rs.columns, r, {}))
    [] node = "Aggregate" -> AggregateNode(rs, stmt)
    [] node = "Project" -> Projected(rs, stmt)
    [] node = "Sort" -> Sorted(rs, stmt.order_by)
    [] node = "Limit" -> Limited(rs, stmt.limit)

\* execute, on the table `rs`; a failure stays a failure.
execute(stmt, rs) ==
  FoldLeft(LAMBDA acc, node : IF acc.ok THEN execute_node(node, stmt, acc) ELSE acc,
           rs, plan_select(stmt))

-----------------------------------------------------------------------------
DotProduct(v, w) == SumOver([i \in DOMAIN v |-> <<v[i], w[i]>>], LAMBDA p : p[1] * p[2])

\* vector_topk: the positions of the k best embeddings, best first.
vector_topk(embeddings, query, k) ==
  LET scored == StableSort([i \in DOMAIN embeddings |-> i], LAMBDA i, j :
                  DotProduct(embeddings[i], query) > DotProduct(embeddings[j], query))
  IN SubSeq(scored, 1, Min({k, Len(scored)}))
=============================================================================
