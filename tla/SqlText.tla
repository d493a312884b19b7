------------------------------ MODULE SqlText -------------------------------
(***************************************************************************)
(* The reference the parser is checked against: how a statement is         *)
(* written.  Parentheses stand only where AND, OR and NOT need them, an    *)
(* alias only where it differs from the default, and a HAVING column that  *)
(* holds an aggregate is written as the call.                              *)
(***************************************************************************)
EXTENDS Parser

Separated(parts, sep) ==
  IF parts = <<>> THEN <<>> ELSE FoldLeft(LAMBDA acc, part : acc \o sep \o part, Head(parts), Tail(parts))
Commas(parts) == Separated(parts, <<Sym(",")>>)
Words(ws) == [i \in DOMAIN ws |-> Word(ws[i])]
InParens(text) == <<Sym("(")>> \o text \o <<Sym(")")>>
If(condition, text) == IF condition THEN text ELSE <<>>
NameText(c) == Separated([i \in DOMAIN (c.q \o c.n) |-> <<Word((c.q \o c.n)[i])>>], <<Sym(".")>>)
NamesText(cs) == Commas([i \in DOMAIN cs |-> NameText(cs[i])])
WordOf(f, name) == CHOOSE w \in DOMAIN f : f[w] = name

LiteralText(v) ==
  CASE v[1] = "int" -> <<Num(v[2])>>
    [] v[1] = "text" -> <<Str(v[2])>>
    [] v[1] = "bool" -> <<Word(IF v[2] THEN "true" ELSE "false")>>
    [] v[1] = "null" -> <<Word("null")>>
    [] v[1] = "vector" -> <<Sym("[")>> \o Commas([i \in DOMAIN v[2] |-> <<Num(v[2][i])>>]) \o <<Sym("]")>>
CallText(func, column) ==
  <<Word(WordOf(AggregateFunc, func))>> \o InParens(IF column = Col("*") THEN <<Sym("*")>> ELSE NameText(column))

OrderText(order) == Commas([i \in DOMAIN order |-> NameText(order[i].column) \o If(order[i].descending, <<Word("desc")>>)])
BoundText(b) ==
  CASE b = UnboundedPreceding -> Words(<<"unbounded", "preceding">>)
    [] b = UnboundedFollowing -> Words(<<"unbounded", "following">>)
    [] b = CurrentRow -> Words(<<"current", "row">>)
    [] b[1] = "Preceding" -> <<Num(b[2]), Word("preceding")>>
    [] b[1] = "Following" -> <<Num(b[2]), Word("following")>>
FrameText(f) ==
  <<Word(IF f.kind = "Rows" THEN "rows" ELSE "range"), Word("between")>>
    \o BoundText(f.start) \o <<Word("and")>> \o BoundText(f.end)
WindowText(call) ==
  (IF call.func = "Agg" THEN CallText(call.agg, call.column)
   ELSE <<Word(WordOf(WindowFunc, call.func))>> \o InParens(If(call.func \in {"Lag", "Lead"},
          NameText(call.column) \o <<Sym(","), Num(call.offset)>>
            \o If(call.default # <<>>, <<Sym(",")>> \o LiteralText(call.default[1])))))
  \o <<Word("over")>> \o InParens(
       If(call.partition_by # <<>>, Words(<<"partition", "by">>) \o NamesText(call.partition_by))
         \o If(call.order_by # <<>>, Words(<<"order", "by">>) \o OrderText(call.order_by))
         \o If(call.frame # <<>>, FrameText(call.frame[1])))

\* How tightly an expression binds.
Strength(e) == CASE e.node = "Or" -> 1 [] e.node = "And" -> 2 [] e.node = "Not" -> 3 [] OTHER -> 4

RECURSIVE ExprText(_, _), SelectText(_)
\* `aggs`: the aggregates a HAVING condition may speak of, none elsewhere.
Within(e, strength, aggs) ==
  IF Strength(e) >= strength THEN ExprText(e, aggs) ELSE InParens(ExprText(e, aggs))
ColumnText(c, aggs) ==
  LET i == Position(aggs, LAMBDA a : a.alias = c) IN IF i = 0 THEN NameText(c) ELSE CallText(aggs[i].func, aggs[i].column)
ExprText(e, aggs) ==
  CASE e.node = "Or" -> Within(e.left, 1, aggs) \o <<Word("or")>> \o Within(e.right, 2, aggs)
    [] e.node = "And" -> Within(e.left, 2, aggs) \o <<Word("and")>> \o Within(e.right, 3, aggs)
    [] e.node = "Not" -> <<Word("not")>> \o Within(e.inner, 3, aggs)
    [] e.node = "Cmp" -> ColumnText(e.column, aggs) \o <<OpTok(e.op)>> \o LiteralText(e.value)
    [] e.node = "CmpColumn" -> NameText(e.left) \o <<OpTok(e.op)>> \o NameText(e.right)
    [] e.node = "IsNull" ->
         IF e.negated /\ \E i \in DOMAIN aggs : aggs[i].alias = e.column THEN ColumnText(e.column, aggs)
         ELSE NameText(e.column) \o Words(IF e.negated THEN <<"is", "not", "null">> ELSE <<"is", "null">>)
    [] e.node = "Like" -> NameText(e.column) \o <<Word("like"), Str(e.pattern)>>
    [] e.node = "BetweenInt" -> NameText(e.column) \o <<Word("between"), Num(e.low), Word("and"), Num(e.high)>>
    [] e.node = "InInt" ->
         LET vs == SetToSortSeq(e.values, <) IN
           NameText(e.column) \o <<Word("in")>> \o InParens(Commas([i \in DOMAIN vs |-> <<Num(vs[i])>>]))
    [] e.node = "ExtractCmp" ->
         <<Word("extract")>> \o InParens(<<Word(WordOf(DateTimeField, e.field)), Word("from")>> \o NameText(e.column))
           \o <<OpTok(e.op)>> \o LiteralText(e.value)
    [] e.node = "Exists" -> <<Word("exists")>> \o InParens(SelectText(e.query))
    [] e.node = "InSubquery" -> NameText(e.column) \o <<Word("in")>> \o InParens(SelectText(e.query))
    [] e.node = "ScalarCmp" -> NameText(e.column) \o <<OpTok(e.op)>> \o InParens(SelectText(e.query))

AliasText(alias, default) == If(alias # default, <<Word("as")>> \o NameText(alias))
ItemText(c, stmt) ==
  LET a == Position(stmt.aggregates, LAMBDA x : x.alias = c)
      w == Position(stmt.window_funcs, LAMBDA x : x.alias = c)
      agg == stmt.aggregates[a]
      call == stmt.window_funcs[w].call
  IN CASE a # 0 -> CallText(agg.func, agg.column) \o AliasText(c, agg_default_alias(agg.func, agg.column))
       [] w # 0 -> WindowText(call) \o AliasText(c, IF call.func = "Agg" THEN agg_default_alias(call.agg, call.column)
                                                    ELSE Col(WordOf(WindowFunc, call.func)))
       [] OTHER -> NameText(c)
CatalogNames == {"pg_type", "pg_class"}
TableText(name) ==
  IF \E n \in CatalogNames : name = "pg_catalog." \o n
  THEN <<Word("pg_catalog"), Sym("."), Word(CHOOSE n \in CatalogNames : name = "pg_catalog." \o n)>>
  ELSE <<Word(name)>>
RefText(ref) ==
  IF ref.query = <<>> THEN TableText(ref.name) \o If(ref.alias # "", Words(<<"as", ref.alias>>))
  ELSE InParens(SelectText(ref.query[1])) \o Words(<<"as", ref.alias>>)
JoinText(j) ==
  Words(CASE j.jtype = "Inner" -> <<"join">> [] j.jtype = "Left" -> <<"left", "join">> [] j.jtype = "Right" -> <<"right", "join">>
          [] j.jtype = "Full" -> <<"full", "join">> [] j.jtype = "Cross" -> <<"cross", "join">>)
    \o RefText(j.table) \o If(j.on_expr # <<>>, <<Word("on")>> \o ExprText(j.on_expr[1], <<>>))
WhereText(filter) == If(filter # <<>>, <<Word("where")>> \o ExprText(filter[1], <<>>))
TailText(stmt) ==
  If(stmt.order_by # <<>>, Words(<<"order", "by">>) \o OrderText(stmt.order_by))
    \o If(stmt.limit # <<>>, <<Word("limit"), Num(stmt.limit[1])>>)
SelectText(stmt) ==
  <<Word("select")>>
    \o (IF stmt.star THEN <<Sym("*")>> ELSE Commas([i \in DOMAIN stmt.columns |-> ItemText(stmt.columns[i], stmt)]))
    \o <<Word("from")>> \o RefText(stmt.table) \o FlattenSeq([i \in DOMAIN stmt.joins |-> JoinText(stmt.joins[i])])
    \o WhereText(stmt.filter)
    \o If(stmt.group_by # <<>>, Words(<<"group", "by">>) \o NamesText(stmt.group_by))
    \o If(stmt.having # <<>>, <<Word("having")>> \o ExprText(stmt.having[1], stmt.aggregates))
    \o If(stmt.order_by_cosine # <<>>,
          Words(<<"order", "by", "cosine">>) \o InParens(NameText(stmt.order_by_cosine[1].column) \o <<Sym(","), Sym("?")>>)
            \o <<Word("limit"), Num(stmt.order_by_cosine[1].k)>>)
    \o TailText(stmt)

SetText(op) ==
  Words(CASE op = "Union" -> <<"union">> [] op = "UnionAll" -> <<"union", "all">>
          [] op = "Intersect" -> <<"intersect">> [] op = "Except" -> <<"except">>)
CteText(cte) ==
  Words(<<cte.name, "as">>) \o InParens(SelectText(cte.query)
    \o FlattenSeq([i \in DOMAIN cte.recursive |-> SetText(cte.recursive[i].op) \o SelectText(cte.recursive[i].query)]))
WithText(ctes) ==
  If(ctes # <<>>, <<Word("with")>> \o If(\E i \in DOMAIN ctes : ctes[i].recursive # <<>>, <<Word("recursive")>>)
                    \o Commas([i \in DOMAIN ctes |-> CteText(ctes[i])]))

TypeText(t) ==
  CASE t[1] = "varchar" -> <<Word("varchar")>> \o InParens(<<Num(t[2])>>) [] OTHER -> <<Word(t[1])>>
KeyText(c) ==
  CASE c.key = "PrimaryKey" -> Words(<<"primary", "key">>) \o InParens(NamesText(c.columns))
    [] c.key = "Unique" -> <<Word("unique")>> \o InParens(NamesText(c.columns))
    [] c.key = "Check" -> <<Word("check")>> \o InParens(ExprText(c.expr, <<>>))
    [] c.key = "ForeignKey" ->
         Words(<<"foreign", "key">>) \o InParens(NamesText(c.columns))
           \o Words(<<"references", c.ref_table>>) \o InParens(NamesText(c.ref_columns))
ColumnDefText(c) ==
  NameText(c.name) \o TypeText(c.ctype) \o FlattenSeq([i \in DOMAIN c.constraints |->
    Words(CASE c.constraints[i] = "NotNull" -> <<"not", "null">>
            [] c.constraints[i] = "PrimaryKey" -> <<"primary", "key">> [] OTHER -> <<"unique">>)])
AlterText(b) ==
  Words(<<"alter", "table", b.table>>)
    \o (CASE b.op[1] = "AddColumn" -> Words(<<"add", "column">>) \o NameText(b.op[2]) \o TypeText(b.op[3])
          [] b.op[1] = "DropColumn" -> Words(<<"drop", "column">>) \o NameText(b.op[2])
          [] b.op[1] = "RenameColumn" -> Words(<<"rename", "column">>) \o NameText(b.op[2]) \o <<Word("to")>> \o NameText(b.op[3]))

\* The words of a statement, without the end.
Written(stmt) ==
  LET b == stmt[2] IN
  CASE stmt[1] = "Select" -> WithText(b.with_ctes) \o SelectText(b)
    [] stmt[1] = "Compound" ->
         SelectText(b.first) \o FlattenSeq([i \in DOMAIN b.operations |->
           SetText(b.operations[i].op) \o SelectText(b.operations[i].query)]) \o TailText(b)
    [] stmt[1] = "SelectLiteral" -> <<Word("select")>> \o Commas([i \in DOMAIN b |-> LiteralText(b[i].value)
         \o If(b[i].alias # <<>>, <<Word("as")>> \o NameText(b[i].alias[1]))])
    [] stmt[1] = "Insert" ->
         Words(<<"insert", "into", b.table>>) \o If(b.columns # <<>>, InParens(NamesText(b.columns))) \o <<Word("values")>>
           \o Commas([r \in DOMAIN b.values |-> InParens(Commas([i \in DOMAIN b.values[r] |-> LiteralText(b.values[r][i])]))])
    [] stmt[1] = "Update" ->
         Words(<<"update", b.table, "set">>) \o Commas([i \in DOMAIN b.assignments |->
           NameText(b.assignments[i].column) \o <<OpTok("Eq")>> \o LiteralText(b.assignments[i].value)]) \o WhereText(b.filter)
    [] stmt[1] = "Delete" -> Words(<<"delete", "from", b.table>>) \o WhereText(b.filter)
    [] stmt[1] = "CreateTable" ->
         Words(<<"create", "table", b.table>>) \o InParens(Commas(
           [i \in DOMAIN b.columns |-> ColumnDefText(b.columns[i])] \o [i \in DOMAIN b.constraints |-> KeyText(b.constraints[i])]))
    [] stmt[1] = "CreateView" -> Words(<<"create", "view", b.name, "as">>) \o SelectText(b.query)
    [] stmt[1] = "DropView" -> Words(<<"drop", "view", b>>)
    [] stmt[1] = "AlterTable" -> AlterText(b)
    [] stmt[1] = "ShowParameter" -> Words(<<"show", b>>)
    [] stmt[1] = "ResetParameter" -> Words(<<"reset", b>>)
    [] stmt[1] = "ResetAll" -> Words(<<"reset", "all">>)
    [] stmt[1] \in {"begin", "commit", "rollback"} -> Words(<<stmt[1]>>)
=============================================================================
