------------------------------- MODULE Parser -------------------------------
(***************************************************************************)
(* The SQL parser (tpt-archon-relational, parser/): a recursive descent    *)
(* over the tokens of a statement.  A token is a tuple that starts with    *)
(* its kind; words are in lower case, as eq_ignore_case compares them, and *)
(* the last token is Eof.  A parse function takes the tokens, a position   *)
(* and, where it may recurse, the depth reached; it answers the next       *)
(* position and a value, or an error.  "panic" is a read past Eof.         *)
(***************************************************************************)
EXTENDS Select

CONSTANTS
  MaxParseDepth,  \* MAX_PARSE_DEPTH, 100 in the code
  MaxLimit        \* MAX_LIMIT, 1000000 in the code

Word(w) == <<"Ident", w>>
Num(n) == <<"Int", n>>
Str(t) == <<"Text", t>>
OpTok(op) == <<"Op", op>>
Sym(c) == <<c>>               \* * , . ( ) [ ] and ?
Eof == <<"Eof">>

Parsed(i, v) == [ok |-> TRUE, pos |-> i, val |-> v]
ParseError == [ok |-> FALSE, pos |-> 0, val |-> "error"]
Panic == [ok |-> FALSE, pos |-> 0, val |-> "panic"]
\* The `?` of the code: go on with the position and the value, or give up.
Bind(r, F(_, _)) == IF r.ok THEN F(r.pos, r.val) ELSE r

IsIdent(tok) == tok[1] = "Ident"
OneOf(tok, words) == IsIdent(tok) /\ tok[2] \in words
expect_tok(s, i, tok) == IF s[i] = tok THEN Parsed(i + 1, tok) ELSE ParseError
expect_kw(s, i, w) == expect_tok(s, i, Word(w))
expect_int(s, i) == IF s[i][1] = "Int" THEN Parsed(i + 1, s[i][2]) ELSE ParseError

\* A name with all its qualifiers.
RECURSIVE expect_ident(_, _)
expect_ident(s, i) ==
  IF ~IsIdent(s[i]) THEN ParseError
  ELSE IF s[i + 1] # Sym(".") THEN Parsed(i + 1, Col(s[i][2]))
  ELSE Bind(expect_ident(s, i + 2), LAMBDA j, c : Parsed(j, Prefixed(s[i][2], c)))
\* The name of a table, a view or an alias: the parts in one string.
Dotted(c) == FoldLeft(LAMBDA acc, part : acc \o "." \o part, Head(c.q \o c.n), Tail(c.q \o c.n))
ExpectName(s, i) == Bind(expect_ident(s, i), LAMBDA j, c : Parsed(j, Dotted(c)))

is_kw(w) ==
  w \in {"select", "insert", "update", "delete", "from", "where", "set", "order", "limit", "group",
         "having", "join", "on", "create", "view", "drop", "begin", "commit", "rollback", "not",
         "exists", "extract"}

TooDeep_one_late(d) == d > MaxParseDepth
TooDeep(d) == d >= MaxParseDepth            \* enter_depth

\* Item {, Item}: the loops over Tok::Comma.
CommaList(s, i, Item(_)) ==
  LET RECURSIVE Go(_, _)
      Go(j, acc) == Bind(Item(j), LAMBDA k, v :
        IF s[k] = Sym(",") THEN Go(k + 1, Append(acc, v)) ELSE Parsed(k, Append(acc, v)))
  IN Go(i, <<>>)
Closing(s, r) == Bind(r, LAMBDA j, v : IF s[j] = Sym(")") THEN Parsed(j + 1, v) ELSE ParseError)
Opening(s, i, R(_)) == IF s[i] = Sym("(") THEN R(i + 1) ELSE ParseError
\* An optional `AS alias`.
parse_optional_alias(s, i) ==
  IF s[i] = Word("as") THEN Bind(expect_ident(s, i + 1), LAMBDA j, a : Parsed(j, <<a>>)) ELSE Parsed(i, <<>>)
AliasOr(s, i, default) ==
  Bind(parse_optional_alias(s, i), LAMBDA j, a : Parsed(j, IF a = <<>> THEN default ELSE a[1]))

-----------------------------------------------------------------------------
RECURSIVE parse_vector_literal(_, _, _)
parse_vector_literal(s, i, vals) ==
  CASE s[i][1] = "Int" ->
         parse_vector_literal(s, IF s[i + 1] = Sym(",") THEN i + 2 ELSE i + 1, Append(vals, s[i][2]))
    [] s[i] = Sym("]") -> Parsed(i + 1, VectorV(vals))
    [] OTHER -> ParseError

BoolV(b) == <<"bool", b>>
IsScalar(tok) == tok[1] \in {"Int", "Text"} \/ OneOf(tok, {"true", "false"})
ScalarOf(tok) ==
  CASE tok[1] = "Int" -> IntV(tok[2]) [] tok[1] = "Text" -> TextV(tok[2]) [] OTHER -> BoolV(tok = Word("true"))
parse_literal(s, i) ==
  CASE IsScalar(s[i]) -> Parsed(i + 1, ScalarOf(s[i]))
    [] s[i] = Sym("[") -> parse_vector_literal(s, i + 1, <<>>)
    [] s[i] = Word("null") -> Parsed(i + 1, Null)
    [] OTHER -> ParseError

-----------------------------------------------------------------------------
RECURSIVE parse_expr(_, _, _), parse_not(_, _, _), parse_select_inner(_, _, _)

AggregateFunc == [count |-> "Count", sum |-> "Sum", avg |-> "Avg", min |-> "Min", max |-> "Max"]
DateTimeField == [year |-> "Year", month |-> "Month", day |-> "Day",
                  hour |-> "Hour", minute |-> "Minute", second |-> "Second"]

\* ( SELECT ... ), from the token after the parenthesis.
Subquery(s, i, d) ==
  Closing(s, Bind(expect_kw(s, i, "select"), LAMBDA j, w : parse_select_inner(s, j, d)))
\* ( * ) or ( column )
AggregateArgument(s, i) ==
  Opening(s, i, LAMBDA j : Closing(s,
    IF s[j] = Sym("*") THEN Parsed(j + 1, Col("*")) ELSE expect_ident(s, j)))

IsNullExpr(column, negated) == [node |-> "IsNull", column |-> column, negated |-> negated]
\* [NOT] NULL, after IS
NullTest(s, i, column) ==
  CASE s[i] = Word("not") -> Bind(expect_kw(s, i + 1, "null"), LAMBDA j, w : Parsed(j, IsNullExpr(column, TRUE)))
    [] s[i] = Word("null") -> Parsed(i + 1, IsNullExpr(column, FALSE))
    [] OTHER -> ParseError

\* What may follow `column op`.
Comparison(s, i, column, op, d) ==
  CASE s[i] = Word("null") ->
         IF op \in {"Eq", "Ne"} THEN Parsed(i + 1, IsNullExpr(column, op = "Ne")) ELSE ParseError
    [] IsScalar(s[i]) -> Parsed(i + 1, [node |-> "Cmp", column |-> column, op |-> op, value |-> ScalarOf(s[i])])
    [] IsIdent(s[i]) /\ ~OneOf(s[i], {"null", "true", "false"}) ->
         Bind(expect_ident(s, i), LAMBDA j, right :
           Parsed(j, [node |-> "CmpColumn", left |-> column, op |-> op, right |-> right]))
    [] s[i] = Sym("(") -> Bind(Subquery(s, i + 1, d), LAMBDA j, q :
         Parsed(j, [node |-> "ScalarCmp", column |-> column, op |-> op, query |-> q]))
    [] OTHER -> ParseError

InTest(s, i, column, d) ==
  IF s[i] = Word("select")
  THEN Bind(Subquery(s, i, d), LAMBDA j, q : Parsed(j, [node |-> "InSubquery", column |-> column, query |-> q]))
  ELSE Bind(Closing(s, CommaList(s, i, LAMBDA j : expect_int(s, j))), LAMBDA j, vs :
         Parsed(j, [node |-> "InInt", column |-> column, values |-> ToSet(vs)]))

\* What may follow a column name.
ColumnTest(s, i, column, d) ==
  CASE s[i] = Word("is") -> NullTest(s, i + 1, column)
    [] s[i] = Word("like") ->
         IF s[i + 1][1] = "Text" THEN Parsed(i + 2, [node |-> "Like", column |-> column, pattern |-> s[i + 1][2]])
         ELSE ParseError
    [] s[i] = Word("between") ->
         Bind(expect_int(s, i + 1), LAMBDA j, low :
         Bind(expect_kw(s, j, "and"), LAMBDA k, w :
         Bind(expect_int(s, k), LAMBDA l, high :
           Parsed(l, [node |-> "BetweenInt", column |-> column, low |-> low, high |-> high]))))
    [] s[i] = Word("in") -> Opening(s, i + 1, LAMBDA j : InTest(s, j, column, d))
    [] s[i][1] = "Op" -> Comparison(s, i + 1, column, s[i][2], d)
    [] OTHER -> ParseError

AggregateTest(s, i) ==
  LET func == AggregateFunc[s[i][2]] IN
    Bind(AggregateArgument(s, i + 1), LAMBDA j, c :
      IF s[j][1] = "Op"
      THEN Bind(parse_literal(s, j + 1), LAMBDA k, v :
             Parsed(k, [node |-> "AggCmp", func |-> func, column |-> c, op |-> s[j][2], value |-> v]))
      ELSE Parsed(j, [node |-> "Agg", func |-> func, column |-> c]))

\* ( field FROM column ) and its test; IS NULL tests the column itself.
ExtractTest(s, i) ==
  LET source == Opening(s, i, LAMBDA j :
        IF ~OneOf(s[j], DOMAIN DateTimeField) THEN ParseError
        ELSE Closing(s, Bind(expect_kw(s, j + 1, "from"), LAMBDA k, w : expect_ident(s, k))))
  IN Bind(source, LAMBDA j, c :
       CASE s[j] = Word("is") -> NullTest(s, j + 1, c)
         [] s[j][1] = "Op" -> Bind(parse_literal(s, j + 1), LAMBDA k, v :
              Parsed(k, [node |-> "ExtractCmp", field |-> DateTimeField[s[i + 1][2]], column |-> c,
                         op |-> s[j][2], value |-> v]))
         [] OTHER -> ParseError)

parse_primary_expr(s, i, d) ==
  CASE TooDeep(d) -> ParseError
    [] s[i] = Word("exists") ->
         Bind(Opening(s, i + 1, LAMBDA j : Subquery(s, j, d + 1)), LAMBDA j, q :
           Parsed(j, [node |-> "Exists", query |-> q]))
    [] OneOf(s[i], DOMAIN AggregateFunc) -> AggregateTest(s, i)
    [] s[i] = Word("extract") -> ExtractTest(s, i + 1)
    [] s[i] = Sym("(") -> Closing(s, parse_expr(s, i + 1, d + 1))
    [] ~IsIdent(s[i]) -> ParseError
    [] OTHER -> IF is_kw(s[i][2]) THEN ParseError
                ELSE Bind(expect_ident(s, i), LAMBDA j, c : ColumnTest(s, j, c, d + 1))

parse_not(s, i, d) ==
  IF s[i] # Word("not") THEN parse_primary_expr(s, i, d)
  ELSE IF TooDeep(d) THEN ParseError
  ELSE Bind(parse_not(s, i + 1, d + 1), LAMBDA j, e : Parsed(j, [node |-> "Not", inner |-> e]))

\* Operand {word Operand}, grouping to the left.
LeftChain(s, i, word, node, Operand(_)) ==
  LET RECURSIVE Go(_, _)
      Go(j, left) ==
        IF s[j] # Word(word) THEN Parsed(j, left)
        ELSE Bind(Operand(j + 1), LAMBDA k, right : Go(k, [node |-> node, left |-> left, right |-> right]))
  IN Bind(Operand(i), Go)
parse_and(s, i, d) == LeftChain(s, i, "and", "And", LAMBDA j : parse_not(s, j, d))
parse_or(s, i, d) == LeftChain(s, i, "or", "Or", LAMBDA j : parse_and(s, j, d))
parse_expr(s, i, d) == parse_or(s, i, d)

-----------------------------------------------------------------------------
\* [word BY Item {, Item}]
OptionalList(s, i, word, Item(_)) ==
  IF s[i] = Word(word) THEN Bind(expect_kw(s, i + 1, "by"), LAMBDA j, w : CommaList(s, j, Item)) ELSE Parsed(i, <<>>)
\* column [ASC | DESC], once the column is read
Direction(s, i, column) ==
  Parsed(IF OneOf(s[i], {"asc", "desc"}) THEN i + 1 ELSE i, [column |-> column, descending |-> s[i] = Word("desc")])
WindowOrder(s, i) == Bind(expect_ident(s, i), LAMBDA j, c : Direction(s, j, c))
\* The ORDER BY of a query takes no qualified name.
QueryOrder(s, i) == IF IsIdent(s[i]) THEN Direction(s, i + 1, Col(s[i][2])) ELSE ParseError

parse_frame_bound(s, i) ==
  CASE s[i] = Word("unbounded") ->
         CASE s[i + 1] = Word("preceding") -> Parsed(i + 2, UnboundedPreceding)
           [] s[i + 1] = Word("following") -> Parsed(i + 2, UnboundedFollowing)
           [] OTHER -> ParseError
    [] s[i] = Word("current") -> Bind(expect_kw(s, i + 1, "row"), LAMBDA j, w : Parsed(j, CurrentRow))
    [] s[i][1] = "Int" ->
         CASE s[i][2] < 0 -> ParseError
           [] s[i + 1] = Word("preceding") -> Parsed(i + 2, Preceding(s[i][2]))
           [] s[i + 1] = Word("following") -> Parsed(i + 2, Following(s[i][2]))
           [] OTHER -> ParseError
    [] OTHER -> ParseError

parse_window_frame(s, i, kind) ==
  LET Frame(start, end) == <<[kind |-> kind, start |-> start, end |-> end]>> IN
    IF s[i] = Word("between")
    THEN Bind(parse_frame_bound(s, i + 1), LAMBDA j, start :
         Bind(expect_kw(s, j, "and"), LAMBDA k, w :
         Bind(parse_frame_bound(s, k), LAMBDA l, end : Parsed(l, Frame(start, end)))))
    ELSE Bind(parse_frame_bound(s, i), LAMBDA j, start : Parsed(j, Frame(start, CurrentRow)))

\* OVER ( ... ) completes the call `func`.
parse_window_spec(s, i, func) ==
  Opening(s, i, LAMBDA j : Closing(s,
    Bind(OptionalList(s, j, "partition", LAMBDA k : expect_ident(s, k)), LAMBDA k, partition :
    Bind(OptionalList(s, k, "order", LAMBDA l : WindowOrder(s, l)), LAMBDA l, order :
    Bind(CASE s[l] = Word("rows") -> parse_window_frame(s, l + 1, "Rows")
           [] s[l] = Word("range") -> parse_window_frame(s, l + 1, "Range")
           [] s[l] = Word("groups") -> ParseError
           [] OTHER -> Parsed(l, <<>>), LAMBDA m, frame :
      Parsed(m, [func EXCEPT !.partition_by = partition, !.order_by = order, !.frame = frame]))))))

NewCall(func, agg, column) ==
  [func |-> func, agg |-> agg, column |-> column, offset |-> 1, default |-> <<>>,
   partition_by |-> <<>>, order_by |-> <<>>, frame |-> <<>>]
WindowFunc == [row_number |-> "RowNumber", rank |-> "Rank", dense_rank |-> "DenseRank", lag |-> "Lag", lead |-> "Lead"]
parse_window_only_func(s, i, w) ==
  IF w \notin {"lag", "lead"} THEN Parsed(i, NewCall(WindowFunc[w], "", Col("")))
  ELSE Bind(expect_ident(s, i), LAMBDA j, c :
         LET call == NewCall(WindowFunc[w], "", c) IN
           IF s[j] # Sym(",") THEN Parsed(j, call)
           ELSE Bind(expect_int(s, j + 1), LAMBDA k, n :
                  IF s[k] # Sym(",") THEN Parsed(k, [call EXCEPT !.offset = n])
                  ELSE Bind(parse_literal(s, k + 1), LAMBDA l, v :
                         Parsed(l, [call EXCEPT !.offset = n, !.default = <<v>>]))))

\* One entry of the select list.  An alias takes the place of the name of a
\* plain column.
SelectItem(column, aggregates, windows) == [column |-> column, aggregates |-> aggregates, windows |-> windows]
WindowItem(s, i, func, default) ==
  Bind(parse_window_spec(s, i, func), LAMBDA j, call :
  Bind(AliasOr(s, j, default), LAMBDA k, a :
    Parsed(k, SelectItem(a, <<>>, <<[alias |-> a, call |-> call]>>))))
AggregateItem(s, i, func) ==
  Bind(AggregateArgument(s, i), LAMBDA j, c :
    IF s[j] = Word("over") THEN WindowItem(s, j + 1, NewCall("Agg", func, c), agg_default_alias(func, c))
    ELSE Bind(AliasOr(s, j, agg_default_alias(func, c)), LAMBDA k, a :
           Parsed(k, SelectItem(a, <<[alias |-> a, func |-> func, column |-> c]>>, <<>>))))
ParseSelectItem(s, i) ==
  CASE OneOf(s[i], DOMAIN WindowFunc) /\ s[i + 1] = Sym("(") ->
         Bind(Closing(s, parse_window_only_func(s, i + 2, s[i][2])), LAMBDA j, func :
         Bind(expect_kw(s, j, "over"), LAMBDA k, w : WindowItem(s, k, func, Col(s[i][2]))))
    [] OneOf(s[i], DOMAIN AggregateFunc) /\ s[i + 1] = Sym("(") -> AggregateItem(s, i + 1, AggregateFunc[s[i][2]])
    [] OTHER -> Bind(expect_ident(s, i), LAMBDA j, c :
                Bind(AliasOr(s, j, c), LAMBDA k, a : Parsed(k, SelectItem(a, <<>>, <<>>))))
SelectList(s, i) ==
  IF s[i] = Sym("*") THEN Parsed(i + 1, <<>>) ELSE CommaList(s, i, LAMBDA j : ParseSelectItem(s, j))

\* A table or a derived table.  A dot takes the token after it whatever it is.
parse_table_ref(s, i, d) ==
  CASE s[i] = Sym("(") -> Bind(Subquery(s, i + 1, d), LAMBDA j, q :
         Bind(expect_kw(s, j, "as"), LAMBDA k, w :
         Bind(ExpectName(s, k), LAMBDA l, a : Parsed(l, Derived(q, a)))))
    [] IsIdent(s[i]) ->
         LET dotted == s[i + 1] = Sym(".")
             after == IF dotted THEN i + 3 ELSE i + 1
             name == IF dotted /\ IsIdent(s[i + 2]) THEN s[i][2] \o "." \o s[i + 2][2] ELSE s[i][2]
         IN CASE after > Len(s) -> Panic
              [] s[after] = Word("as") -> Bind(ExpectName(s, after + 1), LAMBDA j, a : Parsed(j, Named(name, a)))
              [] OTHER -> Parsed(after, Named(name, ""))
    [] OTHER -> ParseError

\* The words of a join; <<>> if there is none.
JoinWords(s, i) ==
  LET outer(jtype) == Bind(expect_kw(s, IF s[i + 1] = Word("outer") THEN i + 2 ELSE i + 1, "join"), LAMBDA j, w : Parsed(j, jtype)) IN
    CASE s[i] = Word("left") -> outer("Left")
      [] s[i] = Word("right") -> outer("Right")
      [] s[i] = Word("full") -> outer("Full")
      [] s[i] = Word("cross") -> Bind(expect_kw(s, i + 1, "join"), LAMBDA j, w : Parsed(j, "Cross"))
      [] s[i] = Word("inner") -> Bind(expect_kw(s, i + 1, "join"), LAMBDA j, w : Parsed(j, "Inner"))
      [] s[i] = Word("join") -> Parsed(i + 1, "Inner")
      [] OTHER -> Parsed(i, "none")
RECURSIVE Joins(_, _, _, _)
Joins(s, i, d, acc) ==
  Bind(JoinWords(s, i), LAMBDA j, jtype :
    IF jtype = "none" THEN Parsed(i, acc)
    ELSE Bind(parse_table_ref(s, j, d), LAMBDA k, ref :
           LET Join(on) == Append(acc, [jtype |-> jtype, table |-> ref, on_expr |-> on]) IN
             IF jtype = "Cross" THEN Joins(s, k, d, Join(<<>>))
             ELSE Bind(expect_kw(s, k, "on"), LAMBDA l, w :
                  Bind(parse_expr(s, l, d), LAMBDA m, e : Joins(s, m, d, Join(<<e>>))))))

\* WHERE, GROUP BY and HAVING, in any order.
RECURSIVE Clauses(_, _, _, _)
Clauses(s, i, d, stmt) ==
  CASE s[i] = Word("where") ->
         IF stmt.filter # <<>> THEN ParseError
         ELSE Bind(parse_expr(s, i + 1, d), LAMBDA j, e : Clauses(s, j, d, [stmt EXCEPT !.filter = <<e>>]))
    [] s[i] = Word("group") ->
         Bind(OptionalList(s, i, "group", LAMBDA j : expect_ident(s, j)), LAMBDA j, cs :
           Clauses(s, j, d, [stmt EXCEPT !.group_by = @ \o cs]))
    [] s[i] = Word("having") ->
         IF stmt.having # <<>> THEN ParseError
         ELSE Bind(parse_expr(s, i + 1, d), LAMBDA j, e : Clauses(s, j, d, [stmt EXCEPT !.having = <<e>>]))
    [] OTHER -> Parsed(i, stmt)

\* An aggregate of HAVING becomes the column of the select list that holds it.
RECURSIVE resolve_having_aliases(_, _)
resolve_having_aliases(e, aggregates) ==
  LET at == Position(aggregates, LAMBDA a : a.func = e.func /\ a.column = e.column)
      alias == IF at = 0 THEN agg_default_alias(e.func, e.column) ELSE aggregates[at].alias
  IN CASE e.node \in {"And", "Or"} ->
            [e EXCEPT !.left = resolve_having_aliases(@, aggregates), !.right = resolve_having_aliases(@, aggregates)]
       [] e.node = "Not" -> [e EXCEPT !.inner = resolve_having_aliases(@, aggregates)]
       [] e.node = "AggCmp" -> [node |-> "Cmp", column |-> alias, op |-> e.op, value |-> e.value]
       [] e.node = "Agg" -> IsNullExpr(alias, TRUE)
       [] OTHER -> e

parse_select_core(s, i, d) ==
  Bind(SelectList(s, i), LAMBDA j, items :
  Bind(expect_kw(s, j, "from"), LAMBDA k, w :
  Bind(parse_table_ref(s, k, d), LAMBDA l, ref :
  Bind(Joins(s, l, d, <<>>), LAMBDA m, joins :
    LET base == [From(ref) EXCEPT !.joins = joins, !.star = items = <<>>,
                   !.columns = [n \in DOMAIN items |-> items[n].column],
                   !.aggregates = FlattenSeq([n \in DOMAIN items |-> items[n].aggregates]),
                   !.window_funcs = FlattenSeq([n \in DOMAIN items |-> items[n].windows])]
    IN Bind(Clauses(s, m, d, base), LAMBDA n, stmt :
         Parsed(n, [stmt EXCEPT !.having = [h \in DOMAIN @ |-> resolve_having_aliases(@[h], stmt.aggregates)]]))))))

\* ORDER BY cosine(column, ?) LIMIT k, from the parenthesis.  `k as u64` makes
\* a negative k larger than any limit.
CosineOrder(s, i) ==
  Bind(Opening(s, i, LAMBDA j : expect_ident(s, j)), LAMBDA j, c :
    IF j + 4 > Len(s) \/ SubSeq(s, j, j + 3) # <<Sym(","), Sym("?"), Sym(")"), Word("limit")>> THEN ParseError
    ELSE Bind(expect_int(s, j + 4), LAMBDA k, n :
           IF n \in 0..MaxLimit THEN Parsed(k, [column |-> c, param |-> 1, k |-> n]) ELSE ParseError))
RECURSIVE parse_select_tail(_, _, _)
parse_select_tail(s, i, stmt) ==
  CASE s[i] = Word("order") -> Bind(expect_kw(s, i + 1, "by"), LAMBDA j, w :
         IF s[j] = Word("cosine")
         THEN Bind(CosineOrder(s, j + 1), LAMBDA k, o : parse_select_tail(s, k, [stmt EXCEPT !.order_by_cosine = <<o>>]))
         ELSE Bind(CommaList(s, j, LAMBDA k : QueryOrder(s, k)), LAMBDA k, os :
                parse_select_tail(s, k, [stmt EXCEPT !.order_by = @ \o os])))
    [] s[i] = Word("limit") ->
         IF stmt.limit = <<>> /\ s[i + 1][1] = "Int" /\ s[i + 1][2] \in 0..MaxLimit
         THEN parse_select_tail(s, i + 2, [stmt EXCEPT !.limit = <<s[i + 1][2]>>]) ELSE ParseError
    [] OTHER -> Parsed(i, stmt)

parse_select_full(s, i, d) ==
  Bind(parse_select_core(s, i, d), LAMBDA j, stmt : parse_select_tail(s, j, stmt))
parse_select_inner(s, i, d) == IF TooDeep(d) THEN ParseError ELSE parse_select_full(s, i, d + 1)

-----------------------------------------------------------------------------
\* UNION [ALL], INTERSECT or EXCEPT; "none" if there is none.
SetWords(s, i) ==
  CASE s[i] = Word("union") ->
         IF s[i + 1] = Word("all") THEN Parsed(i + 2, "UnionAll") ELSE Parsed(i + 1, "Union")
    [] s[i] = Word("intersect") -> Parsed(i + 1, "Intersect")
    [] s[i] = Word("except") -> Parsed(i + 1, "Except")
    [] OTHER -> Parsed(i, "none")
RECURSIVE SetOperands(_, _, _, _)
SetOperands(s, i, d, acc) ==
  Bind(SetWords(s, i), LAMBDA j, op :
    IF op = "none" THEN Parsed(i, acc)
    ELSE Bind(expect_kw(s, j, "select"), LAMBDA k, w :
         Bind(parse_select_core(s, k, d), LAMBDA l, q : SetOperands(s, l, d, Append(acc, [op |-> op, query |-> q])))))

\* A statement is tagged with its kind.
Stmt(kind, body) == <<kind, body>>
\* The WITH list goes to a simple SELECT; a compound one has no place for it.
parse_select_or_compound(s, i, ctes) ==
  Bind(parse_select_core(s, i, 0), LAMBDA j, first :
  Bind(SetOperands(s, j, 0, <<>>), LAMBDA k, operations :
    IF operations = <<>>
    THEN Bind(parse_select_tail(s, k, [first EXCEPT !.with_ctes = ctes]), LAMBDA l, stmt : Parsed(l, Stmt("Select", stmt)))
    ELSE Bind(parse_select_tail(s, k, [order_by |-> <<>>, limit |-> <<>>, order_by_cosine |-> <<>>]), LAMBDA l, tail :
           Parsed(l, Stmt("Compound", [first |-> first, operations |-> operations,
                                       order_by |-> tail.order_by, limit |-> tail.limit])))))

parse_recursive_cte_body(s, i, d) ==
  LET Body(q, term) == [query |-> q, recursive |-> term] IN
    IF TooDeep(d) THEN ParseError
    ELSE Bind(parse_select_core(s, i, d + 1), LAMBDA j, first :
         Bind(SetWords(s, j), LAMBDA k, op :
           CASE op = "none" -> Bind(parse_select_tail(s, j, first), LAMBDA l, q : Parsed(l, Body(q, <<>>)))
             [] op \in {"Intersect", "Except"} -> ParseError
             [] OTHER -> Bind(expect_kw(s, k, "select"), LAMBDA l, w :
                         Bind(parse_select_core(s, l, d + 1), LAMBDA m, term :
                           IF OneOf(s[m], {"union", "intersect", "except"}) THEN ParseError
                           ELSE Parsed(m, Body(first, <<[op |-> op, query |-> term]>>))))))
ParseCte(s, i, recursive) ==
  Bind(ExpectName(s, i), LAMBDA j, name :
  Bind(expect_kw(s, j, "as"), LAMBDA k, w :
  Bind(Opening(s, k, LAMBDA l : Closing(s, Bind(expect_kw(s, l, "select"), LAMBDA m, v :
         IF recursive THEN parse_recursive_cte_body(s, m, 0)
         ELSE Bind(parse_select_inner(s, m, 0), LAMBDA n, q : Parsed(n, [query |-> q, recursive |-> <<>>]))))),
       LAMBDA l, body : Parsed(l, [name |-> name, query |-> body.query, recursive |-> body.recursive]))))
\* WITH [RECURSIVE] and its list; the next word has to be SELECT.
parse_with_clause(s, i) ==
  LET recursive == s[i] = Word("recursive") IN
    CommaList(s, IF recursive THEN i + 1 ELSE i, LAMBDA j : ParseCte(s, j, recursive))

try_parse_select_literal(s, i) ==
  LET items == CommaList(s, i, LAMBDA j : Bind(parse_literal(s, j), LAMBDA k, v :
        Bind(parse_optional_alias(s, k), LAMBDA l, a : Parsed(l, [value |-> v, alias |-> a]))))
  IN IF items.ok /\ s[items.pos] = Eof THEN items ELSE ParseError

-----------------------------------------------------------------------------
OptionalWhere(s, i) ==
  IF s[i] = Word("where") THEN Bind(parse_expr(s, i + 1, 0), LAMBDA j, e : Parsed(j, <<e>>)) ELSE Parsed(i, <<>>)
parse_paren_column_list(s, i) ==
  Opening(s, i, LAMBDA j : Closing(s, CommaList(s, j, LAMBDA k : expect_ident(s, k))))
\* A check that nothing is left.
Ended(s, r) == IF r.ok /\ s[r.pos] # Eof THEN ParseError ELSE r

parse_insert(s, i) ==
  LET Row(j) == Opening(s, j, LAMBDA k : Closing(s, CommaList(s, k, LAMBDA l : parse_literal(s, l)))) IN
    Bind(expect_kw(s, i, "into"), LAMBDA j, w :
    Bind(ExpectName(s, j), LAMBDA k, table :
    Bind(IF s[k] = Sym("(") THEN parse_paren_column_list(s, k) ELSE Parsed(k, <<>>), LAMBDA l, columns :
    Bind(expect_kw(s, l, "values"), LAMBDA m, v :
    Bind(CommaList(s, m, Row), LAMBDA n, values :
      Ended(s, Parsed(n, Stmt("Insert", [table |-> table, columns |-> columns, values |-> values]))))))))

parse_update(s, i) ==
  LET Assignment(j) == Bind(expect_ident(s, j), LAMBDA k, c : Bind(expect_tok(s, k, OpTok("Eq")), LAMBDA l, o :
        Bind(parse_literal(s, l), LAMBDA m, v : Parsed(m, [column |-> c, value |-> v])))) IN
    Bind(ExpectName(s, i), LAMBDA j, table :
    Bind(expect_kw(s, j, "set"), LAMBDA k, w :
    Bind(CommaList(s, k, Assignment), LAMBDA l, assignments :
    Bind(OptionalWhere(s, l), LAMBDA m, filter :
      Ended(s, Parsed(m, Stmt("Update", [table |-> table, assignments |-> assignments, filter |-> filter])))))))

parse_delete(s, i) ==
  Bind(expect_kw(s, i, "from"), LAMBDA j, w :
  Bind(ExpectName(s, j), LAMBDA k, table :
  Bind(OptionalWhere(s, k), LAMBDA l, filter :
    Ended(s, Parsed(l, Stmt("Delete", [table |-> table, filter |-> filter]))))))

parse_create_view(s, i) ==
  Bind(ExpectName(s, i), LAMBDA j, name :
  Bind(expect_kw(s, j, "as"), LAMBDA k, w :
  Bind(expect_kw(s, k, "select"), LAMBDA l, v :
  Bind(parse_select_inner(s, l, 0), LAMBDA m, q :
    Ended(s, Parsed(m, Stmt("CreateView", [name |-> name, query |-> q])))))))

\* A column type: <<its name, its length>>; 0 where a type has none.
PlainTypes == [int |-> "int", integer |-> "int", boolean |-> "boolean", float |-> "float", double |-> "double",
               numeric |-> "numeric", text |-> "text", date |-> "date", timestamp |-> "timestamp"]
\* VECTOR[...] takes any numbers and commas up to the bracket.
VectorDimension(s, i) ==
  LET close == CHOOSE j \in i..Len(s) : s[j][1] \notin {"Int", ","} /\ \A k \in i..(j - 1) : s[k][1] \in {"Int", ","}
  IN IF s[close] = Sym("]") THEN Parsed(close + 1, <<"vector", 0>>) ELSE ParseError
parse_column_type(s, i) ==
  CASE OneOf(s[i], DOMAIN PlainTypes) -> Parsed(i + 1, <<PlainTypes[s[i][2]], 0>>)
    [] s[i] = Word("varchar") ->
         IF s[i + 1] # Sym("(") THEN Parsed(i + 1, <<"varchar", 255>>)
         ELSE Bind(Closing(s, expect_int(s, i + 2)), LAMBDA j, n : Parsed(j, <<"varchar", n>>))
    [] s[i] = Word("vector") ->
         IF s[i + 1] # Sym("[") THEN Parsed(i + 1, <<"vector", 0>>) ELSE VectorDimension(s, i + 2)
    [] OTHER -> ParseError

RECURSIVE parse_column_constraints(_, _, _)
parse_column_constraints(s, i, acc) ==
  CASE s[i] = Word("not") ->
         Bind(expect_kw(s, i + 1, "null"), LAMBDA j, w : parse_column_constraints(s, j, Append(acc, "NotNull")))
    [] s[i] = Word("primary") ->
         Bind(expect_kw(s, i + 1, "key"), LAMBDA j, w : parse_column_constraints(s, j, Append(acc, "PrimaryKey")))
    [] s[i] = Word("unique") -> parse_column_constraints(s, i + 1, Append(acc, "Unique"))
    [] OTHER -> Parsed(i, acc)

is_table_constraint(tok) == OneOf(tok, {"primary", "unique", "foreign", "check", "constraint"})
\* table (columns), after REFERENCES
References(s, i, columns) ==
  Bind(ExpectName(s, i), LAMBDA j, table :
  Bind(parse_paren_column_list(s, j), LAMBDA k, cols :
    Parsed(k, [key |-> "ForeignKey", columns |-> columns, ref_table |-> table, ref_columns |-> cols])))
parse_table_constraint(s, i) ==
  LET KeyColumns(j, key) == Bind(parse_paren_column_list(s, j), LAMBDA k, cols : Parsed(k, [key |-> key, columns |-> cols]))
      start == IF s[i] = Word("constraint") THEN expect_ident(s, i + 1) ELSE Parsed(i, <<>>)
  IN Bind(start, LAMBDA j, name :
       CASE s[j] = Word("primary") -> Bind(expect_kw(s, j + 1, "key"), LAMBDA k, w : KeyColumns(k, "PrimaryKey"))
         [] s[j] = Word("unique") -> KeyColumns(j + 1, "Unique")
         [] s[j] = Word("foreign") ->
              Bind(expect_kw(s, j + 1, "key"), LAMBDA k, w :
              Bind(parse_paren_column_list(s, k), LAMBDA l, cols :
              Bind(expect_kw(s, l, "references"), LAMBDA m, v : References(s, m, cols))))
         [] s[j] = Word("check") ->
              Bind(Opening(s, j + 1, LAMBDA k : Closing(s, parse_expr(s, k, 0))), LAMBDA l, e :
                Parsed(l, [key |-> "Check", expr |-> e]))
         [] OTHER -> ParseError)

\* One entry of CREATE TABLE: its columns and its table constraints.
TableItem(s, i) ==
  IF is_table_constraint(s[i])
  THEN Bind(parse_table_constraint(s, i), LAMBDA j, c : Parsed(j, [columns |-> <<>>, constraints |-> <<c>>]))
  ELSE Bind(expect_ident(s, i), LAMBDA j, name :
       Bind(parse_column_type(s, j), LAMBDA k, ctype :
       Bind(parse_column_constraints(s, k, <<>>), LAMBDA l, own :
         LET column == <<[name |-> name, ctype |-> ctype, constraints |-> own]>> IN
           IF s[l] # Word("references") THEN Parsed(l, [columns |-> column, constraints |-> <<>>])
           ELSE Bind(References(s, l + 1, <<name>>), LAMBDA m, c :
                  Parsed(m, [columns |-> column, constraints |-> <<c>>])))))
\* A comma, or nothing before a constraint, goes on; a parenthesis ends.
RECURSIVE TableItems(_, _, _)
TableItems(s, i, acc) ==
  Bind(TableItem(s, i), LAMBDA j, item :
    LET all == [acc EXCEPT !.columns = @ \o item.columns, !.constraints = @ \o item.constraints] IN
      CASE s[j] = Sym(",") -> TableItems(s, j + 1, all)
        [] s[j] = Sym(")") -> Parsed(j + 1, all)
        [] is_table_constraint(s[j]) -> TableItems(s, j, all)
        [] OTHER -> ParseError)
\* Nothing checks what follows the parenthesis.
parse_create_table(s, i) ==
  Bind(ExpectName(s, i), LAMBDA j, table :
    Bind(Opening(s, j, LAMBDA k : TableItems(s, k, [table |-> table, columns |-> <<>>, constraints |-> <<>>])),
      LAMBDA k, stmt : Parsed(k, Stmt("CreateTable", stmt))))

parse_alter_table(s, i) ==
  LET Altered(table, op) == Stmt("AlterTable", [table |-> table, op |-> op]) IN
    Bind(ExpectName(s, i), LAMBDA j, table :
      IF ~OneOf(s[j], {"add", "drop", "rename"}) THEN ParseError
      ELSE Bind(expect_kw(s, j + 1, "column"), LAMBDA k, w :
           Bind(expect_ident(s, k), LAMBDA l, c :
             CASE s[j] = Word("add") -> Bind(parse_column_type(s, l), LAMBDA m, t : Parsed(m, Altered(table, <<"AddColumn", c, t>>)))
               [] s[j] = Word("drop") -> Parsed(l, Altered(table, <<"DropColumn", c>>))
               [] OTHER -> Bind(expect_kw(s, l, "to"), LAMBDA m, v :
                           Bind(expect_ident(s, m), LAMBDA n, new : Parsed(n, Altered(table, <<"RenameColumn", c, new>>)))))))

-----------------------------------------------------------------------------
\* SET asks for the word "=", which no text holds: the lexer makes it an
\* operator.  The value would be any single token but punctuation.
parse_set(s, i) ==
  Bind(ExpectName(s, i), LAMBDA j, name :
  Bind(expect_kw(s, j, "="), LAMBDA k, w :
    IF s[k][1] \notin {"Ident", "Text", "Int"} THEN ParseError
    ELSE Ended(s, Parsed(k + 1, Stmt("SetParameter", [name |-> name, value |-> s[k]])))))
parse_show(s, i) == Ended(s, Bind(ExpectName(s, i), LAMBDA j, name : Parsed(j, Stmt("ShowParameter", name))))
parse_reset(s, i) ==
  Ended(s, IF s[i] = Word("all") THEN Parsed(i + 1, Stmt("ResetAll", ""))
           ELSE Bind(ExpectName(s, i), LAMBDA j, name : Parsed(j, Stmt("ResetParameter", name))))

ParseCreate(s) ==
  CASE s[2] = Word("table") -> parse_create_table(s, 3)
    [] s[2] = Word("view") -> parse_create_view(s, 3)
    [] OTHER -> ParseError
ParseDrop(s) ==
  IF s[2] # Word("view") THEN ParseError
  ELSE Ended(s, Bind(ExpectName(s, 3), LAMBDA j, name : Parsed(j, Stmt("DropView", name))))
ParseSelect(s) ==
  LET literal == try_parse_select_literal(s, 2) IN
    IF literal.ok THEN Parsed(literal.pos, Stmt("SelectLiteral", literal.val))
    ELSE Ended(s, parse_select_or_compound(s, 2, <<>>))
ParseWith(s) ==
  Bind(parse_with_clause(s, 2), LAMBDA j, ctes :
    Bind(expect_kw(s, j, "select"), LAMBDA k, w : Ended(s, parse_select_or_compound(s, k, ctes))))

\* BEGIN, COMMIT and ROLLBACK look at nothing after their word.
parse_statement(s) ==
  CASE s[1] = Word("with") -> ParseWith(s)
    [] s[1] = Word("select") -> ParseSelect(s)
    [] s[1] = Word("insert") -> parse_insert(s, 2)
    [] s[1] = Word("update") -> parse_update(s, 2)
    [] s[1] = Word("delete") -> parse_delete(s, 2)
    [] s[1] = Word("create") -> ParseCreate(s)
    [] s[1] = Word("drop") -> ParseDrop(s)
    [] s[1] = Word("alter") -> Ended(s, Bind(expect_kw(s, 2, "table"), LAMBDA j, w : parse_alter_table(s, j)))
    [] OneOf(s[1], {"begin", "commit", "rollback"}) -> Parsed(2, Stmt(s[1][2], ""))
    [] s[1] = Word("set") -> parse_set(s, 2)
    [] s[1] = Word("show") -> parse_show(s, 2)
    [] s[1] = Word("reset") -> parse_reset(s, 2)
    [] OTHER -> ParseError

\* A SELECT alone, with its WITH list.
parse_select(s) ==
  Bind(IF s[1] = Word("with") THEN parse_with_clause(s, 2) ELSE Parsed(1, <<>>), LAMBDA i, ctes :
  Bind(expect_kw(s, i, "select"), LAMBDA j, w :
  Bind(parse_select_inner(s, j, 0), LAMBDA k, stmt : Ended(s, Parsed(k, [stmt EXCEPT !.with_ctes = ctes])))))
=============================================================================
