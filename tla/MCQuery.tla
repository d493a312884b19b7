------------------------------ MODULE MCQuery -------------------------------
(***************************************************************************)
(* A table t of up to five rows with an integer, a date, a text and a      *)
(* vector, a second table u with NULLs and duplicates, a view, and the     *)
(* queries and statements that are tried on every one of its states.       *)
(***************************************************************************)
EXTENDS Query

MCColumns == <<Col("id"), Col("v"), Col("d"), Col("s"), Col("e")>>
MCVectorColumns == [t |-> {Col("e")}, u |-> {}]
\* id, v, d (a date in days or a timestamp in seconds since 1970), s (a text), e (an embedding)
MCRow(id, v) == <<IntV(id), v,
  IntV(<<-1, 59, 951829507, 47540, -951829507>>[id + 1]),
  TextV(<<<<"a", "b">>, <<"b">>, <<>>, <<"a", "a", "b">>, <<"b", "a">>>>[id + 1]),
  IF id = 2 THEN Null ELSE VectorV(<<<<1, 0>>, <<0, 1>>, <<1, 1>>, <<0, 2>>, <<2, 1>>>>[id + 1])>>
MCRowsFor ==
  [id \in 0..4 |-> {MCRow(id, v) : v \in <<{IntV(1)}, {Null, IntV(1)}, {IntV(0)}, {IntV(2)}, {IntV(1)}>>[id + 1]}]
MCOther == [u |-> Result(<<Col("id"), Col("w")>>, << <<IntV(1), IntV(7)>>, <<IntV(1), Null>>, <<Null, IntV(1)>>, <<IntV(3), IntV(0)>> >>)]
MCViews == [big |-> [From(Named("t", "")) EXCEPT !.filter = <<[node |-> "Cmp", column |-> Col("v"), op |-> "Ge", value |-> IntV(1)]>>]]

A == From(Named("t", "a"))
Cmp(c, op, n) == [node |-> "Cmp", column |-> c, op |-> op, value |-> IntV(n)]
CmpColumn(l, op, r) == [node |-> "CmpColumn", left |-> l, op |-> op, right |-> r]
IsNull(c) == [node |-> "IsNull", column |-> c, negated |-> FALSE]
And(l, r) == [node |-> "And", left |-> l, right |-> r]
Or(l, r) == [node |-> "Or", left |-> l, right |-> r]
Not(e) == [node |-> "Not", inner |-> e]
Exists(q) == [node |-> "Exists", query |-> q]
In(c, q) == [node |-> "InSubquery", column |-> c, query |-> q]
Scalar(c, op, q) == [node |-> "ScalarCmp", column |-> c, op |-> op, query |-> q]
WhereOf(q, e) == [q EXCEPT !.filter = <<e>>]
Showing(q, cols) == [q EXCEPT !.columns = cols, !.star = FALSE]
Joining(q, jtype, ref, on) == [q EXCEPT !.joins = <<[jtype |-> jtype, table |-> ref,
                                              on_expr |-> IF jtype = "Cross" THEN <<>> ELSE <<on>>]>>]
MaxOf(q, c) == [q EXCEPT !.aggregates = <<[alias |-> Col("m"), func |-> "Max", column |-> c]>>,
                         !.columns = <<Col("m")>>, !.star = FALSE]

OnIds == CmpColumn(Qualified("a", "id"), "Eq", Qualified("u", "id"))
OnValues == And(CmpColumn(Qualified("a", "v"), "Le", Qualified("u", "w")), Cmp(Qualified("u", "id"), "Ge", 1))
U == From(Named("u", ""))
B == From(Named("t", "b"))

MCSelects ==
  {WhereOf(T, e) : e \in {
     Not(Cmp(Col("v"), "Eq", 1)), Or(Cmp(Col("v"), "Gt", 0), IsNull(Col("v"))),
     And(Not(Cmp(Col("v"), "Ge", 2)), Cmp(Qualified("t", "id"), "Ne", 0)),
     Not([node |-> "InInt", column |-> Col("v"), values |-> {0, 2}]),
     Or([node |-> "BetweenInt", column |-> Col("v"), low |-> 1, high |-> 2], Cmp(Col("id"), "Lt", 2)),
     [node |-> "Like", column |-> Col("s"), pattern |-> <<"%", "a", "_", "%">>],
     [node |-> "ExtractCmp", column |-> Col("d"), field |-> "Month", op |-> "Gt", value |-> IntV(2)],
     And([node |-> "ExtractCmp", column |-> Col("d"), field |-> "Year", op |-> "Ge", value |-> IntV(1970)],
         [node |-> "ExtractCmp", column |-> Col("d"), field |-> "Day", op |-> "Le", value |-> IntV(28)]),
     Or([node |-> "ExtractCmp", column |-> Col("d"), field |-> "Hour", op |-> "Eq", value |-> IntV(13)],
        [node |-> "ExtractCmp", column |-> Col("d"), field |-> "Minute", op |-> "Ge", value |-> IntV(6)])}}
  \cup {Joining(A, j, Named("u", ""), OnIds) : j \in {"Cross", "Inner", "Left", "Full"}}
  \cup {Joining(A, "Right", Named("u", ""), OnValues)}
  \cup {WhereOf(Joining(A, "Left", Named("t", "b"), CmpColumn(Qualified("a", "v"), "Eq", Qualified("b", "id"))),
          Not(CmpColumn(Qualified("a", "id"), "Lt", Qualified("b", "id"))))}
  \cup {WhereOf(A, e) : e \in {
     Exists(WhereOf(U, CmpColumn(Qualified("u", "id"), "Eq", Qualified("a", "id")))),
     Not(Exists(WhereOf(B, CmpColumn(Qualified("b", "v"), "Gt", Qualified("a", "v"))))),
     Exists(WhereOf(U, Cmp(Col("w"), "Eq", 7))),
     And(In(Col("id"), Showing(WhereOf(U, Cmp(Col("w"), "Ge", 0)), <<Col("id")>>)),
         In(Col("id"), Showing(WhereOf(B, CmpColumn(Qualified("b", "id"), "Ge", Qualified("a", "v"))), <<Col("id")>>))),
     Or(Scalar(Col("id"), "Eq", MaxOf(B, Col("id"))), In(Col("id"), Showing(U, <<Col("id")>>))),
     In(Col("v"), Showing(U, <<Col("id")>>)), Not(In(Col("v"), Showing(U, <<Col("id")>>))),
     Not(In(Col("v"), Showing(WhereOf(U, Cmp(Col("w"), "Ge", 5)), <<Col("id")>>))),
     Not(Or(In(Col("id"), Showing(WhereOf(B, CmpColumn(Qualified("b", "id"), "Gt", Qualified("a", "id"))), <<Col("v")>>)),
            Scalar(Col("v"), "Gt", MaxOf(U, Col("id"))))),
     Not(Not(Scalar(Col("v"), "Le", MaxOf(WhereOf(U, Cmp(Col("w"), "Gt", 7)), Col("w"))))),
     Exists(WhereOf(U, And(CmpColumn(Qualified("u", "id"), "Eq", Qualified("a", "v")),
       Exists(WhereOf(B, CmpColumn(Qualified("b", "id"), "Eq", Qualified("u", "w")))))))}}

Big == MCViews.big.filter[1]
Cte(n, q) == [name |-> n, query |-> q, recursive |-> <<>>]
MCEquivalents == {
  <<From(Named("big", "")), WhereOf(T, Big)>>,
  <<WhereOf(From(Named("big", "x")), Cmp(Qualified("x", "id"), "Gt", 0)), WhereOf(T, And(Big, Cmp(Col("id"), "Gt", 0)))>>,
  <<From(Derived(WhereOf(T, Big), "x")), WhereOf(T, Big)>>,
  <<[From(Named("c", "")) EXCEPT !.with_ctes = <<Cte("c", WhereOf(T, Big))>>], WhereOf(T, Big)>>,
  <<[WhereOf(A, Exists(WhereOf(From(Named("c", "")), CmpColumn(Qualified("c", "id"), "Eq", Qualified("a", "v")))))
       EXCEPT !.with_ctes = <<Cte("c", From(Named("big", "")))>>],
    WhereOf(A, Exists(WhereOf(B, And(Cmp(Qualified("b", "v"), "Ge", 1),
                                     CmpColumn(Qualified("b", "id"), "Eq", Qualified("a", "v"))))))>>,
  <<Joining(A, "Left", Named("big", "x"), CmpColumn(Qualified("a", "v"), "Eq", Qualified("x", "id"))),
    Joining(A, "Left", Named("t", "b"),
      And(CmpColumn(Qualified("a", "v"), "Eq", Qualified("b", "id")), Cmp(Qualified("b", "v"), "Ge", 1)))>>}

Asc(c) == [column |-> c, descending |-> FALSE]
Desc(c) == [column |-> c, descending |-> TRUE]
Agg(f, c) == [alias |-> agg_default_alias(f, c), func |-> f, column |-> c]
MCPlanned == {
  [Showing(WhereOf(T, Not(Cmp(Col("v"), "Eq", 0))), <<Col("v"), Col("id")>>)
     EXCEPT !.order_by = <<Desc(Col("v")), Asc(Col("id"))>>, !.limit = <<2>>],
  [T EXCEPT !.group_by = <<Col("v")>>, !.aggregates = <<Agg("Count", Col("*")), Agg("Max", Col("id"))>>,
            !.having = <<[node |-> "AggCmp", func |-> "Count", column |-> Col("*"), op |-> "Gt", value |-> IntV(1)]>>,
            !.order_by = <<Desc(agg_default_alias("Max", Col("id")))>>, !.limit = <<1>>],
  [WhereOf(T, Cmp(Col("id"), "Gt", 0)) EXCEPT !.aggregates = <<Agg("Sum", Col("v")), Agg("Avg", Col("v"))>>],
  [Showing(T, <<Col("v")>>) EXCEPT !.order_by = <<Asc(Col("id"))>>]}

MCOrdered == {<<Asc(Col("v")), Desc(Col("id"))>>, <<Desc(Col("v"))>>, <<Asc(Col("s")), Asc(Col("v"))>>}
MCNearest == {<<1, 1>>, <<-1, 2>>}
MCAggregated == {[func |-> "Count", column |-> Col("*")], [func |-> "Sum", column |-> Col("v")],
                 [func |-> "Min", column |-> Col("d")]}
MCOperands == {Showing(T, <<Col("v")>>), Showing(T, <<Col("id")>>), Showing(U, <<Col("w")>>)}

P == Cmp(Col("v"), "Eq", 1)
Q == IsNull(Qualified("t", "s"))
Depth1 == {P, Q, Not(P), And(P, Q), Or(P, Q)}
Depth2 == Depth1 \cup {Not(e) : e \in Depth1} \cup {And(e, f) : e, f \in Depth1} \cup {Or(e, f) : e, f \in Depth1}
MCConditions == Depth2 \cup {Not(And(e, Or(P, Q))) : e \in Depth1} \cup {And(Or(e, P), Not(Or(Q, e))) : e \in Depth1}

CountAll == [alias |-> agg_default_alias("Count", Col("*")), func |-> "Count", column |-> Col("*")]
MaxId == [alias |-> Col("m"), func |-> "Max", column |-> Qualified("t", "id")]
Grouped(having) ==
  [Showing(T, <<Col("v"), CountAll.alias, MaxId.alias>>) EXCEPT
     !.aggregates = <<CountAll, MaxId>>, !.group_by = <<Col("v"), Qualified("t", "s")>>, !.having = <<having>>]
NotNull(c) == [IsNull(c) EXCEPT !.negated = TRUE]
Windowed(call) == [Showing(T, <<Col("v"), Col("w")>>) EXCEPT !.window_funcs = <<[alias |-> Col("w"), call |-> call]>>]
NewWindow(func, column) == [NewCall(func, IF func = "Agg" THEN "Sum" ELSE "", column) EXCEPT !.partition_by = <<Col("v")>>]
Compound(first, ops, order, limit) == [first |-> first, operations |-> ops, order_by |-> order, limit |-> limit]
Column(n, type, own) == [name |-> Col(n), ctype |-> type, constraints |-> own]
MCStatements ==
  {Stmt("Select", q) : q \in
     MCSelects \cup UNION {{p[1], p[2]} : p \in MCEquivalents} \cup {Closure(1, "Union"), Closure(2, "UnionAll")}
     \cup {Grouped(h) : h \in {
          Cmp(Col("m"), "Gt", 1), Not(Cmp(CountAll.alias, "Le", 2)), And(NotNull(Col("m")), Or(Cmp(CountAll.alias, "Eq", 1), P))}}
     \cup {Windowed(c) : c \in {
          [NewWindow("Lag", Col("id")) EXCEPT !.offset = 2, !.default = <<IntV(0)>>, !.order_by = <<Desc(Qualified("t", "v"))>>],
          NewCall("RowNumber", "", Col("")),
          [NewWindow("Agg", Col("v")) EXCEPT !.order_by = <<Asc(Col("id"))>>,
             !.frame = <<[kind |-> "Rows", start |-> Preceding(1), end |-> UnboundedFollowing]>>],
          [NewCall("Agg", "Count", Col("*")) EXCEPT !.order_by = <<Asc(Col("id"))>>,
             !.frame = <<[kind |-> "Range", start |-> UnboundedPreceding, end |-> CurrentRow]>>]}}
     \cup {[T EXCEPT !.order_by = <<Desc(Col("v")), Asc(Col("id"))>>, !.limit = <<2>>],
           [From(Named("pg_catalog.pg_class", "c")) EXCEPT !.order_by_cosine = <<[column |-> Col("e"), param |-> 1, k |-> 3]>>],
           From(Named("pg_catalog.pg_type", ""))}}
  \cup {Stmt("Compound", Compound(Showing(T, <<Col("v")>>),
           <<[op |-> op, query |-> WhereOf(Showing(U, <<Col("w")>>), P)], [op |-> "Union", query |-> U]>>,
           <<Desc(Col("v"))>>, <<1>>)) : op \in {"Union", "UnionAll", "Intersect", "Except"}}
  \cup {Stmt("SelectLiteral", <<[value |-> IntV(1), alias |-> <<>>], [value |-> TextV(<<"a">>), alias |-> <<Col("x")>>],
                               [value |-> Null, alias |-> <<>>]>>),
        Stmt("Insert", [table |-> "t", columns |-> <<Col("id"), Col("e")>>,
                        values |-> <<<<IntV(1), VectorV(<<1, 0>>)>>, <<IntV(2), Null>>>>]),
        Stmt("Insert", [table |-> "t", columns |-> <<>>, values |-> <<<<BoolV(TRUE)>>>>]),
        Stmt("Update", [table |-> "t", assignments |-> <<[column |-> Col("v"), value |-> IntV(2)],
                          [column |-> Col("s"), value |-> TextV(<<"b">>)]>>, filter |-> <<Or(P, Q)>>]),
        Stmt("Delete", [table |-> "t", filter |-> <<>>]),
        Stmt("CreateTable", [table |-> "t",
          columns |-> <<Column("id", <<"int", 0>>, <<"PrimaryKey">>), Column("s", <<"varchar", 5>>, <<"NotNull", "Unique">>),
                        Column("e", <<"vector", 0>>, <<>>)>>,
          constraints |-> <<[key |-> "Unique", columns |-> <<Col("id"), Col("s")>>], [key |-> "Check", expr |-> Not(Or(P, Q))],
            [key |-> "ForeignKey", columns |-> <<Col("id")>>, ref_table |-> "u", ref_columns |-> <<Col("id")>>]>>]),
        Stmt("CreateView", [name |-> "big", query |-> MCViews.big]), Stmt("DropView", "big"),
        Stmt("AlterTable", [table |-> "t", op |-> <<"AddColumn", Col("x"), <<"text", 0>>>>]),
        Stmt("AlterTable", [table |-> "t", op |-> <<"DropColumn", Col("x")>>]),
        Stmt("AlterTable", [table |-> "t", op |-> <<"RenameColumn", Col("x"), Col("y")>>]),
        Stmt("ShowParameter", "p"), Stmt("ResetParameter", "p"), Stmt("ResetAll", ""),
        Stmt("begin", ""), Stmt("commit", ""), Stmt("rollback", "")}
=============================================================================
