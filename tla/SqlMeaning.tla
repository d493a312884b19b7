----------------------------- MODULE SqlMeaning -----------------------------
(***************************************************************************)
(* What a query promises, stated without running it: the reference that    *)
(* the executor and Select are compared with.  A frame binds each alias of *)
(* a query to a row position of its table (0: the NULLs of an outer join); *)
(* an environment is the sequence of frames a name may be looked up in,    *)
(* the innermost first.  Statements here read named tables, with at most   *)
(* one join, and their predicates name existing columns.                   *)
(***************************************************************************)
EXTENDS Integers, Sequences, FiniteSets, SequencesExt, TLC

NULL == <<"null">>

ColumnOf(table, n) == CHOOSE i \in DOMAIN table.columns : table.columns[i].n = n
HasColumn(table, n) == \E i \in DOMAIN table.columns : table.columns[i].n = n
Cell(db, bound, n) ==
  IF bound.pos = 0 THEN NULL
  ELSE db.tables[bound.table].rows[bound.pos][ColumnOf(db.tables[bound.table], n)]

\* The value of a name: of the innermost frame that has the alias, or, if it
\* has no qualifier, a column of that name.
Meaning(db, env, name) ==
  LET binds(f, a) == IF name.q # <<>> THEN a = name.q[1] ELSE HasColumn(db.tables[f[a].table], name.n)
      f == env[Min({i \in DOMAIN env : \E a \in DOMAIN env[i] : binds(env[i], a)})]
  IN Cell(db, f[CHOOSE a \in DOMAIN f : binds(f, a)], name.n)

\* A text matches a pattern if it can be cut into one piece per pattern item.
RECURSIVE Matches(_, _)
Matches(text, pat) ==
  IF pat = <<>> THEN text = <<>>
  ELSE \E n \in 0..Len(text) :
         /\ pat[Len(pat)] # "%" => n = 1 /\ pat[Len(pat)] \in {"_", text[Len(text)]}
         /\ Matches(SubSeq(text, 1, Len(text) - n), SubSeq(pat, 1, Len(pat) - 1))

\* The calendar: the days of the months before m, and of the years before y.
Leap(y) == y % 4 = 0 /\ (y % 100 # 0 \/ y % 400 = 0)
MonthDays(y, m) == IF m = 2 THEN (IF Leap(y) THEN 29 ELSE 28) ELSE IF m \in {4, 6, 9, 11} THEN 30 ELSE 31
DaysBeforeMonth(y, m) == FoldLeft(LAMBDA t, k : t + MonthDays(y, k), 0, [k \in 1..(m - 1) |-> k])
DaysBeforeYear(y) ==   \* counted from 1 January 1970
  IF y >= 1970
  THEN 365 * (y - 1970) + Cardinality({k \in 1970..(y - 1) : Leap(k)})
  ELSE -(365 * (1970 - y) + Cardinality({k \in y..1969 : Leap(k)}))
\* A small value is a date, in days; a larger one a timestamp, in seconds.
IsDate(value) == -1000000 < value /\ value < 1000000
DateField(field, value) ==
  LET days == IF IsDate(value) THEN value ELSE value \div 86400
      second == IF IsDate(value) THEN 0 ELSE value % 86400
      near == 1970 + (days \div 365)
      y == CHOOSE k \in (near - 1)..(near + 1) : DaysBeforeYear(k) <= days /\ days < DaysBeforeYear(k + 1)
      rest == days - DaysBeforeYear(y)
      m == CHOOSE k \in 1..12 : DaysBeforeMonth(y, k) <= rest /\ rest < DaysBeforeMonth(y, k) + MonthDays(y, k)
  IN CASE field = "Year" -> y [] field = "Month" -> m [] field = "Day" -> rest - DaysBeforeMonth(y, m) + 1
       [] field = "Hour" -> second \div 3600 [] field = "Minute" -> (second \div 60) % 60
       [] field = "Second" -> second % 60

\* SQL's three truth values; comparisons are of integers here.
Compared(op, l, r) ==
  IF NULL \in {l, r} THEN "null"
  ELSE LET holds == CASE op = "Eq" -> l[2] = r[2] [] op = "Ne" -> l[2] # r[2]
                      [] op = "Lt" -> l[2] < r[2] [] op = "Le" -> l[2] <= r[2]
                      [] op = "Gt" -> l[2] > r[2] [] op = "Ge" -> l[2] >= r[2]
       IN IF holds THEN "true" ELSE "false"
Verdict(value, P(_)) == IF value = NULL THEN "null" ELSE IF P(value[2]) THEN "true" ELSE "false"
TruthRank == [false |-> 0, null |-> 1, true |-> 2]
OfRank == <<"false", "null", "true">>

RECURSIVE Holds3(_, _, _), Frames(_, _, _)
\* The values of a query of one column.
Listed(db, stmt, env) == {Meaning(db, <<f>>, stmt.columns[1]) : f \in Frames(db, stmt, env)}

\* AND is the least, OR the greatest of two truth values, NOT the mirror image;
\* IN is the OR of the comparisons with the values listed.
Holds3(db, e, env) ==
  LET at(name) == Meaning(db, env, name)
      rank(p) == TruthRank[Holds3(db, p, env)]
  IN CASE e.node = "And" -> OfRank[1 + Min({rank(e.left), rank(e.right)})]
       [] e.node = "Or" -> OfRank[1 + Max({rank(e.left), rank(e.right)})]
       [] e.node = "Not" -> OfRank[3 - rank(e.inner)]
       [] e.node = "Cmp" -> Compared(e.op, at(e.column), e.value)
       [] e.node = "CmpColumn" -> Compared(e.op, at(e.left), at(e.right))
       [] e.node = "IsNull" -> IF (at(e.column) = NULL) # e.negated THEN "true" ELSE "false"
       [] e.node = "Like" -> Verdict(at(e.column), LAMBDA t : Matches(t, e.pattern))
       [] e.node = "InInt" -> Verdict(at(e.column), LAMBDA i : i \in e.values)
       [] e.node = "BetweenInt" -> Verdict(at(e.column), LAMBDA i : i \in e.low..e.high)
       [] e.node = "ExtractCmp" ->
            IF at(e.column) = NULL THEN "null"
            ELSE Compared(e.op, <<"int", DateField(e.field, at(e.column)[2])>>, e.value)
       [] e.node = "Exists" -> IF Frames(db, e.query, env) # {} THEN "true" ELSE "false"
       [] e.node = "InSubquery" ->
            LET equal(value) == Compared("Eq", at(e.column), value)
            IN OfRank[1 + Max({0} \cup {TruthRank[equal(v)] : v \in Listed(db, e.query, env)})]
       [] e.node = "ScalarCmp" ->   \* the query is SELECT MAX(column), over integers
            LET ints == {Meaning(db, <<f>>, e.query.aggregates[1].column) : f \in Frames(db, e.query, env)} \ {NULL}
            IN IF ints = {} THEN "null"
               ELSE Compared(e.op, at(e.column), <<"int", Max({v[2] : v \in ints})>>)

\* The frames a query's rows stand for: FROM and JOIN, then WHERE.
Frames(db, stmt, env) ==
  LET alias(ref) == IF ref.alias = "" THEN ref.name ELSE ref.alias
      positions(ref) == DOMAIN db.tables[ref.name].rows
      bind(ref, i) == alias(ref) :> [table |-> ref.name, pos |-> i]
      from == stmt.table
      joined == IF stmt.joins = <<>> THEN {bind(from, i) : i \in positions(from)}
        ELSE LET join == stmt.joins[1]
                 pair(i, j) == bind(from, i) @@ bind(join.table, j)
                 on(i, j) == join.jtype = "Cross" \/ Holds3(db, join.on_expr[1], <<pair(i, j)>>) = "true"
                 L == positions(from)
                 R == positions(join.table)
             IN {pair(i, j) : <<i, j>> \in {p \in L \X R : on(p[1], p[2])}}
                \cup (IF join.jtype \in {"Left", "Full"}
                      THEN {pair(i, 0) : i \in {i \in L : \A j \in R : ~on(i, j)}} ELSE {})
                \cup (IF join.jtype \in {"Right", "Full"}
                      THEN {pair(0, j) : j \in {j \in R : \A i \in L : ~on(i, j)}} ELSE {})
  IN {f \in joined : stmt.filter = <<>> \/ Holds3(db, stmt.filter[1], <<f>> \o env) = "true"}

(***************************************************************************)
(* Where the code is known not to follow SQL.  It judges a comparison with *)
(* a subquery true or false, never NULL: it takes NULL IN (.., NULL, ..)   *)
(* for true and every other comparison that is NULL for false              *)
(* (subquery.rs:380, 395, 403, 431).  That shows in an answer when the     *)
(* value is too high outside a NOT or too low inside one.  EXTRACT rounds  *)
(* a timestamp before 1970 toward 1970 (expr.rs:362), and its Second is    *)
(* the count of all seconds since 1970, not the second of the minute       *)
(* (expr.rs:379).                                                          *)
(***************************************************************************)
RECURSIVE Departs(_, _, _, _)
Departs(db, e, env, negated) ==
  LET at(name) == Meaning(db, env, name)
      TakenForTrue == at(e.column) = NULL /\ NULL \in Listed(db, e.query, env)
  IN CASE e.node \in {"And", "Or"} -> Departs(db, e.left, env, negated) \/ Departs(db, e.right, env, negated)
       [] e.node = "Not" -> Departs(db, e.inner, env, ~negated)
       [] e.node = "InSubquery" -> Holds3(db, e, env) = "null" /\ negated # TakenForTrue
       [] e.node = "ScalarCmp" -> Holds3(db, e, env) = "null" /\ negated
       [] e.node = "ExtractCmp" -> LET v == at(e.column) IN
            v # NULL /\ (e.field = "Second" \/ (v[2] < 0 /\ ~IsDate(v[2])))
       [] OTHER -> FALSE

\* The row SELECT * shows for a frame.
RowOf(db, stmt, f) ==
  LET refs == <<stmt.table>> \o [j \in DOMAIN stmt.joins |-> stmt.joins[j].table]
      cells(ref) == LET b == f[IF ref.alias = "" THEN ref.name ELSE ref.alias] IN
                      [i \in DOMAIN db.tables[ref.name].columns |->
                         Cell(db, b, db.tables[ref.name].columns[i].n)]
  IN FlattenSeq([r \in DOMAIN refs |-> cells(refs[r])])
=============================================================================
