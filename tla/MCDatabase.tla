----------------------------- MODULE MCDatabase -----------------------------
(***************************************************************************)
(* Two sessions (or one embedding program) over a parent table p with a    *)
(* primary key and a child table c with a foreign key and a vector column. *)
(***************************************************************************)
EXTENDS Database

CONSTANT x  \* a vector

Column(name, type, constraints) == [name |-> name, type |-> type, constraints |-> constraints]
Constraint(kind, columns, ref_table, ref_columns, least) ==
  [kind |-> kind, columns |-> columns, ref_table |-> ref_table,
   ref_columns |-> ref_columns, least |-> least]

P == [table |-> "p", columns |-> <<Column("k", "Int", {"PrimaryKey"})>>,
      constraints |-> <<Constraint("Check", <<"k">>, "", <<>>, 1)>>]
C == [table |-> "c", columns |-> <<Column("r", "Int", {}), Column("v", "Vector", {})>>,
      constraints |-> <<Constraint("ForeignKey", <<"r">>, "p", <<"k">>, 0)>>]
MCSchemas == <<P, C>>
MCCreates == {P, [P EXCEPT !.table = "e"]}

InsertInto(t, columns, values) == [table |-> t, columns |-> columns, values |-> values]
MCInserts == {InsertInto("p", <<"k">>, << <<1>> >>),
              InsertInto("p", <<"k">>, << <<1>>, <<2>> >>),
              InsertInto("c", <<"r", "v">>, << <<1, x>> >>)}
MCFill == <<InsertInto("p", <<"k">>, << <<1>> >>), InsertInto("c", <<"r", "v">>, << <<1, x>> >>)>>
SetWhere(t, column, value, filter) ==
  [table |-> t, column |-> column, value |-> value, filter |-> filter]
MCUpdates == {SetWhere("p", "k", 2, [column |-> "k", value |-> 1]),
              SetWhere("c", "v", Null, Absent)}
MCDeletes == {[table |-> "p", filter |-> Absent], [table |-> "c", filter |-> Absent]}
MCAlters == {[op |-> "AddColumn", table |-> "c", name |-> "w", arg |-> "Int"],
             [op |-> "DropColumn", table |-> "c", name |-> "v", arg |-> ""],
             [op |-> "RenameColumn", table |-> "p", name |-> "k", arg |-> "q"]}
MCViews == {[name |-> "b", refs |-> {"a"}], [name |-> "b", refs |-> {"b"}]}
MCFirstViews == <<[name |-> "a", refs |-> {"p"}]>>
MCFirstSettings == << <<"TimeZone", "UTC">> >>
MCDefaults == [p \in Parameter |-> Absent]

Symmetric == Permutations(Session)
=============================================================================
