---------------------------- MODULE MCWireServer ----------------------------
(***************************************************************************)
(* Two clients and up to two pipelined requests each.                      *)
(***************************************************************************)
EXTENDS WireServer

CONSTANTS c1, c2

L == Letter

\* A query, and what the client means by it.
Query(text, meaning) ==
  [tag |-> "Query", payload |-> Append(text, NUL), valid |-> TRUE, meaning |-> meaning]
NotSql(text) ==
  [tag |-> "Query", payload |-> Append(text, NUL), valid |-> FALSE, meaning |-> <<>>]
Plain(tag, payload) == [tag |-> tag, payload |-> payload, valid |-> TRUE, meaning |-> <<>>]

S(kind) == Statement(kind, <<>>)

\* BEGIN; INSERT
BeginInsert == Query(<<L.Begin, Semicolon, L.Insert>>, <<S("Begin"), S("Insert")>>)
\* INSERT 'it''s; fine' ;; COMMIT -- done; really
Quoted ==
  LET text == <<Quote, 97, Quote, Quote, Semicolon, Quote>>
  IN  Query(<<L.Insert>> \o text \o <<Semicolon, Space, Semicolon, L.Commit, Dash, Dash, Semicolon>>,
            <<Statement("Insert", text), S("Commit")>>)
\* /* a /* b */ ; */ SELECT
Commented ==
  Query(<<Slash, Star, Slash, Star, Star, Slash, Semicolon, Star, Slash, L.Select>>, <<S("Select")>>)
\* A statement that fails between two that do not.
Failing == Query(<<L.Insert, Semicolon, L.Fails, Semicolon, L.Insert>>,
                 <<S("Insert"), S("Fails"), S("Insert")>>)
Panicking == Query(<<L.Insert, Semicolon, L.Panics>>, <<S("Insert"), S("Panics")>>)
\* An INSERT before something that is no statement.
HalfSql == NotSql(<<L.Insert, Semicolon, Equals>>)
Empty == Query(<<Semicolon>>, <<>>)
Synonyms == Query(<<L.Start, Semicolon, L.Abort, Semicolon, L.Show, 97>>,
                  <<S("Begin"), S("Rollback"), Statement("Show", <<97>>)>>)
Settings == Query(<<L.Set, 97, Equals, 98, Semicolon, L.Reset, 97, Semicolon, L.ResetAll>>,
                  <<Statement("Set", <<97, Equals, 98>>), Statement("Reset", <<97>>), S("ResetAll")>>)
\* $$;$$ keeps its semicolon, and no statement starts with it.
Dollars == NotSql(<<Dollar, Dollar, Semicolon, Dollar, Dollar>>)

NotUtf8 == NotSql(<<L.Insert, Quote, 255, Quote>>)
\* A dot that ends a SELECT ... FROM, after an INSERT and after a syntax error;
\* one that does not.
EndsInDot == NotSql(<<L.Insert, Semicolon, L.Select, Dot>>)
ErrorBeforeDot == NotSql(<<Equals, Semicolon, L.Select, Dot>>)
HasDot == Query(<<L.Select, Quote, Dot, Quote>>, <<Statement("Select", <<Quote, Dot, Quote>>)>>)

Sync == Plain("Sync", <<>>)
Terminate == Plain("Terminate", <<>>)

Client(o, r, closes, cuts) ==
  [opening |-> o, requests |-> r, closes |-> closes, cuts |-> cuts]
Absent == Client("none", <<>>, FALSE, {})
Both(one, other) == [c \in Conn |-> IF c = c1 THEN one ELSE other]

\* Two clients compete for the global transaction.
Competing ==
  {Both(Client("startup", r, TRUE, {}), Client("startup", <<BeginInsert>>, FALSE, {})) :
     r \in {<<BeginInsert, Quoted>>, <<Failing, Sync>>}}

\* A client whose segments end in a header, in a payload, in a startup packet.
InPieces ==
  {Both(Client("startup", <<BeginInsert, Sync>>, TRUE, {3, 8}), Client("startup", <<>>, TRUE, {}))}
  \cup {Both(Client(o, <<Sync>>, TRUE, {3, 8}), Client("startup", <<>>, TRUE, {})) :
          o \in {"ssl", "ssl at once"}}

\* Every kind of request before one that shows the state it left, from a single
\* client.
Others ==
  {Commented, Empty, Synonyms, Settings, Dollars, HalfSql, Quoted, Sync, Terminate, NotUtf8,
   ErrorBeforeDot, HasDot, Plain("Password", <<255, NUL>>)}
  \cup {Plain(tag, <<97, NUL>>) :
          tag \in {"Parse", "Bind", "Execute", "Flush", "Close", "Describe", "Password"}}
Alone ==
  {Both(Client("startup", <<r, q>>, TRUE, {3}), Absent) :
     r \in Others, q \in {Sync, Quoted, HalfSql}}

\* Packets that are not well formed, or that the code panics on, beside a client
\* that sends nothing of the kind.
Faulty ==
  {Both(Client("startup", <<r>>, TRUE, {}), Client("startup", <<BeginInsert>>, TRUE, {})) :
     r \in {[NotSql(<<>>) EXCEPT !.payload = <<>>], EndsInDot, Panicking, Plain("Password", <<>>)}}
  \cup {Both(Client(o, <<Sync>>, FALSE, {}), Client("startup", <<BeginInsert>>, TRUE, {})) :
          o \in {"short", "not utf8"}}

MCScripts == Competing \cup InPieces \cup Alone \cup Faulty

MCParams == <<117, NUL, 120, NUL, NUL>>
=============================================================================
