------------------------------ MODULE WireText ------------------------------
(***************************************************************************)
(* The bytes of the PostgreSQL wire protocol as out-archon-pgwire handles  *)
(* them: the framing of messages (codec/mod.rs) and the compatibility      *)
(* layer that cuts the text of a query into statements (compat.rs).        *)
(*                                                                         *)
(* Bytes are numbers.  Of SQL itself the wire layer tells apart only the   *)
(* kind of a statement, so a keyword phrase is one letter: I stands for an *)
(* INSERT, B for BEGIN, b for its synonym START TRANSACTION, and so on.    *)
(***************************************************************************)
EXTENDS Naturals, Sequences, FiniteSets

NUL == 0
Newline == 10
Space == 32
DoubleQuote == 34
Dollar == 36
Quote == 39
Star == 42
Dash == 45
Dot == 46
Slash == 47
Semicolon == 59
Equals == 61

IsAlphanumeric(b) == b \in 48..57 \/ b \in 65..90 \/ b \in 97..122 \/ b = 95

\* The letters of the keyword phrases.
Letter ==
  [Insert |-> 73, Fails |-> 70, Panics |-> 80, Select |-> 83, Constant |-> 75,
   Begin |-> 66, Commit |-> 67, Rollback |-> 82, Start |-> 98, End |-> 99, Abort |-> 114,
   Set |-> 84, Show |-> 72, Reset |-> 69, ResetAll |-> 65]

\* The byte of the sequence at position i, NUL past the end: peek.
At(s, i) == IF i \in DOMAIN s THEN s[i] ELSE NUL
-----------------------------------------------------------------------------
\* Messages: the type, the length of the rest (itself included), the payload.
write_message(type, payload) == <<type, 0, 0, 0, 4 + Len(payload)>> \o payload

LengthOf(buf) == buf[2] * 16777216 + buf[3] * 65536 + buf[4] * 256 + buf[5]

\* read_message: no message yet, an invalid length, or a message and what
\* follows it.
read_message(buf) ==
  IF Len(buf) < 5 THEN [is |-> "None"]
  ELSE IF LengthOf(buf) < 4 THEN [is |-> "InvalidLength"]
  ELSE IF Len(buf) < 1 + LengthOf(buf) THEN [is |-> "None"]
  ELSE [is |-> "Message", type |-> buf[1],
        payload |-> SubSeq(buf, 6, 1 + LengthOf(buf)),
        rest |-> SubSeq(buf, 2 + LengthOf(buf), Len(buf))]

\* read_cstring from position i: the bytes up to the next NUL or the end, and
\* the position after it.
read_cstring(s, i) ==
  LET ends == {j \in i..Len(s) : s[j] = NUL}
      end == IF ends = {} THEN Len(s) + 1 ELSE CHOOSE j \in ends : \A k \in ends : j <= k
  IN  [text |-> SubSeq(s, i, end - 1), next |-> IF ends = {} THEN end ELSE end + 1]

\* Whether from_utf8 accepts the bytes; no character here has more than one.
IsUtf8(s) == \A i \in DOMAIN s : s[i] < 128

\* The parameters of a startup message: name, value, name, value, up to an
\* empty name.
RECURSIVE StartupParams(_, _)
StartupParams(s, i) ==
  LET key == read_cstring(s, i)
      value == read_cstring(s, key.next)
  IN  IF key.text = <<>> THEN <<>>
      ELSE <<<<key.text, value.text>>>> \o StartupParams(s, value.next)
-----------------------------------------------------------------------------
\* strip_comments from position i on, `depth` block comments deep or inside a
\* line comment.  It knows nothing of string literals.
RECURSIVE Stripped(_, _, _, _)
Stripped(sql, i, depth, line) ==
  LET Is(a, b) == At(sql, i) = a /\ At(sql, i + 1) = b
  IN  CASE i > Len(sql) -> <<>>
        [] i <= Len(sql) /\ depth > 0 ->
             CASE Is(Star, Slash) -> Stripped(sql, i + 2, depth - 1, FALSE)
               [] Is(Slash, Star) -> Stripped(sql, i + 2, depth + 1, FALSE)
               [] OTHER -> Stripped(sql, i + 1, depth, FALSE)
        [] i <= Len(sql) /\ depth = 0 /\ line ->
             IF sql[i] = Newline THEN <<Newline>> \o Stripped(sql, i + 1, 0, FALSE)
             ELSE Stripped(sql, i + 1, 0, TRUE)
        [] i <= Len(sql) /\ depth = 0 /\ ~line ->
             CASE Is(Dash, Dash) -> Stripped(sql, i + 2, 0, TRUE)
               [] Is(Slash, Star) -> Stripped(sql, i + 2, 1, FALSE)
               [] OTHER -> <<sql[i]>> \o Stripped(sql, i + 1, 0, FALSE)
strip_comments(sql) == Stripped(sql, 1, 0, FALSE)

trim(s) ==
  LET inked == {i \in DOMAIN s : s[i] \notin {Space, Newline}}
  IN  IF inked = {} THEN <<>>
      ELSE SubSeq(s, CHOOSE i \in inked : \A j \in inked : i <= j,
                     CHOOSE i \in inked : \A j \in inked : i >= j)

\* The run of tag characters from position i on.
TagAt(sql, i) ==
  LET n == CHOOSE n \in 0..(Len(sql) + 1 - i) :
             /\ \A j \in i..(i + n - 1) : IsAlphanumeric(sql[j])
             /\ ~IsAlphanumeric(At(sql, i + n))
  IN  SubSeq(sql, i, i + n - 1)

\* split_statements from position i on, within the given kind of quotes.  The
\* scan for a dollar tag also takes the character that ends it before it looks
\* for the `$`, so only a tag followed by two of them opens or closes a quote.
RECURSIVE Split(_, _, _, _, _)
Split(sql, i, within, tag, current) ==
  LET c == At(sql, i)
      Done == IF trim(current) = <<>> THEN <<>> ELSE <<trim(current)>>
      Take(n, mode, t) == Split(sql, i + n, mode, t, current \o SubSeq(sql, i, i + n - 1))
      Quoted(q) ==
        CASE c = q /\ At(sql, i + 1) = q -> Take(2, within, <<>>)
          [] c = q /\ At(sql, i + 1) # q -> Take(1, "None", <<>>)
          [] OTHER -> Take(1, within, <<>>)
      run == TagAt(sql, i + 1)
      TagHolds == At(sql, i + Len(run) + 2) = Dollar
  IN  CASE i > Len(sql) -> Done
        [] i <= Len(sql) /\ within = "Dollar" ->
             CASE c = Dollar /\ At(sql, i + 1) = Dollar /\ tag = <<>> -> Take(2, "None", <<>>)
               [] c = Dollar /\ ~(At(sql, i + 1) = Dollar /\ tag = <<>>)
                    /\ TagHolds /\ run = tag -> Take(Len(run) + 2, "None", <<>>)
               [] OTHER -> Take(1, "Dollar", tag)
        [] i <= Len(sql) /\ within = "Single" -> Quoted(Quote)
        [] i <= Len(sql) /\ within = "Double" -> Quoted(DoubleQuote)
        [] i <= Len(sql) /\ within = "None" ->
             CASE c = Quote -> Take(1, "Single", <<>>)
               [] c = DoubleQuote -> Take(1, "Double", <<>>)
               [] c = Dollar /\ At(sql, i + 1) = Dollar -> Take(2, "Dollar", <<>>)
               [] c = Dollar /\ At(sql, i + 1) # Dollar /\ i < Len(sql) /\ TagHolds ->
                    Split(sql, i + Len(run) + 2, "Dollar", run,
                          current \o <<Dollar>> \o run \o <<Dollar>>
                                  \o SubSeq(sql, i + 1, i + Len(run) + 1))
               [] c = Semicolon -> Done \o Split(sql, i + 1, "None", <<>>, <<>>)
               [] OTHER -> Take(1, "None", <<>>)
split_statements(sql) == Split(sql, 1, "None", <<>>, <<>>)
-----------------------------------------------------------------------------
\* A statement is its kind and the text after the keyword phrase.
Statement(kind, rest) == <<kind, rest>>

IsLiteral(s) == Len(s) >= 2 /\ s[1] = Quote /\ s[Len(s)] = Quote

\* The parser panics: it reads past the end after a dot that ends a FROM.
ParserPanic == Statement("panic", <<>>)

\* parse_statement of tpt-archon-relational, which module Parser models in full,
\* down to the kinds of statement.  BEGIN, COMMIT and ROLLBACK ignore what follows
\* them.
Parses(text) ==
  LET kind == {k \in {"Insert", "Fails", "Panics", "Select", "Constant", "Begin", "Commit", "Rollback"} :
                 Letter[k] = Head(text)}
      rest == Tail(text)
  IN  IF kind = {"Select"} /\ text[Len(text)] = Dot THEN {ParserPanic}
      ELSE {Statement(k, IF k \in {"Begin", "Commit", "Rollback"} THEN <<>> ELSE rest) :
              k \in {j \in kind : \/ rest = <<>> \/ IsLiteral(rest)
                                  \/ j \in {"Begin", "Commit", "Rollback"}}}

\* normalize_statement, then the match of process_sql on its result: the set of
\* the one statement that the text of one statement becomes, empty when the
\* parser refuses it.
StatementOf(text) ==
  LET eq == {i \in DOMAIN text : text[i] = Equals}
      Is(phrase) == Head(text) = Letter[phrase]
  IN  CASE Is("Set") /\ eq # {} -> {Statement("Set", Tail(text))}
        [] Is("Show") /\ Len(text) > 1 -> {Statement("Show", Tail(text))}
        [] text = <<Letter.ResetAll>> -> {Statement("ResetAll", <<>>)}
        [] Is("Reset") /\ Len(text) > 1 -> {Statement("Reset", Tail(text))}
        [] text = <<Letter.Start>> -> {Statement("Begin", <<>>)}
        [] text = <<Letter.End>> -> {Statement("Commit", <<>>)}
        [] text = <<Letter.Abort>> -> {Statement("Rollback", <<>>)}
        [] OTHER -> Parses(text)

\* process_sql: every statement of the text, or an error or a panic at the first
\* that does not parse.
process_sql(sql) ==
  LET texts == split_statements(strip_comments(sql))
      bad == {i \in DOMAIN texts : StatementOf(texts[i]) \in {{}, {ParserPanic}}}
  IN  IF bad # {}
      THEN LET first == CHOOSE i \in bad : \A j \in bad : i <= j
           IN  [is |-> IF StatementOf(texts[first]) = {} THEN "error" ELSE "panic"]
      ELSE [is |-> "ok",
            stmts |-> [i \in DOMAIN texts |-> CHOOSE s \in StatementOf(texts[i]) : TRUE]]
=============================================================================
