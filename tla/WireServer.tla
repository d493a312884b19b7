----------------------------- MODULE WireServer -----------------------------
(***************************************************************************)
(* serve_scheduled of out-archon-pgwire: one thread accepts connections    *)
(* and polls one PgConnectionTask per iteration on the kernel's scheduler. *)
(* The sockets never block.  A client connects, sends its requests without *)
(* waiting for answers (or waits where the protocol makes it), and closes; *)
(* the network delivers its bytes in segments that may end inside a        *)
(* packet, so a poll may find part of a message.                           *)
(*                                                                         *)
(* All connections share one Database and, because the task calls          *)
(* execute_with_stats, its one global transaction.  The database is        *)
(* reduced to whether that transaction is open and to what each connection *)
(* had it execute, with which outcome.                                     *)
(***************************************************************************)
EXTENDS Scheduler, WireText, SequencesExt

CONSTANTS
  Conn,     \* connections
  Scripts,  \* what the clients may do: functions from Conn to the opening packet
            \* (or "none"), the requests, whether the client ever closes, and the
            \* offsets in a packet where a segment may end
  MaxRequests, \* bound on the requests of a client
  Params    \* payload of a startup message

VARIABLES
  script,   \* the script of this behaviour
  client,   \* per connection: its status, how many requests it has sent
  inflight, \* packets sent, the first of them perhaps arrived in part
  cut,      \* whether a segment has ended where the server cannot resume
  socket,   \* bytes arrived and not yet read
  out,      \* what the server wrote, as one sequence of messages per request
  backlog,  \* connections waiting in accept
  sched,    \* the scheduler, its tasks being connections
  task,     \* per connection, the PgConnectionTask
  db,       \* the shared database
  server    \* where the thread is: "accepting", "ticking", "stopped" once accept has
            \* failed, or "panicked"

vars == <<script, client, inflight, cut, socket, out, backlog, sched, task, db, server>>

ProtocolVersion == <<0, 3, 0, 0>>
SslRequestCode == <<4, 210, 22, 47>>
StartupMessage == <<0, 0, 0, 8 + Len(Params)>> \o ProtocolVersion \o Params
SslRequest == <<0, 0, 0, 8>> \o SslRequestCode
\* Startup messages that are not well formed: a length that does not even cover
\* itself and the version, a parameter that is not UTF-8.
ShortStartup == <<0, 0, 0, 4>> \o ProtocolVersion
NotUtf8Startup == <<0, 0, 0, 12>> \o ProtocolVersion \o <<117, NUL, 255, NUL>>

Tag == [Query |-> 81, Terminate |-> 88, Parse |-> 80, Bind |-> 66, Execute |-> 69,
        Sync |-> 83, Flush |-> 72, Close |-> 67, Describe |-> 68, Password |-> 112]

NewTask == [state |-> "Startup", read_buf |-> <<>>, startup_complete |-> FALSE,
            auth_complete |-> FALSE, txn_status |-> "Idle", params |-> <<>>]

Init ==
  /\ script \in Scripts
  /\ client = [c \in Conn |-> [status |-> "absent", sent |-> 0]]
  /\ inflight = [c \in Conn |-> <<>>] /\ cut = [c \in Conn |-> FALSE]
  /\ socket = [c \in Conn |-> <<>>] /\ out = [c \in Conn |-> <<>>]
  /\ backlog = <<>> /\ sched = NewScheduler
  /\ task = [c \in Conn |-> NewTask]
  /\ db = [in_transaction |-> FALSE, log |-> [c \in Conn |-> <<>>]]
  /\ server = "accepting"
-----------------------------------------------------------------------------
\* The clients and the network.

Opening(c) == script[c].opening
Requests(c) == script[c].requests

\* A packet before the first message: the server cannot resume one it has read in
\* part.  Of a message it can as long as it has fewer than five bytes.
First(bytes) == [bytes |-> bytes, resumable |-> {}, arrived |-> 0]

Connect(c) ==
  /\ client[c].status = "absent" /\ Opening(c) # "none"
  /\ client' = [client EXCEPT ![c].status =
       IF Opening(c) = "ssl" THEN "awaiting refusal" ELSE "open"]
  /\ inflight' = [inflight EXCEPT ![c] =
       CASE Opening(c) = "startup" -> <<First(StartupMessage)>>
         [] Opening(c) = "ssl" -> <<First(SslRequest)>>
         [] Opening(c) = "ssl at once" -> <<First(SslRequest \o StartupMessage)>>
         [] Opening(c) = "short" -> <<First(ShortStartup)>>
         [] Opening(c) = "not utf8" -> <<First(NotUtf8Startup)>>]
  /\ backlog' = Append(backlog, c)
  /\ UNCHANGED <<script, cut, socket, out, sched, task, db, server>>

\* The client that waits for the answer to its SSLRequest has got it.
StartAfterRefusal(c) ==
  /\ client[c].status = "awaiting refusal" /\ out[c] # <<>>
  /\ client' = [client EXCEPT ![c].status = "open"]
  /\ inflight' = [inflight EXCEPT ![c] = Append(@, First(StartupMessage))]
  /\ UNCHANGED <<script, cut, socket, out, backlog, sched, task, db, server>>

Send(c) ==
  /\ client[c].status = "open" /\ client[c].sent < Len(Requests(c))
  /\ client' = [client EXCEPT ![c].sent = @ + 1]
  /\ LET r == Requests(c)[client[c].sent + 1]
     IN  inflight' = [inflight EXCEPT ![c] =
           Append(@, [bytes |-> write_message(Tag[r.tag], r.payload), resumable |-> 1..4, arrived |-> 0])]
  /\ UNCHANGED <<script, cut, socket, out, backlog, sched, task, db, server>>

CloseClient(c) ==
  /\ script[c].closes /\ client[c].status \in {"open", "awaiting refusal"}
  /\ client' = [client EXCEPT ![c].status = "closed"]
  /\ UNCHANGED <<script, inflight, cut, socket, out, backlog, sched, task, db, server>>

\* The server still has the connection's socket.
Held(c) == \/ \E i \in DOMAIN backlog : backlog[i] = c
           \/ \E i \in DOMAIN sched.ready : sched.ready[i].task = c

\* A segment arrives: the rest of a packet, or a part of it.
Deliver(c) ==
  /\ inflight[c] # <<>> /\ Held(c)
  /\ LET p == Head(inflight[c])
         n == Len(p.bytes)
     IN  \E k \in {n} \cup {j \in script[c].cuts : p.arrived < j /\ j < n} :
           /\ socket' = [socket EXCEPT ![c] = @ \o SubSeq(p.bytes, p.arrived + 1, k)]
           /\ inflight' = [inflight EXCEPT ![c] =
                IF k = n THEN Tail(@) ELSE [@ EXCEPT ![1].arrived = k]]
           /\ cut' = [cut EXCEPT ![c] = @ \/ (k < n /\ k \notin p.resumable)]
  /\ UNCHANGED <<script, client, out, backlog, sched, task, db, server>>
-----------------------------------------------------------------------------
\* The task.  A call below takes e, the task with the socket and the database it
\* works on, and gives the set of its outcomes: the changed e, its res being "ok",
\* "WouldBlock", "closed" (Ok(false)), "err" or "panic".  Reads and writes fail
\* only when the client is gone.  A task whose poll fails is dropped with its
\* stream; a panic unwinds the server's thread.

Ok(e) == [e EXCEPT !.res = "ok"]
Err(e, class) == [e EXCEPT !.res = "err", !.err = class]
Panicked(e) == [e EXCEPT !.res = "panic"]
FailsIfGone(e) == IF e.gone THEN {Err(e, "Io")} ELSE {}

\* The outcomes of one call after another: the `?` operator.
AndThen(outcomes, F(_)) == UNION {IF e.res = "ok" THEN F(e) ELSE {e} : e \in outcomes}

\* Writes the messages of one answer.
Write(e, msgs) == {Ok([e EXCEPT !.out = Append(@, msgs)])} \cup FailsIfGone(e)

\* read_exact on a socket that does not block: too few bytes are consumed and
\* lost.
read_exact(e, n) ==
  {IF Len(e.socket) >= n
   THEN Ok([e EXCEPT !.socket = SubSeq(@, n + 1, Len(@)), !.got = SubSeq(e.socket, 1, n)])
   ELSE [e EXCEPT !.socket = <<>>, !.res = IF e.eof THEN "err" ELSE "WouldBlock"]}
  \cup FailsIfGone(e)

\* set_parameter: the new value goes to the end.
set_parameter(params, p) ==
  Append(SelectSeq(params, LAMBDA q : q[1] # p[1]), p)

\* Where a WouldBlock is not looked for, it is an error like any other.
MustRead(e, n) == {IF r.res = "ok" THEN r ELSE Err(r, "Io") : r \in read_exact(e, n)}

\* handle_startup: the rest of the startup message must be there already.  A
\* length below 8 is a panic: `msg_len - 8` overflows, or, where overflow is not
\* checked, the buffer is too large to allocate.
handle_startup(e, len) ==
  IF len < 8 THEN {Panicked(e)}
  ELSE AndThen(MustRead(e, len - 8), LAMBDA r :
    LET params == StartupParams(r.got, 1)
    IN  IF \E i \in DOMAIN params : ~IsUtf8(params[i][1]) \/ ~IsUtf8(params[i][2])
        THEN {Err(r, "Io")}   \* InvalidData
        ELSE {[r EXCEPT !.task.params = FoldLeft(set_parameter, @, params),
                        !.task.startup_complete = TRUE, !.task.state = "Authenticating",
                        !.got = <<>>]})

\* The startup message whose first eight bytes have been read.
StartupIn(e) ==
  IF SubSeq(e.got, 5, 8) = ProtocolVersion THEN handle_startup(e, e.got[4])
  ELSE {Err(e, "Protocol")}

\* process_startup.  After it has refused SSL it reads on at once.
process_startup(e) ==
  AndThen(read_exact(e, 8), LAMBDA r :
    IF SubSeq(r.got, 5, 8) # SslRequestCode THEN StartupIn(r)
    ELSE AndThen(Write(r, <<<<"N">>>>), LAMBDA w : AndThen(MustRead(w, 8), StartupIn)))

Greeting == <<<<"AuthenticationOk">>, <<"ParameterStatus">>, <<"BackendKeyData">>,
              <<"ReadyForQuery", "Idle">>>>

send_auth_and_params(e) ==
  AndThen(Write(e, Greeting), LAMBDA w :
    {[w EXCEPT !.task.auth_complete = TRUE, !.task.state = "Ready"]})
-----------------------------------------------------------------------------
\* One statement in the shared database: BEGIN, COMMIT and ROLLBACK against the
\* global transaction, every other one as its kind says.  "Panics" stands for the
\* statements on which the database itself does: an `expect` on a column that ALTER
\* TABLE took away (module DatabaseOps), subqueries correlated too deeply (Select),
\* views that refer to each other.
Succeeds(in_transaction, kind) ==
  CASE kind = "Begin" -> ~in_transaction
    [] kind \in {"Commit", "Rollback"} -> in_transaction
    [] OTHER -> kind \notin {"Fails", "Panics"}
execute_with_stats(e, stmt) ==
  LET ok == Succeeds(e.in_transaction, stmt[1])
  IN  [e EXCEPT !.log = Append(@, <<stmt, ok>>),
                !.in_transaction = IF ok /\ stmt[1] \in {"Begin", "Commit", "Rollback"}
                                   THEN stmt[1] = "Begin" ELSE @,
                !.res = CASE ok -> "ok" [] stmt[1] = "Panics" -> "panic" [] OTHER -> "err",
                !.err = "Database"]

\* What a query is answered with, given the kind of its last statement.
CompletionOf(kind) ==
  IF kind \in {"Select", "Constant", "Show"}
  THEN <<<<"RowDescription">>, <<"DataRows">>, <<"CommandComplete", "Select">>>>
  ELSE <<<<"CommandComplete", IF kind = "ResetAll" THEN "Reset" ELSE kind>>>>

\* Runs the statements up to the first that fails.
RunAll(e, stmts) ==
  FoldLeft(LAMBDA outcomes, stmt : AndThen(outcomes, LAMBDA f : {execute_with_stats(f, stmt)}),
           {Ok(e)}, stmts)

\* process_sql of every query that the clients send.
AllRequests == UNION {Range(s[c].requests) : s \in Scripts, c \in Conn}
Queries == {r \in AllRequests : r.tag = "Query" /\ r.payload # <<>>}
Processed == [sql \in {r.payload : r \in Queries} |-> process_sql(Front(sql))]

\* The answer to a query that ran.
Complete(e, stmts) ==
  Write(e, IF stmts = <<>> THEN <<<<"EmptyQueryResponse">>>> ELSE CompletionOf(Last(stmts)[1]))

\* handle_simple_query: all statements are parsed before the first one runs, and
\* only the last result is sent.
handle_simple_query_one_by_one(e, query) ==
  UNION {LET parsed == SelectSeq(texts, LAMBDA t : StatementOf(t) # {})
             stmts == [i \in DOMAIN parsed |-> CHOOSE s \in StatementOf(parsed[i]) : TRUE]
         IN  AndThen(RunAll(e, stmts), LAMBDA f :
               IF Len(parsed) < Len(texts) THEN {Err(f, "Parse")} ELSE Complete(f, stmts)) :
         texts \in {split_statements(strip_comments(Front(query)))}}
handle_simple_query(e, query) ==
  CASE Processed[query].is = "error" -> {Err(e, "Parse")}
    [] Processed[query].is = "panic" -> {Panicked(e)}
    [] Processed[query].is = "ok" ->
         AndThen(RunAll(e, Processed[query].stmts), LAMBDA f : Complete(f, Processed[query].stmts))

handle_parse(e) == Write(e, <<<<"ParseComplete">>>>)
handle_bind(e) == Write(e, <<<<"BindComplete">>>>)
handle_execute(e) == Write(e, <<<<"EmptyQueryResponse">>>>)
handle_sync(e) == Write(e, <<<<"ReadyForQuery", e.task.txn_status>>>>)
\* No session of this server has an AuthStore: every password is accepted, and a
\* SCRAM message is answered like a password (handle_scram_auth).
handle_password(e) == Write(e, <<<<"AuthenticationOk">>, <<"ReadyForQuery", "Idle">>>>)
\* Close and Describe are answered with nothing.
handle_close(e) == {Ok([e EXCEPT !.out = Append(@, <<>>)])}

\* Takes the text of a payload, without its terminator: a panic if it has none at
\* all (`len() - 1`), an error if it is not UTF-8.
TakeText(e, payload) ==
  CASE payload = <<>> -> {Panicked(e)}
    [] payload # <<>> /\ ~IsUtf8(Front(payload)) -> {Err(e, "FromUtf8")}
    [] OTHER -> {Ok(e)}

\* process_message.  Terminate is an error, and Closed only until the task is
\* Ready again; Flush and a message that is not known are answered with nothing,
\* like Close.
process_message(e, type, payload) ==
  CASE type = Tag.Query -> AndThen(TakeText(e, payload), LAMBDA f : handle_simple_query(f, payload))
    [] type = Tag.Terminate -> {Err([e EXCEPT !.task.state = "Closed"], "Protocol")}
    [] type = Tag.Parse -> handle_parse(e)
    [] type = Tag.Bind -> handle_bind(e)
    [] type = Tag.Execute -> handle_execute(e)
    [] type = Tag.Sync -> handle_sync(e)
    [] type = Tag.Password -> AndThen(TakeText(e, payload), handle_password)
    [] OTHER -> handle_close(e)

\* pgwire_error_to_sqlstate, by its classes.
sqlstate == [Parse |-> "syntax_error", Database |-> "of the DbError",
             Protocol |-> "protocol_violation", FromUtf8 |-> "data_exception"]

\* After a message failed: ErrorResponse, and a session that has failed for good.
\* A stream that could not be written once cannot be written again.
AfterError(e) ==
  IF e.err = "Io" THEN {e}
  ELSE Write([e EXCEPT !.task.txn_status = "Failed"],
             <<<<"ErrorResponse", sqlstate[e.err]>>, <<"ReadyForQuery", "Failed">>>>)

\* The socket is read only when fewer than five bytes, less than a header, are
\* buffered.
NeedsData_when_empty(buf) == buf = <<>>
NeedsData(buf) == Len(buf) < 5

\* The client has closed the connection and everything it sent has been read.
ReadsZero_never(e) == FALSE
ReadsZero(e) == e.socket = <<>> /\ e.eof

ReadMore(e) ==
  {CASE ReadsZero(e) -> [e EXCEPT !.task.state = "Closed", !.res = "closed"]
     [] ~ReadsZero(e) /\ e.socket = <<>> -> [e EXCEPT !.res = "WouldBlock"]
     [] OTHER -> [e EXCEPT !.task.read_buf = @ \o e.socket, !.socket = <<>>]}
  \cup FailsIfGone(e)

\* process_one_message.  Whatever the message was, Terminate too, the task is
\* Ready again afterwards.
process_one_message(e) ==
  LET Handle(f, msg) ==
        CASE msg.is = "None" -> {f}
          [] msg.is = "InvalidLength" -> {Err(f, "Codec")}
          [] msg.is = "Message" ->
               AndThen(UNION {IF r.res = "err" THEN AfterError(r) ELSE {r} :
                                r \in process_message([f EXCEPT !.task.read_buf = msg.rest],
                                                      msg.type, msg.payload)},
                       LAMBDA r : {[r EXCEPT !.task.state = "Ready"]})
  IN  AndThen(IF NeedsData(e.task.read_buf) THEN ReadMore(e) ELSE {e}, LAMBDA f :
        UNION {Handle(f, msg) : msg \in {read_message(f.task.read_buf)}})

\* poll: a step that fails makes the task Error and Ready, an end of the
\* connection Closed and Ready; else the task is polled again.
poll(e) ==
  LET outcomes ==
        AndThen(AndThen(IF e.task.startup_complete THEN {e} ELSE process_startup(e), LAMBDA f :
                  IF f.task.auth_complete THEN {f} ELSE send_auth_and_params(f)),
                process_one_message)
  IN  IF e.task.state \in {"Closed", "Error"} THEN {[e EXCEPT !.res = "closed"]}
      ELSE {IF f.res = "err" THEN [f EXCEPT !.task.state = "Error"] ELSE f : f \in outcomes}
-----------------------------------------------------------------------------
\* The loop of serve_scheduled: accept a connection if one waits, then tick.

\* A connection whose task cannot be made is dropped.
Accept ==
  /\ server = "accepting" /\ server' = "ticking"
  /\ IF backlog = <<>> THEN UNCHANGED <<backlog, sched, client>>
     ELSE /\ backlog' = Tail(backlog)
          /\ \/ sched' = spawn(sched, Head(backlog)) /\ UNCHANGED client
             \/ client' = [client EXCEPT ![Head(backlog)].status = "closed"] /\ UNCHANGED sched
  /\ UNCHANGED <<script, inflight, cut, socket, out, task, db>>

\* One tick.  A panic in a task ends the thread: the scheduler, the listener and
\* every connection go with it.
Tick ==
  /\ server = "ticking"
  /\ IF sched.ready = <<>> THEN server' = "accepting" /\ UNCHANGED <<task, socket, out, db, sched, backlog>>
     ELSE LET c == Current(sched)
              e == [task |-> task[c], socket |-> socket[c], out |-> out[c], got |-> <<>>,
                    gone |-> client[c].status = "closed",
                    eof |-> client[c].status = "closed" /\ inflight[c] = <<>>,
                    in_transaction |-> db.in_transaction, log |-> db.log[c],
                    res |-> "ok", err |-> "none"]
          IN  \E f \in poll(e) :
                /\ task' = [task EXCEPT ![c] = f.task]
                /\ socket' = [socket EXCEPT ![c] = f.socket]
                /\ out' = [out EXCEPT ![c] = f.out]
                /\ db' = [db EXCEPT !.in_transaction = f.in_transaction, !.log[c] = f.log]
                /\ IF f.res = "panic"
                   THEN server' = "panicked" /\ sched' = NewScheduler /\ backlog' = <<>>
                   ELSE /\ server' = "accepting" /\ UNCHANGED backlog
                        /\ sched' = tick(sched, c, IF f.res \in {"ok", "WouldBlock"} THEN "Pending" ELSE "Ready")
  /\ UNCHANGED <<script, client, inflight, cut>>

\* accept fails with anything but WouldBlock: serve_scheduled returns, and every
\* connection with it.
AcceptFails ==
  /\ server = "accepting"
  /\ server' = "stopped" /\ backlog' = <<>> /\ sched' = NewScheduler
  /\ UNCHANGED <<script, client, inflight, cut, socket, out, task, db>>

Running == server \in {"accepting", "ticking"}

\* What clients do after the server has ended is of no interest.
Next ==
  \/ Accept \/ Tick \/ AcceptFails
  \/ /\ Running
     /\ \E c \in Conn : \/ Connect(c) \/ StartAfterRefusal(c) \/ Send(c)
                        \/ CloseClient(c) \/ Deliver(c)

\* The server's thread, until it ends, never stays at one point of its loop (weak
\* fairness of Accept and Tick, which are enabled there and always move on), and
\* TCP delivers what was sent.  Nothing is assumed of the clients.
Fairness ==
  /\ []<>~Running \/ ([]<>(server = "accepting") /\ []<>(server = "ticking"))
  /\ \A c \in Conn : WF_vars(Deliver(c))

Spec == Init /\ [][Next]_vars /\ Fairness
-----------------------------------------------------------------------------
\* What the server wrote to c after its greeting: the answers, one per request.
Greetings(c) == {i \in DOMAIN out[c] : out[c][i] = Greeting}
Answers(c) ==
  IF Greetings(c) = {} THEN <<>>
  ELSE SubSeq(out[c], 1 + CHOOSE i \in Greetings(c) : TRUE, Len(out[c]))

(***************************************************************************)
(* What the protocol answers a request with, given the statements that it  *)
(* executed, the last one with its outcome; ReadyForQuery aside.  Of a     *)
(* query with several statements it is the result of the last, where       *)
(* PostgreSQL sends each.  (What a Describe or an Execute is owed depends  *)
(* on a portal, and the server keeps none.)                                *)
(***************************************************************************)
AnswerTo(r, executed) ==
  LET Error(class) == <<<<"ErrorResponse", class>>>>
  IN  CASE r.tag \in {"Query", "Password"} /\ ~IsUtf8(r.payload) -> Error("data_exception")
        [] r.tag = "Query" /\ IsUtf8(r.payload) /\ ~r.valid -> Error("syntax_error")
        [] r.tag = "Query" /\ r.valid /\ executed # <<>> ->
             IF Last(executed)[2] THEN CompletionOf(Last(r.meaning)[1])
             ELSE Error("of the DbError")
        [] r.tag = "Query" /\ r.valid /\ executed = <<>> -> <<<<"EmptyQueryResponse">>>>
        [] r.tag = "Parse" -> <<<<"ParseComplete">>>>
        [] r.tag = "Bind" -> <<<<"BindComplete">>>>
        [] r.tag = "Close" -> <<<<"CloseComplete">>>>
        [] r.tag = "Password" /\ IsUtf8(r.payload) -> <<<<"AuthenticationOk">>>>
        [] r.tag \in {"Sync", "Flush", "Terminate"} -> <<>>

\* The requests that the code does not answer as the protocol does: a Close gets
\* no CloseComplete (task.rs:583), a Describe no description, an Execute never the
\* rows of its portal, and a Terminate an error instead of the end of the
\* connection (task.rs:322).
NotFollowed == {"Close", "Describe", "Execute", "Terminate"}

\* Whether the connection is in a transaction it began, by what it had executed.
InTransaction(log) ==
  LET marks == SelectSeq(log, LAMBDA x : x[2] /\ x[1][1] \in {"Begin", "Commit", "Rollback"})
  IN  marks # <<>> /\ Last(marks)[1][1] = "Begin"

IsReady(m) == m[1] = "ReadyForQuery"
IsError(m) == m[1] = "ErrorResponse"

\* ReadyForQuery ends the answers to Sync and to a query that failed; outside a
\* transaction its status is Idle.  Not claimed: a ReadyForQuery after a query that
\* succeeded, which the code does not send; the status in a transaction, which is
\* never InTransaction (message.rs:145); and the status from the first error on,
\* which is Failed for good, also outside a transaction (task.rs:278).
ReadyAsAsked(r, answer, log, failed) ==
  LET error == \E k \in DOMAIN answer : IsError(answer[k])
  IN  /\ r.tag = "Sync" \/ (r.tag = "Query" /\ error) => answer # <<>> /\ IsReady(Last(answer))
      /\ \A k \in DOMAIN answer : IsReady(answer[k]) =>
           /\ k = Len(answer)
           /\ ~error /\ ~failed /\ ~InTransaction(log) => answer[k][2] = "Idle"

\* Of the statements of a request, what was executed from position p of a log on:
\* all, or up to the first that failed.
ExecutedFrom(log, p, stmts) ==
  LET failures == {j \in DOMAIN stmts : p + j - 1 \in DOMAIN log /\ ~log[p + j - 1][2]}
      n == IF failures = {} THEN Len(stmts) ELSE CHOOSE j \in failures : \A k \in failures : j <= k
  IN  SubSeq(log, p, p + n - 1)

RECURSIVE MatchFrom(_, _, _, _, _)
MatchFrom(requests, answers, i, log, p) ==
  LET r == requests[i]
      stmts == IF r.valid THEN r.meaning ELSE <<>>
      executed == ExecutedFrom(log, p, stmts)
      Executes == /\ p + Len(executed) - 1 <= Len(log)
                  /\ \A j \in DOMAIN executed : executed[j][1] = stmts[j]
      failed == \E j \in 1..(i - 1) :
                  \E k \in DOMAIN answers[j] : IsError(answers[j][k])
  IN  IF i > Len(answers)
      THEN \/ p > Len(log)
           \/ i <= Len(requests) /\ Executes /\ p + Len(executed) > Len(log)
      ELSE /\ Executes
           /\ r.tag \notin NotFollowed =>
                SelectSeq(answers[i], LAMBDA m : ~IsReady(m)) = AnswerTo(r, executed)
           /\ ReadyAsAsked(r, answers[i], SubSeq(log, 1, p + Len(executed) - 1), failed)
           /\ MatchFrom(requests, answers, i + 1, log, p + Len(executed))

(***************************************************************************)
(* However its bytes were cut into segments, however its requests were     *)
(* pipelined and whatever the other connections did, a client gets the     *)
(* greeting first and then one answer per request, in order, the one that  *)
(* AnswerTo and ReadyAsAsked require; the database executed its statements *)
(* once each and in that order, nothing of a query that does not parse and *)
(* nothing after a statement that failed.  (One request may have been      *)
(* executed and not answered, when its client was gone or the thread       *)
(* panicked.)  What Execute, Close, Describe and Terminate are answered    *)
(* with is left open, and so is what ReadyAsAsked names: there the code    *)
(* does not follow the protocol.                                           *)
(***************************************************************************)
AnswersMatchRequests ==
  \A c \in Conn :
    /\ \A i, j \in Greetings(c) : i = j
    /\ \A i \in DOMAIN out[c] : (\A j \in Greetings(c) : i < j) => out[c][i] = <<<<"N">>>>
    /\ Len(Answers(c)) <= client[c].sent
    /\ MatchFrom(Requests(c), Answers(c), 1, db.log[c], 1)
    /\ client[c].status = "open" /\ server # "panicked" =>
         MatchFrom(SubSeq(Requests(c), 1, Len(Answers(c))), Answers(c), 1, db.log[c], 1)

\* The requests on which the code may panic: a Query or Password without any
\* payload (task.rs:317, 355), a query with a statement that ends in a dot, where
\* the parser may read past its end, or with one on which the database panics.
MayPanic ==
  {r \in AllRequests :
     \/ r.tag \in {"Query", "Password"} /\ r.payload = <<>>
     \/ /\ r \in Queries
        /\ \/ \E t \in Range(split_statements(strip_comments(Front(r.payload)))) : Last(t) = Dot
           \/ \E j \in DOMAIN r.meaning : r.meaning[j][1] = "Panics"}

\* The client has sent something that may end the server's only thread, a startup
\* packet with a length below 8 (task.rs:144) included.
MayEndServer(c) ==
  \/ client[c].status # "absent" /\ Opening(c) = "short"
  \/ \E i \in 1..client[c].sent : Requests(c)[i] \in MayPanic

(***************************************************************************)
(* A request of a client that stays is handled and answered.  The          *)
(* exceptions, in all of which the code does not serve: a segment ended    *)
(* inside the startup packet or inside the payload of a message (the task  *)
(* loses the one and never reads on after the other); the client waits for *)
(* the refusal of its SSLRequest, or its parameters are not UTF-8; accept  *)
(* has failed; some client, perhaps another one, has sent one of the       *)
(* packets of MayEndServer, on which the thread that serves all of them    *)
(* panics.  Nothing else ends the thread.  After its Terminate a client is *)
(* owed nothing.                                                           *)
(***************************************************************************)
ConnectionsAreServed ==
  \A c \in Conn : \A n \in 1..MaxRequests :
    (/\ client[c].sent >= n /\ Opening(c) \notin {"ssl", "not utf8"}
     /\ \A i \in 1..n : Requests(c)[i].tag # "Terminate")
      ~> \/ Len(Answers(c)) >= n
         \/ client[c].status = "closed" \/ cut[c] \/ server = "stopped"
         \/ \E d \in Conn : MayEndServer(d)

\* Once a client has closed its connection the scheduler drops the task, unless a
\* segment ended where the task does not resume: tasks do not pile up.
ConnectionsLeave ==
  \A c \in Conn : client[c].status = "closed" ~> (~Held(c) \/ cut[c])
=============================================================================
