# A TLA+ verification of tpt-archon

tpt-archon is a storage-to-SQL stack in Rust. This directory holds TLA+ modules
that model it, TLC configurations that check them on small instances, and TLAPS
proofs about them. Paths below are relative to `src/crates/`.

## The system and what is modelled

| Layer | Parts | Model |
|---|---|---|
| `tpt-archon-core` | block devices, buffer pool, write-ahead log, storage engine, file database | `BlockDevice`, `BufferPoolOps`, `BufferPool`, `Wal`, `StorageEngineOps`, `StorageEngine`, `FileDatabase` |
| | B-Link tree | `BTree`, `Query` |
| `tpt-archon-bridge` | capabilities, grants, unified page cache | `Capability`, `Kernel` |
| `tpt-archon-kernel` | scheduler, IPC, page mapping, drivers | `Scheduler`, `Kernel` |
| | io_uring reactor | `IoUring` |
| `tpt-archon-relational` | MVCC store | `MvccOps`, `Mvcc` |
| | transactions and sessions, DML, constraints, DDL | `TableStorage`, `DatabaseOps`, `StatementOps`, `Database` |
| | query execution, planner, vector search | `Executor`, `Window`, `Select`, `Query` |
| | SQL parser | `Parser`, `Query` |
| `out-archon-pgwire` | scheduled server, framing, compatibility layer | `WireText`, `WireServer` |

`PROJECT.json` has the same inventory file by file, the lines each definition
stands for, and the hazards of the code with the properties that cover them.
What is left out is listed at the end.

The parts interact downwards. The file database owns a storage engine; the
engine owns a buffer pool and an in-memory log; the pool owns a device. All of
it is called with `&mut self`, so calls do not overlap. What makes it hard is
everything else: device calls that fail or tear a block, frames pinned by
several clients, and a crash between any two steps of a call.

The relational layer keeps for each table a B-Link tree and an MVCC store; there
calls do not overlap either (one mutex guards the database), but transactions do,
and ALTER TABLE changes tables under them.

The kernel is a cooperative scheduler with channels, drivers and page mappings
that check capabilities against one shared issuer. The page cache is a client of
the storage layer's buffer pool. The scheduled wire server runs one task per
connection on that scheduler, around one shared database.

## Modules

`BlockDevice`: a device is a function from blocks to contents. A content is a
page image, or `Corrupt` when `decode_block` rejects its checksum. A write may
succeed, fail without effect, or tear the block.

`BufferPoolOps`: the methods of `BufferPool` (`page.rs`) as operators from a
pool record (device, frames, LRU order, steal flag) to a result. It is a data
type and not a state machine because the layers above call several methods in
one handler. `BufferPool` turns it into a state machine of its own, one action
per method; `PageStore` is what it promises: one image per block.

`Wal`: the log (`wal.rs`) as a sequence of records. `Torn` stands for bytes that
do not decode. `Committed` and `CommittedTo` are the page writes that `recover`
applies: those with a commit marker after them, both before the first torn
record.

`StorageEngineOps`: the methods of `StorageEngine` (`storage.rs`) on a record of
a pool and a log, and the two facts about the environment that both state
machines use: `Reaching` (what a crash may leave of a block written and not
synced: the old content, the new one, or a torn block) and `Partial` (what an
interrupted overwrite of the log leaves).

`StorageEngine`: the engine with its host. The host writes and reads pages,
commits with `commit_durable` (two steps: marker and persist, then flush),
resets the log after a successful commit, crashes at any point, and recovers a
new engine from the log it kept. `AtomicStore` is what it promises: batches that
become durable at one instant.

`FileDatabase`: `Database` over a data file and a sidecar log. `put` is three
steps (write and log, persist the sidecar, flush the data file), `open` three
(recover, sync, truncate); the machine may stop between any two. `maybe` is a
history variable: for every block the last acknowledged image and those of the
puts begun since. The code has no such field.

`MvccOps`: `MvccStore` and `Transaction` (`mvcc.rs`) as a data type: a chain of
versions per key and a clock; a snapshot with a read set and buffered writes.
`Mvcc` has one store and the transactions that several clients have open on it.
`begun`, `seen` and `since` are history variables: the committed values when the
transaction began, what it has read from the store, and the keys that others
have committed meanwhile. The code has none of them. `SerialStore` is what it
promises: a transaction commits only if what it read is what the store holds at
that instant, so the commits are a serial history.

`Capability` and `Scheduler`: the issuer (`capability.rs`) and the run queue
(`scheduler.rs`) as data types. Three modules below schedule something and say
what a poll of their tasks does.

`Kernel`: the host program mints, revokes, registers channels, sends, receives,
injects interrupts, stands drivers up and maps pages, in any order, and the
scheduler ticks. One action per operation; the page cache's are calls of
`BufferPoolOps`. A driver's handler is the one of the tests: it answers on a
channel and ignores the result. `revoked`, `mapped`, `sent` and `received` are
history variables.

`IoUring`: I/O tasks over one reactor. The ring is external: a submission queue
with `Entries` slots, operations that complete in any order, in full or with an
error.

`TableStorage`, `DatabaseOps`, `StatementOps`: one table (schema, tree, MVCC
store, vector indexes), the database with its global transaction and those of
its sessions, and the statements, each an operator from a database to a database
and an outcome. The outcome `panic` stands where the code calls `expect` on a
column that is gone. Inside a session's transaction `SwapIn` and `SwapBack` put
the session's list in the place of the global one for one statement, as
`execute_in_session` does.

`Database`: either two sessions or an embedding program issue statements; each
is one step, since it runs under the mutex. `past` is a history variable: which
unusual things have happened (transactions overlapped, ALTER TABLE met buffered
rows, ...). Properties that the code only keeps in their absence say so.

`BTree`: the tree of `btree.rs`, a vector of nodes with right-links and high
keys, with splits on the way back up. `Executor`, `Window`, `Select`: evaluation
of expressions, plans, aggregates, window functions, and how a query is run
(joins, subqueries and their cache, WITH RECURSIVE, set operations, vector
search). `Parser`: the recursive descent over tokens, for every statement.
These four are pure operators.

`SqlMeaning` and `SqlText` are the references they are checked against: what a
query promises, stated by quantifiers over bound rows and without the
executor's operators, and how a statement is written. `Query` puts a table in
its tree, writes it by statements and by a transaction, and asks.

`WireText`: framing of messages, and the compatibility layer that cuts the text
of a query into statements (quotes, comments, dollar quotes). `WireServer`: the
accept-and-tick loop of `serve_scheduled`, one task per connection, startup and
every message handler, with clients whose bytes arrive in segments. Of the
database it keeps what this layer reads: whether the one global transaction is
open, and what each connection had executed.

The `MC` modules give symmetry sets, scripts and queries for TLC. The blocks are
interchangeable, and so are clients, keys and values of `Mvcc` and the sessions
of `Database`; pages are not, since one is `Zeroed`. `Kernel`, `IoUring` and
`WireServer` have liveness properties and use no symmetry.

`SequenceLemmas`, `BufferPoolLemmas`, `BufferPoolProofs`, `StorageLemmas`,
`StorageEngineProofs`, `FileDatabaseProofs`, `MvccProofs` and `KernelProofs` hold
the proofs.

Operators whose name is that of another with a suffix (`touch_appends_again`)
are seeded faults: each is a plausible mistake in the code it shadows. Nothing
uses them in the specification; `PROJECT.json` pairs each with a property that
fails when it replaces the original.

### Abstractions

- Block ids are in bounds and buffers have the right length: the range and
  length errors, which return before any state changes, are left out.
- A page image is a value, `Page::zeroed()` is one of them, and a checksum
  failure is the value `Corrupt`. That a torn block never passes the CRC is
  assumed.
- The reference that `fetch_mut` returns borrows the pool, so the bytes are
  stored before the next call: the store is part of that step.
- LSNs count from 0 and do not wrap (`u64`).
- A row image is a value, the tombstone of a deleted row among them; the clock of
  the MVCC store does not wrap (`u64`). Of the list of reads only membership
  counts; the flag `committed` is left out, nothing reads it.
- Sizes that the code fixes are constants: pool capacity (64 in the file
  database), node capacity (64), the depth and iteration limits (100, 10000).
- In `Database` a value is NULL, an integer or a vector, and the tree is a map;
  `BTree` and `Query` show that the tree is one. A CHECK compares a column with a
  least value. Row bytes are abstracted to what decoding tells a scan: the arity.
- In `Executor` floats are the exact fractions of averages, vector scores exact
  integers. A vector search is that of a table without a built index, which looks
  at every row; the search through the lists of an index (`select.rs:454-489`: 8
  probes, oversampling, the filter afterwards), which may miss rows, is left out.
  Timestamps are in seconds instead of microseconds. Which error an expression
  raises, a panic for more than 8 correlated scopes included, is not told apart.
- A token is a kind and a value; keywords are in one case. In `WireText` bytes
  are numbers and a keyword phrase is one letter, because that layer only tells
  statements apart by their first words. `Parses` is what it sees of `Parser`.
- No session of `serve_scheduled` has an `AuthStore`. A SCRAM message is then
  answered like a password, so `handle_password` has one answer.
- Messages, interrupts and payloads are values. Serial numbers, task ids and
  operation ids do not wrap (`u64`).

### Assumptions about the environment

They are constants, so that a run can be made with and without each one.

- `PersistTears`: may a `persist` that reports failure leave part of the log
  behind? The doc of `commit_durable` only says what a success means.
- `RecoverWrites`: how a device write made by `recover` may end.
- `ExitUnsynced`: may the process end between the write and the sync of the
  sidecar, leaving its bytes in the cache of the operating system?
- The truncation of the sidecar reaches the disk no later than what is written
  to it afterwards, and an overwrite of the sidecar reaches the disk as a prefix.

## Runs

| Run | Result | Question |
|---|---|---|
| `bufferpool` | passes | Is the pool coherent, its LRU order exact, are pins respected, and does it implement `PageStore`, whatever device call fails? |
| `storage` | passes | Does every crash point lead to one readable state, and does the engine implement `AtomicStore`? |
| `filedb` | passes | Do acknowledged puts survive a crash at any point of `put` and `open`, and do reads never go back? |
| `mvcc` | passes | Do reads come from one snapshot, is validation exact, are the commits serializable? |
| `kernel` | passes | Is nothing done without authority, are channels FIFO, do mapped pages stay, and does every driver task drain its source and finish? |
| `sql` | passes | Do constraints hold, is buffered work private, does COMMIT do what it answers, do indexes stay exact and rows readable? |
| `query` | passes | Is the tree a map, are answers those of SQL, does the parser read what is written? |
| `wire` | passes | Is every request answered once, in order, with what the database did, and are connections served and dropped? |
| `storage_torn_log` | violated | May a page write that recovery dropped come back? |
| `filedb_failed_put` | violated | Does a failed put stay failed? |
| `filedb_unsynced_log` | violated | As `filedb`, with a process that ends before it syncs the sidecar. |
| `io_uring` | violated | Does an I/O task ever finish? |

The passing runs show:

- `Coherence`, `LruTracksFramesInUse`, `RefusedOnlyWhenFull`: the pool's
  bookkeeping, free frames with stale ids included.
- `PinnedPageStays`, `NoStealDevice`: what a step may never do to a pinned page,
  and to the device of a no-steal pool.
- `OneDurableState`: the write-ahead rule. The no-steal pool is what makes it
  hold: with eviction of dirty pages it fails.
- `ImplementsAtomicStore`: batches are atomic, failed writes leave nothing, and
  a failed persist leaves the batch uncommitted.
- `AcknowledgedPutsSurvive`, `ReadsSeePuts`: durability of the file database.
- `OneSnapshot`, `ConflictIsExact`, `ImplementsSerialStore`: the header of
  `mvcc.rs` says "giving serializable execution"; for one store it does, and no
  transaction is refused without a reason.
- `NoAmbientAuthority`, `ChannelsAreFifo`, `RoundRobin`,
  `DriversDrainTheirSource`: the kernel's promises, with capabilities revoked
  while tasks still hold copies. `MappedPagesStay`: a mapped block keeps its frame
  and has exactly one pin per mapping. `TasksFinish`: every driver task leaves the
  scheduler while others are still being stood up.
- `ConstraintsHold`: keys and references hold in what every user sees as long as
  no transactions overlapped, no table was altered, and, for references, no
  referenced key was updated. With overlaps or such updates it fails: the code
  checks a constraint against the statement's own view, and UPDATE does not look
  for children. After ALTER TABLE a constraint may name a column that is gone.
- `UncommittedWorkIsPrivate`, `CommitDoesWhatItSays`: a buffered row is seen by
  its session only; a COMMIT installs what it says, and one refused for a conflict
  a whole number of tables, as the comment in `database/mod.rs` admits. An
  embedding program has nobody to conflict with: for it that clause says only that
  its COMMIT is never refused.
- `VectorIndexesExact`, `RowsDecode`: with the conditions that ALTER TABLE needs.
- `TreeKeepsTheRows`, `LinksCoverTheLevels`: lookups, range scans and the
  length agree with a map, and right-links and high keys partition every level.
- `QueriesMeanSql`, `PlansAgree`, `WindowsAgreeWithGroups`,
  `RankedAnswersAreBest`, `SetOperationsAndRecursion`: on every reachable table
  the answers are the reference's; equivalent queries, the database and the
  executor's plans, and windows and groups agree; ORDER BY, LIMIT and vector
  search return the best rows; set operations are those of SQL and recursion ends
  on cyclic data. "Where the code departs from SQL" lists what they except.
- `ParserInvertsText`: the parser undoes `SqlText`, and reads a text with a token
  missing as an error or as what is left of it. One panic is known and exempted
  by the property: a FROM that ends in a dot.
- `AnswersMatchRequests`: one answer per request, in order, the one the protocol
  asks for; statements executed once each and in order. `ConnectionsAreServed`,
  `ConnectionsLeave`: no client of the one thread keeps the others waiting.
  "Where the code departs from the protocol" lists what they except.

The violated ones are disagreements between the code and its comments; each is
explained under `findings` in `PROJECT.json`:

- `recover` drops uncommitted page writes from the device but keeps them in
  `self.wal`; the next commit marker covers them. It needs a persist that stops
  between a page record and the marker.
- `put` does not withdraw its records when `persist_wal` fails, as
  `commit_durable` does.
- `open` writes pages to the data file from a sidecar that may not be synced.
- `poll_completions` removes a completed operation from the map in which
  `take_result` looks for it, so a task never sees its completion.

Two further observations have no run of their own. `read_page` pins and nothing
unpins, so reads alone fill the pool. And `recover` ignores a failed device write
and `open` truncates the log after it: with `RecoverWrites = {"ok", "err"}`
`AcknowledgedPutsSurvive` is violated in `MCFileDatabase`.

### Where the code departs from SQL

The references say what SQL says; the properties except the following by name,
and the runs meet each of them unless said otherwise.

- A comparison with a subquery is true or false, never NULL, although the comment
  on `eval_where` (`subquery.rs:233-236`) and `TODO.md` (A1) say three-valued
  logic. `x IN (...)` matches NULL with NULL (lines 380, 395) and is false where
  SQL has NULL, so NOT IN keeps rows that SQL drops; so does NOT over a scalar
  comparison with NULL (403, 431). `SqlMeaning` has Kleene's logic, and `Departs`
  singles out the rows whose verdict these lines change.
- EXTRACT rounds a timestamp before 1970 toward 1970, and EXTRACT(SECOND) counts
  all seconds since 1970 (`expr.rs:379`; `ast.rs:56` says 0 to 59). No run asks for
  SECOND: the count of a late date exceeds TLC's integers.
- EXCEPT without ALL removes the rows of the right side but keeps duplicates of
  the left (`select.rs:694-696`), unlike UNION and INTERSECT; `TODO.md` (A4) claims
  it with and without ALL. `SetOperationsAndRecursion` states which rows are left
  and that none is there more often than on the left.
- A RANGE frame compares values whatever the direction of the ORDER BY
  (`window.rs:303`), so the default frame of a descending one has the rows at or
  after the current one. `WindowsAgreeWithGroups` is about ascending orders.

### Where the code departs from the protocol

- ReadyForQuery: its status is never InTransaction, though `TxnStatus` has it
  (`message.rs:145`); after any error it is Failed for good, though the comment
  (`task.rs:278`) says "If we're in a transaction"; a query that succeeds is not
  followed by one. `ReadyAsAsked` states the rest: where one is due, and Idle
  outside a transaction before any error.
- Close and Describe are answered with nothing (the comment at `task.rs:583` says
  CloseComplete), Execute with EmptyQueryResponse whatever was bound, and Terminate
  with an error, after which the connection is served on (`task.rs:322` sets
  Closed, `process_one_message` Ready again). `NotFollowed` names these four; that
  each has its place in the order and executes nothing is claimed of them too.
- Of a query with several statements only the last result is sent.
- A segment that ends inside a startup packet or a payload: the task does not
  resume, and the liveness properties except that connection (`cut`). Also
  excepted: a client that waits for the answer to its SSLRequest, one whose startup
  parameters are not UTF-8, and a server whose `accept` failed.
- A panic in one task ends the thread that serves all connections. It happens on a
  startup length below 8 (`task.rs:144`), on a Query or Password message without
  any payload (`task.rs:317`, 355), on a FROM that ends in a dot (the parser), and
  on a statement on which the database panics. `ConnectionsAreServed` excepts the
  behaviours in which some client sent one of these (`MayEndServer`), and so shows
  that nothing else that is modelled ends the thread.

### Bounds

- Buffer pool: three blocks over two frames, so that a third page evicts; two
  images, so that a stale page shows; two pins per frame, so that an unpin may
  leave a pin. Steal and no-steal pools, and every initial device.
- Storage engine: the same blocks and frames, so that a batch can fill the pool;
  a log of three records, enough for two page writes and a commit, or for a
  write, a commit and a withdrawn record. After `ResetWal` the log starts again,
  so runs are not limited to one batch. The torn-log run has four records over
  two blocks.
- File database: two blocks over one frame, so that every other page evicts, and
  two puts before the log is full; reopening empties it. The failed-put run has
  two frames, since with one the dirty page of the failed put refuses the next.
- MVCC store: two clients, so that one commits inside the other's transaction;
  two keys, so that a snapshot can be torn and writes can be skewed; two values;
  two commits (`MaxClock`), enough for one to be overtaken by another.
- `MaxPins` bounds the pins that reads leave behind; without it the counts grow
  for ever.
- Kernel (about 91,000 states): one channel, one device, two blocks over one
  frame, so that a mapping blocks another; two capabilities, of a channel,
  a device or a page, to read or for both directions; two tasks and two messages
  in traffic, so that tasks take turns and messages could overtake each other.
- io_uring: one slot, so that a submission can meet a full queue; two tasks.
- Relational database (about 157,000 states): two sessions or one program, a
  parent and a child table with two row ids each, five recorded statements, one of
  them DDL, from prepared databases that are empty, part filled or full, with and
  without open transactions. Two rows are the index threshold. Statements that
  change nothing are not counted.
- Queries (about 5,800 states): nodes of two keys and five rows, which gives three
  levels; queries are asked of tables of at most three rows, with NULLs,
  ties and gaps in the ids. Six iterations are more than such a graph
  needs, so that the limit is reached by cycles only.
- Wire server (about 194,000 states): two clients with up to two requests each;
  segments that end after 3 bytes (inside a header) and after 8 (inside a startup
  packet or a payload). Four families of scripts: clients that compete for the
  transaction, bytes in pieces, every kind of request before one that shows the
  state it left, and packets that are malformed or end the thread, beside a client
  that sends none.

`CHECK_DEADLOCK FALSE` is set where the bounds or the scripts end a behaviour
(`sql`, `query`, `wire`).

### Fairness

The storage, MVCC, relational and query modules assume none: their calls are
synchronous and their properties are safety properties.

- `Kernel`: `WF(Tick)`. `run_to_completion` and the server loop call `tick` again
  and again. Nothing obliges the host to do anything.
- `IoUring`: `WF(Tick(TRUE))` and weak fairness of completions: the loop ticks, a
  submit fails only now and then, and Linux completes what it has taken. The
  counterexample is one although all of this is granted.
- `WireServer`: until it ends, the server's thread passes through both points of
  its loop for ever (stated as `[]<>` of the two points, which weak fairness of
  `Accept` and `Tick` gives), and TCP delivers what was sent. Nothing is assumed
  of clients.

## Proofs

`BufferPoolProofs` proves, for every finite or infinite set of blocks and pages,
every capacity and every bound on pins, the seven properties of the `bufferpool`
run: `TypeCorrect`, `CoherenceHolds`, `LruExactHolds`, `RefusalIsExact`,
`PinnedPagesStay`, `NoStealKeepsDevice` and the refinement
`PoolImplementsPageStore`. They rest on the named assumptions of the modules:
`Zeroed` is a page, `Corrupt` is not, `NoBlock` is not a block, `Capacity` is a
positive natural number, `MaxPins` a natural number.

The inductive invariant is `Inv`: `WellFormed(pool)` and the type of `ret`.
`WellFormed` joins the type, the bound on frames, `Coherent` and `LruExact`.
None of the parts is inductive alone. Coherence of an eviction needs the victim
to be a frame, which is the LRU order's; exactness of the LRU order needs that
the frame a failed load leaves free was taken out of it, and that a free frame
found by its stale id is pinned and listed again; both need that a pinned frame
has a pin and a dirty one its mark.

The argument goes method by method, as the code does. `SequenceLemmas` has the
least and greatest elements of sets of numbers, and what cutting an element out
of a sequence and appending one do. `BufferPoolLemmas` shows for `touch`,
`evict`, `acquire_frame` and the frame updates that they keep `WellFormed`, and
which images (`SameImages`) and pins (`Undisturbed`) they leave alone; then the
same for `fetch`, `fetch_mut`, `unpin` and the writes of `flush_all`, cut short
anywhere. `BufferPoolProofs` has one lemma per
action and the theorems. The refinement maps `content[b]` to `Logical(pool, b)`:
the page of the frame that holds `b`, else the device.

`MvccProofs` proves the four properties of the `mvcc` run for every set of
clients, keys and values and every number of commits: `TypeCorrect`,
`OneSnapshotHolds`, `ConflictExactHolds` and the refinement `Serializable`. The
assumptions are that `None` is not a value, `Idle` not a transaction, `Unread`
neither a value nor `None`, and `MaxClock` a natural number. The inductive
invariant adds to the type invariant (chains ordered by timestamp) what an open
transaction (`Follows`) has to do with the store: the value visible to its
snapshot is still the one committed when it began, a key has a newer version
exactly if another committed it since, and what it has read is in its read set.
Ordered chains are what makes this inductive: without them a new version could
be found before an older one. In the refinement a transaction that validates has
read only keys without a newer version, and for those the visible value is the
latest (`VisibleIsLatest`), so its reads are current at the instant of commit.

`StorageEngineProofs` proves, for every set of blocks and pages, every capacity
and every length of the log, the three properties of the `storage` run and one
of `storage_torn_log`. The assumptions are those of the buffer pool and the log
(`Torn` is not a record). What else a theorem needs is its hypothesis:

| Theorem | recover's writes succeed | a failed persist leaves the old log |
|---|---|---|
| `EngineTypes` | | |
| `CrashLeadsToOneState` | needed | |
| `EngineImplementsAtomicStore` (the refinement) | needed | needed |
| `CommitIsWhatReadersSaw` | needed | needed |

The last one complements the finding: the violated run shows that the second
hypothesis cannot be dropped. The inductive invariant has three layers, each
built on the one before.

- `Base` is about data: the pool is `WellFormed` and does not steal, the log
  holds records numbered 0, 1, 2, ..., the kept log likewise up to its torn end,
  and a crash may always leave what the device holds.
- `Guard` is the write-ahead rule. A dirty page has a record in the engine's log;
  a block of which a crash may leave more than one content is *shielded*: the kept
  log, within the part of it that agrees with the engine's log, holds a commit
  marker after a write to that block (`Shields`). `OneDurableState` alone is not
  inductive: it speaks of the kept log only, and the next persist replaces that
  log by the engine's. What carries a marker over to the new log is that the two
  agree up to it.
- `Tracks` says that the newest record of a block in the engine's log, or the disk
  where there is none, is the image that readers see, and that the kept log ends
  in a marker. It makes the step of `CommitPersist` the commit of `AtomicStore`,
  and every other step a staged write, a fall back or a stutter. A persist that
  stops half way breaks it, and the refinement with it.

`StorageLemmas`, which the next module uses too, has the facts about the log
(`append`, `truncate`, `from_bytes`, `Partial`, which writes `Committed` finds) and
one lemma per method of the engine. No induction over the log is needed: agreement, shielding and numbering
are stated record by record. From the buffer pool's proofs they take a ledger of
pins and dirty blocks for each call (`FetchLedger`, `FlushLedger`, ...).

`FileDatabaseProofs` proves the three properties of the `filedb` run for every set
of blocks and pages, every capacity and every length of the log. `FileTypes` has
no hypothesis. `PutsSurvive` and `ReadersSeePuts` suppose that recover's writes
succeed and that the process does not end with a sidecar written and not synced.
Neither can be dropped: `recover` reports no failed write, so `open` goes on to
truncate a log that it did not apply, and `filedb_unsynced_log` violates the
property without the second. The inductive invariant has two layers.

- `Base`: the engine as above, sidecars of numbered records, a log that ends in
  the page and the marker of the put while one is in progress, and an empty pool
  while the file is being opened.
- `Guard`, while the handle is open, names a commit marker `m` of the engine's
  log (`Live`). Every sidecar that a crash may leave holds the log up to `m`, and
  nothing the log does not hold (`Follows`); a write before `m` that another one
  before `m` overwrote is forgotten, every other write is of an image that may be
  found (`Settles`). `AcknowledgedPutsSurvive` is not inductive without `m`: a
  persist that fails leaves its records in the log, the next one writes them
  out again, and what was acknowledged must still be in the part that both
  share. A persist that succeeds moves `m` to the end of the log; that is why
  the flush after it may tear any page. With `m = 0` a sidecar may instead be one
  that `open` truncated without a sync, which holds only what is in place.
  While the file is being opened, `Guard` says that from every sidecar the right
  images are found, and after the replay that they are on the device.

Each action is first reduced to its effect on images, device, log and sidecar
(`Staged`, `WroteBack`, `Restarted`, ...), and the invariant is shown from that.

`KernelProofs` proves five properties of the `kernel` run for every number of
channels, devices, blocks, frames, capabilities, tasks and messages:
`AuthorityHolds`, `ChannelsFifo`, `RoundRobinHolds`, `DriversDrain` and
`MappedPagesAreStable`. The only
assumptions are those of the buffer pool. The inductive invariant has four parts,
one per subsystem. `TokensOK`: serials are below the issuer's counter, no two
capabilities share one, and those of revoked capabilities are not live; without
uniqueness, revoking one capability could not be told from revoking another, and
without the bound a later mint could bring a revoked serial back. `ChannelsOK`:
what was sent is what was received and what waits. `TasksOK`: task ids are unique
and below the next, and a task's capability was minted. `PagesOK`: the pool is
`WellFormed` and a block has exactly one pin for each mapping of it, for which
the lemmas on `fetch`, `fetch_mut` and `unpin` of the buffer pool's proof are
used again. Each action lemma shows `Step`: the
invariant afterwards and what the action properties ask of the step. The parts
an action leaves alone come from the `...Kept` lemmas.

Only model-checked: everything about `Database`, `Query` and `WireServer`, and
`TasksFinish` of `Kernel`. The operators of `Database` and `WireServer` fold over
rows, tables and bytes.
Out of the prover's reach, and so for TLC alone wherever they come up: liveness
under fairness, `ENABLED`, and what a recursive definition computes for every
input. The last covers the tree, the executor and the parser, which are
recursive.

A leaf that cites `Zenon` is one that the SMT solver does not decide; naming the
backend keeps the proofs fast and their memory small.

## Not modelled

- Checksums, zero-copy views, the row byte layout, encodings of values on the
  wire, casts, text and date functions, floating point other than averages, the
  clustering of vector indexes: arithmetic on bytes and numbers, no state, and
  out of TLC's reach beyond a handful of values.
- The lexer's characters, error texts, EXPLAIN, GPU lowering, catalog, error
  codes, metrics: text and lookup that nothing else reads back.
- Memory-mapped devices and the mapped page cache: no pool or engine of the
  repository is built on the writable one.
- The threaded wire server: one thread per connection around the same mutex, so
  its statements are the session actions of `Database`; its own protocol state
  (portals, authentication, TLS) is not modelled. `server.rs` and `connection.rs`
  are not part of the crate.
- Writes to a socket that fail, and the limits of the operating system.
- Backup, shell, bindings, comparison suite, verification harness, the fault
  simulator (whose faults `Wal` has as `Torn`): wrappers around one session, and
  test programs.
- Queries on views that refer to each other: the code does not return from one.
