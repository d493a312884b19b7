---------------------------- MODULE FileDatabase ----------------------------
(***************************************************************************)
(* The file-backed Database (storage.rs): a storage engine over a data     *)
(* file, and a sidecar file that holds the log.  A put is three steps with *)
(* a crash possible between them: stage and log the page, rewrite and sync *)
(* the sidecar, flush and sync the data file.  Opening replays the sidecar *)
(* into the data file, syncs it, and truncates the sidecar.                *)
(*                                                                         *)
(* Both files live in the cache of the operating system until they are     *)
(* synced; the truncation of the sidecar and the writes that follow it     *)
(* reach the disk in that order.  A failed sync may have written anything. *)
(***************************************************************************)
EXTENDS StorageEngineOps

CONSTANTS
  MaxLog,        \* bound on the records of the log
  MaxPins,       \* bound on the pins of one frame
  RecoverWrites, \* how a write of recover may end
  ExitUnsynced   \* may the process end with the sidecar written, not synced?

ASSUME MaxLogAssumption == MaxLog \in Nat
ASSUME MaxPinsAssumption == MaxPins \in Nat
ASSUME RecoverWritesAssumption == RecoverWrites \subseteq WriteOutcome
ASSUME ExitUnsyncedAssumption == ExitUnsynced \in BOOLEAN

VARIABLES
  engine,    \* the engine of the open handle; its device is the data file
  disk,      \* for every block, the contents a crash may leave
  wal_file,  \* the bytes of the sidecar file
  wal_disk,  \* the bytes of the sidecar that a crash may leave
  phase,     \* where the handle is: see TypeOK
  putting,   \* the put in progress
  maybe      \* for every block, the last image acknowledged or found at a
             \* restart, and those of the puts begun since

vars == <<engine, disk, wal_file, wal_disk, phase, putting, maybe>>

NoPut == [block |-> NoBlock, page |-> Zeroed]

\* Database::create: a data file of zeros and an empty sidecar.
create == /\ engine = NewEngine([b \in Block |-> Zeroed])
          /\ disk = Synced(engine.pool.device)
          /\ wal_file = <<>>
          /\ wal_disk = {<<>>}
          /\ phase = "up"
          /\ putting = NoPut
          /\ maybe = [b \in Block |-> {Zeroed}]

Init == create

-----------------------------------------------------------------------------
\* put: write_page, then append_commit.
PutWrite(b, pg) ==
  /\ phase = "up"
  /\ Len(engine.wal.bytes) + 2 <= MaxLog
  /\ \E r \in {write_page(engine, b, pg, rd) : rd \in ReadOutcome} :
       /\ disk' = Reaching(disk, engine.pool.device, r.engine.pool.device)
       /\ IF r.ok
          THEN /\ engine' = append_commit(r.engine)
               /\ phase' = "persist"
               /\ putting' = [block |-> b, page |-> pg]
               /\ maybe' = [maybe EXCEPT ![b] = @ \cup {pg}]
          ELSE /\ engine' = r.engine
               /\ UNCHANGED <<phase, putting, maybe>>
  /\ UNCHANGED <<wal_file, wal_disk>>

\* put: persist_wal.  A failure returns without withdrawing the records.
PutPersist ==
  /\ phase = "persist"
  /\ \/ /\ wal_file' = engine.wal.bytes
        /\ wal_disk' = {engine.wal.bytes}
        /\ phase' = "flush"
        /\ UNCHANGED putting
     \/ /\ wal_file' \in {wal_file} \cup Partial(wal_file, engine.wal.bytes)
        /\ wal_disk' = wal_disk \cup (IF wal_file' = wal_file THEN {}
                                      ELSE Partial(wal_file, wal_file'))
        /\ phase' = "up"
        /\ putting' = NoPut
  /\ UNCHANGED <<engine, disk, maybe>>

\* put: flush_data.
PutFlush ==
  /\ phase = "flush"
  /\ \E upto \in FlushPoints(engine.pool), wr \in WriteOutcome \ {"ok"}, synced \in BOOLEAN :
       LET p == flush_writes(engine.pool, upto, wr)
           done == upto \notin ToFlush(engine.pool) /\ synced
       IN /\ engine' = [engine EXCEPT !.pool = p]
          /\ disk' = IF done THEN Synced(p.device)
                             ELSE Reaching(disk, engine.pool.device, p.device)
          /\ maybe' = IF done THEN [maybe EXCEPT ![putting.block] = {putting.page}]
                              ELSE maybe
  /\ phase' = "up"
  /\ putting' = NoPut
  /\ UNCHANGED <<wal_file, wal_disk>>

get(b) ==
  /\ phase = "up"
  /\ \A i \in Holding(engine.pool, b) : engine.pool.frames[i].pins < MaxPins
  /\ \E r \in {read_page(engine, b, rd) : rd \in ReadOutcome} :
       /\ engine' = [engine EXCEPT !.pool = r.pool]
       /\ disk' = Reaching(disk, engine.pool.device, r.pool.device)
  /\ UNCHANGED <<wal_file, wal_disk, phase, putting, maybe>>

-----------------------------------------------------------------------------
\* The process ends or drops the handle: nothing is flushed, and the files
\* keep what they hold.
Close ==
  /\ phase # "closed"
  /\ ExitUnsynced \/ wal_file = <<>> \/ wal_disk = {wal_file}
  /\ engine' = NewEngine(engine.pool.device)
  /\ phase' = "closed"
  /\ putting' = NoPut
  /\ UNCHANGED <<disk, wal_file, wal_disk, maybe>>

\* open: read the sidecar and, unless it is empty, recover from it.
OpenRecover ==
  /\ phase = "closed"
  /\ \E out \in [Committed(wal_file) -> RecoverWrites] :
       engine' = IF wal_file = <<>> THEN engine ELSE recover(engine, wal_file, out)
  /\ disk' = Reaching(disk, engine.pool.device, engine'.pool.device)
  /\ phase' = IF wal_file = <<>> THEN "up" ELSE "sync"
  /\ UNCHANGED <<wal_file, wal_disk, putting, maybe>>

OpenSync_skipped ==
  /\ phase = "sync"
  /\ phase' = "truncate"
  /\ UNCHANGED <<engine, disk, wal_file, wal_disk, putting, maybe>>

\* open: flush_data, which finds an empty pool and only syncs.
OpenSync ==
  /\ phase = "sync"
  /\ \/ /\ disk' = Synced(engine.pool.device)
        /\ phase' = "truncate"
        /\ UNCHANGED engine
     \/ /\ engine' = NewEngine(engine.pool.device)
        /\ phase' = "closed"
        /\ UNCHANGED disk
  /\ UNCHANGED <<wal_file, wal_disk, putting, maybe>>

\* open: reset_wal and set_len(0), which is not synced.
OpenTruncate ==
  /\ phase = "truncate"
  /\ \/ /\ engine' = reset_wal(engine)
        /\ wal_file' = <<>>
        /\ wal_disk' = wal_disk \cup {<<>>}
        /\ phase' = "up"
     \/ /\ engine' = NewEngine(engine.pool.device)
        /\ phase' = "closed"
        /\ UNCHANGED <<wal_file, wal_disk>>
  /\ UNCHANGED <<disk, putting, maybe>>

\* What a crash and the opening after it may leave in block b.
Durable(b) == UNION {Recoverable(disk, bytes, b) : bytes \in wal_disk}

\* A crash at any point of any call; what it leaves is settled from then on.
Crash ==
  /\ \E device \in {d \in Device : \A b \in Block : d[b] \in disk[b]} :
       engine' = NewEngine(device) /\ disk' = Synced(device)
  /\ wal_file' \in wal_disk
  /\ wal_disk' = {wal_file'}
  /\ phase' = "closed"
  /\ putting' = NoPut
  /\ maybe' = [b \in Block |-> maybe[b] \cap Durable(b)']

Next == \/ \E b \in Block : get(b)
        \/ \E b \in Block, pg \in Page : PutWrite(b, pg)
        \/ PutPersist \/ PutFlush
        \/ Close \/ OpenRecover \/ OpenSync \/ OpenTruncate \/ Crash

Spec == Init /\ [][Next]_vars

-----------------------------------------------------------------------------
\* Types of the state.  Inside an open handle the phase is "up" between calls,
\* "persist" and "flush" inside put; outside it is "closed", and "sync" and
\* "truncate" inside open.
TypeOK ==
  /\ engine.pool \in Pool
  /\ engine.wal.bytes \in Seq(WalRecord)
  /\ \A k \in DOMAIN engine.wal.bytes : engine.wal.bytes[k].lsn = k - 1
  /\ engine.wal.next_lsn = Len(engine.wal.bytes)
  /\ disk \in [Block -> SUBSET Content]
  /\ wal_file \in wal_disk
  /\ \A bytes \in wal_disk : bytes \in Seq(WalRecord \cup {Torn})
  /\ phase \in {"up", "persist", "flush", "closed", "sync", "truncate"}
  /\ putting.block \in Block <=> phase \in {"persist", "flush"}
  /\ maybe \in [Block -> SUBSET Page]

\* Whenever the machine stops, the next open finds in every block the image of
\* the last acknowledged put or of a put begun after it, never a torn page and
\* never an older image.
AcknowledgedPutsSurvive == \A b \in Block : Durable(b) # {} /\ Durable(b) \subseteq maybe[b]

\* A reader is given only images that were put since, or acknowledged.
ReadsSeePuts == phase \in {"up", "persist", "flush"} =>
  \A b \in Block : Logical(engine.pool, b) \in maybe[b]

\* What a crash may leave in a block is decided by the puts of that block: no
\* other step makes a further image possible, so a put that was reported to
\* have failed does not become durable through a later put of another block.
OnlyOwnPutsBecomeDurable ==
  [][\A b \in Block : Durable(b)' \subseteq Durable(b) \/ putting.block = b]_vars
=============================================================================
