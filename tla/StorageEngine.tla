--------------------------- MODULE StorageEngine ---------------------------
(***************************************************************************)
(* A storage engine (storage.rs) and the host that embeds it: the host     *)
(* writes and reads pages, commits batches with commit_durable, keeps the  *)
(* log wherever `persist` puts it, and after a crash starts a new engine   *)
(* over the same device and recovers it from the kept log.                 *)
(*                                                                         *)
(* commit_durable is two steps, with a crash possible between them: the    *)
(* marker and persist, then the flush of the pages.                        *)
(***************************************************************************)
EXTENDS StorageEngineOps

CONSTANTS
  MaxLog,        \* bound on the records of the log
  MaxPins,       \* bound on the pins of one frame
  PersistTears,  \* may a failed persist leave part of the log behind?
  RecoverWrites  \* how a write of recover may end

ASSUME MaxLogAssumption == MaxLog \in Nat
ASSUME MaxPinsAssumption == MaxPins \in Nat
ASSUME PersistTearsAssumption == PersistTears \in BOOLEAN
ASSUME RecoverWritesAssumption == RecoverWrites \subseteq WriteOutcome

VARIABLES
  engine,   \* the engine: its pool, with the device, and its log
  disk,     \* for every block, the contents a crash may leave
  kept,     \* the log bytes that persist has made durable
  phase     \* "up", "flush" inside commit_durable, "down" after a crash

vars == <<engine, disk, kept, phase>>

\* A fresh device is filled with zeros.
Init == /\ engine = NewEngine([b \in Block |-> Zeroed])
        /\ disk = Synced(engine.pool.device)
        /\ kept = <<>>
        /\ phase = "up"

HasRoom == Len(engine.wal.bytes) < MaxLog
MayPin(b) == \A i \in Holding(engine.pool, b) : engine.pool.frames[i].pins < MaxPins

WritePage(b, pg) ==
  /\ phase = "up"
  /\ HasRoom
  /\ \E r \in {write_page(engine, b, pg, rd) : rd \in ReadOutcome} :
       /\ engine' = r.engine
       /\ disk' = Reaching(disk, engine.pool.device, r.engine.pool.device)
  /\ UNCHANGED <<kept, phase>>

ReadPage(b) ==
  /\ phase = "up"
  /\ MayPin(b)
  /\ \E r \in {read_page(engine, b, rd) : rd \in ReadOutcome} :
       /\ engine' = [engine EXCEPT !.pool = r.pool]
       /\ disk' = Reaching(disk, engine.pool.device, r.pool.device)
  /\ UNCHANGED <<kept, phase>>

CommitPersist ==
  /\ phase = "up"
  /\ HasRoom
  /\ LET marked == append_commit(engine) IN
     \/ /\ engine' = marked
        /\ kept' = marked.wal.bytes
        /\ phase' = "flush"
     \/ /\ engine' = [marked EXCEPT !.wal = truncate(@, Len(engine.wal.bytes),
                                                     engine.wal.next_lsn)]
        /\ kept' \in {kept} \cup (IF PersistTears THEN Partial(kept, marked.wal.bytes) ELSE {})
        /\ UNCHANGED phase
  /\ UNCHANGED disk

CommitFlush ==
  /\ phase = "flush"
  /\ \E upto \in FlushPoints(engine.pool), wr \in WriteOutcome \ {"ok"}, synced \in BOOLEAN :
       LET p == flush_writes(engine.pool, upto, wr)
           done == upto \notin ToFlush(engine.pool) /\ synced
       IN /\ engine' = [engine EXCEPT !.pool = p]
          /\ disk' = IF done THEN Synced(p.device)
                             ELSE Reaching(disk, engine.pool.device, p.device)
  /\ phase' = "up"
  /\ UNCHANGED kept

\* The host drops the log when its last commit has succeeded and it has
\* written nothing since.
ResetWal ==
  /\ phase = "up"
  /\ disk = Synced(engine.pool.device)
  /\ ToFlush(engine.pool) = {}
  /\ Uncommitted(engine.wal.bytes) = {}
  /\ engine' = reset_wal(engine)
  /\ UNCHANGED <<disk, kept, phase>>

Crash ==
  /\ phase # "down"
  /\ \E device \in {d \in Device : \A b \in Block : d[b] \in disk[b]} :
       engine' = NewEngine(device) /\ disk' = Synced(device)
  /\ phase' = "down"
  /\ UNCHANGED kept

Recover ==
  /\ phase = "down"
  /\ \E out \in [Committed(kept) -> RecoverWrites] :
       LET e == recover(engine, kept, out) IN
       /\ engine' = e
       /\ disk' = Reaching(disk, engine.pool.device, e.pool.device)
  /\ phase' = "up"
  /\ UNCHANGED kept

Next == \/ \E b \in Block : ReadPage(b)
        \/ \E b \in Block, pg \in Page : WritePage(b, pg)
        \/ CommitPersist \/ CommitFlush \/ ResetWal \/ Crash \/ Recover

Spec == Init /\ [][Next]_vars

-----------------------------------------------------------------------------
Durable(b) == Recoverable(disk, kept, b)

View(b) == IF phase = "down" THEN CHOOSE c \in Durable(b) : TRUE
                             ELSE Logical(engine.pool, b)

\* Types of the state; the log holds LSNs 0, 1, 2, ... in order, whatever was
\* withdrawn, reset or recovered before.
TypeOK ==
  /\ engine.pool \in Pool
  /\ engine.wal.bytes \in Seq(WalRecord)
  /\ \A k \in DOMAIN engine.wal.bytes : engine.wal.bytes[k].lsn = k - 1
  /\ engine.wal.next_lsn = Len(engine.wal.bytes)
  /\ disk \in [Block -> SUBSET Content]
  /\ phase \in {"up", "flush", "down"}

\* At every instant a crash and the recovery after it lead to one state, and
\* no page of it is unreadable: the write-ahead rule, whichever of the writes
\* in flight reach the disk, whole or torn.
OneDurableState == \A b \in Block : \E pg \in Page : Durable(b) = {pg}

\* Once persist has succeeded, what a crash preserves is what readers of the
\* engine saw when commit_durable was called: a page write that recovery
\* dropped is not brought back by a later commit.
CommitMakesViewDurable ==
  [][phase = "up" /\ phase' = "flush" => \A b \in Block : Durable(b)' = {View(b)}]_vars

\* The engine implements batches that become durable atomically.
Abstract == INSTANCE AtomicStore
  WITH view <- [b \in Block |-> View(b)],
       committed <- [b \in Block |-> CHOOSE c \in Durable(b) : TRUE]
ImplementsAtomicStore == Abstract!Spec
=============================================================================
