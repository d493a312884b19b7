------------------------ MODULE StorageEngineProofs ------------------------
(***************************************************************************)
(* Proofs about StorageEngine, for any blocks, pages, capacity and bounds: *)
(* the log keeps its LSNs in order; a crash and the recovery after it lead *)
(* to one state; and the engine implements AtomicStore.                    *)
(***************************************************************************)
EXTENDS StorageEngine, StorageLemmas, TLAPS

\* What holds whatever recover and persist do: the engine is well formed, a
\* crash may leave what the device holds, and after persist the kept log is
\* the engine's, marker included.
Base ==
  /\ EngineOK(engine)
  /\ Caches(disk, engine.pool.device)
  /\ Numbered(kept)
  /\ phase \in {"up", "flush", "down"}
  /\ phase = "flush" => /\ kept = engine.wal.bytes
                        /\ kept # <<>> /\ IsCommit(kept[Len(kept)])
  /\ phase = "down" => /\ engine.pool.frames = <<>> /\ engine.pool.lru = <<>>
                       /\ disk = Synced(engine.pool.device)

\* What each action does, in terms of images, the device and the log.
LogSame == engine'.wal = engine.wal
ImagesSame == SameImages(engine.pool, engine'.pool)
DirtySame == DirtyBlocks(engine'.pool) \subseteq DirtyBlocks(engine.pool)
DeviceSame == engine'.pool.device = engine.pool.device /\ disk' = disk

Staged(b, pg) ==
  /\ phase = "up" /\ phase' = "up" /\ kept' = kept
  /\ EngineOK(engine') /\ DeviceSame
  /\ \/ /\ engine'.wal = append(engine.wal, "PageWrite", b, pg)
        /\ \A c \in Block : Logical(engine'.pool, c) =
             IF c = b THEN pg ELSE Logical(engine.pool, c)
        /\ DirtyBlocks(engine'.pool) \subseteq DirtyBlocks(engine.pool) \cup {b}
     \/ LogSame /\ ImagesSame /\ DirtySame

Consulted ==
  /\ phase = "up" /\ phase' = "up" /\ kept' = kept
  /\ EngineOK(engine') /\ DeviceSame /\ LogSame /\ ImagesSame /\ DirtySame

\* Marked is the log with the commit marker.
Marked == append(engine.wal, "Commit", NoBlock, Zeroed)
Persisted ==
  /\ phase = "up" /\ disk' = disk
  /\ EngineOK(engine') /\ engine'.pool = engine.pool
  /\ \/ phase' = "flush" /\ engine'.wal = Marked /\ kept' = Marked.bytes
     \/ /\ phase' = "up" /\ LogSame
        /\ \/ kept' = kept
           \/ PersistTears /\ kept' \in Partial(kept, Marked.bytes)

WroteBack ==
  /\ phase = "flush" /\ phase' = "up" /\ kept' = kept
  /\ EngineOK(engine') /\ LogSame /\ ImagesSame /\ DirtySame
  /\ \A c \in Block : c \notin DirtyBlocks(engine.pool) =>
       engine'.pool.device[c] = engine.pool.device[c]
  /\ \/ disk' = Synced(engine'.pool.device)
     \/ disk' = Reaching(disk, engine.pool.device, engine'.pool.device)

Restarted(d, out) ==
  /\ phase = "down" /\ phase' = "up" /\ kept' = kept
  /\ d = Replayed(engine.pool.device, kept, out)
  /\ Recovered(engine', d, kept)
  /\ disk' = Reaching(disk, engine.pool.device, d)

LEMMA WritePageEffect ==
  ASSUME Base, NEW b \in Block, NEW pg \in Page, WritePage(b, pg)
  PROVE  Staged(b, pg)
<1>1. PICK rd : /\ engine' = write_page(engine, b, pg, rd).engine
                /\ disk' = Reaching(disk, engine.pool.device, engine'.pool.device)
  BY Zenon DEF WritePage
<1>2. phase = "up" /\ phase' = "up" /\ kept' = kept
  BY DEF WritePage
<1>3. EngineOK(engine) /\ Caches(disk, engine.pool.device)
  BY DEF Base
<1> DEFINE r == write_page(engine, b, pg, rd)
<1>4. Wrote(engine, r, b, pg)
  BY <1>3, WritePageFacts
<1> HIDE DEF r
<1>5. engine' = r.engine
  BY <1>1 DEF r
<1>6. EngineOK(engine') /\ engine'.pool.device = engine.pool.device
  BY <1>4, <1>5, Zenon DEF Wrote
<1>7. disk' = disk
  BY <1>1, <1>3, <1>6, DeviceOfEngine, ReachingFacts
<1>8. \/ /\ engine'.wal = append(engine.wal, "PageWrite", b, pg)
         /\ \A c \in Block : Logical(engine'.pool, c) =
              IF c = b THEN pg ELSE Logical(engine.pool, c)
         /\ DirtyBlocks(engine'.pool) \subseteq DirtyBlocks(engine.pool) \cup {b}
      \/ LogSame /\ ImagesSame /\ DirtySame
  BY <1>4, <1>5, Zenon DEF Wrote, LogSame, ImagesSame, DirtySame
<1> QED BY <1>2, <1>6, <1>7, <1>8, Zenon DEF Staged, DeviceSame

LEMMA ReadPageEffect ==
  ASSUME Base, NEW b \in Block, ReadPage(b)
  PROVE  Consulted
<1>1. PICK rd : /\ engine' = [engine EXCEPT !.pool = read_page(engine, b, rd).pool]
                /\ disk' = Reaching(disk, engine.pool.device, read_page(engine, b, rd).pool.device)
  BY Zenon DEF ReadPage
<1>2. phase = "up" /\ phase' = "up" /\ kept' = kept
  BY DEF ReadPage
<1>3. EngineOK(engine) /\ Caches(disk, engine.pool.device)
  BY DEF Base
<1> DEFINE q == read_page(engine, b, rd).pool
<1>4. WellFormed(q) /\ q.steal = FALSE /\ SameImages(engine.pool, q) /\ Quiet(engine.pool, q)
  BY <1>3, ReadPageFacts
<1> HIDE DEF q
<1>5. /\ EngineOK([engine EXCEPT !.pool = q]) /\ [engine EXCEPT !.pool = q].pool = q
      /\ [engine EXCEPT !.pool = q].wal = engine.wal
  BY <1>3, <1>4, ReplacePool
<1>6. engine' = [engine EXCEPT !.pool = q] /\ disk' = Reaching(disk, engine.pool.device, q.device)
  BY <1>1, Zenon DEF q
<1>7. EngineOK(engine') /\ engine'.pool = q /\ LogSame
  BY <1>5, <1>6, Zenon DEF LogSame
<1>8. engine'.pool.device = engine.pool.device /\ disk' = disk
  BY <1>3, <1>4, <1>6, <1>7, DeviceOfEngine, ReachingFacts DEF Quiet
<1>9. ImagesSame /\ DirtySame
  BY <1>4, <1>7, Zenon DEF ImagesSame, DirtySame, Quiet
<1> QED BY <1>2, <1>7, <1>8, <1>9, Zenon DEF Consulted, DeviceSame

LEMMA CommitPersistEffect ==
  ASSUME Base, CommitPersist
  PROVE  Persisted
<1>1. EngineOK(engine) /\ LogOK(engine.wal)
  BY DEF Base, EngineOK
<1>2. "Commit" \in RecordKind /\ Zeroed \in Page /\ NoBlock \in Block \cup {NoBlock}
  BY ZeroedAssumption DEF RecordKind
<1>3. LogOK(Marked) /\ truncate(Marked, Len(engine.wal.bytes), engine.wal.next_lsn) = engine.wal
  BY <1>1, <1>2, AppendLog, Zenon DEF Marked
<1>4. phase = "up" /\ disk' = disk
  BY DEF CommitPersist
<1> DEFINE m == [engine EXCEPT !.wal = Marked]
<1>5. append_commit(engine) = m
  BY Zenon DEF append_commit, Marked
<1>6. EngineOK(m) /\ m.wal = Marked /\ m.pool = engine.pool
  BY <1>1, <1>3, ReplaceLog
<1> HIDE DEF m
<1>7. \/ engine' = m /\ kept' = m.wal.bytes /\ phase' = "flush"
      \/ /\ engine' = [m EXCEPT !.wal = truncate(@, Len(engine.wal.bytes), engine.wal.next_lsn)]
         /\ kept' \in {kept} \cup (IF PersistTears THEN Partial(kept, m.wal.bytes) ELSE {})
         /\ phase' = phase
  BY <1>5, Zenon DEF CommitPersist
<1>8. CASE engine' = m /\ kept' = m.wal.bytes /\ phase' = "flush"
  BY <1>4, <1>6, <1>8, Zenon DEF Persisted
<1>9. CASE /\ engine' = [m EXCEPT !.wal = truncate(@, Len(engine.wal.bytes), engine.wal.next_lsn)]
           /\ kept' \in {kept} \cup (IF PersistTears THEN Partial(kept, m.wal.bytes) ELSE {})
           /\ phase' = phase
  <2>1. engine' = [m EXCEPT !.wal = engine.wal]
    BY <1>3, <1>6, <1>9, Zenon
  <2>2. EngineOK(engine') /\ engine'.wal = engine.wal /\ engine'.pool = engine.pool
    BY <1>1, <1>6, <2>1, ReplaceLog
  <2>3. kept' = kept \/ (PersistTears /\ kept' \in Partial(kept, Marked.bytes))
    BY <1>6, <1>9, Zenon
  <2> QED BY <1>4, <1>9, <2>2, <2>3, Zenon DEF Persisted, LogSame
<1> QED BY <1>7, <1>8, <1>9

LEMMA CommitFlushEffect ==
  ASSUME Base, CommitFlush
  PROVE  WroteBack
<1>1. PICK upto, wr :
        LET p == flush_writes(engine.pool, upto, wr) IN
        /\ engine' = [engine EXCEPT !.pool = p]
        /\ \/ disk' = Synced(p.device)
           \/ disk' = Reaching(disk, engine.pool.device, p.device)
  BY Zenon DEF CommitFlush
<1>2. phase = "flush" /\ phase' = "up" /\ kept' = kept
  BY DEF CommitFlush
<1>3. EngineOK(engine)
  BY DEF Base
<1> DEFINE q == flush_writes(engine.pool, upto, wr)
<1>4. Cleaned(engine.pool, q)
  BY <1>3, FlushFacts, Zenon
<1> HIDE DEF q
<1>5. /\ EngineOK([engine EXCEPT !.pool = q]) /\ [engine EXCEPT !.pool = q].pool = q
      /\ [engine EXCEPT !.pool = q].wal = engine.wal
  BY <1>3, <1>4, ReplacePool DEF Cleaned
<1>6. /\ engine' = [engine EXCEPT !.pool = q]
      /\ disk' = Synced(q.device) \/ disk' = Reaching(disk, engine.pool.device, q.device)
  BY <1>1, Zenon DEF q
<1>7. EngineOK(engine') /\ engine'.pool = q /\ LogSame
  BY <1>5, <1>6, Zenon DEF LogSame
<1> QED BY <1>2, <1>4, <1>6, <1>7, Zenon DEF Cleaned, WroteBack, ImagesSame, DirtySame

\* The host drops a log all of whose writes are in place.
Emptied ==
  /\ phase = "up" /\ phase' = "up" /\ kept' = kept /\ disk' = disk
  /\ EngineOK(engine') /\ engine'.pool = engine.pool /\ engine'.wal = NewWal
  /\ disk = Synced(engine.pool.device) /\ DirtyBlocks(engine.pool) = {}

LEMMA ResetWalEffect ==
  ASSUME Base, ResetWal
  PROVE  Emptied
<1>1. EngineOK(engine) /\ WellFormed(engine.pool)
  BY DEF Base, EngineOK
<1>2. engine' = [engine EXCEPT !.wal = NewWal]
  BY Zenon DEF ResetWal, reset_wal
<1>3. EngineOK(engine') /\ engine'.wal = NewWal /\ engine'.pool = engine.pool
  BY <1>1, <1>2, NewLog, ReplaceLog
<1>4. DirtyBlocks(engine.pool) = {}
  BY <1>1, DirtyFlushed DEF ResetWal
<1> QED BY <1>3, <1>4 DEF Emptied, ResetWal

\* A crash leaves one of the contents each block may have.
Crashed(d) ==
  /\ phase # "down" /\ phase' = "down" /\ kept' = kept
  /\ d \in Device /\ \A b \in Block : d[b] \in disk[b]
  /\ EngineOK(engine') /\ engine'.pool.device = d
  /\ engine'.pool.frames = <<>> /\ engine'.pool.lru = <<>>
  /\ disk' = Synced(d)

LEMMA CrashEffect ==
  ASSUME Crash
  PROVE  \E d : Crashed(d)
<1>1. PICK d \in Device : /\ \A b \in Block : d[b] \in disk[b]
                          /\ engine' = NewEngine(d) /\ disk' = Synced(d)
  BY DEF Crash
<1>2. phase # "down" /\ phase' = "down" /\ kept' = kept
  BY DEF Crash
<1>3. /\ EngineOK(engine') /\ engine'.pool.device = d
      /\ engine'.pool.frames = <<>> /\ engine'.pool.lru = <<>>
  BY <1>1, NewEngineFacts
<1> QED BY <1>1, <1>2, <1>3 DEF Crashed

LEMMA RecoverEffect ==
  ASSUME Base, Recover
  PROVE  \E out \in [Committed(kept) -> RecoverWrites], d \in Device : Restarted(d, out)
<1>1. PICK out \in [Committed(kept) -> RecoverWrites] :
        /\ engine' = recover(engine, kept, out)
        /\ disk' = Reaching(disk, engine.pool.device, engine'.pool.device)
  BY Zenon DEF Recover
<1>2. phase = "down" /\ phase' = "up" /\ kept' = kept
  BY DEF Recover
<1>3. /\ EngineOK(engine) /\ engine.pool.frames = <<>> /\ engine.pool.lru = <<>>
      /\ Numbered(kept) /\ kept \in Seq(Bytes) /\ engine.pool.device \in Device
  BY <1>2, DeviceOfEngine DEF Base, Numbered
<1>4. out \in [Committed(kept) -> WriteOutcome]
  BY RecoverWritesAssumption
<1> DEFINE d == Replayed(engine.pool.device, kept, out)
<1>5. Recovered(recover(engine, kept, out), d, kept)
  BY <1>3, <1>4, RecoverFacts
<1>6. d \in Device
  BY <1>3, <1>4, ReplayFacts
<1> HIDE DEF d
<1>7. Recovered(engine', d, kept)
  BY <1>1, <1>5
<1>8. engine'.pool.device = d
  BY <1>7 DEF Recovered
<1>9. Restarted(d, out)
  BY <1>1, <1>2, <1>7, <1>8 DEF Restarted, d
<1> QED BY <1>6, <1>9

-----------------------------------------------------------------------------
LEMMA InitBase == Init => Base /\ engine = NewEngine([b \in Block |-> Zeroed])
                               /\ disk = Synced([b \in Block |-> Zeroed])
<1> SUFFICES ASSUME Init PROVE Base /\ engine = NewEngine([b \in Block |-> Zeroed])
                                    /\ disk = Synced([b \in Block |-> Zeroed])
  OBVIOUS
<1> DEFINE d == [b \in Block |-> Zeroed]
<1>1. d \in Device
  BY ZeroedAssumption DEF Device, Content
<1>2. engine = NewEngine(d) /\ disk = Synced(engine.pool.device) /\ kept = <<>> /\ phase = "up"
  BY DEF Init
<1> HIDE DEF d
<1>3. EngineOK(engine) /\ engine.pool.device = d
  BY <1>1, <1>2, NewEngineFacts
<1>4. Caches(disk, engine.pool.device)
  BY <1>1, <1>2, <1>3, SyncedFacts
<1>5. Numbered(kept)
  BY <1>2, EmptySeq DEF Numbered
<1>6. Base
  BY <1>2, <1>3, <1>4, <1>5 DEF Base
<1> QED BY <1>2, <1>3, <1>6 DEF d

LEMMA MarkedFacts ==
  ASSUME EngineOK(engine)
  PROVE  /\ LogOK(Marked) /\ Numbered(Marked.bytes)
         /\ Marked.bytes \in Seq(WalRecord) /\ Marked.bytes \in Seq(Bytes)
         /\ engine.wal.bytes \in Seq(WalRecord) /\ engine.wal.bytes \in Seq(Bytes)
         /\ Marked.bytes # <<>> /\ IsCommit(Marked.bytes[Len(Marked.bytes)])
         /\ \E r \in WalRecord : Marked.bytes = Append(engine.wal.bytes, r) /\ r.kind = "Commit"
<1>1. LogOK(engine.wal)
  BY DEF EngineOK
<1>2. "Commit" \in RecordKind /\ Zeroed \in Page /\ NoBlock \in Block \cup {NoBlock}
  BY ZeroedAssumption DEF RecordKind
<1> DEFINE r == Record(engine.wal, "Commit", NoBlock, Zeroed)
<1>3. LogOK(Marked) /\ Marked.bytes = Append(engine.wal.bytes, r) /\ r \in WalRecord
  BY <1>1, <1>2, AppendLog, Zenon DEF Marked
<1>4. r.kind = "Commit"
  BY DEF Record
<1> HIDE DEF r
<1>5. /\ Numbered(Marked.bytes)
      /\ Marked.bytes \in Seq(WalRecord) /\ Marked.bytes \in Seq(Bytes)
      /\ engine.wal.bytes \in Seq(WalRecord) /\ engine.wal.bytes \in Seq(Bytes)
  BY <1>1, <1>3, NumberedLog
<1>6. Len(engine.wal.bytes) \in Nat /\ r \in Bytes
  BY <1>3, <1>5, BytesFacts DEF Bytes
<1>7. Len(Marked.bytes) = Len(engine.wal.bytes) + 1 /\ Marked.bytes[Len(Marked.bytes)] = r
  BY <1>3, <1>5, <1>6, AppendFacts
<1>8. Marked.bytes # <<>>
  BY <1>6, <1>7, EmptySeq
<1>9. IsCommit(Marked.bytes[Len(Marked.bytes)])
  BY <1>4, <1>7 DEF IsCommit
<1> QED BY <1>3, <1>4, <1>5, <1>8, <1>9

LEMMA PersistBase ==
  ASSUME Base, Persisted
  PROVE  Base'
<1>1. EngineOK(engine) /\ Caches(disk, engine.pool.device) /\ Numbered(kept)
  BY DEF Base
<1>2. EngineOK(engine') /\ engine'.pool = engine.pool /\ disk' = disk
  BY DEF Persisted
<1>3. /\ Numbered(Marked.bytes)
      /\ Marked.bytes # <<>> /\ IsCommit(Marked.bytes[Len(Marked.bytes)])
  BY <1>1, MarkedFacts
<1>4. CASE phase' = "flush" /\ engine'.wal = Marked /\ kept' = Marked.bytes
  BY <1>1, <1>2, <1>3, <1>4 DEF Base
<1>5. CASE phase' = "up" /\ (kept' = kept \/ kept' \in Partial(kept, Marked.bytes))
  <2>1. Numbered(kept')
    BY <1>1, <1>3, <1>5, NumberedPartial
  <2> QED BY <1>1, <1>2, <1>5, <2>1 DEF Base
<1> QED BY <1>4, <1>5, Zenon DEF Persisted

\* The base invariant is inductive: one step per action.
LEMMA NextBase ==
  ASSUME Base, [Next]_vars
  PROVE  Base'
<1>1. /\ EngineOK(engine) /\ Caches(disk, engine.pool.device) /\ Numbered(kept)
      /\ engine.pool.device \in Device
  BY DeviceOfEngine DEF Base
<1>2. ASSUME NEW b \in Block, ReadPage(b) PROVE Base'
  BY <1>1, <1>2, ReadPageEffect DEF Consulted, DeviceSame, Base
<1>3. ASSUME NEW b \in Block, NEW pg \in Page, WritePage(b, pg) PROVE Base'
  <2>1. Staged(b, pg)
    BY <1>3, WritePageEffect
  <2> QED BY <1>1, <2>1 DEF Staged, DeviceSame, Base
<1>4. CASE CommitPersist
  BY <1>4, CommitPersistEffect, PersistBase
<1>5. CASE CommitFlush
  <2>1. WroteBack
    BY <1>5, CommitFlushEffect
  <2>2. EngineOK(engine') /\ engine'.pool.device \in Device /\ kept' = kept /\ phase' = "up"
    BY <2>1, DeviceOfEngine DEF WroteBack
  <2>3. Caches(disk', engine'.pool.device)
    <3>1. CASE disk' = Synced(engine'.pool.device)
      BY <2>2, <3>1, SyncedFacts
    <3>2. CASE disk' = Reaching(disk, engine.pool.device, engine'.pool.device)
      BY <1>1, <2>2, <3>2, ReachingFacts
    <3> QED BY <2>1, <3>1, <3>2 DEF WroteBack
  <2> QED BY <1>1, <2>2, <2>3 DEF Base
<1>6. CASE ResetWal
  BY <1>1, <1>6, ResetWalEffect DEF Emptied, Base
<1>7. CASE Crash
  <2>1. PICK d : Crashed(d)
    BY <1>7, CrashEffect
  <2>2. Caches(disk', d)
    BY <2>1, SyncedFacts DEF Crashed
  <2> QED BY <1>1, <2>1, <2>2 DEF Crashed, Base
<1>8. CASE Recover
  <2>1. PICK out \in [Committed(kept) -> RecoverWrites], d \in Device : Restarted(d, out)
    BY <1>8, RecoverEffect, Zenon
  <2>2. EngineOK(engine') /\ engine'.pool.device = d
    BY <2>1 DEF Restarted, Recovered
  <2>3. Caches(disk', d)
    BY <1>1, <2>1, ReachingFacts DEF Restarted
  <2> QED BY <1>1, <2>1, <2>2, <2>3 DEF Restarted, Base
<1>9. CASE UNCHANGED vars
  BY <1>9 DEF vars, Base
<1> QED BY <1>2, <1>3, <1>4, <1>5, <1>6, <1>7, <1>8, <1>9 DEF Next

\* Whatever recover and persist do, the state has its types, and the log of
\* the engine holds whole records with LSNs 0, 1, 2, ... in order: truncate
\* takes back what append did, and from_bytes resumes where the intact part
\* of a damaged log ends.
THEOREM EngineTypes == Spec => []TypeOK
<1>1. Init => Base
  BY InitBase
<1>2. Base /\ [Next]_vars => Base'
  BY NextBase
<1>3. Base => TypeOK
  BY DEF Base, EngineOK, LogOK, Log, Caches, TypeOK
<1> QED BY <1>1, <1>2, <1>3, PTL DEF Spec

-----------------------------------------------------------------------------
\* Why a crash leads to one state when the writes of recover succeed: a block
\* whose page may be on its way to the disk has a committed write in the kept
\* log, within the part of it that agrees with the engine's log.
Guard ==
  /\ phase # "down" =>
       /\ \A b \in Block : Logical(engine.pool, b) \in Page
       /\ \A b \in DirtyBlocks(engine.pool) : Writes(engine.wal.bytes, b) # {}
       /\ \A b \in Block : Shields(kept, engine.wal.bytes, b) \/ OnePage(disk[b])
  /\ phase = "down" => \A b \in Block : CommittedTo(kept, b) # {} \/ OnePage(disk[b])

LEMMA InitGuard == Init => Guard
<1> SUFFICES ASSUME Init PROVE Guard
  OBVIOUS
<1> DEFINE d == [b \in Block |-> Zeroed]
<1>1. d \in Device
  BY ZeroedAssumption DEF Device, Content
<1>2. engine = NewEngine(d) /\ disk = Synced(d) /\ phase = "up"
  BY InitBase DEF Init
<1>3. \A b \in Block : d[b] \in Page
  BY ZeroedAssumption
<1> HIDE DEF d
<1>4. (\A b \in Block : Logical(engine.pool, b) = d[b]) /\ DirtyBlocks(engine.pool) = {}
  BY <1>1, <1>2, NewEngineFacts
<1>5. \A b \in Block : disk[b] = {d[b]}
  BY <1>1, <1>2, SyncedFacts
<1> QED BY <1>2, <1>3, <1>4, <1>5 DEF Guard, OnePage

LEMMA StageGuard ==
  ASSUME Base, Guard, NEW b \in Block, NEW pg \in Page, Staged(b, pg)
  PROVE  Guard'
<1> DEFINE L == engine.wal.bytes
           M == engine'.wal.bytes
<1>1. EngineOK(engine) /\ LogOK(engine.wal) /\ kept \in Seq(Bytes)
  BY DEF Base, EngineOK, Numbered
<1>2. L \in Seq(Bytes) /\ DirtyBlocks(engine.pool) \subseteq Block
  BY <1>1, NumberedLog, DirtyAreBlocks
<1>3. phase = "up" /\ phase' = "up" /\ kept' = kept /\ disk' = disk
  BY DEF Staged, DeviceSame
<1>4. /\ \A c \in Block : Logical(engine.pool, c) \in Page
      /\ \A c \in DirtyBlocks(engine.pool) : Writes(L, c) # {}
      /\ \A c \in Block : Shields(kept, L, c) \/ OnePage(disk[c])
  BY <1>3 DEF Guard
<1>5. CASE /\ engine'.wal = append(engine.wal, "PageWrite", b, pg)
           /\ \A c \in Block : Logical(engine'.pool, c) =
                IF c = b THEN pg ELSE Logical(engine.pool, c)
           /\ DirtyBlocks(engine'.pool) \subseteq DirtyBlocks(engine.pool) \cup {b}
  <2> DEFINE r == Record(engine.wal, "PageWrite", b, pg)
  <2>1. "PageWrite" \in RecordKind /\ b \in Block \cup {NoBlock}
    BY DEF RecordKind
  <2>2. M = Append(L, r) /\ r \in WalRecord
    BY <1>1, <1>5, <2>1, AppendLog
  <2>3. r.kind = "PageWrite" /\ r.block = b
    BY DEF Record
  <2> HIDE DEF r, L, M
  <2>4. \A c \in Block : Shields(kept, L, c) => Shields(kept, M, c)
    BY <1>1, <1>2, <2>2, ShieldsAppend
  <2>5. \A c \in Block : Writes(M, c) = IF c = b THEN Writes(L, c) \cup {Len(L) + 1}
                                               ELSE Writes(L, c)
    BY <1>2, <2>2, <2>3, WritesAppend
  <2>6. \A c \in DirtyBlocks(engine'.pool) : Writes(M, c) # {}
    BY <1>2, <1>4, <1>5, <2>5
  <2>7. \A c \in Block : Logical(engine'.pool, c) \in Page
    BY <1>4, <1>5
  <2> QED BY <1>3, <1>4, <2>4, <2>6, <2>7 DEF Guard, M
<1>6. CASE LogSame /\ ImagesSame /\ DirtySame
  BY <1>3, <1>4, <1>6 DEF LogSame, ImagesSame, SameImages, DirtySame, Guard
<1> QED BY <1>5, <1>6, Zenon DEF Staged

LEMMA ConsultGuard ==
  ASSUME Base, Guard, Consulted
  PROVE  Guard'
BY DEF Consulted, DeviceSame, LogSame, ImagesSame, SameImages, DirtySame, Guard

LEMMA PersistGuard ==
  ASSUME Base, Guard, Persisted
  PROVE  Guard'
<1> DEFINE L == engine.wal.bytes
           M == Marked.bytes
<1>1. EngineOK(engine) /\ kept \in Seq(Bytes)
  BY DEF Base, Numbered
<1>2. /\ L \in Seq(Bytes) /\ M \in Seq(Bytes) /\ M \in Seq(WalRecord)
      /\ M # <<>> /\ IsCommit(M[Len(M)])
      /\ \E r \in WalRecord : M = Append(L, r) /\ r.kind = "Commit"
  BY <1>1, MarkedFacts
<1>3. phase = "up" /\ disk' = disk /\ engine'.pool = engine.pool
  BY DEF Persisted
<1>4. /\ \A c \in Block : Logical(engine.pool, c) \in Page
      /\ \A c \in DirtyBlocks(engine.pool) : Writes(L, c) # {}
      /\ \A c \in Block : Shields(kept, L, c) \/ OnePage(disk[c])
  BY <1>3 DEF Guard
<1>5. DirtyBlocks(engine.pool) \subseteq Block
  BY <1>1, DirtyAreBlocks
<1>6. CASE phase' = "flush" /\ engine'.wal = Marked /\ kept' = M
  <2> HIDE DEF L, M
  <2>1. PICK r \in WalRecord : M = Append(L, r) /\ r.kind = "Commit"
    BY <1>2
  <2>2. \A c \in Block : Writes(M, c) = Writes(L, c)
    BY <1>2, <2>1, WritesAppend
  <2>3. ASSUME NEW c \in Block, Shields(kept, L, c) PROVE Writes(L, c) # {}
    BY <2>3 DEF Shields, CommitAt
  <2>4. \A c \in Block : Shields(M, M, c) \/ OnePage(disk[c])
    BY <1>2, <1>4, <2>2, <2>3, ShieldsItself
  <2> QED BY <1>3, <1>4, <1>5, <1>6, <2>2, <2>4 DEF Guard, M
<1>7. CASE /\ phase' = "up" /\ LogSame
           /\ kept' = kept \/ kept' \in Partial(kept, M)
  <2>1. \A c \in Block : Shields(kept, L, c) => Shields(kept', L, c)
    <3> HIDE DEF L, M
    <3>1. CASE kept' = kept
      BY <3>1
    <3>2. CASE kept' \in Partial(kept, M)
      <4>1. PICK r \in WalRecord : M = Append(L, r)
        BY <1>2
      <4>2. r \in Bytes
        BY DEF Bytes
      <4>3. kept' \in Partial(kept, Append(L, r))
        BY <3>2, <4>1
      <4> QED BY <1>1, <1>2, <4>2, <4>3, ShieldsPartial
    <3> QED BY <1>7, <3>1, <3>2
  <2> QED BY <1>3, <1>4, <1>7, <2>1 DEF Guard, LogSame
<1> QED BY <1>6, <1>7, Zenon DEF Persisted

LEMMA FlushGuard ==
  ASSUME Base, Guard, WroteBack
  PROVE  Guard' /\ \A c \in Block : Writes(engine.wal.bytes, c) = {} => disk'[c] = disk[c]
<1> DEFINE L == engine.wal.bytes
           d == engine.pool.device
           e == engine'.pool.device
<1>1. /\ EngineOK(engine) /\ EngineOK(engine') /\ Caches(disk, d)
      /\ kept = L /\ L # <<>> /\ IsCommit(L[Len(L)])
  BY DEF Base, WroteBack
<1>2. d \in Device /\ e \in Device /\ DirtyBlocks(engine.pool) \subseteq Block
  BY <1>1, DeviceOfEngine, DirtyAreBlocks
<1>3. L \in Seq(WalRecord)
  BY <1>1, NumberedLog DEF EngineOK
<1>4. phase = "flush" /\ phase' = "up" /\ kept' = kept /\ LogSame /\ ImagesSame /\ DirtySame
  BY DEF WroteBack
<1>5. /\ \A c \in Block : Logical(engine.pool, c) \in Page
      /\ \A c \in DirtyBlocks(engine.pool) : Writes(L, c) # {}
      /\ \A c \in Block : Shields(kept, L, c) \/ OnePage(disk[c])
  BY <1>4 DEF Guard
<1>6. ASSUME NEW c \in Block, ~Shields(kept, L, c) PROVE e[c] = d[c] /\ disk'[c] = disk[c]
  <2>1. Writes(L, c) = {}
    BY <1>1, <1>3, <1>6, ShieldsItself
  <2>2. e[c] = d[c]
    BY <1>5, <2>1 DEF WroteBack
  <2>3. disk[c] = {d[c]}
    BY <1>1, <1>5, <1>6 DEF OnePage, Caches
  <2>4. CASE disk' = Synced(e)
    BY <1>2, <2>2, <2>3, <2>4, SyncedFacts
  <2>5. CASE disk' = Reaching(disk, d, e)
    BY <1>1, <1>2, <2>2, <2>5, ReachingFacts
  <2> QED BY <2>2, <2>4, <2>5 DEF WroteBack
<1>7. \A c \in Block : Shields(kept, L, c) \/ OnePage(disk'[c])
  BY <1>5, <1>6
<1>8. \A c \in Block : Writes(L, c) = {} => ~Shields(kept, L, c)
  BY DEF Shields, CommitAt
<1>9. Guard'
  BY <1>4, <1>5, <1>7 DEF LogSame, ImagesSame, SameImages, DirtySame, Guard
<1> QED BY <1>6, <1>8, <1>9

LEMMA EmptyGuard ==
  ASSUME Base, Guard, Emptied
  PROVE  Guard'
<1>1. EngineOK(engine) /\ WellFormed(engine.pool) /\ engine.pool.device \in Device
  BY DeviceOfEngine DEF Base, EngineOK
<1>2. /\ phase = "up" /\ phase' = "up" /\ disk' = disk /\ engine'.pool = engine.pool
      /\ disk = Synced(engine.pool.device) /\ DirtyBlocks(engine.pool) = {}
  BY DEF Emptied
<1>3. \A c \in Block : Logical(engine.pool, c) \in Page
  BY <1>2 DEF Guard
<1>4. \A c \in Block : Logical(engine.pool, c) = engine.pool.device[c]
  BY <1>1, <1>2, CleanImages
<1>5. \A c \in Block : OnePage(disk[c])
  BY <1>1, <1>2, <1>3, <1>4, SyncedFacts DEF OnePage
<1> QED BY <1>2, <1>3, <1>5 DEF Guard

LEMMA CrashGuard ==
  ASSUME Base, Guard, NEW d, Crashed(d)
  PROVE  Guard' /\ \A b \in Block : OnePage(disk[b]) => disk'[b] = disk[b]
<1>1. /\ phase # "down" /\ phase' = "down" /\ kept' = kept /\ d \in Device
      /\ (\A b \in Block : d[b] \in disk[b]) /\ disk' = Synced(d)
  BY DEF Crashed
<1>2. \A b \in Block : disk'[b] = {d[b]}
  BY <1>1, SyncedFacts
<1>3. engine.wal.bytes \in Seq(Bytes) /\ kept \in Seq(Bytes)
  BY NumberedLog DEF Base, EngineOK, Numbered
<1>4. \A b \in Block : Shields(kept, engine.wal.bytes, b) \/ OnePage(disk[b])
  BY <1>1 DEF Guard
<1>5. \A b \in Block : CommittedTo(kept, b) # {} \/ OnePage(disk[b])
  BY <1>3, <1>4, ShieldedIsCommitted
<1>6. \A b \in Block : OnePage(disk[b]) => disk'[b] = disk[b]
  BY <1>1, <1>2 DEF OnePage
<1> QED BY <1>1, <1>5, <1>6 DEF Guard

\* What recovery brings back is what a crash preserved.
Restored == \A b \in Block :
  /\ Recoverable(disk, kept, b) = {Logical(engine'.pool, b)}
  /\ CommittedTo(kept, b) = {} => disk'[b] = disk[b] /\ disk[b] = {Logical(engine'.pool, b)}

LEMMA RecoverGuard ==
  ASSUME Base, Guard, RecoverWrites \subseteq {"ok"},
         NEW out \in [Committed(kept) -> RecoverWrites], NEW d \in Device, Restarted(d, out)
  PROVE  Guard' /\ Restored
<1> DEFINE c == engine.pool.device
<1>1. /\ phase = "down" /\ phase' = "up" /\ kept' = kept
      /\ d = Replayed(c, kept, out) /\ Recovered(engine', d, kept)
      /\ disk' = Reaching(disk, c, d)
  BY DEF Restarted
<1>2. /\ c \in Device /\ kept \in Seq(Bytes) /\ Caches(disk, c) /\ disk = Synced(c)
  BY <1>1, DeviceOfEngine DEF Base, Numbered
<1>3. out \in [Committed(kept) -> WriteOutcome] /\ \A k \in Committed(kept) : out[k] = "ok"
  BY RecoverWritesAssumption
<1> HIDE DEF c
<1>4. \A b \in Block : d[b] = IF CommittedTo(kept, b) = {} THEN c[b]
                              ELSE kept[Max(CommittedTo(kept, b))].page
  BY <1>1, <1>2, <1>3, ReplayFacts
<1>5. /\ engine'.wal.bytes = Intact(kept) /\ DirtyBlocks(engine'.pool) = {}
      /\ \A b \in Block : Logical(engine'.pool, b) = d[b]
  BY <1>1 DEF Recovered
<1>6. \A b \in Block : disk[b] = {c[b]}
  BY <1>2, SyncedFacts
<1>7. ASSUME NEW b \in Block
      PROVE  /\ d[b] \in Page
             /\ CommittedTo(kept, b) # {} => Shields(kept, engine'.wal.bytes, b)
             /\ CommittedTo(kept, b) = {} => disk'[b] = disk[b] /\ disk[b] = {d[b]}
             /\ Recoverable(disk, kept, b) = {d[b]}
  <2>1. CASE CommittedTo(kept, b) # {}
    BY <1>2, <1>4, <1>5, <2>1, CommittedFacts, ShieldsIntact DEF Recoverable
  <2>2. CASE CommittedTo(kept, b) = {}
    <3>1. d[b] = c[b] /\ disk[b] = {d[b]} /\ OnePage(disk[b])
      BY <1>1, <1>4, <1>6, <2>2 DEF Guard
    <3>2. disk'[b] = disk[b]
      BY <1>1, <1>2, <3>1, ReachingFacts
    <3> QED BY <2>2, <3>1, <3>2 DEF OnePage, Recoverable
  <2> QED BY <2>1, <2>2
<1>8. \A b \in Block : Shields(kept, engine'.wal.bytes, b) \/ OnePage(disk'[b])
  BY <1>7 DEF OnePage
<1>9. Guard'
  BY <1>1, <1>5, <1>7, <1>8 DEF Guard
<1> QED BY <1>5, <1>7, <1>9 DEF Restored

LEMMA NextGuard ==
  ASSUME Base, Guard, RecoverWrites \subseteq {"ok"}, [Next]_vars
  PROVE  Guard'
<1>1. ASSUME NEW b \in Block, ReadPage(b) PROVE Guard'
  BY <1>1, ReadPageEffect, ConsultGuard
<1>2. ASSUME NEW b \in Block, NEW pg \in Page, WritePage(b, pg) PROVE Guard'
  BY <1>2, WritePageEffect, StageGuard
<1>3. CASE CommitPersist
  BY <1>3, CommitPersistEffect, PersistGuard
<1>4. CASE CommitFlush
  BY <1>4, CommitFlushEffect, FlushGuard
<1>5. CASE ResetWal
  BY <1>5, ResetWalEffect, EmptyGuard
<1>6. CASE Crash
  BY <1>6, CrashEffect, CrashGuard
<1>7. CASE Recover
  BY <1>7, RecoverEffect, RecoverGuard
<1>8. CASE UNCHANGED vars
  BY <1>8 DEF vars, Guard
<1> QED BY <1>1, <1>2, <1>3, <1>4, <1>5, <1>6, <1>7, <1>8 DEF Next

LEMMA GuardIsEnough ==
  ASSUME Base, Guard
  PROVE  OneDurableState
<1>1. kept \in Seq(Bytes) /\ phase \in {"up", "flush", "down"} /\ engine.wal.bytes \in Seq(Bytes)
  BY NumberedLog DEF Base, Numbered, EngineOK
<1>2. \A b \in Block : CommittedTo(kept, b) # {} \/ OnePage(disk[b])
  BY <1>1, ShieldedIsCommitted DEF Guard
<1>3. ASSUME NEW b \in Block PROVE \E pg \in Page : Durable(b) = {pg}
  <2>1. OnePage(Recoverable(disk, kept, b))
    BY <1>1, <1>2, RecoverableFacts
  <2> QED BY <2>1, Zenon DEF OnePage, Durable
<1> QED BY <1>3 DEF OneDurableState

\* When the writes of recover succeed, a crash at any instant leads to one
\* state all of whose pages are readable, even when a persist may fail half
\* way and whichever writes in flight reach the disk whole or torn: write_page
\* logs before it stages, the pool never steals, and pages go out only after
\* persist.
THEOREM CrashLeadsToOneState ==
  RecoverWrites \subseteq {"ok"} => (Spec => []OneDurableState)
<1> SUFFICES ASSUME RecoverWrites \subseteq {"ok"} PROVE Spec => []OneDurableState
  OBVIOUS
<1>1. Init => Base /\ Guard
  BY InitBase, InitGuard
<1>2. Base /\ Guard /\ [Next]_vars => (Base /\ Guard)'
  BY NextBase, NextGuard
<1>3. Base /\ Guard => OneDurableState
  BY GuardIsEnough
<1> QED BY <1>1, <1>2, <1>3, PTL DEF Spec

-----------------------------------------------------------------------------
\* The engine's log and the disk hold what readers see, and the kept log ends
\* in a commit marker: true as long as a persist that fails leaves no part of
\* the log behind.
Tracks ==
  /\ kept \in Seq(WalRecord)
  /\ kept = <<>> \/ IsCommit(kept[Len(kept)])
  /\ phase # "down" =>
       \A b \in Block : Newest(disk, engine.wal.bytes, b) = {Logical(engine.pool, b)}

\* The steps of AtomicStore that the engine's steps are.
Stutters == \A c \in Block : View(c)' = View(c) /\ Durable(c)' = Durable(c)
Stages(b, pg) == \A c \in Block : /\ View(c)' = IF c = b THEN pg ELSE View(c)
                                  /\ Durable(c)' = Durable(c)
Commits == \A c \in Block : View(c)' = View(c) /\ Durable(c)' = {View(c)}
FallsBack == \A c \in Block : Durable(c)' = Durable(c) /\ Durable(c)' = {View(c)'}

LEMMA OnlyMember ==
  ASSUME NEW S, NEW x, S = {x}
  PROVE  (CHOOSE c \in S : TRUE) = x
OBVIOUS

LEMMA StageTracks ==
  ASSUME Base, Tracks, NEW b \in Block, NEW pg \in Page, Staged(b, pg)
  PROVE  Tracks' /\ (Stages(b, pg) \/ Stutters)
<1> DEFINE L == engine.wal.bytes
           M == engine'.wal.bytes
<1>1. LogOK(engine.wal) /\ L \in Seq(Bytes)
  BY NumberedLog DEF Base, EngineOK
<1>2. phase = "up" /\ phase' = "up" /\ kept' = kept /\ disk' = disk
  BY DEF Staged, DeviceSame
<1>3. /\ kept \in Seq(WalRecord) /\ (kept = <<>> \/ IsCommit(kept[Len(kept)]))
      /\ \A c \in Block : Newest(disk, L, c) = {Logical(engine.pool, c)}
  BY <1>2 DEF Tracks
<1>4. \A c \in Block : Durable(c)' = Durable(c)
  BY <1>2 DEF Durable
<1>5. \A c \in Block : /\ View(c) = Logical(engine.pool, c)
                       /\ View(c)' = Logical(engine'.pool, c)
  BY <1>2 DEF View
<1>6. CASE /\ engine'.wal = append(engine.wal, "PageWrite", b, pg)
           /\ \A c \in Block : Logical(engine'.pool, c) =
                IF c = b THEN pg ELSE Logical(engine.pool, c)
  <2> DEFINE r == Record(engine.wal, "PageWrite", b, pg)
  <2>1. "PageWrite" \in RecordKind /\ b \in Block \cup {NoBlock}
    BY DEF RecordKind
  <2>2. M = Append(L, r) /\ r \in WalRecord
    BY <1>1, <1>6, <2>1, AppendLog
  <2>3. r.kind = "PageWrite" /\ r.block = b /\ r.page = pg
    BY DEF Record
  <2> HIDE DEF r, L, M
  <2>4. \A c \in Block : Newest(disk, M, c) = IF c = b THEN {pg} ELSE Newest(disk, L, c)
    BY <1>1, <2>2, <2>3, NewestAppend
  <2>5. \A c \in Block : Newest(disk, M, c) = {Logical(engine'.pool, c)}
    BY <1>3, <1>6, <2>4
  <2>6. Tracks'
    BY <1>2, <1>3, <2>5 DEF Tracks, M
  <2>7. Stages(b, pg)
    BY <1>4, <1>5, <1>6, Zenon DEF Stages
  <2> QED BY <2>6, <2>7
<1>7. CASE LogSame /\ ImagesSame
  <2>1. Tracks'
    BY <1>2, <1>3, <1>7 DEF LogSame, ImagesSame, SameImages, Tracks
  <2>2. Stutters
    BY <1>4, <1>5, <1>7 DEF ImagesSame, SameImages, Stutters
  <2> QED BY <2>1, <2>2
<1> QED BY <1>6, <1>7, Zenon DEF Staged

LEMMA ConsultTracks ==
  ASSUME Tracks, Consulted
  PROVE  Tracks' /\ Stutters
<1>1. /\ phase = "up" /\ phase' = "up" /\ kept' = kept /\ disk' = disk
      /\ LogSame /\ ImagesSame
  BY DEF Consulted, DeviceSame
<1>2. Tracks'
  BY <1>1 DEF LogSame, ImagesSame, SameImages, Tracks
<1>3. Stutters
  BY <1>1 DEF ImagesSame, SameImages, Stutters, View, Durable
<1> QED BY <1>2, <1>3

LEMMA PersistTracks ==
  ASSUME Base, Tracks, Persisted, ~PersistTears
  PROVE  Tracks' /\ (phase' = "flush" => Commits) /\ (phase' # "flush" => Stutters)
<1> DEFINE L == engine.wal.bytes
           M == Marked.bytes
<1>1. EngineOK(engine)
  BY DEF Base
<1>2. /\ L \in Seq(Bytes) /\ M \in Seq(WalRecord)
      /\ M # <<>> /\ IsCommit(M[Len(M)])
      /\ \E r \in WalRecord : M = Append(L, r) /\ r.kind = "Commit"
  BY <1>1, MarkedFacts
<1>3. phase = "up" /\ disk' = disk /\ engine'.pool = engine.pool /\ phase' \in {"up", "flush"}
  BY DEF Persisted
<1>4. /\ kept \in Seq(WalRecord) /\ (kept = <<>> \/ IsCommit(kept[Len(kept)]))
      /\ \A c \in Block : Newest(disk, L, c) = {Logical(engine.pool, c)}
  BY <1>3 DEF Tracks
<1>5. \A c \in Block : View(c) = Logical(engine.pool, c) /\ View(c)' = View(c)
  BY <1>3 DEF View
<1>6. CASE phase' = "flush" /\ engine'.wal = Marked /\ kept' = M
  <2> HIDE DEF L, M
  <2>1. PICK r \in WalRecord : M = Append(L, r) /\ r.kind = "Commit"
    BY <1>2
  <2>2. \A c \in Block : Newest(disk, M, c) = Newest(disk, L, c)
    BY <1>2, <2>1, NewestAppend
  <2>3. \A c \in Block : Recoverable(disk, M, c) = Newest(disk, M, c)
    BY <1>2, NewestSealed
  <2>4. Commits
    BY <1>3, <1>4, <1>5, <1>6, <2>2, <2>3 DEF Commits, Durable
  <2>5. Tracks'
    BY <1>2, <1>3, <1>4, <1>6, <2>2 DEF Tracks, M
  <2> QED BY <1>6, <2>4, <2>5
<1>7. CASE phase' = "up" /\ LogSame /\ kept' = kept
  <2>1. Tracks'
    BY <1>3, <1>4, <1>7 DEF LogSame, Tracks
  <2>2. Stutters
    BY <1>3, <1>5, <1>7 DEF Stutters, Durable
  <2> QED BY <1>7, <2>1, <2>2
<1> QED BY <1>6, <1>7, Zenon DEF Persisted

LEMMA FlushTracks ==
  ASSUME Base, Guard, Tracks, WroteBack
  PROVE  Tracks' /\ Stutters
<1> DEFINE L == engine.wal.bytes
<1>1. phase = "flush" /\ phase' = "up" /\ kept' = kept /\ LogSame /\ ImagesSame
  BY DEF WroteBack
<1>2. kept = L
  BY <1>1 DEF Base
<1>3. \A c \in Block : Writes(L, c) = {} => disk'[c] = disk[c]
  BY FlushGuard
<1>4. /\ kept \in Seq(WalRecord) /\ (kept = <<>> \/ IsCommit(kept[Len(kept)]))
      /\ \A c \in Block : Newest(disk, L, c) = {Logical(engine.pool, c)}
  BY <1>1 DEF Tracks
<1>5. \A c \in Block : Newest(disk', L, c) = Newest(disk, L, c)
  BY <1>3 DEF Newest
<1>6. Tracks'
  BY <1>1, <1>4, <1>5 DEF LogSame, ImagesSame, SameImages, Tracks
<1>7. \A c \in Block : /\ Recoverable(disk, kept, c) = Newest(disk, kept, c)
                       /\ Recoverable(disk', kept, c) = Newest(disk', kept, c)
  BY <1>4, NewestSealed
<1>8. \A c \in Block : Durable(c)' = Durable(c)
  BY <1>1, <1>2, <1>5, <1>7 DEF Durable
<1>9. \A c \in Block : View(c)' = View(c)
  BY <1>1 DEF View, ImagesSame, SameImages
<1> QED BY <1>6, <1>8, <1>9 DEF Stutters

LEMMA EmptyTracks ==
  ASSUME Base, Tracks, Emptied
  PROVE  Tracks' /\ Stutters
<1>1. EngineOK(engine) /\ WellFormed(engine.pool) /\ engine.pool.device \in Device
  BY DeviceOfEngine DEF Base, EngineOK
<1>2. /\ phase = "up" /\ phase' = "up" /\ disk' = disk /\ engine'.pool = engine.pool
      /\ kept' = kept /\ engine'.wal = NewWal
      /\ disk = Synced(engine.pool.device) /\ DirtyBlocks(engine.pool) = {}
  BY DEF Emptied
<1>3. \A c \in Block : disk[c] = {Logical(engine.pool, c)}
  BY <1>1, <1>2, CleanImages, SyncedFacts
<1>4. \A c \in Block : Writes(NewWal.bytes, c) = {}
  BY NewLog DEF Writes
<1>5. Tracks'
  BY <1>2, <1>3, <1>4 DEF Newest, Tracks
<1>6. Stutters
  BY <1>2 DEF Stutters, View, Durable
<1> QED BY <1>5, <1>6

LEMMA CrashTracks ==
  ASSUME Base, Guard, Tracks, NEW d, Crashed(d)
  PROVE  Tracks' /\ FallsBack
<1>1. phase # "down" /\ phase' = "down" /\ kept' = kept
  BY DEF Crashed
<1>2. Tracks'
  BY <1>1 DEF Tracks
<1>3. engine.wal.bytes \in Seq(Bytes) /\ kept \in Seq(Bytes)
  BY NumberedLog DEF Base, EngineOK, Numbered
<1>4. \A c \in Block : CommittedTo(kept, c) # {} \/ OnePage(disk[c])
  BY <1>1, <1>3, ShieldedIsCommitted DEF Guard
<1>5. \A c \in Block : OnePage(disk[c]) => disk'[c] = disk[c]
  BY CrashGuard
<1>6. ASSUME NEW c \in Block PROVE Durable(c)' = Durable(c) /\ OnePage(Durable(c))
  <2>1. Recoverable(disk', kept, c) = Recoverable(disk, kept, c)
    BY <1>4, <1>5 DEF Recoverable
  <2>2. OnePage(Recoverable(disk, kept, c))
    BY <1>3, <1>4, RecoverableFacts
  <2> QED BY <1>1, <2>1, <2>2, Zenon DEF Durable
<1>7. ASSUME NEW c \in Block PROVE Durable(c)' = {View(c)'}
  <2>1. PICK pg : Durable(c)' = {pg}
    BY <1>6 DEF OnePage
  <2>2. View(c)' = CHOOSE x \in Durable(c)' : TRUE
    BY <1>1, Zenon DEF View
  <2>3. View(c)' = pg
    BY <2>1, <2>2, OnlyMember, Zenon
  <2> QED BY <2>1, <2>3
<1> QED BY <1>2, <1>6, <1>7 DEF FallsBack

LEMMA RecoverTracks ==
  ASSUME Base, Guard, Tracks, RecoverWrites \subseteq {"ok"},
         NEW out \in [Committed(kept) -> RecoverWrites], NEW d \in Device, Restarted(d, out)
  PROVE  Tracks' /\ Stutters
<1>1. phase = "down" /\ phase' = "up" /\ kept' = kept /\ Recovered(engine', d, kept)
  BY DEF Restarted
<1>2. kept \in Seq(WalRecord) /\ (kept = <<>> \/ IsCommit(kept[Len(kept)]))
  BY DEF Tracks
<1>3. Restored
  BY RecoverGuard
<1>4. \A c \in Block : CommittedTo(kept, c) = Writes(kept, c)
  BY <1>2, SealedLog
<1>5. engine'.wal.bytes = kept
  BY <1>1, <1>2, SealedLog DEF Recovered
<1>6. \A c \in Block : Recoverable(disk', kept, c) = Recoverable(disk, kept, c)
  BY <1>3 DEF Restored, Recoverable
<1>7. \A c \in Block : Newest(disk', kept, c) = {Logical(engine'.pool, c)}
  BY <1>2, <1>3, <1>6, NewestSealed DEF Restored
<1>8. Tracks'
  BY <1>1, <1>2, <1>5, <1>7 DEF Tracks
<1>9. \A c \in Block : Durable(c)' = Durable(c) /\ Durable(c) = {Logical(engine'.pool, c)}
  BY <1>1, <1>3, <1>6, Zenon DEF Durable, Restored
<1>10. ASSUME NEW c \in Block PROVE View(c)' = View(c)
  <2>1. View(c)' = Logical(engine'.pool, c)
    BY <1>1 DEF View
  <2>2. View(c) = CHOOSE x \in Durable(c) : TRUE
    BY <1>1, Zenon DEF View
  <2>3. View(c) = Logical(engine'.pool, c)
    BY <1>9, <2>2, OnlyMember, Zenon
  <2> QED BY <2>1, <2>3
<1> QED BY <1>8, <1>9, <1>10 DEF Stutters

LEMMA InitTracks == Init => Tracks
<1> SUFFICES ASSUME Init PROVE Tracks
  OBVIOUS
<1> DEFINE d == [b \in Block |-> Zeroed]
<1>1. d \in Device
  BY ZeroedAssumption DEF Device, Content
<1>2. engine = NewEngine(d) /\ disk = Synced(d) /\ kept = <<>>
  BY InitBase DEF Init
<1> HIDE DEF d
<1>3. (\A b \in Block : Logical(engine.pool, b) = d[b]) /\ engine.wal = NewWal
  BY <1>1, <1>2, NewEngineFacts
<1>4. \A b \in Block : disk[b] = {d[b]}
  BY <1>1, <1>2, SyncedFacts
<1>5. \A b \in Block : Writes(NewWal.bytes, b) = {}
  BY NewLog DEF Writes
<1> QED BY <1>2, <1>3, <1>4, <1>5, EmptySeq DEF Tracks, Newest

-----------------------------------------------------------------------------
\* The refinement: initial states map to initial states, and every step to a
\* step of AtomicStore or a stutter.
LEMMA MapsInit ==
  ASSUME Init, Base, Guard, Tracks
  PROVE  Abstract!Init
<1>1. phase = "up" /\ kept = <<>>
  BY DEF Init
<1>2. \A b \in Block : View(b) = Logical(engine.pool, b) /\ View(b) \in Page
  BY <1>1 DEF View, Guard
<1>3. ASSUME NEW b \in Block PROVE Durable(b) = {View(b)}
  <2>1. kept \in Seq(WalRecord) /\ (kept = <<>> \/ IsCommit(kept[Len(kept)]))
    BY DEF Tracks
  <2>2. Recoverable(disk, kept, b) = Newest(disk, kept, b)
    BY <2>1, NewestSealed
  <2>3. Writes(kept, b) = {} /\ Writes(engine.wal.bytes, b) = {}
    <3>1. engine.wal = NewWal
      <4>1. [c \in Block |-> Zeroed] \in Device
        BY ZeroedAssumption DEF Device, Content
      <4> QED BY <4>1, NewEngineFacts DEF Init
    <3> QED BY <1>1, <3>1, NewLog DEF Writes
  <2>4. disk[b] = {Logical(engine.pool, b)}
    BY <1>1, <2>3 DEF Tracks, Newest
  <2> QED BY <1>2, <2>2, <2>3, <2>4 DEF Newest, Durable
<1>4. \A b \in Block : (CHOOSE c \in Durable(b) : TRUE) = View(b)
  BY <1>3, OnlyMember, Zenon
<1>5. [b \in Block |-> CHOOSE c \in Durable(b) : TRUE] = [b \in Block |-> View(b)]
  BY <1>4, Zenon
<1>6. [b \in Block |-> View(b)] \in [Block -> Page]
  BY <1>2
<1> QED BY <1>5, <1>6, Zenon DEF Abstract!Init

\* The image of block b after a crash.
Preserved(b) == CHOOSE c \in Durable(b) : TRUE

LEMMA MapsSteps ==
  /\ Stutters => UNCHANGED Abstract!vars
  /\ \A b \in Block, pg \in Page : Stages(b, pg) => Abstract!Write(b, pg)
  /\ Commits => Abstract!Commit
  /\ FallsBack => Abstract!Crash
<1> DEFINE V == [b \in Block |-> View(b)]
           C == [b \in Block |-> CHOOSE c \in Durable(b) : TRUE]
<1>1. ASSUME \A c \in Block : Durable(c)' = Durable(c) PROVE C' = C
  <2>1. \A b \in Block : Preserved(b)' = Preserved(b)
    BY <1>1 DEF Preserved
  <2>2. [b \in Block |-> Preserved(b)]' = [b \in Block |-> Preserved(b)]
    BY <2>1, Zenon
  <2> QED BY <2>2, Zenon DEF Preserved
<1>2. ASSUME \A c \in Block : View(c)' = View(c) PROVE V' = V
  BY <1>2, Zenon
<1>3. Stutters => UNCHANGED Abstract!vars
  BY <1>1, <1>2, Zenon DEF Stutters, Abstract!vars
<1>4. ASSUME NEW b \in Block, NEW pg \in Page, Stages(b, pg) PROVE Abstract!Write(b, pg)
  <2>1. V' = [V EXCEPT ![b] = pg]
    BY <1>4 DEF Stages
  <2>2. C' = C
    BY <1>1, <1>4, Zenon DEF Stages
  <2> QED BY <2>1, <2>2, Zenon DEF Abstract!Write
<1>5. ASSUME Commits PROVE Abstract!Commit
  <2>1. V' = V
    BY <1>2, <1>5, Zenon DEF Commits
  <2>2. \A c \in Block : (CHOOSE x \in Durable(c)' : TRUE) = View(c)
    BY <1>5, OnlyMember, Zenon DEF Commits
  <2>3. C' = V
    BY <2>2, Zenon
  <2> QED BY <2>1, <2>3, Zenon DEF Abstract!Commit
<1>6. ASSUME FallsBack PROVE Abstract!Crash
  <2>1. C' = C
    BY <1>1, <1>6, Zenon DEF FallsBack
  <2>2. \A c \in Block : (CHOOSE x \in Durable(c)' : TRUE) = View(c)'
    BY <1>6, OnlyMember, Zenon DEF FallsBack
  <2>3. V' = C'
    BY <2>2, Zenon
  <2> QED BY <2>1, <2>3, Zenon DEF Abstract!Crash
<1> QED BY <1>3, <1>4, <1>5, <1>6

\* What the step of each action is to the abstract store.
Maps == \/ Stutters \/ Commits \/ FallsBack
        \/ \E b \in Block, pg \in Page : Stages(b, pg)

LEMMA NextTracks ==
  ASSUME Base, Guard, Tracks, RecoverWrites \subseteq {"ok"}, ~PersistTears, [Next]_vars
  PROVE  Tracks' /\ Maps
<1>1. ASSUME NEW b \in Block, ReadPage(b) PROVE Tracks' /\ Maps
  BY <1>1, ReadPageEffect, ConsultTracks DEF Maps
<1>2. ASSUME NEW b \in Block, NEW pg \in Page, WritePage(b, pg) PROVE Tracks' /\ Maps
  <2>1. Tracks' /\ (Stages(b, pg) \/ Stutters)
    BY <1>2, WritePageEffect, StageTracks
  <2> QED BY <2>1 DEF Maps
<1>3. CASE CommitPersist
  BY <1>3, CommitPersistEffect, PersistTracks DEF Maps
<1>4. CASE CommitFlush
  BY <1>4, CommitFlushEffect, FlushTracks DEF Maps
<1>5. CASE ResetWal
  BY <1>5, ResetWalEffect, EmptyTracks DEF Maps
<1>6. CASE Crash
  BY <1>6, CrashEffect, CrashTracks DEF Maps
<1>7. CASE Recover
  BY <1>7, RecoverEffect, RecoverTracks DEF Maps
<1>8. CASE UNCHANGED vars
  BY <1>8 DEF vars, Tracks, Maps, Stutters, View, Durable
<1> QED BY <1>1, <1>2, <1>3, <1>4, <1>5, <1>6, <1>7, <1>8 DEF Next

\* When the writes of recover succeed and a persist that fails leaves the old
\* log in place, the engine implements AtomicStore: the writes of a batch
\* become durable together when persist returns, and a crash at any instant,
\* followed by recover, takes the store back to the last such instant.
THEOREM EngineImplementsAtomicStore ==
  RecoverWrites \subseteq {"ok"} /\ ~PersistTears => (Spec => ImplementsAtomicStore)
<1> SUFFICES ASSUME RecoverWrites \subseteq {"ok"}, ~PersistTears
             PROVE  Spec => Abstract!Spec
  BY DEF ImplementsAtomicStore
<1> DEFINE Inv == Base /\ Guard /\ Tracks
<1>1. Init => Inv /\ Abstract!Init
  BY InitBase, InitGuard, InitTracks, MapsInit
<1>2. Inv /\ [Next]_vars => Inv'
  BY NextBase, NextGuard, NextTracks
<1>3. Inv /\ [Next]_vars => [Abstract!Next]_(Abstract!vars)
  BY NextTracks, MapsSteps DEF Maps, Abstract!Next
<1> QED BY <1>1, <1>2, <1>3, PTL DEF Spec, Abstract!Spec

LEMMA OnlyPersistCommits ==
  ASSUME [Next]_vars, phase = "up", phase' = "flush"
  PROVE  CommitPersist
<1>1. ASSUME NEW b \in Block, ReadPage(b) PROVE FALSE
  BY <1>1 DEF ReadPage
<1>2. ASSUME NEW b \in Block, NEW pg \in Page, WritePage(b, pg) PROVE FALSE
  BY <1>2 DEF WritePage
<1>3. ~CommitFlush /\ ~ResetWal /\ ~Crash /\ ~Recover /\ ~UNCHANGED vars
  BY DEF CommitFlush, ResetWal, Crash, Recover, vars
<1> QED BY <1>1, <1>2, <1>3 DEF Next

\* Under the same assumptions, when persist returns a crash preserves exactly
\* what readers saw: no page write that an earlier recovery dropped comes
\* back.  A persist that leaves part of the log behind breaks this.
THEOREM CommitIsWhatReadersSaw ==
  RecoverWrites \subseteq {"ok"} /\ ~PersistTears => (Spec => CommitMakesViewDurable)
<1> SUFFICES ASSUME RecoverWrites \subseteq {"ok"}, ~PersistTears
             PROVE  Spec => CommitMakesViewDurable
  OBVIOUS
<1> DEFINE Inv == Base /\ Guard /\ Tracks
<1>1. Init => Inv
  BY InitBase, InitGuard, InitTracks
<1>2. Inv /\ [Next]_vars => Inv'
  BY NextBase, NextGuard, NextTracks
<1>3. Inv /\ [Next]_vars =>
        [phase = "up" /\ phase' = "flush" => \A b \in Block : Durable(b)' = {View(b)}]_vars
  BY OnlyPersistCommits, CommitPersistEffect, PersistTracks DEF Commits
<1> QED BY <1>1, <1>2, <1>3, PTL DEF Spec, CommitMakesViewDurable
=============================================================================
