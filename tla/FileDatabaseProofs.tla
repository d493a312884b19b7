------------------------- MODULE FileDatabaseProofs -------------------------
(***************************************************************************)
(* Durability of the file database: acknowledged puts survive a crash at   *)
(* any point of put and open, and readers are never given an older image.  *)
(***************************************************************************)
EXTENDS FileDatabase, StorageLemmas, TLAPS

\* What holds whatever recover does and however the process ends.  Inside a put
\* the log ends in the page record of that put and its commit marker.
LastPut(t, p) ==
  /\ Len(t) > 1 /\ IsCommit(t[Len(t)])
  /\ t[Len(t) - 1].kind = "PageWrite"
  /\ t[Len(t) - 1].block = p.block /\ t[Len(t) - 1].page = p.page

InPut == phase \in {"persist", "flush"}
Opening == phase \in {"closed", "sync", "truncate"}

Base ==
  /\ EngineOK(engine)
  /\ Caches(disk, engine.pool.device)
  /\ wal_file \in wal_disk /\ \A u \in wal_disk : Numbered(u)
  /\ phase \in {"up", "persist", "flush", "closed", "sync", "truncate"}
  /\ maybe \in [Block -> SUBSET Page]
  /\ IF InPut THEN /\ putting.block \in Block /\ putting.page \in Page
                   /\ LastPut(engine.wal.bytes, putting)
              ELSE putting = NoPut
  /\ Opening => Bare(engine.pool)
  /\ phase = "closed" => /\ engine.wal = NewWal
                         /\ engine.pool.frames = <<>> /\ engine.pool.lru = <<>>

\* What each action does, in terms of images, the device and the log.
LogSame == engine'.wal = engine.wal
ImagesSame == SameImages(engine.pool, engine'.pool)
DirtySame == DirtyBlocks(engine'.pool) \subseteq DirtyBlocks(engine.pool)
DeviceSame == engine'.pool.device = engine.pool.device /\ disk' = disk
SidecarSame == wal_file' = wal_file /\ wal_disk' = wal_disk

Begun(b, pg) ==
  /\ phase' = "persist" /\ putting' = [block |-> b, page |-> pg]
  /\ maybe' = [maybe EXCEPT ![b] = @ \cup {pg}]
  /\ PutLogged(engine.wal.bytes, engine'.wal.bytes, b, pg)
  /\ \A c \in Block : Logical(engine'.pool, c) = IF c = b THEN pg ELSE Logical(engine.pool, c)
  /\ DirtyBlocks(engine'.pool) \subseteq DirtyBlocks(engine.pool) \cup {b}

Idle == /\ phase' = "up" /\ putting' = putting /\ maybe' = maybe
        /\ LogSame /\ ImagesSame /\ DirtySame

Staged(b, pg) ==
  /\ phase = "up" /\ EngineOK(engine') /\ DeviceSame /\ SidecarSame
  /\ Begun(b, pg) \/ Idle

Consulted == phase = "up" /\ EngineOK(engine') /\ DeviceSame /\ SidecarSame /\ Idle

WroteBack ==
  /\ phase = "flush" /\ phase' = "up" /\ putting' = NoPut /\ SidecarSame
  /\ EngineOK(engine') /\ LogSame /\ ImagesSame /\ DirtySame
  /\ \A c \in Block : c \notin DirtyBlocks(engine.pool) =>
       engine'.pool.device[c] = engine.pool.device[c]
  /\ \/ /\ disk' = Synced(engine'.pool.device)
        /\ maybe' = [maybe EXCEPT ![putting.block] = {putting.page}]
     \/ /\ disk' = Reaching(disk, engine.pool.device, engine'.pool.device)
        /\ maybe' = maybe

LEMMA PutWriteEffect ==
  ASSUME Base, NEW b \in Block, NEW pg \in Page, PutWrite(b, pg)
  PROVE  Staged(b, pg)
<1>1. PICK rd :
        LET r == write_page(engine, b, pg, rd) IN
        /\ disk' = Reaching(disk, engine.pool.device, r.engine.pool.device)
        /\ IF r.ok
           THEN /\ engine' = append_commit(r.engine)
                /\ phase' = "persist"
                /\ putting' = [block |-> b, page |-> pg]
                /\ maybe' = [maybe EXCEPT ![b] = @ \cup {pg}]
           ELSE engine' = r.engine /\ phase' = phase /\ putting' = putting /\ maybe' = maybe
  BY Zenon DEF PutWrite
<1>2. phase = "up" /\ SidecarSame
  BY DEF PutWrite, SidecarSame
<1>3. EngineOK(engine) /\ Caches(disk, engine.pool.device)
  BY DEF Base
<1> DEFINE r == write_page(engine, b, pg, rd)
           e == r.engine
<1>4. Wrote(engine, r, b, pg)
  BY <1>3, WritePageFacts
<1>5. /\ disk' = Reaching(disk, engine.pool.device, e.pool.device)
      /\ r.ok = TRUE => /\ engine' = append_commit(e)
                        /\ phase' = "persist" /\ putting' = [block |-> b, page |-> pg]
                        /\ maybe' = [maybe EXCEPT ![b] = @ \cup {pg}]
      /\ r.ok = FALSE => engine' = e /\ phase' = phase /\ putting' = putting /\ maybe' = maybe
  BY <1>1
<1> HIDE DEF r
<1>6. EngineOK(e) /\ e.pool.device = engine.pool.device
  BY <1>4, Zenon DEF Wrote
<1>7. disk' = disk
  BY <1>3, <1>5, <1>6, DeviceOfEngine, ReachingFacts
<1>8. CASE /\ r.ok = TRUE
           /\ e.wal = append(engine.wal, "PageWrite", b, pg)
           /\ \A c \in Block : Logical(e.pool, c) = IF c = b THEN pg ELSE Logical(engine.pool, c)
           /\ DirtyBlocks(e.pool) \subseteq DirtyBlocks(engine.pool) \cup {b}
  <2> DEFINE q == Record(engine.wal, "PageWrite", b, pg)
  <2>1. LogOK(engine.wal) /\ "PageWrite" \in RecordKind /\ b \in Block \cup {NoBlock}
    BY <1>3 DEF EngineOK, RecordKind
  <2>2. e.wal.bytes = Append(engine.wal.bytes, q) /\ q \in WalRecord
    BY <1>8, <2>1, AppendLog
  <2>3. q.kind = "PageWrite" /\ q.block = b /\ q.page = pg
    BY DEF Record
  <2> HIDE DEF q, e
  <2>4. engine' = append_commit(e)
    BY <1>5, <1>8
  <2>5. EngineOK(engine') /\ engine'.pool = e.pool
    BY <1>6, <2>4, MarkFacts, Zenon
  <2>6. \E c \in WalRecord : c.kind = "Commit" /\ engine'.wal.bytes = Append(e.wal.bytes, c)
    BY <1>6, <2>4, MarkFacts, Zenon
  <2>7. PutLogged(engine.wal.bytes, engine'.wal.bytes, b, pg)
    BY <2>2, <2>3, <2>6, Zenon DEF PutLogged
  <2>8. Begun(b, pg)
    BY <1>5, <1>8, <2>5, <2>7 DEF Begun
  <2> QED BY <1>2, <1>6, <1>7, <2>5, <2>8 DEF Staged, DeviceSame
<1>9. CASE /\ r.ok = FALSE /\ e.wal = engine.wal /\ SameImages(engine.pool, e.pool)
           /\ DirtyBlocks(e.pool) \subseteq DirtyBlocks(engine.pool)
  BY <1>2, <1>5, <1>6, <1>7, <1>9 DEF Staged, DeviceSame, Idle, LogSame, ImagesSame, DirtySame
<1> QED BY <1>4, <1>8, <1>9, Zenon DEF Wrote

LEMMA GetEffect ==
  ASSUME Base, NEW b \in Block, get(b)
  PROVE  Consulted
<1>1. PICK rd : /\ engine' = [engine EXCEPT !.pool = read_page(engine, b, rd).pool]
                /\ disk' = Reaching(disk, engine.pool.device, read_page(engine, b, rd).pool.device)
  BY Zenon DEF get
<1>2. phase = "up" /\ phase' = "up" /\ SidecarSame /\ putting' = putting /\ maybe' = maybe
  BY DEF get, SidecarSame
<1>3. EngineOK(engine) /\ Caches(disk, engine.pool.device)
  BY DEF Base
<1> DEFINE q == read_page(engine, b, rd).pool
<1>4. WellFormed(q) /\ q.steal = FALSE /\ SameImages(engine.pool, q) /\ Quiet(engine.pool, q)
  BY <1>3, ReadPageFacts, Zenon
<1> HIDE DEF q
<1>5. /\ EngineOK([engine EXCEPT !.pool = q]) /\ [engine EXCEPT !.pool = q].pool = q
      /\ [engine EXCEPT !.pool = q].wal = engine.wal
  BY <1>3, <1>4, ReplacePool, Zenon
<1>6. engine' = [engine EXCEPT !.pool = q] /\ disk' = Reaching(disk, engine.pool.device, q.device)
  BY <1>1, Zenon DEF q
<1>7. EngineOK(engine') /\ engine'.pool = q /\ LogSame
  BY <1>5, <1>6, Zenon DEF LogSame
<1>8. engine'.pool.device = engine.pool.device /\ disk' = disk
  BY <1>3, <1>4, <1>6, <1>7, DeviceOfEngine, ReachingFacts DEF Quiet
<1>9. ImagesSame /\ DirtySame
  BY <1>4, <1>7, Zenon DEF ImagesSame, DirtySame, Quiet
<1> QED BY <1>2, <1>7, <1>8, <1>9, Zenon DEF Consulted, DeviceSame, Idle

LEMMA PutFlushEffect ==
  ASSUME Base, PutFlush
  PROVE  WroteBack
<1>1. PICK upto, wr :
        LET p == flush_writes(engine.pool, upto, wr) IN
        /\ engine' = [engine EXCEPT !.pool = p]
        /\ \/ /\ disk' = Synced(p.device)
              /\ maybe' = [maybe EXCEPT ![putting.block] = {putting.page}]
           \/ /\ disk' = Reaching(disk, engine.pool.device, p.device)
              /\ maybe' = maybe
  BY Zenon DEF PutFlush
<1>2. phase = "flush" /\ phase' = "up" /\ putting' = NoPut /\ SidecarSame
  BY DEF PutFlush, SidecarSame
<1>3. EngineOK(engine)
  BY DEF Base
<1> DEFINE q == flush_writes(engine.pool, upto, wr)
<1>4. Cleaned(engine.pool, q)
  BY <1>3, FlushFacts, Zenon
<1> HIDE DEF q
<1>5. /\ EngineOK([engine EXCEPT !.pool = q]) /\ [engine EXCEPT !.pool = q].pool = q
      /\ [engine EXCEPT !.pool = q].wal = engine.wal
  BY <1>3, <1>4, ReplacePool, Zenon DEF Cleaned
<1>6. /\ engine' = [engine EXCEPT !.pool = q]
      /\ \/ /\ disk' = Synced(q.device)
            /\ maybe' = [maybe EXCEPT ![putting.block] = {putting.page}]
         \/ disk' = Reaching(disk, engine.pool.device, q.device) /\ maybe' = maybe
  BY <1>1, Zenon DEF q
<1>7. EngineOK(engine') /\ engine'.pool = q /\ LogSame
  BY <1>5, <1>6, Zenon DEF LogSame
<1> QED BY <1>2, <1>4, <1>6, <1>7, Zenon DEF Cleaned, WroteBack, ImagesSame, DirtySame

\* A handle is dropped, or a crash ends it, and leaves data file d.
Fresh(d) ==
  /\ phase' = "closed" /\ putting' = NoPut
  /\ EngineOK(engine') /\ engine'.pool.device = d /\ engine'.wal = NewWal
  /\ engine'.pool.frames = <<>> /\ engine'.pool.lru = <<>> /\ Bare(engine'.pool)

LEMMA FreshEngine ==
  ASSUME NEW d \in Device, engine' = NewEngine(d), phase' = "closed", putting' = NoPut
  PROVE  Fresh(d)
BY NewEngineFacts DEF Fresh, Bare

Dropped == Fresh(engine.pool.device) /\ disk' = disk /\ maybe' = maybe

LEMMA DroppedEngine ==
  ASSUME Base, engine' = NewEngine(engine.pool.device), phase' = "closed", putting' = NoPut,
         disk' = disk, maybe' = maybe
  PROVE  Dropped
BY FreshEngine, DeviceOfEngine DEF Base, Dropped

Crashed(d) ==
  /\ d \in Device /\ \A b \in Block : d[b] \in disk[b]
  /\ Fresh(d) /\ disk' = Synced(d)
  /\ wal_file' \in wal_disk /\ wal_disk' = {wal_file'}
  /\ maybe' = [b \in Block |-> maybe[b] \cap Durable(b)']

LEMMA CrashEffect ==
  ASSUME Crash
  PROVE  \E d : Crashed(d)
<1>1. PICK d \in Device : /\ \A b \in Block : d[b] \in disk[b]
                          /\ engine' = NewEngine(d) /\ disk' = Synced(d)
  BY DEF Crash
<1>2. /\ phase' = "closed" /\ putting' = NoPut
      /\ wal_file' \in wal_disk /\ wal_disk' = {wal_file'}
      /\ maybe' = [b \in Block |-> maybe[b] \cap Durable(b)']
  BY Zenon DEF Crash
<1>3. Fresh(d)
  BY <1>1, <1>2, FreshEngine
<1> QED BY <1>1, <1>2, <1>3, Zenon DEF Crashed

\* Opening an empty sidecar, and replaying one into data file d.
Opened ==
  /\ phase = "closed" /\ phase' = "up" /\ wal_file = <<>>
  /\ engine' = engine /\ disk' = disk
  /\ SidecarSame /\ putting' = putting /\ maybe' = maybe

Restarted(d, out) ==
  /\ phase = "closed" /\ phase' = "sync" /\ wal_file # <<>>
  /\ d = Replayed(engine.pool.device, wal_file, out)
  /\ Recovered(engine', d, wal_file)
  /\ disk' = Reaching(disk, engine.pool.device, d)
  /\ SidecarSame /\ putting' = putting /\ maybe' = maybe

LEMMA OpenRecoverEffect ==
  ASSUME Base, OpenRecover
  PROVE  \/ Opened
         \/ \E out \in [Committed(wal_file) -> RecoverWrites], d \in Device : Restarted(d, out)
<1>1. PICK out \in [Committed(wal_file) -> RecoverWrites] :
        engine' = IF wal_file = <<>> THEN engine ELSE recover(engine, wal_file, out)
  BY Zenon DEF OpenRecover
<1>2. /\ disk' = Reaching(disk, engine.pool.device, engine'.pool.device)
      /\ phase = "closed" /\ phase' = IF wal_file = <<>> THEN "up" ELSE "sync"
      /\ SidecarSame /\ putting' = putting /\ maybe' = maybe
  BY DEF OpenRecover, SidecarSame
<1>3. /\ EngineOK(engine) /\ engine.pool.frames = <<>> /\ engine.pool.lru = <<>>
      /\ Numbered(wal_file) /\ wal_file \in Seq(Bytes) /\ engine.pool.device \in Device
      /\ Caches(disk, engine.pool.device)
  BY <1>2, DeviceOfEngine DEF Base, Numbered
<1>4. CASE wal_file = <<>>
  <2>1. engine' = engine
    BY <1>1, <1>4
  <2>2. disk' = disk
    BY <1>2, <1>3, <2>1, ReachingFacts
  <2> QED BY <1>2, <1>4, <2>1, <2>2 DEF Opened
<1>5. CASE wal_file # <<>>
  <2>1. out \in [Committed(wal_file) -> WriteOutcome]
    BY RecoverWritesAssumption
  <2> DEFINE d == Replayed(engine.pool.device, wal_file, out)
  <2>2. Recovered(recover(engine, wal_file, out), d, wal_file)
    BY <1>3, <2>1, RecoverFacts
  <2>3. d \in Device
    BY <1>3, <2>1, ReplayFacts
  <2> HIDE DEF d
  <2>4. Recovered(engine', d, wal_file)
    BY <1>1, <1>5, <2>2
  <2>5. engine'.pool.device = d
    BY <2>4 DEF Recovered
  <2>6. Restarted(d, out)
    BY <1>2, <1>5, <2>4, <2>5 DEF Restarted, d
  <2> QED BY <2>3, <2>6
<1> QED BY <1>4, <1>5

\* The sidecar is dropped once everything in it is in place.
Emptied ==
  /\ phase = "truncate" /\ phase' = "up"
  /\ EngineOK(engine') /\ engine'.pool = engine.pool /\ engine'.wal = NewWal
  /\ disk' = disk /\ putting' = putting /\ maybe' = maybe
  /\ wal_file' = <<>> /\ wal_disk' = wal_disk \cup {<<>>}

LEMMA OpenTruncateEffect ==
  ASSUME Base, OpenTruncate
  PROVE  \/ Emptied
         \/ phase = "truncate" /\ Dropped /\ SidecarSame
<1>1. EngineOK(engine) /\ phase = "truncate" /\ disk' = disk /\ putting' = putting /\ maybe' = maybe
  BY DEF Base, OpenTruncate
<1>2. putting = NoPut
  BY <1>1 DEF Base, InPut
<1>3. CASE /\ engine' = reset_wal(engine) /\ wal_file' = <<>> /\ wal_disk' = wal_disk \cup {<<>>}
           /\ phase' = "up"
  <2>1. engine' = [engine EXCEPT !.wal = NewWal]
    BY <1>3, Zenon DEF reset_wal
  <2>2. EngineOK(engine') /\ engine'.wal = NewWal /\ engine'.pool = engine.pool
    BY <1>1, <2>1, NewLog, ReplaceLog
  <2> QED BY <1>1, <1>3, <2>2 DEF Emptied
<1>4. CASE engine' = NewEngine(engine.pool.device) /\ phase' = "closed" /\ SidecarSame
  BY <1>1, <1>2, <1>4, DroppedEngine
<1> QED BY <1>3, <1>4 DEF OpenTruncate, SidecarSame

LEMMA OpenSyncEffect ==
  ASSUME Base, OpenSync
  PROVE  /\ phase = "sync" /\ SidecarSame /\ putting' = putting /\ maybe' = maybe
         /\ \/ engine' = engine /\ disk' = Synced(engine.pool.device) /\ phase' = "truncate"
            \/ Dropped
<1>1. phase = "sync" /\ SidecarSame /\ putting' = putting /\ maybe' = maybe
  BY DEF OpenSync, SidecarSame
<1>2. putting = NoPut
  BY <1>1 DEF Base, InPut
<1>3. CASE engine' = NewEngine(engine.pool.device) /\ phase' = "closed" /\ disk' = disk
  BY <1>1, <1>2, <1>3, DroppedEngine
<1> QED BY <1>1, <1>3 DEF OpenSync

LEMMA CloseEffect ==
  ASSUME Base, Close
  PROVE  Dropped /\ SidecarSame /\ phase # "closed"
         /\ (ExitUnsynced \/ wal_file = <<>> \/ wal_disk = {wal_file})
BY DroppedEngine DEF Close, SidecarSame

-----------------------------------------------------------------------------
LEMMA InitBase ==
  ASSUME Init
  PROVE  /\ Base /\ engine = NewEngine([b \in Block |-> Zeroed])
         /\ disk = Synced([b \in Block |-> Zeroed])
<1> DEFINE d == [b \in Block |-> Zeroed]
<1>1. d \in Device /\ maybe \in [Block -> SUBSET Page]
  BY ZeroedAssumption DEF Device, Content, Init, create
<1>2. /\ engine = NewEngine(d) /\ disk = Synced(engine.pool.device)
      /\ wal_file = <<>> /\ wal_disk = {<<>>} /\ phase = "up" /\ putting = NoPut
  BY DEF Init, create
<1> HIDE DEF d
<1>3. EngineOK(engine) /\ engine.pool.device = d
  BY <1>1, <1>2, NewEngineFacts
<1>4. Caches(disk, engine.pool.device)
  BY <1>1, <1>2, <1>3, SyncedFacts
<1>5. Numbered(<<>>)
  BY EmptySeq DEF Numbered
<1>6. Base
  BY <1>1, <1>2, <1>3, <1>4, <1>5 DEF Base, InPut, Opening
<1> QED BY <1>2, <1>3, <1>6 DEF d

LEMMA StageBase ==
  ASSUME Base, NEW b \in Block, NEW pg \in Page, Staged(b, pg)
  PROVE  Base'
<1>1. /\ EngineOK(engine) /\ Caches(disk, engine.pool.device) /\ phase = "up"
      /\ wal_file \in wal_disk /\ (\A u \in wal_disk : Numbered(u))
      /\ maybe \in [Block -> SUBSET Page] /\ putting = NoPut
  BY DEF Base, Staged, InPut
<1>2. EngineOK(engine') /\ Caches(disk', engine'.pool.device) /\ SidecarSame
  BY <1>1 DEF Staged, DeviceSame
<1>3. CASE Begun(b, pg)
  <2>1. engine.wal.bytes \in Seq(WalRecord)
    BY <1>1, NumberedLog DEF EngineOK
  <2>2. PutLogged(engine.wal.bytes, engine'.wal.bytes, b, pg)
    BY <1>3 DEF Begun
  <2>3. LastPut(engine'.wal.bytes, [block |-> b, page |-> pg])
    BY <2>1, <2>2, PutLoggedFacts DEF LastPut, IsCommit
  <2>4. maybe' \in [Block -> SUBSET Page]
    BY <1>1, <1>3 DEF Begun
  <2>5. phase' = "persist" /\ putting' = [block |-> b, page |-> pg]
    BY <1>3 DEF Begun
  <2> QED BY <1>1, <1>2, <2>3, <2>4, <2>5 DEF Base, InPut, Opening, SidecarSame
<1>4. CASE Idle
  BY <1>1, <1>2, <1>4 DEF Base, InPut, Opening, SidecarSame, Idle
<1> QED BY <1>3, <1>4 DEF Staged

LEMMA PersistBase ==
  ASSUME Base, PutPersist
  PROVE  Base'
<1> DEFINE t == engine.wal.bytes
<1>1. /\ EngineOK(engine) /\ wal_file \in wal_disk /\ (\A u \in wal_disk : Numbered(u))
      /\ putting.block \in Block /\ putting.page \in Page /\ LastPut(t, putting)
      /\ Caches(disk, engine.pool.device) /\ maybe \in [Block -> SUBSET Page]
  BY DEF Base, PutPersist, InPut
<1>2. Numbered(t)
  BY <1>1, NumberedLog DEF EngineOK
<1>3. engine' = engine /\ disk' = disk /\ maybe' = maybe
  BY DEF PutPersist
<1>4. CASE wal_file' = t /\ wal_disk' = {t} /\ phase' = "flush" /\ putting' = putting
  BY <1>1, <1>2, <1>3, <1>4 DEF Base, InPut, Opening
<1>5. CASE /\ wal_file' \in {wal_file} \cup Partial(wal_file, t)
           /\ wal_disk' = wal_disk \cup (IF wal_file' = wal_file THEN {}
                                         ELSE Partial(wal_file, wal_file'))
           /\ phase' = "up" /\ putting' = NoPut
  <2>1. Numbered(wal_file) /\ Numbered(wal_file')
    BY <1>1, <1>2, <1>5, NumberedPartial
  <2>2. wal_file' \in wal_disk'
    BY <1>1, <1>5, <2>1, WholeIsPartial DEF Numbered
  <2>3. \A u \in wal_disk' : Numbered(u)
    BY <1>1, <1>5, <2>1, NumberedPartial
  <2> QED BY <1>1, <1>3, <1>5, <2>2, <2>3 DEF Base, InPut, Opening
<1> QED BY <1>4, <1>5 DEF PutPersist

LEMMA FlushBase ==
  ASSUME Base, WroteBack
  PROVE  Base'
<1>1. /\ EngineOK(engine) /\ Caches(disk, engine.pool.device) /\ engine.pool.device \in Device
      /\ wal_file \in wal_disk /\ (\A u \in wal_disk : Numbered(u))
      /\ putting.block \in Block /\ putting.page \in Page /\ maybe \in [Block -> SUBSET Page]
  BY DeviceOfEngine DEF Base, WroteBack, InPut
<1>2. /\ EngineOK(engine') /\ engine'.pool.device \in Device
      /\ SidecarSame /\ phase' = "up" /\ putting' = NoPut
  BY DeviceOfEngine DEF WroteBack
<1>3. Caches(disk', engine'.pool.device) /\ maybe' \in [Block -> SUBSET Page]
  <2>1. CASE /\ disk' = Synced(engine'.pool.device)
             /\ maybe' = [maybe EXCEPT ![putting.block] = {putting.page}]
    BY <1>1, <1>2, <2>1, SyncedFacts
  <2>2. CASE disk' = Reaching(disk, engine.pool.device, engine'.pool.device) /\ maybe' = maybe
    BY <1>1, <1>2, <2>2, ReachingFacts
  <2> QED BY <2>1, <2>2, Zenon DEF WroteBack
<1> QED BY <1>1, <1>2, <1>3 DEF Base, InPut, Opening, SidecarSame

\* A dropped handle leaves the files as they are.
LEMMA DropBase ==
  ASSUME Base, Dropped, SidecarSame
  PROVE  Base'
BY DEF Base, Dropped, Fresh, SidecarSame, InPut, Opening

LEMMA RestartBase ==
  ASSUME Base, NEW out, NEW d \in Device, Restarted(d, out)
  PROVE  Base'
<1>1. /\ Caches(disk, engine.pool.device) /\ engine.pool.device \in Device
      /\ wal_file \in wal_disk /\ (\A u \in wal_disk : Numbered(u))
      /\ maybe \in [Block -> SUBSET Page] /\ putting = NoPut
  BY DeviceOfEngine DEF Base, Restarted, InPut
<1>2. EngineOK(engine') /\ engine'.pool.device = d /\ Bare(engine'.pool)
  BY DEF Restarted, Recovered, Bare
<1>3. Caches(disk', d)
  BY <1>1, ReachingFacts DEF Restarted
<1> QED BY <1>1, <1>2, <1>3 DEF Base, Restarted, SidecarSame, InPut, Opening

LEMMA CrashBase ==
  ASSUME Base, NEW d, Crashed(d)
  PROVE  Base'
<1>1. wal_file' \in wal_disk' /\ \A u \in wal_disk' : Numbered(u)
  BY DEF Base, Crashed
<1>2. maybe' \in [Block -> SUBSET Page]
  BY DEF Base, Crashed
<1>3. Caches(disk', engine'.pool.device)
  BY SyncedFacts DEF Crashed, Fresh
<1> QED BY <1>1, <1>2, <1>3 DEF Base, Crashed, Fresh, InPut, Opening

LEMMA EmptiedBase ==
  ASSUME Base, Emptied
  PROVE  Base'
<1>1. Numbered(<<>>)
  BY EmptySeq DEF Numbered
<1> QED BY <1>1 DEF Base, Emptied, InPut, Opening

\* The base invariant is inductive: one step per action.
LEMMA NextBase ==
  ASSUME Base, [Next]_vars
  PROVE  Base'
<1>1. ASSUME NEW b \in Block, get(b) PROVE Base'
  <2>1. Consulted
    BY <1>1, GetEffect
  <2> QED BY <2>1 DEF Consulted, Idle, DeviceSame, SidecarSame, Base, InPut, Opening
<1>2. ASSUME NEW b \in Block, NEW pg \in Page, PutWrite(b, pg) PROVE Base'
  BY <1>2, PutWriteEffect, StageBase
<1>3. CASE PutPersist
  BY <1>3, PersistBase
<1>4. CASE PutFlush
  BY <1>4, PutFlushEffect, FlushBase
<1>5. CASE Close
  BY <1>5, CloseEffect, DropBase
<1>6. CASE OpenRecover
  <2>1. CASE Opened
    BY <2>1 DEF Opened, SidecarSame, Base, InPut, Opening
  <2> QED BY <1>6, <2>1, OpenRecoverEffect, RestartBase, Zenon
<1>7. CASE OpenSync
  <2>1. SidecarSame /\ putting' = putting /\ maybe' = maybe /\ phase = "sync"
    BY <1>7, OpenSyncEffect
  <2>2. CASE engine' = engine /\ disk' = Synced(engine.pool.device) /\ phase' = "truncate"
    <3>1. Caches(disk', engine'.pool.device)
      BY <2>2, SyncedFacts, DeviceOfEngine DEF Base
    <3> QED BY <2>1, <2>2, <3>1 DEF SidecarSame, Base, InPut, Opening
  <2> QED BY <1>7, <2>1, <2>2, OpenSyncEffect, DropBase
<1>8. CASE OpenTruncate
  BY <1>8, OpenTruncateEffect, EmptiedBase, DropBase
<1>9. CASE Crash
  BY <1>9, CrashEffect, CrashBase
<1>10. CASE UNCHANGED vars
  BY <1>10 DEF vars, Base, InPut, Opening
<1> QED BY <1>1, <1>2, <1>3, <1>4, <1>5, <1>6, <1>7, <1>8, <1>9, <1>10 DEF Next

\* However recover's writes and the process end, the state has its types, the
\* log of the open handle numbers its records without gaps, and every sidecar
\* that a crash may leave is made of records, whole or torn.
THEOREM FileTypes == Spec => []TypeOK
<1>1. Init => Base
  BY InitBase
<1>2. Base /\ [Next]_vars => Base'
  BY NextBase
<1>3. Base => TypeOK
  <2> SUFFICES ASSUME Base PROVE TypeOK
    OBVIOUS
  <2>1. EngineOK(engine) /\ Caches(disk, engine.pool.device)
    BY DEF Base
  <2>2. /\ engine.pool \in Pool /\ engine.wal.bytes \in Seq(WalRecord)
        /\ \A k \in DOMAIN engine.wal.bytes : engine.wal.bytes[k].lsn = k - 1
        /\ engine.wal.next_lsn = Len(engine.wal.bytes)
        /\ disk \in [Block -> SUBSET Content]
    BY <2>1 DEF EngineOK, LogOK, Log, Caches
  <2>3. putting.block \in Block <=> phase \in {"persist", "flush"}
    BY NoBlockAssumption DEF Base, InPut, NoPut
  <2> QED BY <2>2, <2>3 DEF Base, TypeOK, Numbered, Bytes
<1> QED BY <1>1, <1>2, <1>3, PTL DEF Spec

-----------------------------------------------------------------------------
(***************************************************************************)
(* Durability.  While a handle is open, its log and the data file decide   *)
(* the newest image of every block, and up to some commit marker m every   *)
(* sidecar that a crash may leave holds the same log: beyond m it holds    *)
(* nothing that the log does not.  A sidecar that open truncated without   *)
(* syncing may also come back, until the first put has persisted its own.  *)
(***************************************************************************)
LiveAt(m) == Live(engine.pool, disk, maybe, wal_disk, engine.wal.bytes, m)

Guard ==
  /\ phase \in {"up", "persist"} => \E m : LiveAt(m)
  /\ phase = "flush" => LiveAt(Len(engine.wal.bytes))
  /\ Opening => /\ \A u \in wal_disk : Safe(disk, maybe, u)
                /\ wal_file = <<>> \/ wal_disk = {wal_file}
  /\ phase \in {"sync", "truncate"} =>
       /\ wal_disk = {wal_file}
       /\ \A b \in Block : Recoverable(disk, wal_file, b) = {engine.pool.device[b]}
  /\ phase = "truncate" => disk = Synced(engine.pool.device)

\* Whenever the machine stops, whichever sidecar it leaves.
LEMMA AllSafe ==
  ASSUME Base, Guard
  PROVE  \A u \in wal_disk : Safe(disk, maybe, u)
<1>1. engine.wal.bytes \in Seq(WalRecord) /\ \A u \in wal_disk : u \in Seq(Bytes)
  BY NumberedLog DEF Base, EngineOK, Numbered
<1>2. ASSUME NEW m, LiveAt(m) PROVE \A u \in wal_disk : Safe(disk, maybe, u)
  BY <1>1, <1>2, LiveIsSafe, Zenon DEF LiveAt
<1>3. CASE Opening
  BY <1>3, Zenon DEF Guard
<1>4. CASE phase \in {"up", "persist", "flush"}
  BY <1>2, <1>4 DEF Guard
<1> QED BY <1>3, <1>4 DEF Base, Opening

LEMMA GuardSurvives ==
  ASSUME Base, Guard
  PROVE  AcknowledgedPutsSurvive
<1>1. \A u \in wal_disk : Safe(disk, maybe, u)
  BY AllSafe
<1>2. wal_file \in wal_disk
  BY DEF Base
<1>3. ASSUME NEW b \in Block PROVE Durable(b) # {} /\ Durable(b) \subseteq maybe[b]
  <2>1. \A u \in wal_disk : Finds(Recoverable(disk, u, b), maybe[b])
    BY <1>1 DEF Safe
  <2> QED BY <1>2, <2>1 DEF Durable, Finds, OnePage
<1> QED BY <1>3, Zenon DEF AcknowledgedPutsSurvive

LEMMA GuardReads ==
  ASSUME Base, Guard
  PROVE  ReadsSeePuts
<1>1. engine.wal.bytes \in Seq(WalRecord)
  BY NumberedLog DEF Base, EngineOK
<1>2. ASSUME NEW m, LiveAt(m) PROVE \A b \in Block : Logical(engine.pool, b) \in maybe[b]
  BY <1>1, <1>2, LiveImages, Zenon DEF LiveAt
<1> QED BY <1>2, Zenon DEF Guard, ReadsSeePuts

-----------------------------------------------------------------------------
\* A call that logs nothing.
LEMMA IdleLive ==
  ASSUME Idle, DeviceSame, SidecarSame, NEW m, LiveAt(m)
  PROVE  LiveAt(m)'
<1>1. /\ DirtyBlocks(engine'.pool) \subseteq DirtyBlocks(engine.pool)
      /\ \A b \in Block : Logical(engine'.pool, b) = Logical(engine.pool, b)
      /\ engine'.wal.bytes = engine.wal.bytes
      /\ disk' = disk /\ maybe' = maybe /\ wal_disk' = wal_disk
  BY DEF Idle, DirtySame, ImagesSame, SameImages, LogSame, DeviceSame, SidecarSame
<1>2. Mirrors(engine.pool, disk, engine.wal.bytes)
  BY DEF LiveAt, Live
<1>3. Mirrors(engine'.pool, disk, engine.wal.bytes)
  BY <1>1, <1>2 DEF Mirrors
<1> QED BY <1>1, <1>3, Zenon DEF LiveAt, Live

\* A put that was logged: the new image may be found from now on, and no
\* sidecar holds it yet.
LEMMA BegunLive ==
  ASSUME Base, NEW b \in Block, NEW pg \in Page, Begun(b, pg), DeviceSame, SidecarSame,
         NEW m, LiveAt(m)
  PROVE  LiveAt(m)'
<1> DEFINE t == engine.wal.bytes
           u == engine'.wal.bytes
<1>1. t \in Seq(WalRecord) /\ \A v \in wal_disk : v \in Seq(Bytes)
  BY NumberedLog, Zenon DEF Base, EngineOK, Numbered
<1>2. PutLogged(t, u, b, pg)
  BY Zenon DEF Begun
<1>3. Len(t) \in Nat /\ Len(u) = Len(t) + 2 /\ u[Len(t) + 1].page = pg
  BY <1>1, <1>2, PutLoggedFacts
<1>4. /\ Sealed(t, m) /\ Mirrors(engine.pool, disk, t)
      /\ \A c \in Block : Settles(disk, t, m, c, maybe[c])
      /\ \A v \in wal_disk : Follows(v, t, m) \/ (m = 0 /\ Safe(disk, maybe, v))
  BY Zenon DEF LiveAt, Live
<1> HIDE DEF t, u
<1>5. /\ \A k \in 1..Len(t) : u[k] = t[k]
      /\ \A v \in Seq(Bytes) : \A n : Follows(v, t, n) => Follows(v, u, n)
      /\ \A c \in Block :
           /\ Writes(u, c) = IF c = b THEN Writes(t, c) \cup {Len(t) + 1} ELSE Writes(t, c)
           /\ \A dk : Newest(dk, u, c) = IF c = b THEN {pg} ELSE Newest(dk, t, c)
  BY <1>1, <1>2, PutLoggedWrites
<1>6. /\ disk' = disk /\ wal_disk' = wal_disk /\ maybe' = [maybe EXCEPT ![b] = @ \cup {pg}]
      /\ \A c \in Block : Logical(engine'.pool, c) = IF c = b THEN pg ELSE Logical(engine.pool, c)
      /\ DirtyBlocks(engine'.pool) \subseteq DirtyBlocks(engine.pool) \cup {b}
      /\ maybe \in [Block -> SUBSET Page]
      /\ DirtyBlocks(engine.pool) \subseteq Block
  BY DirtyAreBlocks, Zenon DEF Begun, DeviceSame, SidecarSame, Base
<1>7. Sealed(u, m)
  BY <1>3, <1>4, <1>5 DEF Sealed
<1>8. Mirrors(engine'.pool, disk, u)
  <2>1. ASSUME NEW c \in DirtyBlocks(engine'.pool) PROVE Writes(u, c) # {}
    BY <1>4, <1>5, <1>6, Zenon DEF Mirrors
  <2>2. ASSUME NEW c \in Block PROVE Newest(disk, u, c) = {Logical(engine'.pool, c)}
    BY <1>4, <1>5, <1>6, Zenon DEF Mirrors
  <2> QED BY <2>1, <2>2 DEF Mirrors
<1>9. \A c \in Block : maybe[c] \subseteq maybe'[c] /\ (c = b => pg \in maybe'[c])
  BY <1>6
<1>10. ASSUME NEW c \in Block PROVE Settles(disk, u, m, c, maybe'[c])
  <2>1. Settles(disk, t, m, c, maybe[c]) /\ Writes(t, c) \subseteq Writes(u, c)
    BY <1>4, <1>5
  <2>2. Writes(t, c) \subseteq 1..Len(t)
    BY <1>1, LastWrite, RecordsFacts
  <2>3. ASSUME NEW k \in Writes(u, c)
        PROVE  u[k].page \in maybe'[c] \/ \E j \in Writes(u, c) : k < j /\ j <= m
    <3>1. CASE k \in Writes(t, c)
      <4>1. u[k] = t[k]
        BY <1>5, <2>2, <3>1
      <4> QED BY <1>9, <2>1, <3>1, <4>1, Zenon DEF Settles
    <3>2. CASE c = b /\ k = Len(t) + 1
      BY <1>3, <1>9, <3>2
    <3> QED BY <1>5, <3>1, <3>2, Zenon
  <2>4. (\E k \in Writes(u, c) : k <= m) \/ Finds(disk[c], maybe'[c])
    BY <1>9, <2>1, FindsMore, Zenon DEF Settles
  <2> QED BY <2>3, <2>4 DEF Settles
<1>11. \A v \in wal_disk : Follows(v, u, m) \/ (m = 0 /\ Safe(disk, maybe', v))
  BY <1>1, <1>5, <1>4, <1>9, SafeMore, Zenon
<1>12. Live(engine'.pool, disk, maybe', wal_disk, u, m)
  BY <1>7, <1>8, <1>10, <1>11, Zenon DEF Live
<1> QED BY <1>6, <1>12 DEF LiveAt, u

LEMMA StageGuard ==
  ASSUME Base, Guard, NEW b \in Block, NEW pg \in Page, Staged(b, pg)
  PROVE  Guard'
<1>1. PICK m : LiveAt(m)
  BY DEF Guard, Staged
<1>2. LiveAt(m)'
  BY <1>1, BegunLive, IdleLive DEF Staged
<1>3. phase' \in {"up", "persist"}
  BY DEF Staged, Begun, Idle
<1> QED BY <1>2, <1>3, Zenon DEF Guard, Opening

LEMMA ConsultGuard ==
  ASSUME Guard, Consulted
  PROVE  Guard'
<1>1. PICK m : LiveAt(m)
  BY DEF Guard, Consulted
<1>2. LiveAt(m)'
  BY <1>1, IdleLive DEF Consulted
<1> QED BY <1>2 DEF Guard, Opening, Consulted, Idle

\* The sidecar is the log: the last marker takes the place of m.  A sync that
\* fails leaves parts of the log, m records of it or more.
LEMMA PersistGuard ==
  ASSUME Base, Guard, PutPersist
  PROVE  Guard'
<1> DEFINE t == engine.wal.bytes
<1>1. /\ t \in Seq(WalRecord) /\ t \in Seq(Bytes) /\ LastPut(t, putting)
      /\ wal_file \in wal_disk /\ \A v \in wal_disk : v \in Seq(Bytes)
  BY NumberedLog, Zenon DEF Base, EngineOK, Numbered, PutPersist, InPut
<1>2. PICK m : LiveAt(m)
  BY Zenon DEF Guard, PutPersist
<1>3. Live(engine.pool, disk, maybe, wal_disk, t, m)
  BY <1>2 DEF LiveAt
<1>4. engine' = engine /\ disk' = disk /\ maybe' = maybe
  BY DEF PutPersist
<1>5. Len(t) \in Nat
  BY <1>1, BytesFacts
<1>6. CASE wal_disk' = {t} /\ phase' = "flush"
  <2> HIDE DEF t
  <2>1. Sealed(t, Len(t)) /\ m \in 0..Len(t)
    BY <1>1, <1>3, <1>5 DEF LastPut, Sealed, Live
  <2>2. Follows(t, t, Len(t))
    BY <1>1, <1>5, FollowsItself
  <2>3. ASSUME NEW b \in Block PROVE Settles(disk, t, Len(t), b, maybe[b])
    <3>1. Settles(disk, t, m, b, maybe[b])
      BY <1>3 DEF Live
    <3>2. Writes(t, b) \subseteq 1..Len(t)
      BY <1>1, LastWrite
    <3>3. \A j \in Writes(t, b) : j <= Len(t)
      BY <1>5, <3>2
    <3> QED BY <3>1, <3>3 DEF Settles
  <2>4. Live(engine.pool, disk, maybe, {t}, t, Len(t))
    BY <1>3, <2>1, <2>2, <2>3 DEF Live
  <2>5. LiveAt(Len(engine.wal.bytes))'
    BY <1>4, <1>6, <2>4 DEF LiveAt, t
  <2> QED BY <1>6, <2>5 DEF Guard, Opening
<1>7. CASE /\ wal_file' \in {wal_file} \cup Partial(wal_file, t)
           /\ wal_disk' = wal_disk \cup (IF wal_file' = wal_file THEN {}
                                         ELSE Partial(wal_file, wal_file'))
           /\ phase' = "up"
  <2> HIDE DEF t
  <2>1. Agree(wal_file, t, m) /\ m \in 0..Len(t)
    BY <1>1, <1>3, LiveAgrees DEF Live, Sealed
  <2>2. ASSUME wal_file' # wal_file, NEW v \in Partial(wal_file, wal_file') PROVE Follows(v, t, m)
    <3>1. Follows(t, t, m) /\ wal_file' \in Partial(wal_file, t)
      BY <1>1, <1>7, <2>1, <2>2, FollowsItself
    <3>2. Follows(wal_file', t, m)
      BY <1>1, <2>1, <3>1, FollowsPartial
    <3>3. wal_file' \in Seq(Bytes)
      BY <1>1, <3>1, PartialFacts DEF Stopped
    <3>4. Agree(wal_file, wal_file', m)
      BY <2>1, <3>2 DEF Follows, Agree
    <3> QED BY <1>1, <2>2, <3>2, <3>3, <3>4, FollowsPartial
  <2>3. \A v \in wal_disk' : v \in wal_disk \/ Follows(v, t, m)
    BY <1>7, <2>2
  <2>4. Live(engine.pool, disk, maybe, wal_disk', t, m)
    BY <1>3, <2>3, Zenon DEF Live
  <2>5. LiveAt(m)'
    BY <1>4, <2>4 DEF LiveAt, t
  <2> QED BY <1>7, <2>5 DEF Guard, Opening
<1> QED BY <1>6, <1>7 DEF PutPersist

\* The pages of the log reach the data file while every sidecar holds all of
\* the log; the put is acknowledged once they are synced.
LEMMA FlushGuard ==
  ASSUME Base, Guard, WroteBack
  PROVE  Guard'
<1> DEFINE t == engine.wal.bytes
           n == Len(t)
           x == putting.block
<1>1. /\ t \in Seq(WalRecord) /\ t \in Seq(Bytes) /\ LastPut(t, putting) /\ x \in Block
      /\ Caches(disk, engine.pool.device) /\ engine.pool.device \in Device
      /\ engine'.pool.device \in Device /\ maybe \in [Block -> SUBSET Page]
  BY NumberedLog, DeviceOfEngine, Zenon DEF Base, EngineOK, WroteBack, InPut
<1>2. Live(engine.pool, disk, maybe, wal_disk, t, n)
  BY Zenon DEF Guard, WroteBack, LiveAt
<1>3. /\ engine'.wal.bytes = t /\ wal_disk' = wal_disk /\ phase' = "up"
      /\ \A c \in Block : Logical(engine'.pool, c) = Logical(engine.pool, c)
      /\ DirtyBlocks(engine'.pool) \subseteq DirtyBlocks(engine.pool)
      /\ \A c \in Block : c \notin DirtyBlocks(engine.pool) =>
           engine'.pool.device[c] = engine.pool.device[c]
  BY Zenon DEF WroteBack, LogSame, SidecarSame, ImagesSame, SameImages, DirtySame
<1>4. Len(t) \in Nat /\ DOMAIN t = 1..Len(t) /\ \A k \in 1..Len(t) : t[k] # Torn
  BY <1>1, RecordsFacts
<1>5. \/ /\ disk' = Synced(engine'.pool.device)
         /\ maybe' = [maybe EXCEPT ![x] = {putting.page}]
      \/ disk' = Reaching(disk, engine.pool.device, engine'.pool.device) /\ maybe' = maybe
  BY Zenon DEF WroteBack
<1> HIDE DEF t, x
<1>6. ASSUME NEW c \in Block PROVE Writes(t, c) \subseteq 1..n
  BY <1>1, LastWrite, Zenon
<1>7. ASSUME NEW c \in Block, Writes(t, c) = {} PROVE disk'[c] = disk[c]
  <2>1. Finds(disk[c], maybe[c]) /\ c \notin DirtyBlocks(engine.pool)
    BY <1>2, <1>7, Zenon DEF Live, Settles, Mirrors
  <2>2. disk[c] = {engine.pool.device[c]}
    BY <1>1, <2>1 DEF Finds, OnePage, Caches
  <2>3. engine'.pool.device[c] = engine.pool.device[c]
    BY <1>3, <2>1
  <2>4. Synced(engine'.pool.device)[c] = {engine'.pool.device[c]}
    BY <1>1, SyncedFacts
  <2>5. Reaching(disk, engine.pool.device, engine'.pool.device)[c] = disk[c]
    BY <1>1, <2>3, ReachingFacts, Zenon
  <2> QED BY <1>5, <2>2, <2>3, <2>4, <2>5
<1>8. Mirrors(engine'.pool, disk', t)
  <2>1. \A c \in Block : Newest(disk', t, c) = Newest(disk, t, c)
    BY <1>7 DEF Newest
  <2> QED BY <1>2, <1>3, <2>1, Zenon DEF Live, Mirrors
<1>9. ASSUME NEW c \in Block, Writes(t, c) = {} \/ maybe'[c] = maybe[c]
      PROVE  Settles(disk', t, n, c, maybe'[c])
  <2>1. Settles(disk, t, n, c, maybe[c])
    BY <1>2 DEF Live
  <2>2. CASE Writes(t, c) # {}
    <3>1. \E k \in Writes(t, c) : k <= n
      BY <1>4, <1>6, <2>2
    <3> QED BY <1>9, <2>1, <2>2, <3>1 DEF Settles
  <2>3. CASE Writes(t, c) = {}
    <3>1. c # x
      BY <1>1, <1>4, <2>3 DEF LastPut, Writes, x
    <3>2. maybe'[c] = maybe[c]
      BY <1>1, <1>5, <3>1
    <3> QED BY <1>7, <2>1, <2>3, <3>2 DEF Settles
  <2> QED BY <2>2, <2>3
<1>10. ASSUME maybe'[x] = {putting.page} PROVE Settles(disk', t, n, x, maybe'[x])
  <2>1. n - 1 \in Writes(t, x) /\ t[n - 1].page = putting.page /\ n - 1 <= n
    BY <1>1, <1>4 DEF LastPut, Writes, x
  <2>2. n \notin Writes(t, x)
    BY <1>1 DEF LastPut, Writes, IsCommit
  <2>3. ASSUME NEW k \in Writes(t, x) PROVE k = n - 1 \/ k < n - 1
    BY <1>1, <1>4, <1>6, <2>2
  <2> QED BY <1>10, <2>1, <2>3 DEF Settles
<1>11. \A c \in Block : maybe'[c] = maybe[c] \/ (c = x /\ maybe'[c] = {putting.page})
  BY <1>1, <1>5
<1>12. ASSUME NEW c \in Block PROVE Settles(disk', t, n, c, maybe'[c])
  <2>1. CASE maybe'[c] = maybe[c]
    BY <1>9, <2>1, Zenon
  <2>2. CASE c = x /\ maybe'[c] = {putting.page}
    BY <1>10, <2>2, Zenon
  <2> QED BY <1>11, <2>1, <2>2, Zenon
<1>13. n # 0 /\ Sealed(t, n) /\ \A u \in wal_disk : Follows(u, t, n)
  <2>1. n # 0
    BY <1>1, <1>4 DEF LastPut
  <2> HIDE DEF n
  <2> QED BY <1>2, <2>1, Zenon DEF Live
<1>14. Live(engine'.pool, disk', maybe', wal_disk', t, n)
  BY <1>3, <1>8, <1>12, <1>13, Zenon DEF Live
<1>15. \E m : LiveAt(m)'
  BY <1>3, <1>14 DEF LiveAt
<1> QED BY <1>3, <1>15, Zenon DEF Guard, Opening

\* The handle is dropped with the sidecar empty or synced.
LEMMA DropGuard ==
  ASSUME Base, Guard, Dropped, SidecarSame, wal_file = <<>> \/ wal_disk = {wal_file}
  PROVE  Guard'
<1>1. \A u \in wal_disk : Safe(disk, maybe, u)
  BY AllSafe
<1>2. /\ phase' = "closed" /\ disk' = disk /\ maybe' = maybe
      /\ wal_file' = wal_file /\ wal_disk' = wal_disk
  BY DEF Dropped, Fresh, SidecarSame
<1> QED BY <1>1, <1>2, Zenon DEF Guard, Opening

LEMMA InitGuard ==
  ASSUME Init
  PROVE  Guard
<1> DEFINE d == [b \in Block |-> Zeroed]
<1>1. /\ d \in Device /\ (\A b \in Block : d[b] = Zeroed)
      /\ engine = NewEngine(d) /\ disk = Synced(d)
      /\ phase = "up" /\ wal_disk = {<<>>} /\ maybe = [b \in Block |-> {Zeroed}]
  BY ZeroedAssumption, InitBase DEF Device, Content, Init, create
<1> HIDE DEF d
<1>2. Bare(engine.pool) /\ engine.pool.device = d /\ engine.wal = NewWal
  BY <1>1, NewEngineFacts DEF Bare
<1>3. \A b \in Block : disk[b] = {engine.pool.device[b]} /\ Finds(disk[b], maybe[b])
  BY <1>1, <1>2, SyncedFacts, ZeroedAssumption, Zenon DEF Finds, OnePage
<1>4. \A u \in wal_disk : Safe(disk, maybe, u)
  <2>1. \A b \in Block : Finds(Recoverable(disk, <<>>, b), maybe[b])
    BY <1>3, EmptyLog, Zenon
  <2>2. Safe(disk, maybe, <<>>)
    BY <2>1, Zenon DEF Safe
  <2> QED BY <1>1, <2>2
<1>5. Live(engine.pool, disk, maybe, wal_disk, <<>>, 0)
  BY <1>2, <1>3, <1>4, EmptyLive
<1>6. LiveAt(0)
  BY <1>2, <1>5, NewLog DEF LiveAt
<1> QED BY <1>1, <1>6 DEF Guard, Opening

\* Opening an empty sidecar.
LEMMA OpenedGuard ==
  ASSUME Base, Guard, Opened
  PROVE  Guard'
<1>1. /\ Bare(engine.pool) /\ engine.wal = NewWal /\ wal_file = <<>> /\ wal_file \in wal_disk
      /\ Caches(disk, engine.pool.device)
  BY Zenon DEF Base, Opened, Opening
<1>2. \A u \in wal_disk : Safe(disk, maybe, u)
  BY AllSafe
<1>3. \A b \in Block : Finds(disk[b], maybe[b])
  BY <1>1, <1>2, EmptyLog, Zenon DEF Safe
<1>4. \A b \in Block : disk[b] = {engine.pool.device[b]}
  BY <1>1, <1>3, Zenon DEF Finds, OnePage, Caches
<1>5. Live(engine.pool, disk, maybe, wal_disk, <<>>, 0)
  BY <1>1, <1>2, <1>3, <1>4, EmptyLive, Zenon
<1>6. LiveAt(0)'
  BY <1>1, <1>5, NewLog DEF LiveAt, Opened, SidecarSame
<1> QED BY <1>6 DEF Guard, Opening, Opened

\* Replaying a sidecar puts in place what it would be found to hold.
LEMMA RestartGuard ==
  ASSUME Base, Guard, RecoverWrites \subseteq {"ok"},
         NEW out \in [Committed(wal_file) -> RecoverWrites], NEW d \in Device, Restarted(d, out)
  PROVE  Guard'
<1>1. /\ Caches(disk, engine.pool.device) /\ engine.pool.device \in Device
      /\ wal_file \in wal_disk /\ wal_file \in Seq(Bytes)
  BY DeviceOfEngine, Zenon DEF Base, Numbered
<1>2. /\ wal_disk = {wal_file} /\ wal_file' = wal_file /\ wal_disk' = wal_disk
      /\ engine'.pool.device = d /\ phase' = "sync" /\ maybe' = maybe
      /\ disk' = Reaching(disk, engine.pool.device, d)
  BY Zenon DEF Guard, Restarted, SidecarSame, Recovered, Opening
<1>3. Safe(disk, maybe, wal_file)
  BY <1>1, AllSafe
<1>4. \A b \in Block :
        d[b] = IF CommittedTo(wal_file, b) = {} THEN engine.pool.device[b]
               ELSE wal_file[Max(CommittedTo(wal_file, b))].page
  <2>1. out \in [Committed(wal_file) -> WriteOutcome]
    BY RecoverWritesAssumption, Zenon
  <2>2. \A k \in Committed(wal_file) : out[k] = "ok"
    BY Zenon
  <2> QED BY <1>1, <2>1, <2>2, ReplayFacts, Zenon DEF Restarted
<1>5. ASSUME NEW b \in Block
      PROVE  /\ Recoverable(disk', wal_file, b) = Recoverable(disk, wal_file, b)
             /\ Recoverable(disk', wal_file, b) = {d[b]}
  <2>1. CASE CommittedTo(wal_file, b) = {}
    <3>1. d[b] = engine.pool.device[b] /\ disk'[b] = disk[b]
      BY <1>1, <1>2, <1>4, <2>1, ReachingFacts, Zenon
    <3>2. disk[b] = {engine.pool.device[b]}
      BY <1>1, <1>3, <2>1, Zenon DEF Safe, Finds, OnePage, Recoverable, Caches
    <3> QED BY <2>1, <3>1, <3>2 DEF Recoverable
  <2>2. CASE CommittedTo(wal_file, b) # {}
    BY <1>4, <2>2 DEF Recoverable
  <2> QED BY <2>1, <2>2
<1>6. Safe(disk', maybe, wal_file)
  BY <1>3, <1>5 DEF Safe
<1> QED BY <1>2, <1>5, <1>6, Zenon DEF Guard, Opening

LEMMA SyncGuard ==
  ASSUME Base, Guard, phase = "sync", phase' = "truncate", SidecarSame, maybe' = maybe,
         engine' = engine, disk' = Synced(engine.pool.device)
  PROVE  Guard'
<1>1. /\ wal_file' = wal_file /\ wal_disk' = wal_disk /\ wal_disk = {wal_file}
      /\ \A b \in Block : Recoverable(disk, wal_file, b) = {engine.pool.device[b]}
  BY DEF Guard, SidecarSame
<1>2. \A b \in Block : disk'[b] = {engine.pool.device[b]}
  BY SyncedFacts, DeviceOfEngine, Zenon DEF Base
<1>3. \A b \in Block : Recoverable(disk', wal_file, b) = {engine.pool.device[b]}
  BY <1>1, <1>2 DEF Recoverable
<1>4. Safe(disk, maybe, wal_file)
  BY <1>1, AllSafe
<1>5. Safe(disk', maybe, wal_file)
  BY <1>1, <1>3, <1>4, Zenon DEF Safe
<1> QED BY <1>1, <1>3, <1>5 DEF Guard, Opening

\* The old sidecar may come back after the truncation, and does no harm.
LEMMA EmptiedGuard ==
  ASSUME Base, Guard, Emptied
  PROVE  Guard'
<1>1. /\ Bare(engine.pool) /\ wal_file \in wal_disk /\ engine.pool.device \in Device
      /\ disk = Synced(engine.pool.device)
      /\ \A b \in Block : Recoverable(disk, wal_file, b) = {engine.pool.device[b]}
  BY DeviceOfEngine, Zenon DEF Base, Guard, Emptied, Opening
<1>2. \A u \in wal_disk : Safe(disk, maybe, u)
  BY AllSafe
<1>3. \A b \in Block : disk[b] = {engine.pool.device[b]}
  BY <1>1, SyncedFacts, Zenon
<1>4. \A b \in Block : Finds(disk[b], maybe[b])
  <2>1. Safe(disk, maybe, wal_file)
    BY <1>1, <1>2
  <2>2. ASSUME NEW b \in Block PROVE Finds(disk[b], maybe[b])
    <3>1. Finds(Recoverable(disk, wal_file, b), maybe[b])
      BY <2>1 DEF Safe
    <3>2. Recoverable(disk, wal_file, b) = disk[b]
      BY <1>1, <1>3, Zenon
    <3> QED BY <3>1, <3>2, Zenon
  <2> QED BY <2>2, Zenon
<1>5. Safe(disk, maybe, <<>>)
  BY <1>4, EmptyLog, Zenon DEF Safe
<1>6. Live(engine.pool, disk, maybe, wal_disk \cup {<<>>}, <<>>, 0)
  BY <1>1, <1>2, <1>3, <1>4, <1>5, EmptyLive, Zenon
<1>7. LiveAt(0)'
  BY <1>6, NewLog DEF LiveAt, Emptied
<1> QED BY <1>7, Zenon DEF Guard, Opening, Emptied

\* A crash settles which image of a block is found; it is one of those that
\* could be found before.
LEMMA CrashGuard ==
  ASSUME Base, Guard, NEW d, Crashed(d)
  PROVE  Guard'
<1> DEFINE w == wal_file'
<1>1. /\ d \in Device /\ (\A b \in Block : d[b] \in disk[b]) /\ phase' = "closed"
      /\ disk' = Synced(d) /\ w \in wal_disk /\ wal_disk' = {w}
      /\ maybe' = [b \in Block |-> maybe[b] \cap Durable(b)']
  BY DEF Crashed, Fresh
<1>2. Safe(disk, maybe, w)
  BY <1>1, AllSafe
<1>3. ASSUME NEW b \in Block PROVE Finds(Recoverable(disk', w, b), maybe'[b])
  <2>1. Finds(Recoverable(disk, w, b), maybe[b])
    BY <1>2 DEF Safe
  <2>2. disk'[b] = {d[b]}
    BY <1>1, SyncedFacts
  <2>3. Recoverable(disk', w, b) = Recoverable(disk, w, b)
    <3>1. CASE CommittedTo(w, b) = {}
      BY <1>1, <2>1, <2>2, <3>1 DEF Recoverable, Finds, OnePage
    <3>2. CASE CommittedTo(w, b) # {}
      BY <3>2 DEF Recoverable
    <3> QED BY <3>1, <3>2
  <2>4. Durable(b)' = Recoverable(disk', w, b)
    BY <1>1 DEF Durable
  <2>5. maybe'[b] = maybe[b] \cap Recoverable(disk', w, b)
    BY <1>1, <2>4
  <2> QED BY <2>1, <2>3, <2>5 DEF Finds
<1>4. Safe(disk', maybe', w)
  BY <1>3 DEF Safe
<1> QED BY <1>1, <1>4, Zenon DEF Guard, Opening

\* One step per action.
LEMMA NextGuard ==
  ASSUME RecoverWrites \subseteq {"ok"}, ~ExitUnsynced, Base, Guard, [Next]_vars
  PROVE  Guard'
<1>1. ASSUME NEW b \in Block, get(b) PROVE Guard'
  BY <1>1, GetEffect, ConsultGuard
<1>2. ASSUME NEW b \in Block, NEW pg \in Page, PutWrite(b, pg) PROVE Guard'
  BY <1>2, PutWriteEffect, StageGuard
<1>3. CASE PutPersist
  BY <1>3, PersistGuard
<1>4. CASE PutFlush
  BY <1>4, PutFlushEffect, FlushGuard
<1>5. CASE Close
  BY <1>5, CloseEffect, DropGuard
<1>6. CASE OpenRecover
  BY <1>6, OpenRecoverEffect, OpenedGuard, RestartGuard, Zenon
<1>7. ASSUME Opening, Dropped, SidecarSame PROVE Guard'
  <2>1. wal_file = <<>> \/ wal_disk = {wal_file}
    BY <1>7, Zenon DEF Guard
  <2> QED BY <1>7, <2>1, DropGuard
<1>8. CASE OpenSync
  BY <1>7, <1>8, OpenSyncEffect, SyncGuard DEF Opening
<1>9. CASE OpenTruncate
  BY <1>7, <1>9, OpenTruncateEffect, EmptiedGuard DEF Opening
<1>10. CASE Crash
  BY <1>10, CrashEffect, CrashGuard
<1>11. CASE UNCHANGED vars
  BY <1>11 DEF vars, Guard, LiveAt, Opening
<1> QED BY <1>1, <1>2, <1>3, <1>4, <1>5, <1>6, <1>8, <1>9, <1>10, <1>11 DEF Next

\* If the writes of recover succeed and the process does not end with a sidecar
\* written and not synced, an acknowledged put survives a crash at any point of
\* any call: open finds that image or one put since, whole, in every block.
\* (recover reports no failed write, and an unsynced sidecar may be replayed
\* and then lost: without either condition the promise is broken.)
THEOREM PutsSurvive ==
  RecoverWrites \subseteq {"ok"} /\ ~ExitUnsynced => (Spec => []AcknowledgedPutsSurvive)
<1> SUFFICES ASSUME RecoverWrites \subseteq {"ok"}, ~ExitUnsynced
             PROVE  Spec => []AcknowledgedPutsSurvive
  OBVIOUS
<1>1. Init => Base /\ Guard
  BY InitBase, InitGuard
<1>2. (Base /\ Guard) /\ [Next]_vars => (Base /\ Guard)'
  BY NextBase, NextGuard
<1>3. Base /\ Guard => AcknowledgedPutsSurvive
  BY GuardSurvives
<1> QED BY <1>1, <1>2, <1>3, PTL DEF Spec

\* Under the same conditions a reader is never given an image older than the
\* last acknowledged put of the block, nor one that was not put.
THEOREM ReadersSeePuts ==
  RecoverWrites \subseteq {"ok"} /\ ~ExitUnsynced => (Spec => []ReadsSeePuts)
<1> SUFFICES ASSUME RecoverWrites \subseteq {"ok"}, ~ExitUnsynced PROVE Spec => []ReadsSeePuts
  OBVIOUS
<1>1. Init => Base /\ Guard
  BY InitBase, InitGuard
<1>2. (Base /\ Guard) /\ [Next]_vars => (Base /\ Guard)'
  BY NextBase, NextGuard
<1>3. Base /\ Guard => ReadsSeePuts
  BY GuardReads
<1> QED BY <1>1, <1>2, <1>3, PTL DEF Spec
=============================================================================
