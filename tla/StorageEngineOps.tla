-------------------------- MODULE StorageEngineOps --------------------------
(***************************************************************************)
(* The methods of StorageEngine (storage.rs) as operators on a record of   *)
(* its two fields: a no-steal buffer pool and the in-memory log.  Making   *)
(* room in a no-steal pool never writes a page, so the pool's write        *)
(* outcome is immaterial in write_page and read_page.                      *)
(***************************************************************************)
EXTENDS BufferPoolOps, Wal

NewEngine_steals(device) == [pool |-> new(device), wal |-> NewWal]
NewEngine(device) == [pool |-> no_steal(new(device)), wal |-> NewWal]

\* Room first, then the log record, then the frame; the record is withdrawn
\* when the page cannot be loaded.
write_page(e, b, pg, rd) ==
  LET room == reserve(e.pool, b, "ok")
      logged == append(e.wal, "PageWrite", b, pg)
      r == fetch_mut(room.pool, b, rd, "ok")
  IN IF ~room.ok
     THEN [ok |-> FALSE, engine |-> [e EXCEPT !.pool = room.pool]]
     ELSE IF r.ok
     THEN [ok |-> TRUE,
           engine |-> [pool |-> unpin(Store(r.pool, r.idx, pg), b), wal |-> logged]]
     ELSE [ok |-> FALSE,
           engine |-> [pool |-> r.pool,
                       wal |-> truncate(logged, Len(e.wal.bytes), e.wal.next_lsn)]]

\* The frame stays pinned: read_page has no matching unpin.
read_page(e, b, rd) == fetch(e.pool, b, rd, "ok")

\* The marker has no page: the code gives it block 0 and an empty payload,
\* which recover does not look at.
append_commit(e) == [e EXCEPT !.wal = append(@, "Commit", NoBlock, Zeroed)]

reset_wal(e) == [e EXCEPT !.wal = NewWal]

\* recover writes the committed images in log order, straight to the device;
\* out[k] is how the write of record k ends, and the code ignores failures.
\* The whole intact log becomes the engine's log.
Replayed(device, bytes, out) == [b \in Block |->
  LET done == {k \in CommittedTo(bytes, b) : out[k] # "err"} IN
  IF done = {} THEN device[b]
  ELSE IF out[Max(done)] = "torn" THEN Corrupt
  ELSE bytes[Max(done)].page]

recover(e, bytes, out) ==
  [pool |-> [e.pool EXCEPT !.device = Replayed(@, bytes, out)],
   wal  |-> from_bytes(bytes)]

-----------------------------------------------------------------------------
\* A device keeps what was written in a volatile cache until sync: for every
\* block, `disk` is the set of contents that a crash may leave.  A write adds
\* its image and, since a block is not written atomically, a torn block.
Reaching(disk, before, after) == [b \in Block |->
  IF after[b] = before[b] THEN disk[b] ELSE disk[b] \cup {after[b], Corrupt}]

Synced(device) == [b \in Block |-> {device[b]}]

\* What an overwrite of log bytes `old` by `bytes` leaves when it stops short:
\* at least the records they share, then records of the new log, the last of
\* which may be torn.
Partial(old, bytes) ==
  LET same == Max({n \in 0..Len(bytes) :
                     n <= Len(old) /\ SubSeq(old, 1, n) = SubSeq(bytes, 1, n)})
      parts == {SubSeq(bytes, 1, n) : n \in same..Len(bytes)}
  IN parts \cup {Append(part, Torn) : part \in parts}

\* What a crash and the recovery after it may leave in block b.
Recoverable(disk, bytes, b) ==
  IF CommittedTo(bytes, b) = {} THEN disk[b]
  ELSE {bytes[Max(CommittedTo(bytes, b))].page}
=============================================================================
