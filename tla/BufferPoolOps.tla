--------------------------- MODULE BufferPoolOps ---------------------------
(***************************************************************************)
(* The buffer pool of tpt-archon-core (page.rs) as a data type: a pool is  *)
(* a record of the device it owns, its frames and its LRU order, and every *)
(* method of `BufferPool` is an operator from a pool to a result.  The     *)
(* modules that own a pool (BufferPool, StorageEngine, FileDatabase) use   *)
(* these operators inside their actions: one handler calls several.        *)
(***************************************************************************)
EXTENDS BlockDevice, Sequences, FiniteSetsExt, Functions

CONSTANT Capacity  \* maximum number of frames

ASSUME CapacityAssumption == Capacity \in Nat \ {0}

PageState == {"Free", "Clean", "Dirty", "Pinned"}

\* `pins` is the count that PageState::Pinned carries, 0 in the other states.
Frame == [block : Block \cup {NoBlock}, page : Page, state : PageState,
          pins : Nat, dirty_intent : BOOLEAN]

\* `steal`: may eviction write a dirty frame back to make room?
Pool == [device : Device, frames : Seq(Frame), lru : Seq(Nat), steal : BOOLEAN]

EmptyFrame == [block |-> NoBlock, page |-> Zeroed, state |-> "Free",
               pins |-> 0, dirty_intent |-> FALSE]

new(device) == [device |-> device, frames |-> <<>>, lru |-> <<>>, steal |-> TRUE]

no_steal(p) == [p EXCEPT !.steal = FALSE]

Holding(p, b) == {i \in DOMAIN p.frames : p.frames[i].block = b}
FreeFrames(p) == {i \in DOMAIN p.frames : p.frames[i].state = "Free"}

find(p, b) == Min(Holding(p, b))

SetFrame(p, i, f) == [p EXCEPT !.frames[i] = f]

\* The list without its first i, if it has one.
RemoveIdx(lru, i) ==
  LET at == {k \in DOMAIN lru : lru[k] = i} IN
  IF at = {} THEN lru
  ELSE SubSeq(lru, 1, Min(at) - 1) \o SubSeq(lru, Min(at) + 1, Len(lru))

touch_appends_again(p, i) == [p EXCEPT !.lru = Append(@, i)]
touch_inserts_nothing(p, i) == [p EXCEPT !.lru = RemoveIdx(@, i)]
touch(p, i) == [p EXCEPT !.lru = Append(RemoveIdx(@, i), i)]

pin_frame(p, i) ==
  SetFrame(p, i, [p.frames[i] EXCEPT
    !.state = "Pinned",
    !.pins = IF p.frames[i].state = "Pinned" THEN @ + 1 ELSE 1])

mark_dirty_pinned_forgotten(p, i) == p
mark_dirty_pinned(p, i) ==
  SetFrame(p, i, [p.frames[i] EXCEPT !.dirty_intent = TRUE])

-----------------------------------------------------------------------------
\* What a call returns: the pool it leaves behind, and on success a frame.
Ok(p, i) == [ok |-> TRUE, err |-> "none", pool |-> p, idx |-> i]
Err(p, e) == [ok |-> FALSE, err |-> e, pool |-> p, idx |-> 0]

Evictable_pinned_too(p, i) == p.steal \/ p.frames[i].state # "Dirty"
Evictable_dirty_too(p, i) == p.frames[i].state # "Pinned"
Evictable(p, i) == /\ p.frames[i].state # "Pinned"
                   /\ p.steal \/ p.frames[i].state # "Dirty"

Victims(p) == {k \in DOMAIN p.lru : Evictable(p, p.lru[k])}

\* The frame that eviction takes: the least recently used evictable one.
Victim(p) == p.lru[Min(Victims(p))]

\* Its frame once free.  It keeps its block id and its bytes: only the state
\* says that it is free.
Freed(f) == [f EXCEPT !.state = "Free", !.dirty_intent = FALSE]

evict_drops_page(p, wr) ==
  Ok([SetFrame(p, Victim(p), Freed(p.frames[Victim(p)])) EXCEPT
        !.lru = RemoveIdx(@, Victim(p))], Victim(p))

\* Frees the victim, after writing it back if it is dirty.
evict(p, wr) ==
  LET i == Victim(p)
      f == p.frames[i]
  IN IF f.state = "Dirty" /\ wr # "ok"
     THEN Err([p EXCEPT !.device = write_block(@, f.block, f.page, wr)], "Io")
     ELSE Ok([SetFrame(p, i, Freed(f)) EXCEPT
                !.device = IF f.state = "Dirty" THEN write_block(@, f.block, f.page, "ok")
                                                ELSE @,
                !.lru = RemoveIdx(@, i)], i)

MayGrow_one_more(p) == Len(p.frames) <= Capacity
MayGrow(p) == Len(p.frames) < Capacity

acquire_frame(p, wr) ==
  IF FreeFrames(p) # {} THEN Ok(p, Min(FreeFrames(p)))
  ELSE IF MayGrow(p)
  THEN Ok([p EXCEPT !.frames = Append(@, EmptyFrame)], Len(p.frames) + 1)
  ELSE IF Victims(p) # {} THEN evict(p, wr)
  ELSE IF \E i \in DOMAIN p.frames : p.frames[i].state = "Dirty"
  THEN Err(p, "UncommittedPagesPinned")
  ELSE Err(p, "AllFramesPinned")

reserve(p, b, wr) ==
  IF Holding(p, b) # {} THEN Ok(p, find(p, b)) ELSE acquire_frame(p, wr)

\* read_block and decode_block into an acquired frame; an error leaves it free.
Load(a, b, rd) ==
  IF rd # "ok" THEN Err(a.pool, "Io")
  ELSE IF a.pool.device[b] = Corrupt THEN Err(a.pool, "Corrupt")
  ELSE Ok(SetFrame(a.pool, a.idx,
                   [block |-> b, page |-> a.pool.device[b], state |-> "Pinned",
                    pins |-> 1, dirty_intent |-> FALSE]), a.idx)

\* The part that fetch and fetch_mut share: find or load the frame, and pin it.
Resident(p, b, rd, wr) ==
  IF Holding(p, b) # {} THEN Ok(pin_frame(p, find(p, b)), find(p, b))
  ELSE IF acquire_frame(p, wr).ok THEN Load(acquire_frame(p, wr), b, rd)
  ELSE acquire_frame(p, wr)

fetch(p, b, rd, wr) ==
  LET r == Resident(p, b, rd, wr) IN
  IF r.ok THEN Ok(touch(r.pool, r.idx), r.idx) ELSE r

fetch_mut(p, b, rd, wr) ==
  LET r == fetch(p, b, rd, wr) IN
  IF r.ok THEN Ok(mark_dirty_pinned(r.pool, r.idx), r.idx) ELSE r

\* The bytes a caller stores through the page that fetch_mut returned.
Store(p, i, pg) == SetFrame(p, i, [p.frames[i] EXCEPT !.page = pg])

Unpinned_always_clean(f) ==
  IF f.pins > 1 THEN [f EXCEPT !.pins = @ - 1]
  ELSE [f EXCEPT !.pins = 0, !.state = "Clean", !.dirty_intent = FALSE]
Unpinned(f) ==
  IF f.pins > 1 THEN [f EXCEPT !.pins = @ - 1]
  ELSE [f EXCEPT !.pins = 0, !.state = IF f.dirty_intent THEN "Dirty" ELSE "Clean"]

unpin(p, b) ==
  IF Holding(p, b) # {} /\ p.frames[find(p, b)].state = "Pinned"
  THEN SetFrame(p, find(p, b), Unpinned(p.frames[find(p, b)]))
  ELSE p

-----------------------------------------------------------------------------
\* flush_all writes these frames, in index order.
ToFlush(p) == {i \in DOMAIN p.frames :
                 \/ p.frames[i].state = "Dirty"
                 \/ p.frames[i].dirty_intent /\ p.frames[i].state = "Pinned"}

\* The device once the frames W have been written.
Written(p, W) == [b \in Block |->
  IF W \cap Holding(p, b) # {} THEN p.frames[Max(W \cap Holding(p, b))].page
                               ELSE p.device[b]]

Flushed(f) == [f EXCEPT !.dirty_intent = FALSE,
                        !.state = IF @ = "Dirty" THEN "Clean" ELSE @]

FlushFrames(p, W) ==
  [p EXCEPT !.device = Written(p, W),
            !.frames = [i \in DOMAIN p.frames |->
                          IF i \in W THEN Flushed(p.frames[i]) ELSE p.frames[i]]]

\* The writes of flush_all: `upto` is the index of the frame whose write fails
\* with outcome wr, or Len(frames) + 1 when every write succeeds.
FlushPoints(p) == ToFlush(p) \cup {Len(p.frames) + 1}

flush_writes(p, upto, wr) ==
  LET q == FlushFrames(p, {i \in ToFlush(p) : i < upto}) IN
  IF upto \in ToFlush(p)
  THEN [q EXCEPT !.device = write_block(@, p.frames[upto].block, p.frames[upto].page, wr)]
  ELSE q

-----------------------------------------------------------------------------
\* The image a reader of block b is given: a frame that holds it, free ones
\* included, shadows the device.
Logical(p, b) ==
  IF Holding(p, b) # {} THEN p.frames[find(p, b)].page ELSE p.device[b]

\* What is true of a frame between calls: it is pinned exactly when it has a
\* pin, and its page is that of the device unless it is marked dirty.
FrameOK(f, device) ==
  /\ f.state = "Pinned" <=> f.pins > 0
  /\ f.state = "Dirty" => f.dirty_intent
  /\ f.dirty_intent => f.state \in {"Dirty", "Pinned"}
  /\ f.state # "Free" => f.block # NoBlock
  /\ f.block # NoBlock /\ ~f.dirty_intent => f.page = device[f.block]

\* No block is cached twice and every frame is as above.
Coherent(p) ==
  /\ \A i, j \in DOMAIN p.frames :
       p.frames[i].block = p.frames[j].block /\ p.frames[i].block # NoBlock => i = j
  /\ \A i \in DOMAIN p.frames : FrameOK(p.frames[i], p.device)

\* The LRU order lists every frame in use, once, and no free frame.
LruExact(p) ==
  /\ IsInjective(p.lru)
  /\ Range(p.lru) = {i \in DOMAIN p.frames : p.frames[i].state # "Free"}
=============================================================================
