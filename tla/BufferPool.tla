----------------------------- MODULE BufferPool -----------------------------
(***************************************************************************)
(* A buffer pool of its own (page.rs), used by any number of clients that  *)
(* fetch, modify, unpin and flush pages of a device whose calls may fail.  *)
(*                                                                         *)
(* fetch and fetch_mut return a reference that borrows the pool, so a      *)
(* client reads or overwrites the page before the next call of the pool:   *)
(* the store through the reference belongs to the step of fetch_mut.       *)
(***************************************************************************)
EXTENDS BufferPoolOps

CONSTANT MaxPins  \* bound on the pins of one frame

ASSUME MaxPinsAssumption == MaxPins \in Nat

VARIABLES
  pool,  \* the pool, with the device it owns
  ret    \* the image handed out by the last call, "err" if it failed

vars == <<pool, ret>>

Init == /\ \E device \in Device :
             pool \in {new(device), no_steal(new(device))}
        /\ ret = "none"

MayPin(b) == \A i \in Holding(pool, b) : pool.frames[i].pins < MaxPins

Fetch(b) ==
  /\ MayPin(b)
  /\ \E r \in {fetch(pool, b, rd, wr) : rd \in ReadOutcome, wr \in WriteOutcome} :
       /\ pool' = r.pool
       /\ ret' = IF r.ok THEN r.pool.frames[r.idx].page ELSE "err"

FetchMut(b, pg) ==
  /\ MayPin(b)
  /\ \E r \in {fetch_mut(pool, b, rd, wr) : rd \in ReadOutcome, wr \in WriteOutcome} :
       IF r.ok THEN /\ pool' = Store(r.pool, r.idx, pg)
                    /\ ret' = r.pool.frames[r.idx].page
               ELSE /\ pool' = r.pool
                    /\ ret' = "err"

Unpin(b) == /\ pool' = unpin(pool, b)
            /\ ret' = "none"

Reserve(b) ==
  \E r \in {reserve(pool, b, wr) : wr \in WriteOutcome} :
    /\ pool' = r.pool
    /\ ret' = IF r.ok THEN "none" ELSE "err"

\* The call ends after the write that fails, or with the sync of the device,
\* which may fail too and changes nothing in the pool.
FlushAll == \E upto \in FlushPoints(pool), wr \in WriteOutcome \ {"ok"} :
  /\ pool' = flush_writes(pool, upto, wr)
  /\ ret' \in IF upto \in ToFlush(pool) THEN {"err"} ELSE {"none", "err"}

Next == \/ \E b \in Block : Fetch(b) \/ Unpin(b) \/ Reserve(b)
        \/ \E b \in Block, pg \in Page : FetchMut(b, pg)
        \/ FlushAll

Spec == Init /\ [][Next]_vars

-----------------------------------------------------------------------------
\* The state has its type and the pool no more than Capacity frames.
TypeOK ==
  /\ pool \in Pool
  /\ Len(pool.frames) <= Capacity
  /\ ret \in Page \cup {"none", "err"}

\* No block is cached twice, and a frame whose page differs from the device
\* is marked dirty, pinned or not.  Freed frames are included: find still hits
\* them by their stale id and hands their bytes out without reading the device.
Coherence == Coherent(pool)

\* The LRU order lists each frame in use exactly once and no free frame:
\* otherwise eviction would free a frame twice, or never find one.
LruTracksFramesInUse == LruExact(pool)

\* A call that needs a frame is refused exactly when the pool is full and
\* eviction is allowed to touch none of its frames (fetch: "an error if the
\* pool is full and every frame is pinned"; no_steal: or uncommitted).
RefusedOnlyWhenFull ==
  acquire_frame(pool, "ok").ok <=>
    \/ Len(pool.frames) < Capacity
    \/ \E i \in DOMAIN pool.frames : Evictable(pool, i)

\* While a client holds a pin, no step moves the frame to another block or
\* changes its bytes, unless it is a write that pins that same frame again.
PinnedPageStays ==
  [][\A i \in DOMAIN pool.frames :
       LET f == pool.frames[i]
           g == pool'.frames[i]
       IN f.state = "Pinned" =>
            /\ g.block = f.block
            /\ g.page # f.page => g.dirty_intent /\ g.pins = f.pins + 1]_vars

\* In a no-steal pool the device changes by flush_all alone, so it never
\* holds an image that was not flushed.
NoStealDevice == [][pool.steal \/ pool'.device = pool.device \/ FlushAll]_vars

\* The pool implements one image per block.
Store1 == INSTANCE PageStore WITH content <- [b \in Block |-> Logical(pool, b)]
ImplementsPageStore == Store1!Spec
=============================================================================
