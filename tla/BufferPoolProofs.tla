-------------------------- MODULE BufferPoolProofs --------------------------
(***************************************************************************)
(* Proofs about the buffer pool for every device, page set and capacity:   *)
(* the representation invariant, what a step may do to pinned pages and to *)
(* the device, and that the pool implements PageStore.                     *)
(***************************************************************************)
EXTENDS BufferPool, BufferPoolLemmas

\* The inductive invariant.
Inv == /\ WellFormed(pool)
       /\ ret \in Page \cup {"none", "err"}

\* What every step is shown to do, besides keeping Inv.
Unpaged == pool.steal \/ pool'.device = pool.device \/ FlushAll
Pinned == \A i \in DOMAIN pool.frames : pool.frames[i].state = "Pinned" =>
            /\ pool'.frames[i].block = pool.frames[i].block
            /\ pool'.frames[i].page # pool.frames[i].page =>
                 /\ pool'.frames[i].dirty_intent
                 /\ pool'.frames[i].pins = pool.frames[i].pins + 1

\* The invariant holds initially.
LEMMA InitInv == Init => Inv
<1> SUFFICES ASSUME Init PROVE Inv
  OBVIOUS
<1>1. PICK device \in Device : pool \in {new(device), no_steal(new(device))}
  BY DEF Init
<1>2. \E st \in BOOLEAN :
        pool = [device |-> device, frames |-> <<>>, lru |-> <<>>, steal |-> st]
  BY <1>1, Zenon DEF new, no_steal
<1>3. /\ pool.device = device /\ pool.frames = <<>> /\ pool.lru = <<>>
      /\ pool.steal \in BOOLEAN
  BY <1>2
<1>4. /\ <<>> \in Seq(Frame) /\ <<>> \in Seq(Nat)
      /\ Len(<<>>) = 0 /\ DOMAIN <<>> = {}
  BY EmptySeq
<1>5. pool \in Pool
  BY <1>2, <1>4 DEF Pool
<1>6. Len(pool.frames) <= Capacity
  BY <1>3, <1>4, CapacityAssumption
<1>7. Coherent(pool)
  BY <1>3, <1>4 DEF Coherent
<1>8. LruExact(pool)
  BY <1>3, <1>4 DEF LruExact, IsInjective, Range
<1>9. ret = "none"
  BY DEF Init
<1> QED BY <1>5, <1>6, <1>7, <1>8, <1>9 DEF Inv, WellFormed

\* A step that changes no image, seen by the abstract store.
LEMMA SameContent ==
  ASSUME SameImages(pool, pool')
  PROVE  [b \in Block |-> Logical(pool, b)]' = [b \in Block |-> Logical(pool, b)]
BY DEF SameImages

\* fetch.
LEMMA FetchStep ==
  ASSUME Inv, NEW b \in Block, Fetch(b)
  PROVE  Inv' /\ Pinned /\ Unpaged /\ Store1!Next
<1>1. PICK rd, wr :
        LET r == fetch(pool, b, rd, wr) IN
        /\ pool' = r.pool
        /\ ret' = IF r.ok THEN r.pool.frames[r.idx].page ELSE "err"
  BY DEF Fetch
<1> DEFINE r == fetch(pool, b, rd, wr)
<1>2. /\ WellFormed(pool') /\ SameImages(pool, pool') /\ PinsKept(pool, pool')
      /\ ~pool.steal => pool'.device = pool.device
      /\ r.ok \in BOOLEAN
      /\ r.ok => /\ r.idx \in DOMAIN pool'.frames
                 /\ pool'.frames[r.idx].page = Logical(pool, b)
  BY <1>1, FetchFacts DEF Inv
<1>3. r.ok => Logical(pool, b) \in Page /\ ret' = Logical(pool, b)
  BY <1>1, <1>2, PoolFacts DEF WellFormed, Frame
<1>4. ~r.ok => ret' = "err"
  BY <1>1
<1> HIDE DEF r
<1>5. Inv'
  BY <1>2, <1>3, <1>4 DEF Inv
<1>6. Pinned /\ Unpaged
  BY <1>2 DEF Pinned, Unpaged, PinsKept
<1>7. CASE r.ok
  <2>1. Store1!Read(b)
    BY <1>2, <1>3, <1>7, SameContent, CorruptAssumption DEF Store1!Read
  <2> QED BY <2>1, <1>5, <1>6 DEF Store1!Next
<1>8. CASE ~r.ok
  <2>1. Store1!Other
    BY <1>2, <1>4, <1>8, SameContent DEF Store1!Other
  <2> QED BY <2>1, <1>5, <1>6 DEF Store1!Next
<1> QED BY <1>2, <1>7, <1>8

\* fetch_mut and the store through its page.
LEMMA FetchMutStep ==
  ASSUME Inv, NEW b \in Block, NEW pg \in Page, FetchMut(b, pg)
  PROVE  Inv' /\ Pinned /\ Unpaged /\ Store1!Next
<1>1. PICK rd, wr :
        LET r == fetch_mut(pool, b, rd, wr) IN
        /\ pool' = StoreThrough(r, pg)
        /\ ret' = IF r.ok THEN r.pool.frames[r.idx].page ELSE "err"
  BY DEF FetchMut, StoreThrough
<1> DEFINE r == fetch_mut(pool, b, rd, wr)
<1>2. /\ WellFormed(pool')
      /\ ~pool.steal => pool'.device = pool.device
      /\ r.ok \in BOOLEAN
      /\ r.ok => /\ r.pool.frames[r.idx].page = Logical(pool, b)
                 /\ Logical(pool, b) \in Page
                 /\ \A c \in Block : Logical(pool', c) = IF c = b THEN pg ELSE Logical(pool, c)
      /\ ~r.ok => SameImages(pool, pool')
      /\ Pinned
  <2> DEFINE q == StoreThrough(r, pg)
  <2>1. WellFormed(pool) /\ pool' = q
    BY <1>1, Zenon DEF Inv
  <2>2. WellFormed(q) /\ (~pool.steal => q.device = pool.device) /\ r.ok \in BOOLEAN
    BY <2>1, FetchMutFacts
  <2>3. r.ok => /\ r.pool.frames[r.idx].page = Logical(pool, b)
                /\ Logical(pool, b) \in Page
                /\ \A c \in Block : Logical(q, c) = IF c = b THEN pg ELSE Logical(pool, c)
    BY <2>1, FetchMutFacts, Zenon
  <2>4. ~r.ok => SameImages(pool, q)
    BY <2>1, FetchMutFacts, Zenon
  <2>5. \A i \in DOMAIN pool.frames : pool.frames[i].state = "Pinned" =>
          /\ q.frames[i].block = pool.frames[i].block
          /\ q.frames[i].page # pool.frames[i].page =>
               q.frames[i].dirty_intent /\ q.frames[i].pins = pool.frames[i].pins + 1
    BY <2>1, FetchMutFacts
  <2> HIDE DEF q, r
  <2> QED BY <2>1, <2>2, <2>3, <2>4, <2>5, Zenon DEF Pinned
<1>3. ret' = IF r.ok THEN Logical(pool, b) ELSE "err"
  BY <1>1, <1>2
<1> HIDE DEF r
<1>5. Inv' /\ Unpaged
  BY <1>2, <1>3 DEF Inv, Unpaged
<1>7. CASE r.ok
  <2>1. [c \in Block |-> Logical(pool, c)]'
          = [[c \in Block |-> Logical(pool, c)] EXCEPT ![b] = pg]
    BY <1>2, <1>7, Zenon
  <2>2. Store1!Write(b, pg)
    BY <2>1, <1>2, <1>3, <1>7, CorruptAssumption DEF Store1!Write
  <2> QED BY <2>2, <1>2, <1>5 DEF Store1!Next
<1>8. CASE ~r.ok
  <2>1. Store1!Other
    BY <1>2, <1>3, <1>8, SameContent DEF Store1!Other
  <2> QED BY <2>1, <1>2, <1>5 DEF Store1!Next
<1> QED BY <1>2, <1>7, <1>8

\* unpin.
LEMMA UnpinStep ==
  ASSUME Inv, NEW b \in Block, Unpin(b)
  PROVE  Inv' /\ Pinned /\ Unpaged /\ Store1!Next
<1>1. /\ WellFormed(pool') /\ SameImages(pool, pool') /\ PinsKept(pool, pool')
      /\ pool'.device = pool.device
  BY UnpinFacts DEF Inv, Unpin
<1>2. ret' = "none"
  BY DEF Unpin
<1>3. Store1!Other
  BY <1>1, <1>2, SameContent DEF Store1!Other
<1> QED BY <1>1, <1>2, <1>3 DEF Inv, Pinned, Unpaged, PinsKept, Store1!Next

\* reserve.
LEMMA ReserveStep ==
  ASSUME Inv, NEW b \in Block, Reserve(b)
  PROVE  Inv' /\ Pinned /\ Unpaged /\ Store1!Next
<1>1. PICK wr : /\ pool' = reserve(pool, b, wr).pool
                /\ ret' \in {"none", "err"}
  BY DEF Reserve
<1>2. WellFormed(pool) /\ pool \in Pool
  BY DEF Inv, WellFormed
<1>3. WellFormed(pool') /\ Undisturbed(pool, pool')
  <2>1. CASE Holding(pool, b) # {}
    <3>1. pool' = pool
      BY <1>1, <2>1 DEF reserve, Ok
    <3>2. Undisturbed(pool, pool)
      BY <1>2, UndisturbedRefl
    <3> QED BY <3>1, <3>2, <1>2
  <2>2. CASE Holding(pool, b) = {}
    <3>1. pool' = acquire_frame(pool, wr).pool
      BY <1>1, <2>2 DEF reserve
    <3> QED BY <3>1, <1>2, AcquireFacts
  <2> QED BY <2>1, <2>2
<1>4. Store1!Other
  BY <1>1, <1>3, SameContent DEF Store1!Other, Undisturbed
<1>5. Pinned /\ Unpaged
  BY <1>3 DEF Undisturbed, Pinned, Unpaged
<1> QED BY <1>1, <1>3, <1>4, <1>5 DEF Inv, Store1!Next

\* flush_all.
LEMMA FlushAllStep ==
  ASSUME Inv, FlushAll
  PROVE  Inv' /\ Pinned /\ Unpaged /\ Store1!Next
<1>1. PICK upto, wr : /\ pool' = flush_writes(pool, upto, wr)
                      /\ ret' \in {"none", "err"}
  BY DEF FlushAll
<1>2. WellFormed(pool') /\ SameImages(pool, pool') /\ PinsKept(pool, pool')
  BY <1>1, FlushWritesFacts DEF Inv
<1>3. Store1!Other
  BY <1>1, <1>2, SameContent DEF Store1!Other
<1> QED BY <1>1, <1>2, <1>3 DEF Inv, Pinned, Unpaged, PinsKept, Store1!Next

\* Every step of the pool keeps the invariant and refines a step of the store.
LEMMA NextStep ==
  ASSUME Inv, Next
  PROVE  Inv' /\ Pinned /\ Unpaged /\ Store1!Next
BY FetchStep, FetchMutStep, UnpinStep, ReserveStep, FlushAllStep DEF Next

\* So does a step that changes nothing.
LEMMA Stutter ==
  ASSUME Inv, UNCHANGED vars
  PROVE  Inv'
BY DEF Inv, vars

\* The invariant holds throughout.
LEMMA Invariance == Spec => []Inv
<1>1. Inv /\ [Next]_vars => Inv'
  BY NextStep, Stutter
<1> QED BY InitInv, <1>1, PTL DEF Spec

-----------------------------------------------------------------------------
\* The pool has its type and never more than Capacity frames (acquire_frame).
THEOREM TypeCorrect == Spec => []TypeOK
<1>1. Inv => TypeOK
  BY DEF Inv, WellFormed, TypeOK
<1> QED BY <1>1, Invariance, PTL

\* fetch, evict, unpin and flush_all keep the pool coherent: one frame per
\* block, and a frame differs from the device only if it is marked dirty.
THEOREM CoherenceHolds == Spec => []Coherence
<1>1. Inv => Coherence
  BY DEF Inv, WellFormed, Coherence
<1> QED BY <1>1, Invariance, PTL

\* touch and evict keep the LRU order exact.
THEOREM LruExactHolds == Spec => []LruTracksFramesInUse
<1>1. Inv => LruTracksFramesInUse
  BY DEF Inv, WellFormed, LruTracksFramesInUse
<1> QED BY <1>1, Invariance, PTL

\* acquire_frame gives up exactly when the pool is full and no frame may be
\* evicted: the error its documentation describes is the only one.
THEOREM RefusalIsExact == Spec => []RefusedOnlyWhenFull
<1>1. ASSUME Inv PROVE RefusedOnlyWhenFull
  <2> DEFINE r == acquire_frame(pool, "ok")
             room == \/ Len(pool.frames) < Capacity
                     \/ \E i \in DOMAIN pool.frames : Evictable(pool, i)
  <2>1. WellFormed(pool)
    BY <1>1 DEF Inv
  <2>2. CASE FreeFrames(pool) # {}
    <3>1. r.ok = TRUE
      BY <2>2 DEF acquire_frame, Ok
    <3>2. PICK i \in DOMAIN pool.frames : pool.frames[i].state = "Free"
      BY <2>2 DEF FreeFrames
    <3>3. Evictable(pool, i)
      BY <3>2 DEF Evictable
    <3> QED BY <3>1, <3>3 DEF RefusedOnlyWhenFull
  <2>3. CASE FreeFrames(pool) = {} /\ MayGrow(pool)
    <3>1. r.ok = TRUE
      BY <2>3 DEF acquire_frame, Ok
    <3> QED BY <3>1, <2>3 DEF RefusedOnlyWhenFull, MayGrow
  <2>4. CASE FreeFrames(pool) = {} /\ ~MayGrow(pool) /\ Victims(pool) # {}
    <3>1. r = evict(pool, "ok")
      BY <2>4 DEF acquire_frame
    <3>2. r.ok
      BY <2>1, <2>4, <3>1, EvictFacts
    <3>3. Victim(pool) \in DOMAIN pool.frames /\ Evictable(pool, Victim(pool))
      BY <2>1, <2>4, VictimFacts
    <3> QED BY <3>2, <3>3 DEF RefusedOnlyWhenFull
  <2>5. CASE FreeFrames(pool) = {} /\ ~MayGrow(pool) /\ Victims(pool) = {}
    <3>1. r.ok = FALSE
      BY <2>5 DEF acquire_frame, Err
    <3>2. \A i \in DOMAIN pool.frames : pool.frames[i].state # "Free"
      BY <2>5 DEF FreeFrames
    <3>3. \A i \in DOMAIN pool.frames : ~Evictable(pool, i)
      BY <2>1, <2>5, <3>2, VictimExists
    <3> QED BY <3>1, <3>3, <2>5 DEF RefusedOnlyWhenFull, MayGrow
  <2> QED BY <2>2, <2>3, <2>4, <2>5
<1> QED BY <1>1, Invariance, PTL

\* While a frame is pinned no step gives it to another block, and only a
\* fetch_mut that pins it once more changes its bytes.
THEOREM PinnedPagesStay == Spec => PinnedPageStays
<1> DEFINE A == \A i \in DOMAIN pool.frames :
                  LET f == pool.frames[i]
                      g == pool'.frames[i]
                  IN f.state = "Pinned" =>
                       /\ g.block = f.block
                       /\ g.page # f.page => g.dirty_intent /\ g.pins = f.pins + 1
<1>1. Inv /\ [Next]_vars => [A]_vars
  BY NextStep DEF Pinned
<1>2. Spec => [][A]_vars
  BY <1>1, Invariance, PTL DEF Spec
<1> QED BY <1>2 DEF PinnedPageStays

\* In a no-steal pool only flush_all changes the device.
THEOREM NoStealKeepsDevice == Spec => NoStealDevice
<1> DEFINE A == pool.steal \/ pool'.device = pool.device \/ FlushAll
<1>1. Inv /\ [Next]_vars => [A]_vars
  BY NextStep DEF Unpaged
<1>2. Spec => [][A]_vars
  BY <1>1, Invariance, PTL DEF Spec
<1> QED BY <1>2 DEF NoStealDevice

\* The pool, whatever it caches, evicts and flushes and whichever device call
\* fails, is one page image per block.
THEOREM PoolImplementsPageStore == Spec => ImplementsPageStore
<1>1. Init => Store1!Init
  <2> SUFFICES ASSUME Init PROVE Store1!Init
    OBVIOUS
  <2>1. PICK device \in Device : pool \in {new(device), no_steal(new(device))}
    BY DEF Init
  <2>2. pool.device = device /\ pool.frames = <<>>
    BY <2>1 DEF new, no_steal
  <2>3. \A b \in Block : Logical(pool, b) = device[b]
    BY <2>2, EmptySeq DEF Logical, Holding
  <2>4. [b \in Block |-> Logical(pool, b)] \in [Block -> Page \cup {Corrupt}]
    BY <2>3 DEF Device, Content
  <2>5. ret = "none"
    BY DEF Init
  <2> QED BY <2>4, <2>5 DEF Store1!Init
<1>2. Inv /\ [Next]_vars => [Store1!Next]_Store1!vars
  <2>1. UNCHANGED vars => UNCHANGED Store1!vars
    BY DEF vars, Store1!vars
  <2> QED BY <2>1, NextStep
<1>3. Spec => Store1!Spec
  BY <1>1, <1>2, Invariance, PTL DEF Spec, Store1!Spec
<1> QED BY <1>3 DEF ImplementsPageStore
=============================================================================
