-------------------------- MODULE BufferPoolLemmas --------------------------
(***************************************************************************)
(* The representation invariant of a buffer pool; what finding, replacing, *)
(* evicting and acquiring frames preserve of a well-formed pool and do to  *)
(* the image of every block; and the same of the calls fetch, fetch_mut,   *)
(* unpin and flush_all, with what they leave of the frames that clients    *)
(* hold pinned and of the pages that are still to be written.              *)
(***************************************************************************)
EXTENDS BufferPoolOps, SequenceLemmas

\* The representation invariant of a pool.
WellFormed(p) == /\ p \in Pool
                 /\ Len(p.frames) <= Capacity
                 /\ Coherent(p)
                 /\ LruExact(p)

\* Every block has the same image in both pools.
SameImages(p, q) == \A b \in Block : Logical(q, b) = Logical(p, b)

\* Removing x from a sequence without repetitions takes out x and nothing else.
LEMMA RemoveIdxProperties ==
  ASSUME NEW T, NEW s \in Seq(T), IsInjective(s), NEW x
  PROVE  /\ RemoveIdx(s, x) \in Seq(T)
         /\ IsInjective(RemoveIdx(s, x))
         /\ Range(RemoveIdx(s, x)) = Range(s) \ {x}
<1>0. Len(s) \in Nat /\ DOMAIN s = 1..Len(s)
  BY LenProperties
<1>1. CASE ~ \E k \in 1..Len(s) : s[k] = x
  <2>1. RemoveIdx(s, x) = s
    BY <1>0, <1>1 DEF RemoveIdx
  <2>2. x \notin Range(s)
    BY <1>0, <1>1 DEF Range
  <2> QED BY <2>1, <2>2
<1>2. CASE \E k \in 1..Len(s) : s[k] = x
  <2> DEFINE I == {k \in 1..Len(s) : s[k] = x}
             i == Min(I)
             r == SubSeq(s, 1, i - 1) \o SubSeq(s, i + 1, Len(s))
  <2>1. I # {} /\ I \subseteq Nat
    BY <1>0, <1>2
  <2>2. i \in I
    <3> HIDE DEF I
    <3> QED BY <2>1, MinOfNats, Zenon
  <2>3. RemoveIdx(s, x) = r
    BY <1>0, <2>1 DEF RemoveIdx
  <2>4. i \in 1..Len(s) /\ s[i] = x
    BY <2>2
  <2> HIDE DEF i
  <2>5. /\ r \in Seq(T)
        /\ Len(r) = Len(s) - 1
        /\ \A k \in 1..(Len(s) - 1) : r[k] = IF k < i THEN s[k] ELSE s[k + 1]
    BY <2>4, CutProperties
  <2>6. DOMAIN r = 1..(Len(s) - 1)
    BY <2>5, LenProperties
  <2> HIDE DEF r
  <2>7. IsInjective(r)
    <3> SUFFICES ASSUME NEW k \in 1..(Len(s) - 1), NEW l \in 1..(Len(s) - 1), r[k] = r[l]
                 PROVE  k = l
      BY <2>6 DEF IsInjective
    <3> DEFINE up(m) == IF m < i THEN m ELSE m + 1
    <3>1. r[k] = s[up(k)] /\ r[l] = s[up(l)] /\ up(k) \in 1..Len(s) /\ up(l) \in 1..Len(s)
      BY <2>5, <1>0, <2>4
    <3>2. up(k) = up(l)
      <4> HIDE DEF up
      <4> QED BY <3>1, <1>0, Zenon DEF IsInjective
    <3> QED BY <3>2, <2>4, <1>0
  <2>8. Range(r) \subseteq Range(s) \ {x}
    <3> SUFFICES ASSUME NEW k \in 1..(Len(s) - 1) PROVE r[k] \in Range(s) \ {x}
      BY <2>6 DEF Range
    <3>1. \E m \in 1..Len(s) : m # i /\ r[k] = s[m]
      <4>1. CASE k < i
        BY <4>1, <2>5, <2>4, <1>0
      <4>2. CASE ~(k < i)
        BY <4>2, <2>5, <2>4, <1>0
      <4> QED BY <4>1, <4>2
    <3> QED BY <3>1, <2>4, <1>0 DEF Range, IsInjective
  <2>9. Range(s) \ {x} \subseteq Range(r)
    <3> SUFFICES ASSUME NEW m \in 1..Len(s), s[m] # x PROVE \E k \in 1..(Len(s) - 1) : r[k] = s[m]
      BY <2>6, <1>0 DEF Range
    <3>1. CASE m < i
      BY <3>1, <2>5, <2>4, <1>0
    <3>2. CASE ~(m < i)
      <4>1. m # i
        BY <2>4
      <4>2. m - 1 \in 1..(Len(s) - 1) /\ ~(m - 1 < i) /\ (m - 1) + 1 = m
        BY <4>1, <3>2, <2>4, <1>0
      <4> QED BY <4>2, <2>5
    <3> QED BY <3>1, <3>2
  <2> QED BY <2>3, <2>5, <2>7, <2>8, <2>9
<1> QED BY <1>1, <1>2

\* Fields of a pool.
LEMMA PoolFacts ==
  ASSUME NEW p \in Pool
  PROVE  /\ p.device \in [Block -> Page \cup {Corrupt}]
         /\ p.frames \in Seq(Frame)
         /\ p.lru \in Seq(Nat)
         /\ p.steal \in BOOLEAN
         /\ Len(p.frames) \in Nat
         /\ DOMAIN p.frames = 1..Len(p.frames)
         /\ \A i \in DOMAIN p.frames : p.frames[i] \in Frame
<1>1. /\ p.device \in [Block -> Page \cup {Corrupt}]
      /\ p.frames \in Seq(Frame)
      /\ p.lru \in Seq(Nat)
      /\ p.steal \in BOOLEAN
  BY DEF Pool, Device, Content
<1>2. Len(p.frames) \in Nat /\ DOMAIN p.frames = 1..Len(p.frames)
  BY <1>1, LenProperties
<1>3. \A i \in DOMAIN p.frames : p.frames[i] \in Frame
  BY <1>1, <1>2, ElementOfSeq
<1> QED BY <1>1, <1>2, <1>3

\* SetFrame replaces one frame and nothing else.
LEMMA SetFrameFacts ==
  ASSUME NEW p \in Pool, NEW i \in DOMAIN p.frames, NEW f \in Frame
  PROVE  LET q == SetFrame(p, i, f) IN
         /\ q \in Pool
         /\ q.device = p.device /\ q.lru = p.lru /\ q.steal = p.steal
         /\ Len(q.frames) = Len(p.frames)
         /\ DOMAIN q.frames = DOMAIN p.frames
         /\ q.frames[i] = f
         /\ \A j \in DOMAIN p.frames : j # i => q.frames[j] = p.frames[j]
<1> DEFINE s == [p.frames EXCEPT ![i] = f]
           q == SetFrame(p, i, f)
<1>1. /\ p.frames \in Seq(Frame)
      /\ i \in 1..Len(p.frames)
      /\ DOMAIN p.frames = 1..Len(p.frames)
  BY PoolFacts
<1>2. /\ s \in Seq(Frame)
      /\ Len(s) = Len(p.frames)
      /\ \A j \in 1..Len(p.frames) : s[j] = IF j = i THEN f ELSE p.frames[j]
  BY <1>1, ExceptSeq
<1>3. q = [p EXCEPT !.frames = s]
  BY DEF SetFrame
<1>4. q = [device |-> p.device, frames |-> s, lru |-> p.lru, steal |-> p.steal]
  BY <1>3, Zenon DEF Pool
<1>5. DOMAIN s = DOMAIN p.frames
  OBVIOUS
<1>6. q \in Pool
  BY <1>2, <1>4, PoolFacts DEF Pool, Device, Content
<1> HIDE DEF s, q
<1>7. q.device = p.device /\ q.lru = p.lru /\ q.steal = p.steal /\ q.frames = s
  BY <1>4
<1>8. q.frames[i] = f /\ \A j \in DOMAIN p.frames : j # i => q.frames[j] = p.frames[j]
  BY <1>1, <1>2, <1>7
<1> QED BY <1>1, <1>2, <1>5, <1>6, <1>7, <1>8 DEF q

\* The frame that holds a block is the one find returns, and shadows the device.
LEMMA FindFacts ==
  ASSUME NEW p, p \in Pool, Coherent(p), NEW b \in Block
  PROVE  /\ \A i \in DOMAIN p.frames : p.frames[i].block = b =>
              /\ Holding(p, b) = {i}
              /\ find(p, b) = i
              /\ Logical(p, b) = p.frames[i].page
         /\ (\A i \in DOMAIN p.frames : p.frames[i].block # b) =>
              /\ Holding(p, b) = {}
              /\ Logical(p, b) = p.device[b]
         /\ Holding(p, b) # {} =>
              /\ find(p, b) \in DOMAIN p.frames
              /\ p.frames[find(p, b)].block = b
<1>1. b # NoBlock
  BY NoBlockAssumption
<1>2. \A i \in DOMAIN p.frames : p.frames[i].block = b => Holding(p, b) = {i}
  BY <1>1 DEF Holding, Coherent
<1>3. \A i \in DOMAIN p.frames : i \in Nat
  BY PoolFacts
<1>4. \A i \in DOMAIN p.frames : p.frames[i].block = b => find(p, b) = i
  BY <1>2, <1>3, MinOfNats DEF find
<1>5. \A i \in DOMAIN p.frames : p.frames[i].block = b => Logical(p, b) = p.frames[i].page
  BY <1>2, <1>4 DEF Logical
<1>6. (\A i \in DOMAIN p.frames : p.frames[i].block # b) => Holding(p, b) = {}
  BY DEF Holding
<1>7. Holding(p, b) # {} => \E i \in DOMAIN p.frames : p.frames[i].block = b
  BY DEF Holding
<1> QED BY <1>2, <1>4, <1>5, <1>6, <1>7 DEF Logical

-----------------------------------------------------------------------------
\* Replacing one frame keeps a pool coherent, if the frame is right and its
\* block is cached nowhere else.
LEMMA ReplaceCoherent ==
  ASSUME NEW p \in Pool, NEW q \in Pool, Coherent(p),
         NEW i \in DOMAIN p.frames,
         DOMAIN q.frames = DOMAIN p.frames,
         \A j \in DOMAIN p.frames : j # i => q.frames[j] = p.frames[j],
         FrameOK(q.frames[i], q.device),
         \/ q.frames[i].block = p.frames[i].block
         \/ \A j \in DOMAIN p.frames : p.frames[j].block # q.frames[i].block,
         \A b \in Block : b # p.frames[i].block => q.device[b] = p.device[b]
  PROVE  Coherent(q)
<1>1. ASSUME NEW j \in DOMAIN q.frames, NEW k \in DOMAIN q.frames,
             q.frames[j].block = q.frames[k].block, q.frames[j].block # NoBlock
      PROVE  j = k
  BY <1>1 DEF Coherent
<1>2. ASSUME NEW j \in DOMAIN q.frames PROVE FrameOK(q.frames[j], q.device)
  <2>1. CASE j = i
    BY <2>1
  <2>2. CASE j # i
    <3>1. q.frames[j] = p.frames[j] /\ FrameOK(p.frames[j], p.device)
      BY <2>2, <1>2 DEF Coherent
    <3>2. p.frames[j].block # NoBlock => p.frames[j].block # p.frames[i].block
      BY <2>2, <1>2 DEF Coherent
    <3>3. p.frames[j].block \in Block \cup {NoBlock}
      BY <1>2, PoolFacts DEF Frame
    <3>4. p.frames[j].block # NoBlock => q.device[p.frames[j].block] = p.device[p.frames[j].block]
      BY <3>2, <3>3
    <3> QED BY <3>1, <3>4 DEF FrameOK
  <2> QED BY <2>1, <2>2
<1> QED BY <1>1, <1>2 DEF Coherent

\* The images after replacing one frame: the frame's page for its block, the
\* device's page for a block that lost its frame, no change for the others.
LEMMA ReplaceImages ==
  ASSUME NEW p \in Pool, NEW q \in Pool, Coherent(p), Coherent(q),
         NEW i \in DOMAIN p.frames,
         DOMAIN q.frames = DOMAIN p.frames,
         \A j \in DOMAIN p.frames : j # i => q.frames[j] = p.frames[j],
         \A b \in Block : b # p.frames[i].block => q.device[b] = p.device[b]
  PROVE  /\ q.frames[i].block \in Block =>
              Logical(q, q.frames[i].block) = q.frames[i].page
         /\ \A b \in Block :
              \/ b = q.frames[i].block
              \/ /\ b # p.frames[i].block
                 /\ Logical(q, b) = Logical(p, b)
              \/ /\ b = p.frames[i].block
                 /\ Logical(q, b) = q.device[b]
<1>1. q.frames[i].block \in Block => Logical(q, q.frames[i].block) = q.frames[i].page
  BY FindFacts
<1>2. ASSUME NEW b \in Block, b # q.frames[i].block, b # p.frames[i].block
      PROVE  Logical(q, b) = Logical(p, b)
  <2>1. CASE \E j \in DOMAIN p.frames : p.frames[j].block = b
    <3>1. PICK j \in DOMAIN p.frames : p.frames[j].block = b
      BY <2>1
    <3>2. j # i /\ q.frames[j] = p.frames[j]
      BY <3>1, <1>2
    <3>3. Logical(p, b) = p.frames[j].page
      BY <3>1, FindFacts
    <3>4. Logical(q, b) = q.frames[j].page
      BY <3>1, <3>2, FindFacts
    <3> QED BY <3>2, <3>3, <3>4
  <2>2. CASE \A j \in DOMAIN p.frames : p.frames[j].block # b
    <3>1. \A j \in DOMAIN q.frames : q.frames[j].block # b
      BY <2>2, <1>2
    <3>2. Logical(p, b) = p.device[b] /\ Logical(q, b) = q.device[b]
      BY <2>2, <3>1, FindFacts
    <3> QED BY <3>2, <1>2
  <2> QED BY <2>1, <2>2
<1>3. ASSUME NEW b \in Block, b # q.frames[i].block, b = p.frames[i].block
      PROVE  Logical(q, b) = q.device[b]
  <2>1. \A j \in DOMAIN q.frames : q.frames[j].block # b
    BY <1>3, NoBlockAssumption DEF Coherent
  <2> QED BY <2>1, FindFacts
<1> QED BY <1>1, <1>2, <1>3

\* touch moves a frame to the end of the LRU order and changes nothing else.
LEMMA TouchFacts ==
  ASSUME NEW p \in Pool, IsInjective(p.lru), NEW i \in Nat
  PROVE  LET q == touch(p, i) IN
         /\ q \in Pool
         /\ q.device = p.device /\ q.frames = p.frames /\ q.steal = p.steal
         /\ IsInjective(q.lru)
         /\ Range(q.lru) = Range(p.lru) \cup {i}
<1> DEFINE s == RemoveIdx(p.lru, i)
           q == touch(p, i)
<1>1. p.lru \in Seq(Nat)
  BY PoolFacts
<1>2. s \in Seq(Nat) /\ IsInjective(s) /\ Range(s) = Range(p.lru) \ {i}
  BY <1>1, RemoveIdxProperties
<1>4. q = [p EXCEPT !.lru = Append(s, i)]
  BY DEF touch
<1> HIDE DEF s, q
<1>7. i \notin Range(s)
  BY <1>2
<1>3. /\ Append(s, i) \in Seq(Nat)
      /\ IsInjective(Append(s, i))
      /\ Range(Append(s, i)) = Range(s) \cup {i}
  BY <1>2, <1>7, AppendFresh, Zenon
<1>5. q = [device |-> p.device, frames |-> p.frames, lru |-> Append(s, i), steal |-> p.steal]
  BY <1>4, Zenon DEF Pool
<1>6. q \in Pool
  BY <1>3, <1>5, PoolFacts DEF Pool, Device, Content
<1> QED BY <1>2, <1>3, <1>5, <1>6 DEF q

-----------------------------------------------------------------------------
\* Overwriting a frame that stays in use, or stays free.
LEMMA RewriteFacts ==
  ASSUME NEW p, WellFormed(p), NEW i \in DOMAIN p.frames, NEW f \in Frame,
         FrameOK(f, p.device),
         f.block = p.frames[i].block,
         f.state = "Free" <=> p.frames[i].state = "Free"
  PROVE  WellFormed(SetFrame(p, i, f))
<1> DEFINE q == SetFrame(p, i, f)
<1>1. p \in Pool /\ Len(p.frames) <= Capacity /\ Coherent(p) /\ LruExact(p)
  BY DEF WellFormed
<1>2. /\ q \in Pool
      /\ q.device = p.device /\ q.lru = p.lru /\ q.steal = p.steal
      /\ Len(q.frames) = Len(p.frames)
      /\ DOMAIN q.frames = DOMAIN p.frames
      /\ q.frames[i] = f
      /\ \A j \in DOMAIN p.frames : j # i => q.frames[j] = p.frames[j]
  BY <1>1, SetFrameFacts
<1> HIDE DEF q
<1>3. Coherent(q)
  BY <1>1, <1>2, ReplaceCoherent
<1>4. \A j \in DOMAIN p.frames : q.frames[j].state = "Free" <=> p.frames[j].state = "Free"
  BY <1>2
<1>5. LruExact(q)
  BY <1>1, <1>2, <1>4 DEF LruExact
<1>6. WellFormed(q)
  BY <1>1, <1>2, <1>3, <1>5 DEF WellFormed
<1> QED BY <1>6 DEF q

\* Putting a frame in use and touching it.
LEMMA InstallFacts ==
  ASSUME NEW p, WellFormed(p), NEW i \in DOMAIN p.frames, NEW f \in Frame,
         FrameOK(f, p.device), f.state # "Free",
         \/ f.block = p.frames[i].block
         \/ \A j \in DOMAIN p.frames : p.frames[j].block # f.block
  PROVE  LET q == touch(SetFrame(p, i, f), i) IN
         /\ WellFormed(q)
         /\ q.device = p.device /\ q.steal = p.steal
         /\ DOMAIN q.frames = DOMAIN p.frames
         /\ q.frames[i] = f
         /\ \A j \in DOMAIN p.frames : j # i => q.frames[j] = p.frames[j]
<1> DEFINE r == SetFrame(p, i, f)
           q == touch(r, i)
<1>1. p \in Pool /\ Len(p.frames) <= Capacity /\ Coherent(p) /\ LruExact(p)
  BY DEF WellFormed
<1>2. /\ r \in Pool
      /\ r.device = p.device /\ r.lru = p.lru /\ r.steal = p.steal
      /\ Len(r.frames) = Len(p.frames)
      /\ DOMAIN r.frames = DOMAIN p.frames
      /\ r.frames[i] = f
      /\ \A j \in DOMAIN p.frames : j # i => r.frames[j] = p.frames[j]
  BY <1>1, SetFrameFacts
<1>3. i \in Nat /\ IsInjective(p.lru)
  BY <1>1, PoolFacts DEF LruExact
<1> HIDE DEF r
<1>4. /\ q \in Pool
      /\ q.device = r.device /\ q.frames = r.frames /\ q.steal = r.steal
      /\ IsInjective(q.lru)
      /\ Range(q.lru) = Range(r.lru) \cup {i}
  BY <1>2, <1>3, TouchFacts
<1> HIDE DEF q
<1>5. /\ DOMAIN q.frames = DOMAIN p.frames
      /\ Len(q.frames) = Len(p.frames)
      /\ q.frames[i] = f
      /\ q.device = p.device /\ q.steal = p.steal
      /\ \A j \in DOMAIN p.frames : j # i => q.frames[j] = p.frames[j]
  BY <1>2, <1>4
<1>6. Coherent(q)
  BY <1>1, <1>4, <1>5, ReplaceCoherent
<1>7. {j \in DOMAIN q.frames : q.frames[j].state # "Free"}
        = {j \in DOMAIN p.frames : p.frames[j].state # "Free"} \cup {i}
  BY <1>5
<1>8. LruExact(q)
  BY <1>1, <1>2, <1>4, <1>7 DEF LruExact
<1>9. WellFormed(q)
  BY <1>1, <1>4, <1>5, <1>6, <1>8 DEF WellFormed
<1> QED BY <1>5, <1>9 DEF q, r

\* Eviction takes a frame in use that it is allowed to take.
LEMMA VictimFacts ==
  ASSUME NEW p, WellFormed(p), Victims(p) # {}
  PROVE  /\ Victim(p) \in DOMAIN p.frames
         /\ Evictable(p, Victim(p))
         /\ p.frames[Victim(p)].state # "Free"
<1>1. p \in Pool /\ LruExact(p)
  BY DEF WellFormed
<1>2. DOMAIN p.lru \subseteq Nat
  BY <1>1, PoolFacts, LenProperties
<1>3. Min(Victims(p)) \in Victims(p)
  BY <1>2, MinOfNats DEF Victims
<1>4. Min(Victims(p)) \in DOMAIN p.lru /\ Evictable(p, Victim(p))
  BY <1>3 DEF Victims, Victim
<1>5. Victim(p) \in Range(p.lru)
  BY <1>4 DEF Victim, Range
<1> QED BY <1>1, <1>4, <1>5 DEF LruExact

\* Conversely it finds one when there is one.
LEMMA VictimExists ==
  ASSUME NEW p, WellFormed(p), NEW i \in DOMAIN p.frames,
         Evictable(p, i), p.frames[i].state # "Free"
  PROVE  Victims(p) # {}
<1>1. i \in Range(p.lru)
  BY DEF WellFormed, LruExact
<1>2. PICK k \in DOMAIN p.lru : p.lru[k] = i
  BY <1>1 DEF Range
<1> QED BY <1>2 DEF Victims

\* The three outcomes of one write.
LEMMA WriteBlockFacts ==
  ASSUME NEW d \in Device, NEW b \in Block, NEW pg \in Page, NEW wr
  PROVE  /\ write_block(d, b, pg, wr) \in Device
         /\ \A c \in Block : c # b => write_block(d, b, pg, wr)[c] = d[c]
         /\ wr = "ok" => write_block(d, b, pg, wr)[b] = pg
<1>1. CASE wr = "ok"
  <2>1. write_block(d, b, pg, wr) = [d EXCEPT ![b] = pg]
    BY <1>1 DEF write_block
  <2> QED BY <2>1 DEF Device, Content
<1>2. CASE wr = "torn"
  <2>1. write_block(d, b, pg, wr) = [d EXCEPT ![b] = Corrupt]
    BY <1>2 DEF write_block
  <2> QED BY <2>1, <1>2 DEF Device, Content
<1>3. CASE wr # "ok" /\ wr # "torn"
  <2>1. write_block(d, b, pg, wr) = d
    BY <1>3 DEF write_block
  <2> QED BY <2>1, <1>3
<1> QED BY <1>1, <1>2, <1>3

-----------------------------------------------------------------------------
\* What acquiring a frame leaves alone: the images, the frames in use except
\* the victim, and in a no-steal pool the device.
Undisturbed(p, q) ==
  /\ SameImages(p, q)
  /\ q.steal = p.steal
  /\ ~p.steal => q.device = p.device
  /\ DOMAIN p.frames \subseteq DOMAIN q.frames
  /\ \A i \in DOMAIN p.frames : /\ q.frames[i].block = p.frames[i].block
                                /\ q.frames[i].page = p.frames[i].page
                                /\ q.frames[i].pins = p.frames[i].pins
                                /\ q.frames[i].dirty_intent => p.frames[i].dirty_intent
                                /\ p.frames[i].state = "Pinned" => q.frames[i] = p.frames[i]
  /\ \A i \in DOMAIN q.frames \ DOMAIN p.frames : q.frames[i].block = NoBlock

\* The frames that the operations make of a frame, field by field.
LEMMA FreedFacts ==
  ASSUME NEW f \in Frame
  PROVE  /\ Freed(f) \in Frame
         /\ Freed(f).block = f.block /\ Freed(f).page = f.page /\ Freed(f).pins = f.pins
         /\ Freed(f).state = "Free" /\ Freed(f).dirty_intent = FALSE
BY Zenon DEF Freed, Frame, PageState

\* evict frees its victim or fails with an I/O error.
LEMMA EvictFacts ==
  ASSUME NEW p, WellFormed(p), Victims(p) # {}, NEW wr
  PROVE  LET r == evict(p, wr) IN
         /\ WellFormed(r.pool) /\ Undisturbed(p, r.pool)
         /\ r.ok \in BOOLEAN
         /\ r.ok => /\ r.idx \in DOMAIN r.pool.frames
                    /\ r.pool.frames[r.idx].state = "Free"
         /\ wr = "ok" => r.ok
<1> DEFINE i == Victim(p)
           f == p.frames[i]
           d(w) == IF f.state = "Dirty" THEN write_block(p.device, f.block, f.page, w)
                                        ELSE p.device
           l == RemoveIdx(p.lru, i)
           r == evict(p, wr)
<1>1. p \in Pool /\ Len(p.frames) <= Capacity /\ Coherent(p) /\ LruExact(p)
  BY DEF WellFormed
<1>2. /\ i \in DOMAIN p.frames /\ f \in Frame
      /\ f.state # "Free" /\ f.state # "Pinned"
      /\ p.steal \/ f.state # "Dirty"
  BY <1>1, VictimFacts, PoolFacts DEF Evictable
<1>3. FrameOK(f, p.device) /\ f.block \in Block /\ f.page \in Page
  BY <1>1, <1>2 DEF Coherent, FrameOK, Frame
<1>4. ASSUME NEW w
      PROVE  /\ d(w) \in Device
             /\ \A c \in Block : c # f.block => d(w)[c] = p.device[c]
             /\ w = "ok" /\ f.state = "Dirty" => d(w)[f.block] = f.page
             /\ f.state # "Dirty" => d(w) = p.device
  BY <1>1, <1>3, WriteBlockFacts DEF Pool
<1>5. l \in Seq(Nat) /\ IsInjective(l) /\ Range(l) = Range(p.lru) \ {i}
  BY <1>1, PoolFacts, RemoveIdxProperties DEF LruExact
<1>6. CASE f.state = "Dirty" /\ wr # "ok"
  <2> DEFINE q == r.pool
  <2>1. /\ r = Err([p EXCEPT !.device = d(wr)], "Io")
        /\ q = [p EXCEPT !.device = d(wr)]
        /\ r.ok = FALSE
    BY <1>6 DEF evict, Err
  <2> HIDE DEF q, r, d, f, i
  <2>2. /\ q \in Pool
        /\ q.device = d(wr) /\ q.frames = p.frames /\ q.lru = p.lru /\ q.steal = p.steal
    BY <2>1, <1>1, <1>4 DEF Pool
  <2>3. FrameOK(q.frames[i], q.device)
    BY <2>2, <1>3, <1>6 DEF FrameOK, f
  <2>4. Coherent(q)
    BY <2>2, <2>3, <1>1, <1>2, <1>4, ReplaceCoherent DEF f
  <2>5. WellFormed(q)
    BY <2>2, <2>4, <1>1 DEF WellFormed, LruExact
  <2>6. SameImages(p, q)
    <3> SUFFICES ASSUME NEW b \in Block PROVE Logical(q, b) = Logical(p, b)
      BY Zenon DEF SameImages
    <3>1. b = q.frames[i].block => Logical(q, b) = Logical(p, b)
      BY <2>2, <2>4, <1>1, <1>2, FindFacts
    <3>2. b # q.frames[i].block => Logical(q, b) = Logical(p, b)
      BY <2>2, <2>4, <1>1, <1>2, <1>4, ReplaceImages DEF f
    <3> QED BY <3>1, <3>2
  <2>7. Undisturbed(p, q)
    BY <2>2, <2>6, <1>2, <1>6 DEF Undisturbed
  <2> QED BY <2>1, <2>5, <2>7, <1>6, Zenon DEF q, r
<1>7. CASE f.state # "Dirty" \/ wr = "ok"
  <2> DEFINE s == SetFrame(p, i, Freed(f))
             q == r.pool
  <2>2. Freed(f) \in Frame
    BY <1>2, FreedFacts, Zenon
  <2>3. /\ s \in Pool
        /\ s.device = p.device /\ s.lru = p.lru /\ s.steal = p.steal
        /\ Len(s.frames) = Len(p.frames)
        /\ DOMAIN s.frames = DOMAIN p.frames
        /\ s.frames[i] = Freed(f)
        /\ \A j \in DOMAIN p.frames : j # i => s.frames[j] = p.frames[j]
    BY <2>2, <1>1, <1>2, SetFrameFacts
  <2>4. /\ q = [s EXCEPT !.device = d("ok"), !.lru = l]
        /\ r.ok = TRUE /\ r.idx = i
    BY <1>7, <2>3 DEF evict, Ok
  <2> HIDE DEF s, q, r, d, l, f, i
  <2>5. q = [device |-> d("ok"), frames |-> s.frames, lru |-> l, steal |-> s.steal]
    BY <2>3, <2>4, Zenon DEF Pool
  <2>6. q \in Pool
    BY <2>3, <2>5, <1>4, <1>5 DEF Pool
  <2>7. /\ q.device = d("ok") /\ q.lru = l /\ q.steal = p.steal
        /\ DOMAIN q.frames = DOMAIN p.frames /\ Len(q.frames) = Len(p.frames)
        /\ q.frames[i] = Freed(f)
        /\ \A j \in DOMAIN p.frames : j # i => q.frames[j] = p.frames[j]
    BY <2>3, <2>5
  <2>8. /\ q.frames[i].block = f.block /\ q.frames[i].page = f.page
        /\ q.frames[i].state = "Free" /\ ~q.frames[i].dirty_intent
        /\ q.frames[i].pins = f.pins
    BY <2>7, <1>2, FreedFacts, Zenon
  <2>9. q.device[f.block] = f.page
    <3>1. f.state # "Dirty" => f.page = p.device[f.block]
      BY <1>2, <1>3, NoBlockAssumption DEF FrameOK
    <3> QED BY <3>1, <2>7, <1>4
  <2>10. FrameOK(q.frames[i], q.device)
    BY <2>8, <2>9, <1>2, <1>3 DEF FrameOK
  <2>11. Coherent(q)
    BY <2>6, <2>7, <2>8, <2>10, <1>1, <1>2, <1>4, ReplaceCoherent DEF f
  <2>12. {j \in DOMAIN q.frames : q.frames[j].state # "Free"}
           = {j \in DOMAIN p.frames : p.frames[j].state # "Free"} \ {i}
    BY <2>7, <2>8
  <2>13. LruExact(q)
    BY <2>7, <2>12, <1>1, <1>5 DEF LruExact
  <2>14. WellFormed(q)
    BY <2>6, <2>7, <2>11, <2>13, <1>1 DEF WellFormed
  <2>15. SameImages(p, q)
    <3> SUFFICES ASSUME NEW b \in Block PROVE Logical(q, b) = Logical(p, b)
      BY Zenon DEF SameImages
    <3>1. b = f.block => Logical(q, b) = Logical(p, b)
      BY <2>6, <2>7, <2>8, <2>11, <1>1, <1>2, FindFacts DEF f
    <3>2. b # f.block => Logical(q, b) = Logical(p, b)
      BY <2>6, <2>7, <2>8, <2>11, <1>1, <1>2, <1>4, ReplaceImages DEF f
    <3> QED BY <3>1, <3>2
  <2>16. ~p.steal => q.device = p.device
    BY <2>7, <1>2, <1>4
  <2>17. Undisturbed(p, q)
    BY <2>7, <2>8, <2>15, <2>16, <1>2 DEF Undisturbed, f
  <2> QED BY <2>4, <2>7, <2>8, <2>14, <2>17, <1>2, Zenon DEF q, r
<1> QED BY <1>6, <1>7

-----------------------------------------------------------------------------
\* Doing nothing disturbs nothing.
LEMMA UndisturbedRefl ==
  ASSUME NEW p \in Pool PROVE Undisturbed(p, p)
BY DEF Undisturbed, SameImages

\* The empty frame that growing the pool adds.
LEMMA EmptyFrameFacts ==
  /\ EmptyFrame \in Frame
  /\ EmptyFrame.block = NoBlock /\ EmptyFrame.state = "Free"
  /\ EmptyFrame.pins = 0 /\ EmptyFrame.dirty_intent = FALSE
BY ZeroedAssumption DEF EmptyFrame, Frame, PageState

\* The pool with one more frame.
LEMMA GrowFacts ==
  ASSUME NEW p, WellFormed(p), MayGrow(p)
  PROVE  LET q == [p EXCEPT !.frames = Append(p.frames, EmptyFrame)] IN
         /\ WellFormed(q) /\ Undisturbed(p, q)
         /\ Len(p.frames) + 1 \in DOMAIN q.frames
         /\ q.frames[Len(p.frames) + 1].state = "Free"
<1> DEFINE a == Append(p.frames, EmptyFrame)
           n == Len(p.frames)
           q == [p EXCEPT !.frames = a]
<1>1. p \in Pool /\ Coherent(p) /\ LruExact(p)
  BY DEF WellFormed
<1>2. /\ p.frames \in Seq(Frame) /\ n \in Nat /\ DOMAIN p.frames = 1..n
  BY <1>1, PoolFacts
<1>3. /\ a \in Seq(Frame) /\ Len(a) = n + 1 /\ DOMAIN a = 1..(n + 1)
      /\ \A j \in 1..n : a[j] = p.frames[j]
      /\ a[n + 1] = EmptyFrame
  BY <1>2, EmptyFrameFacts, AppendProperties, LenProperties
<1> HIDE DEF a
<1>4. q = [device |-> p.device, frames |-> a, lru |-> p.lru, steal |-> p.steal]
  BY <1>1 DEF Pool
<1>5. q \in Pool
  BY <1>3, <1>4, <1>1 DEF Pool
<1>6. q.device = p.device /\ q.frames = a /\ q.lru = p.lru /\ q.steal = p.steal
  BY <1>4
<1>7. /\ n + 1 \in DOMAIN q.frames /\ n + 1 \notin DOMAIN p.frames
      /\ DOMAIN q.frames = DOMAIN p.frames \cup {n + 1}
      /\ \A j \in DOMAIN p.frames : q.frames[j] = p.frames[j]
      /\ q.frames[n + 1] = EmptyFrame
  BY <1>2, <1>3, <1>6
<1>8. Len(q.frames) <= Capacity
  BY <1>2, <1>3, <1>6, CapacityAssumption DEF MayGrow
<1>15. PICK m : m = n + 1
  OBVIOUS
<1> HIDE DEF q, n
<1>16. /\ m \in DOMAIN q.frames /\ m \notin DOMAIN p.frames
       /\ DOMAIN q.frames = DOMAIN p.frames \cup {m}
       /\ \A j \in DOMAIN p.frames : q.frames[j] = p.frames[j]
       /\ q.frames[m] = EmptyFrame
  BY <1>7, <1>15
<1>17. FrameOK(EmptyFrame, q.device)
  BY EmptyFrameFacts DEF FrameOK
<1>9. Coherent(q)
  <2>1. \A j \in DOMAIN q.frames : FrameOK(q.frames[j], q.device)
    BY <1>1, <1>6, <1>16, <1>17 DEF Coherent
  <2>2. \A j \in DOMAIN q.frames : q.frames[j].block # NoBlock => j \in DOMAIN p.frames
    BY <1>16, EmptyFrameFacts
  <2> QED BY <2>1, <2>2, <1>1, <1>16 DEF Coherent
<1>10. {j \in DOMAIN q.frames : q.frames[j].state # "Free"}
         = {j \in DOMAIN p.frames : p.frames[j].state # "Free"}
  BY <1>16, EmptyFrameFacts
<1>11. LruExact(q)
  BY <1>1, <1>6, <1>10 DEF LruExact
<1>12. WellFormed(q)
  BY <1>5, <1>8, <1>9, <1>11 DEF WellFormed
<1>13. SameImages(p, q)
  <2> SUFFICES ASSUME NEW b \in Block PROVE Logical(q, b) = Logical(p, b)
    BY Zenon DEF SameImages
  <2>1. CASE \E j \in DOMAIN p.frames : p.frames[j].block = b
    <3>1. PICK j \in DOMAIN p.frames : p.frames[j].block = b
      BY <2>1
    <3>2. j \in DOMAIN q.frames /\ q.frames[j] = p.frames[j]
      BY <1>16
    <3>3. Logical(p, b) = p.frames[j].page
      BY <1>1, <3>1, FindFacts
    <3>4. Logical(q, b) = q.frames[j].page
      BY <1>5, <1>9, <3>1, <3>2, FindFacts
    <3> QED BY <3>2, <3>3, <3>4
  <2>2. CASE \A j \in DOMAIN p.frames : p.frames[j].block # b
    <3>1. \A j \in DOMAIN q.frames : q.frames[j].block # b
      BY <2>2, <1>16, EmptyFrameFacts, NoBlockAssumption
    <3>2. Logical(p, b) = p.device[b] /\ Logical(q, b) = q.device[b]
      BY <1>1, <1>5, <1>9, <2>2, <3>1, FindFacts
    <3> QED BY <3>2, <1>6
  <2> QED BY <2>1, <2>2
<1>14. Undisturbed(p, q)
  BY <1>6, <1>13, <1>16, EmptyFrameFacts DEF Undisturbed
<1>18. q.frames[m].state = "Free"
  BY <1>16, EmptyFrameFacts
<1>19. q = [p EXCEPT !.frames = Append(p.frames, EmptyFrame)] /\ m = Len(p.frames) + 1
  BY <1>15 DEF q, a, n
<1> QED BY <1>12, <1>14, <1>16, <1>18, <1>19

\* acquire_frame returns a free frame, or an error.
LEMMA AcquireFacts ==
  ASSUME NEW p, WellFormed(p), NEW wr
  PROVE  LET r == acquire_frame(p, wr) IN
         /\ WellFormed(r.pool) /\ Undisturbed(p, r.pool)
         /\ r.ok \in BOOLEAN
         /\ r.ok => /\ r.idx \in DOMAIN r.pool.frames
                    /\ r.pool.frames[r.idx].state = "Free"
<1> DEFINE r == acquire_frame(p, wr)
<1>1. p \in Pool /\ Undisturbed(p, p)
  BY UndisturbedRefl DEF WellFormed
<1>2. CASE FreeFrames(p) # {}
  <2>1. r.pool = p /\ r.ok = TRUE /\ r.idx = Min(FreeFrames(p))
    BY <1>2 DEF acquire_frame, Ok
  <2>2. FreeFrames(p) \subseteq Nat
    BY <1>1, PoolFacts DEF FreeFrames
  <2>3. Min(FreeFrames(p)) \in FreeFrames(p)
    BY <1>2, <2>2, MinOfNats
  <2>4. r.idx \in DOMAIN p.frames /\ p.frames[r.idx].state = "Free"
    BY <2>1, <2>3 DEF FreeFrames
  <2> QED BY <1>1, <2>1, <2>4, Zenon
<1>3. CASE FreeFrames(p) = {} /\ MayGrow(p)
  <2>1. /\ r.pool = [p EXCEPT !.frames = Append(p.frames, EmptyFrame)]
        /\ r.ok = TRUE /\ r.idx = Len(p.frames) + 1
    BY <1>3 DEF acquire_frame, Ok
  <2> QED BY <1>3, <2>1, GrowFacts, Zenon
<1>4. CASE FreeFrames(p) = {} /\ ~MayGrow(p) /\ Victims(p) # {}
  <2>1. r = evict(p, wr)
    BY <1>4 DEF acquire_frame
  <2> QED BY <1>4, <2>1, EvictFacts
<1>5. CASE FreeFrames(p) = {} /\ ~MayGrow(p) /\ Victims(p) = {}
  <2>1. r.pool = p /\ r.ok = FALSE
    BY <1>5 DEF acquire_frame, Err
  <2> QED BY <1>1, <2>1, Zenon
<1> QED BY <1>2, <1>3, <1>4, <1>5

-----------------------------------------------------------------------------
\* What a call leaves of the frames that clients hold pinned.
PinsKept(p, q) ==
  \A i \in DOMAIN p.frames : p.frames[i].state = "Pinned" =>
    /\ i \in DOMAIN q.frames
    /\ q.frames[i].block = p.frames[i].block
    /\ q.frames[i].page = p.frames[i].page

\* The frame that fetch loads or pins.
LEMMA PinnedFrameFacts ==
  ASSUME NEW f \in Frame
  PROVE  LET g == [f EXCEPT !.state = "Pinned",
                            !.pins = IF f.state = "Pinned" THEN f.pins + 1 ELSE 1] IN
         /\ g \in Frame
         /\ g.block = f.block /\ g.page = f.page /\ g.dirty_intent = f.dirty_intent
         /\ g.state = "Pinned" /\ g.pins > 0
         /\ f.state = "Pinned" => g.pins = f.pins + 1
<1> DEFINE n == IF f.state = "Pinned" THEN f.pins + 1 ELSE 1
<1>1. n \in Nat /\ n > 0 /\ (f.state = "Pinned" => n = f.pins + 1)
  BY DEF Frame
<1> HIDE DEF n
<1> DEFINE g == [f EXCEPT !.state = "Pinned", !.pins = n]
<1>2. /\ g \in Frame
      /\ g.block = f.block /\ g.page = f.page /\ g.dirty_intent = f.dirty_intent
      /\ g.state = "Pinned" /\ g.pins = n
  BY <1>1, Zenon DEF Frame, PageState
<1> HIDE DEF g
<1>3. g.pins > 0 /\ (f.state = "Pinned" => g.pins = f.pins + 1)
  BY <1>1, <1>2
<1> QED BY <1>2, <1>3 DEF g, n

\* fetch pins a frame that holds the block's image and changes no image.
LEMMA FetchFacts ==
  ASSUME NEW p, WellFormed(p), NEW b \in Block, NEW rd, NEW wr
  PROVE  LET r == fetch(p, b, rd, wr) IN
         /\ WellFormed(r.pool) /\ SameImages(p, r.pool) /\ PinsKept(p, r.pool)
         /\ r.pool.steal = p.steal
         /\ ~p.steal => r.pool.device = p.device
         /\ r.ok \in BOOLEAN
         /\ r.ok => /\ r.idx \in DOMAIN r.pool.frames
                    /\ r.pool.frames[r.idx].block = b
                    /\ r.pool.frames[r.idx].state = "Pinned"
                    /\ r.pool.frames[r.idx].page = Logical(p, b)
                    /\ r.idx \in DOMAIN p.frames /\ p.frames[r.idx].state = "Pinned" =>
                         r.pool.frames[r.idx].pins = p.frames[r.idx].pins + 1
<1> DEFINE r == fetch(p, b, rd, wr)
           q == r.pool
           s == Resident(p, b, rd, wr)
           a == acquire_frame(p, wr)
<1>1. p \in Pool /\ Coherent(p)
  BY DEF WellFormed
<1>2. CASE Holding(p, b) # {}
  <2> DEFINE i == find(p, b)
             f == p.frames[i]
             g == [f EXCEPT !.state = "Pinned",
                            !.pins = IF f.state = "Pinned" THEN f.pins + 1 ELSE 1]
  <2>1. i \in DOMAIN p.frames /\ f \in Frame /\ f.block = b
    BY <1>1, <1>2, FindFacts, PoolFacts
  <2>2. s = Ok(SetFrame(p, i, g), i)
    BY <1>2 DEF Resident, pin_frame
  <2>3. r.ok = TRUE /\ r.idx = i /\ q = touch(SetFrame(p, i, g), i)
    BY <2>2 DEF fetch, Ok
  <2>4. FrameOK(f, p.device)
    BY <1>1, <2>1 DEF Coherent
  <2> HIDE DEF r, q, i, f
  <2>5. /\ g \in Frame
        /\ g.block = b /\ g.page = f.page /\ g.dirty_intent = f.dirty_intent
        /\ g.state = "Pinned" /\ g.pins > 0
        /\ f.state = "Pinned" => g.pins = f.pins + 1
    BY <2>1, PinnedFrameFacts, Zenon
  <2> HIDE DEF g
  <2>6. FrameOK(g, p.device)
    BY <2>1, <2>4, <2>5, NoBlockAssumption DEF FrameOK
  <2>7. /\ WellFormed(q)
        /\ q.device = p.device /\ q.steal = p.steal
        /\ DOMAIN q.frames = DOMAIN p.frames
        /\ q.frames[i] = g
        /\ \A j \in DOMAIN p.frames : j # i => q.frames[j] = p.frames[j]
    BY <2>1, <2>3, <2>5, <2>6, InstallFacts DEF f
  <2>8. q \in Pool /\ Coherent(q)
    BY <2>7 DEF WellFormed
  <2>9. Logical(p, b) = f.page /\ Logical(q, b) = g.page
    BY <1>1, <2>1, <2>5, <2>7, <2>8, FindFacts DEF f
  <2>10. SameImages(p, q)
    BY <1>1, <2>1, <2>5, <2>7, <2>8, <2>9, ReplaceImages DEF SameImages, f
  <2>11. PinsKept(p, q)
    BY <2>1, <2>5, <2>7 DEF PinsKept, f
  <2> QED BY <2>3, <2>1, <2>5, <2>7, <2>9, <2>10, <2>11, Zenon DEF r, q, f
<1>3. CASE Holding(p, b) = {}
  <2>1. /\ WellFormed(a.pool) /\ Undisturbed(p, a.pool)
        /\ a.ok \in BOOLEAN
        /\ a.ok => a.idx \in DOMAIN a.pool.frames /\ a.pool.frames[a.idx].state = "Free"
    BY AcquireFacts
  <2>2. PinsKept(p, a.pool)
    BY <2>1 DEF PinsKept, Undisturbed
  <2>3. CASE ~a.ok
    <3>1. s = a
      BY <1>3, <2>3 DEF Resident
    <3>2. r = a
      BY <2>3, <3>1 DEF fetch
    <3> HIDE DEF r, q, s, a
    <3> QED BY <2>1, <2>2, <2>3, <3>2 DEF Undisturbed, r, q
  <2>4. CASE a.ok /\ (rd # "ok" \/ a.pool.device[b] = Corrupt)
    <3>1. s = Load(a, b, rd)
      BY <1>3, <2>4 DEF Resident
    <3>2. s.ok = FALSE /\ s.pool = a.pool
      BY <2>4, <3>1 DEF Load, Err
    <3>3. r.ok = FALSE /\ q = a.pool
      BY <3>2 DEF fetch
    <3> HIDE DEF r, q, s, a
    <3> QED BY <2>1, <2>2, <3>3, Zenon DEF Undisturbed, r, q
  <2>5. CASE a.ok /\ rd = "ok" /\ a.pool.device[b] # Corrupt
    <3> DEFINE t == a.pool
               i == a.idx
               g == [block |-> b, page |-> t.device[b], state |-> "Pinned",
                     pins |-> 1, dirty_intent |-> FALSE]
    <3>1. s = Ok(SetFrame(t, i, g), i)
      BY <1>3, <2>5 DEF Resident, Load
    <3>2. r.ok = TRUE /\ r.idx = i /\ q = touch(SetFrame(t, i, g), i)
      BY <3>1 DEF fetch, Ok
    <3> HIDE DEF r, q, s, a, t, i
    <3>3. /\ WellFormed(t) /\ Undisturbed(p, t) /\ PinsKept(p, t)
          /\ i \in DOMAIN t.frames /\ t.frames[i].state = "Free"
          /\ t.device[b] # Corrupt
      BY <2>1, <2>2, <2>5 DEF t, i
    <3>4. t \in Pool /\ Coherent(t)
      BY <3>3 DEF WellFormed
    <3>5. t.device[b] \in Page
      BY <3>3, <3>4, PoolFacts
    <3>6. /\ g \in Frame /\ FrameOK(g, t.device)
          /\ g.block = b /\ g.page = t.device[b] /\ g.state = "Pinned"
      BY <3>5, NoBlockAssumption DEF Frame, PageState, FrameOK
    <3> HIDE DEF g
    <3>7. \A j \in DOMAIN p.frames : p.frames[j].block # b
      BY <1>3 DEF Holding
    <3>8. \A j \in DOMAIN t.frames : t.frames[j].block # b
      BY <3>3, <3>7, NoBlockAssumption DEF Undisturbed
    <3>9. /\ WellFormed(q)
          /\ q.device = t.device /\ q.steal = t.steal
          /\ DOMAIN q.frames = DOMAIN t.frames
          /\ q.frames[i] = g
          /\ \A j \in DOMAIN t.frames : j # i => q.frames[j] = t.frames[j]
      BY <3>2, <3>3, <3>6, <3>8, InstallFacts
    <3>10. q \in Pool /\ Coherent(q)
      BY <3>9 DEF WellFormed
    <3>11. Logical(t, b) = t.device[b]
      BY <3>4, <3>8, FindFacts
    <3>12. SameImages(t, q)
      <4> SUFFICES ASSUME NEW c \in Block PROVE Logical(q, c) = Logical(t, c)
        BY DEF SameImages
      <4>1. CASE c = b
        BY <4>1, <3>3, <3>6, <3>9, <3>10, <3>11, FindFacts
      <4>2. CASE c # b /\ c # t.frames[i].block
        BY <4>2, <3>3, <3>4, <3>6, <3>9, <3>10, ReplaceImages
      <4>3. CASE c # b /\ c = t.frames[i].block
        <5>1. Logical(q, c) = q.device[c]
          BY <4>3, <3>3, <3>4, <3>6, <3>9, <3>10, ReplaceImages
        <5>2. Logical(t, c) = t.frames[i].page
          BY <4>3, <3>3, <3>4, FindFacts
        <5>3. t.frames[i].page = t.device[c]
          BY <4>3, <3>3, <3>4, NoBlockAssumption DEF Coherent, FrameOK
        <5> QED BY <5>1, <5>2, <5>3, <3>9
      <4> QED BY <4>1, <4>2, <4>3
    <3>13. SameImages(p, q)
      BY <3>3, <3>12, Zenon DEF SameImages, Undisturbed
    <3>14. \A j \in DOMAIN p.frames : p.frames[j].state = "Pinned" => j # i
      BY <3>3 DEF Undisturbed
    <3>15. PinsKept(p, q)
      BY <3>3, <3>9, <3>14 DEF PinsKept
    <3>16. q.frames[i].page = Logical(p, b)
      BY <3>3, <3>6, <3>9, <3>11 DEF Undisturbed, SameImages
    <3>17. q.steal = p.steal /\ (~p.steal => q.device = p.device)
      BY <3>3, <3>9 DEF Undisturbed
    <3> QED BY <3>2, <3>3, <3>6, <3>9, <3>13, <3>14, <3>15, <3>16, <3>17, Zenon DEF r, q
  <2> QED BY <2>1, <2>3, <2>4, <2>5, Zenon
<1> QED BY <1>2, <1>3, Zenon

-----------------------------------------------------------------------------
\* Marking a pinned frame dirty, and storing a page through the reference.
LEMMA MutFrameFacts ==
  ASSUME NEW f \in Frame, NEW pg \in Page
  PROVE  /\ LET g == [f EXCEPT !.dirty_intent = TRUE] IN
            /\ g \in Frame /\ g.dirty_intent = TRUE
            /\ g.block = f.block /\ g.page = f.page /\ g.state = f.state /\ g.pins = f.pins
         /\ LET g == [f EXCEPT !.page = pg] IN
            /\ g \in Frame /\ g.page = pg
            /\ g.block = f.block /\ g.state = f.state /\ g.pins = f.pins
            /\ g.dirty_intent = f.dirty_intent
BY Zenon DEF Frame

\* The pool q is p but for the page of one pinned frame, which is marked dirty.
Stored(p, q, i, pg) ==
  /\ q.device = p.device /\ q.steal = p.steal
  /\ DOMAIN q.frames = DOMAIN p.frames
  /\ \A j \in DOMAIN p.frames : j # i => q.frames[j] = p.frames[j]
  /\ q.frames[i].block = p.frames[i].block
  /\ q.frames[i].state = "Pinned"
  /\ q.frames[i].pins = p.frames[i].pins
  /\ q.frames[i].dirty_intent = TRUE
  /\ q.frames[i].page = pg

\* A store through the reference that fetch_mut returned.
LEMMA StoreFacts ==
  ASSUME NEW p, WellFormed(p), NEW i \in DOMAIN p.frames, NEW pg \in Page,
         p.frames[i].state = "Pinned"
  PROVE  LET q == mark_dirty_pinned(p, i)
             r == Store(q, i, pg) IN
         /\ WellFormed(q) /\ Stored(p, q, i, p.frames[i].page)
         /\ WellFormed(r) /\ Stored(p, r, i, pg)
<1> DEFINE f == p.frames[i]
           g == [f EXCEPT !.dirty_intent = TRUE]
           h == [g EXCEPT !.page = pg]
           q == SetFrame(p, i, g)
           r == SetFrame(q, i, h)
<1>1. p \in Pool /\ f \in Frame /\ FrameOK(f, p.device)
  BY PoolFacts DEF WellFormed, Coherent
<1>2. /\ g \in Frame /\ g.dirty_intent = TRUE
      /\ g.block = f.block /\ g.page = f.page /\ g.state = f.state /\ g.pins = f.pins
  BY <1>1, MutFrameFacts, Zenon
<1> HIDE DEF g
<1>3. /\ h \in Frame /\ h.page = pg
      /\ h.block = f.block /\ h.state = f.state /\ h.pins = f.pins
      /\ h.dirty_intent = TRUE
  BY <1>2, MutFrameFacts, Zenon
<1>4. FrameOK(g, p.device) /\ FrameOK(h, p.device)
  BY <1>1, <1>2, <1>3 DEF FrameOK
<1> HIDE DEF h
<1>5. WellFormed(q)
  BY <1>2, <1>4, RewriteFacts
<1>6. /\ q.device = p.device /\ q.steal = p.steal
      /\ DOMAIN q.frames = DOMAIN p.frames /\ q.frames[i] = g
      /\ \A j \in DOMAIN p.frames : j # i => q.frames[j] = p.frames[j]
  BY <1>1, <1>2, SetFrameFacts
<1> HIDE DEF q
<1>7. WellFormed(r)
  BY <1>2, <1>3, <1>4, <1>5, <1>6, RewriteFacts
<1>8. q \in Pool
  BY <1>5 DEF WellFormed
<1>9. /\ r.device = q.device /\ r.steal = q.steal
      /\ DOMAIN r.frames = DOMAIN q.frames /\ r.frames[i] = h
      /\ \A j \in DOMAIN q.frames : j # i => r.frames[j] = q.frames[j]
  BY <1>3, <1>6, <1>8, SetFrameFacts
<1> HIDE DEF r
<1>10. Stored(p, q, i, f.page) /\ Stored(p, r, i, pg)
  BY <1>2, <1>3, <1>6, <1>9 DEF Stored
<1>11. q = mark_dirty_pinned(p, i)
  BY DEF q, g, mark_dirty_pinned
<1>12. r = Store(q, i, pg)
  BY <1>6 DEF r, h, Store
<1> QED BY <1>5, <1>7, <1>10, <1>11, <1>12

\* The images after a store.
LEMMA StoredImages ==
  ASSUME NEW p, NEW q, WellFormed(p), WellFormed(q), NEW i \in DOMAIN p.frames, NEW pg,
         Stored(p, q, i, pg), p.frames[i].block \in Block
  PROVE  \A b \in Block : Logical(q, b) = IF b = p.frames[i].block THEN pg ELSE Logical(p, b)
<1>1. p \in Pool /\ q \in Pool /\ Coherent(p) /\ Coherent(q)
  BY DEF WellFormed
<1> QED BY <1>1, ReplaceImages DEF Stored

\* The pool after the store, or after the error.
StoreThrough(r, pg) == IF r.ok THEN Store(r.pool, r.idx, pg) ELSE r.pool

\* fetch_mut, and the store through the page it returns.
LEMMA FetchMutFacts ==
  ASSUME NEW p, WellFormed(p), NEW b \in Block, NEW rd, NEW wr, NEW pg \in Page
  PROVE  LET r == fetch_mut(p, b, rd, wr)
             q == StoreThrough(r, pg) IN
         /\ WellFormed(q)
         /\ q.steal = p.steal
         /\ ~p.steal => q.device = p.device
         /\ r.ok \in BOOLEAN
         /\ r.ok => /\ r.pool.frames[r.idx].page = Logical(p, b)
                    /\ Logical(p, b) \in Page
                    /\ \A c \in Block : Logical(q, c) = IF c = b THEN pg ELSE Logical(p, c)
         /\ ~r.ok => SameImages(p, q)
         /\ \A i \in DOMAIN p.frames : p.frames[i].state = "Pinned" =>
              /\ q.frames[i].block = p.frames[i].block
              /\ q.frames[i].page # p.frames[i].page =>
                   q.frames[i].dirty_intent /\ q.frames[i].pins = p.frames[i].pins + 1
<1> DEFINE s == fetch(p, b, rd, wr)
           t == s.pool
           r == fetch_mut(p, b, rd, wr)
           q == StoreThrough(r, pg)
           i == s.idx
<1>1. /\ WellFormed(t) /\ SameImages(p, t) /\ PinsKept(p, t)
      /\ t.steal = p.steal
      /\ ~p.steal => t.device = p.device
      /\ s.ok \in BOOLEAN
      /\ s.ok => /\ i \in DOMAIN t.frames
                 /\ t.frames[i].block = b
                 /\ t.frames[i].state = "Pinned"
                 /\ t.frames[i].page = Logical(p, b)
                 /\ i \in DOMAIN p.frames /\ p.frames[i].state = "Pinned" =>
                      t.frames[i].pins = p.frames[i].pins + 1
  BY FetchFacts, Zenon
<1>2. CASE ~s.ok
  <2>1. r = s
    BY <1>2 DEF fetch_mut
  <2> HIDE DEF s
  <2>2. q = t /\ ~r.ok
    BY <1>2, <2>1 DEF StoreThrough
  <2> HIDE DEF r, q, t
  <2> QED BY <1>1, <2>1, <2>2, <1>2 DEF PinsKept, r, q
<1>3. CASE s.ok
  <2> DEFINE m == mark_dirty_pinned(t, i)
  <2>1. r = Ok(m, i)
    BY <1>3 DEF fetch_mut
  <2>2. r.ok = TRUE /\ r.pool = m /\ r.idx = i
    BY <2>1 DEF Ok
  <2>3. q = Store(m, i, pg)
    BY <2>2 DEF StoreThrough
  <2> HIDE DEF s, t, i, r, q
  <2>4. /\ WellFormed(m) /\ Stored(t, m, i, t.frames[i].page)
        /\ WellFormed(q) /\ Stored(t, q, i, pg)
    BY <1>1, <1>3, <2>3, StoreFacts
  <2>5. \A c \in Block : Logical(q, c) = IF c = b THEN pg ELSE Logical(t, c)
    BY <1>1, <1>3, <2>4, StoredImages
  <2>6. m.frames[i].page = Logical(p, b)
    BY <2>4, <1>1, <1>3 DEF Stored
  <2>7. t.frames[i].page \in Page
    BY <1>1, <1>3, PoolFacts DEF WellFormed, Frame
  <2>8. ASSUME NEW k \in DOMAIN p.frames, p.frames[k].state = "Pinned"
        PROVE  /\ q.frames[k].block = p.frames[k].block
               /\ q.frames[k].page # p.frames[k].page =>
                    q.frames[k].dirty_intent /\ q.frames[k].pins = p.frames[k].pins + 1
    <3>1. /\ k \in DOMAIN t.frames
          /\ t.frames[k].block = p.frames[k].block /\ t.frames[k].page = p.frames[k].page
      BY <2>8, <1>1 DEF PinsKept
    <3>2. CASE k # i
      BY <3>1, <3>2, <2>4 DEF Stored
    <3>3. CASE k = i
      BY <3>1, <3>3, <2>4, <2>8, <1>1, <1>3 DEF Stored
    <3> QED BY <3>2, <3>3
  <2>9. q.steal = p.steal /\ (~p.steal => q.device = p.device)
    BY <2>4, <1>1 DEF Stored
  <2>10. \A c \in Block : Logical(q, c) = IF c = b THEN pg ELSE Logical(p, c)
    BY <2>5, <1>1, Zenon DEF SameImages
  <2>11. Logical(p, b) \in Page
    BY <2>7, <1>1, <1>3
  <2> HIDE DEF m
  <2> QED BY <2>2, <2>4, <2>6, <2>8, <2>9, <2>10, <2>11, Zenon DEF r, q
<1> QED BY <1>1, <1>2, <1>3, Zenon

-----------------------------------------------------------------------------
\* A frame after one of its pins is dropped.
LEMMA UnpinnedFacts ==
  ASSUME NEW f \in Frame, f.pins > 0
  PROVE  LET g == Unpinned(f) IN
         /\ g \in Frame
         /\ g.block = f.block /\ g.page = f.page /\ g.dirty_intent = f.dirty_intent
         /\ \/ g.state = f.state /\ g.pins > 0
            \/ g.state = "Dirty" /\ g.pins = 0 /\ f.dirty_intent
            \/ g.state = "Clean" /\ g.pins = 0 /\ ~f.dirty_intent
<1> DEFINE g == Unpinned(f)
<1>1. CASE f.pins > 1
  <2>1. g = [f EXCEPT !.pins = f.pins - 1] /\ f.pins - 1 \in Nat /\ f.pins - 1 > 0
    BY <1>1 DEF Unpinned, Frame
  <2> QED BY <2>1 DEF Frame
<1>2. CASE ~(f.pins > 1) /\ f.dirty_intent
  <2>1. g = [f EXCEPT !.pins = 0, !.state = "Dirty"]
    BY <1>2 DEF Unpinned
  <2> HIDE DEF g
  <2>2. /\ g \in Frame
        /\ g.block = f.block /\ g.page = f.page /\ g.dirty_intent = f.dirty_intent
        /\ g.state = "Dirty" /\ g.pins = 0
    BY <2>1, Zenon DEF Frame, PageState
  <2> QED BY <2>2, <1>2 DEF g
<1>3. CASE ~(f.pins > 1) /\ ~f.dirty_intent
  <2>1. g = [f EXCEPT !.pins = 0, !.state = "Clean"]
    BY <1>3 DEF Unpinned
  <2> HIDE DEF g
  <2>2. /\ g \in Frame
        /\ g.block = f.block /\ g.page = f.page /\ g.dirty_intent = f.dirty_intent
        /\ g.state = "Clean" /\ g.pins = 0
    BY <2>1, Zenon DEF Frame, PageState
  <2> QED BY <2>2, <1>3 DEF g
<1> QED BY <1>1, <1>2, <1>3

\* unpin changes neither an image nor the device.
LEMMA UnpinFacts ==
  ASSUME NEW p, WellFormed(p), NEW b \in Block
  PROVE  LET q == unpin(p, b) IN
         /\ WellFormed(q) /\ SameImages(p, q) /\ PinsKept(p, q)
         /\ q.device = p.device /\ q.steal = p.steal
<1> DEFINE i == find(p, b)
           f == p.frames[i]
           g == Unpinned(f)
           q == unpin(p, b)
<1>1. p \in Pool /\ Coherent(p)
  BY DEF WellFormed
<1>2. CASE Holding(p, b) # {} /\ f.state = "Pinned"
  <2>1. i \in DOMAIN p.frames /\ f \in Frame /\ f.block = b /\ FrameOK(f, p.device)
    BY <1>1, <1>2, FindFacts, PoolFacts DEF Coherent
  <2>2. q = SetFrame(p, i, g)
    BY <1>2 DEF unpin
  <2> HIDE DEF i, f, q
  <2>3. /\ g \in Frame
        /\ g.block = f.block /\ g.page = f.page /\ g.dirty_intent = f.dirty_intent
        /\ \/ g.state = f.state /\ g.pins > 0
           \/ g.state = "Dirty" /\ g.pins = 0 /\ f.dirty_intent
           \/ g.state = "Clean" /\ g.pins = 0 /\ ~f.dirty_intent
    BY <2>1, <1>2, UnpinnedFacts DEF FrameOK
  <2> HIDE DEF g
  <2>4. FrameOK(g, p.device) /\ g.state # "Free"
    BY <2>1, <2>3, <1>2 DEF FrameOK
  <2>5. WellFormed(q)
    BY <2>1, <2>2, <2>3, <2>4, <1>2, RewriteFacts DEF f
  <2>6. /\ q.device = p.device /\ q.steal = p.steal
        /\ DOMAIN q.frames = DOMAIN p.frames /\ q.frames[i] = g
        /\ \A j \in DOMAIN p.frames : j # i => q.frames[j] = p.frames[j]
    BY <1>1, <2>1, <2>2, <2>3, SetFrameFacts
  <2>7. q \in Pool /\ Coherent(q)
    BY <2>5 DEF WellFormed
  <2>8. Logical(p, b) = f.page /\ Logical(q, b) = g.page
    BY <1>1, <2>1, <2>3, <2>6, <2>7, FindFacts DEF f
  <2>9. SameImages(p, q)
    BY <1>1, <2>1, <2>3, <2>6, <2>7, <2>8, ReplaceImages DEF SameImages, f
  <2>10. PinsKept(p, q)
    BY <2>1, <2>3, <2>6 DEF PinsKept, f
  <2> QED BY <2>5, <2>6, <2>9, <2>10 DEF q
<1>3. CASE ~(Holding(p, b) # {} /\ f.state = "Pinned")
  <2>1. q = p
    BY <1>3 DEF unpin
  <2> QED BY <2>1 DEF SameImages, PinsKept
<1> QED BY <1>2, <1>3

-----------------------------------------------------------------------------
\* A frame after its page was written.
LEMMA FlushedFacts ==
  ASSUME NEW f \in Frame
  PROVE  LET g == Flushed(f) IN
         /\ g \in Frame
         /\ g.block = f.block /\ g.page = f.page /\ g.pins = f.pins
         /\ g.dirty_intent = FALSE
         /\ g.state = IF f.state = "Dirty" THEN "Clean" ELSE f.state
<1>1. CASE f.state = "Dirty"
  <2>1. Flushed(f) = [f EXCEPT !.dirty_intent = FALSE, !.state = "Clean"]
    BY <1>1 DEF Flushed
  <2> QED BY <2>1, <1>1, Zenon DEF Frame, PageState
<1>2. CASE f.state # "Dirty"
  <2>1. Flushed(f) = [f EXCEPT !.dirty_intent = FALSE, !.state = f.state]
    BY <1>2 DEF Flushed
  <2> QED BY <2>1, <1>2, Zenon DEF Frame, PageState
<1> QED BY <1>1, <1>2, Zenon

\* The device after some frames were written.
LEMMA WrittenFacts ==
  ASSUME NEW p \in Pool, Coherent(p), NEW W, W \subseteq ToFlush(p)
  PROVE  /\ Written(p, W) \in Device
         /\ \A i \in W : p.frames[i].block \in Block =>
              Written(p, W)[p.frames[i].block] = p.frames[i].page
         /\ \A b \in Block : (\A i \in W : p.frames[i].block # b) =>
              Written(p, W)[b] = p.device[b]
<1>1. ASSUME NEW i \in W, p.frames[i].block \in Block
      PROVE  Written(p, W)[p.frames[i].block] = p.frames[i].page
  <2> DEFINE b == p.frames[i].block
  <2>1. i \in DOMAIN p.frames /\ i \in Nat
    BY <1>1, PoolFacts DEF ToFlush
  <2>2. Holding(p, b) = {i}
    BY <1>1, <2>1, FindFacts
  <2>3. W \cap Holding(p, b) = {i}
    BY <1>1, <2>2
  <2>4. {i} \subseteq 0..i
    BY <2>1
  <2>5. Max({i}) = i
    BY <2>1, <2>4, MaxOfBounded
  <2> HIDE DEF b
  <2>6. Written(p, W)[b] = p.frames[Max(W \cap Holding(p, b))].page
    BY <2>3, <1>1 DEF Written, b
  <2> QED BY <2>3, <2>5, <2>6, Zenon DEF b
<1>2. ASSUME NEW b \in Block, \A i \in W : p.frames[i].block # b
      PROVE  Written(p, W)[b] = p.device[b]
  <2>1. W \cap Holding(p, b) = {}
    BY <1>2 DEF Holding
  <2> QED BY <2>1 DEF Written
<1>3. \A b \in Block : Written(p, W)[b] \in Content
  <2> SUFFICES ASSUME NEW b \in Block PROVE Written(p, W)[b] \in Content
    BY Zenon
  <2>1. CASE \A i \in W : p.frames[i].block # b
    BY <2>1, <1>2, PoolFacts DEF Content
  <2>2. CASE \E i \in W : p.frames[i].block = b
    <3>1. PICK i \in W : p.frames[i].block = b
      BY <2>2
    <3>2. p.frames[i] \in Frame
      BY PoolFacts DEF ToFlush
    <3> QED BY <3>1, <3>2, <1>1 DEF Frame, Content
  <2> QED BY <2>1, <2>2
<1>4. Written(p, W) \in Device
  <2>1. Written(p, W) = [b \in Block |-> Written(p, W)[b]]
    BY DEF Written
  <2> QED BY <2>1, <1>3 DEF Device
<1> QED BY <1>1, <1>2, <1>4

\* q is p with the frames W written and marked clean.
WrittenBack(p, q, W) ==
  /\ q.device = Written(p, W) /\ q.lru = p.lru /\ q.steal = p.steal
  /\ DOMAIN q.frames = DOMAIN p.frames
  /\ \A i \in DOMAIN p.frames :
       q.frames[i] = IF i \in W THEN Flushed(p.frames[i]) ELSE p.frames[i]

\* Writing frames back changes no image.
LEMMA FlushFramesFacts ==
  ASSUME NEW p, WellFormed(p), NEW W, W \subseteq ToFlush(p)
  PROVE  LET q == FlushFrames(p, W) IN
         WellFormed(q) /\ WrittenBack(p, q, W) /\ SameImages(p, q) /\ PinsKept(p, q)
<1> DEFINE fs == [i \in DOMAIN p.frames |->
                    IF i \in W THEN Flushed(p.frames[i]) ELSE p.frames[i]]
           d == Written(p, W)
           q == FlushFrames(p, W)
<1>1. p \in Pool /\ Len(p.frames) <= Capacity /\ Coherent(p) /\ LruExact(p)
  BY DEF WellFormed
<1>2. /\ DOMAIN p.frames = 1..Len(p.frames) /\ Len(p.frames) \in Nat
      /\ \A i \in DOMAIN p.frames : p.frames[i] \in Frame
  BY <1>1, PoolFacts
<1>3. \A i \in DOMAIN p.frames :
        (IF i \in W THEN Flushed(p.frames[i]) ELSE p.frames[i]) \in Frame
  BY <1>2, FlushedFacts, Zenon
<1>4. fs \in [1..Len(p.frames) -> Frame]
  BY <1>2, <1>3
<1>5. fs \in Seq(Frame)
  BY <1>2, <1>4, IsASeq
<1>6. Len(fs) = Len(p.frames)
  BY <1>2, <1>4, <1>5, LenProperties
<1>7. /\ d \in Device
      /\ \A i \in W : p.frames[i].block \in Block => d[p.frames[i].block] = p.frames[i].page
      /\ \A b \in Block : (\A i \in W : p.frames[i].block # b) => d[b] = p.device[b]
  BY <1>1, WrittenFacts
<1>8. q = [p EXCEPT !.device = d, !.frames = fs]
  BY DEF FlushFrames
<1>9. /\ DOMAIN fs = DOMAIN p.frames
      /\ \A i \in DOMAIN p.frames :
           fs[i] = IF i \in W THEN Flushed(p.frames[i]) ELSE p.frames[i]
  OBVIOUS
<1> HIDE DEF fs, d, q
<1>10. q = [device |-> d, frames |-> fs, lru |-> p.lru, steal |-> p.steal]
  BY <1>1, <1>8, Zenon DEF Pool
<1>11. q \in Pool
  BY <1>1, <1>5, <1>7, <1>10 DEF Pool
<1>12. /\ q.device = d /\ q.frames = fs /\ q.lru = p.lru /\ q.steal = p.steal
  BY <1>10
<1>13. WrittenBack(p, q, W)
  BY <1>9, <1>12 DEF WrittenBack, d
<1> DEFINE Kept(i) ==
         /\ q.frames[i].block = p.frames[i].block /\ q.frames[i].page = p.frames[i].page
         /\ q.frames[i].pins = p.frames[i].pins
         /\ i \notin W => q.frames[i] = p.frames[i]
         /\ i \in W => q.frames[i].dirty_intent = FALSE
         /\ q.frames[i].state = IF i \in W /\ p.frames[i].state = "Dirty" THEN "Clean"
                                                                     ELSE p.frames[i].state
<1>14. \A i \in DOMAIN p.frames : Kept(i)
  <2> SUFFICES ASSUME NEW i \in DOMAIN p.frames PROVE Kept(i)
    BY Zenon
  <2>1. CASE i \in W
    <3>1. q.frames[i] = Flushed(p.frames[i]) /\ p.frames[i] \in Frame
      BY <2>1, <1>2, <1>9, <1>12
    <3> QED BY <2>1, <3>1, FlushedFacts, Zenon
  <2>2. CASE i \notin W
    <3>1. q.frames[i] = p.frames[i]
      BY <2>2, <1>9, <1>12
    <3> QED BY <2>2, <3>1
  <2> QED BY <2>1, <2>2, Zenon
<1>15. \A i \in W : i \in DOMAIN p.frames /\ p.frames[i].state \in {"Dirty", "Pinned"}
  BY DEF ToFlush
<1>16. Coherent(q)
  <2>1. ASSUME NEW i \in DOMAIN q.frames PROVE FrameOK(q.frames[i], q.device)
    <3> DEFINE f == p.frames[i]
               g == q.frames[i]
    <3>1. i \in DOMAIN p.frames /\ FrameOK(f, p.device) /\ f.block \in Block \cup {NoBlock}
      BY <2>1, <1>1, <1>2, <1>9, <1>12 DEF Coherent, Frame
    <3>2. CASE i \in W
      <4>1. f.block # NoBlock
        BY <3>1, <3>2, <1>15 DEF FrameOK
      <4>2. q.device[f.block] = f.page
        BY <3>1, <3>2, <4>1, <1>7, <1>12
      <4>3. /\ g.block = f.block /\ g.page = f.page /\ g.pins = f.pins
            /\ g.dirty_intent = FALSE
            /\ g.state = IF f.state = "Dirty" THEN "Clean" ELSE f.state
        BY <3>1, <3>2, <1>14
      <4> HIDE DEF f, g
      <4>4. FrameOK(g, q.device)
        BY <4>1, <4>2, <4>3, <3>1 DEF FrameOK
      <4> QED BY <4>4 DEF g
    <3>3. CASE i \notin W
      <4>1. g = f
        BY <3>1, <3>3, <1>14
      <4>2. f.block # NoBlock => \A j \in W : p.frames[j].block # f.block
        BY <3>1, <3>3, <1>1, <1>15 DEF Coherent
      <4>3. f.block # NoBlock => q.device[f.block] = p.device[f.block]
        BY <3>1, <4>2, <1>7, <1>12
      <4> HIDE DEF f, g
      <4>4. FrameOK(g, q.device)
        BY <4>1, <4>3, <3>1 DEF FrameOK
      <4> QED BY <4>4 DEF g
    <3> QED BY <3>2, <3>3
  <2> QED BY <2>1, <1>1, <1>9, <1>12, <1>14 DEF Coherent
<1>17. {i \in DOMAIN q.frames : q.frames[i].state # "Free"}
         = {i \in DOMAIN p.frames : p.frames[i].state # "Free"}
  BY <1>9, <1>12, <1>14
<1>18. LruExact(q)
  BY <1>1, <1>12, <1>17 DEF LruExact
<1>19. WellFormed(q)
  BY <1>1, <1>6, <1>11, <1>12, <1>16, <1>18 DEF WellFormed
<1>20. SameImages(p, q)
  <2> SUFFICES ASSUME NEW b \in Block PROVE Logical(q, b) = Logical(p, b)
    BY Zenon DEF SameImages
  <2>1. CASE \E i \in DOMAIN p.frames : p.frames[i].block = b
    <3>1. PICK i \in DOMAIN p.frames : p.frames[i].block = b
      BY <2>1
    <3>2. Logical(p, b) = p.frames[i].page
      BY <3>1, <1>1, FindFacts
    <3>3. Logical(q, b) = q.frames[i].page
      BY <3>1, <1>9, <1>11, <1>12, <1>14, <1>16, FindFacts
    <3> QED BY <3>2, <3>3, <1>14
  <2>2. CASE \A i \in DOMAIN p.frames : p.frames[i].block # b
    <3>1. Logical(p, b) = p.device[b]
      BY <2>2, <1>1, FindFacts
    <3>2. \A i \in DOMAIN q.frames : q.frames[i].block # b
      BY <2>2, <1>9, <1>12, <1>14
    <3>3. Logical(q, b) = q.device[b]
      BY <3>2, <1>11, <1>16, FindFacts
    <3>4. q.device[b] = p.device[b]
      BY <2>2, <1>7, <1>12, <1>15
    <3> QED BY <3>1, <3>3, <3>4
  <2> QED BY <2>1, <2>2
<1>21. PinsKept(p, q)
  BY <1>9, <1>12, <1>14 DEF PinsKept
<1> QED BY <1>13, <1>19, <1>20, <1>21 DEF q

\* flush_all keeps every image, whichever of its writes fails.
LEMMA FlushWritesFacts ==
  ASSUME NEW p, WellFormed(p), NEW upto, NEW wr
  PROVE  LET q == flush_writes(p, upto, wr) IN
         WellFormed(q) /\ SameImages(p, q) /\ PinsKept(p, q) /\ q.steal = p.steal
<1> DEFINE W == {i \in ToFlush(p) : i < upto}
           t == FlushFrames(p, W)
           q == flush_writes(p, upto, wr)
<1>1. WellFormed(t) /\ WrittenBack(p, t, W) /\ SameImages(p, t) /\ PinsKept(p, t)
  BY FlushFramesFacts
<1>2. CASE upto \notin ToFlush(p)
  <2>1. q = t
    BY <1>2 DEF flush_writes
  <2> HIDE DEF t, W
  <2> QED BY <2>1, <1>1 DEF WrittenBack
<1>3. CASE upto \in ToFlush(p)
  <2> DEFINE f == p.frames[upto]
             d == write_block(t.device, f.block, f.page, wr)
  <2>1. q = [t EXCEPT !.device = d]
    BY <1>3 DEF flush_writes
  <2>2. p \in Pool /\ Coherent(p)
    BY DEF WellFormed
  <2>3. upto \in DOMAIN p.frames /\ upto \in Nat /\ f.state \in {"Dirty", "Pinned"}
    BY <1>3, <2>2, PoolFacts DEF ToFlush
  <2>4. upto \notin W
    BY <2>3
  <2>5. f \in Frame /\ FrameOK(f, p.device) /\ f.dirty_intent
    BY <1>3, <2>2, <2>3, PoolFacts DEF Coherent, FrameOK, ToFlush
  <2>6. f.block \in Block /\ f.page \in Page
    BY <2>3, <2>5 DEF FrameOK, Frame
  <2> HIDE DEF t, W, q
  <2>7. t \in Pool /\ Coherent(t) /\ LruExact(t) /\ Len(t.frames) <= Capacity
    BY <1>1 DEF WellFormed
  <2>8. d \in Device /\ \A c \in Block : c # f.block => d[c] = t.device[c]
    BY <2>6, <2>7, WriteBlockFacts DEF Pool
  <2> HIDE DEF d
  <2>9. q = [device |-> d, frames |-> t.frames, lru |-> t.lru, steal |-> t.steal]
    BY <2>1, <2>7 DEF Pool
  <2>10. q \in Pool
    BY <2>7, <2>8, <2>9 DEF Pool
  <2>11. q.device = d /\ q.frames = t.frames /\ q.lru = t.lru /\ q.steal = t.steal
    BY <2>9
  <2>12. upto \in DOMAIN t.frames /\ t.frames[upto] = f
    BY <1>1, <2>3, <2>4 DEF WrittenBack
  <2>13. FrameOK(q.frames[upto], q.device)
    BY <2>5, <2>11, <2>12 DEF FrameOK
  <2>14. Coherent(q)
    BY <2>7, <2>8, <2>10, <2>11, <2>12, <2>13, ReplaceCoherent
  <2>15. WellFormed(q)
    BY <2>7, <2>10, <2>11, <2>14 DEF WellFormed, LruExact
  <2>16. SameImages(t, q)
    <3> SUFFICES ASSUME NEW b \in Block PROVE Logical(q, b) = Logical(t, b)
      BY Zenon DEF SameImages
    <3>1. CASE b = f.block
      <4>1. Logical(q, b) = q.frames[upto].page
        BY <3>1, <2>10, <2>11, <2>12, <2>14, FindFacts
      <4>2. Logical(t, b) = t.frames[upto].page
        BY <3>1, <2>7, <2>12, FindFacts
      <4> QED BY <4>1, <4>2, <2>11
    <3>2. CASE b # f.block
      BY <3>2, <2>7, <2>8, <2>10, <2>11, <2>12, <2>14, ReplaceImages
    <3> QED BY <3>1, <3>2
  <2>17. SameImages(p, q)
    BY <1>1, <2>16, Zenon DEF SameImages
  <2>18. PinsKept(p, q) /\ q.steal = p.steal
    BY <1>1, <2>11 DEF PinsKept, WrittenBack
  <2> QED BY <2>15, <2>17, <2>18 DEF q
<1> QED BY <1>2, <1>3

-----------------------------------------------------------------------------
\* The pins on block b, none when no frame holds it, and the blocks whose page
\* the pool has and the device may not have.
Pins(p, b) == IF Holding(p, b) = {} THEN 0 ELSE p.frames[find(p, b)].pins
DirtyBlocks(p) == {b \in Block : \E i \in DOMAIN p.frames :
                     p.frames[i].block = b /\ p.frames[i].dirty_intent}

\* q has n pins on b, and on every other block those of p.
Repinned(p, q, b, n) ==
  /\ Pins(q, b) = n
  /\ \A c \in Block : c # b => Pins(q, c) = Pins(p, c)

\* The pins on a block are those of the frame that holds it.
LEMMA PinsFacts ==
  ASSUME NEW p, p \in Pool, Coherent(p), NEW b \in Block
  PROVE  /\ \A i \in DOMAIN p.frames : p.frames[i].block = b => Pins(p, b) = p.frames[i].pins
         /\ (\A i \in DOMAIN p.frames : p.frames[i].block # b) => Pins(p, b) = 0
         /\ Pins(p, b) \in Nat
<1>1. ASSUME NEW i \in DOMAIN p.frames, p.frames[i].block = b
      PROVE  Pins(p, b) = p.frames[i].pins /\ Pins(p, b) \in Nat
  <2>1. Holding(p, b) = {i} /\ find(p, b) = i
    BY <1>1, FindFacts
  <2>2. p.frames[i].pins \in Nat
    BY PoolFacts DEF Frame
  <2> QED BY <2>1, <2>2 DEF Pins
<1>2. ASSUME \A i \in DOMAIN p.frames : p.frames[i].block # b
      PROVE  Pins(p, b) = 0
  <2>1. Holding(p, b) = {}
    BY <1>2, FindFacts
  <2> QED BY <2>1 DEF Pins
<1> QED BY <1>1, <1>2

\* Acquiring a frame moves no pin and makes no block dirty.
LEMMA UndisturbedLedger ==
  ASSUME NEW p, NEW q, WellFormed(p), WellFormed(q), Undisturbed(p, q)
  PROVE  /\ \A c \in Block : Pins(q, c) = Pins(p, c)
         /\ DirtyBlocks(q) \subseteq DirtyBlocks(p)
<1>1. p \in Pool /\ q \in Pool /\ Coherent(p) /\ Coherent(q)
  BY DEF WellFormed
<1>2. ASSUME NEW c \in Block, NEW j \in DOMAIN q.frames, q.frames[j].block = c
      PROVE  /\ j \in DOMAIN p.frames /\ p.frames[j].block = c
             /\ q.frames[j].pins = p.frames[j].pins
             /\ q.frames[j].dirty_intent => p.frames[j].dirty_intent
  BY <1>2, NoBlockAssumption DEF Undisturbed
<1>3. ASSUME NEW c \in Block PROVE Pins(q, c) = Pins(p, c)
  <2>1. CASE \E j \in DOMAIN q.frames : q.frames[j].block = c
    <3>1. PICK j \in DOMAIN q.frames : q.frames[j].block = c
      BY <2>1
    <3>2. Pins(q, c) = q.frames[j].pins
      BY <1>1, <3>1, PinsFacts
    <3>3. Pins(p, c) = p.frames[j].pins
      BY <1>1, <1>2, <3>1, PinsFacts
    <3> QED BY <1>2, <3>1, <3>2, <3>3
  <2>2. CASE \A j \in DOMAIN q.frames : q.frames[j].block # c
    <3>1. \A j \in DOMAIN p.frames : p.frames[j].block # c
      BY <2>2 DEF Undisturbed
    <3> QED BY <1>1, <2>2, <3>1, PinsFacts
  <2> QED BY <2>1, <2>2
<1>4. DirtyBlocks(q) \subseteq DirtyBlocks(p)
  BY <1>2 DEF DirtyBlocks
<1> QED BY <1>3, <1>4

\* Replacing one frame gives its block the frame's pins and takes them from the
\* block it held before.
LEMMA ReplaceLedger ==
  ASSUME NEW p, NEW q, WellFormed(p), WellFormed(q),
         NEW i \in DOMAIN p.frames,
         DOMAIN q.frames = DOMAIN p.frames,
         \A j \in DOMAIN p.frames : j # i => q.frames[j] = p.frames[j],
         q.frames[i].block \in Block,
         q.frames[i].block = p.frames[i].block \/ p.frames[i].pins = 0
  PROVE  /\ Repinned(p, q, q.frames[i].block, q.frames[i].pins)
         /\ DirtyBlocks(q) \subseteq DirtyBlocks(p) \cup
              (IF q.frames[i].dirty_intent THEN {q.frames[i].block} ELSE {})
<1>1. p \in Pool /\ q \in Pool /\ Coherent(p) /\ Coherent(q)
  BY DEF WellFormed
<1>2. Pins(q, q.frames[i].block) = q.frames[i].pins
  BY <1>1, PinsFacts
<1>3. ASSUME NEW c \in Block, c # q.frames[i].block PROVE Pins(q, c) = Pins(p, c)
  <2>1. CASE \E j \in DOMAIN q.frames : q.frames[j].block = c
    <3>1. PICK j \in DOMAIN q.frames : q.frames[j].block = c
      BY <2>1
    <3>2. j # i /\ j \in DOMAIN p.frames /\ p.frames[j] = q.frames[j]
      BY <3>1, <1>3
    <3>3. Pins(q, c) = q.frames[j].pins
      BY <1>1, <3>1, PinsFacts
    <3>4. Pins(p, c) = p.frames[j].pins
      BY <1>1, <3>1, <3>2, PinsFacts
    <3> QED BY <3>2, <3>3, <3>4
  <2>2. CASE \A j \in DOMAIN q.frames : q.frames[j].block # c
    <3>1. Pins(q, c) = 0
      BY <1>1, <2>2, PinsFacts
    <3>2. CASE p.frames[i].block = c
      BY <1>1, <1>3, <3>1, <3>2, PinsFacts
    <3>3. CASE p.frames[i].block # c
      <4>1. \A j \in DOMAIN p.frames : p.frames[j].block # c
        BY <2>2, <3>3
      <4> QED BY <1>1, <3>1, <4>1, PinsFacts
    <3> QED BY <3>2, <3>3
  <2> QED BY <2>1, <2>2
<1>4. DirtyBlocks(q) \subseteq DirtyBlocks(p) \cup
        (IF q.frames[i].dirty_intent THEN {q.frames[i].block} ELSE {})
  <2> SUFFICES ASSUME NEW c \in DirtyBlocks(q), c \notin DirtyBlocks(p)
               PROVE  q.frames[i].dirty_intent /\ c = q.frames[i].block
    OBVIOUS
  <2>1. PICK j \in DOMAIN q.frames : q.frames[j].block = c /\ q.frames[j].dirty_intent
    BY DEF DirtyBlocks
  <2>2. c \in Block
    BY DEF DirtyBlocks
  <2>3. j = i
    BY <2>1, <2>2 DEF DirtyBlocks
  <2> QED BY <2>1, <2>3
<1> QED BY <1>2, <1>3, <1>4 DEF Repinned

\* What fetch does to the pins, and that it makes no block dirty.
Fetched(p, r, b) ==
  /\ Repinned(p, r.pool, b, IF r.ok THEN Pins(p, b) + 1 ELSE Pins(p, b))
  /\ DirtyBlocks(r.pool) \subseteq DirtyBlocks(p)

\* fetch adds one pin, on the block it was asked for, unless it fails.
LEMMA FetchLedger ==
  ASSUME NEW p, WellFormed(p), NEW b \in Block, NEW rd, NEW wr
  PROVE  Fetched(p, fetch(p, b, rd, wr), b)
<1> DEFINE r == fetch(p, b, rd, wr)
           q == r.pool
           s == Resident(p, b, rd, wr)
           a == acquire_frame(p, wr)
<1>1. p \in Pool /\ Coherent(p)
  BY DEF WellFormed
<1>2. CASE Holding(p, b) # {}
  <2> DEFINE i == find(p, b)
             f == p.frames[i]
             n == IF f.state = "Pinned" THEN f.pins + 1 ELSE 1
             g == [f EXCEPT !.state = "Pinned", !.pins = n]
  <2>1. i \in DOMAIN p.frames /\ f \in Frame /\ f.block = b
    BY <1>1, <1>2, FindFacts, PoolFacts
  <2>2. s = Ok(SetFrame(p, i, g), i)
    BY <1>2 DEF Resident, pin_frame
  <2>3. r.ok = TRUE /\ q = touch(SetFrame(p, i, g), i)
    BY <2>2 DEF fetch, Ok
  <2>4. FrameOK(f, p.device)
    BY <1>1, <2>1 DEF Coherent
  <2>5. n \in Nat /\ n > 0 /\ n = f.pins + 1
    BY <2>1, <2>4 DEF Frame, FrameOK
  <2> HIDE DEF r, q, i, f, n
  <2>6. /\ g \in Frame
        /\ g.block = b /\ g.page = f.page /\ g.dirty_intent = f.dirty_intent
        /\ g.state = "Pinned" /\ g.pins = n
    BY <2>1, <2>5, Zenon DEF Frame, PageState
  <2> HIDE DEF g
  <2>7. FrameOK(g, p.device)
    BY <2>1, <2>4, <2>5, <2>6, NoBlockAssumption DEF FrameOK
  <2>8. /\ WellFormed(q)
        /\ DOMAIN q.frames = DOMAIN p.frames
        /\ q.frames[i] = g
        /\ \A j \in DOMAIN p.frames : j # i => q.frames[j] = p.frames[j]
    BY <2>1, <2>3, <2>6, <2>7, InstallFacts DEF f
  <2>9. /\ Repinned(p, q, b, n)
        /\ DirtyBlocks(q) \subseteq DirtyBlocks(p) \cup (IF g.dirty_intent THEN {b} ELSE {})
    BY <2>1, <2>6, <2>8, ReplaceLedger DEF f
  <2>10. f.dirty_intent => b \in DirtyBlocks(p)
    BY <2>1 DEF DirtyBlocks, f
  <2>11. DirtyBlocks(q) \subseteq DirtyBlocks(p)
    BY <2>6, <2>9, <2>10
  <2>12. n = Pins(p, b) + 1
    BY <1>1, <2>1, <2>5, PinsFacts DEF f
  <2> QED BY <2>3, <2>9, <2>11, <2>12 DEF Fetched, r, q
<1>3. CASE Holding(p, b) = {}
  <2>1. /\ WellFormed(a.pool) /\ Undisturbed(p, a.pool)
        /\ a.ok \in BOOLEAN
        /\ a.ok => a.idx \in DOMAIN a.pool.frames /\ a.pool.frames[a.idx].state = "Free"
    BY AcquireFacts
  <2>2. /\ \A c \in Block : Pins(a.pool, c) = Pins(p, c)
        /\ DirtyBlocks(a.pool) \subseteq DirtyBlocks(p)
    BY <2>1, UndisturbedLedger
  <2>3. CASE ~a.ok \/ (a.ok /\ (rd # "ok" \/ a.pool.device[b] = Corrupt))
    <3>1. s.ok = FALSE /\ s.pool = a.pool
      BY <1>3, <2>1, <2>3 DEF Resident, Load, Err
    <3>2. r.ok = FALSE /\ q = a.pool
      BY <3>1 DEF fetch
    <3> HIDE DEF r, q, s, a
    <3> QED BY <2>2, <3>2 DEF Fetched, Repinned, r, q
  <2>4. CASE a.ok /\ rd = "ok" /\ a.pool.device[b] # Corrupt
    <3> DEFINE t == a.pool
               i == a.idx
               g == [block |-> b, page |-> t.device[b], state |-> "Pinned",
                     pins |-> 1, dirty_intent |-> FALSE]
    <3>1. s = Ok(SetFrame(t, i, g), i)
      BY <1>3, <2>4 DEF Resident, Load
    <3>2. r.ok = TRUE /\ q = touch(SetFrame(t, i, g), i)
      BY <3>1 DEF fetch, Ok
    <3> HIDE DEF r, q, s, a, t, i
    <3>3. /\ WellFormed(t) /\ Undisturbed(p, t)
          /\ i \in DOMAIN t.frames /\ t.frames[i].state = "Free"
          /\ t.device[b] # Corrupt
      BY <2>1, <2>4 DEF t, i
    <3>4. t \in Pool /\ Coherent(t)
      BY <3>3 DEF WellFormed
    <3>5. t.device[b] \in Page
      BY <3>3, <3>4, PoolFacts
    <3>6. /\ g \in Frame /\ FrameOK(g, t.device)
          /\ g.block = b /\ g.state = "Pinned" /\ g.pins = 1 /\ g.dirty_intent = FALSE
      BY <3>5, NoBlockAssumption DEF Frame, PageState, FrameOK
    <3> HIDE DEF g
    <3>7. \A j \in DOMAIN p.frames : p.frames[j].block # b
      BY <1>3 DEF Holding
    <3>8. \A j \in DOMAIN t.frames : t.frames[j].block # b
      BY <3>3, <3>7, NoBlockAssumption DEF Undisturbed
    <3>9. /\ WellFormed(q)
          /\ DOMAIN q.frames = DOMAIN t.frames
          /\ q.frames[i] = g
          /\ \A j \in DOMAIN t.frames : j # i => q.frames[j] = t.frames[j]
      BY <3>2, <3>3, <3>6, <3>8, InstallFacts
    <3>10. t.frames[i].pins = 0
      BY <3>3, <3>4, PoolFacts DEF Coherent, FrameOK, Frame
    <3>11. /\ Repinned(t, q, b, 1)
           /\ DirtyBlocks(q) \subseteq DirtyBlocks(t)
      BY <3>3, <3>6, <3>9, <3>10, ReplaceLedger
    <3>12. Pins(p, b) = 0
      BY <1>1, <3>7, PinsFacts
    <3>13. Repinned(p, q, b, Pins(p, b) + 1)
      BY <2>2, <3>11, <3>12 DEF Repinned, t
    <3>14. DirtyBlocks(q) \subseteq DirtyBlocks(p)
      BY <2>2, <3>11 DEF t
    <3> QED BY <3>2, <3>13, <3>14 DEF Fetched, r, q
  <2> QED BY <2>1, <2>3, <2>4, Zenon
<1> QED BY <1>2, <1>3, Zenon

\* A store leaves every pin, and makes one block dirty.
LEMMA StoredLedger ==
  ASSUME NEW p, NEW q, WellFormed(p), WellFormed(q), NEW i \in DOMAIN p.frames, NEW pg,
         Stored(p, q, i, pg), p.frames[i].block \in Block
  PROVE  /\ \A c \in Block : Pins(q, c) = Pins(p, c)
         /\ DirtyBlocks(q) \subseteq DirtyBlocks(p) \cup {p.frames[i].block}
<1>1. p \in Pool /\ Coherent(p)
  BY DEF WellFormed
<1>2. /\ Repinned(p, q, p.frames[i].block, p.frames[i].pins)
      /\ DirtyBlocks(q) \subseteq DirtyBlocks(p) \cup {p.frames[i].block}
  BY ReplaceLedger DEF Stored
<1>3. Pins(p, p.frames[i].block) = p.frames[i].pins
  BY <1>1, PinsFacts
<1> QED BY <1>2, <1>3 DEF Repinned

\* What fetch_mut and the store do to the pins and the dirty blocks.
FetchedMut(p, q, b, ok) ==
  /\ Repinned(p, q, b, IF ok THEN Pins(p, b) + 1 ELSE Pins(p, b))
  /\ DirtyBlocks(q) \subseteq DirtyBlocks(p) \cup (IF ok THEN {b} ELSE {})

\* fetch_mut pins like fetch; only the block that it returns becomes dirty.
LEMMA FetchMutLedger ==
  ASSUME NEW p, WellFormed(p), NEW b \in Block, NEW rd, NEW wr, NEW pg \in Page
  PROVE  LET r == fetch_mut(p, b, rd, wr) IN
         FetchedMut(p, StoreThrough(r, pg), b, r.ok)
<1> DEFINE s == fetch(p, b, rd, wr)
           t == s.pool
           r == fetch_mut(p, b, rd, wr)
           q == StoreThrough(r, pg)
           i == s.idx
<1>1. /\ WellFormed(t)
      /\ s.ok \in BOOLEAN
      /\ s.ok => /\ i \in DOMAIN t.frames
                 /\ t.frames[i].block = b
                 /\ t.frames[i].state = "Pinned"
  BY FetchFacts, Zenon
<1>2. Fetched(p, s, b)
  BY FetchLedger
<1>3. CASE ~s.ok
  <2>1. r = s
    BY <1>3 DEF fetch_mut
  <2> HIDE DEF s
  <2>2. q = t /\ ~r.ok
    BY <1>3, <2>1 DEF StoreThrough
  <2> HIDE DEF r, q
  <2> QED BY <1>2, <1>3, <2>2 DEF Fetched, FetchedMut, r, q
<1>4. CASE s.ok
  <2> DEFINE m == mark_dirty_pinned(t, i)
  <2>1. r = Ok(m, i)
    BY <1>4 DEF fetch_mut
  <2>2. r.ok = TRUE /\ r.pool = m /\ r.idx = i
    BY <2>1 DEF Ok
  <2>3. q = Store(m, i, pg)
    BY <2>2 DEF StoreThrough
  <2> HIDE DEF s, t, i, r, q
  <2>4. WellFormed(q) /\ Stored(t, q, i, pg)
    BY <1>1, <1>4, <2>3, StoreFacts
  <2>5. /\ \A c \in Block : Pins(q, c) = Pins(t, c)
        /\ DirtyBlocks(q) \subseteq DirtyBlocks(t) \cup {b}
    BY <1>1, <1>4, <2>4, StoredLedger
  <2>6. Repinned(p, q, b, Pins(p, b) + 1) /\ DirtyBlocks(q) \subseteq DirtyBlocks(p) \cup {b}
    BY <1>2, <1>4, <2>5 DEF Fetched, Repinned, t
  <2> QED BY <2>2, <2>6 DEF FetchedMut, r, q
<1> QED BY <1>1, <1>3, <1>4

\* unpin drops one pin of the block, if it has one, and makes no block dirty.
LEMMA UnpinLedger ==
  ASSUME NEW p, WellFormed(p), NEW b \in Block
  PROVE  /\ Repinned(p, unpin(p, b), b, IF Pins(p, b) > 0 THEN Pins(p, b) - 1 ELSE 0)
         /\ DirtyBlocks(unpin(p, b)) \subseteq DirtyBlocks(p)
<1> DEFINE i == find(p, b)
           f == p.frames[i]
           g == Unpinned(f)
           q == unpin(p, b)
<1>1. p \in Pool /\ Coherent(p)
  BY DEF WellFormed
<1>2. CASE Holding(p, b) # {} /\ f.state = "Pinned"
  <2>1. i \in DOMAIN p.frames /\ f \in Frame /\ f.block = b /\ FrameOK(f, p.device)
    BY <1>1, <1>2, FindFacts, PoolFacts DEF Coherent
  <2>2. q = SetFrame(p, i, g)
    BY <1>2 DEF unpin
  <2>3. f.pins \in Nat /\ f.pins > 0
    BY <1>2, <2>1 DEF Frame, FrameOK
  <2>4. WellFormed(q)
    BY UnpinFacts
  <2> HIDE DEF i, f, q
  <2>5. g \in Frame /\ g.block = f.block /\ g.dirty_intent = f.dirty_intent
    BY <2>1, <2>3, UnpinnedFacts
  <2>6. g.pins = f.pins - 1
    <3>1. CASE f.pins > 1
      <4>1. g = [f EXCEPT !.pins = f.pins - 1]
        BY <3>1 DEF Unpinned
      <4> QED BY <2>1, <4>1 DEF Frame
    <3>2. CASE ~(f.pins > 1)
      <4>1. g = [f EXCEPT !.pins = 0, !.state = IF f.dirty_intent THEN "Dirty" ELSE "Clean"]
        BY <3>2 DEF Unpinned
      <4>2. g.pins = 0
        BY <2>1, <4>1 DEF Frame
      <4> QED BY <2>3, <3>2, <4>2
    <3> QED BY <3>1, <3>2
  <2> HIDE DEF g
  <2>7. /\ DOMAIN q.frames = DOMAIN p.frames /\ q.frames[i] = g
        /\ \A j \in DOMAIN p.frames : j # i => q.frames[j] = p.frames[j]
    BY <1>1, <2>1, <2>2, <2>5, SetFrameFacts
  <2>8. /\ Repinned(p, q, b, f.pins - 1)
        /\ DirtyBlocks(q) \subseteq DirtyBlocks(p) \cup (IF f.dirty_intent THEN {b} ELSE {})
    BY <2>1, <2>4, <2>5, <2>6, <2>7, ReplaceLedger DEF f
  <2>9. f.dirty_intent => b \in DirtyBlocks(p)
    BY <2>1 DEF DirtyBlocks, f
  <2>10. Pins(p, b) = f.pins
    BY <1>1, <2>1, PinsFacts DEF f
  <2> QED BY <2>3, <2>8, <2>9, <2>10 DEF q
<1>3. CASE ~(Holding(p, b) # {} /\ f.state = "Pinned")
  <2>1. q = p
    BY <1>3 DEF unpin
  <2>2. Pins(p, b) = 0
    <3>1. CASE Holding(p, b) = {}
      BY <3>1 DEF Pins
    <3>2. CASE Holding(p, b) # {}
      <4>1. i \in DOMAIN p.frames /\ f \in Frame /\ f.block = b /\ FrameOK(f, p.device)
        BY <1>1, <3>2, FindFacts, PoolFacts DEF Coherent
      <4>2. f.pins = 0
        BY <1>3, <3>2, <4>1 DEF Frame, FrameOK
      <4> QED BY <3>2, <4>2 DEF Pins
    <3> QED BY <3>1, <3>2
  <2> QED BY <2>1, <2>2 DEF Repinned
<1> QED BY <1>2, <1>3

\* The device has the image of every block that is not dirty.
LEMMA CleanImages ==
  ASSUME NEW p, WellFormed(p), NEW b \in Block, b \notin DirtyBlocks(p)
  PROVE  Logical(p, b) = p.device[b]
<1>1. p \in Pool /\ Coherent(p)
  BY DEF WellFormed
<1>2. CASE \E i \in DOMAIN p.frames : p.frames[i].block = b
  <2>1. PICK i \in DOMAIN p.frames : p.frames[i].block = b
    BY <1>2
  <2>2. Logical(p, b) = p.frames[i].page
    BY <1>1, <2>1, FindFacts
  <2>3. ~p.frames[i].dirty_intent
    BY <2>1 DEF DirtyBlocks
  <2>4. FrameOK(p.frames[i], p.device)
    BY <1>1 DEF Coherent
  <2>5. p.frames[i].page = p.device[b]
    BY <2>1, <2>3, <2>4, NoBlockAssumption DEF FrameOK
  <2> QED BY <2>2, <2>5
<1>3. CASE \A i \in DOMAIN p.frames : p.frames[i].block # b
  BY <1>1, <1>3, FindFacts
<1> QED BY <1>2, <1>3

\* A frame that marks its block dirty is one that flush_all writes.
LEMMA DirtyFlushed ==
  ASSUME NEW p, WellFormed(p)
  PROVE  /\ \A i \in DOMAIN p.frames : p.frames[i].dirty_intent <=> i \in ToFlush(p)
         /\ ToFlush(p) = {} => DirtyBlocks(p) = {}
<1>1. \A i \in DOMAIN p.frames : FrameOK(p.frames[i], p.device)
  BY DEF WellFormed, Coherent
<1>2. \A i \in DOMAIN p.frames : p.frames[i].dirty_intent <=> i \in ToFlush(p)
  BY <1>1 DEF FrameOK, ToFlush
<1> QED BY <1>2 DEF DirtyBlocks

\* flush_all writes only dirty blocks, whichever of its writes fails, and makes
\* none dirty.
LEMMA FlushLedger ==
  ASSUME NEW p, WellFormed(p), NEW upto, NEW wr
  PROVE  /\ \A c \in Block : c \notin DirtyBlocks(p) =>
              flush_writes(p, upto, wr).device[c] = p.device[c]
         /\ DirtyBlocks(flush_writes(p, upto, wr)) \subseteq DirtyBlocks(p)
<1> DEFINE W == {i \in ToFlush(p) : i < upto}
           t == FlushFrames(p, W)
           q == flush_writes(p, upto, wr)
<1>1. WellFormed(t) /\ WrittenBack(p, t, W) /\ SameImages(p, t) /\ PinsKept(p, t)
  BY FlushFramesFacts
<1>2. p \in Pool /\ Coherent(p) /\ t \in Pool
  BY <1>1 DEF WellFormed
<1>3. \A i \in ToFlush(p) : i \in DOMAIN p.frames /\ p.frames[i].dirty_intent
  BY DirtyFlushed DEF ToFlush
<1>4. \A i \in ToFlush(p) : p.frames[i].block \in Block
  BY <1>2, PoolFacts DEF ToFlush, Coherent, FrameOK, Frame
<1>5. \A i \in ToFlush(p) : p.frames[i].block \in DirtyBlocks(p)
  BY <1>3, <1>4 DEF DirtyBlocks
<1>6. W \subseteq ToFlush(p)
  OBVIOUS
<1> HIDE DEF W
<1>7. \A c \in Block : c \notin DirtyBlocks(p) => t.device[c] = p.device[c]
  <2> SUFFICES ASSUME NEW c \in Block, c \notin DirtyBlocks(p) PROVE t.device[c] = p.device[c]
    OBVIOUS
  <2>1. \A i \in W : p.frames[i].block # c
    BY <1>5, <1>6
  <2>2. Written(p, W)[c] = p.device[c]
    BY <1>2, <1>6, <2>1, WrittenFacts
  <2> QED BY <1>1, <2>2 DEF WrittenBack
<1>8. \A i \in DOMAIN p.frames : /\ t.frames[i].block = p.frames[i].block
                                 /\ t.frames[i].dirty_intent => p.frames[i].dirty_intent
  <2> SUFFICES ASSUME NEW i \in DOMAIN p.frames
               PROVE  /\ t.frames[i].block = p.frames[i].block
                      /\ t.frames[i].dirty_intent => p.frames[i].dirty_intent
    OBVIOUS
  <2>1. CASE i \in W
    <3>1. t.frames[i] = Flushed(p.frames[i]) /\ p.frames[i] \in Frame
      BY <1>1, <1>2, <2>1, PoolFacts DEF WrittenBack
    <3> QED BY <3>1, FlushedFacts, Zenon
  <2>2. CASE i \notin W
    BY <1>1, <2>2 DEF WrittenBack
  <2> QED BY <2>1, <2>2
<1>9. DirtyBlocks(t) \subseteq DirtyBlocks(p)
  BY <1>1, <1>8 DEF DirtyBlocks, WrittenBack
<1>10. CASE upto \notin ToFlush(p)
  <2>1. q = t
    BY <1>10 DEF flush_writes, W
  <2> QED BY <1>7, <1>9, <2>1
<1>11. CASE upto \in ToFlush(p)
  <2> DEFINE f == p.frames[upto]
             d == write_block(t.device, f.block, f.page, wr)
  <2>1. q = [t EXCEPT !.device = d]
    BY <1>11 DEF flush_writes, W
  <2> HIDE DEF q, t
  <2>2. q.device = d /\ q.frames = t.frames
    BY <1>2, <2>1 DEF Pool
  <2>3. t.device \in Device /\ f.block \in DirtyBlocks(p) /\ f.block \in Block /\ f.page \in Page
    BY <1>2, <1>4, <1>5, <1>11, PoolFacts DEF ToFlush, Frame, Pool
  <2>4. \A c \in Block : c # f.block => d[c] = t.device[c]
    BY <2>3, WriteBlockFacts
  <2> HIDE DEF d, f
  <2>5. \A c \in Block : c \notin DirtyBlocks(p) => q.device[c] = p.device[c]
    BY <1>7, <2>2, <2>3, <2>4
  <2>6. DirtyBlocks(q) = DirtyBlocks(t)
    BY <2>2 DEF DirtyBlocks
  <2> QED BY <1>9, <2>5, <2>6 DEF q
<1> QED BY <1>10, <1>11

-----------------------------------------------------------------------------
\* A pool without frames: every image is the device's.
LEMMA EmptyPoolFacts ==
  ASSUME NEW p \in Pool, p.frames = <<>>, p.lru = <<>>
  PROVE  /\ WellFormed(p)
         /\ \A b \in Block : Logical(p, b) = p.device[b] /\ Pins(p, b) = 0
         /\ DirtyBlocks(p) = {}
<1>1. <<>> \in Seq(Frame) /\ <<>> \in Seq(Nat) /\ Len(<<>>) = 0 /\ DOMAIN <<>> = {}
  BY EmptySeq
<1>2. Coherent(p)
  BY <1>1 DEF Coherent
<1>3. LruExact(p)
  BY <1>1 DEF LruExact, IsInjective, Range
<1>4. WellFormed(p)
  BY <1>1, <1>2, <1>3, CapacityAssumption DEF WellFormed
<1>5. \A b \in Block : Logical(p, b) = p.device[b] /\ Pins(p, b) = 0
  BY <1>1, <1>2, FindFacts, PinsFacts
<1>6. DirtyBlocks(p) = {}
  BY <1>1 DEF DirtyBlocks
<1> QED BY <1>4, <1>5, <1>6
=============================================================================
