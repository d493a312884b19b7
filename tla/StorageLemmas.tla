--------------------------- MODULE StorageLemmas ---------------------------
(***************************************************************************)
(* Facts about the write-ahead log and the methods of StorageEngine: what  *)
(* replay surfaces of damaged log bytes, what an overwrite that stops      *)
(* short leaves, and what write_page, read_page, flush and recover do to   *)
(* the images, the device and the dirty blocks of an engine.               *)
(***************************************************************************)
EXTENDS StorageEngineOps, BufferPoolLemmas

Bytes == WalRecord \cup {Torn}

\* The log of a running engine: whole records, LSNs 0, 1, 2, ... in order.
Log == [bytes : Seq(WalRecord), next_lsn : Nat]
LogOK(w) ==
  /\ w \in Log
  /\ w.next_lsn = Len(w.bytes)
  /\ \A k \in DOMAIN w.bytes : w.bytes[k].lsn = k - 1

\* Log bytes as they may be found on disk: a record that decodes has the LSN
\* of its place.
Numbered(s) == /\ s \in Seq(Bytes)
               /\ \A k \in DOMAIN s : s[k] # Torn => s[k].lsn = k - 1

\* The two sequences agree on their first c records.
Agree(s, t, c) == c \in 0..Len(s) /\ c \in 0..Len(t) /\ \A j \in 1..c : s[j] = t[j]

-----------------------------------------------------------------------------
\* Positions and elements of log bytes.
LEMMA BytesFacts ==
  ASSUME NEW s \in Seq(Bytes)
  PROVE  Len(s) \in Nat /\ DOMAIN s = 1..Len(s) /\ \A k \in 1..Len(s) : s[k] \in Bytes
BY LenProperties, ElementOfSeq

LEMMA RecordsFacts ==
  ASSUME NEW s \in Seq(WalRecord)
  PROVE  /\ Len(s) \in Nat /\ DOMAIN s = 1..Len(s)
         /\ \A k \in 1..Len(s) : s[k] \in WalRecord /\ s[k] # Torn
         /\ s \in Seq(Bytes)
<1>1. Len(s) \in Nat /\ DOMAIN s = 1..Len(s) /\ \A k \in 1..Len(s) : s[k] \in WalRecord
  BY LenProperties, ElementOfSeq
<1>2. s \in Seq(Bytes)
  BY SeqMonotonic DEF Bytes
<1> QED BY <1>1, <1>2, TornAssumption

\* Two sequences with the same length and elements are equal.
LEMMA SameBytes ==
  ASSUME NEW s \in Seq(Bytes), NEW t \in Seq(Bytes), Len(s) = Len(t),
         \A k \in 1..Len(s) : s[k] = t[k]
  PROVE  s = t
BY SeqEqual

\* Bytes that hold only whole records are a sequence of records.
LEMMA WholeBytes ==
  ASSUME NEW s \in Seq(Bytes), \A k \in 1..Len(s) : s[k] # Torn
  PROVE  s \in Seq(WalRecord)
<1>1. Len(s) \in Nat /\ DOMAIN s = 1..Len(s) /\ \A k \in 1..Len(s) : s[k] \in WalRecord
  BY BytesFacts DEF Bytes
<1>2. s \in [1..Len(s) -> WalRecord]
  <2>1. s = [k \in 1..Len(s) |-> s[k]]
    BY <1>1, SeqDef
  <2> QED BY <1>1, <2>1
<1> QED BY <1>1, <1>2, SeqDef

\* The first n records.
LEMMA PrefixFacts ==
  ASSUME NEW s \in Seq(Bytes), NEW n \in 0..Len(s)
  PROVE  /\ SubSeq(s, 1, n) \in Seq(Bytes)
         /\ Len(SubSeq(s, 1, n)) = n
         /\ \A k \in 1..n : SubSeq(s, 1, n)[k] = s[k]
<1>1. Len(s) \in Nat /\ n \in Int /\ \A k \in 1..n : s[k] \in Bytes
  BY BytesFacts
<1>2. /\ SubSeq(s, 1, n) \in Seq(Bytes)
      /\ Len(SubSeq(s, 1, n)) = IF 1 <= n THEN n - 1 + 1 ELSE 0
      /\ \A k \in 1..(n - 1 + 1) : SubSeq(s, 1, n)[k] = s[1 + k - 1]
  BY <1>1, SubSeqProperties
<1>3. Len(SubSeq(s, 1, n)) = n
  BY <1>1, <1>2
<1>4. \A k \in 1..n : SubSeq(s, 1, n)[k] = s[k]
  <2> SUFFICES ASSUME NEW k \in 1..n PROVE SubSeq(s, 1, n)[k] = s[k]
    OBVIOUS
  <2>1. k \in 1..(n - 1 + 1) /\ 1 + k - 1 = k
    BY <1>1
  <2> QED BY <1>2, <2>1
<1> QED BY <1>2, <1>3, <1>4

\* One more record, and taking it back.
LEMMA AppendFacts ==
  ASSUME NEW s \in Seq(Bytes), NEW r \in Bytes
  PROVE  /\ Append(s, r) \in Seq(Bytes)
         /\ Len(Append(s, r)) = Len(s) + 1
         /\ \A k \in 1..Len(s) : Append(s, r)[k] = s[k]
         /\ Append(s, r)[Len(s) + 1] = r
         /\ SubSeq(Append(s, r), 1, Len(s)) = s
<1>1. /\ Append(s, r) \in Seq(Bytes)
      /\ Len(Append(s, r)) = Len(s) + 1
      /\ \A k \in 1..Len(s) : Append(s, r)[k] = s[k]
      /\ Append(s, r)[Len(s) + 1] = r
  BY AppendProperties
<1>2. Len(s) \in Nat
  BY BytesFacts
<1> DEFINE a == Append(s, r)
<1> HIDE DEF a
<1>3. a \in Seq(Bytes) /\ Len(s) \in 0..Len(a) /\ \A k \in 1..Len(s) : a[k] = s[k]
  BY <1>1, <1>2 DEF a
<1>4. /\ SubSeq(a, 1, Len(s)) \in Seq(Bytes)
      /\ Len(SubSeq(a, 1, Len(s))) = Len(s)
      /\ \A k \in 1..Len(s) : SubSeq(a, 1, Len(s))[k] = a[k]
  BY <1>3, PrefixFacts
<1>5. SubSeq(a, 1, Len(s)) = s
  BY <1>3, <1>4, SameBytes
<1> QED BY <1>1, <1>5 DEF a

-----------------------------------------------------------------------------
\* The record that append writes.
Record(w, kind, b, pg) == [lsn |-> w.next_lsn, kind |-> kind, block |-> b, page |-> pg]

\* append keeps the LSNs in order, and truncate to the old length undoes it.
LEMMA AppendLog ==
  ASSUME NEW w, LogOK(w), NEW kind \in RecordKind, NEW b \in Block \cup {NoBlock},
         NEW pg \in Page
  PROVE  /\ LogOK(append(w, kind, b, pg))
         /\ append(w, kind, b, pg).bytes = Append(w.bytes, Record(w, kind, b, pg))
         /\ Record(w, kind, b, pg) \in WalRecord
         /\ truncate(append(w, kind, b, pg), Len(w.bytes), w.next_lsn) = w
<1> DEFINE r == Record(w, kind, b, pg)
           s == w.bytes
           a == Append(s, r)
           v == append(w, kind, b, pg)
<1>1. w \in Log /\ s \in Seq(WalRecord) /\ w.next_lsn = Len(s) /\ Len(s) \in Nat
  BY LenProperties DEF LogOK, Log
<1>2. r \in WalRecord /\ r.lsn = w.next_lsn
  BY <1>1 DEF Record, WalRecord
<1>3. v = [bytes |-> a, next_lsn |-> w.next_lsn + 1]
  BY DEF append, Record
<1>4. a \in Seq(WalRecord) /\ Len(a) = Len(s) + 1
      /\ (\A k \in 1..Len(s) : a[k] = s[k]) /\ a[Len(s) + 1] = r
  BY <1>1, <1>2, AppendProperties
<1>5. SubSeq(a, 1, Len(s)) = s
  BY <1>1, <1>2, RecordsFacts, AppendFacts DEF Bytes
<1> HIDE DEF a, r, v
<1>6. v.bytes = a /\ v.next_lsn = Len(s) + 1 /\ v \in Log
  BY <1>1, <1>3, <1>4 DEF Log
<1>7. \A k \in DOMAIN a : a[k].lsn = k - 1
  <2> SUFFICES ASSUME NEW k \in 1..(Len(s) + 1) PROVE a[k].lsn = k - 1
    BY <1>1, <1>4, RecordsFacts
  <2>1. CASE k \in 1..Len(s)
    BY <2>1, <1>1, <1>4, RecordsFacts DEF LogOK
  <2>2. CASE k = Len(s) + 1
    BY <2>2, <1>1, <1>2, <1>4
  <2> QED BY <1>1, <2>1, <2>2
<1>8. LogOK(v)
  BY <1>4, <1>6, <1>7 DEF LogOK
<1>9. truncate(v, Len(s), w.next_lsn) = [bytes |-> s, next_lsn |-> w.next_lsn]
  BY <1>5, <1>6 DEF truncate
<1>10. w = [bytes |-> s, next_lsn |-> w.next_lsn]
  BY <1>1 DEF Log
<1> QED BY <1>2, <1>6, <1>8, <1>9, <1>10 DEF v, a, r

\* The empty log.
LEMMA NewLog == LogOK(NewWal) /\ NewWal.bytes = <<>> /\ Len(<<>>) = 0 /\ DOMAIN <<>> = {}
BY EmptySeq DEF LogOK, Log, NewWal

-----------------------------------------------------------------------------
\* Replay surfaces the records before the first torn one, and no others.
LEMMA IntactFacts ==
  ASSUME NEW s \in Seq(Bytes)
  PROVE  /\ Intact(s) \in Seq(WalRecord)
         /\ Len(Intact(s)) \in 0..Len(s)
         /\ \A k \in 1..Len(Intact(s)) : Intact(s)[k] = s[k]
         /\ \A c \in 1..Len(s) : Surfaced(s, c) <=> c <= Len(Intact(s))
<1> DEFINE S == {k \in 1..(Len(s) + 1) : k = Len(s) + 1 \/ s[k] = Torn}
           m == Min(S)
           n == m - 1
<1>1. Len(s) \in Nat /\ DOMAIN s = 1..Len(s) /\ \A k \in 1..Len(s) : s[k] \in Bytes
  BY BytesFacts
<1>2. S \subseteq Nat /\ S # {}
  <2>1. Len(s) + 1 \in S
    BY <1>1
  <2> QED BY <1>1, <2>1
<1>3. m \in S /\ \A j \in S : m <= j
  BY <1>2, MinOfNats
<1>4. m \in 1..(Len(s) + 1) /\ (m = Len(s) + 1 \/ s[m] = Torn)
  BY <1>3
<1>5. \A j \in 1..(Len(s) + 1) : j < m => j # Len(s) + 1 /\ s[j] # Torn
  BY <1>1, <1>3
<1> HIDE DEF m, S
<1>6. n \in 0..Len(s)
  BY <1>1, <1>4
<1>7. Intact(s) = SubSeq(s, 1, n)
  BY DEF Intact, m, S
<1>8. /\ Intact(s) \in Seq(Bytes)
      /\ Len(Intact(s)) = n
      /\ \A k \in 1..n : Intact(s)[k] = s[k]
  BY <1>6, <1>7, PrefixFacts
<1>9. \A k \in 1..n : s[k] # Torn
  BY <1>1, <1>4, <1>5
<1>10. Intact(s) \in Seq(WalRecord)
  BY <1>8, <1>9, WholeBytes
<1>11. \A c \in 1..Len(s) : Surfaced(s, c) <=> c <= n
  <2> SUFFICES ASSUME NEW c \in 1..Len(s) PROVE Surfaced(s, c) <=> c <= n
    OBVIOUS
  <2>1. CASE c <= n
    BY <2>1, <1>6, <1>9 DEF Surfaced
  <2>2. CASE ~(c <= n)
    <3>1. m \in 1..c /\ s[m] = Torn
      BY <2>2, <1>1, <1>4
    <3> QED BY <2>2, <3>1 DEF Surfaced
  <2> QED BY <2>1, <2>2
<1> QED BY <1>6, <1>8, <1>10, <1>11

\* from_bytes of what a crash left is a log.
LEMMA FromBytesFacts ==
  ASSUME NEW s, Numbered(s)
  PROVE  LogOK(from_bytes(s)) /\ from_bytes(s).bytes = Intact(s)
<1> DEFINE t == Intact(s)
           v == from_bytes(s)
<1>1. /\ s \in Seq(Bytes) /\ t \in Seq(WalRecord)
      /\ Len(t) \in 0..Len(s)
      /\ \A k \in 1..Len(t) : t[k] = s[k]
  BY IntactFacts DEF Numbered
<1>2. Len(s) \in Nat /\ DOMAIN s = 1..Len(s)
  BY <1>1, BytesFacts
<1>3. Len(t) \in Nat /\ DOMAIN t = 1..Len(t) /\ \A k \in 1..Len(t) : t[k] \in WalRecord /\ t[k] # Torn
  BY <1>1, RecordsFacts
<1>4. v = [bytes |-> t, next_lsn |-> IF t = <<>> THEN 0 ELSE t[Len(t)].lsn + 1]
  BY DEF from_bytes
<1> HIDE DEF t, v
<1>5. \A k \in 1..Len(t) : t[k].lsn = k - 1
  BY <1>1, <1>2, <1>3 DEF Numbered
<1>6. (IF t = <<>> THEN 0 ELSE t[Len(t)].lsn + 1) = Len(t)
  <2>1. CASE t = <<>>
    BY <2>1, EmptySeq
  <2>2. CASE t # <<>>
    <3>1. Len(t) # 0
      BY <2>2, <1>1, EmptySeq
    <3>2. Len(t) \in 1..Len(t)
      BY <1>3, <3>1
    <3> QED BY <2>2, <3>2, <1>3, <1>5
  <2> QED BY <2>1, <2>2
<1>7. v.bytes = t /\ v.next_lsn = Len(t) /\ v \in Log
  BY <1>1, <1>3, <1>4, <1>6 DEF Log
<1> QED BY <1>3, <1>5, <1>7 DEF LogOK, v, t

\* What two logs share: the length that Partial keeps at least.
LEMMA CommonPrefixFacts ==
  ASSUME NEW s \in Seq(Bytes), NEW t \in Seq(Bytes)
  PROVE  LET l == Max({n \in 0..Len(t) : n <= Len(s) /\ SubSeq(s, 1, n) = SubSeq(t, 1, n)})
         IN Agree(s, t, l) /\ \A c : Agree(s, t, c) => c <= l
<1> DEFINE N == {n \in 0..Len(t) : n <= Len(s) /\ SubSeq(s, 1, n) = SubSeq(t, 1, n)}
<1>1. Len(s) \in Nat /\ Len(t) \in Nat
  BY BytesFacts
<1>2. ASSUME NEW n \in N PROVE Agree(s, t, n)
  <2>1. n \in 0..Len(s) /\ n \in 0..Len(t)
    BY <1>1
  <2>2. \A j \in 1..n : s[j] = SubSeq(s, 1, n)[j] /\ t[j] = SubSeq(t, 1, n)[j]
    BY <2>1, PrefixFacts
  <2> QED BY <2>1, <2>2 DEF Agree
<1>3. ASSUME NEW c, Agree(s, t, c) PROVE c \in N
  <2>1. /\ c \in 0..Len(s) /\ c \in 0..Len(t) /\ c <= Len(s)
        /\ \A j \in 1..c : s[j] = t[j]
    BY <1>1, <1>3 DEF Agree
  <2>2. /\ SubSeq(s, 1, c) \in Seq(Bytes) /\ Len(SubSeq(s, 1, c)) = c
        /\ SubSeq(t, 1, c) \in Seq(Bytes) /\ Len(SubSeq(t, 1, c)) = c
        /\ \A j \in 1..c : SubSeq(s, 1, c)[j] = s[j] /\ SubSeq(t, 1, c)[j] = t[j]
    BY <2>1, PrefixFacts
  <2>3. SubSeq(s, 1, c) = SubSeq(t, 1, c)
    BY <2>1, <2>2, SameBytes
  <2> QED BY <2>1, <2>3
<1>4. Agree(s, t, 0)
  BY <1>1 DEF Agree
<1>5. Max(N) \in N /\ \A j \in N : j <= Max(N)
  <2>1. N \subseteq 0..Len(t) /\ N # {}
    BY <1>3, <1>4
  <2> HIDE DEF N
  <2> QED BY <1>1, <2>1, MaxOfBounded
<1>6. Agree(s, t, Max(N)) /\ \A c : Agree(s, t, c) => c <= Max(N)
  <2> HIDE DEF N
  <2> QED BY <1>2, <1>3, <1>5
<1> QED BY <1>6

\* The bytes u are n records of t, all that s shares with t among them, and at
\* most one torn record after them.
Stopped(s, t, u, n) ==
  /\ \A c : Agree(s, t, c) => c <= n
  /\ u \in Seq(Bytes)
  /\ \A j \in 1..n : u[j] = t[j]
  /\ \/ Len(u) = n
     \/ Len(u) = n + 1 /\ u[n + 1] = Torn

\* What an overwrite that stops short leaves.
LEMMA PartialFacts ==
  ASSUME NEW s \in Seq(Bytes), NEW t \in Seq(Bytes), NEW u \in Partial(s, t)
  PROVE  \E n \in 0..Len(t) : Stopped(s, t, u, n)
<1> DEFINE l == Max({n \in 0..Len(t) : n <= Len(s) /\ SubSeq(s, 1, n) = SubSeq(t, 1, n)})
<1>1. Agree(s, t, l) /\ \A c : Agree(s, t, c) => c <= l
  BY CommonPrefixFacts
<1>2. Len(s) \in Nat /\ Len(t) \in Nat
  BY BytesFacts
<1>3. l \in 0..Len(t)
  BY <1>1 DEF Agree
<1>4. PICK n \in l..Len(t) : u = SubSeq(t, 1, n) \/ u = Append(SubSeq(t, 1, n), Torn)
  BY DEF Partial
<1> HIDE DEF l
<1>5. n \in 0..Len(t) /\ n \in Nat /\ l <= n
  BY <1>2, <1>3, <1>4
<1>6. /\ SubSeq(t, 1, n) \in Seq(Bytes)
      /\ Len(SubSeq(t, 1, n)) = n
      /\ \A k \in 1..n : SubSeq(t, 1, n)[k] = t[k]
  BY <1>5, PrefixFacts
<1>7. Torn \in Bytes
  BY DEF Bytes
<1>8. /\ u \in Seq(Bytes)
      /\ \A j \in 1..n : u[j] = t[j]
      /\ \/ Len(u) = n
         \/ Len(u) = n + 1 /\ u[n + 1] = Torn
  <2>1. CASE u = SubSeq(t, 1, n)
    BY <2>1, <1>6
  <2>2. CASE u = Append(SubSeq(t, 1, n), Torn)
    <3> DEFINE v == SubSeq(t, 1, n)
    <3> HIDE DEF v
    <3>1. v \in Seq(Bytes) /\ Len(v) = n /\ (\A k \in 1..n : v[k] = t[k]) /\ u = Append(v, Torn)
      BY <1>6, <2>2 DEF v
    <3> QED BY <3>1, <1>7, AppendFacts
  <2> QED BY <1>4, <2>1, <2>2
<1>9. ASSUME NEW c, Agree(s, t, c) PROVE c <= n
  BY <1>1, <1>2, <1>3, <1>5, <1>9 DEF Agree
<1>10. Stopped(s, t, u, n)
  BY <1>8, <1>9 DEF Stopped
<1> QED BY <1>5, <1>10

-----------------------------------------------------------------------------
\* The page writes to block b in log bytes; record c is a commit marker that
\* replay surfaces, and covers one of them.
Writes(s, b) ==
  {k \in DOMAIN s : s[k] # Torn /\ s[k].kind = "PageWrite" /\ s[k].block = b}
CommitAt(s, c, b) ==
  Surfaced(s, c) /\ IsCommit(s[c]) /\ \E k \in Writes(s, b) : k < c

\* The log bytes s, as far as they agree with log t, commit a write to block b.
Shields(s, t, b) == \E c \in 1..Len(t) : Agree(s, t, c) /\ CommitAt(t, c, b)

\* Recovery applies a write to b exactly when a marker covers one.
LEMMA CommittedIff ==
  ASSUME NEW s \in Seq(Bytes), NEW b \in Block
  PROVE  CommittedTo(s, b) # {} <=> \E c \in 1..Len(s) : CommitAt(s, c, b)
<1>1. Len(s) \in Nat /\ DOMAIN s = 1..Len(s)
  BY BytesFacts
<1>2. ASSUME NEW k \in CommittedTo(s, b) PROVE \E c \in 1..Len(s) : CommitAt(s, c, b)
  <2>1. k \in 1..Len(s) /\ Covered(s, k) /\ s[k].kind = "PageWrite" /\ s[k].block = b
    BY <1>1 DEF CommittedTo
  <2>2. PICK c \in (k + 1)..Len(s) : Surfaced(s, c) /\ IsCommit(s[c])
    BY <2>1 DEF Covered
  <2>3. c \in 1..Len(s) /\ k < c /\ k \in 1..c
    BY <1>1, <2>1, <2>2
  <2>4. k \in Writes(s, b)
    BY <1>1, <2>1, <2>2, <2>3 DEF Writes, Surfaced
  <2> QED BY <2>2, <2>3, <2>4 DEF CommitAt
<1>3. ASSUME NEW c \in 1..Len(s), CommitAt(s, c, b) PROVE CommittedTo(s, b) # {}
  <2>1. PICK k \in Writes(s, b) : k < c
    BY <1>3 DEF CommitAt
  <2>2. k \in DOMAIN s /\ s[k].kind = "PageWrite" /\ s[k].block = b
    BY DEF Writes
  <2>3. c \in (k + 1)..Len(s)
    BY <1>1, <2>1, <2>2
  <2>4. Covered(s, k)
    BY <1>3, <2>3 DEF CommitAt, Covered
  <2> QED BY <2>2, <2>4 DEF CommittedTo
<1> QED BY <1>2, <1>3

\* The last write that recovery applies to a block.
LEMMA CommittedFacts ==
  ASSUME NEW s \in Seq(Bytes), NEW b \in Block, CommittedTo(s, b) # {}
  PROVE  /\ Max(CommittedTo(s, b)) \in CommittedTo(s, b)
         /\ \A j \in CommittedTo(s, b) : j <= Max(CommittedTo(s, b))
         /\ s[Max(CommittedTo(s, b))].page \in Page
<1>1. Len(s) \in Nat /\ DOMAIN s = 1..Len(s) /\ \A k \in 1..Len(s) : s[k] \in Bytes
  BY BytesFacts
<1>2. CommittedTo(s, b) \subseteq 0..Len(s)
  BY <1>1 DEF CommittedTo
<1>3. /\ Max(CommittedTo(s, b)) \in CommittedTo(s, b)
      /\ \A j \in CommittedTo(s, b) : j <= Max(CommittedTo(s, b))
  BY <1>1, <1>2, MaxOfBounded
<1>4. ASSUME NEW k \in CommittedTo(s, b) PROVE s[k].page \in Page
  <2>1. k \in 1..Len(s) /\ Covered(s, k)
    BY <1>1 DEF CommittedTo
  <2>2. PICK c \in (k + 1)..Len(s) : Surfaced(s, c)
    BY <2>1 DEF Covered
  <2>3. k \in 1..c
    BY <1>1, <2>1, <2>2
  <2>4. s[k] # Torn
    BY <2>2, <2>3 DEF Surfaced
  <2>5. s[k] \in WalRecord
    BY <1>1, <2>1, <2>4 DEF Bytes
  <2> QED BY <2>5 DEF WalRecord
<1> QED BY <1>3, <1>4

\* What a log has committed, other bytes that agree with it that far have.
LEMMA CommitAtAgrees ==
  ASSUME NEW s \in Seq(Bytes), NEW t \in Seq(Bytes), NEW b \in Block, NEW c,
         Agree(s, t, c), CommitAt(t, c, b), c # 0
  PROVE  CommitAt(s, c, b) /\ c \in 1..Len(s)
<1>1. /\ Len(s) \in Nat /\ DOMAIN s = 1..Len(s)
      /\ Len(t) \in Nat /\ DOMAIN t = 1..Len(t)
  BY BytesFacts
<1>2. /\ c \in 1..Len(s) /\ c \in 1..Len(t) /\ c \in Nat
      /\ \A j \in 1..c : s[j] = t[j]
  BY <1>1 DEF Agree
<1>3. Surfaced(s, c)
  BY <1>2 DEF Surfaced, CommitAt
<1>4. IsCommit(s[c])
  BY <1>2 DEF CommitAt
<1>5. PICK k \in Writes(t, b) : k < c
  BY DEF CommitAt
<1>6. k \in 1..c /\ k \in 1..Len(s)
  BY <1>1, <1>2, <1>5 DEF Writes
<1>7. k \in Writes(s, b)
  BY <1>1, <1>2, <1>6 DEF Writes
<1> QED BY <1>2, <1>3, <1>4, <1>5, <1>7 DEF CommitAt

LEMMA ShieldedIsCommitted ==
  ASSUME NEW s \in Seq(Bytes), NEW t \in Seq(Bytes), NEW b \in Block, Shields(s, t, b)
  PROVE  CommittedTo(s, b) # {}
<1>1. PICK c \in 1..Len(t) : Agree(s, t, c) /\ CommitAt(t, c, b)
  BY DEF Shields
<1>2. c # 0
  BY BytesFacts
<1> QED BY <1>1, <1>2, CommitAtAgrees, CommittedIff

-----------------------------------------------------------------------------
\* The representation invariant of an engine.
EngineOK(e) ==
  /\ e \in [pool : Pool, wal : Log]
  /\ WellFormed(e.pool)
  /\ e.pool.steal = FALSE
  /\ LogOK(e.wal)

\* What a call leaves alone: no page of a no-steal pool reaches the device
\* outside a flush.
Quiet(p, q) == q.device = p.device /\ DirtyBlocks(q) \subseteq DirtyBlocks(p)

\* The device and the dirty blocks of an engine.
LEMMA DeviceOfEngine ==
  ASSUME NEW e, EngineOK(e)
  PROVE  e.pool.device \in Device /\ e.pool \in Pool
BY DEF EngineOK, Pool

LEMMA DirtyAreBlocks ==
  ASSUME NEW e, EngineOK(e)
  PROVE  DirtyBlocks(e.pool) \subseteq Block
BY DEF DirtyBlocks, EngineOK, WellFormed, Coherent, FrameOK, Pool, Frame

\* Replacing the pool, or the log, of an engine.
LEMMA ReplacePool ==
  ASSUME NEW e, EngineOK(e), NEW p, WellFormed(p), p.steal = FALSE
  PROVE  /\ EngineOK([e EXCEPT !.pool = p])
         /\ [e EXCEPT !.pool = p].pool = p
         /\ [e EXCEPT !.pool = p].wal = e.wal
BY DEF EngineOK, WellFormed

LEMMA ReplaceLog ==
  ASSUME NEW e, EngineOK(e), NEW w, LogOK(w)
  PROVE  /\ EngineOK([e EXCEPT !.wal = w])
         /\ [e EXCEPT !.wal = w].wal = w
         /\ [e EXCEPT !.wal = w].pool = e.pool
BY DEF EngineOK, LogOK

LEMMA BuildEngine ==
  ASSUME NEW p, WellFormed(p), p.steal = FALSE, NEW w, LogOK(w)
  PROVE  /\ EngineOK([pool |-> p, wal |-> w])
         /\ [pool |-> p, wal |-> w].pool = p
         /\ [pool |-> p, wal |-> w].wal = w
BY DEF EngineOK, WellFormed, LogOK

\* An engine over a device, before its first call.
LEMMA NewEngineFacts ==
  ASSUME NEW d \in Device
  PROVE  /\ EngineOK(NewEngine(d))
         /\ NewEngine(d).pool.device = d
         /\ NewEngine(d).pool.frames = <<>> /\ NewEngine(d).pool.lru = <<>>
         /\ NewEngine(d).wal = NewWal
         /\ \A b \in Block : Logical(NewEngine(d).pool, b) = d[b]
         /\ DirtyBlocks(NewEngine(d).pool) = {}
<1> DEFINE p == no_steal(new(d))
<1>1. NewEngine(d) = [pool |-> p, wal |-> NewWal]
  BY DEF NewEngine
<1>2. p \in Pool /\ p.device = d /\ p.frames = <<>> /\ p.lru = <<>> /\ p.steal = FALSE
  BY EmptySeq DEF no_steal, new, Pool
<1> HIDE DEF p
<1>3. WellFormed(p) /\ (\A b \in Block : Logical(p, b) = d[b]) /\ DirtyBlocks(p) = {}
  BY <1>2, EmptyPoolFacts
<1>4. /\ EngineOK([pool |-> p, wal |-> NewWal])
      /\ [pool |-> p, wal |-> NewWal].pool = p
      /\ [pool |-> p, wal |-> NewWal].wal = NewWal
  BY <1>2, <1>3, NewLog, BuildEngine
<1> QED BY <1>1, <1>2, <1>3, <1>4

\* Making room in a no-steal pool.
LEMMA ReserveFacts ==
  ASSUME NEW p, WellFormed(p), p.steal = FALSE, NEW b \in Block
  PROVE  LET q == reserve(p, b, "ok").pool IN
         /\ WellFormed(q) /\ q.steal = FALSE /\ SameImages(p, q) /\ Quiet(p, q)
<1> DEFINE q == reserve(p, b, "ok").pool
<1>1. CASE Holding(p, b) # {}
  <2>1. q = p
    BY <1>1 DEF reserve, Ok
  <2> QED BY <2>1 DEF SameImages, Quiet
<1>2. CASE Holding(p, b) = {}
  <2>1. q = acquire_frame(p, "ok").pool
    BY <1>2 DEF reserve
  <2>2. WellFormed(q) /\ Undisturbed(p, q)
    BY <2>1, AcquireFacts
  <2> HIDE DEF q
  <2>3. DirtyBlocks(q) \subseteq DirtyBlocks(p)
    BY <2>2, UndisturbedLedger
  <2>4. SameImages(p, q) /\ q.steal = FALSE /\ q.device = p.device
    BY <2>2 DEF Undisturbed
  <2> QED BY <2>2, <2>3, <2>4 DEF Quiet, q
<1> QED BY <1>1, <1>2

\* What write_page returns.
Wrote(e, r, b, pg) ==
  /\ EngineOK(r.engine)
  /\ r.engine.pool.device = e.pool.device
  /\ \/ /\ r.ok = TRUE
        /\ r.engine.wal = append(e.wal, "PageWrite", b, pg)
        /\ \A c \in Block : Logical(r.engine.pool, c) = IF c = b THEN pg ELSE Logical(e.pool, c)
        /\ DirtyBlocks(r.engine.pool) \subseteq DirtyBlocks(e.pool) \cup {b}
     \/ /\ r.ok = FALSE
        /\ r.engine.wal = e.wal
        /\ SameImages(e.pool, r.engine.pool)
        /\ DirtyBlocks(r.engine.pool) \subseteq DirtyBlocks(e.pool)

\* write_page logs and stages the page, or leaves no trace; either way the
\* device is left alone.
LEMMA WritePageFacts ==
  ASSUME NEW e, EngineOK(e), NEW b \in Block, NEW pg \in Page, NEW rd
  PROVE  Wrote(e, write_page(e, b, pg, rd), b, pg)
<1> DEFINE room == reserve(e.pool, b, "ok")
           p == room.pool
           logged == append(e.wal, "PageWrite", b, pg)
           r == fetch_mut(p, b, rd, "ok")
           q == StoreThrough(r, pg)
           w == write_page(e, b, pg, rd)
<1>1. WellFormed(e.pool) /\ e.pool.steal = FALSE /\ LogOK(e.wal)
  BY DEF EngineOK
<1>2. WellFormed(p) /\ p.steal = FALSE /\ SameImages(e.pool, p) /\ Quiet(e.pool, p)
  BY <1>1, ReserveFacts
<1>3. LogOK(logged) /\ truncate(logged, Len(e.wal.bytes), e.wal.next_lsn) = e.wal
  BY <1>1, AppendLog DEF RecordKind
<1>4. /\ WellFormed(q) /\ q.steal = FALSE /\ q.device = p.device
      /\ r.ok \in BOOLEAN
      /\ r.ok => \A c \in Block : Logical(q, c) = IF c = b THEN pg ELSE Logical(p, c)
      /\ ~r.ok => SameImages(p, q)
  <2> HIDE DEF p
  <2>1. WellFormed(q) /\ q.steal = p.steal /\ (~p.steal => q.device = p.device)
    BY <1>2, FetchMutFacts
  <2>2. /\ r.ok \in BOOLEAN
        /\ r.ok => \A c \in Block : Logical(q, c) = IF c = b THEN pg ELSE Logical(p, c)
        /\ ~r.ok => SameImages(p, q)
    BY <1>2, FetchMutFacts, Zenon
  <2> HIDE DEF q, r
  <2> QED BY <1>2, <2>1, <2>2
<1>5. FetchedMut(p, q, b, r.ok)
  <2> HIDE DEF p
  <2> QED BY <1>2, FetchMutLedger
<1>6. CASE ~room.ok
  <2>1. w = [ok |-> FALSE, engine |-> [e EXCEPT !.pool = p]]
    BY <1>6 DEF write_page
  <2> HIDE DEF w, p
  <2>2. w.ok = FALSE /\ w.engine = [e EXCEPT !.pool = p]
    BY <2>1
  <2>3. EngineOK(w.engine) /\ w.engine.pool = p /\ w.engine.wal = e.wal
    <3>1. /\ EngineOK([e EXCEPT !.pool = p])
          /\ [e EXCEPT !.pool = p].pool = p
          /\ [e EXCEPT !.pool = p].wal = e.wal
      BY <1>2, ReplacePool, Zenon
    <3> QED BY <2>2, <3>1, Zenon
  <2> QED BY <1>2, <2>2, <2>3 DEF Wrote, Quiet, w
<1>7. CASE room.ok /\ r.ok
  <2> DEFINE u == unpin(q, b)
  <2>1. w = [ok |-> TRUE, engine |-> [pool |-> unpin(Store(r.pool, r.idx, pg), b),
                                      wal |-> logged]]
    BY <1>7 DEF write_page
  <2>2. q = Store(r.pool, r.idx, pg)
    BY <1>7 DEF StoreThrough
  <2>3. w.ok = TRUE /\ w.engine = [pool |-> u, wal |-> logged]
    BY <2>1, <2>2
  <2> HIDE DEF w, p, q, logged
  <2>4. WellFormed(u) /\ SameImages(q, u) /\ u.device = q.device /\ u.steal = q.steal
    BY <1>4, UnpinFacts
  <2>5. DirtyBlocks(u) \subseteq DirtyBlocks(q)
    BY <1>4, UnpinLedger
  <2> HIDE DEF u
  <2>6. EngineOK(w.engine) /\ w.engine.pool = u /\ w.engine.wal = logged
    <3>1. /\ EngineOK([pool |-> u, wal |-> logged])
          /\ [pool |-> u, wal |-> logged].pool = u
          /\ [pool |-> u, wal |-> logged].wal = logged
      BY <1>3, <1>4, <2>4, BuildEngine
    <3> QED BY <2>3, <3>1, Zenon
  <2>7. \A c \in Block : Logical(u, c) = IF c = b THEN pg ELSE Logical(e.pool, c)
    BY <1>2, <1>4, <1>7, <2>4 DEF SameImages
  <2>8. DirtyBlocks(u) \subseteq DirtyBlocks(e.pool) \cup {b}
    BY <1>2, <1>5, <1>7, <2>5 DEF FetchedMut, Quiet
  <2>9. u.device = e.pool.device
    BY <1>2, <1>4, <2>4 DEF Quiet
  <2> QED BY <2>3, <2>6, <2>7, <2>8, <2>9 DEF Wrote, w, logged
<1>8. CASE room.ok /\ ~r.ok
  <2>1. w = [ok |-> FALSE,
             engine |-> [pool |-> r.pool,
                         wal |-> truncate(logged, Len(e.wal.bytes), e.wal.next_lsn)]]
    BY <1>8 DEF write_page
  <2>2. q = r.pool
    BY <1>8 DEF StoreThrough
  <2>3. w.ok = FALSE /\ w.engine = [pool |-> q, wal |-> e.wal]
    BY <1>3, <2>1, <2>2
  <2> HIDE DEF w, p, q
  <2>4. EngineOK(w.engine) /\ w.engine.pool = q /\ w.engine.wal = e.wal
    <3>1. /\ EngineOK([pool |-> q, wal |-> e.wal])
          /\ [pool |-> q, wal |-> e.wal].pool = q
          /\ [pool |-> q, wal |-> e.wal].wal = e.wal
      BY <1>1, <1>4, BuildEngine
    <3> QED BY <2>3, <3>1, Zenon
  <2>5. SameImages(e.pool, q)
    BY <1>2, <1>4, <1>8 DEF SameImages
  <2>6. DirtyBlocks(q) \subseteq DirtyBlocks(e.pool) /\ q.device = e.pool.device
    BY <1>2, <1>4, <1>5, <1>8 DEF FetchedMut, Quiet
  <2> QED BY <2>3, <2>4, <2>5, <2>6 DEF Wrote, w
<1> QED BY <1>4, <1>6, <1>7, <1>8

\* read_page and flush change no image; a flush changes the device only where
\* a page was dirty.
LEMMA ReadPageFacts ==
  ASSUME NEW e, EngineOK(e), NEW b \in Block, NEW rd
  PROVE  LET q == read_page(e, b, rd).pool IN
         WellFormed(q) /\ q.steal = FALSE /\ SameImages(e.pool, q) /\ Quiet(e.pool, q)
<1>1. WellFormed(e.pool) /\ e.pool.steal = FALSE
  BY DEF EngineOK
<1> DEFINE r == fetch(e.pool, b, rd, "ok")
<1>2. /\ WellFormed(r.pool) /\ SameImages(e.pool, r.pool)
      /\ r.pool.steal = FALSE /\ r.pool.device = e.pool.device
  <2>1. WellFormed(r.pool) /\ SameImages(e.pool, r.pool)
    BY <1>1, FetchFacts, Zenon
  <2>2. r.pool.steal = e.pool.steal /\ (~e.pool.steal => r.pool.device = e.pool.device)
    BY <1>1, FetchFacts
  <2> HIDE DEF r
  <2> QED BY <1>1, <2>1, <2>2
<1>3. DirtyBlocks(r.pool) \subseteq DirtyBlocks(e.pool)
  BY <1>1, FetchLedger DEF Fetched
<1> QED BY <1>2, <1>3, Zenon DEF Quiet, read_page

Cleaned(p, q) ==
  /\ WellFormed(q) /\ q.steal = FALSE /\ SameImages(p, q)
  /\ DirtyBlocks(q) \subseteq DirtyBlocks(p)
  /\ \A c \in Block : c \notin DirtyBlocks(p) => q.device[c] = p.device[c]

LEMMA FlushFacts ==
  ASSUME NEW e, EngineOK(e), NEW upto, NEW wr
  PROVE  Cleaned(e.pool, flush_writes(e.pool, upto, wr))
<1>1. WellFormed(e.pool) /\ e.pool.steal = FALSE
  BY DEF EngineOK
<1> DEFINE q == flush_writes(e.pool, upto, wr)
<1>2. WellFormed(q) /\ SameImages(e.pool, q) /\ q.steal = e.pool.steal
  BY <1>1, FlushWritesFacts, Zenon
<1>3. /\ \A c \in Block : c \notin DirtyBlocks(e.pool) => q.device[c] = e.pool.device[c]
      /\ DirtyBlocks(q) \subseteq DirtyBlocks(e.pool)
  BY <1>1, FlushLedger, Zenon
<1> HIDE DEF q
<1>4. Cleaned(e.pool, q)
  BY <1>1, <1>2, <1>3 DEF Cleaned
<1> QED BY <1>4 DEF q

\* What recovery puts on the device.
LEMMA ReplayFacts ==
  ASSUME NEW d \in Device, NEW s \in Seq(Bytes), NEW out \in [Committed(s) -> WriteOutcome]
  PROVE  /\ Replayed(d, s, out) \in Device
         /\ (\A k \in Committed(s) : out[k] = "ok") =>
              \A b \in Block : Replayed(d, s, out)[b] =
                IF CommittedTo(s, b) = {} THEN d[b] ELSE s[Max(CommittedTo(s, b))].page
<1>1. ASSUME NEW b \in Block PROVE CommittedTo(s, b) \subseteq Committed(s)
  BY DEF CommittedTo, Committed
<1>2. Len(s) \in Nat /\ DOMAIN s = 1..Len(s) /\ \A k \in 1..Len(s) : s[k] \in Bytes
  BY BytesFacts
<1>3. ASSUME NEW k \in Committed(s) PROVE s[k].page \in Page
  <2>1. k \in 1..Len(s) /\ Covered(s, k)
    BY <1>2 DEF Committed
  <2>2. PICK c \in (k + 1)..Len(s) : Surfaced(s, c)
    BY <2>1 DEF Covered
  <2>3. k \in 1..c
    BY <1>2, <2>1, <2>2
  <2>4. s[k] \in WalRecord
    BY <1>2, <2>1, <2>2, <2>3 DEF Surfaced, Bytes
  <2> QED BY <2>4 DEF WalRecord
<1>4. ASSUME NEW b \in Block PROVE Replayed(d, s, out)[b] \in Content
  <2> DEFINE done == {k \in CommittedTo(s, b) : out[k] # "err"}
  <2>1. Replayed(d, s, out)[b] = IF done = {} THEN d[b]
                                 ELSE IF out[Max(done)] = "torn" THEN Corrupt
                                 ELSE s[Max(done)].page
    BY Zenon DEF Replayed
  <2>2. done \subseteq 0..Len(s) /\ done \subseteq Committed(s)
    BY <1>1, <1>2 DEF Committed
  <2> HIDE DEF done
  <2>3. done # {} => Max(done) \in done
    BY <1>2, <2>2, MaxOfBounded
  <2>4. d[b] \in Content
    BY DEF Device
  <2> QED BY <1>3, <2>1, <2>2, <2>3, <2>4 DEF Content
<1>5. Replayed(d, s, out) \in Device
  <2>1. Replayed(d, s, out) = [b \in Block |-> Replayed(d, s, out)[b]]
    BY Zenon DEF Replayed
  <2> QED BY <1>4, <2>1 DEF Device
<1>6. ASSUME \A k \in Committed(s) : out[k] = "ok", NEW b \in Block
      PROVE  Replayed(d, s, out)[b] =
               IF CommittedTo(s, b) = {} THEN d[b] ELSE s[Max(CommittedTo(s, b))].page
  <2> DEFINE done == {k \in CommittedTo(s, b) : out[k] # "err"}
  <2>1. Replayed(d, s, out)[b] = IF done = {} THEN d[b]
                                 ELSE IF out[Max(done)] = "torn" THEN Corrupt
                                 ELSE s[Max(done)].page
    BY Zenon DEF Replayed
  <2>2. \A k \in CommittedTo(s, b) : out[k] = "ok"
    BY <1>1, <1>6
  <2>3. done = CommittedTo(s, b)
    BY <2>2
  <2>4. CommittedTo(s, b) # {} => Max(CommittedTo(s, b)) \in CommittedTo(s, b)
    BY CommittedFacts
  <2> HIDE DEF done
  <2> QED BY <2>1, <2>2, <2>3, <2>4
<1> QED BY <1>5, <1>6

\* What recover returns.
Recovered(r, d, s) ==
  /\ EngineOK(r)
  /\ r.pool.device = d
  /\ r.wal.bytes = Intact(s)
  /\ \A b \in Block : Logical(r.pool, b) = d[b]
  /\ DirtyBlocks(r.pool) = {}

LEMMA RecoverFacts ==
  ASSUME NEW e, EngineOK(e), e.pool.frames = <<>>, e.pool.lru = <<>>,
         NEW s, Numbered(s), NEW out \in [Committed(s) -> WriteOutcome]
  PROVE  Recovered(recover(e, s, out), Replayed(e.pool.device, s, out), s)
<1> DEFINE d == Replayed(e.pool.device, s, out)
           p == [e.pool EXCEPT !.device = d]
           w == from_bytes(s)
<1>1. e.pool \in Pool /\ e.pool.device \in Device /\ e.pool.steal = FALSE
  BY DEF EngineOK, Pool
<1>2. d \in Device
  BY <1>1, ReplayFacts DEF Numbered
<1>3. recover(e, s, out) = [pool |-> p, wal |-> w]
  BY Zenon DEF recover
<1> HIDE DEF d
<1>4. /\ p \in Pool /\ p.frames = <<>> /\ p.lru = <<>> /\ p.device = d
      /\ p.steal = FALSE
  BY <1>1, <1>2 DEF Pool
<1> HIDE DEF p
<1>5. WellFormed(p) /\ (\A b \in Block : Logical(p, b) = d[b]) /\ DirtyBlocks(p) = {}
  BY <1>4, EmptyPoolFacts
<1>6. LogOK(w) /\ w.bytes = Intact(s)
  BY FromBytesFacts
<1> HIDE DEF w
<1>7. /\ EngineOK([pool |-> p, wal |-> w])
      /\ [pool |-> p, wal |-> w].pool = p
      /\ [pool |-> p, wal |-> w].wal = w
  BY <1>4, <1>5, <1>6, BuildEngine
<1>8. Recovered([pool |-> p, wal |-> w], d, s)
  BY <1>4, <1>5, <1>6, <1>7 DEF Recovered
<1> QED BY <1>3, <1>8, Zenon DEF d

-----------------------------------------------------------------------------
\* What is shielded stays so when the log grows.
LEMMA WritesAppend ==
  ASSUME NEW t \in Seq(Bytes), NEW r \in WalRecord, NEW b \in Block
  PROVE  Writes(Append(t, r), b) =
           IF r.kind = "PageWrite" /\ r.block = b
           THEN Writes(t, b) \cup {Len(t) + 1} ELSE Writes(t, b)
<1>1. r \in Bytes /\ r # Torn
  BY TornAssumption DEF Bytes
<1>2. Len(t) \in Nat /\ DOMAIN t = 1..Len(t)
  BY BytesFacts
<1> DEFINE u == Append(t, r)
<1>3. /\ u \in Seq(Bytes) /\ Len(u) = Len(t) + 1
      /\ \A k \in 1..Len(t) : u[k] = t[k]
      /\ u[Len(t) + 1] = r
  BY <1>1, AppendFacts
<1> HIDE DEF u
<1>4. DOMAIN u = 1..(Len(t) + 1)
  BY <1>3, BytesFacts
<1>5. \A k : k \in Writes(u, b) <=>
        \/ k \in Writes(t, b)
        \/ k = Len(t) + 1 /\ r.kind = "PageWrite" /\ r.block = b
  BY <1>1, <1>2, <1>3, <1>4 DEF Writes
<1> QED BY <1>5 DEF u

LEMMA AgreeAppend ==
  ASSUME NEW s \in Seq(Bytes), NEW t \in Seq(Bytes), NEW r \in Bytes, NEW c, Agree(s, t, c)
  PROVE  Agree(s, Append(t, r), c)
<1>1. Len(t) \in Nat /\ Len(s) \in Nat
  BY BytesFacts
<1>2. Len(Append(t, r)) = Len(t) + 1 /\ \A k \in 1..Len(t) : Append(t, r)[k] = t[k]
  BY AppendFacts
<1> QED BY <1>1, <1>2 DEF Agree

LEMMA ShieldsAppend ==
  ASSUME NEW s \in Seq(Bytes), NEW t \in Seq(Bytes), NEW r \in WalRecord, NEW b \in Block,
         Shields(s, t, b)
  PROVE  Shields(s, Append(t, r), b)
<1>1. r \in Bytes
  BY DEF Bytes
<1>2. Len(t) \in Nat /\ DOMAIN t = 1..Len(t)
  BY BytesFacts
<1>3. PICK c \in 1..Len(t) : Agree(s, t, c) /\ CommitAt(t, c, b)
  BY DEF Shields
<1>4. Agree(s, Append(t, r), c)
  BY <1>1, <1>3, AgreeAppend
<1>5. /\ Append(t, r) \in Seq(Bytes) /\ Len(Append(t, r)) = Len(t) + 1
      /\ \A k \in 1..Len(t) : Append(t, r)[k] = t[k]
  BY <1>1, AppendFacts
<1>6. Agree(Append(t, r), t, c) /\ c # 0
  BY <1>2, <1>5 DEF Agree
<1>7. CommitAt(Append(t, r), c, b)
  BY <1>3, <1>5, <1>6, CommitAtAgrees
<1>8. c \in 1..Len(Append(t, r))
  BY <1>2, <1>5
<1> QED BY <1>4, <1>7, <1>8 DEF Shields

\* A log that ends in a commit marker shields every block it writes.
LEMMA ShieldsItself ==
  ASSUME NEW t \in Seq(WalRecord), t # <<>>, IsCommit(t[Len(t)]), NEW b \in Block,
         Writes(t, b) # {}
  PROVE  Shields(t, t, b)
<1>1. /\ Len(t) \in Nat /\ DOMAIN t = 1..Len(t) /\ t \in Seq(Bytes)
      /\ \A k \in 1..Len(t) : t[k] # Torn
  BY RecordsFacts
<1>2. PICK k \in Writes(t, b) : TRUE
  OBVIOUS
<1>3. k \in 1..Len(t) /\ t[k].kind = "PageWrite"
  BY <1>1 DEF Writes
<1>4. k # Len(t)
  BY <1>3 DEF IsCommit
<1>5. k < Len(t) /\ Len(t) \in 1..Len(t)
  <2>1. \A n \in Nat : k \in 1..n /\ k # n => k < n /\ n \in 1..n
    OBVIOUS
  <2> QED BY <1>1, <1>3, <1>4, <2>1, Zenon
<1>6. Surfaced(t, Len(t))
  BY <1>1 DEF Surfaced
<1>7. CommitAt(t, Len(t), b)
  BY <1>5, <1>6 DEF CommitAt
<1>8. Agree(t, t, Len(t))
  BY <1>1 DEF Agree
<1> QED BY <1>5, <1>7, <1>8 DEF Shields

\* A persist that stops short takes nothing away that it had made durable.
LEMMA ShieldsPartial ==
  ASSUME NEW s \in Seq(Bytes), NEW t \in Seq(Bytes), NEW r \in Bytes,
         NEW u \in Partial(s, Append(t, r)), NEW b \in Block, Shields(s, t, b)
  PROVE  Shields(u, t, b)
<1> DEFINE v == Append(t, r)
<1>1. /\ v \in Seq(Bytes) /\ Len(v) = Len(t) + 1
      /\ \A k \in 1..Len(t) : v[k] = t[k]
  BY AppendFacts
<1>2. PICK c \in 1..Len(t) : Agree(s, t, c) /\ CommitAt(t, c, b)
  BY DEF Shields
<1>3. Agree(s, v, c)
  BY <1>2, AgreeAppend
<1> HIDE DEF v
<1>4. PICK n \in 0..Len(v) : Stopped(s, v, u, n)
  <2>1. u \in Partial(s, v)
    BY DEF v
  <2> QED BY <1>1, <2>1, PartialFacts, Zenon
<1>5. /\ c <= n /\ u \in Seq(Bytes) /\ (\A j \in 1..n : u[j] = v[j])
      /\ Len(u) = n \/ Len(u) = n + 1
  BY <1>3, <1>4 DEF Stopped
<1>6. Len(t) \in Nat /\ Len(u) \in Nat
  BY <1>5, BytesFacts
<1>7. c \in 0..Len(u) /\ c \in 0..Len(t)
  BY <1>1, <1>4, <1>5, <1>6
<1>8. Agree(u, t, c)
  BY <1>1, <1>4, <1>5, <1>6, <1>7 DEF Agree
<1> QED BY <1>2, <1>8 DEF Shields

LEMMA NumberedPartial ==
  ASSUME NEW s, Numbered(s), NEW t, Numbered(t), NEW u \in Partial(s, t)
  PROVE  Numbered(u)
<1>1. s \in Seq(Bytes) /\ t \in Seq(Bytes)
  BY DEF Numbered
<1>2. PICK n \in 0..Len(t) : Stopped(s, t, u, n)
  BY <1>1, PartialFacts, Zenon
<1>3. /\ u \in Seq(Bytes) /\ (\A j \in 1..n : u[j] = t[j])
      /\ \/ Len(u) = n
         \/ Len(u) = n + 1 /\ u[n + 1] = Torn
  BY <1>2 DEF Stopped
<1>4. Len(t) \in Nat /\ DOMAIN t = 1..Len(t) /\ DOMAIN u = 1..Len(u)
  BY <1>1, <1>3, BytesFacts
<1>5. ASSUME NEW k \in DOMAIN u, u[k] # Torn PROVE u[k].lsn = k - 1
  <2>1. n \in Nat /\ n <= Len(t) /\ k \in 1..Len(u)
    BY <1>4
  <2>2. k # n + 1
    BY <1>3, <1>5, <2>1
  <2>3. k \in 1..n
    <3>1. Len(u) = n \/ Len(u) = n + 1
      BY <1>3
    <3> QED BY <2>1, <2>2, <3>1
  <2>4. t[k] = u[k]
    BY <1>3, <2>3, Zenon
  <2>5. k \in DOMAIN t
    BY <1>4, <2>1, <2>3
  <2> QED BY <1>5, <2>4, <2>5 DEF Numbered
<1> QED BY <1>3, <1>5 DEF Numbered

LEMMA NumberedLog ==
  ASSUME NEW w, LogOK(w)
  PROVE  Numbered(w.bytes) /\ w.bytes \in Seq(WalRecord) /\ w.bytes \in Seq(Bytes)
<1>1. w.bytes \in Seq(WalRecord)
  BY DEF LogOK, Log
<1> QED BY <1>1, RecordsFacts DEF Numbered, LogOK

\* What recovery applied, the recovered log shields.
LEMMA ShieldsIntact ==
  ASSUME NEW s \in Seq(Bytes), NEW b \in Block, CommittedTo(s, b) # {}
  PROVE  Shields(s, Intact(s), b)
<1> DEFINE t == Intact(s)
<1>1. /\ t \in Seq(WalRecord) /\ Len(t) \in 0..Len(s)
      /\ \A k \in 1..Len(t) : t[k] = s[k]
      /\ \A c \in 1..Len(s) : Surfaced(s, c) <=> c <= Len(t)
  BY IntactFacts
<1> HIDE DEF t
<1>2. t \in Seq(Bytes) /\ Len(t) \in Nat /\ Len(s) \in Nat
  BY <1>1, RecordsFacts, BytesFacts
<1>3. PICK c \in 1..Len(s) : CommitAt(s, c, b)
  BY CommittedIff
<1>4. c \in 1..Len(t)
  BY <1>1, <1>2, <1>3 DEF CommitAt
<1>5. Agree(s, t, c) /\ Agree(t, s, c) /\ c # 0
  BY <1>1, <1>2, <1>4 DEF Agree
<1>6. CommitAt(t, c, b)
  BY <1>2, <1>3, <1>5, CommitAtAgrees
<1> QED BY <1>4, <1>5, <1>6 DEF Shields, t

-----------------------------------------------------------------------------
\* The contents a crash may leave, after writes and after a sync.
Caches(disk, d) == /\ disk \in [Block -> SUBSET Content]
                   /\ \A b \in Block : d[b] \in disk[b]

LEMMA ReachingFacts ==
  ASSUME NEW disk, NEW d \in Device, Caches(disk, d), NEW e \in Device
  PROVE  /\ Caches(Reaching(disk, d, e), e)
         /\ \A b \in Block : e[b] = d[b] => Reaching(disk, d, e)[b] = disk[b]
         /\ e = d => Reaching(disk, d, e) = disk
<1> DEFINE r == Reaching(disk, d, e)
<1>1. r = [b \in Block |-> IF e[b] = d[b] THEN disk[b] ELSE disk[b] \cup {e[b], Corrupt}]
  BY DEF Reaching
<1> HIDE DEF r
<1>2. disk \in [Block -> SUBSET Content] /\ \A b \in Block : d[b] \in disk[b]
  BY DEF Caches
<1>3. Corrupt \in Content /\ \A b \in Block : e[b] \in Content
  BY DEF Content, Device
<1>4. ASSUME NEW b \in Block
      PROVE  r[b] \in SUBSET Content /\ e[b] \in r[b] /\ (e[b] = d[b] => r[b] = disk[b])
  BY <1>1, <1>2, <1>3
<1>5. r \in [Block -> SUBSET Content]
  BY <1>1, <1>4
<1>6. e = d => r = disk
  BY <1>1, <1>2
<1> QED BY <1>4, <1>5, <1>6 DEF Caches, r

LEMMA SyncedFacts ==
  ASSUME NEW d \in Device
  PROVE  Caches(Synced(d), d) /\ \A b \in Block : Synced(d)[b] = {d[b]}
BY DEF Caches, Synced, Device

\* A log of whole records that ends in a commit marker: everything in it is
\* replayed, and every write in it is committed.
LEMMA SealedLog ==
  ASSUME NEW s \in Seq(WalRecord), s = <<>> \/ IsCommit(s[Len(s)])
  PROVE  Intact(s) = s /\ \A b \in Block : CommittedTo(s, b) = Writes(s, b)
<1>1. /\ Len(s) \in Nat /\ DOMAIN s = 1..Len(s) /\ s \in Seq(Bytes)
      /\ \A k \in 1..Len(s) : s[k] # Torn
  BY RecordsFacts
<1>2. \A c \in 0..Len(s) : Surfaced(s, c)
  BY <1>1 DEF Surfaced
<1>3. Intact(s) = s
  <2> DEFINE t == Intact(s)
  <2>1. /\ t \in Seq(WalRecord) /\ Len(t) \in 0..Len(s)
        /\ \A k \in 1..Len(t) : t[k] = s[k]
        /\ \A c \in 1..Len(s) : Surfaced(s, c) <=> c <= Len(t)
    BY <1>1, IntactFacts
  <2> HIDE DEF t
  <2>2. Len(t) = Len(s)
    <3>1. CASE Len(s) = 0
      BY <2>1, <3>1
    <3>2. CASE Len(s) \in 1..Len(s)
      BY <1>1, <1>2, <2>1, <3>2
    <3> QED BY <1>1, <3>1, <3>2
  <2>3. t \in Seq(Bytes)
    BY <2>1, RecordsFacts
  <2> QED BY <1>1, <2>1, <2>2, <2>3, SameBytes DEF t
<1>4. ASSUME NEW b \in Block, NEW k \in Writes(s, b) PROVE k \in CommittedTo(s, b)
  <2>1. k \in 1..Len(s) /\ s[k].kind = "PageWrite" /\ s[k].block = b
    BY <1>1 DEF Writes
  <2>2. s # <<>>
    BY <1>1, <2>1, EmptySeq
  <2>3. IsCommit(s[Len(s)]) /\ k # Len(s)
    BY <2>1, <2>2 DEF IsCommit
  <2>4. Len(s) \in (k + 1)..Len(s) /\ Len(s) \in 0..Len(s)
    <3>1. \A n \in Nat : k \in 1..n /\ k # n => n \in (k + 1)..n /\ n \in 0..n
      OBVIOUS
    <3> QED BY <1>1, <2>1, <2>3, <3>1, Zenon
  <2>5. Covered(s, k)
    BY <1>2, <2>3, <2>4 DEF Covered
  <2> QED BY <1>1, <2>1, <2>5 DEF CommittedTo
<1>5. ASSUME NEW b \in Block, NEW k \in CommittedTo(s, b) PROVE k \in Writes(s, b)
  BY <1>1 DEF CommittedTo, Writes
<1> QED BY <1>3, <1>4, <1>5

\* The last write to a block.
LEMMA LastWrite ==
  ASSUME NEW s \in Seq(Bytes), NEW b \in Block
  PROVE  /\ Writes(s, b) \subseteq 1..Len(s)
         /\ Writes(s, b) # {} => /\ Max(Writes(s, b)) \in Writes(s, b)
                                 /\ \A k \in Writes(s, b) : k <= Max(Writes(s, b))
<1>1. Len(s) \in Nat /\ DOMAIN s = 1..Len(s)
  BY BytesFacts
<1>2. Writes(s, b) \subseteq 1..Len(s) /\ Writes(s, b) \subseteq 0..Len(s)
  BY <1>1 DEF Writes
<1> QED BY <1>1, <1>2, MaxOfBounded

\* A page is all that a block may hold.
OnePage(c) == \E pg \in Page : c = {pg}

\* Recovery applies the last committed write to each block, and finds a page
\* where none is committed as the device kept it.
LEMMA RecoverableFacts ==
  ASSUME NEW disk, NEW s \in Seq(Bytes), NEW b \in Block,
         CommittedTo(s, b) # {} \/ OnePage(disk[b])
  PROVE  OnePage(Recoverable(disk, s, b))
BY CommittedFacts DEF OnePage, Recoverable

\* The newest image of a block: what the log has of it, else what the disk has.
Newest(disk, s, b) == IF Writes(s, b) = {} THEN disk[b] ELSE {s[Max(Writes(s, b))].page}

LEMMA NewestAppend ==
  ASSUME NEW disk, NEW t \in Seq(Bytes), NEW r \in WalRecord, NEW b \in Block
  PROVE  Newest(disk, Append(t, r), b) =
           IF r.kind = "PageWrite" /\ r.block = b THEN {r.page} ELSE Newest(disk, t, b)
<1> DEFINE u == Append(t, r)
           W == Writes(t, b)
           n == Len(t)
<1>1. n \in Nat /\ r \in Bytes
  BY BytesFacts DEF Bytes
<1>2. /\ u \in Seq(Bytes) /\ u[n + 1] = r
      /\ \A k \in 1..n : u[k] = t[k]
  BY <1>1, AppendFacts
<1>3. W \subseteq 1..n /\ (W # {} => Max(W) \in W)
  BY LastWrite
<1>4. Writes(u, b) = IF r.kind = "PageWrite" /\ r.block = b THEN W \cup {n + 1} ELSE W
  BY WritesAppend
<1>5. Writes(u, b) # {} => /\ Max(Writes(u, b)) \in Writes(u, b)
                           /\ \A k \in Writes(u, b) : k <= Max(Writes(u, b))
  BY <1>2, LastWrite
<1> HIDE DEF u, W, n
<1>6. CASE r.kind = "PageWrite" /\ r.block = b
  <2>1. Writes(u, b) = W \cup {n + 1}
    BY <1>4, <1>6
  <2>2. Max(Writes(u, b)) = n + 1
    <3> DEFINE m == Max(Writes(u, b))
    <3>1. m \in W \cup {n + 1} /\ n + 1 <= m
      BY <1>5, <2>1
    <3> HIDE DEF m
    <3>2. m = n + 1
      BY <1>1, <1>3, <3>1
    <3> QED BY <3>2 DEF m
  <2>3. Newest(disk, u, b) = {r.page}
    BY <1>2, <2>1, <2>2 DEF Newest
  <2> QED BY <1>6, <2>3 DEF u
<1>7. CASE ~(r.kind = "PageWrite" /\ r.block = b)
  <2>1. Writes(u, b) = W
    BY <1>4, <1>7
  <2>2. W # {} => u[Max(W)] = t[Max(W)]
    BY <1>2, <1>3
  <2>3. Newest(disk, u, b) = Newest(disk, t, b)
    BY <2>1, <2>2 DEF Newest, W
  <2> QED BY <1>7, <2>3 DEF u
<1> QED BY <1>6, <1>7

LEMMA NewestSealed ==
  ASSUME NEW disk, NEW s \in Seq(WalRecord), s = <<>> \/ IsCommit(s[Len(s)]), NEW b \in Block
  PROVE  Recoverable(disk, s, b) = Newest(disk, s, b)
BY SealedLog DEF Recoverable, Newest

-----------------------------------------------------------------------------
\* The log of a host that keeps damaged copies of it: Follows, Settles and Live
\* are what the durability of the file database rests on.

\* A pool that caches nothing that the device does not hold.
Bare(p) == DirtyBlocks(p) = {} /\ \A b \in Block : Logical(p, b) = p.device[b]

\* append_commit adds a marker and nothing else.
LEMMA MarkFacts ==
  ASSUME NEW e, EngineOK(e)
  PROVE  /\ EngineOK(append_commit(e)) /\ append_commit(e).pool = e.pool
         /\ \E r \in WalRecord : /\ r.kind = "Commit"
                                 /\ append_commit(e).wal.bytes = Append(e.wal.bytes, r)
<1> DEFINE w == append(e.wal, "Commit", NoBlock, Zeroed)
           r == Record(e.wal, "Commit", NoBlock, Zeroed)
<1>1. LogOK(e.wal) /\ "Commit" \in RecordKind /\ Zeroed \in Page /\ NoBlock \in Block \cup {NoBlock}
  BY ZeroedAssumption DEF EngineOK, RecordKind
<1>2. LogOK(w) /\ w.bytes = Append(e.wal.bytes, r) /\ r \in WalRecord
  BY <1>1, AppendLog, Zenon
<1>3. r.kind = "Commit"
  BY DEF Record
<1>4. append_commit(e) = [e EXCEPT !.wal = w]
  BY Zenon DEF append_commit
<1> HIDE DEF w, r
<1>5. EngineOK([e EXCEPT !.wal = w]) /\ [e EXCEPT !.wal = w].wal = w /\ [e EXCEPT !.wal = w].pool = e.pool
  BY <1>2, ReplaceLog
<1>6. EngineOK(append_commit(e)) /\ append_commit(e).wal = w /\ append_commit(e).pool = e.pool
  BY <1>4, <1>5, Zenon
<1> QED BY <1>2, <1>3, <1>6, Zenon

\* An overwrite may reach its end before it fails.
LEMMA WholeIsPartial ==
  ASSUME NEW s \in Seq(Bytes), NEW u \in Seq(Bytes)
  PROVE  u \in Partial(s, u)
<1> DEFINE l == Max({n \in 0..Len(u) : n <= Len(s) /\ SubSeq(s, 1, n) = SubSeq(u, 1, n)})
<1>1. Agree(s, u, l)
  BY CommonPrefixFacts
<1>2. Len(u) \in Nat
  BY BytesFacts
<1>3. Len(u) \in l..Len(u) /\ Len(u) \in 0..Len(u)
  BY <1>1, <1>2 DEF Agree
<1>4. SubSeq(u, 1, Len(u)) = u
  BY <1>3, PrefixFacts, SameBytes
<1>5. u \in {SubSeq(u, 1, n) : n \in l..Len(u)}
  BY <1>3, <1>4, Zenon
<1> QED BY <1>5 DEF Partial

\* Log bytes u are t with the page record of a put of pg to b and its marker.
PutLogged(t, u, b, pg) ==
  \E r \in WalRecord, c \in WalRecord :
    /\ u = Append(Append(t, r), c)
    /\ r.kind = "PageWrite" /\ r.block = b /\ r.page = pg /\ c.kind = "Commit"

\* The log that a put leaves.
LEMMA PutLoggedFacts ==
  ASSUME NEW t \in Seq(WalRecord), NEW u, NEW b, NEW pg, PutLogged(t, u, b, pg)
  PROVE  /\ Len(t) \in Nat /\ Len(u) = Len(t) + 2
         /\ u[Len(t) + 1].kind = "PageWrite"
         /\ u[Len(t) + 1].block = b /\ u[Len(t) + 1].page = pg
         /\ u[Len(t) + 2].kind = "Commit"
<1>1. PICK r \in WalRecord, c \in WalRecord :
        /\ u = Append(Append(t, r), c)
        /\ r.kind = "PageWrite" /\ r.block = b /\ r.page = pg /\ c.kind = "Commit"
  BY Zenon DEF PutLogged
<1>2. t \in Seq(Bytes) /\ r \in Bytes /\ c \in Bytes /\ Len(t) \in Nat
  BY RecordsFacts DEF Bytes
<1> DEFINE v == Append(t, r)
<1>3. v \in Seq(Bytes) /\ Len(v) = Len(t) + 1 /\ v[Len(t) + 1] = r
  BY <1>2, AppendFacts
<1> HIDE DEF v
<1>4. /\ Len(Append(v, c)) = Len(v) + 1 /\ Append(v, c)[Len(v) + 1] = c
      /\ \A k \in 1..Len(v) : Append(v, c)[k] = v[k]
  BY <1>2, <1>3, AppendFacts
<1>5. u = Append(v, c)
  BY <1>1 DEF v
<1>6. Len(u) = Len(t) + 2 /\ u[Len(t) + 2] = c
  BY <1>2, <1>3, <1>4, <1>5
<1>7. u[Len(t) + 1] = r
  BY <1>2, <1>3, <1>4, <1>5
<1> QED BY <1>1, <1>2, <1>6, <1>7

\* Log bytes u hold the first m records of t, and nothing that t does not.
Follows(u, t, m) == /\ Agree(u, t, m)
                    /\ \A j \in 1..Len(u) : Surfaced(u, j) => Agree(u, t, j)

\* A log follows itself, up to any of its records.
LEMMA FollowsItself ==
  ASSUME NEW t \in Seq(Bytes), NEW m \in 0..Len(t)
  PROVE  Follows(t, t, m)
<1>1. Len(t) \in Nat
  BY BytesFacts
<1> QED BY <1>1 DEF Follows, Agree

\* Appending to the log keeps what follows it.
LEMMA FollowsAppend ==
  ASSUME NEW u \in Seq(Bytes), NEW t \in Seq(Bytes), NEW r \in Bytes, NEW m, Follows(u, t, m)
  PROVE  Follows(u, Append(t, r), m)
<1>1. Agree(u, t, m) /\ \A j \in 1..Len(u) : Surfaced(u, j) => Agree(u, t, j)
  BY DEF Follows
<1>2. \A c : Agree(u, t, c) => Agree(u, Append(t, r), c)
  BY AgreeAppend
<1> QED BY <1>1, <1>2 DEF Follows

\* What an overwrite that stops short leaves follows what it would have left.
LEMMA FollowsPartial ==
  ASSUME NEW s \in Seq(Bytes), NEW u \in Seq(Bytes), NEW t \in Seq(Bytes), NEW m,
         Follows(u, t, m), Agree(s, u, m), NEW v \in Partial(s, u)
  PROVE  Follows(v, t, m)
<1>1. PICK n \in 0..Len(u) : Stopped(s, u, v, n)
  BY PartialFacts
<1>2. /\ m <= n /\ v \in Seq(Bytes) /\ \A j \in 1..n : v[j] = u[j]
      /\ Len(v) = n \/ (Len(v) = n + 1 /\ v[n + 1] = Torn)
  BY <1>1 DEF Stopped
<1>3. /\ Len(u) \in Nat /\ Len(v) \in Nat /\ Len(t) \in Nat /\ n \in Nat
      /\ Agree(u, t, m) /\ m \in Nat /\ n <= Len(v)
  BY <1>2, BytesFacts DEF Follows, Agree
<1>4. ASSUME NEW c \in Nat, c <= n, Agree(u, t, c) PROVE Agree(v, t, c)
  <2>1. c \in 0..Len(v) /\ c \in 0..Len(t) /\ 1..c \subseteq 1..n
    BY <1>3, <1>4 DEF Agree
  <2>2. \A j \in 1..c : v[j] = t[j]
    BY <1>2, <1>4, <2>1 DEF Agree
  <2> QED BY <2>1, <2>2 DEF Agree
<1>5. ASSUME NEW j \in 1..Len(v), Surfaced(v, j) PROVE Agree(v, t, j)
  <2>1. j \in Nat /\ j <= n
    BY <1>2, <1>3, <1>5 DEF Surfaced
  <2>2. Surfaced(u, j) /\ j \in 1..Len(u)
    BY <1>2, <1>3, <1>5, <2>1 DEF Surfaced
  <2>3. Agree(u, t, j)
    BY <2>2 DEF Follows
  <2> QED BY <1>4, <2>1, <2>3
<1> QED BY <1>2, <1>3, <1>4, <1>5 DEF Follows

\* What a put of pg to b adds to the log.
LEMMA PutLoggedWrites ==
  ASSUME NEW t \in Seq(WalRecord), NEW u, NEW b, NEW pg, PutLogged(t, u, b, pg)
  PROVE  /\ \A k \in 1..Len(t) : u[k] = t[k]
         /\ \A v \in Seq(Bytes) : \A m : Follows(v, t, m) => Follows(v, u, m)
         /\ \A c \in Block :
              /\ Writes(u, c) = IF c = b THEN Writes(t, c) \cup {Len(t) + 1} ELSE Writes(t, c)
              /\ \A dk : Newest(dk, u, c) = IF c = b THEN {pg} ELSE Newest(dk, t, c)
<1>1. PICK r \in WalRecord, d \in WalRecord :
        /\ u = Append(Append(t, r), d)
        /\ r.kind = "PageWrite" /\ r.block = b /\ r.page = pg /\ d.kind = "Commit"
  BY Zenon DEF PutLogged
<1>2. t \in Seq(Bytes) /\ r \in Bytes /\ d \in Bytes /\ Len(t) \in Nat
  BY RecordsFacts DEF Bytes
<1> DEFINE s == Append(t, r)
<1>3. s \in Seq(Bytes) /\ Len(s) = Len(t) + 1 /\ \A k \in 1..Len(t) : s[k] = t[k]
  BY <1>2, AppendFacts
<1>4. ASSUME NEW c \in Block
      PROVE  /\ Writes(s, c) = IF c = b THEN Writes(t, c) \cup {Len(t) + 1} ELSE Writes(t, c)
             /\ \A dk : Newest(dk, s, c) = IF c = b THEN {pg} ELSE Newest(dk, t, c)
  <2>1. Writes(s, c) = IF r.kind = "PageWrite" /\ r.block = c
                       THEN Writes(t, c) \cup {Len(t) + 1} ELSE Writes(t, c)
    BY <1>2, WritesAppend
  <2>2. \A dk : Newest(dk, s, c) = IF r.kind = "PageWrite" /\ r.block = c
                                   THEN {r.page} ELSE Newest(dk, t, c)
    BY <1>2, NewestAppend
  <2> HIDE DEF s
  <2> QED BY <1>1, <2>1, <2>2
<1>5. \A v \in Seq(Bytes) : \A m : Follows(v, t, m) => Follows(v, s, m)
  BY <1>2, FollowsAppend
<1> HIDE DEF s
<1>6. u = Append(s, d)
  BY <1>1, Zenon DEF s
<1>7. \A k \in 1..Len(s) : u[k] = s[k]
  BY <1>2, <1>3, <1>6, AppendFacts
<1>8. ASSUME NEW c \in Block
      PROVE  Writes(u, c) = Writes(s, c) /\ \A dk : Newest(dk, u, c) = Newest(dk, s, c)
  <2>1. Writes(u, c) = IF d.kind = "PageWrite" /\ d.block = c
                       THEN Writes(s, c) \cup {Len(s) + 1} ELSE Writes(s, c)
    BY <1>3, <1>6, WritesAppend
  <2>2. \A dk : Newest(dk, u, c) = IF d.kind = "PageWrite" /\ d.block = c
                                   THEN {d.page} ELSE Newest(dk, s, c)
    BY <1>3, <1>6, NewestAppend
  <2> QED BY <1>1, <2>1, <2>2
<1>9. \A v \in Seq(Bytes) : \A m : Follows(v, s, m) => Follows(v, u, m)
  BY <1>2, <1>3, <1>6, FollowsAppend
<1>10. \A k \in 1..Len(t) : u[k] = t[k]
  BY <1>2, <1>3, <1>7
<1> QED BY <1>4, <1>5, <1>8, <1>9, <1>10

Finds(c, S) == OnePage(c) /\ c \subseteq S

\* What may be found stays so when more images may be.
LEMMA FindsMore ==
  ASSUME NEW c, NEW S, NEW T, S \subseteq T, Finds(c, S)
  PROVE  Finds(c, T)
BY DEF Finds

\* From sidecar u over data file dk, opening finds the images of mb.
Safe(dk, mb, u) == \A b \in Block : Finds(Recoverable(dk, u, b), mb[b])

LEMMA SafeMore ==
  ASSUME NEW dk, NEW mb, NEW nb, NEW u, \A b \in Block : mb[b] \subseteq nb[b], Safe(dk, mb, u)
  PROVE  Safe(dk, nb, u)
BY FindsMore, Zenon DEF Safe

Sealed(t, m) == m \in 0..Len(t) /\ (m = 0 \/ IsCommit(t[m]))

\* A write before a surfaced marker is committed; here, in bytes that hold the
\* log up to marker m.
LEMMA SealedCommits ==
  ASSUME NEW t \in Seq(WalRecord), NEW u \in Seq(Bytes), NEW b \in Block, NEW m,
         Sealed(t, m), Agree(u, t, m), NEW k \in Writes(t, b), k <= m
  PROVE  k \in CommittedTo(u, b)
<1>1. /\ Len(t) \in Nat /\ DOMAIN t = 1..Len(t) /\ (\A j \in 1..Len(t) : t[j] # Torn)
      /\ Len(u) \in Nat /\ DOMAIN u = 1..Len(u)
  BY RecordsFacts, BytesFacts
<1>2. k \in 1..Len(t) /\ t[k].kind = "PageWrite" /\ t[k].block = b
  BY <1>1 DEF Writes
<1>3. m \in 1..Len(t) /\ m \in 1..Len(u) /\ IsCommit(t[m]) /\ \A j \in 1..m : u[j] = t[j]
  BY <1>1, <1>2 DEF Sealed, Agree
<1>4. k # m
  BY <1>2, <1>3 DEF IsCommit
<1>5. m \in (k + 1)..Len(u) /\ k \in 1..m /\ k \in DOMAIN u
  BY <1>1, <1>2, <1>3, <1>4
<1>6. Surfaced(u, m) /\ IsCommit(u[m])
  <2>1. m \in 1..m /\ 1..m \subseteq 1..Len(t)
    BY <1>1, <1>3
  <2> QED BY <1>1, <1>3, <2>1 DEF Surfaced
<1>7. Covered(u, k)
  BY <1>5, <1>6 DEF Covered
<1> QED BY <1>2, <1>3, <1>5, <1>7 DEF CommittedTo

\* A write of b in t is of an image in S, or one before m supersedes it; with
\* no write before m, the image of S is in the data file.
Settles(dk, t, m, b, S) ==
  /\ \A k \in Writes(t, b) : t[k].page \in S \/ \E j \in Writes(t, b) : k < j /\ j <= m
  /\ (\E k \in Writes(t, b) : k <= m) \/ Finds(dk[b], S)

\* Whatever part of the log a sidecar that follows it holds, opening finds one
\* of the images that are settled.
LEMMA FollowsFinds ==
  ASSUME NEW t \in Seq(WalRecord), NEW u \in Seq(Bytes), NEW b \in Block, NEW m, NEW dk, NEW S,
         Sealed(t, m), Follows(u, t, m), Settles(dk, t, m, b, S)
  PROVE  Finds(Recoverable(dk, u, b), S)
<1>1. Agree(u, t, m) /\ \A k \in Writes(t, b) : k <= m => k \in CommittedTo(u, b)
  BY SealedCommits DEF Follows
<1>2. CASE CommittedTo(u, b) = {}
  <2>1. Finds(dk[b], S)
    BY <1>1, <1>2 DEF Settles
  <2> QED BY <1>2, <2>1 DEF Recoverable
<1>3. CASE CommittedTo(u, b) # {}
  <2> DEFINE K == Max(CommittedTo(u, b))
  <2>1. /\ K \in CommittedTo(u, b) /\ (\A j \in CommittedTo(u, b) : j <= K)
        /\ u[K].page \in Page /\ Recoverable(dk, u, b) = {u[K].page}
    BY <1>3, CommittedFacts DEF Recoverable
  <2> HIDE DEF K
  <2>2. /\ Len(u) \in Nat /\ DOMAIN u = 1..Len(u)
        /\ Len(t) \in Nat /\ DOMAIN t = 1..Len(t) /\ \A j \in 1..Len(t) : t[j] # Torn
    BY BytesFacts, RecordsFacts
  <2>3. K \in 1..Len(u) /\ Covered(u, K) /\ u[K].kind = "PageWrite" /\ u[K].block = b
    BY <2>1, <2>2 DEF CommittedTo
  <2>4. PICK c \in (K + 1)..Len(u) : Surfaced(u, c)
    BY <2>3 DEF Covered
  <2>5. c \in 1..Len(u) /\ K \in 1..c
    BY <2>2, <2>3, <2>4
  <2>6. Agree(u, t, c)
    BY <2>4, <2>5 DEF Follows
  <2>7. K \in 1..Len(t) /\ u[K] = t[K]
    BY <2>2, <2>5, <2>6 DEF Agree
  <2>8. K \in Writes(t, b)
    BY <2>2, <2>3, <2>7 DEF Writes
  <2>9. \A j \in Writes(t, b) : ~(K < j /\ j <= m)
    <3> SUFFICES ASSUME NEW j \in Writes(t, b), K < j, j <= m PROVE FALSE
      OBVIOUS
    <3>1. j <= K
      BY <1>1, <2>1
    <3>2. j \in 1..Len(t)
      BY <2>2 DEF Writes
    <3> QED BY <2>2, <2>3, <3>1, <3>2
  <2>10. u[K].page \in S
    BY <2>7, <2>8, <2>9 DEF Settles
  <2> QED BY <2>1, <2>10 DEF Finds, OnePage
<1> QED BY <1>2, <1>3

\* The pool shows the newest image of every block, and keeps back no page that
\* is not in log t.
Mirrors(p, dk, t) ==
  /\ \A b \in DirtyBlocks(p) : Writes(t, b) # {}
  /\ \A b \in Block : Newest(dk, t, b) = {Logical(p, b)}

Live(p, dk, mb, W, t, m) ==
  /\ Sealed(t, m)
  /\ Mirrors(p, dk, t)
  /\ \A b \in Block : Settles(dk, t, m, b, mb[b])
  /\ \A u \in W : Follows(u, t, m) \/ (m = 0 /\ Safe(dk, mb, u))

LEMMA LiveIsSafe ==
  ASSUME NEW p, NEW dk, NEW mb, NEW W, NEW t \in Seq(WalRecord), NEW m,
         Live(p, dk, mb, W, t, m), \A u \in W : u \in Seq(Bytes)
  PROVE  \A u \in W : Safe(dk, mb, u)
<1>1. ASSUME NEW u \in W, Follows(u, t, m) PROVE Safe(dk, mb, u)
  <2>1. ASSUME NEW b \in Block PROVE Finds(Recoverable(dk, u, b), mb[b])
    BY <1>1, FollowsFinds DEF Live
  <2> QED BY <2>1, Zenon DEF Safe
<1> QED BY <1>1, Zenon DEF Live

LEMMA LiveImages ==
  ASSUME NEW p, NEW dk, NEW mb, NEW W, NEW t \in Seq(WalRecord), NEW m,
         Live(p, dk, mb, W, t, m), NEW b \in Block
  PROVE  Logical(p, b) \in mb[b]
<1>1. Newest(dk, t, b) = {Logical(p, b)} /\ Settles(dk, t, m, b, mb[b])
  BY DEF Live, Mirrors
<1>2. CASE Writes(t, b) = {}
  BY <1>1, <1>2 DEF Newest, Settles, Finds
<1>3. CASE Writes(t, b) # {}
  <2> DEFINE K == Max(Writes(t, b))
  <2>1. t \in Seq(Bytes) /\ Len(t) \in Nat
    BY RecordsFacts
  <2>2. Writes(t, b) \subseteq 1..Len(t) /\ K \in Writes(t, b) /\ \A k \in Writes(t, b) : k <= K
    BY <1>3, <2>1, LastWrite
  <2>3. Logical(p, b) = t[K].page
    BY <1>1, <1>3 DEF Newest
  <2> HIDE DEF K
  <2>4. \A j \in Writes(t, b) : ~(K < j)
    BY <2>1, <2>2
  <2> QED BY <1>1, <2>2, <2>3, <2>4 DEF Settles
<1> QED BY <1>2, <1>3

\* Any sidecar agrees with the log up to m.
LEMMA LiveAgrees ==
  ASSUME NEW p, NEW dk, NEW mb, NEW W, NEW t \in Seq(Bytes), NEW m, NEW u \in W,
         Live(p, dk, mb, W, t, m), u \in Seq(Bytes)
  PROVE  Agree(u, t, m)
<1>1. Len(u) \in Nat /\ Len(t) \in Nat
  BY BytesFacts
<1> QED BY <1>1 DEF Live, Follows, Agree

\* An empty log: what is in the data file is found, and is the newest.
LEMMA EmptyLog ==
  ASSUME NEW dk, NEW b \in Block
  PROVE  /\ Writes(<<>>, b) = {} /\ Newest(dk, <<>>, b) = dk[b]
         /\ Recoverable(dk, <<>>, b) = dk[b] /\ Sealed(<<>>, 0)
<1>1. Len(<<>>) = 0 /\ DOMAIN <<>> = {}
  BY NewLog
<1>2. Writes(<<>>, b) = {} /\ CommittedTo(<<>>, b) = {}
  BY <1>1 DEF Writes, CommittedTo
<1> QED BY <1>1, <1>2 DEF Newest, Recoverable, Sealed

\* An open handle with an empty log over a data file that holds the images.
LEMMA EmptyLive ==
  ASSUME NEW p, NEW dk, NEW mb, NEW W, Bare(p),
         \A b \in Block : dk[b] = {p.device[b]}, \A b \in Block : Finds(dk[b], mb[b]),
         \A u \in W : Safe(dk, mb, u)
  PROVE  Live(p, dk, mb, W, <<>>, 0)
<1>1. Mirrors(p, dk, <<>>)
  BY EmptyLog DEF Mirrors, Bare
<1>2. \A b \in Block : Settles(dk, <<>>, 0, b, mb[b])
  BY EmptyLog, Zenon DEF Settles
<1>3. Sealed(<<>>, 0)
  BY NewLog DEF Sealed
<1> QED BY <1>1, <1>2, <1>3, Zenon DEF Live
=============================================================================
