----------------------------- MODULE MvccProofs -----------------------------
(***************************************************************************)
(* Proofs about Mvcc: for every set of clients, keys and values, and every *)
(* number of commits, a transaction reads one snapshot, validation is      *)
(* exact, and the transactions that commit are serializable.               *)
(***************************************************************************)
EXTENDS Mvcc, SequenceLemmas

\* The versions of a key are in the order of their timestamps.
Ordered(s) ==
  \A k \in Key : \A i, j \in DOMAIN s.versions[k] :
    /\ s.versions[k][i].commit_ts <= s.clock
    /\ i < j => s.versions[k][i].commit_ts < s.versions[k][j].commit_ts

StoreOK(s) == s \in MvccStore /\ Ordered(s)

\* What a chain of versions looks like to the provers.
LEMMA ChainFacts ==
  ASSUME NEW s, StoreOK(s), NEW k \in Key
  PROVE  /\ s.clock \in Nat
         /\ s.versions[k] \in Seq(Version)
         /\ Len(s.versions[k]) \in Nat
         /\ DOMAIN s.versions[k] = 1..Len(s.versions[k])
         /\ \A i \in 1..Len(s.versions[k]) :
              /\ s.versions[k][i] \in Version
              /\ s.versions[k][i].commit_ts \in Nat
              /\ s.versions[k][i].value \in Value
              /\ s.versions[k][i].commit_ts <= s.clock
         /\ s.versions[k] # <<>> <=> Len(s.versions[k]) > 0
<1>1. s.clock \in Nat /\ s.versions[k] \in Seq(Version)
  BY DEF StoreOK, MvccStore
<1>2. /\ Len(s.versions[k]) \in Nat
      /\ DOMAIN s.versions[k] = 1..Len(s.versions[k])
      /\ \A i \in 1..Len(s.versions[k]) : s.versions[k][i] \in Version
  BY <1>1, LenProperties, ElementOfSeq
<1>3. \A i \in 1..Len(s.versions[k]) : s.versions[k][i].commit_ts <= s.clock
  BY <1>2 DEF StoreOK, Ordered
<1>4. s.versions[k] # <<>> <=> Len(s.versions[k]) > 0
  BY <1>1, <1>2, EmptySeq
<1> QED BY <1>1, <1>2, <1>3, <1>4 DEF Version

\* latest and visible_value return a value or None.
LEMMA ValuesTyped ==
  ASSUME NEW s, StoreOK(s), NEW k \in Key, NEW as_of \in Nat
  PROVE  latest(s, k) \in Option /\ visible_value(s, k, as_of) \in Option
<1> DEFINE ch == s.versions[k]
           V == VisibleAt(s, k, as_of)
<1>1. latest(s, k) \in Option
  <2>1. CASE ch = <<>>
    BY <2>1 DEF latest, Option
  <2>2. CASE ch # <<>>
    <3>1. Len(ch) \in 1..Len(ch)
      BY <2>2, ChainFacts
    <3>2. ch[Len(ch)].value \in Value
      BY <3>1, ChainFacts
    <3> QED BY <2>2, <3>2 DEF latest, Option, Last
  <2> QED BY <2>1, <2>2
<1>2. visible_value(s, k, as_of) \in Option
  <2>1. CASE V = {}
    BY <2>1 DEF visible_value, Option
  <2>2. CASE V # {}
    <3>1. Len(ch) \in Nat /\ V \subseteq 0..Len(ch) /\ V \subseteq 1..Len(ch)
      BY ChainFacts DEF VisibleAt
    <3>2. Max(V) \in V
      BY <2>2, <3>1, MaxOfBounded
    <3>3. ch[Max(V)].value \in Value
      BY <3>1, <3>2, ChainFacts
    <3> QED BY <2>2, <3>3 DEF visible_value, Option
  <2> QED BY <2>1, <2>2
<1> QED BY <1>1, <1>2

\* A snapshot that no commit of k has overtaken sees its latest value.
LEMMA VisibleIsLatest ==
  ASSUME NEW s, StoreOK(s), NEW k \in Key, NEW as_of \in Nat,
         s.versions[k] # <<>> => Last(s.versions[k]).commit_ts <= as_of
  PROVE  visible_value(s, k, as_of) = latest(s, k)
<1> DEFINE ch == s.versions[k]
           V == VisibleAt(s, k, as_of)
<1>1. CASE ch = <<>>
  <2>1. V = {}
    BY <1>1, ChainFacts DEF VisibleAt
  <2> QED BY <1>1, <2>1 DEF visible_value, latest
<1>2. CASE ch # <<>>
  <2>1. Len(ch) \in 1..Len(ch) /\ V \subseteq 0..Len(ch) /\ Len(ch) \in Nat
    BY <1>2, ChainFacts DEF VisibleAt
  <2>2. Len(ch) \in V
    BY <1>2, <2>1, ChainFacts DEF VisibleAt, Last
  <2>3. Max(V) \in V /\ \A j \in V : j <= Max(V)
    BY <2>1, <2>2, MaxOfBounded
  <2>4. Max(V) = Len(ch)
    BY <2>1, <2>2, <2>3
  <2>5. V # {}
    BY <2>2
  <2> QED BY <1>2, <2>4, <2>5 DEF visible_value, latest, Last
<1> QED BY <1>1, <1>2

-----------------------------------------------------------------------------
\* A commit appends to the chain of every key it writes, with the timestamp
\* after the clock, and changes no other.
LEMMA CommitChain ==
  ASSUME NEW s, StoreOK(s), NEW t \in Transaction, NEW k \in Key
  PROVE  /\ commit(s, t).clock = s.clock + 1
         /\ k \notin Written(t) => commit(s, t).versions[k] = s.versions[k]
         /\ k \in Written(t) =>
              /\ commit(s, t).versions[k] \in Seq(Version)
              /\ Len(commit(s, t).versions[k]) = Len(s.versions[k]) + 1
              /\ commit(s, t).versions[k][Len(s.versions[k]) + 1].commit_ts = s.clock + 1
              /\ commit(s, t).versions[k][Len(s.versions[k]) + 1].value = t.writes[k]
              /\ \A i \in 1..Len(s.versions[k]) :
                   commit(s, t).versions[k][i] = s.versions[k][i]
<1> DEFINE r == commit(s, t)
           ch == s.versions[k]
           new == [commit_ts |-> s.clock + 1, value |-> t.writes[k]]
<1>1. /\ r.clock = s.clock + 1
      /\ r.versions[k] = IF k \in Written(t) THEN Append(ch, new) ELSE ch
  BY DEF commit
<1>2. k \in Written(t) => t.writes[k] \in Value
  BY DEF Written, Transaction, Option
<1>3. k \in Written(t) => new \in Version
  BY <1>2, ChainFacts DEF Version
<1>4. ch \in Seq(Version)
  BY ChainFacts
<1>5. k \in Written(t) => /\ Append(ch, new) \in Seq(Version)
                          /\ Len(Append(ch, new)) = Len(ch) + 1
                          /\ Append(ch, new)[Len(ch) + 1] = new
                          /\ \A i \in 1..Len(ch) : Append(ch, new)[i] = ch[i]
  BY <1>3, <1>4, AppendProperties
<1>6. new.commit_ts = s.clock + 1 /\ new.value = t.writes[k]
  OBVIOUS
<1> HIDE DEF new
<1> QED BY <1>1, <1>5, <1>6

\* The store stays well formed.
LEMMA CommitStoreOK ==
  ASSUME NEW s, StoreOK(s), NEW t \in Transaction
  PROVE  StoreOK(commit(s, t))
<1> DEFINE r == commit(s, t)
<1>1. r = [clock |-> r.clock, versions |-> r.versions]
  BY DEF commit
<1>2. s.clock \in Nat
  BY DEF StoreOK, MvccStore
<1>3. r.clock = s.clock + 1
  BY DEF commit
<1>4. ASSUME NEW k \in Key
      PROVE  /\ r.versions[k] \in Seq(Version)
             /\ \A i, j \in DOMAIN r.versions[k] :
                  /\ r.versions[k][i].commit_ts <= r.clock
                  /\ i < j => r.versions[k][i].commit_ts < r.versions[k][j].commit_ts
  <2> DEFINE ch == s.versions[k]
  <2>1. /\ ch \in Seq(Version)
        /\ Len(ch) \in Nat
        /\ DOMAIN ch = 1..Len(ch)
        /\ \A i \in 1..Len(ch) : ch[i].commit_ts \in Nat /\ ch[i].commit_ts <= s.clock
    BY <1>4, ChainFacts
  <2>2. \A i, j \in 1..Len(ch) : i < j => ch[i].commit_ts < ch[j].commit_ts
    BY <1>4, <2>1 DEF StoreOK, Ordered
  <2>3. CASE k \notin Written(t)
    <3>1. r.versions[k] = ch
      BY <1>4, <2>3, CommitChain
    <3> HIDE DEF r, ch
    <3>2. ASSUME NEW i \in 1..Len(ch), NEW j \in 1..Len(ch)
          PROVE  /\ ch[i].commit_ts <= r.clock
                 /\ i < j => ch[i].commit_ts < ch[j].commit_ts
      BY <1>2, <1>3, <2>1, <2>2
    <3> QED BY <2>1, <3>1, <3>2
  <2>4. CASE k \in Written(t)
    <3>1. /\ r.versions[k] \in Seq(Version)
          /\ Len(r.versions[k]) = Len(ch) + 1
          /\ r.versions[k][Len(ch) + 1].commit_ts = s.clock + 1
          /\ \A i \in 1..Len(ch) : r.versions[k][i] = ch[i]
      BY <1>4, <2>4, CommitChain
    <3>2. DOMAIN r.versions[k] = 1..(Len(ch) + 1)
      BY <3>1, LenProperties
    <3> HIDE DEF r, ch
    <3>3. ASSUME NEW i \in 1..(Len(ch) + 1)
          PROVE  /\ i = Len(ch) + 1 => r.versions[k][i].commit_ts = s.clock + 1
                 /\ i # Len(ch) + 1 => /\ i \in 1..Len(ch)
                                       /\ r.versions[k][i].commit_ts = ch[i].commit_ts
      BY <2>1, <3>1
    <3>4. ASSUME NEW i \in 1..(Len(ch) + 1), NEW j \in 1..(Len(ch) + 1)
          PROVE  /\ r.versions[k][i].commit_ts <= r.clock
                 /\ i < j => r.versions[k][i].commit_ts < r.versions[k][j].commit_ts
      <4>1. CASE i = Len(ch) + 1
        BY <1>2, <1>3, <2>1, <3>3, <4>1
      <4>2. CASE i # Len(ch) + 1 /\ j = Len(ch) + 1
        BY <1>2, <1>3, <2>1, <3>3, <4>2
      <4>3. CASE i # Len(ch) + 1 /\ j # Len(ch) + 1
        BY <1>2, <1>3, <2>1, <2>2, <3>3, <4>3
      <4> QED BY <4>1, <4>2, <4>3
    <3> QED BY <3>1, <3>2, <3>4
  <2> QED BY <2>3, <2>4
<1>5. r.versions \in [Key -> Seq(Version)]
  <2>1. r.versions = [k \in Key |-> r.versions[k]]
    BY DEF commit
  <2> QED BY <1>4, <2>1
<1> HIDE DEF r
<1>6. r \in MvccStore
  BY <1>1, <1>2, <1>3, <1>5 DEF MvccStore
<1> QED BY <1>4, <1>6 DEF StoreOK, Ordered, r

\* An older snapshot does not see what a commit adds.
LEMMA CommitInvisible ==
  ASSUME NEW s, StoreOK(s), NEW t \in Transaction, NEW k \in Key,
         NEW as_of \in Nat, as_of <= s.clock
  PROVE  visible_value(commit(s, t), k, as_of) = visible_value(s, k, as_of)
<1> DEFINE r == commit(s, t)
           ch == s.versions[k]
<1>1. s.clock \in Nat /\ Len(ch) \in Nat /\ DOMAIN ch = 1..Len(ch)
  BY ChainFacts
<1>2. CASE k \notin Written(t)
  <2>1. r.versions[k] = ch
    BY <1>2, CommitChain
  <2> QED BY <2>1 DEF visible_value, VisibleAt
<1>3. CASE k \in Written(t)
  <2>1. /\ r.versions[k] \in Seq(Version)
        /\ Len(r.versions[k]) = Len(ch) + 1
        /\ r.versions[k][Len(ch) + 1].commit_ts = s.clock + 1
        /\ \A i \in 1..Len(ch) : r.versions[k][i] = ch[i]
    BY <1>3, CommitChain
  <2>2. DOMAIN r.versions[k] = 1..(Len(ch) + 1)
    BY <2>1, LenProperties
  <2> DEFINE V == VisibleAt(s, k, as_of)
  <2> HIDE DEF r, ch
  <2>3. {i \in DOMAIN r.versions[k] : r.versions[k][i].commit_ts <= as_of}
        = {i \in DOMAIN ch : ch[i].commit_ts <= as_of}
    BY <1>1, <2>1, <2>2
  <2>4. VisibleAt(r, k, as_of) = V
    BY <2>3 DEF VisibleAt, ch
  <2>5. V \subseteq 0..Len(ch) /\ V \subseteq 1..Len(ch)
    BY <1>1 DEF VisibleAt, ch
  <2>6. V # {} => r.versions[k][Max(V)] = ch[Max(V)]
    BY <1>1, <2>1, <2>5, MaxOfBounded
  <2> QED BY <2>4, <2>6 DEF visible_value, r, ch
<1> QED BY <1>2, <1>3

\* A commit overtakes the older snapshots on the keys it writes, and only there.
LEMMA CommitOvertakes ==
  ASSUME NEW s, StoreOK(s), NEW t \in Transaction, NEW k \in Key,
         NEW u \in Transaction, u.snapshot <= s.clock
  PROVE  Newer(commit(s, t), u, k) <=> Newer(s, u, k) \/ k \in Written(t)
<1> DEFINE r == commit(s, t)
           ch == s.versions[k]
<1>1. CASE k \notin Written(t)
  <2>1. r.versions[k] = ch
    BY <1>1, CommitChain
  <2> QED BY <1>1, <2>1 DEF Newer
<1>2. CASE k \in Written(t)
  <2>1. /\ r.versions[k] \in Seq(Version)
        /\ Len(r.versions[k]) = Len(ch) + 1
        /\ r.versions[k][Len(ch) + 1].commit_ts = s.clock + 1
    BY <1>2, CommitChain
  <2>2. s.clock \in Nat /\ Len(ch) \in Nat /\ u.snapshot \in Nat
    BY ChainFacts DEF Transaction
  <2>3. Last(r.versions[k]).commit_ts > u.snapshot
    BY <2>1, <2>2 DEF Last
  <2>4. r.versions[k] # <<>>
    BY <2>1, <2>2, EmptySeq
  <2> QED BY <1>2, <2>3, <2>4 DEF Newer
<1> QED BY <1>1, <1>2

\* After a commit the latest values are those it wrote, over the earlier ones.
LEMMA CommitLatest ==
  ASSUME NEW s, StoreOK(s), NEW t \in Transaction, NEW k \in Key
  PROVE  latest(commit(s, t), k) =
           IF t.writes[k] = None THEN latest(s, k) ELSE t.writes[k]
<1> DEFINE r == commit(s, t)
           ch == s.versions[k]
<1>1. CASE k \notin Written(t)
  BY <1>1, CommitChain DEF latest, Written
<1>2. CASE k \in Written(t)
  <2>1. /\ r.versions[k] \in Seq(Version)
        /\ Len(r.versions[k]) = Len(ch) + 1
        /\ r.versions[k][Len(ch) + 1].value = t.writes[k]
    BY <1>2, CommitChain
  <2>2. Len(ch) \in Nat
    BY ChainFacts
  <2>3. r.versions[k] # <<>>
    BY <2>1, <2>2, EmptySeq
  <2> QED BY <1>2, <2>1, <2>3 DEF latest, Last, Written
<1> QED BY <1>1, <1>2

-----------------------------------------------------------------------------
\* What holds of an open transaction t: its snapshot still reads what was
\* committed when it began (bg), a key is newer than the snapshot exactly when
\* somebody has committed it since (si), and what it has seen (sn) is in its
\* read set.
Follows(s, t, bg, sn, si) ==
  /\ t.snapshot <= s.clock
  /\ \A k \in Key : /\ visible_value(s, k, t.snapshot) = bg[k]
                    /\ Newer(s, t, k) <=> k \in si
                    /\ sn[k] # Unread => k \in t.reads /\ sn[k] = bg[k]

Quiet(sn, si) == sn = [k \in Key |-> Unread] /\ si = {}

ClientOK(s, t, bg, sn, si) ==
  IF t = Idle THEN Quiet(sn, si) ELSE Follows(s, t, bg, sn, si)

\* The inductive invariant.
Inv == /\ TypeOK
       /\ \A c \in Client : ClientOK(store, txn[c], begun[c], seen[c], since[c])

\* The type invariant is StoreOK of the store.
LEMMA TypeOKStore == TypeOK => StoreOK(store)
BY DEF TypeOK, StoreOK, Ordered

\* MvccStore::new gives an empty, well-formed store.
LEMMA NewStoreOK == StoreOK(NewStore)
<1>1. <<>> \in Seq(Version) /\ DOMAIN <<>> = {}
  BY EmptySeq
<1>2. NewStore \in MvccStore
  BY <1>1 DEF NewStore, MvccStore
<1>3. \A k \in Key : NewStore.versions[k] = <<>>
  BY DEF NewStore
<1> QED BY <1>1, <1>2, <1>3 DEF StoreOK, Ordered

\* The operators on transactions keep their type.
LEMMA TransactionsTyped ==
  ASSUME NEW t \in Transaction, NEW k \in Key
  PROVE  /\ Reading(t, k) \in Transaction
         /\ \A v \in Value : write(t, k, v) \in Transaction
BY DEF Reading, write, Transaction, Option

\* A transaction that begins follows the store as it is.
LEMMA BeginFollows ==
  ASSUME NEW s, StoreOK(s), NEW bg, \A k \in Key : bg[k] = latest(s, k),
         NEW sn, Quiet(sn, {})
  PROVE  begin(s) \in Transaction /\ Follows(s, begin(s), bg, sn, {})
<1> DEFINE t == begin(s)
<1>1. s.clock \in Nat
  BY DEF StoreOK, MvccStore
<1>2. t \in Transaction /\ t.snapshot = s.clock
  BY <1>1 DEF begin, Transaction, Option
<1>3. ASSUME NEW k \in Key, s.versions[k] # <<>>
      PROVE  Last(s.versions[k]).commit_ts <= s.clock /\ Last(s.versions[k]).commit_ts \in Nat
  <2>1. Len(s.versions[k]) \in 1..Len(s.versions[k])
    BY <1>3, ChainFacts
  <2> QED BY <2>1, ChainFacts DEF Last
<1>4. ASSUME NEW k \in Key
      PROVE  visible_value(s, k, t.snapshot) = bg[k] /\ ~Newer(s, t, k)
  <2>1. visible_value(s, k, s.clock) = latest(s, k)
    BY <1>1, <1>3, VisibleIsLatest
  <2>2. ~Newer(s, t, k)
    BY <1>1, <1>2, <1>3 DEF Newer
  <2> QED BY <1>2, <2>1, <2>2
<1>5. \A k \in Key : sn[k] = Unread
  BY DEF Quiet
<1> HIDE DEF t
<1>6. t.snapshot <= s.clock
  BY <1>1, <1>2
<1>7. Follows(s, t, bg, sn, {})
  BY <1>4, <1>5, <1>6 DEF Follows
<1> QED BY <1>2, <1>7 DEF t

\* A transaction that reads still follows the store.
LEMMA ReadFollows ==
  ASSUME NEW s, NEW t \in Transaction, NEW bg, NEW sn, NEW si, Follows(s, t, bg, sn, si),
         NEW k \in Key,
         NEW sm, \/ sm = sn
                 \/ \A j \in Key : sm[j] = IF j = k THEN visible_value(s, k, t.snapshot) ELSE sn[j]
  PROVE  Follows(s, Reading(t, k), bg, sm, si)
<1> DEFINE u == Reading(t, k)
<1>1. u.snapshot = t.snapshot /\ u.reads = t.reads \cup {k}
  BY DEF Reading, Transaction
<1>2. \A j \in Key : Newer(s, u, j) <=> Newer(s, t, j)
  BY <1>1 DEF Newer
<1> HIDE DEF u
<1>3. Follows(s, u, bg, sm, si)
  BY <1>1, <1>2 DEF Follows
<1> QED BY <1>3 DEF u

\* A transaction that writes still follows the store.
LEMMA WriteFollows ==
  ASSUME NEW s, NEW t \in Transaction, NEW bg, NEW sn, NEW si, Follows(s, t, bg, sn, si),
         NEW k \in Key, NEW v
  PROVE  Follows(s, write(t, k, v), bg, sn, si)
<1> DEFINE u == write(t, k, v)
<1>1. u.snapshot = t.snapshot /\ u.reads = t.reads
  BY DEF write, Transaction
<1>2. \A j \in Key : Newer(s, u, j) <=> Newer(s, t, j)
  BY <1>1 DEF Newer
<1> HIDE DEF u
<1>3. Follows(s, u, bg, sn, si)
  BY <1>1, <1>2 DEF Follows
<1> QED BY <1>3 DEF u

\* The commit of another transaction.
LEMMA CommitFollows ==
  ASSUME NEW s, StoreOK(s), NEW t \in Transaction, NEW u \in Transaction,
         NEW bg, NEW sn, NEW si, Follows(s, u, bg, sn, si)
  PROVE  Follows(commit(s, t), u, bg, sn, si \cup Written(t))
<1> DEFINE r == commit(s, t)
<1>1. s.clock \in Nat /\ r.clock = s.clock + 1 /\ u.snapshot \in Nat /\ u.snapshot <= s.clock
  BY DEF StoreOK, MvccStore, commit, Transaction, Follows
<1>2. \A k \in Key : visible_value(r, k, u.snapshot) = visible_value(s, k, u.snapshot)
  BY <1>1, CommitInvisible
<1>3. \A k \in Key : Newer(r, u, k) <=> Newer(s, u, k) \/ k \in Written(t)
  BY <1>1, CommitOvertakes
<1> HIDE DEF r
<1>4. Follows(r, u, bg, sn, si \cup Written(t))
  BY <1>1, <1>2, <1>3 DEF Follows
<1> QED BY <1>4 DEF r

-----------------------------------------------------------------------------
\* The initial state satisfies the invariant.
LEMMA InitInv == Init => Inv
<1> SUFFICES ASSUME Init PROVE Inv
  OBVIOUS
<1>1. StoreOK(store)
  BY NewStoreOK DEF Init
<1>2. TypeOK
  BY <1>1 DEF Init, TypeOK, StoreOK, Ordered, Option
<1>3. \A c \in Client : txn[c] = Idle /\ Quiet(seen[c], since[c])
  BY DEF Init, Quiet
<1> QED BY <1>2, <1>3 DEF Inv, ClientOK

\* begin preserves the invariant.
LEMMA BeginStep ==
  ASSUME Inv, NEW c \in Client, Begin(c)
  PROVE  Inv'
<1>1. StoreOK(store) /\ TypeOK
  BY TypeOKStore DEF Inv
<1>2. Quiet(seen[c], since[c])
  BY DEF Inv, ClientOK, Begin
<1>3. \A k \in Key : Committed[k] = latest(store, k) /\ latest(store, k) \in Option
  BY <1>1, ValuesTyped DEF Committed
<1>4. begin(store) \in Transaction /\ Follows(store, begin(store), Committed, seen[c], {})
  BY <1>1, <1>2, <1>3, BeginFollows DEF Quiet
<1>5. Committed \in [Key -> Option]
  BY <1>3 DEF Committed
<1>6. TypeOK'
  BY <1>1, <1>4, <1>5 DEF Begin, TypeOK
<1>7. ClientOK(store, txn[c], begun[c], seen[c], since[c])'
  <2>1. txn'[c] = begin(store) /\ begun'[c] = Committed /\ UNCHANGED <<store, seen, since>>
    BY <1>1 DEF Begin, TypeOK
  <2>2. since[c] = {}
    BY <1>2 DEF Quiet
  <2> QED BY <1>4, <2>1, <2>2, IdleAssumption DEF ClientOK
<1>8. ASSUME NEW d \in Client, d # c
      PROVE  ClientOK(store, txn[d], begun[d], seen[d], since[d])'
  <2>1. /\ txn'[d] = txn[d] /\ begun'[d] = begun[d]
        /\ UNCHANGED <<store, seen, since>>
    BY <1>1, <1>8 DEF Begin, TypeOK
  <2>2. ClientOK(store, txn[d], begun[d], seen[d], since[d])
    BY DEF Inv
  <2> QED BY <2>1, <2>2
<1> QED BY <1>6, <1>7, <1>8 DEF Inv

\* The transaction of a client that has one.
LEMMA OpenFacts ==
  ASSUME Inv, NEW c \in Client, txn[c] # Idle
  PROVE  /\ txn[c] \in Transaction
         /\ Follows(store, txn[c], begun[c], seen[c], since[c])
         /\ StoreOK(store)
         /\ TypeOK
<1>1. TypeOK /\ StoreOK(store)
  BY TypeOKStore DEF Inv
<1>2. txn[c] \in Transaction
  BY <1>1 DEF TypeOK
<1> QED BY <1>1, <1>2 DEF Inv, ClientOK

\* read preserves the invariant.
LEMMA ReadStep ==
  ASSUME Inv, NEW c \in Client, NEW k \in Key, Read(c, k)
  PROVE  Inv'
<1>1. /\ txn[c] \in Transaction
      /\ Follows(store, txn[c], begun[c], seen[c], since[c])
      /\ StoreOK(store)
      /\ TypeOK
  BY OpenFacts DEF Read
<1> DEFINE val == visible_value(store, k, txn[c].snapshot)
<1>2. val \in Option
  BY <1>1, ValuesTyped DEF Transaction
<1>3. txn[c].writes[k] = None => read(store, txn[c], k) = val
  BY DEF read
<1> HIDE DEF val
<1>4. seen' = seen \/ seen' = [seen EXCEPT ![c][k] = val]
  BY <1>3, Zenon DEF Read
<1>5. /\ txn' = [txn EXCEPT ![c] = Reading(txn[c], k)]
      /\ UNCHANGED <<store, begun, since>>
  BY DEF Read
<1>6. Reading(txn[c], k) \in Transaction
  BY <1>1, TransactionsTyped
<1>7. TypeOK'
  <2>1. seen' \in [Client -> [Key -> Option \cup {Unread}]]
    <3> DEFINE S == [Key -> Option \cup {Unread}]
    <3>1. seen \in [Client -> S] /\ seen[c] \in S
      BY <1>1 DEF TypeOK
    <3>2. [seen[c] EXCEPT ![k] = val] \in S
      BY <1>2, <3>1
    <3>3. [seen EXCEPT ![c][k] = val] = [seen EXCEPT ![c] = [seen[c] EXCEPT ![k] = val]]
      BY <3>1
    <3> HIDE DEF S
    <3>4. [seen EXCEPT ![c] = [seen[c] EXCEPT ![k] = val]] \in [Client -> S]
      BY <3>1, <3>2
    <3> QED BY <1>4, <3>1, <3>3, <3>4 DEF S
  <2>2. txn' \in [Client -> Transaction \cup {Idle}]
    BY <1>1, <1>5, <1>6 DEF TypeOK
  <2> QED BY <1>1, <1>5, <2>1, <2>2 DEF TypeOK
<1>8. ClientOK(store, txn[c], begun[c], seen[c], since[c])'
  <2>1. txn'[c] = Reading(txn[c], k)
    BY <1>1, <1>5 DEF TypeOK
  <2>2. \/ seen'[c] = seen[c]
        \/ \A j \in Key : seen'[c][j] = IF j = k THEN val ELSE seen[c][j]
    BY <1>1, <1>4 DEF TypeOK
  <2>3. Follows(store, Reading(txn[c], k), begun[c], seen'[c], since[c])
    BY <1>1, <2>2, ReadFollows DEF val
  <2> QED BY <1>5, <1>6, <2>1, <2>3, IdleAssumption DEF ClientOK
<1>9. ASSUME NEW d \in Client, d # c
      PROVE  ClientOK(store, txn[d], begun[d], seen[d], since[d])'
  <2>1. txn'[d] = txn[d] /\ seen'[d] = seen[d]
    BY <1>1, <1>4, <1>5, <1>9 DEF TypeOK
  <2>2. ClientOK(store, txn[d], begun[d], seen[d], since[d])
    BY DEF Inv
  <2> QED BY <1>5, <2>1, <2>2
<1> QED BY <1>7, <1>8, <1>9 DEF Inv

\* write preserves the invariant.
LEMMA WriteStep ==
  ASSUME Inv, NEW c \in Client, NEW k \in Key, NEW v \in Value, Write(c, k, v)
  PROVE  Inv'
<1>1. /\ txn[c] \in Transaction
      /\ Follows(store, txn[c], begun[c], seen[c], since[c])
      /\ TypeOK
  BY OpenFacts DEF Write
<1>2. /\ txn' = [txn EXCEPT ![c] = write(txn[c], k, v)]
      /\ UNCHANGED <<store, begun, seen, since>>
  BY DEF Write
<1>3. write(txn[c], k, v) \in Transaction
  BY <1>1, TransactionsTyped
<1>4. TypeOK'
  BY <1>1, <1>2, <1>3 DEF TypeOK
<1>5. txn'[c] = write(txn[c], k, v) /\ \A d \in Client : d # c => txn'[d] = txn[d]
  BY <1>1, <1>2 DEF TypeOK
<1>6. ClientOK(store, txn[c], begun[c], seen[c], since[c])'
  <2>1. Follows(store, write(txn[c], k, v), begun[c], seen[c], since[c])
    BY <1>1, WriteFollows
  <2> QED BY <1>2, <1>3, <1>5, <2>1, IdleAssumption DEF ClientOK
<1>7. ASSUME NEW d \in Client, d # c
      PROVE  ClientOK(store, txn[d], begun[d], seen[d], since[d])'
  BY <1>2, <1>5, <1>7 DEF Inv
<1> QED BY <1>4, <1>6, <1>7 DEF Inv

\* The end of a transaction, for its client and for the others.
LEMMA EndFacts ==
  ASSUME TypeOK, NEW c \in Client, End(c)
  PROVE  /\ txn' \in [Client -> Transaction \cup {Idle}]
         /\ begun' \in [Client -> [Key -> Option]]
         /\ seen' \in [Client -> [Key -> Option \cup {Unread}]]
         /\ txn'[c] = Idle
         /\ seen'[c] = [k \in Key |-> Unread]
         /\ \A d \in Client : d # c => /\ txn'[d] = txn[d]
                                       /\ begun'[d] = begun[d]
                                       /\ seen'[d] = seen[d]
BY DEF TypeOK, End, Option

\* commit preserves the invariant, with and without a conflict.
LEMMA CommitStep ==
  ASSUME Inv, NEW c \in Client, Commit(c)
  PROVE  Inv'
<1>1. /\ txn[c] \in Transaction
      /\ StoreOK(store)
      /\ TypeOK
  BY OpenFacts DEF Commit
<1>2. End(c)
  BY DEF Commit
<1>3. CASE Validates(store, txn[c])
  <2>1. /\ store' = commit(store, txn[c])
        /\ since' = [d \in Client |-> IF d = c \/ txn[d] = Idle THEN {}
                                      ELSE since[d] \cup Written(txn[c])]
    BY <1>3 DEF Commit
  <2>2. StoreOK(store')
    BY <1>1, <2>1, CommitStoreOK
  <2>3. since' \in [Client -> SUBSET Key]
    BY <1>1, <2>1 DEF TypeOK, Written
  <2>4. TypeOK'
    BY <1>1, <1>2, <2>2, <2>3, EndFacts DEF TypeOK, StoreOK, Ordered
  <2>5. ClientOK(store, txn[c], begun[c], seen[c], since[c])'
    BY <1>1, <1>2, <2>1, EndFacts DEF ClientOK, Quiet
  <2>6. ASSUME NEW d \in Client, d # c
        PROVE  ClientOK(store, txn[d], begun[d], seen[d], since[d])'
    <3>1. txn'[d] = txn[d] /\ begun'[d] = begun[d] /\ seen'[d] = seen[d]
      BY <1>1, <1>2, <2>6, EndFacts
    <3>2. CASE txn[d] = Idle
      BY <2>1, <3>1, <3>2 DEF Inv, ClientOK, Quiet
    <3>3. CASE txn[d] # Idle
      <4>1. since'[d] = since[d] \cup Written(txn[c])
        BY <2>1, <2>6, <3>3
      <4>2. txn[d] \in Transaction /\ Follows(store, txn[d], begun[d], seen[d], since[d])
        BY <3>3, OpenFacts
      <4>3. Follows(store', txn[d], begun[d], seen[d], since[d] \cup Written(txn[c]))
        BY <1>1, <2>1, <4>2, CommitFollows
      <4> QED BY <3>1, <3>3, <4>1, <4>3 DEF ClientOK
    <3> QED BY <3>2, <3>3
  <2> QED BY <2>4, <2>5, <2>6 DEF Inv
<1>4. CASE ~Validates(store, txn[c])
  <2>1. UNCHANGED store /\ since' = [since EXCEPT ![c] = {}]
    BY <1>4 DEF Commit
  <2>2. Inv'
    BY <1>1, <1>2, <2>1, EndFacts DEF Inv, TypeOK, ClientOK, Quiet
  <2> QED BY <2>2
<1> QED BY <1>3, <1>4

\* Dropping a transaction preserves the invariant.
LEMMA DropStep ==
  ASSUME Inv, NEW c \in Client, Drop(c)
  PROVE  Inv'
<1>1. TypeOK /\ End(c) /\ UNCHANGED store /\ since' = [since EXCEPT ![c] = {}]
  BY DEF Inv, Drop
<1> QED BY <1>1, EndFacts DEF Inv, TypeOK, ClientOK, Quiet

\* The invariant holds throughout.
THEOREM Invariance == Spec => []Inv
<1>1. Inv /\ [Next]_vars => Inv'
  <2> SUFFICES ASSUME Inv, [Next]_vars PROVE Inv'
    OBVIOUS
  <2>1. CASE UNCHANGED vars
    BY <2>1 DEF vars, Inv, TypeOK
  <2>2. CASE Next
    <3>1. PICK c \in Client : \/ Begin(c) \/ Commit(c) \/ Drop(c)
                              \/ \E k \in Key : Read(c, k) \/ \E v \in Value : Write(c, k, v)
      BY <2>2 DEF Next
    <3> QED BY <3>1, BeginStep, CommitStep, DropStep, ReadStep, WriteStep
  <2> QED BY <2>1, <2>2
<1> QED BY <1>1, InitInv, PTL DEF Spec

\* The state has its type and every chain is in the order of its timestamps.
THEOREM TypeCorrect == Spec => []TypeOK
<1>1. Inv => TypeOK
  BY DEF Inv
<1> QED BY <1>1, Invariance, PTL

\* Every read of a transaction is served from the state in which it began.
THEOREM OneSnapshotHolds == Spec => []OneSnapshot
<1>1. Inv => OneSnapshot
  <2> SUFFICES ASSUME Inv, NEW c \in Client, NEW k \in Key,
                      txn[c] # Idle, seen[c][k] # Unread
               PROVE  seen[c][k] = begun[c][k]
    BY DEF OneSnapshot
  <2> QED BY OpenFacts DEF Follows
<1> QED BY <1>1, Invariance, PTL

\* Validation refuses exactly the transactions that another has overtaken.
THEOREM ConflictExactHolds == Spec => []ConflictIsExact
<1>1. Inv => ConflictIsExact
  <2> SUFFICES ASSUME Inv, NEW c \in Client, txn[c] # Idle
               PROVE  Validates(store, txn[c]) <=>
                        since[c] \cap (txn[c].reads \cup Written(txn[c])) = {}
    BY DEF ConflictIsExact
  <2>1. txn[c] \in Transaction /\ \A k \in Key : Newer(store, txn[c], k) <=> k \in since[c]
    BY OpenFacts DEF Follows
  <2>2. txn[c].reads \cup Written(txn[c]) \subseteq Key
    BY <2>1 DEF Transaction, Written
  <2> QED BY <2>1, <2>2 DEF Validates
<1> QED BY <1>1, Invariance, PTL

-----------------------------------------------------------------------------
\* A transaction that validates has read what is committed now.
LEMMA ReadsAreCurrent ==
  ASSUME Inv, NEW c \in Client, txn[c] # Idle, Validates(store, txn[c]), NEW k \in Key
  PROVE  seen[c][k] \in {Unread, latest(store, k)}
<1>1. /\ txn[c] \in Transaction
      /\ Follows(store, txn[c], begun[c], seen[c], since[c])
      /\ StoreOK(store)
  BY OpenFacts
<1>2. SUFFICES ASSUME seen[c][k] # Unread PROVE seen[c][k] = latest(store, k)
  OBVIOUS
<1>3. k \in txn[c].reads /\ seen[c][k] = visible_value(store, k, txn[c].snapshot)
  BY <1>1, <1>2 DEF Follows
<1>4. ~Newer(store, txn[c], k)
  BY <1>3 DEF Validates
<1>5. txn[c].snapshot \in Nat
  BY <1>1 DEF Transaction
<1>6. store.versions[k] # <<>> => Last(store.versions[k]).commit_ts <= txn[c].snapshot
  <2> SUFFICES ASSUME store.versions[k] # <<>>
               PROVE  Last(store.versions[k]).commit_ts <= txn[c].snapshot
    OBVIOUS
  <2>1. Len(store.versions[k]) \in 1..Len(store.versions[k])
    BY <1>1, ChainFacts
  <2>2. Last(store.versions[k]).commit_ts \in Nat
    BY <1>1, <2>1, ChainFacts DEF Last
  <2> QED BY <1>4, <1>5, <2>2 DEF Newer
<1>7. visible_value(store, k, txn[c].snapshot) = latest(store, k)
  BY <1>1, <1>5, <1>6, VisibleIsLatest
<1> QED BY <1>3, <1>7

\* The buffered writes, as the abstract specification sees them.
Buffer(t) == IF t = Idle THEN [k \in Key |-> None] ELSE t.writes
Buffers == [c \in Client |-> Buffer(txn[c])]

\* A commit is an abstract commit, or an abort when it conflicts.
LEMMA CommitRefines ==
  ASSUME Inv, NEW c \in Client, Commit(c)
  PROVE  Serial!Commit(c) \/ Serial!Abort(c)
<1>1. /\ txn[c] \in Transaction
      /\ StoreOK(store)
      /\ TypeOK
  BY OpenFacts DEF Commit
<1>2. End(c)
  BY DEF Commit
<1>3. Serial!End(c)
  <2>1. seen' = [seen EXCEPT ![c] = [k \in Key |-> Unread]]
    BY <1>2 DEF End
  <2>2. Buffers' = [Buffers EXCEPT ![c] = [k \in Key |-> None]]
    BY <1>1, <1>2, EndFacts, Zenon DEF Buffers, Buffer
  <2> QED BY <2>1, <2>2 DEF Serial!End, Serial!Nothing, Buffers, Buffer
<1>4. CASE ~Validates(store, txn[c])
  <2>1. Committed' = Committed
    BY <1>4 DEF Commit, Committed, latest
  <2> QED BY <1>3, <2>1 DEF Serial!Abort
<1>5. CASE Validates(store, txn[c])
  <2>1. \A k \in Key : Committed[k] = latest(store, k)
    BY DEF Committed
  <2>2. \A k \in Key : seen[c][k] \in {Unread, Committed[k]}
    BY <1>5, <2>1, ReadsAreCurrent DEF Commit
  <2>3. Buffers[c] = txn[c].writes
    BY DEF Commit, Buffers, Buffer
  <2>4. store' = commit(store, txn[c])
    BY <1>5 DEF Commit
  <2>5. \A k \in Key : latest(store', k) =
                       IF Buffers[c][k] = None THEN Committed[k] ELSE Buffers[c][k]
    BY <1>1, <2>1, <2>3, <2>4, CommitLatest
  <2>6. Committed' = [k \in Key |-> IF Buffers[c][k] = None THEN Committed[k]
                                                           ELSE Buffers[c][k]]
    BY <2>5 DEF Committed
  <2> QED BY <1>3, <2>2, <2>6 DEF Serial!Commit, Buffers, Buffer
<1> QED BY <1>4, <1>5

\* A transaction that begins changes nothing the abstract store knows of.
LEMMA BeginRefines ==
  ASSUME Inv, NEW c \in Client, Begin(c)
  PROVE  UNCHANGED <<Committed, seen, Buffers>>
<1>1. TypeOK /\ txn[c] = Idle /\ txn' = [txn EXCEPT ![c] = begin(store)]
  BY DEF Inv, Begin
<1>2. UNCHANGED <<store, seen>>
  BY DEF Begin
<1>3. begin(store) # Idle /\ begin(store).writes = [k \in Key |-> None]
  <2>1. begin(store) \in Transaction
    BY <1>1 DEF TypeOK, MvccStore, begin, Transaction, Option
  <2> QED BY <2>1, IdleAssumption DEF begin
<1>4. \A d \in Client : Buffer(txn'[d]) = Buffer(txn[d])
  BY <1>1, <1>3 DEF TypeOK, Buffer
<1> QED BY <1>2, <1>4 DEF Buffers, Committed

\* A read from the store is an abstract read; of an own write, nothing.
LEMMA ReadRefines ==
  ASSUME Inv, NEW c \in Client, NEW k \in Key, Read(c, k)
  PROVE  Serial!Read(c, k) \/ UNCHANGED <<Committed, seen, Buffers>>
<1>1. /\ txn[c] # Idle
      /\ txn' = [txn EXCEPT ![c] = Reading(txn[c], k)]
      /\ UNCHANGED store
  BY DEF Read
<1>2. txn[c] \in Transaction /\ StoreOK(store) /\ TypeOK
  BY <1>1, OpenFacts
<1>3. Reading(txn[c], k) \in Transaction /\ Reading(txn[c], k).writes = txn[c].writes
  BY <1>2 DEF Reading, Transaction
<1>4. \A d \in Client : Buffer(txn'[d]) = Buffer(txn[d])
  BY <1>1, <1>2, <1>3, IdleAssumption DEF TypeOK, Buffer
<1>5. UNCHANGED <<Committed, Buffers>>
  BY <1>1, <1>4 DEF Buffers, Committed
<1>6. CASE txn[c].writes[k] # None
  BY <1>5, <1>6 DEF Read
<1>7. CASE txn[c].writes[k] = None
  <2>1. seen' = [seen EXCEPT ![c][k] = read(store, txn[c], k)]
    BY <1>7 DEF Read
  <2>2. read(store, txn[c], k) \in Value \cup {None}
    <3>1. txn[c].snapshot \in Nat
      BY <1>2 DEF Transaction
    <3>2. visible_value(store, k, txn[c].snapshot) \in Option
      BY <1>2, <3>1, ValuesTyped
    <3> QED BY <1>7, <3>2 DEF read, Option
  <2> QED BY <1>5, <2>1, <2>2, Zenon DEF Serial!Read, Buffers, Buffer
<1> QED BY <1>6, <1>7

\* A write is an abstract write.
LEMMA WriteRefines ==
  ASSUME Inv, NEW c \in Client, NEW k \in Key, NEW v \in Value, Write(c, k, v)
  PROVE  Serial!Write(c, k, v)
<1>1. /\ txn[c] # Idle
      /\ txn' = [txn EXCEPT ![c] = write(txn[c], k, v)]
      /\ UNCHANGED <<store, seen>>
  BY DEF Write
<1>2. txn[c] \in Transaction /\ TypeOK
  BY <1>1, OpenFacts
<1>3. /\ write(txn[c], k, v) \in Transaction
      /\ write(txn[c], k, v).writes = [txn[c].writes EXCEPT ![k] = v]
  BY <1>2 DEF write, Transaction, Option
<1>4. /\ Buffer(txn'[c]) = [Buffer(txn[c]) EXCEPT ![k] = v]
      /\ \A d \in Client : d # c => Buffer(txn'[d]) = Buffer(txn[d])
  BY <1>1, <1>2, <1>3, IdleAssumption DEF TypeOK, Buffer
<1>5. Buffers' = [Buffers EXCEPT ![c][k] = v]
  BY <1>4, Zenon DEF Buffers
<1>6. UNCHANGED <<Committed, seen>>
  BY <1>1 DEF Committed
<1> QED BY <1>5, <1>6 DEF Serial!Write, Buffers, Buffer

\* A dropped transaction is an abstract abort.
LEMMA DropRefines ==
  ASSUME Inv, NEW c \in Client, Drop(c)
  PROVE  Serial!Abort(c)
<1>1. TypeOK /\ End(c) /\ UNCHANGED Committed
  BY DEF Inv, Drop, Committed
<1>2. seen' = [seen EXCEPT ![c] = [k \in Key |-> Unread]]
  BY <1>1 DEF End
<1>3. Buffers' = [Buffers EXCEPT ![c] = [k \in Key |-> None]]
  BY <1>1, EndFacts, Zenon DEF Buffers, Buffer
<1> QED BY <1>1, <1>2, <1>3 DEF Serial!Abort, Serial!End, Serial!Nothing, Buffers, Buffer

\* The store implements the serial one: the transactions that commit() accepts
\* are serializable in the order of their commits, whatever the clients do.
THEOREM Serializable == Spec => ImplementsSerialStore
<1>1. Init => Serial!Init
  <2> SUFFICES ASSUME Init PROVE Serial!Init
    OBVIOUS
  <2>1. \A k \in Key : latest(store, k) = None
    BY DEF Init, NewStore, latest
  <2> QED BY <2>1 DEF Init, Serial!Init, Serial!Nothing, Committed
<1>2. Inv /\ [Next]_vars => [Serial!Next]_(Serial!vars)
  <2> SUFFICES ASSUME Inv, [Next]_vars PROVE [Serial!Next]_(Serial!vars)
    OBVIOUS
  <2>1. UNCHANGED <<Committed, seen, Buffers>> => UNCHANGED Serial!vars
    BY DEF Serial!vars, Buffers, Buffer
  <2>2. CASE UNCHANGED vars
    BY <2>1, <2>2 DEF vars, Committed, Buffers
  <2>3. CASE Next
    <3>1. PICK c \in Client : \/ Begin(c) \/ Commit(c) \/ Drop(c)
                              \/ \E k \in Key : Read(c, k) \/ \E v \in Value : Write(c, k, v)
      BY <2>3 DEF Next
    <3>2. CASE Begin(c)
      BY <2>1, <3>2, BeginRefines
    <3>3. CASE Commit(c)
      BY <3>3, CommitRefines DEF Serial!Next
    <3>4. CASE Drop(c)
      BY <3>4, DropRefines DEF Serial!Next
    <3>5. ASSUME NEW k \in Key, Read(c, k) PROVE [Serial!Next]_(Serial!vars)
      BY <2>1, <3>5, ReadRefines DEF Serial!Next
    <3>6. ASSUME NEW k \in Key, NEW v \in Value, Write(c, k, v) PROVE Serial!Next
      BY <3>6, WriteRefines DEF Serial!Next
    <3> QED BY <3>1, <3>2, <3>3, <3>4, <3>5, <3>6
  <2> QED BY <2>2, <2>3
<1> QED BY <1>1, <1>2, Invariance, PTL DEF Spec, ImplementsSerialStore, Serial!Spec
=============================================================================
