--------------------------- MODULE SequenceLemmas ---------------------------
(***************************************************************************)
(* Facts about the library operators that the pool is built from: least    *)
(* and greatest elements of sets of naturals, and removing from and        *)
(* appending to a sequence without repetitions.                            *)
(***************************************************************************)
EXTENDS Naturals, Sequences, FiniteSetsExt, Functions, SequenceTheorems, FiniteSetTheorems, TLAPS

\* A non-empty set of naturals has a least element, and Min returns it.
LEMMA MinOfNats ==
  ASSUME NEW S, S \subseteq Nat, S # {}
  PROVE  Min(S) \in S /\ \A j \in S : Min(S) <= j
<1> DEFINE T == {0..i : i \in S}
<1>1. \A i \in S : IsFiniteSet(0..i) /\ 0..i \subseteq Nat
  BY FS_Interval
<1>2. T \subseteq FiniteSubsetsOf(Nat)
  BY <1>1 DEF FiniteSubsetsOf
<1>3. T # {}
  BY Zenon
<1>4. \E x \in T : \A y \in T : ~ (<<y, x>> \in StrictSubsetOrdering(Nat))
  <2> HIDE DEF T
  <2> QED BY <1>2, <1>3, FS_StrictSubsetOrderingWellFounded, WFMin
<1>5. PICK i \in S : \A j \in S : <<0..j, 0..i>> \notin StrictSubsetOrdering(Nat)
  BY <1>4, Zenon
<1>6. \A j \in S : i <= j
  <2> SUFFICES ASSUME NEW j \in S, j < i PROVE FALSE
    OBVIOUS
  <2>1. i \in 0..i /\ i \notin 0..j /\ 0..j \subseteq 0..i /\ 0..i \subseteq Nat
    OBVIOUS
  <2> QED BY <2>1, <1>5, Zenon DEF StrictSubsetOrdering
<1> QED BY <1>6, Zenon DEF Min

\* A non-empty bounded set of naturals has a greatest one, and Max returns it.
LEMMA MaxOfBounded ==
  ASSUME NEW n \in Nat, NEW S, S \subseteq 0..n, S # {}
  PROVE  Max(S) \in S /\ \A j \in S : j <= Max(S)
<1> DEFINE D == {n - i : i \in S}
<1>1. D # {}
  OBVIOUS
<1>2. D \subseteq Nat
  <2> SUFFICES ASSUME NEW i \in S PROVE n - i \in Nat
    OBVIOUS
  <2>1. i \in 0..n
    OBVIOUS
  <2> QED BY <2>1
<1>3. Min(D) \in D /\ \A j \in D : Min(D) <= j
  <2> HIDE DEF D
  <2> QED BY <1>1, <1>2, MinOfNats, Zenon
<1>4. PICK i \in S : Min(D) = n - i
  BY <1>3, Zenon
<1>5. \A j \in S : j <= i
  <2> TAKE j \in S
  <2>1. n - j \in D
    OBVIOUS
  <2>2. n - i <= n - j
    BY <2>1, <1>3, <1>4, Zenon
  <2> QED BY <2>2
<1> QED BY <1>5, Zenon DEF Max

\* Cutting position i out of a sequence shifts what follows it.
LEMMA CutProperties ==
  ASSUME NEW T, NEW s \in Seq(T), NEW i \in 1..Len(s)
  PROVE  LET r == SubSeq(s, 1, i - 1) \o SubSeq(s, i + 1, Len(s)) IN
         /\ r \in Seq(T)
         /\ Len(r) = Len(s) - 1
         /\ \A k \in 1..(Len(s) - 1) : r[k] = IF k < i THEN s[k] ELSE s[k + 1]
<1> DEFINE a == SubSeq(s, 1, i - 1)
           c == SubSeq(s, i + 1, Len(s))
<1>0. Len(s) \in Nat /\ i \in Int /\ i - 1 \in Int /\ i + 1 \in Int /\ \A k \in 1..Len(s) : s[k] \in T
  BY LenProperties, ElementOfSeq
<1>1. a \in Seq(T) /\ Len(a) = i - 1 /\ \A k \in 1..(i - 1) : a[k] = s[k]
  <2>1. \A k \in 1..(i - 1) : s[k] \in T
    BY <1>0
  <2>2. /\ a \in Seq(T)
        /\ Len(a) = IF 1 <= i - 1 THEN (i - 1) - 1 + 1 ELSE 0
        /\ \A k \in 1..((i - 1) - 1 + 1) : a[k] = s[1 + k - 1]
    BY <2>1, <1>0, SubSeqProperties
  <2> QED BY <2>2, <1>0
<1>2. c \in Seq(T) /\ Len(c) = Len(s) - i /\ \A k \in 1..(Len(s) - i) : c[k] = s[i + k]
  <2>1. \A k \in (i + 1)..Len(s) : s[k] \in T
    BY <1>0
  <2>2. /\ c \in Seq(T)
        /\ Len(c) = IF i + 1 <= Len(s) THEN Len(s) - (i + 1) + 1 ELSE 0
        /\ \A k \in 1..(Len(s) - (i + 1) + 1) : c[k] = s[(i + 1) + k - 1]
    BY <2>1, <1>0, SubSeqProperties
  <2> QED BY <2>2, <1>0
<1> HIDE DEF a, c
<1>3. /\ a \o c \in Seq(T)
      /\ Len(a \o c) = Len(a) + Len(c)
      /\ \A k \in 1..(Len(a) + Len(c)) :
           (a \o c)[k] = IF k <= Len(a) THEN a[k] ELSE c[k - Len(a)]
  BY <1>1, <1>2, ConcatProperties, Zenon
<1>4. ASSUME NEW k \in 1..(Len(s) - 1)
      PROVE  (a \o c)[k] = IF k < i THEN s[k] ELSE s[k + 1]
  <2>1. CASE k < i
    BY <2>1, <1>0, <1>1, <1>2, <1>3
  <2>2. CASE ~(k < i)
    <3>1. (a \o c)[k] = c[k - (i - 1)]
      BY <2>2, <1>0, <1>1, <1>2, <1>3
    <3>2. k - (i - 1) \in 1..(Len(s) - i)
      BY <2>2, <1>0
    <3>3. c[k - (i - 1)] = s[i + (k - (i - 1))]
      BY <3>2, <1>2
    <3> QED BY <3>1, <3>3, <2>2, <1>0
  <2> QED BY <2>1, <2>2, Zenon
<1>5. Len(a \o c) = Len(s) - 1
  BY <1>0, <1>1, <1>2, <1>3
<1> QED BY <1>3, <1>4, <1>5 DEF a, c

\* Appending a new element to an injective sequence.
LEMMA AppendFresh ==
  ASSUME NEW s \in Seq(Nat), IsInjective(s), NEW i \in Nat, i \notin Range(s)
  PROVE  /\ Append(s, i) \in Seq(Nat)
         /\ IsInjective(Append(s, i))
         /\ Range(Append(s, i)) = Range(s) \cup {i}
<1> DEFINE a == Append(s, i)
<1>1. /\ a \in Seq(Nat)
      /\ Len(s) \in Nat
      /\ Len(a) = Len(s) + 1
      /\ DOMAIN a = 1..(Len(s) + 1)
      /\ DOMAIN s = 1..Len(s)
      /\ \A k \in 1..Len(s) : a[k] = s[k]
      /\ a[Len(s) + 1] = i
  BY AppendProperties, LenProperties
<1>0. Append(s, i) = a
  OBVIOUS
<1> HIDE DEF a
<1>2. \A k \in 1..Len(s) : s[k] # i
  BY <1>1, Zenon DEF Range
<1>3. IsInjective(a)
  <2> SUFFICES ASSUME NEW k \in DOMAIN a, NEW l \in DOMAIN a, a[k] = a[l] PROVE k = l
    BY DEF IsInjective
  <2>1. k \in 1..Len(s) \/ k = Len(s) + 1
    BY <1>1
  <2>2. l \in 1..Len(s) \/ l = Len(s) + 1
    BY <1>1
  <2> QED BY <2>1, <2>2, <1>1, <1>2 DEF IsInjective
<1>4. Range(a) \subseteq Range(s) \cup {i}
  <2> SUFFICES ASSUME NEW k \in DOMAIN a PROVE a[k] \in Range(s) \cup {i}
    BY DEF Range
  <2>1. k \in 1..Len(s) \/ k = Len(s) + 1
    BY <1>1
  <2> QED BY <2>1, <1>1 DEF Range
<1>5. Range(s) \cup {i} \subseteq Range(a)
  <2>1. \A k \in 1..Len(s) : k \in DOMAIN a
    BY <1>1
  <2>2. Len(s) + 1 \in DOMAIN a
    BY <1>1
  <2> QED BY <2>1, <2>2, <1>1 DEF Range
<1>6. Range(a) = Range(s) \cup {i}
  BY <1>4, <1>5, Zenon
<1>7. a \in Seq(Nat)
  BY <1>1
<1> QED BY <1>0, <1>3, <1>6, <1>7, Zenon
=============================================================================
