------------------------------ MODULE MvccOps ------------------------------
(***************************************************************************)
(* The multi-version store of tpt-archon-relational (mvcc.rs) as a data    *)
(* type: a store is a chain of versions per key and a clock, a transaction *)
(* is a snapshot with its read set and its buffered writes, and every      *)
(* method of MvccStore is an operator on them.                             *)
(***************************************************************************)
EXTENDS Naturals, SequencesExt

CONSTANTS
  Key,    \* row ids
  Value,  \* row images, the tombstone of a deleted row among them
  None    \* Option::None

ASSUME NoneAssumption == None \notin Value

Option == Value \cup {None}

Version == [commit_ts : Nat, value : Value]
MvccStore == [versions : [Key -> Seq(Version)], clock : Nat]

\* `committed` is left out: commit consumes the transaction and nothing reads
\* the flag.  Only membership in the list of reads matters.
Transaction == [snapshot : Nat, reads : SUBSET Key, writes : [Key -> Option]]

NewStore == [versions |-> [k \in Key |-> <<>>], clock |-> 0]

begin(s) == [snapshot |-> s.clock, reads |-> {}, writes |-> [k \in Key |-> None]]

\* The versions of key k that a snapshot taken at as_of may see.
VisibleAt(s, k, as_of) ==
  {i \in DOMAIN s.versions[k] : s.versions[k][i].commit_ts <= as_of}

visible_value_newest(s, k, as_of) ==
  IF s.versions[k] = <<>> THEN None ELSE Last(s.versions[k]).value
visible_value(s, k, as_of) ==
  IF VisibleAt(s, k, as_of) = {} THEN None
  ELSE s.versions[k][Max(VisibleAt(s, k, as_of))].value

\* What a read of k returns, and the transaction it leaves behind.
read(s, t, k) ==
  IF t.writes[k] # None THEN t.writes[k] ELSE visible_value(s, k, t.snapshot)
Reading_unrecorded(t, k) == t
Reading(t, k) == [t EXCEPT !.reads = @ \cup {k}]

write(t, k, v) == [t EXCEPT !.writes[k] = v]

Written(t) == {k \in Key : t.writes[k] # None}

latest(s, k) == IF s.versions[k] = <<>> THEN None ELSE Last(s.versions[k]).value

\* latest_commit_ts of k is after the snapshot of t.
Newer_or_equal(s, t, k) ==
  s.versions[k] # <<>> /\ Last(s.versions[k]).commit_ts >= t.snapshot
Newer(s, t, k) ==
  s.versions[k] # <<>> /\ Last(s.versions[k]).commit_ts > t.snapshot

\* The validation of commit.
Validates(s, t) == \A k \in t.reads \cup Written(t) : ~Newer(s, t, k)

commit_clock_stands(s, t) ==
  [s EXCEPT !.versions = [k \in Key |->
     IF k \in Written(t)
     THEN Append(s.versions[k], [commit_ts |-> s.clock + 1, value |-> t.writes[k]])
     ELSE s.versions[k]]]
\* The store after the commit of a transaction that validates.
commit(s, t) ==
  [clock |-> s.clock + 1,
   versions |-> [k \in Key |->
     IF k \in Written(t)
     THEN Append(s.versions[k], [commit_ts |-> s.clock + 1, value |-> t.writes[k]])
     ELSE s.versions[k]]]
=============================================================================
