-------------------------------- MODULE Wal --------------------------------
(***************************************************************************)
(* The write-ahead log of tpt-archon-core (wal.rs).  Log bytes are a       *)
(* sequence of records; Torn stands for bytes that WalRecord::decode       *)
(* rejects (short, bad magic or bad checksum), where replay stops.         *)
(***************************************************************************)
EXTENDS BlockDevice, Sequences, FiniteSetsExt

CONSTANT Torn  \* the rest of a record that did not reach the log whole

RecordKind == {"PageWrite", "Commit", "Checkpoint"}

WalRecord == [lsn : Nat, kind : RecordKind, block : Block \cup {NoBlock}, page : Page]

ASSUME TornAssumption == Torn \notin WalRecord

\* The empty log; its first record gets LSN 0.
NewWal == [bytes |-> <<>>, next_lsn |-> 0]

append(w, kind, b, pg) ==
  [bytes |-> Append(w.bytes, [lsn |-> w.next_lsn, kind |-> kind, block |-> b, page |-> pg]),
   next_lsn |-> w.next_lsn + 1]

truncate_keeps_lsn(w, len, lsn) == [w EXCEPT !.bytes = SubSeq(@, 1, len)]
truncate_nothing(w, len, lsn) == w
\* Keep the first len records and restore the LSN counter.
truncate(w, len, lsn) == [bytes |-> SubSeq(w.bytes, 1, len), next_lsn |-> lsn]

\* The records before the first one that does not decode.
Intact(bytes) ==
  SubSeq(bytes, 1, Min({k \in 1..(Len(bytes) + 1) :
                            k = Len(bytes) + 1 \/ bytes[k] = Torn}) - 1)

from_bytes_repeats_lsn(bytes) ==
  LET good == Intact(bytes) IN
  [bytes |-> good, next_lsn |-> IF good = <<>> THEN 0 ELSE good[Len(good)].lsn]
from_bytes(bytes) ==
  LET good == Intact(bytes) IN
  [bytes |-> good,
   next_lsn |-> IF good = <<>> THEN 0 ELSE good[Len(good)].lsn + 1]

-----------------------------------------------------------------------------
\* replay surfaces record k: no record up to k is torn.
Surfaced(bytes, k) == \A j \in 1..k : bytes[j] # Torn

IsCommit(rec) == rec.kind \in {"Commit", "Checkpoint"}

\* A commit marker after record k is surfaced.
Covered(bytes, k) ==
  \E c \in (k + 1)..Len(bytes) : Surfaced(bytes, c) /\ IsCommit(bytes[c])

\* The page writes that recovery applies, and those of them to block b; the
\* writes that no commit marker covers.
Committed(bytes) == {k \in DOMAIN bytes :
  Covered(bytes, k) /\ bytes[k].kind = "PageWrite"}
CommittedTo(bytes, b) == {k \in DOMAIN bytes :
  Covered(bytes, k) /\ bytes[k].kind = "PageWrite" /\ bytes[k].block = b}
Uncommitted(bytes) == {k \in DOMAIN bytes :
  Surfaced(bytes, k) /\ bytes[k].kind = "PageWrite" /\ ~Covered(bytes, k)}
=============================================================================
