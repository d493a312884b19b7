-------------------------------- MODULE Mvcc --------------------------------
(***************************************************************************)
(* One MvccStore (mvcc.rs) and the clients whose transactions are open on  *)
(* it at the same time.  Calls do not overlap (&mut self), transactions    *)
(* do.                                                                     *)
(***************************************************************************)
EXTENDS MvccOps

CONSTANTS
  Client,
  Idle,     \* a client without a transaction
  Unread,   \* a key that a transaction has not read
  MaxClock  \* bound on the commits

ASSUME IdleAssumption == Idle \notin Transaction
ASSUME UnreadAssumption == Unread \notin Option
ASSUME MaxClockAssumption == MaxClock \in Nat

VARIABLES
  store,  \* the store
  txn,    \* for every client its transaction, or Idle
  \* The rest is history: the code has none of it.
  begun,  \* the committed values when the client's transaction began
  seen,   \* what the transaction has read from the store
  since   \* the keys that others have committed since it began

vars == <<store, txn, begun, seen, since>>

Committed == [k \in Key |-> latest(store, k)]

Init == /\ store = NewStore
        /\ txn = [c \in Client |-> Idle]
        /\ begun = [c \in Client |-> [k \in Key |-> None]]
        /\ seen = [c \in Client |-> [k \in Key |-> Unread]]
        /\ since = [c \in Client |-> {}]

Begin(c) ==
  /\ txn[c] = Idle
  /\ txn' = [txn EXCEPT ![c] = begin(store)]
  /\ begun' = [begun EXCEPT ![c] = Committed]
  /\ UNCHANGED <<store, seen, since>>

Read(c, k) ==
  /\ txn[c] # Idle
  /\ txn' = [txn EXCEPT ![c] = Reading(@, k)]
  /\ seen' = IF txn[c].writes[k] # None THEN seen
             ELSE [seen EXCEPT ![c][k] = read(store, txn[c], k)]
  /\ UNCHANGED <<store, begun, since>>

Write(c, k, v) ==
  /\ txn[c] # Idle
  /\ txn' = [txn EXCEPT ![c] = write(@, k, v)]
  /\ UNCHANGED <<store, begun, seen, since>>

End(c) ==
  /\ txn' = [txn EXCEPT ![c] = Idle]
  /\ begun' = [begun EXCEPT ![c] = [k \in Key |-> None]]
  /\ seen' = [seen EXCEPT ![c] = [k \in Key |-> Unread]]

\* The transaction is consumed, whether it commits or conflicts.
Commit(c) ==
  /\ txn[c] # Idle
  /\ store.clock < MaxClock
  /\ IF Validates(store, txn[c])
     THEN /\ store' = commit(store, txn[c])
          /\ since' = [d \in Client |-> IF d = c \/ txn[d] = Idle THEN {}
                                        ELSE since[d] \cup Written(txn[c])]
     ELSE /\ since' = [since EXCEPT ![c] = {}]
          /\ UNCHANGED store
  /\ End(c)

\* The transaction is dropped without a commit (ROLLBACK).
Drop(c) ==
  /\ txn[c] # Idle
  /\ since' = [since EXCEPT ![c] = {}]
  /\ UNCHANGED store
  /\ End(c)

Next == \E c \in Client :
  \/ Begin(c) \/ Commit(c) \/ Drop(c)
  \/ \E k \in Key : Read(c, k) \/ \E v \in Value : Write(c, k, v)

Spec == Init /\ [][Next]_vars

-----------------------------------------------------------------------------
\* Types of the state; the versions of a key are in the order of their commit
\* timestamps, none of them later than the clock.
TypeOK ==
  /\ store \in MvccStore
  /\ \A k \in Key : \A i, j \in DOMAIN store.versions[k] :
       /\ store.versions[k][i].commit_ts <= store.clock
       /\ i < j => store.versions[k][i].commit_ts < store.versions[k][j].commit_ts
  /\ txn \in [Client -> Transaction \cup {Idle}]
  /\ begun \in [Client -> [Key -> Option]]
  /\ seen \in [Client -> [Key -> Option \cup {Unread}]]
  /\ since \in [Client -> SUBSET Key]

\* All that a transaction reads from the store, at whatever time and whatever
\* has been committed meanwhile, is the state in which it began.
OneSnapshot ==
  \A c \in Client, k \in Key :
    txn[c] # Idle /\ seen[c][k] # Unread => seen[c][k] = begun[c][k]

\* A commit is refused exactly when another transaction has committed a key
\* that this one read or wrote since this one began: the first committer wins,
\* and no transaction is refused without a reason.
ConflictIsExact ==
  \A c \in Client : txn[c] # Idle =>
    (Validates(store, txn[c]) <=>
       since[c] \cap (txn[c].reads \cup Written(txn[c])) = {})

\* The transactions that commit are serializable in the order of their commits.
Serial == INSTANCE SerialStore
  WITH db <- Committed,
       buf <- [c \in Client |-> IF txn[c] = Idle THEN [k \in Key |-> None]
                                                 ELSE txn[c].writes]
ImplementsSerialStore == Serial!Spec
=============================================================================
