---------------------------- MODULE SerialStore ----------------------------
(***************************************************************************)
(* What serializable transactions promise: those that commit could have    *)
(* run one after the other, at the instants of their commits.  Until then  *)
(* a transaction may read anything; it commits only if what it read is     *)
(* what the store holds now.                                               *)
(***************************************************************************)
CONSTANTS Client, Key, Value, None, Unread

VARIABLES
  db,    \* the committed value of every key
  seen,  \* what each client's transaction has read from the store
  buf    \* what it has written, not committed yet

vars == <<db, seen, buf>>

Nothing(x) == [k \in Key |-> x]

Init == /\ db = Nothing(None)
        /\ seen = [c \in Client |-> Nothing(Unread)]
        /\ buf = [c \in Client |-> Nothing(None)]

Read(c, k) == /\ \E v \in Value \cup {None} : seen' = [seen EXCEPT ![c][k] = v]
              /\ UNCHANGED <<db, buf>>

Write(c, k, v) == /\ buf' = [buf EXCEPT ![c][k] = v]
                  /\ UNCHANGED <<db, seen>>

End(c) == /\ seen' = [seen EXCEPT ![c] = Nothing(Unread)]
          /\ buf' = [buf EXCEPT ![c] = Nothing(None)]

Commit(c) == /\ \A k \in Key : seen[c][k] \in {Unread, db[k]}
             /\ db' = [k \in Key |-> IF buf[c][k] = None THEN db[k] ELSE buf[c][k]]
             /\ End(c)

Abort(c) == End(c) /\ UNCHANGED db

Next == \E c \in Client :
  \/ \E k \in Key : Read(c, k) \/ \E v \in Value : Write(c, k, v)
  \/ Commit(c)
  \/ Abort(c)

Spec == Init /\ [][Next]_vars
=============================================================================
