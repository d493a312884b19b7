------------------------------- MODULE MCMvcc -------------------------------
(***************************************************************************)
(* Two clients over two keys: enough for a lost update, a stale read and a *)
(* write skew; two commits, so that a chain of versions can grow while a   *)
(* transaction is open.                                                    *)
(***************************************************************************)
EXTENDS Mvcc

Symmetric == Permutations(Client) \cup Permutations(Key) \cup Permutations(Value)
=============================================================================
