-------------------------- MODULE MCStorageEngine --------------------------
(***************************************************************************)
(* The storage engine with three blocks over two frames: a batch can fill  *)
(* the pool with uncommitted pages, which may not be evicted.              *)
(***************************************************************************)
EXTENDS StorageEngine, TLC

Symmetric == Permutations(Block)
=============================================================================
