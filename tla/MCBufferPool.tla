---------------------------- MODULE MCBufferPool ----------------------------
(***************************************************************************)
(* The buffer pool with three blocks over two frames: every fetch of a     *)
(* third block has to evict.                                               *)
(***************************************************************************)
EXTENDS BufferPool, TLC

Symmetric == Permutations(Block)
=============================================================================
