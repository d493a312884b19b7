--------------------------- MODULE MCFileDatabase ---------------------------
(***************************************************************************)
(* The file database with two blocks over one frame: every put or get of   *)
(* the other block evicts, and two puts fill the sidecar log.              *)
(***************************************************************************)
EXTENDS FileDatabase, TLC

Symmetric == Permutations(Block)
=============================================================================
