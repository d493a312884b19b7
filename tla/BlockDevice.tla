---------------------------- MODULE BlockDevice ----------------------------
(***************************************************************************)
(* Fixed-size blocks that hold checksummed page images (block/mod.rs,      *)
(* block/memory.rs, block/file.rs and the block codec of page.rs).         *)
(*                                                                         *)
(* A device is a function from blocks to their content: a page image, or   *)
(* Corrupt when decode_block rejects the checksum (a torn write).          *)
(***************************************************************************)
EXTENDS Naturals

CONSTANTS
  Block,    \* block ids in bounds of the device
  Page,     \* page images
  Zeroed,   \* the image of a page of zeros, Page::zeroed()
  NoBlock,  \* BlockId::MAX, an id out of bounds of every device
  Corrupt   \* the content of a block that fails decode_block

ASSUME ZeroedAssumption == Zeroed \in Page
ASSUME NoBlockAssumption == NoBlock \notin Block
ASSUME CorruptAssumption == Corrupt \notin Page

Content == Page \cup {Corrupt}
Device == [Block -> Content]

\* How one call of the device may end.  A failed read changes nothing, a
\* failed write may leave the block torn.
ReadOutcome == {"ok", "err"}
WriteOutcome == {"ok", "err", "torn"}

\* The device after one write_block of image pg to block b.
write_block(device, b, pg, wr) ==
  CASE wr = "ok"   -> [device EXCEPT ![b] = pg]
    [] wr = "torn" -> [device EXCEPT ![b] = Corrupt]
    [] OTHER       -> device
=============================================================================
