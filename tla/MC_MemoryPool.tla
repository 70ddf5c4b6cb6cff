--------------------------- MODULE MC_MemoryPool -----------------------------
(* A pool of three blocks: one of two units and blocks of GrowUnitNum.     *)
EXTENDS MemoryPool

CONSTANTS b0, b1, b2
MCBlocks == {b0, b1, b2}
==============================================================================
