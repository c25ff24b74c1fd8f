--------------------------- MODULE MCChunkRanges ---------------------------
(* An instance of ChunkRanges for TLC: every recording of up to MaxLen      *)
(* samples, twice the window and one over.                                 *)
EXTENDS ChunkRanges

CONSTANT MaxLen

AllRecordings == UNION {[1..n -> Sample] : n \in 0..MaxLen}
=============================================================================
