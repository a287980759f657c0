--------------------------- MODULE MCChunkTransfers ---------------------------
(* Two texts, of three chunks and of four, that share two slots.              *)
EXTENDS ChunkTransfers, TLC

CONSTANTS short, long

Sizes == short :> 3 @@ long :> 4
===============================================================================
