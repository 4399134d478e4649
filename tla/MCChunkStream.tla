---------------------------- MODULE MCChunkStream ----------------------------
(* Model-checking instance of ChunkStream; the constants are in the cfg.     *)
EXTENDS ChunkStream
=============================================================================
