--------------------------- MODULE MCCompaction ---------------------------
(* Compaction on small instances; the sizes are given in each configuration. *)
EXTENDS Compaction
=============================================================================
