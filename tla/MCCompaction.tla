-------------------------- MODULE MCCompaction --------------------------
(* Compaction for TLC: numbers and sets of strings are all it needs. *)
EXTENDS Compaction
=============================================================================
