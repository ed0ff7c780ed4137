----------------------------- MODULE MCReturns -----------------------------
(* Returns for TLC: one child, and one sweep after another. *)
EXTENDS Returns
CONSTANTS s1
=============================================================================
