------------------------------ MODULE MCGate ------------------------------
(* Instances of Gate for TLC; the constants are given values in the cfg.   *)
EXTENDS Gate

=============================================================================
