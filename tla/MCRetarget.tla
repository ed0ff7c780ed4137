----------------------------- MODULE MCRetarget -----------------------------
(***************************************************************************)
(* Instances of Authoring and Retarget for TLC.  The properties say        *)
(* nothing of what follows once an act has crossed another, and crossed is *)
(* never reset: TLC does not go on from there.                             *)
(***************************************************************************)
EXTENDS Retarget
CONSTANTS default, plan, a, b, r, operator

MCSpec == Init /\ [][~crossed /\ Next]_vars
=============================================================================
