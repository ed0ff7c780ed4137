---------------------------- MODULE MCToolWindow ----------------------------
(* ToolWindow for TLC: the bounds are in the .cfg files. *)
EXTENDS ToolWindow
=============================================================================
