---------------------------- MODULE MCToolCall ----------------------------
(* Instances of ToolCall for TLC.                                          *)
EXTENDS ToolCall
=============================================================================
