----------------------------- MODULE MCToolCalls ------------------------------
(* Values for the constants of ToolCalls. *)
EXTENDS ToolCalls

CONSTANTS c1
=============================================================================
