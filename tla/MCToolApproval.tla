--------------------------- MODULE MCToolApproval ---------------------------
(* ToolApproval instantiated for TLC. *)
EXTENDS ToolApproval, TLC
=============================================================================
