--------------------------- MODULE MCToolRegistry ---------------------------
(* Two sources, the second one under git, that may both have the one tool;   *)
(* any two of two syncs and a direct recompute, the bus worker and a holder. *)
EXTENDS ToolRegistry, TLC

CONSTANTS t1, y1, y2, c1, h1
=============================================================================
