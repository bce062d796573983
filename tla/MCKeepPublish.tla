--------------------------- MODULE MCKeepPublish ---------------------------
(***************************************************************************)
(* KeepPublish instantiated for TLC: the rows are the org's, one           *)
(* connection is the org's, the other a user's that must see none of them. *)
(***************************************************************************)
EXTENDS KeepPublish, TLC

CONSTANTS c1, c2   \* the connections

OrgRows == [r \in Rows |-> "org"]
TwoScopes == [c \in Conns |-> IF c = c1 THEN "org" ELSE "user"]
=============================================================================
