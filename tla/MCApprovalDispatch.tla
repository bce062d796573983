------------------------- MODULE MCApprovalDispatch -------------------------
(* ApprovalDispatch instantiated for TLC: a spawn proposal, another tool   *)
(* and a retirement.                                                       *)
EXTENDS ApprovalDispatch, TLC

CONSTANTS t1, t2, t3
Tools == [t \in Tokens |-> IF t = t1 THEN "propose_spawn" ELSE "adjust_personality"]
(* The spawn steps of a kickoffer whose approvals carry no OAuth code *)
NoInstallSteps == SelectSeq(SpawnSteps, LAMBDA s : s # "oauth_install")
=============================================================================
