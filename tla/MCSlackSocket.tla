---------------------------- MODULE MCSlackSocket ----------------------------
(* Two events, one of which carries no envelope id to acknowledge.          *)
EXTENDS SlackSocket

MCEvents == [e1 |-> "message", e2 |-> "noid"]
MCLimits == [t \in 1..4 |-> [burst |-> 1, sustained |-> 1, window |-> 1]]
=============================================================================
