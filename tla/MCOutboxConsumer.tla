-------------------------- MODULE MCOutboxConsumer --------------------------
(* OutboxConsumer instantiated for TLC. *)
EXTENDS OutboxConsumer, TLC

CONSTANTS e1, e2, e3, e4, p1, p2
=============================================================================
