----------------------------- MODULE MCEventBus -----------------------------
(***************************************************************************)
(* EventBus instantiated for TLC: one topic with a queue of one slot, two  *)
(* publishers, two subscribers and two Close calls that race.              *)
(***************************************************************************)
EXTENDS EventBus, TLC
=============================================================================
