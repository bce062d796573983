--------------------------- MODULE OneShotDecision ---------------------------
(***************************************************************************)
(* What the approval paths promise about a proposed tool: it is approved   *)
(* or rejected at most once, and the outcome never changes.                *)
(*   core/pkg/approval/proposalstore.go, the DecisionRecorder contract     *)
(***************************************************************************)
CONSTANTS Proposals, Kinds, Undecided

VARIABLE outcome   \* the announced outcome of each proposal

Init == outcome = [p \in Proposals |-> Undecided]

Decide(p, k) ==
  /\ outcome[p] = Undecided
  /\ outcome' = [outcome EXCEPT ![p] = k]

Next == \E p \in Proposals, k \in Kinds : Decide(p, k)

Spec == Init /\ [][Next]_outcome
=============================================================================
