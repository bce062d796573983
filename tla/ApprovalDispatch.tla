-------------------------- MODULE ApprovalDispatch --------------------------
(***************************************************************************)
(* The Slack approval dispatcher composed with the spawn saga: a pending   *)
(* approval is inserted, card clicks are resolved by a compare-and-set,    *)
(* and an approved proposal kicks a saga off (or replays another tool).    *)
(*   core/pkg/messenger/slack/inbound/approval/dispatcher.go               *)
(*   core/pkg/spawn/pending_approval_memory.go                             *)
(*                                                                         *)
(* A click is handled by the call of the same name: DispatchInteraction    *)
(* runs Kickoff on its own goroutine and waits for it.                     *)
(***************************************************************************)
EXTENDS SpawnSaga

CONSTANTS
  ToolOf,       \* the tool each approval token was issued for
  RetireTokens  \* tokens handed to the retire kickoffer

ASSUME RetireTokensAssumption == RetireTokens \subseteq Tokens

VARIABLES
  approvals,  \* pending_approvals: state of each token's row
  click,      \* each DispatchInteraction: pc, token, decision
  replays     \* history: <<token, click>> handed to the Replayer

dispVars == <<approvals, click, replays>>
vars == <<sagaVars, dispVars>>

Init ==
  /\ SagaInit
  /\ approvals = [t \in Tokens |-> "absent"]
  /\ click = [c \in Calls |-> [pc |-> "idle", token |-> None, decision |-> "none"]]
  /\ replays = {}

ClickAt(c, pc) == click[c].pc = pc
ClickGoto(c, pc) == click' = [click EXCEPT ![c].pc = pc]

Insert(t) ==   \* a privileged tool asks for approval and posts the card
  /\ approvals[t] = "absent"
  /\ approvals' = [approvals EXCEPT ![t] = "pending"]
  /\ UNCHANGED <<sagaVars, click, replays>>

(* A click on the card, from any device, again after any outcome: the      *)
(* action id and the button decode, and the received row is appended.      *)
DispatchInteraction(c, t, decision) ==
  /\ ClickAt(c, "idle") /\ At(c, "idle") /\ approvals[t] # "absent"
  /\ click' = [click EXCEPT ![c] = [pc |-> "resolve", token |-> t,
                                    decision |-> decision]]
  /\ UNCHANGED <<sagaVars, approvals, replays>>

BugResolveAlways(c) ==   \* the last click wins
  /\ ClickAt(c, "resolve")
  /\ approvals' = [approvals EXCEPT ![click[c].token] = click[c].decision]
  /\ ClickGoto(c, IF click[c].decision = "approved" THEN "route" ELSE "done")
  /\ UNCHANGED <<sagaVars, replays>>

(* Resolve: pending to the decision, under the store's mutex; anything     *)
(* else is stale.  A rejection ends there.                                 *)
Resolve(c) ==
  LET t == click[c].token  d == click[c].decision IN
  /\ ClickAt(c, "resolve")
  /\ IF approvals[t] = "pending"
       THEN /\ approvals' = [approvals EXCEPT ![t] = d]
            /\ ClickGoto(c, IF d = "approved" THEN "route" ELSE "done")
       ELSE /\ ClickGoto(c, "stale")
            /\ UNCHANGED approvals
  /\ UNCHANGED <<sagaVars, replays>>

(* A spawn proposal whose claim resolves is kicked off; no failure from    *)
(* here on takes the resolution back.                                      *)
RouteSpawn(c) ==
  /\ ClickAt(c, "route") /\ ToolOf[click[c].token] = "propose_spawn"
  /\ \/ /\ ClickGoto(c, "wait") /\ Kickoff(c, click[c].token)
     \/ /\ ClickGoto(c, "done") /\ UNCHANGED sagaVars   \* params or claim
  /\ UNCHANGED <<approvals, replays>>

RouteReplay(c) ==   \* any other tool
  /\ ClickAt(c, "route") /\ ToolOf[click[c].token] # "propose_spawn"
  /\ replays' = replays \cup {<<click[c].token, c>>}
  /\ ClickGoto(c, "done")
  /\ UNCHANGED <<sagaVars, approvals>>

KickoffReturns(c) ==   \* replay_succeeded or replay_failed is appended
  /\ ClickAt(c, "wait") /\ Returned(c)
  /\ ClickGoto(c, "done")
  /\ UNCHANGED <<sagaVars, approvals, replays>>

Saga(c) == SagaStep(c) /\ UNCHANGED dispVars

(* Sagas that do not come from a card: Runner.Run at any time, and the     *)
(* retire kickoffer, which nothing calls yet and whose caller is taken to  *)
(* retry only after an answer.                                             *)
DirectRun(c) ==
  /\ ClickAt(c, "idle")
  /\ \E kind \in {"operator", "retire"} : RunDirect(c, kind)
  /\ UNCHANGED dispVars

Retire(c, t) ==
  /\ ClickAt(c, "idle")
  /\ \A d \in Calls : call[d].token = t => Returned(d)
  /\ RetireKickoff(c, t)
  /\ UNCHANGED dispVars

Handler(c) ==
  Resolve(c) \/ RouteSpawn(c) \/ RouteReplay(c) \/ KickoffReturns(c) \/ Saga(c)

Next ==
  \/ \E t \in Tokens \ RetireTokens : Insert(t)
  \/ \E c \in Calls : Handler(c) \/ DirectRun(c)
  \/ \E c \in Calls, t \in RetireTokens : Retire(c, t)
  \/ \E c \in Calls, t \in Tokens, d \in {"approved", "rejected"} :
       DispatchInteraction(c, t, d)

Spec == Init /\ [][Next]_vars

(* A handler that has begun runs to its end; people owe no clicks. *)
FairSpec == Spec /\ \A c \in Calls : WF_vars(Handler(c))

-----------------------------------------------------------------------------
TypeOK ==
  /\ SagaTypeOK
  /\ approvals \in [Tokens -> {"absent", "pending", "approved", "rejected"}]
  /\ \A c \in Calls : click[c].pc \in {"idle", "resolve", "route", "wait", "done", "stale"}

(* dispatcher.go: however many people click, and however the clicks        *)
(* interleave, at most one of them acts on a token, and none if the token  *)
(* was rejected.                                                           *)
ActedOnOnce ==
  \A t \in Tokens \ RetireTokens :
    LET acting == {c \in Calls : call[c].token = t \/ <<t, c>> \in replays} IN
    /\ Cardinality(acting) <= 1
    /\ acting # {} => approvals[t] = "approved"

(* saga.go Run: a saga that started ends, completed  *)
(* or failed, even when steps, clean-ups and audit appends fail.           *)
StartedSagaEnds ==
  \A s \in Calls : status[s] = "in_flight" ~> status[s] \in {"completed", "failed"}

(* dispatcher.go and spawnkickoff.go together: of all the clicks, retries  *)
(* and direct runs of one approval, one acts on it and each step of its    *)
(* saga is executed by one call.                                           *)
DecidedAndRunOnce == TypeOK /\ ActedOnOnce /\ ExecutedOnce
=============================================================================
