---------------------------- MODULE ToolApproval ----------------------------
(***************************************************************************)
(* Decisions on proposed tools.  They arrive as git-PR webhook deliveries  *)
(* and as clicks on the lead's Slack card, may be repeated and may         *)
(* disagree; each is handled on a goroutine of its own, and they meet in   *)
(* the decision store.                                                     *)
(*   core/pkg/approval/proposalstore.go, webhook.go, callbacks.go          *)
(*                                                                         *)
(* Requests that fail authentication or decoding change nothing and are    *)
(* left out.  The tool-source registry and the bus publish are external:   *)
(* each call succeeds or fails.                                            *)
(***************************************************************************)
EXTENDS Naturals, FiniteSets

CONSTANTS
  Proposals,   \* proposed tools
  Requests     \* deliveries and clicks

Kinds == {"approved", "rejected"}
Routes == {"webhook", "slack"}

VARIABLES
  recorded,   \* proposals in the store
  decisions,  \* the store's claim on each proposal, or "none"
  pc,         \* where each request's handler is, or its answer
  on,         \* the proposal a request is about
  kind,       \* the decision it carries
  route,      \* how it came
  synced,     \* SyncOnce succeeded for it
  events      \* terminal events published: <<proposal, kind, request>>

reqVars == <<on, kind, route>>
approvalVars == <<recorded, decisions, pc, reqVars, synced, events>>

Holding == {"source", "sync", "publish"}
Answers == {"ok", "accepted", "duplicate", "conflict", "not_found", "failed", "asked"}

ApprovalInit ==
  /\ recorded = {} /\ events = {}
  /\ decisions = [p \in Proposals |-> "none"]
  /\ pc = [r \in Requests |-> "idle"]
  /\ on \in [Requests -> Proposals]
  /\ kind \in [Requests -> Kinds]
  /\ route \in [Requests -> Routes]
  /\ synced = [r \in Requests |-> TRUE]

Goto(r, to) == pc' = [pc EXCEPT ![r] = to]

Record(p) ==
  /\ p \notin recorded /\ recorded' = recorded \cup {p}
  /\ UNCHANGED <<decisions, pc, reqVars, synced, events>>

(* An authenticated, well-formed request looks its proposal up *)
Receive(r) ==
  /\ pc[r] = "idle"
  /\ Goto(r, IF on[r] \in recorded THEN "mark" ELSE "not_found")
  /\ UNCHANGED <<recorded, decisions, reqVars, synced, events>>

(* Test-in-DM and ask-questions clicks publish without touching the claim *)
Inquire(r) ==
  /\ pc[r] = "idle" /\ route[r] = "slack" /\ on[r] \in recorded
  /\ Goto(r, "asked")
  /\ UNCHANGED <<recorded, decisions, reqVars, synced, events>>

(* The caller gave up, or no correlation id could be made, before the claim *)
GiveUp(r) ==
  /\ pc[r] = "mark"
  /\ Goto(r, "failed")
  /\ UNCHANGED <<recorded, decisions, reqVars, synced, events>>

BugLastWins(r) ==   \* a claim of the other kind is overwritten
  /\ pc[r] = "mark"
  /\ IF decisions[on[r]] = kind[r]
       THEN Goto(r, "duplicate") /\ UNCHANGED decisions
       ELSE /\ decisions' = [decisions EXCEPT ![on[r]] = kind[r]]
            /\ Goto(r, "publish")
  /\ UNCHANGED <<recorded, reqVars, synced, events>>

(* The claim, atomic under the store's mutex.  Its first holder goes on to *)
(* publish; an approval by webhook maps and syncs the tool's source first. *)
MarkDecided(r) ==
  LET prior == decisions[on[r]] IN
  /\ pc[r] = "mark"
  /\ IF prior = "none"
       THEN /\ decisions' = [decisions EXCEPT ![on[r]] = kind[r]]
            /\ Goto(r, IF route[r] = "webhook" /\ kind[r] = "approved"
                         THEN "source" ELSE "publish")
       ELSE /\ Goto(r, IF prior = kind[r] THEN "duplicate" ELSE "conflict")
            /\ UNCHANGED decisions
  /\ UNCHANGED <<recorded, reqVars, synced, events>>

UnmarkDecided(r) ==
  decisions' = IF decisions[on[r]] = kind[r]
                 THEN [decisions EXCEPT ![on[r]] = "none"] ELSE decisions

ResolveSource(r) ==
  /\ pc[r] = "source" /\ Goto(r, "sync")
  /\ UNCHANGED <<recorded, decisions, reqVars, synced, events>>

SourceFails(r) ==   \* the claim is given back
  /\ pc[r] = "source" /\ Goto(r, "failed")
  /\ UnmarkDecided(r)
  /\ UNCHANGED <<recorded, reqVars, synced, events>>

SyncOnce(r) ==   \* a failed sync does not stop the decision
  /\ pc[r] = "sync" /\ Goto(r, "publish")
  /\ \E ok \in BOOLEAN : synced' = [synced EXCEPT ![r] = ok]
  /\ UNCHANGED <<recorded, decisions, reqVars, events>>

Publish(r) ==
  /\ pc[r] = "publish" /\ Goto(r, IF synced[r] THEN "ok" ELSE "accepted")
  /\ events' = events \cup {<<on[r], kind[r], r>>}
  /\ UNCHANGED <<recorded, decisions, reqVars, synced>>

BugKeepClaim(r) ==   \* a failed publish keeps the claim
  /\ pc[r] = "publish" /\ Goto(r, "failed")
  /\ UNCHANGED <<recorded, decisions, reqVars, synced, events>>

PublishFails(r) ==   \* or the webhook's id generator; the claim is given back
  /\ pc[r] = "publish" /\ Goto(r, "failed")
  /\ UnmarkDecided(r)
  /\ UNCHANGED <<recorded, reqVars, synced, events>>

Handle(r) ==
  \/ Receive(r) \/ Inquire(r) \/ GiveUp(r) \/ MarkDecided(r)
  \/ ResolveSource(r) \/ SourceFails(r) \/ SyncOnce(r)
  \/ Publish(r) \/ PublishFails(r)

ApprovalNext == (\E p \in Proposals : Record(p)) \/ (\E r \in Requests : Handle(r))

ApprovalSpec == ApprovalInit /\ [][ApprovalNext]_approvalVars

-----------------------------------------------------------------------------
ApprovalTypeOK ==
  /\ recorded \subseteq Proposals
  /\ decisions \in [Proposals -> Kinds \cup {"none"}]
  /\ pc \in [Requests -> {"idle", "mark"} \cup Holding \cup Answers]
  /\ on \in [Requests -> Proposals] /\ kind \in [Requests -> Kinds]
  /\ route \in [Requests -> Routes] /\ synced \in [Requests -> BOOLEAN]
  /\ events \subseteq Proposals \X Kinds \X Requests

(* proposalstore.go DecisionRecorder: the terminal decision is claimed     *)
(* exactly once: at most one terminal event per proposal, over both        *)
(* routes, repeats, disagreements, failed publishes and retries.           *)
OneEvent == \A a, b \in events : a[1] = b[1] => a = b

(* webhook.go and callbacks.go: an announced decision is still the store's *)
(* claim, so whatever arrives later is a duplicate or a conflict.          *)
AnnouncedIsClaimed == \A e \in events : decisions[e[1]] = e[2]

(* webhook.go handleApproved: a claim nobody is working on has been        *)
(* announced; a failure on the way gives the claim back.                   *)
ClaimIsAnnounced ==
  \A p \in Proposals : decisions[p] # "none" =>
    \/ \E r \in Requests : pc[r] \in Holding /\ on[r] = p /\ kind[r] = decisions[p]
    \/ \E r \in Requests : <<p, decisions[p], r>> \in events

(* The outcome that has been announced *)
Outcome ==
  [p \in Proposals |->
     IF \E r \in Requests : <<p, "approved", r>> \in events THEN "approved"
     ELSE IF \E r \in Requests : <<p, "rejected", r>> \in events THEN "rejected"
     ELSE "none"]

Abstract == INSTANCE OneShotDecision WITH Undecided <- "none", outcome <- Outcome

(* The approval paths implement the one-shot decision.                     *)
OneShot == Abstract!Spec
=============================================================================
