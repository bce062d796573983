----------------------------- MODULE SpawnSaga -----------------------------
(***************************************************************************)
(* The spawn and retire sagas: the idempotent kickoff, the step runner     *)
(* with its reverse rollback, the steps, the in-memory saga and Slack      *)
(* credential stores.                                                      *)
(*   core/pkg/spawn/spawnkickoff.go, retirekickoff.go                      *)
(*   core/pkg/spawn/saga/saga.go, saga/dao_memory.go                       *)
(*   core/pkg/spawn/*_step.go, watchkeeper_creds_memory.go                 *)
(*                                                                         *)
(* Every call may run concurrently with the others.  A call brings fresh   *)
(* saga and watchkeeper ids, so both are named by the call that inserted   *)
(* the row.  The platforms a step talks to are external: a request fails   *)
(* with or without having taken effect.  Audit appends are best effort     *)
(* except where a failure ends the call.                                   *)
(***************************************************************************)
EXTENDS Naturals, Sequences, FiniteSets, SequencesExt

CONSTANTS
  Calls,    \* calls of Kickoff or Runner.Run
  Tokens,   \* approval tokens, the idempotency keys
  Steps,    \* the step list the spawn kickoffer was wired with
  None      \* no saga, no call, no token

SpawnSteps == <<"create_app", "oauth_install", "bot_profile",
                "notebook_provision", "runtime_launch">>
RetireSteps == <<"notebook_archive", "mark_retired">>

(* Kickoffs may be wired with part of the steps only; the profile is that  *)
(* of the app's bot user and is set after the app was created.             *)
ASSUME StepsAssumption ==
  /\ Steps \in Seq(ToSet(SpawnSteps))
  /\ \A i \in DOMAIN Steps :
       Steps[i] = "bot_profile" => \E j \in 1..(i - 1) : Steps[j] = "create_app"
ASSUME NoneAssumption == None \notin Calls \cup Tokens

VARIABLES
  status,   \* saga rows: state of the row inserted by each call, or "absent"
  index,    \* idempotency index: the saga of each token
  call,     \* each call: kind, pc, token, saga, completed steps, OAuthCode, ArchiveURI
  creds,    \* slack_app_creds row of a saga's watchkeeper: whose app it names
  tokens,   \* install tokens stored on that row: whose install they are
  live,     \* external artefacts of a saga's watchkeeper, as <<step, call>>
  \* History, read by no action:
  residue,  \* steps with a failed clean-up or an unclear failure, per saga
  ran       \* <<saga, step, call>> of every Execute

daoVars == <<creds, tokens>>
histVars == <<residue, ran>>
sagaVars == <<status, index, call, daoVars, live, histVars>>

Idle == [kind |-> "spawn", pc |-> "idle", token |-> None, saga |-> None, done |-> 0,
         code |-> FALSE, uri |-> "missing"]

SagaInit ==
  /\ status = [c \in Calls |-> "absent"]
  /\ index = [t \in Tokens |-> None]
  /\ call = [c \in Calls |-> Idle]
  /\ creds = [c \in Calls |-> None] /\ tokens = [c \in Calls |-> None]
  /\ live = [c \in Calls |-> {}]
  /\ residue = [c \in Calls |-> {}] /\ ran = {}

At(c, pc) == call[c].pc = pc
Goto(c, pc) == call' = [call EXCEPT ![c].pc = pc]
(* The step list a call runs: the kickoffer's, or its own caller's *)
Wired(c) == CASE call[c].kind = "spawn" -> Steps
              [] call[c].kind = "operator" -> SpawnSteps
              [] call[c].kind = "retire" -> RetireSteps
Step(c) == Wired(c)[call[c].done + 1]
Returned(c) == call[c].pc \in {"ok", "error", "replayed"}
Running(s) == \E c \in Calls : call[c].saga = s /\ ~Returned(c)

-----------------------------------------------------------------------------
(* Kickoff, called with valid ids and a non-blank token *)

Kickoff(c, t) ==
  /\ At(c, "idle")
  /\ call' = [call EXCEPT ![c].pc = "insert", ![c].token = t]
  /\ UNCHANGED <<status, index, daoVars, live, histVars>>

RetireKickoff(c, t) ==   \* the same, and seeds an empty RetireResult
  /\ At(c, "idle")
  /\ call' = [call EXCEPT ![c] = [@ EXCEPT !.kind = "retire", !.pc = "insert",
                                          !.token = t, !.uri = "empty"]]
  /\ UNCHANGED <<status, index, daoVars, live, histVars>>

(* An existing saga that is no longer pending is replayed: an audit row    *)
(* and nil.  A pending one is resumed, with its own ids.                   *)
ResumeOrReplay(c, s) ==
  IF status[s] = "pending"
    THEN call' = [call EXCEPT ![c].pc = "approve", ![c].saga = s]
    ELSE Goto(c, "replayed")

InsertIfAbsent(c) ==   \* atomic under the store's mutex
  /\ At(c, "insert")
  /\ LET s == index[call[c].token] IN
       \/ /\ s = None
          /\ status' = [status EXCEPT ![c] = "pending"]
          /\ index' = [index EXCEPT ![call[c].token] = c]
          /\ call' = [call EXCEPT ![c].pc = "approve", ![c].saga = c]
       \/ /\ s # None
          /\ ResumeOrReplay(c, s)
          /\ UNCHANGED <<status, index>>
  /\ UNCHANGED <<daoVars, live, histVars>>

(* The *_approved_* audit append; its failure ends the call.  Then the     *)
(* SpawnContext is seeded, without an OAuthCode.                           *)
AppendApproved(c) ==
  /\ At(c, "approve")
  /\ \E pc \in {"run", "error"} : Goto(c, pc)
  /\ UNCHANGED <<status, index, daoVars, live, histVars>>

(* Runner.Run by a caller that inserted the row itself with Insert: the    *)
(* spawn steps with an operator's OAuthCode, or the retire steps without a *)
(* RetireResult                                                            *)
RunDirect(c, kind) ==
  /\ At(c, "idle")
  /\ status' = [status EXCEPT ![c] = "pending"]
  /\ call' = [call EXCEPT ![c] = [@ EXCEPT !.kind = kind, !.pc = "run", !.saga = c,
                                          !.code = (kind = "operator")]]
  /\ UNCHANGED <<index, daoVars, live, histVars>>

-----------------------------------------------------------------------------
(* Runner.Run *)

UpdateStep(c) ==
  /\ At(c, "run") /\ call[c].done < Len(Wired(c))
  /\ status' = [status EXCEPT ![call[c].saga] = "in_flight"]
  /\ Goto(c, "execute")
  /\ UNCHANGED <<index, daoVars, live, histVars>>

MarkCompleted(c) ==
  /\ At(c, "run") /\ call[c].done = Len(Wired(c))
  /\ status' = [status EXCEPT ![call[c].saga] = "completed"]
  /\ Goto(c, "ok")
  /\ UNCHANGED <<index, daoVars, live, histVars>>

(* What Execute checks before it contacts anyone *)
InstallReady(c) == call[c].code /\ creds[call[c].saga] # None
ArchiveReady(c) == call[c].uri # "missing"
RetireReady(c) == call[c].uri = "set"
Ready(c) == /\ Step(c) = "oauth_install" => InstallReady(c)
            /\ Step(c) = "notebook_archive" => ArchiveReady(c)
            /\ Step(c) = "mark_retired" => RetireReady(c)

(* What the sinks of create_app and oauth_install store.  Put refuses to   *)
(* replace a row.                                                          *)
PutCreds(c) == creds' = [creds EXCEPT ![call[c].saga] = c]
PutInstallTokens(c) == tokens' = [tokens EXCEPT ![call[c].saga] = c]
Sinks(c) ==
  CASE Step(c) = "create_app" ->
         creds[call[c].saga] = None /\ PutCreds(c) /\ UNCHANGED tokens
    [] Step(c) = "oauth_install" -> PutInstallTokens(c) /\ UNCHANGED creds
    [] OTHER -> UNCHANGED daoVars

Produce(c) == live' = [live EXCEPT ![call[c].saga] = @ \cup {<<Step(c), c>>}]
Leave(c) == residue' = [residue EXCEPT ![call[c].saga] = @ \cup {Step(c)}]
Record(c) == ran' = ran \cup {<<call[c].saga, Step(c), c>>}

(* Execute succeeds.  notebook_archive hands the URI to mark_retired. *)
ExecuteOk(c) ==
  /\ At(c, "execute") /\ Ready(c)
  /\ Produce(c) /\ Sinks(c) /\ Record(c)
  /\ call' = [call EXCEPT ![c].pc = "run", ![c].done = @ + 1,
        ![c].uri = IF Step(c) = "notebook_archive" THEN "set" ELSE @]
  /\ UNCHANGED <<status, index, residue>>

(* Execute fails before a sink ran: refused locally, or the platform's     *)
(* answer was an error, with or without effect                             *)
ExecuteFail(c) ==
  /\ At(c, "execute")
  /\ \/ UNCHANGED <<live, residue>>
     \/ Ready(c) /\ Produce(c) /\ Leave(c)
  /\ Goto(c, "failed") /\ Record(c)
  /\ UNCHANGED <<status, index, daoVars>>

(* create_app fails after its sink ran: the app exists, Put succeeded or   *)
(* was itself the failure.  Execute tears the app down, and the row that   *)
(* names it, or drops the teardown's error.                                *)
CreateAppPartial(c) ==
  /\ At(c, "execute") /\ Step(c) = "create_app"
  /\ \/ UNCHANGED <<live, residue, daoVars>>
     \/ Produce(c) /\ Leave(c) /\ (Sinks(c) \/ UNCHANGED daoVars)
  /\ Goto(c, "failed") /\ Record(c)
  /\ UNCHANGED <<status, index>>

(* Likewise oauth_install; its revocation leaves stored tokens in place.   *)
InstallPartial(c) ==
  /\ At(c, "execute") /\ Step(c) = "oauth_install" /\ Ready(c)
  /\ UNCHANGED <<live, residue>> \/ (Produce(c) /\ Leave(c))
  /\ Sinks(c) \/ UNCHANGED daoVars
  /\ Goto(c, "failed") /\ Record(c)
  /\ UNCHANGED <<status, index>>

BugNotMarked(c) ==   \* the failure is reported but never stored
  /\ At(c, "failed")
  /\ Goto(c, "compensate")
  /\ UNCHANGED <<status, index, daoVars, live, histVars>>

MarkFailed(c) ==
  /\ At(c, "failed")
  /\ status' = [status EXCEPT ![call[c].saga] = "failed"]
  /\ Goto(c, "compensate")
  /\ UNCHANGED <<index, daoVars, live, histVars>>

-----------------------------------------------------------------------------
(* Runner.compensate: the completed steps, last first *)

Of(s, step) == {e \in live[s] : e[1] = step}

(* Artefacts a step's compensator removes.  It finds the app and the       *)
(* install through the stored rows; the profile goes with the app.         *)
TeardownApp(s) == IF creds[s] = None THEN {}
                  ELSE {<<"create_app", creds[s]>>} \cup Of(s, "bot_profile")
Revoke(s) == IF tokens[s] = None THEN {} ELSE {<<"oauth_install", tokens[s]>>}
ArchiveAndFlagForReview(s) == Of(s, "notebook_provision")
TeardownRuntime(s) == Of(s, "runtime_launch")

Undone(s, step) ==
  CASE step = "create_app" -> TeardownApp(s)
    [] step = "oauth_install" -> Revoke(s)
    [] step = "notebook_provision" -> ArchiveAndFlagForReview(s)
    [] step = "runtime_launch" -> TeardownRuntime(s)
    [] OTHER -> {}

(* The other steps have no Compensator, or one that does nothing *)
Compensable == {"create_app", "oauth_install", "notebook_provision", "runtime_launch"}

(* The app's teardown wipes its row; the tokens are wiped even when the    *)
(* revocation fails                                                        *)
WipeCreds(s, step) ==
  creds' = IF step = "create_app" THEN [creds EXCEPT ![s] = None] ELSE creds
WipeInstallTokens(s, step) ==
  tokens' = IF step \in {"create_app", "oauth_install"}
              THEN [tokens EXCEPT ![s] = None] ELSE tokens

UndoStep(c, step) ==
  LET s == call[c].saga IN
  /\ \/ /\ live' = [live EXCEPT ![s] = @ \ Undone(s, step)]
        /\ WipeCreds(s, step) /\ WipeInstallTokens(s, step)
        /\ UNCHANGED residue
     \/ /\ step \in Compensable   \* it returns an error or panics
        /\ residue' = [residue EXCEPT ![s] = @ \cup {step}]
        /\ IF step = "oauth_install" THEN WipeInstallTokens(s, step)
                                     ELSE UNCHANGED tokens
        /\ UNCHANGED <<live, creds>>
  /\ UNCHANGED <<status, index, ran>>

BugForward(c) ==   \* first completed step first
  /\ At(c, "compensate") /\ call[c].done > 0
  /\ LET n == Cardinality({e \in ran : e[3] = c}) IN
       UndoStep(c, Wired(c)[n - call[c].done])
  /\ call' = [call EXCEPT ![c].done = @ - 1]

(* A failed compensation is audited and the walk goes on *)
Compensate(c) ==
  /\ At(c, "compensate") /\ call[c].done > 0
  /\ UndoStep(c, Wired(c)[call[c].done])
  /\ call' = [call EXCEPT ![c].done = @ - 1]

Compensated(c) ==   \* Kickoff returns the step's error
  /\ At(c, "compensate") /\ call[c].done = 0
  /\ Goto(c, "error")
  /\ UNCHANGED <<status, index, daoVars, live, histVars>>

-----------------------------------------------------------------------------
SagaStep(c) ==
  \/ InsertIfAbsent(c) \/ AppendApproved(c)
  \/ UpdateStep(c) \/ MarkCompleted(c)
  \/ ExecuteOk(c) \/ ExecuteFail(c) \/ CreateAppPartial(c) \/ InstallPartial(c)
  \/ MarkFailed(c) \/ Compensate(c) \/ Compensated(c)

-----------------------------------------------------------------------------
SagaTypeOK ==
  /\ status \in [Calls -> {"absent", "pending", "in_flight", "completed", "failed"}]
  /\ index \in [Tokens -> Calls \cup {None}]
  /\ creds \in [Calls -> Calls \cup {None}] /\ tokens \in [Calls -> Calls \cup {None}]
  /\ \A c \in Calls : /\ call[c].saga \in Calls \cup {None}
                      /\ call[c].done \in 0..Len(Wired(c))
                      /\ live[c] \subseteq ToSet(Wired(c)) \X Calls
                      /\ residue[c] \subseteq ToSet(Wired(c))

(* saga.go Step ("calls Step.Execute at most once per saga run") and       *)
(* dao.go IdempotencyKey ("running this exactly-once"): no step of a saga  *)
(* is executed by two calls.                                               *)
ExecutedOnce ==
  \A a, b \in ran : a[1] = b[1] /\ a[2] = b[2] => a[3] = b[3]

(* saga.go Run: a completed saga's watchkeeper has the artefact of every   *)
(* step.                                                                   *)
CompletedIsWhole ==
  \A s \in Calls : status[s] = "completed" =>
    \A step \in ToSet(Wired(s)) : Of(s, step) # {}

(* saga.go compensate, createapp_step.go and oauthinstall_step.go: once    *)
(* the call that failed has returned, an artefact of a compensable step    *)
(* survives only if that step's own clean-up failed (the profile stays     *)
(* with its app), and stored tokens only if the app's teardown failed.     *)
(* Reverse order matters: the app's teardown wipes the rows the install's  *)
(* revocation needs.                                                       *)
RolledBack ==
  \A s \in Calls : status[s] = "failed" /\ ~Running(s) =>
    /\ \A e \in live[s] : \/ e[1] \in residue[s] \cup ToSet(RetireSteps)
                          \/ e[1] = "bot_profile" /\ "create_app" \in residue[s]
    /\ tokens[s] # None => "create_app" \in residue[s]

(* saga.go Run and compensate: however a saga ended, the watchkeeper is    *)
(* whole or gone, but for what a failed clean-up left behind.              *)
SagaOutcome == CompletedIsWhole /\ RolledBack
=============================================================================
