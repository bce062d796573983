----------------------- MODULE ApprovalDispatchProofs -----------------------
(***************************************************************************)
(* What the dispatcher and the spawn saga guarantee for any approvals,     *)
(* calls and wired steps: one click acts on a token, one call runs a       *)
(* saga's steps, and a saga that ended left a whole watchkeeper or nothing *)
(* but what a failed clean-up left.                                        *)
(*                                                                         *)
(* The argument goes from the click to the artefact.  One click wins a     *)
(* token, so of the calls that share a token one at most has not returned  *)
(* (OneCall); a saga is reached through its token only (SagaInv), so one   *)
(* call at a time is at work on it (Alone), and what the saga holds is     *)
(* that call's (WorkInv); so a step finds the rows its own saga stored,    *)
(* and its clean-up removes what they name.                                *)
(***************************************************************************)
EXTENDS ApprovalDispatch, FiniteSetTheorems, TLAPS

AllSteps == ToSet(SpawnSteps) \cup ToSet(RetireSteps)
AtWork == {"approve", "run", "execute", "failed", "compensate"}
Ended == {"ok", "error", "replayed"}

CallType ==
  call \in [Calls ->
    [kind : {"spawn", "operator", "retire"}, pc : {"idle", "insert"} \cup AtWork \cup Ended,
     token : Tokens \cup {None}, saga : Calls \cup {None}, done : Nat, code : BOOLEAN,
     uri : {"missing", "empty", "set"}]]

SagaType ==
  /\ status \in [Calls -> {"absent", "pending", "in_flight", "completed", "failed"}]
  /\ index \in [Tokens -> Calls \cup {None}]
  /\ creds \in [Calls -> Calls \cup {None}] /\ tokens \in [Calls -> Calls \cup {None}]
  /\ live \in [Calls -> SUBSET (AllSteps \X Calls)]
  /\ residue \in [Calls -> SUBSET AllSteps]
  /\ ran \subseteq Calls \X AllSteps \X Calls

DispType ==
  /\ approvals \in [Tokens -> {"absent", "pending", "approved", "rejected"}]
  /\ click \in [Calls -> [pc : {"idle", "resolve", "route", "wait", "done", "stale"},
                          token : Tokens \cup {None},
                          decision : {"none", "approved", "rejected"}]]

TypeInv == CallType /\ SagaType /\ DispType

-----------------------------------------------------------------------------
(* Who acts on a token: the click whose decision was stored, and what      *)
(* became of it.                                                           *)
Won(c, t) == \/ click[c].token = t /\ click[c].pc = "route"
             \/ call[c].token = t
             \/ <<t, c>> \in replays

ClickInv ==
  /\ \A t \in RetireTokens : approvals[t] = "absent"
  /\ \A c \in Calls :
       /\ click[c].pc # "idle" => click[c].token \in Tokens \ RetireTokens
       /\ click[c].pc = "resolve" => click[c].decision # "none"
  /\ \A t \in Tokens \ RetireTokens : \A c \in Calls :
       Won(c, t) => /\ approvals[t] = "approved"
                    /\ \A d \in Calls : Won(d, t) => c = d

(* Of the calls with one token, all but one have returned. *)
OneCall ==
  \A c, d \in Calls :
    call[c].token # None /\ call[c].token = call[d].token /\ ~Returned(c) /\ ~Returned(d)
      => c = d

(* A call reaches a saga through its token, or inserted it itself. *)
SagaInv ==
  /\ \A s \in Calls : status[s] # "absent" => call[s].saga = s
  /\ \A t \in Tokens : index[t] # None =>
       call[index[t]].token = t /\ call[index[t]].saga = index[t]
  /\ \A c \in Calls :
       /\ call[c].pc = "idle" => call[c].token = None /\ call[c].kind = "spawn"
       /\ call[c].pc = "insert" => call[c].token # None
       /\ call[c].pc \in {"idle", "insert", "replayed"} => call[c].saga = None
       /\ call[c].pc \in {"idle", "insert", "approve"} => call[c].done = 0
       /\ call[c].pc \in AtWork => call[c].saga # None
       /\ call[c].token # None =>
            /\ call[c].kind # "operator"
            /\ call[c].kind = "retire" <=> call[c].token \in RetireTokens
       /\ call[c].saga # None =>
            /\ status[call[c].saga] # "absent"
            /\ call[call[c].saga].kind = call[c].kind
            /\ IF call[c].token = None THEN call[c].saga = c
                                       ELSE index[call[c].token] = call[c].saga

(* The saga's state follows the call that is at work on it, and until a    *)
(* step was tried there is nothing.                                        *)
StatusInv ==
  /\ \A c \in Calls :
       /\ call[c].pc = "approve" => status[call[c].saga] = "pending"
       /\ call[c].pc = "run" => \/ status[call[c].saga] = "in_flight"
                                \/ status[call[c].saga] = "pending" /\ call[c].done = 0
       /\ call[c].pc \in {"execute", "failed"} => status[call[c].saga] = "in_flight"
       /\ call[c].pc = "compensate" => status[call[c].saga] = "failed"
       /\ call[c].done \in 0..Len(Wired(c))
       /\ call[c].pc = "execute" => call[c].done < Len(Wired(c))
  /\ \A s \in Calls : status[s] \in {"absent", "pending"} =>
       /\ live[s] = {} /\ residue[s] = {} /\ creds[s] = None /\ tokens[s] = None
       /\ \A a \in ran : a[1] # s

(* The steps a call has completed, or has yet to undo *)
Done(c) == {Wired(c)[i] : i \in 1..call[c].done}

(* What there is of a saga is its call's, and is to be undone by a step    *)
(* that can, unless a clean-up of it failed.                               *)
Undoable(c, s, e) ==
  IF e[1] = "bot_profile"
    THEN "create_app" \in residue[s] \/ ("create_app" \in Done(c) /\ creds[s] # None)
    ELSE /\ e[1] \in Done(c)
         /\ e[1] = "create_app" => creds[s] = c
         /\ e[1] = "oauth_install" => tokens[s] = c
AppFirst(c) ==   \* among the completed steps: Put refuses a second app
  \A i, j \in 1..call[c].done :
    Wired(c)[i] = "create_app" /\ Wired(c)[j] \in {"create_app", "oauth_install"} => i <= j
Work(c, s) ==
  /\ AppFirst(c)
  /\ \A e \in live[s] : e[2] = c
  /\ creds[s] \in {None, c} /\ tokens[s] \in {None, c}
  /\ \A a \in ran : a[1] = s => a[3] = c
  /\ \A e \in live[s] : e[1] \in residue[s] \cup ToSet(RetireSteps) \/ Undoable(c, s, e)
  /\ tokens[s] # None => "create_app" \in Done(c) \cup residue[s]
  /\ call[c].pc \in {"run", "execute"} =>
       /\ \A x \in Done(c) : Of(s, x) # {}
       /\ creds[s] # None <=> "create_app" \in Done(c)
       /\ "oauth_install" \in Done(c) => "create_app" \in Done(c)

WorkInv == \A c \in Calls : call[c].pc \in AtWork => Work(c, call[c].saga)

(* The shape of what SagaTypeOK says of artefacts, in terms of their saga *)
OwnSteps ==
  \A s \in Calls : /\ live[s] \subseteq ToSet(Wired(s)) \X Calls
                   /\ residue[s] \subseteq ToSet(Wired(s))

IInv == /\ TypeInv /\ ClickInv /\ OneCall /\ SagaInv /\ StatusInv /\ WorkInv /\ OwnSteps
        /\ ExecutedOnce /\ SagaOutcome

-----------------------------------------------------------------------------
(* The lists of steps: short lists of known names, with the app created    *)
(* before its profile is set.                                              *)
LEMMA StepNames ==
  /\ ToSet(SpawnSteps) = {"create_app", "oauth_install", "bot_profile",
                          "notebook_provision", "runtime_launch"}
  /\ ToSet(RetireSteps) = {"notebook_archive", "mark_retired"}
  /\ SpawnSteps \in Seq(ToSet(SpawnSteps)) /\ RetireSteps \in Seq(ToSet(RetireSteps))
<1>1. ToSet(SpawnSteps) = {"create_app", "oauth_install", "bot_profile",
                           "notebook_provision", "runtime_launch"}
  BY DEF ToSet, SpawnSteps
<1>2. ToSet(RetireSteps) = {"notebook_archive", "mark_retired"}
  BY DEF ToSet, RetireSteps
<1> QED BY <1>1, <1>2 DEF SpawnSteps, RetireSteps

(* The list a call runs is one of known steps. *)
LEMMA WiredIs ==
  ASSUME CallType, NEW c \in Calls
  PROVE  /\ Wired(c) \in Seq(AllSteps)
         /\ ToSet(Wired(c)) \subseteq AllSteps
         /\ call[c].kind = "retire" => ToSet(Wired(c)) = ToSet(RetireSteps)
         /\ call[c].kind # "retire" => ToSet(Wired(c)) \subseteq ToSet(SpawnSteps)
         /\ \A i \in DOMAIN Wired(c) : Wired(c)[i] = "bot_profile" =>
              \E j \in 1..(i - 1) : Wired(c)[j] = "create_app"
<1>1. call[c].kind \in {"spawn", "operator", "retire"}
  BY DEF CallType
<1>2. CASE call[c].kind = "spawn"
  <2>1. Wired(c) = Steps
    BY <1>2 DEF Wired
  <2>2. ToSet(Steps) \subseteq ToSet(SpawnSteps)
    BY StepsAssumption DEF ToSet
  <2> QED BY <1>2, <2>1, <2>2, StepsAssumption DEF AllSteps
<1>3. CASE call[c].kind = "operator"
  <2>1. Wired(c) = SpawnSteps
    BY <1>3 DEF Wired
  <2>2. \A i \in DOMAIN SpawnSteps : SpawnSteps[i] = "bot_profile" =>
          \E j \in 1..(i - 1) : SpawnSteps[j] = "create_app"
    <3>1. DOMAIN SpawnSteps = 1..5 /\ SpawnSteps[1] = "create_app"
          /\ SpawnSteps[1] # "bot_profile"
      BY DEF SpawnSteps
    <3> QED BY <3>1
  <2> QED BY <1>3, <2>1, <2>2, StepNames DEF AllSteps
<1>4. CASE call[c].kind = "retire"
  <2>1. Wired(c) = RetireSteps
    BY <1>4 DEF Wired
  <2>2. \A i \in DOMAIN RetireSteps : RetireSteps[i] # "bot_profile"
    BY StepNames DEF ToSet
  <2> QED BY <1>4, <2>1, <2>2, StepNames DEF AllSteps
<1> QED BY <1>1, <1>2, <1>3, <1>4

-----------------------------------------------------------------------------
(* One call at a time is at work on a saga. *)
LEMMA Alone ==
  ASSUME OneCall, SagaInv, CallType, NEW c \in Calls, NEW d \in Calls,
         call[c].pc \in AtWork, call[d].pc \in AtWork, call[c].saga = call[d].saga
  PROVE  c = d
<1>1. ~Returned(c) /\ ~Returned(d)
  BY DEF Returned, AtWork
<1>2. call[c].saga # None /\ call[c].saga \in Calls
  BY DEF SagaInv, CallType
<1>3. CASE call[c].token = None /\ call[d].token = None
  BY <1>2, <1>3 DEF SagaInv
<1>4. ASSUME NEW u \in Calls, NEW v \in Calls, call[u].saga = call[v].saga,
             call[u].saga # None, call[u].token # None
      PROVE  call[v].token = call[u].token
  <2>1. call[u].token \in Tokens
    BY <1>4 DEF CallType
  <2>2. call[call[u].saga].token = call[u].token
    BY <1>4, <2>1 DEF SagaInv
  <2>3. CASE call[v].token = None
    BY <1>4, <2>2, <2>3 DEF SagaInv
  <2>4. CASE call[v].token # None
    <3>1. call[v].token \in Tokens
      BY <2>4 DEF CallType
    <3> QED BY <1>4, <2>2, <2>4, <3>1 DEF SagaInv
  <2> QED BY <2>3, <2>4
<1>5. CASE call[c].token # None \/ call[d].token # None
  <2>1. call[c].token = call[d].token
    BY <1>2, <1>4, <1>5
  <2> QED BY <1>1, <1>5, <2>1 DEF OneCall
<1> QED BY <1>3, <1>5

(* A step of the call at work on a saga touches that saga only. *)
Moves(c, s) ==
  /\ call[c].pc \in AtWork /\ call[c].saga = s
  /\ \A d \in Calls \ {c} : call'[d] = call[d]
  /\ call'[c].kind = call[c].kind /\ call'[c].token = call[c].token
  /\ call'[c].saga = s /\ call'[c].pc \in (AtWork \ {"approve"}) \cup {"ok", "error"}
  /\ \A r \in Calls \ {s} : /\ status'[r] = status[r] /\ live'[r] = live[r]
                            /\ residue'[r] = residue[r]
                            /\ creds'[r] = creds[r] /\ tokens'[r] = tokens[r]
  /\ \A a \in ran' : a \in ran \/ (a[1] = s /\ a[3] = c)
  /\ \/ status'[s] \notin {"absent", "pending"}
     \/ status'[s] = "pending" /\ UNCHANGED <<status, daoVars, live, histVars>>
  /\ UNCHANGED <<index, dispVars>>

(* What is left to show of such a step *)
Here(c, s) ==
  /\ call[c].pc = "run" => \/ status[s] = "in_flight"
                           \/ status[s] = "pending" /\ call[c].done = 0
  /\ call[c].pc \in {"execute", "failed"} => status[s] = "in_flight"
  /\ call[c].pc = "compensate" => status[s] = "failed"
  /\ call[c].done \in 0..Len(Wired(c))
  /\ call[c].pc = "execute" => call[c].done < Len(Wired(c))
  /\ call[c].pc \in AtWork => Work(c, s)
  /\ live[s] \subseteq ToSet(Wired(c)) \X Calls /\ residue[s] \subseteq ToSet(Wired(c))
  /\ status[s] = "completed" => \A x \in ToSet(Wired(c)) : Of(s, x) # {}
  /\ status[s] = "failed" /\ call[c].pc \in Ended =>
       /\ \A e \in live[s] : \/ e[1] \in residue[s] \cup ToSet(RetireSteps)
                             \/ e[1] = "bot_profile" /\ "create_app" \in residue[s]
       /\ tokens[s] # None => "create_app" \in residue[s]

(* A call of the same kind runs the same list. *)
LEMMA WiredSame ==
  ASSUME NEW c, call'[c].kind = call[c].kind PROVE Wired(c)' = Wired(c)
BY DEF Wired

(* So all calls of one saga do. *)
LEMMA SameList ==
  ASSUME SagaInv, NEW c \in Calls, NEW s \in Calls, call[c].saga = s
  PROVE  Wired(s) = Wired(c)
<1>1. call[s].kind = call[c].kind
  BY NoneAssumption DEF SagaInv
<1> QED BY <1>1 DEF Wired

LEMMA MovesKeeps ==
  ASSUME IInv, NEW c \in Calls, NEW s \in Calls, Moves(c, s), TypeInv', Here(c, s)'
  PROVE  IInv'
<1> USE DEF IInv
<1>1. ASSUME NEW d \in Calls
      PROVE  /\ call'[d].kind = call[d].kind /\ call'[d].token = call[d].token
             /\ call'[d].saga = call[d].saga
             /\ Wired(d)' = Wired(d) /\ (Returned(d) => Returned(d)')
             /\ d # c => call'[d] = call[d]
  BY WiredSame DEF Moves, Returned, AtWork
<1>2. ASSUME NEW d \in Calls, d # c, call[d].pc \in AtWork
      PROVE  call[d].saga # s /\ call[d].saga \in Calls
  BY <1>2, Alone DEF Moves, TypeInv, CallType, SagaInv
<1>3. ClickInv'
  <2>1. \A d \in Calls, t \in Tokens : Won(d, t)' <=> Won(d, t)
    BY <1>1 DEF Won, Moves, dispVars
  <2> QED BY <2>1 DEF ClickInv, Moves, dispVars
<1>4. OneCall'
  BY <1>1 DEF OneCall
<1>5. SagaInv'
  <2>1. \A r \in Calls : (status'[r] # "absent" <=> status[r] # "absent")
    BY DEF Moves, SagaInv
  <2>2. \A r \in Calls : status'[r] # "absent" => call'[r].saga = r
    BY <1>1, <2>1 DEF SagaInv
  <2>3. \A t \in Tokens : index'[t] # None =>
          call'[index'[t]].token = t /\ call'[index'[t]].saga = index'[t]
    BY <1>1 DEF SagaInv, Moves, TypeInv, SagaType
  <2>4. ASSUME NEW d \in Calls, d # c
        PROVE  /\ call'[d].pc = "idle" => call'[d].token = None /\ call'[d].kind = "spawn"
               /\ call'[d].pc = "insert" => call'[d].token # None
               /\ call'[d].pc \in {"idle", "insert", "replayed"} => call'[d].saga = None
               /\ call'[d].pc \in {"idle", "insert", "approve"} => call'[d].done = 0
               /\ call'[d].pc \in AtWork => call'[d].saga # None
    BY <1>1, <2>4 DEF SagaInv
  <2>5. /\ call'[c].pc \notin {"idle", "insert", "replayed", "approve"}
        /\ call'[c].saga # None
    BY NoneAssumption DEF Moves, AtWork
  <2>6. ASSUME NEW d \in Calls
        PROVE  /\ call'[d].token # None =>
                    /\ call'[d].kind # "operator"
                    /\ call'[d].kind = "retire" <=> call'[d].token \in RetireTokens
               /\ call'[d].saga # None =>
                    /\ status'[call'[d].saga] # "absent"
                    /\ call'[call'[d].saga].kind = call'[d].kind
                    /\ IF call'[d].token = None THEN call'[d].saga = d
                                               ELSE index'[call'[d].token] = call'[d].saga
    <3>1. call[d].saga # None => call[d].saga \in Calls
      BY DEF TypeInv, CallType
    <3>2. index' = index
      BY DEF Moves
    <3> QED BY <1>1, <2>1, <3>1, <3>2 DEF SagaInv
  <2> QED BY <2>2, <2>3, <2>4, <2>5, <2>6 DEF SagaInv
<1>6. StatusInv'
  <2>1. ASSUME NEW d \in Calls, d # c
        PROVE  /\ call'[d].pc = "approve" => status'[call'[d].saga] = "pending"
               /\ call'[d].pc = "run" =>
                    \/ status'[call'[d].saga] = "in_flight"
                    \/ status'[call'[d].saga] = "pending" /\ call'[d].done = 0
               /\ call'[d].pc \in {"execute", "failed"} =>
                    status'[call'[d].saga] = "in_flight"
               /\ call'[d].pc = "compensate" => status'[call'[d].saga] = "failed"
               /\ call'[d].done \in 0..Len(Wired(d)')
               /\ call'[d].pc = "execute" => call'[d].done < Len(Wired(d)')
    <3>1. call'[d] = call[d] /\ Wired(d)' = Wired(d)
      BY <1>1, <2>1
    <3>2. call[d].pc \in AtWork => status'[call[d].saga] = status[call[d].saga]
      BY <1>2, <2>1 DEF Moves
    <3>3. \A pc \in {"approve", "run", "execute", "failed", "compensate"} : pc \in AtWork
      BY DEF AtWork
    <3> QED BY <3>1, <3>2, <3>3 DEF StatusInv
  <2>2. /\ call'[c].pc # "approve" /\ call'[c].saga = s
    BY DEF Moves, AtWork
  <2>3. ASSUME NEW r \in Calls, status'[r] \in {"absent", "pending"}
        PROVE  /\ live'[r] = {} /\ residue'[r] = {} /\ creds'[r] = None /\ tokens'[r] = None
               /\ \A a \in ran' : a[1] # r
    BY <2>3 DEF StatusInv, Moves, daoVars, histVars
  <2> QED BY <2>1, <2>2, <2>3 DEF StatusInv, Here
<1>7. WorkInv'
  <2>1. ASSUME NEW d \in Calls, d # c, call'[d].pc \in AtWork
        PROVE  Work(d, call[d].saga)'
    <3>1. call'[d] = call[d] /\ Wired(d)' = Wired(d) /\ call[d].saga # s
          /\ call[d].saga \in Calls
      BY <1>1, <1>2, <2>1
    <3> DEFINE r == call[d].saga
    <3>2. Work(d, r)
      BY <2>1, <3>1 DEF WorkInv
    <3>3. /\ live'[r] = live[r] /\ residue'[r] = residue[r]
          /\ creds'[r] = creds[r] /\ tokens'[r] = tokens[r]
          /\ \A a \in ran' : a[1] = r => a \in ran
      BY <3>1 DEF Moves
    <3>4. Done(d)' = Done(d) /\ (AppFirst(d)' <=> AppFirst(d))
      BY <3>1 DEF Done, AppFirst
    <3>5. \A x : Of(r, x)' = Of(r, x)
      BY <3>1, <3>3 DEF Of
    <3>6. \A e : Undoable(d, r, e)' <=> Undoable(d, r, e)
      BY <3>1, <3>3, <3>4 DEF Undoable
    <3> QED BY <3>1, <3>2, <3>3, <3>4, <3>5, <3>6 DEF Work
  <2> QED BY <1>1, <2>1 DEF WorkInv, Here, Moves
<1>8. OwnSteps'
  <2>1. Wired(s) = Wired(c)
    BY SameList DEF Moves
  <2> QED BY <1>1, <2>1 DEF OwnSteps, Here, Moves
<1>9. ExecutedOnce'
  <2>1. ASSUME NEW a \in ran', a[1] = s PROVE a[3] = c
    <3>1. \A x \in ran : x[1] = s => x[3] = c
      BY DEF WorkInv, Work, Moves
    <3> QED BY <2>1, <3>1 DEF Moves
  <2>2. ASSUME NEW a \in ran', a[1] # s PROVE a \in ran
    BY <2>2 DEF Moves
  <2> QED BY <2>1, <2>2 DEF ExecutedOnce
<1>10. SagaOutcome'
  <2>1. Wired(s) = Wired(c)
    BY SameList DEF Moves
  <2>2. ASSUME NEW r \in Calls, r # s
        PROVE  /\ status'[r] = status[r] /\ live'[r] = live[r] /\ residue'[r] = residue[r]
               /\ tokens'[r] = tokens[r] /\ Wired(r)' = Wired(r)
               /\ Running(r)' <=> Running(r)
               /\ \A x : Of(r, x)' = Of(r, x)
    <3>1. \A d \in Calls : call'[d].saga = r => d # c
      BY <2>2 DEF Moves
    <3> QED BY <1>1, <2>2, <3>1 DEF Moves, Running, Returned, Of
  <2>3. CompletedIsWhole'
    <3>1. ASSUME NEW r \in Calls, status'[r] = "completed"
          PROVE  \A x \in ToSet(Wired(r)') : Of(r, x)' # {}
      <4>1. CASE r = s
        BY <1>1, <2>1, <3>1, <4>1 DEF Here
      <4>2. CASE r # s
        BY <2>2, <3>1, <4>2 DEF SagaOutcome, CompletedIsWhole
      <4> QED BY <4>1, <4>2
    <3> QED BY <3>1 DEF CompletedIsWhole
  <2>4. RolledBack'
    <3>1. ASSUME NEW r \in Calls, status'[r] = "failed", ~Running(r)'
          PROVE  /\ \A e \in live'[r] :
                      \/ e[1] \in residue'[r] \cup ToSet(RetireSteps)
                      \/ e[1] = "bot_profile" /\ "create_app" \in residue'[r]
                 /\ tokens'[r] # None => "create_app" \in residue'[r]
      <4>1. CASE r = s
        <5>1. call'[c].saga = s /\ Returned(c)'
          BY <3>1, <4>1 DEF Running, Moves
        <5>2. call'[c].pc \in Ended
          BY <5>1 DEF Returned, Ended
        <5> QED BY <3>1, <4>1, <5>2 DEF Here
      <4>2. CASE r # s
        BY <2>2, <3>1, <4>2 DEF SagaOutcome, RolledBack
      <4> QED BY <4>1, <4>2
    <3> QED BY <3>1 DEF RolledBack
  <2> QED BY <2>3, <2>4 DEF SagaOutcome
<1> QED BY <1>3, <1>4, <1>5, <1>6, <1>7, <1>8, <1>9, <1>10

-----------------------------------------------------------------------------
(* The runner's steps, each of the call at work on the saga. *)
LEMMA AtWorkIs ==
  ASSUME IInv, NEW c \in Calls, call[c].pc \in AtWork
  PROVE  /\ call[c].saga \in Calls /\ call[c].saga # None
         /\ Work(c, call[c].saga)
         /\ status[call[c].saga] # "completed"
         /\ Wired(call[c].saga) = Wired(c)
         /\ live[call[c].saga] \subseteq ToSet(Wired(c)) \X Calls
         /\ residue[call[c].saga] \subseteq ToSet(Wired(c))
<1>1. call[c].saga \in Calls /\ call[c].saga # None
  BY DEF IInv, TypeInv, CallType, SagaInv
<1>2. Wired(call[c].saga) = Wired(c)
  BY <1>1, SameList DEF IInv
<1>3. status[call[c].saga] # "completed"
  BY DEF IInv, StatusInv, AtWork
<1> QED BY <1>1, <1>2, <1>3 DEF IInv, WorkInv, OwnSteps

(* Goto changes one call's pc. *)
LEMMA GotoIs ==
  ASSUME CallType, NEW c \in Calls, NEW p \in AtWork \cup Ended, Goto(c, p)
  PROVE  /\ CallType' /\ call'[c].pc = p
         /\ \A d \in Calls \ {c} : call'[d] = call[d]
         /\ call'[c].kind = call[c].kind /\ call'[c].token = call[c].token
         /\ call'[c].saga = call[c].saga /\ call'[c].done = call[c].done
         /\ Done(c)' = Done(c) /\ Wired(c)' = Wired(c) /\ (AppFirst(c)' <=> AppFirst(c))
<1>1. /\ CallType' /\ call'[c].pc = p
      /\ \A d \in Calls \ {c} : call'[d] = call[d]
      /\ call'[c].kind = call[c].kind /\ call'[c].token = call[c].token
      /\ call'[c].saga = call[c].saga /\ call'[c].done = call[c].done
  BY DEF CallType, Goto
<1>2. Wired(c)' = Wired(c)
  BY <1>1, WiredSame
<1> QED BY <1>1, <1>2 DEF Done, AppFirst

(* Work says nothing of the call but its progress. *)
LEMMA WorkStays ==
  ASSUME NEW c, NEW s, Work(c, s),
         live'[s] = live[s], residue'[s] = residue[s], creds'[s] = creds[s],
         tokens'[s] = tokens[s], ran' = ran, Done(c)' = Done(c), AppFirst(c)' <=> AppFirst(c),
         call'[c].pc \in {"run", "execute"} => call[c].pc \in {"run", "execute"}
  PROVE  Work(c, s)'
<1>1. \A x : Of(s, x)' = Of(s, x)
  BY DEF Of
<1>2. \A e : Undoable(c, s, e)' <=> Undoable(c, s, e)
  BY DEF Undoable
<1> QED BY <1>1, <1>2 DEF Work

(* AppendApproved *)
LEMMA AppendKeeps ==
  ASSUME IInv, NEW c \in Calls, NEW s \in Calls, call[c].saga = s, AppendApproved(c),
         UNCHANGED dispVars
  PROVE  IInv'
<1>1. call[c].pc = "approve" /\ call[c].pc \in AtWork
  BY DEF AppendApproved, At, AtWork
<1>2. s \in Calls /\ Work(c, s) /\ Wired(s) = Wired(c)
      /\ live[s] \subseteq ToSet(Wired(c)) \X Calls /\ residue[s] \subseteq ToSet(Wired(c))
  BY <1>1, AtWorkIs
<1>3. /\ status[s] = "pending" /\ call[c].done = 0 /\ call[c].done \in 0..Len(Wired(c))
      /\ live[s] = {} /\ residue[s] = {} /\ creds[s] = None /\ tokens[s] = None
      /\ \A a \in ran : a[1] # s
  BY <1>1, <1>2 DEF IInv, StatusInv, SagaInv
<1>4. PICK p \in {"run", "error"} : Goto(c, p)
  BY DEF AppendApproved
<1>5. p \in (AtWork \ {"approve"}) \cup {"ok", "error"} /\ p \in AtWork \cup Ended
  BY DEF AtWork, Ended
<1>6. /\ CallType' /\ call'[c].pc = p
      /\ \A d \in Calls \ {c} : call'[d] = call[d]
      /\ call'[c].kind = call[c].kind /\ call'[c].token = call[c].token
      /\ call'[c].saga = call[c].saga /\ call'[c].done = call[c].done
      /\ Done(c)' = Done(c) /\ Wired(c)' = Wired(c) /\ (AppFirst(c)' <=> AppFirst(c))
  BY <1>4, <1>5, GotoIs DEF IInv, TypeInv
<1>7. UNCHANGED <<status, index, creds, tokens, live, residue, ran, dispVars>>
  BY DEF AppendApproved, daoVars, histVars
<1>8. Moves(c, s)
  BY <1>1, <1>3, <1>5, <1>6, <1>7 DEF Moves, daoVars, histVars
<1>9. TypeInv'
  BY <1>6, <1>7 DEF IInv, TypeInv, SagaType, DispType, dispVars
<1>10. Done(c) = {}
  BY <1>3 DEF Done
<1>11. Work(c, s)'
  BY <1>2, <1>3, <1>6, <1>7, <1>10 DEF Work
<1>12. Here(c, s)'
  BY <1>2, <1>3, <1>4, <1>6, <1>7, <1>11 DEF Here
<1> QED BY <1>2, <1>8, <1>9, <1>12, MovesKeeps

(* UpdateStep: the saga is in flight from its first step on. *)
LEMMA UpdateStepKeeps ==
  ASSUME IInv, NEW c \in Calls, NEW s \in Calls, call[c].saga = s, UpdateStep(c),
         UNCHANGED dispVars
  PROVE  IInv'
<1>1. call[c].pc = "run" /\ call[c].pc \in AtWork
  BY DEF UpdateStep, At, AtWork
<1>2. s \in Calls /\ Work(c, s) /\ Wired(s) = Wired(c)
      /\ live[s] \subseteq ToSet(Wired(c)) \X Calls /\ residue[s] \subseteq ToSet(Wired(c))
  BY <1>1, AtWorkIs
<1>3. call[c].done < Len(Wired(c)) /\ call[c].done \in 0..Len(Wired(c))
  BY DEF UpdateStep, IInv, StatusInv
<1>4. Goto(c, "execute") /\ "execute" \in AtWork
  BY DEF UpdateStep, AtWork
<1>6. /\ CallType' /\ call'[c].pc = "execute"
      /\ \A d \in Calls \ {c} : call'[d] = call[d]
      /\ call'[c].kind = call[c].kind /\ call'[c].token = call[c].token
      /\ call'[c].saga = call[c].saga /\ call'[c].done = call[c].done
      /\ Done(c)' = Done(c) /\ Wired(c)' = Wired(c) /\ (AppFirst(c)' <=> AppFirst(c))
  BY <1>4, GotoIs DEF IInv, TypeInv
<1>7. /\ UNCHANGED <<index, creds, tokens, live, residue, ran, dispVars>>
      /\ status' = [status EXCEPT ![s] = "in_flight"]
  BY DEF UpdateStep, daoVars, histVars
<1>8. status'[s] = "in_flight" /\ \A r \in Calls \ {s} : status'[r] = status[r]
  BY <1>2, <1>7 DEF IInv, TypeInv, SagaType
<1>9. Moves(c, s)
  BY <1>1, <1>4, <1>6, <1>7, <1>8 DEF Moves
<1>10. TypeInv'
  BY <1>2, <1>6, <1>7 DEF IInv, TypeInv, SagaType, DispType, dispVars
<1>11. Work(c, s)'
  BY <1>1, <1>2, <1>6, <1>7, WorkStays
<1>12. Here(c, s)'
  BY <1>2, <1>3, <1>6, <1>7, <1>8, <1>11 DEF Here
<1> QED BY <1>2, <1>9, <1>10, <1>12, MovesKeeps

(* MarkCompleted: every wired step is done, so its artefact is there. *)
LEMMA MarkCompletedKeeps ==
  ASSUME IInv, NEW c \in Calls, NEW s \in Calls, call[c].saga = s, MarkCompleted(c),
         UNCHANGED dispVars
  PROVE  IInv'
<1>1. call[c].pc = "run" /\ call[c].pc \in AtWork
  BY DEF MarkCompleted, At, AtWork
<1>2. s \in Calls /\ Work(c, s) /\ Wired(s) = Wired(c)
      /\ live[s] \subseteq ToSet(Wired(c)) \X Calls /\ residue[s] \subseteq ToSet(Wired(c))
  BY <1>1, AtWorkIs
<1>3. call[c].done = Len(Wired(c)) /\ call[c].done \in 0..Len(Wired(c))
  BY DEF MarkCompleted, IInv, StatusInv
<1>4. Goto(c, "ok") /\ "ok" \in Ended /\ "ok" \notin AtWork
  BY DEF MarkCompleted, Ended, AtWork
<1>6. /\ CallType' /\ call'[c].pc = "ok"
      /\ \A d \in Calls \ {c} : call'[d] = call[d]
      /\ call'[c].kind = call[c].kind /\ call'[c].token = call[c].token
      /\ call'[c].saga = call[c].saga /\ call'[c].done = call[c].done
      /\ Done(c)' = Done(c) /\ Wired(c)' = Wired(c) /\ (AppFirst(c)' <=> AppFirst(c))
  BY <1>4, GotoIs DEF IInv, TypeInv
<1>7. /\ UNCHANGED <<index, creds, tokens, live, residue, ran, dispVars>>
      /\ status' = [status EXCEPT ![s] = "completed"]
  BY DEF MarkCompleted, daoVars, histVars
<1>8. status'[s] = "completed" /\ \A r \in Calls \ {s} : status'[r] = status[r]
  BY <1>2, <1>7 DEF IInv, TypeInv, SagaType
<1>9. Moves(c, s)
  BY <1>1, <1>4, <1>6, <1>7, <1>8 DEF Moves
<1>10. TypeInv'
  BY <1>2, <1>6, <1>7 DEF IInv, TypeInv, SagaType, DispType, dispVars
<1>11. Done(c) = ToSet(Wired(c))
  <2>1. Wired(c) \in Seq(AllSteps)
    BY WiredIs DEF IInv, TypeInv
  <2>2. DOMAIN Wired(c) = 1..Len(Wired(c))
    BY <2>1
  <2> QED BY <1>3, <2>2 DEF Done, ToSet
<1>12. \A x \in ToSet(Wired(c)) : Of(s, x)' # {}
  BY <1>1, <1>2, <1>7, <1>11 DEF Work, Of
<1>13. Here(c, s)'
  BY <1>2, <1>3, <1>4, <1>6, <1>7, <1>8, <1>12 DEF Here
<1> QED BY <1>2, <1>9, <1>10, <1>13, MovesKeeps

(* MarkFailed: the completed steps are what there is to undo. *)
LEMMA MarkFailedKeeps ==
  ASSUME IInv, NEW c \in Calls, NEW s \in Calls, call[c].saga = s, MarkFailed(c),
         UNCHANGED dispVars
  PROVE  IInv'
<1>1. call[c].pc = "failed" /\ call[c].pc \in AtWork
  BY DEF MarkFailed, At, AtWork
<1>2. s \in Calls /\ Work(c, s) /\ Wired(s) = Wired(c)
      /\ live[s] \subseteq ToSet(Wired(c)) \X Calls /\ residue[s] \subseteq ToSet(Wired(c))
  BY <1>1, AtWorkIs
<1>3. call[c].done \in 0..Len(Wired(c))
  BY DEF IInv, StatusInv
<1>4. Goto(c, "compensate") /\ "compensate" \in AtWork /\ "compensate" \notin Ended
  BY DEF MarkFailed, AtWork, Ended
<1>6. /\ CallType' /\ call'[c].pc = "compensate"
      /\ \A d \in Calls \ {c} : call'[d] = call[d]
      /\ call'[c].kind = call[c].kind /\ call'[c].token = call[c].token
      /\ call'[c].saga = call[c].saga /\ call'[c].done = call[c].done
      /\ Done(c)' = Done(c) /\ Wired(c)' = Wired(c) /\ (AppFirst(c)' <=> AppFirst(c))
  BY <1>4, GotoIs DEF IInv, TypeInv
<1>7. /\ UNCHANGED <<index, creds, tokens, live, residue, ran, dispVars>>
      /\ status' = [status EXCEPT ![s] = "failed"]
  BY DEF MarkFailed, daoVars, histVars
<1>8. status'[s] = "failed" /\ \A r \in Calls \ {s} : status'[r] = status[r]
  BY <1>2, <1>7 DEF IInv, TypeInv, SagaType
<1>9. Moves(c, s)
  BY <1>1, <1>4, <1>6, <1>7, <1>8 DEF Moves
<1>10. TypeInv'
  BY <1>2, <1>6, <1>7 DEF IInv, TypeInv, SagaType, DispType, dispVars
<1>11. Work(c, s)'
  BY <1>1, <1>2, <1>6, <1>7, WorkStays
<1>12. Here(c, s)'
  BY <1>2, <1>3, <1>4, <1>6, <1>7, <1>8, <1>11 DEF Here
<1> QED BY <1>2, <1>9, <1>10, <1>12, MovesKeeps

(* Compensated: with nothing left to undo, what lives has its residue. *)
LEMMA CompensatedKeeps ==
  ASSUME IInv, NEW c \in Calls, NEW s \in Calls, call[c].saga = s, Compensated(c),
         UNCHANGED dispVars
  PROVE  IInv'
<1>1. call[c].pc = "compensate" /\ call[c].pc \in AtWork /\ call[c].done = 0
  BY DEF Compensated, At, AtWork
<1>2. s \in Calls /\ Work(c, s) /\ Wired(s) = Wired(c)
      /\ live[s] \subseteq ToSet(Wired(c)) \X Calls /\ residue[s] \subseteq ToSet(Wired(c))
  BY <1>1, AtWorkIs
<1>3. status[s] = "failed" /\ call[c].done \in 0..Len(Wired(c))
  BY <1>1 DEF IInv, StatusInv
<1>4. Goto(c, "error") /\ "error" \in Ended /\ "error" \notin AtWork
  BY DEF Compensated, AtWork, Ended
<1>6. /\ CallType' /\ call'[c].pc = "error"
      /\ \A d \in Calls \ {c} : call'[d] = call[d]
      /\ call'[c].kind = call[c].kind /\ call'[c].token = call[c].token
      /\ call'[c].saga = call[c].saga /\ call'[c].done = call[c].done
      /\ Done(c)' = Done(c) /\ Wired(c)' = Wired(c) /\ (AppFirst(c)' <=> AppFirst(c))
  BY <1>4, GotoIs DEF IInv, TypeInv
<1>7. UNCHANGED <<status, index, creds, tokens, live, residue, ran, dispVars>>
  BY DEF Compensated, daoVars, histVars
<1>9. Moves(c, s)
  BY <1>1, <1>3, <1>4, <1>6, <1>7 DEF Moves
<1>10. TypeInv'
  BY <1>6, <1>7 DEF IInv, TypeInv, SagaType, DispType, dispVars
<1>11. Done(c) = {}
  BY <1>1 DEF Done
<1>12. /\ \A e \in live[s] : \/ e[1] \in residue[s] \cup ToSet(RetireSteps)
                             \/ e[1] = "bot_profile" /\ "create_app" \in residue[s]
       /\ tokens[s] # None => "create_app" \in residue[s]
  BY <1>2, <1>11 DEF Work, Undoable
<1>13. Here(c, s)'
  BY <1>2, <1>3, <1>4, <1>6, <1>7, <1>12 DEF Here
<1> QED BY <1>2, <1>9, <1>10, <1>13, MovesKeeps

-----------------------------------------------------------------------------
(* Execute.  The step in hand, and what the checks before it rely on. *)
LEMMA StepIs ==
  ASSUME IInv, NEW c \in Calls, NEW s \in Calls, call[c].saga = s, call[c].pc = "execute"
  PROVE  /\ call[c].pc \in AtWork /\ status[s] = "in_flight" /\ Work(c, s)
         /\ call[c].done \in Nat /\ call[c].done + 1 \in 1..Len(Wired(c))
         /\ Step(c) \in ToSet(Wired(c)) /\ Step(c) \in AllSteps
         /\ Step(c) = "bot_profile" => "create_app" \in Done(c)
         /\ creds[s] # None <=> "create_app" \in Done(c)
         /\ "oauth_install" \in Done(c) => "create_app" \in Done(c)
         /\ \A x \in Done(c) : Of(s, x) # {}
         /\ ToSet(Wired(c)) \subseteq AllSteps
         /\ live[s] \subseteq ToSet(Wired(c)) \X Calls /\ residue[s] \subseteq ToSet(Wired(c))
<1>1. call[c].pc \in AtWork
  BY DEF AtWork
<1>2. /\ Work(c, s) /\ live[s] \subseteq ToSet(Wired(c)) \X Calls
      /\ residue[s] \subseteq ToSet(Wired(c))
  BY <1>1, AtWorkIs
<1>3. status[s] = "in_flight" /\ call[c].done \in 0..Len(Wired(c))
      /\ call[c].done < Len(Wired(c))
  BY DEF IInv, StatusInv
<1>4. /\ Wired(c) \in Seq(AllSteps) /\ ToSet(Wired(c)) \subseteq AllSteps
      /\ \A i \in DOMAIN Wired(c) : Wired(c)[i] = "bot_profile" =>
           \E j \in 1..(i - 1) : Wired(c)[j] = "create_app"
  BY WiredIs DEF IInv, TypeInv
<1>5. Len(Wired(c)) \in Nat /\ DOMAIN Wired(c) = 1..Len(Wired(c))
  BY <1>4
<1>6. call[c].done \in Nat /\ call[c].done + 1 \in 1..Len(Wired(c))
  BY <1>3, <1>5
<1>7. Step(c) \in ToSet(Wired(c))
  BY <1>5, <1>6 DEF Step, ToSet
<1>8. Step(c) = "bot_profile" => "create_app" \in Done(c)
  <2>1. (call[c].done + 1) - 1 = call[c].done
    BY <1>6
  <2> QED BY <1>4, <1>5, <1>6, <2>1 DEF Step, Done
<1>9. /\ creds[s] # None <=> "create_app" \in Done(c)
      /\ "oauth_install" \in Done(c) => "create_app" \in Done(c)
      /\ \A x \in Done(c) : Of(s, x) # {}
  BY <1>2 DEF Work
<1> QED BY <1>1, <1>2, <1>3, <1>4, <1>6, <1>7, <1>8, <1>9

(* The rows and artefacts of one saga may change; the run is recorded. *)
Touches(c, s) ==
  /\ live' \in [Calls -> SUBSET (AllSteps \X Calls)]
  /\ residue' \in [Calls -> SUBSET AllSteps]
  /\ creds' \in [Calls -> Calls \cup {None}] /\ tokens' \in [Calls -> Calls \cup {None}]
  /\ \A r \in Calls \ {s} : /\ live'[r] = live[r] /\ residue'[r] = residue[r]
                            /\ creds'[r] = creds[r] /\ tokens'[r] = tokens[r]

(* Produce and Leave add the step at hand to their own saga only. *)
LEMMA ProduceIs ==
  ASSUME TypeInv, NEW c \in Calls, NEW s \in Calls, call[c].saga = s, Step(c) \in AllSteps
  PROVE  /\ Produce(c) => /\ live' \in [Calls -> SUBSET (AllSteps \X Calls)]
                          /\ live'[s] = live[s] \cup {<<Step(c), c>>}
                          /\ \A r \in Calls \ {s} : live'[r] = live[r]
         /\ Leave(c) => /\ residue' \in [Calls -> SUBSET AllSteps]
                        /\ residue'[s] = residue[s] \cup {Step(c)}
                        /\ \A r \in Calls \ {s} : residue'[r] = residue[r]
         /\ Record(c) => ran' = ran \cup {<<s, Step(c), c>>} /\ ran' \subseteq Calls \X AllSteps \X Calls
         /\ PutCreds(c) => /\ creds' \in [Calls -> Calls \cup {None}] /\ creds'[s] = c
                           /\ \A r \in Calls \ {s} : creds'[r] = creds[r]
         /\ PutInstallTokens(c) => /\ tokens' \in [Calls -> Calls \cup {None}] /\ tokens'[s] = c
                                   /\ \A r \in Calls \ {s} : tokens'[r] = tokens[r]
<1> USE DEF TypeInv, SagaType
<1>1. Produce(c) => /\ live' \in [Calls -> SUBSET (AllSteps \X Calls)]
                    /\ live'[s] = live[s] \cup {<<Step(c), c>>}
                    /\ \A r \in Calls \ {s} : live'[r] = live[r]
  BY DEF Produce
<1>2. Leave(c) => /\ residue' \in [Calls -> SUBSET AllSteps]
                  /\ residue'[s] = residue[s] \cup {Step(c)}
                  /\ \A r \in Calls \ {s} : residue'[r] = residue[r]
  BY DEF Leave
<1>3. Record(c) => ran' = ran \cup {<<s, Step(c), c>>} /\ ran' \subseteq Calls \X AllSteps \X Calls
  BY DEF Record
<1>4. PutCreds(c) => /\ creds' \in [Calls -> Calls \cup {None}] /\ creds'[s] = c
                     /\ \A r \in Calls \ {s} : creds'[r] = creds[r]
  BY DEF PutCreds
<1>5. PutInstallTokens(c) => /\ tokens' \in [Calls -> Calls \cup {None}] /\ tokens'[s] = c
                             /\ \A r \in Calls \ {s} : tokens'[r] = tokens[r]
  BY DEF PutInstallTokens
<1> QED BY <1>1, <1>2, <1>3, <1>4, <1>5

(* A failed attempt adds an artefact only together with its residue, and   *)
(* rows only as the sinks do.                                              *)
Tried(c, s) ==
  LET x == Step(c) IN
  /\ Touches(c, s)
  /\ live'[s] \subseteq live[s] \cup {<<x, c>>} /\ live[s] \subseteq live'[s]
  /\ residue'[s] \subseteq residue[s] \cup {x} /\ residue[s] \subseteq residue'[s]
  /\ live'[s] # live[s] => x \in residue'[s]
  /\ creds'[s] = creds[s] \/ (x = "create_app" /\ creds[s] = None /\ creds'[s] = c)
  /\ tokens'[s] = tokens[s] \/ (x = "oauth_install" /\ creds[s] # None /\ tokens'[s] = c)

(* A step that was tried and did not complete. *)
LEMMA TriedKeeps ==
  ASSUME IInv, NEW c \in Calls, NEW s \in Calls, call[c].saga = s, call[c].pc = "execute",
         Tried(c, s), Record(c), Goto(c, "failed"), UNCHANGED <<status, index, dispVars>>
  PROVE  IInv'
<1> DEFINE x == Step(c)
<1>1. /\ call[c].pc \in AtWork /\ status[s] = "in_flight" /\ Work(c, s)
      /\ call[c].done + 1 \in 1..Len(Wired(c)) /\ call[c].done \in Nat
      /\ x \in ToSet(Wired(c)) /\ x \in AllSteps
      /\ creds[s] # None <=> "create_app" \in Done(c)
      /\ live[s] \subseteq ToSet(Wired(c)) \X Calls /\ residue[s] \subseteq ToSet(Wired(c))
  BY StepIs
<1>2. ran' = ran \cup {<<s, x, c>>} /\ ran' \subseteq Calls \X AllSteps \X Calls
  BY <1>1, ProduceIs DEF IInv
<1>3. "failed" \in AtWork /\ "failed" \notin Ended
  BY DEF AtWork, Ended
<1>4. /\ CallType' /\ call'[c].pc = "failed"
      /\ \A d \in Calls \ {c} : call'[d] = call[d]
      /\ call'[c].kind = call[c].kind /\ call'[c].token = call[c].token
      /\ call'[c].saga = call[c].saga /\ call'[c].done = call[c].done
      /\ Done(c)' = Done(c) /\ Wired(c)' = Wired(c) /\ (AppFirst(c)' <=> AppFirst(c))
  BY <1>3, GotoIs DEF IInv, TypeInv
<1>5. Touches(c, s)
  BY DEF Tried
<1>6. \A a \in ran' : a \in ran \/ (a[1] = s /\ a[3] = c)
  BY <1>2
<1>7. Moves(c, s)
  BY <1>1, <1>3, <1>4, <1>5, <1>6 DEF Moves, Touches
<1>8. TypeInv'
  BY <1>2, <1>4, <1>5 DEF IInv, TypeInv, SagaType, DispType, dispVars, Touches
<1>9. Work(c, s)'
  <2>1. /\ creds'[s] = creds[s] \/ (x = "create_app" /\ creds[s] = None /\ creds'[s] = c)
        /\ tokens'[s] = tokens[s] \/ (x = "oauth_install" /\ creds[s] # None /\ tokens'[s] = c)
        /\ residue[s] \subseteq residue'[s]
    BY DEF Tried
  <2>2. \A e \in live'[s] : e \in live[s] \/ (e = <<x, c>> /\ x \in residue'[s])
    BY DEF Tried
  <2>3. \A e \in live'[s] : e[2] = c
    BY <1>1, <2>2 DEF Work
  <2>4. creds'[s] \in {None, c} /\ tokens'[s] \in {None, c}
    BY <1>1, <2>1 DEF Work
  <2>5. \A a \in ran' : a[1] = s => a[3] = c
    BY <1>1, <1>6 DEF Work
  <2>6. ASSUME NEW e \in live[s], Undoable(c, s, e) PROVE Undoable(c, s, e)'
    <3>1. CASE e[1] = "bot_profile"
      <4>1. creds[s] # None => creds'[s] # None
        BY <2>1
      <4> QED BY <1>4, <2>1, <2>6, <3>1, <4>1 DEF Undoable
    <3>2. CASE e[1] # "bot_profile"
      <4>1. creds[s] = c => creds'[s] = c
        BY <2>1, NoneAssumption
      <4>2. tokens[s] = c => tokens'[s] = c
        BY <2>1
      <4> QED BY <1>4, <2>6, <3>2, <4>1, <4>2 DEF Undoable
    <3> QED BY <3>1, <3>2
  <2>7. \A e \in live'[s] :
          e[1] \in residue'[s] \cup ToSet(RetireSteps) \/ Undoable(c, s, e)'
    <3>1. ASSUME NEW e \in live'[s], e \in live[s]
          PROVE  e[1] \in residue'[s] \cup ToSet(RetireSteps) \/ Undoable(c, s, e)'
      BY <1>1, <2>1, <2>6, <3>1 DEF Work
    <3>2. ASSUME NEW e \in live'[s], e \notin live[s] PROVE e[1] \in residue'[s]
      BY <2>2, <3>2
    <3> QED BY <3>1, <3>2
  <2>8. tokens'[s] # None => "create_app" \in Done(c) \cup residue'[s]
    BY <1>1, <2>1 DEF Work
  <2>9. call'[c].pc \notin {"run", "execute"}
    BY <1>4
  <2> QED BY <1>1, <1>4, <2>3, <2>4, <2>5, <2>7, <2>8, <2>9 DEF Work
<1>10. Here(c, s)'
  <2>1. /\ live'[s] \subseteq ToSet(Wired(c)) \X Calls /\ residue'[s] \subseteq ToSet(Wired(c))
    BY <1>1 DEF Tried
  <2>2. Len(Wired(c)) \in Nat
    BY WiredIs DEF IInv, TypeInv
  <2>3. call[c].done \in 0..Len(Wired(c))
    BY <1>1, <2>2
  <2> QED BY <1>1, <1>3, <1>4, <1>9, <2>1, <2>3 DEF Here
<1> QED BY <1>7, <1>8, <1>10, MovesKeeps

(* The three ways an attempt fails *)
LEMMA FailKeeps ==
  ASSUME IInv, NEW c \in Calls, NEW s \in Calls, call[c].saga = s,
         ExecuteFail(c) \/ CreateAppPartial(c) \/ InstallPartial(c), UNCHANGED dispVars
  PROVE  IInv'
<1> DEFINE x == Step(c)
<1>1. /\ call[c].pc = "execute" /\ Goto(c, "failed") /\ Record(c)
      /\ UNCHANGED <<status, index, dispVars>>
  BY DEF ExecuteFail, CreateAppPartial, InstallPartial, At
<1>2. x \in AllSteps
  BY <1>1, StepIs
<1>3. /\ Produce(c) => /\ live' \in [Calls -> SUBSET (AllSteps \X Calls)]
                       /\ live'[s] = live[s] \cup {<<x, c>>}
                       /\ \A r \in Calls \ {s} : live'[r] = live[r]
      /\ Leave(c) => /\ residue' \in [Calls -> SUBSET AllSteps]
                     /\ residue'[s] = residue[s] \cup {x}
                     /\ \A r \in Calls \ {s} : residue'[r] = residue[r]
      /\ PutCreds(c) => /\ creds' \in [Calls -> Calls \cup {None}] /\ creds'[s] = c
                        /\ \A r \in Calls \ {s} : creds'[r] = creds[r]
      /\ PutInstallTokens(c) => /\ tokens' \in [Calls -> Calls \cup {None}] /\ tokens'[s] = c
                                /\ \A r \in Calls \ {s} : tokens'[r] = tokens[r]
  BY <1>2, ProduceIs DEF IInv
<1>4. /\ live \in [Calls -> SUBSET (AllSteps \X Calls)]
      /\ residue \in [Calls -> SUBSET AllSteps]
      /\ creds \in [Calls -> Calls \cup {None}] /\ tokens \in [Calls -> Calls \cup {None}]
  BY DEF IInv, TypeInv, SagaType
<1>5. UNCHANGED <<live, residue>> \/ (Produce(c) /\ Leave(c))
  BY DEF ExecuteFail, CreateAppPartial, InstallPartial
<1>6. \/ UNCHANGED <<creds, tokens>>
      \/ x = "create_app" /\ creds[s] = None /\ PutCreds(c) /\ UNCHANGED tokens
      \/ x = "oauth_install" /\ creds[s] # None /\ PutInstallTokens(c) /\ UNCHANGED creds
  <2>1. CASE ExecuteFail(c)
    BY <2>1 DEF ExecuteFail, daoVars
  <2>2. CASE CreateAppPartial(c)
    BY <2>2 DEF CreateAppPartial, Sinks, daoVars
  <2>3. CASE InstallPartial(c)
    BY <2>3 DEF InstallPartial, Ready, InstallReady, Sinks, daoVars
  <2> QED BY <2>1, <2>2, <2>3
<1>7. /\ live' \in [Calls -> SUBSET (AllSteps \X Calls)]
      /\ residue' \in [Calls -> SUBSET AllSteps]
      /\ \A r \in Calls \ {s} : live'[r] = live[r] /\ residue'[r] = residue[r]
      /\ live'[s] \subseteq live[s] \cup {<<x, c>>} /\ live[s] \subseteq live'[s]
      /\ residue'[s] \subseteq residue[s] \cup {x} /\ residue[s] \subseteq residue'[s]
      /\ live'[s] # live[s] => x \in residue'[s]
  BY <1>3, <1>4, <1>5
<1>8. /\ creds' \in [Calls -> Calls \cup {None}] /\ tokens' \in [Calls -> Calls \cup {None}]
      /\ \A r \in Calls \ {s} : creds'[r] = creds[r] /\ tokens'[r] = tokens[r]
      /\ creds'[s] = creds[s] \/ (x = "create_app" /\ creds[s] = None /\ creds'[s] = c)
      /\ tokens'[s] = tokens[s] \/ (x = "oauth_install" /\ creds[s] # None /\ tokens'[s] = c)
  BY <1>3, <1>4, <1>6
<1>9. Tried(c, s)
  BY <1>7, <1>8 DEF Tried, Touches
<1> QED BY <1>1, <1>9, TriedKeeps

(* The values of a function over one index more. *)
LEMMA OneMore ==
  ASSUME NEW f, NEW n \in Nat
  PROVE  {f[i] : i \in 1..(n + 1)} = {f[i] : i \in 1..n} \cup {f[n + 1]}
<1>1. \A i : i \in 1..(n + 1) <=> i \in 1..n \/ i = n + 1
  OBVIOUS
<1>2. 1..(n + 1) = (1..n) \cup {n + 1}
  BY <1>1
<1> QED BY <1>2, Zenon

(* A step that succeeds: its artefact is there, and named by the rows its  *)
(* clean-up will read.                                                     *)
LEMMA ExecuteOkKeeps ==
  ASSUME IInv, NEW c \in Calls, NEW s \in Calls, call[c].saga = s,
         NEW x, x = Step(c), ExecuteOk(c), UNCHANGED dispVars
  PROVE  IInv'
<1>1. /\ call[c].pc = "execute" /\ Ready(c) /\ Produce(c) /\ Sinks(c) /\ Record(c)
      /\ UNCHANGED <<status, index, residue>>
  BY DEF ExecuteOk, At
<1>2. /\ call[c].pc \in AtWork /\ status[s] = "in_flight" /\ Work(c, s)
      /\ call[c].done \in Nat /\ call[c].done + 1 \in 1..Len(Wired(c))
      /\ x \in ToSet(Wired(c)) /\ x \in AllSteps
      /\ x = "bot_profile" => "create_app" \in Done(c)
      /\ creds[s] # None <=> "create_app" \in Done(c)
      /\ "oauth_install" \in Done(c) => "create_app" \in Done(c)
      /\ \A y \in Done(c) : Of(s, y) # {}
      /\ live[s] \subseteq ToSet(Wired(c)) \X Calls /\ residue[s] \subseteq ToSet(Wired(c))
  BY <1>1, StepIs
<1>3. /\ live' \in [Calls -> SUBSET (AllSteps \X Calls)]
      /\ live'[s] = live[s] \cup {<<x, c>>}
      /\ \A r \in Calls \ {s} : live'[r] = live[r]
      /\ ran' = ran \cup {<<s, x, c>>} /\ ran' \subseteq Calls \X AllSteps \X Calls
  BY <1>1, <1>2, ProduceIs DEF IInv
<1>4. /\ creds \in [Calls -> Calls \cup {None}] /\ tokens \in [Calls -> Calls \cup {None}]
      /\ residue \in [Calls -> SUBSET AllSteps]
  BY DEF IInv, TypeInv, SagaType
<1>5. \/ x = "create_app" /\ creds[s] = None /\ PutCreds(c) /\ UNCHANGED tokens
      \/ x = "oauth_install" /\ creds[s] # None /\ PutInstallTokens(c) /\ UNCHANGED creds
      \/ x \notin {"create_app", "oauth_install"} /\ UNCHANGED <<creds, tokens>>
  BY <1>1 DEF Sinks, Ready, InstallReady, daoVars
<1>6. /\ PutCreds(c) => /\ creds' \in [Calls -> Calls \cup {None}] /\ creds'[s] = c
                        /\ \A r \in Calls \ {s} : creds'[r] = creds[r]
      /\ PutInstallTokens(c) => /\ tokens' \in [Calls -> Calls \cup {None}] /\ tokens'[s] = c
                                /\ \A r \in Calls \ {s} : tokens'[r] = tokens[r]
  BY <1>2, ProduceIs DEF IInv
<1>7. /\ creds' \in [Calls -> Calls \cup {None}] /\ tokens' \in [Calls -> Calls \cup {None}]
      /\ \A r \in Calls \ {s} : creds'[r] = creds[r] /\ tokens'[r] = tokens[r]
      /\ creds'[s] = IF x = "create_app" THEN c ELSE creds[s]
      /\ tokens'[s] = IF x = "oauth_install" THEN c ELSE tokens[s]
      /\ x = "create_app" => creds[s] = None
      /\ x = "oauth_install" => creds[s] # None
  BY <1>4, <1>5, <1>6
<1>8. /\ CallType' /\ call'[c].pc = "run" /\ call'[c].done = call[c].done + 1
      /\ \A d \in Calls \ {c} : call'[d] = call[d]
      /\ call'[c].kind = call[c].kind /\ call'[c].token = call[c].token
      /\ call'[c].saga = s
  <2>1. /\ call \in [Calls ->
             [kind : {"spawn", "operator", "retire"}, pc : {"idle", "insert"} \cup AtWork \cup Ended,
              token : Tokens \cup {None}, saga : Calls \cup {None}, done : Nat, code : BOOLEAN,
              uri : {"missing", "empty", "set"}]]
        /\ "run" \in AtWork
    BY DEF IInv, TypeInv, CallType, AtWork
  <2>2. PICK u \in {"missing", "empty", "set"} :
          call' = [call EXCEPT ![c].pc = "run", ![c].done = @ + 1, ![c].uri = u]
    <3>1. call' = [call EXCEPT ![c].pc = "run", ![c].done = @ + 1,
             ![c].uri = IF Step(c) = "notebook_archive" THEN "set" ELSE @]
      BY DEF ExecuteOk
    <3>2. CASE Step(c) = "notebook_archive"
      BY <3>1, <3>2
    <3>3. CASE Step(c) # "notebook_archive"
      BY <2>1, <3>1, <3>3
    <3> QED BY <3>2, <3>3
  <2>3. call[c].done + 1 \in Nat
    BY <1>2
  <2> QED BY <2>1, <2>2, <2>3 DEF CallType
<1>9. Wired(c)' = Wired(c)
  BY <1>8, WiredSame
<1>10. Done(c)' = Done(c) \cup {x}
  <2>2. Done(c)' = {Wired(c)[i] : i \in 1..(call[c].done + 1)}
    BY <1>8, <1>9 DEF Done
  <2>3. x = Wired(c)[call[c].done + 1]
    BY DEF Step
  <2> DEFINE f == Wired(c)
             n == call[c].done
  <2>4. {f[i] : i \in 1..(n + 1)} = {f[i] : i \in 1..n} \cup {f[n + 1]}
    <3>1. n \in Nat
      BY <1>2
    <3> HIDE DEF f, n
    <3> QED BY <3>1, OneMore
  <2>5. Done(c) = {f[i] : i \in 1..n}
    BY DEF Done
  <2> QED BY <2>2, <2>3, <2>4, <2>5
<1>11. Moves(c, s)
  <2>1. \A a \in ran' : a \in ran \/ (a[1] = s /\ a[3] = c)
    BY <1>3
  <2>2. call'[c].pc \in AtWork \ {"approve"}
    BY <1>8 DEF AtWork
  <2> QED BY <1>1, <1>2, <1>3, <1>7, <1>8, <2>1, <2>2 DEF Moves
<1>12. TypeInv'
  BY <1>1, <1>3, <1>4, <1>7, <1>8 DEF IInv, TypeInv, SagaType, DispType, dispVars
<1>13. Work(c, s)'
  <2>1. \A e \in live'[s] : e[2] = c
    BY <1>2, <1>3 DEF Work
  <2>2. creds'[s] \in {None, c} /\ tokens'[s] \in {None, c}
    BY <1>2, <1>7 DEF Work
  <2>3. \A a \in ran' : a[1] = s => a[3] = c
    BY <1>2, <1>3 DEF Work
  <2>4. c # None
    BY NoneAssumption
  <2>5. ASSUME NEW e \in live'[s]
        PROVE  e[1] \in residue'[s] \cup ToSet(RetireSteps) \/ Undoable(c, s, e)'
    <3>1. CASE e = <<x, c>>
      <4>1. CASE x = "bot_profile"
        BY <1>2, <1>7, <1>10, <2>4, <3>1, <4>1 DEF Undoable
      <4>2. CASE x # "bot_profile"
        BY <1>7, <1>10, <3>1, <4>2 DEF Undoable
      <4> QED BY <4>1, <4>2
    <3>2. CASE e \in live[s] /\ Undoable(c, s, e)
      <4>1. CASE e[1] = "bot_profile"
        BY <1>1, <1>7, <1>10, <2>4, <3>2, <4>1 DEF Undoable
      <4>2. CASE e[1] # "bot_profile"
        <5>1. (creds[s] = c => creds'[s] = c) /\ (tokens[s] = c => tokens'[s] = c)
          BY <1>7
        <5> QED BY <1>10, <3>2, <4>2, <5>1 DEF Undoable
      <4> QED BY <4>1, <4>2
    <3> QED BY <1>1, <1>2, <1>3, <3>1, <3>2 DEF Work
  <2>6. tokens'[s] # None => "create_app" \in Done(c)' \cup residue'[s]
    BY <1>1, <1>2, <1>7, <1>10 DEF Work
  <2>7. \A y \in Done(c)' : Of(s, y)' # {}
    <3>1. ASSUME NEW y \in Done(c) PROVE Of(s, y)' # {}
      BY <1>2, <1>3 DEF Of
    <3>2. <<x, c>> \in Of(s, x)'
      BY <1>3 DEF Of
    <3> QED BY <1>10, <3>1, <3>2
  <2>8. /\ creds'[s] # None <=> "create_app" \in Done(c)'
        /\ "oauth_install" \in Done(c)' => "create_app" \in Done(c)'
    BY <1>2, <1>7, <1>10, <2>4
  <2>9. AppFirst(c)'
    <3>1. ASSUME NEW i \in 1..call[c].done
          PROVE  /\ Wired(c)[i] \in Done(c)
                 /\ i \in Nat /\ i <= call[c].done /\ i <= call[c].done + 1
      BY <1>2 DEF Done
    <3>2. ASSUME NEW i \in 1..(call[c].done + 1), NEW j \in 1..(call[c].done + 1),
                 Wired(c)[i] = "create_app",
                 Wired(c)[j] \in {"create_app", "oauth_install"}
          PROVE  i <= j
      <4>1. CASE i \in 1..call[c].done /\ j \in 1..call[c].done
        BY <1>2, <3>2, <4>1 DEF Work, AppFirst
      <4>2. CASE j = call[c].done + 1
        BY <1>2, <4>2
      <4>3. CASE i = call[c].done + 1 /\ j \in 1..call[c].done
        <5>1. x = "create_app" /\ creds[s] = None
          BY <1>7, <3>2, <4>3 DEF Step
        <5>2. "create_app" \in Done(c)
          BY <1>2, <3>1, <3>2, <4>3
        <5> QED BY <1>2, <5>1, <5>2
      <4>4. i \in 1..call[c].done \/ i = call[c].done + 1
        BY <1>2
      <4>5. j \in 1..call[c].done \/ j = call[c].done + 1
        BY <1>2
      <4> QED BY <4>1, <4>2, <4>3, <4>4, <4>5
    <3> QED BY <1>8, <1>9, <3>2 DEF AppFirst
  <2> QED BY <2>1, <2>2, <2>3, <2>5, <2>6, <2>7, <2>8, <2>9 DEF Work
<1>14. Here(c, s)'
  <2>1. Len(Wired(c)) \in Nat
    BY WiredIs DEF IInv, TypeInv
  <2>2. call'[c].done \in 0..Len(Wired(c))
    BY <1>2, <1>8, <2>1
  <2>3. live'[s] \subseteq ToSet(Wired(c)) \X Calls /\ residue'[s] \subseteq ToSet(Wired(c))
    BY <1>1, <1>2, <1>3
  <2> QED BY <1>1, <1>2, <1>8, <1>9, <1>13, <2>2, <2>3 DEF Here
<1> QED BY <1>11, <1>12, <1>14, MovesKeeps

-----------------------------------------------------------------------------
(* The clean-up.  What a step's compensator leaves is not that step's, or  *)
(* its failure is on record; the rows it wipes are not needed further on.  *)
LEMMA CompensateKeeps ==
  ASSUME IInv, NEW c \in Calls, NEW s \in Calls, call[c].saga = s,
         NEW x, x = Wired(c)[call[c].done], Compensate(c), UNCHANGED dispVars
  PROVE  IInv'
<1>1. /\ call[c].pc = "compensate" /\ call[c].pc \in AtWork
      /\ call[c].done > 0 /\ UndoStep(c, x)
      /\ call' = [call EXCEPT ![c].done = @ - 1]
  BY DEF Compensate, At, AtWork
<1>2. /\ Work(c, s) /\ live[s] \subseteq ToSet(Wired(c)) \X Calls
      /\ residue[s] \subseteq ToSet(Wired(c))
  BY <1>1, AtWorkIs
<1>3. status[s] = "failed" /\ call[c].done \in 0..Len(Wired(c))
  BY <1>1 DEF IInv, StatusInv
<1>4. Wired(c) \in Seq(AllSteps) /\ ToSet(Wired(c)) \subseteq AllSteps
  BY WiredIs DEF IInv, TypeInv
<1>5. /\ call[c].done \in Nat /\ call[c].done - 1 \in Nat
      /\ call[c].done - 1 \in 0..Len(Wired(c)) /\ call[c].done \in DOMAIN Wired(c)
  <2>1. Len(Wired(c)) \in Nat /\ DOMAIN Wired(c) = 1..Len(Wired(c))
    BY <1>4
  <2> QED BY <1>1, <1>3, <2>1
<1>6. x \in ToSet(Wired(c)) /\ x \in AllSteps
  BY <1>4, <1>5 DEF ToSet
<1>7. /\ CallType' /\ call'[c].pc = "compensate" /\ call'[c].done = call[c].done - 1
      /\ \A d \in Calls \ {c} : call'[d] = call[d]
      /\ call'[c].kind = call[c].kind /\ call'[c].token = call[c].token
      /\ call'[c].saga = s
  BY <1>1, <1>5 DEF IInv, TypeInv, CallType
<1>8. Wired(c)' = Wired(c)
  BY <1>7, WiredSame
<1>9. Done(c) = Done(c)' \cup {x}
  <2> DEFINE f == Wired(c)
             n == call[c].done - 1
  <2>1. Done(c)' = {f[i] : i \in 1..n}
    BY <1>7, <1>8 DEF Done
  <2>2. n + 1 = call[c].done
    BY <1>5
  <2>3. Done(c) = {f[i] : i \in 1..(n + 1)} /\ x = f[n + 1]
    BY <2>2 DEF Done
  <2>4. {f[i] : i \in 1..(n + 1)} = {f[i] : i \in 1..n} \cup {f[n + 1]}
    <3>1. n \in Nat
      BY <1>5
    <3> HIDE DEF f, n
    <3> QED BY <3>1, OneMore
  <2> QED BY <2>1, <2>3, <2>4
<1>10. /\ live \in [Calls -> SUBSET (AllSteps \X Calls)]
       /\ residue \in [Calls -> SUBSET AllSteps]
       /\ creds \in [Calls -> Calls \cup {None}] /\ tokens \in [Calls -> Calls \cup {None}]
  BY DEF IInv, TypeInv, SagaType
<1>11. UNCHANGED <<status, index, ran>>
  BY <1>1 DEF UndoStep
<1>12. \/ /\ live' = [live EXCEPT ![s] = @ \ Undone(s, x)]
          /\ creds' = IF x = "create_app" THEN [creds EXCEPT ![s] = None] ELSE creds
          /\ tokens' = IF x \in {"create_app", "oauth_install"}
                         THEN [tokens EXCEPT ![s] = None] ELSE tokens
          /\ UNCHANGED residue
       \/ /\ residue' = [residue EXCEPT ![s] = @ \cup {x}]
          /\ tokens' = IF x = "oauth_install" THEN [tokens EXCEPT ![s] = None] ELSE tokens
          /\ UNCHANGED <<live, creds>>
  BY <1>1 DEF UndoStep, WipeCreds, WipeInstallTokens
<1>13. /\ live' \in [Calls -> SUBSET (AllSteps \X Calls)]
       /\ residue' \in [Calls -> SUBSET AllSteps]
       /\ creds' \in [Calls -> Calls \cup {None}] /\ tokens' \in [Calls -> Calls \cup {None}]
       /\ \A r \in Calls \ {s} : /\ live'[r] = live[r] /\ residue'[r] = residue[r]
                                 /\ creds'[r] = creds[r] /\ tokens'[r] = tokens[r]
  <2>1. live' \in [Calls -> SUBSET (AllSteps \X Calls)]
        /\ \A r \in Calls \ {s} : live'[r] = live[r]
    BY <1>10, <1>12
  <2>2. residue' \in [Calls -> SUBSET AllSteps] /\ \A r \in Calls \ {s} : residue'[r] = residue[r]
    BY <1>6, <1>10, <1>12
  <2>3. creds' \in [Calls -> Calls \cup {None}] /\ \A r \in Calls \ {s} : creds'[r] = creds[r]
    BY <1>10, <1>12
  <2>4. tokens' \in [Calls -> Calls \cup {None}] /\ \A r \in Calls \ {s} : tokens'[r] = tokens[r]
    BY <1>10, <1>12
  <2> QED BY <2>1, <2>2, <2>3, <2>4
<1>14. \/ /\ live'[s] = live[s] \ Undone(s, x) /\ residue'[s] = residue[s]
          /\ creds'[s] = IF x = "create_app" THEN None ELSE creds[s]
          /\ tokens'[s] = IF x \in {"create_app", "oauth_install"} THEN None ELSE tokens[s]
       \/ /\ live'[s] = live[s] /\ residue'[s] = residue[s] \cup {x}
          /\ creds'[s] = creds[s]
          /\ tokens'[s] = IF x = "oauth_install" THEN None ELSE tokens[s]
  BY <1>10, <1>12
<1>15. Moves(c, s)
  <2>1. call'[c].pc \in AtWork \ {"approve"}
    BY <1>7 DEF AtWork
  <2> QED BY <1>1, <1>3, <1>7, <1>11, <1>13, <2>1 DEF Moves
<1>16. TypeInv'
  BY <1>7, <1>11, <1>13 DEF IInv, TypeInv, SagaType, DispType, dispVars
<1>17. Work(c, s)'
  <2>1. live'[s] \subseteq live[s]
    BY <1>14
  <2>2. /\ \A e \in live'[s] : e[2] = c
        /\ creds'[s] \in {None, c} /\ tokens'[s] \in {None, c}
        /\ \A a \in ran' : a[1] = s => a[3] = c
    BY <1>2, <1>11, <1>14, <2>1 DEF Work
  <2>3. ASSUME NEW e \in live[s], Undoable(c, s, e), e \in live'[s]
        PROVE  e[1] \in residue'[s] \cup ToSet(RetireSteps) \/ Undoable(c, s, e)'
    <3>1. e = <<e[1], c>>
      BY <1>2, <1>10 DEF Work
    <3>2. c # None
      BY NoneAssumption
    <3>3. CASE /\ live'[s] = live[s] /\ residue'[s] = residue[s] \cup {x}
               /\ creds'[s] = creds[s]
               /\ tokens'[s] = IF x = "oauth_install" THEN None ELSE tokens[s]
      <4>1. CASE e[1] = "bot_profile"
        BY <1>9, <2>3, <3>3, <4>1 DEF Undoable
      <4>2. CASE e[1] = x
        BY <3>3, <4>2
      <4>3. CASE e[1] # "bot_profile" /\ e[1] # x
        BY <1>9, <2>3, <3>2, <3>3, <4>3 DEF Undoable
      <4> QED BY <4>1, <4>2, <4>3
    <3>4. CASE /\ live'[s] = live[s] \ Undone(s, x) /\ residue'[s] = residue[s]
               /\ creds'[s] = IF x = "create_app" THEN None ELSE creds[s]
               /\ tokens'[s] = IF x \in {"create_app", "oauth_install"} THEN None ELSE tokens[s]
      <4>1. e \notin Undone(s, x)
        BY <2>3, <3>4
      <4>2. CASE x = "create_app"
        <5>1. Undone(s, x) = IF creds[s] = None THEN {}
                             ELSE {<<"create_app", creds[s]>>} \cup Of(s, "bot_profile")
          BY <4>2 DEF Undone, TeardownApp
        <5>2. CASE e[1] = "bot_profile"
          <6>1. creds[s] # None => e \in Undone(s, x)
            BY <2>3, <5>1, <5>2 DEF Of
          <6> QED BY <2>3, <3>4, <4>1, <5>2, <6>1 DEF Undoable
        <5>3. e[1] # "create_app"
          BY <2>3, <3>1, <3>2, <4>1, <5>1 DEF Undoable
        <5>4. CASE e[1] # "bot_profile" /\ e[1] # "oauth_install"
          BY <1>9, <2>3, <4>2, <5>3, <5>4 DEF Undoable
        <5>5. e[1] # "oauth_install"
          <6>1. SUFFICES ASSUME e[1] = "oauth_install" PROVE FALSE
            OBVIOUS
          <6>2. "oauth_install" \in Done(c)'
            BY <1>9, <2>3, <4>2, <6>1 DEF Undoable
          <6>3. PICK j \in 1..(call[c].done - 1) : Wired(c)[j] = "oauth_install"
            BY <1>7, <1>8, <6>2 DEF Done
          <6>4. call[c].done <= j
            <7>1. call[c].done \in 1..call[c].done /\ j \in 1..call[c].done
              BY <1>1, <1>5, <6>3
            <7> QED BY <1>2, <4>2, <6>3, <7>1 DEF Work, AppFirst
          <6> QED BY <1>5, <6>3, <6>4
        <5> QED BY <5>2, <5>4, <5>5
      <4>3. CASE x = "oauth_install"
        <5>1. Undone(s, x) = IF tokens[s] = None THEN {} ELSE {<<"oauth_install", tokens[s]>>}
          BY <4>3 DEF Undone, Revoke
        <5>2. e[1] # "oauth_install"
          BY <2>3, <3>1, <3>2, <4>1, <5>1 DEF Undoable
        <5> QED BY <1>9, <2>3, <3>4, <4>3, <5>2 DEF Undoable
      <4>4. CASE x \in {"notebook_provision", "runtime_launch"}
        <5>1. Undone(s, x) = Of(s, x)
          BY <4>4 DEF Undone, ArchiveAndFlagForReview, TeardownRuntime
        <5>2. e[1] # x
          BY <2>3, <4>1, <5>1 DEF Of
        <5> QED BY <1>9, <2>3, <3>4, <4>4, <5>2 DEF Undoable
      <4>5. CASE x \notin {"create_app", "oauth_install", "notebook_provision", "runtime_launch"}
        <5>1. x \in ToSet(RetireSteps) \/ x = "bot_profile"
          BY <1>6, <4>5, StepNames DEF AllSteps
        <5>2. CASE e[1] = "bot_profile"
          BY <1>9, <2>3, <3>4, <4>5, <5>2 DEF Undoable
        <5>3. CASE e[1] # "bot_profile"
          BY <1>9, <2>3, <3>4, <4>5, <5>1, <5>3 DEF Undoable
        <5> QED BY <5>2, <5>3
      <4> QED BY <4>2, <4>3, <4>4, <4>5
    <3> QED BY <1>14, <3>3, <3>4
  <2>4. \A e \in live'[s] :
          e[1] \in residue'[s] \cup ToSet(RetireSteps) \/ Undoable(c, s, e)'
    <3>1. residue[s] \subseteq residue'[s]
      BY <1>14
    <3> QED BY <1>2, <2>1, <2>3, <3>1 DEF Work
  <2>5. tokens'[s] # None => "create_app" \in Done(c)' \cup residue'[s]
    BY <1>2, <1>9, <1>14 DEF Work
  <2>6. call'[c].pc \notin {"run", "execute"}
    BY <1>7
  <2>7. AppFirst(c)'
    <3>1. \A i \in 1..(call[c].done - 1) : i \in 1..call[c].done
      BY <1>5
    <3> QED BY <1>2, <1>7, <1>8, <3>1 DEF Work, AppFirst
  <2> QED BY <2>2, <2>4, <2>5, <2>6, <2>7 DEF Work
<1>18. Here(c, s)'
  <2>1. live'[s] \subseteq ToSet(Wired(c)) \X Calls /\ residue'[s] \subseteq ToSet(Wired(c))
    BY <1>2, <1>6, <1>14
  <2>2. "compensate" \notin Ended
    BY DEF Ended
  <2> QED BY <1>3, <1>5, <1>7, <1>8, <1>11, <1>17, <2>1, <2>2 DEF Here
<1> QED BY <1>15, <1>16, <1>18, MovesKeeps

-----------------------------------------------------------------------------
(* A call that begins, joins a saga, or is answered with a replay changes  *)
(* no saga but the one it inserts.                                         *)
Joins(c) ==
  /\ call[c].pc \in {"idle", "insert"}
  /\ \A d \in Calls \ {c} : call'[d] = call[d]
  /\ call'[c].done = 0 /\ call'[c].pc \in {"insert", "approve", "run", "replayed"}
  /\ call'[c].pc \in {"insert", "replayed"} => call'[c].saga = None
  /\ call'[c].pc \in {"approve", "run"} =>
       call'[c].saga \in Calls /\ status'[call'[c].saga] = "pending"
  /\ \A r \in Calls : status'[r] = status[r] \/ (r = c /\ status'[r] = "pending")
  /\ UNCHANGED <<creds, tokens, live, residue, ran>>

(* A call that begins or joins a saga has done nothing yet. *)
LEMMA JoinKeeps ==
  ASSUME IInv, NEW c \in Calls, Joins(c), TypeInv', ClickInv', OneCall', SagaInv'
  PROVE  IInv'
<1>1. call[c].saga = None /\ status[c] = "absent" /\ c # None
  BY NoneAssumption DEF Joins, IInv, SagaInv
<1>2. /\ live[c] = {} /\ residue[c] = {}
      /\ \A r \in Calls : status'[r] \in {"absent", "pending"} =>
           /\ status[r] \in {"absent", "pending"}
           /\ live[r] = {} /\ residue[r] = {} /\ creds[r] = None /\ tokens[r] = None
           /\ \A a \in ran : a[1] # r
  BY <1>1 DEF Joins, IInv, StatusInv
<1>3. ASSUME NEW d \in Calls, d # c
      PROVE  /\ call'[d] = call[d] /\ Wired(d)' = Wired(d) /\ Done(d)' = Done(d)
             /\ AppFirst(d)' <=> AppFirst(d)
             /\ call[d].saga # c /\ (call[d].saga # None => call[d].saga \in Calls)
             /\ call[d].saga # None => status'[call[d].saga] = status[call[d].saga]
  <2>1. call'[d] = call[d]
    BY <1>3 DEF Joins
  <2>2. Wired(d)' = Wired(d)
    BY <2>1, WiredSame
  <2>3. call[d].saga # None => call[d].saga \in Calls
    BY DEF IInv, TypeInv, CallType
  <2>4. call[d].saga # c
    BY <1>1 DEF IInv, SagaInv
  <2> QED BY <2>1, <2>2, <2>3, <2>4 DEF Joins, Done, AppFirst
<1>4. StatusInv'
  <2>1. ASSUME NEW d \in Calls, d # c
        PROVE  /\ call'[d].pc = "approve" => status'[call'[d].saga] = "pending"
               /\ call'[d].pc = "run" =>
                    \/ status'[call'[d].saga] = "in_flight"
                    \/ status'[call'[d].saga] = "pending" /\ call'[d].done = 0
               /\ call'[d].pc \in {"execute", "failed"} =>
                    status'[call'[d].saga] = "in_flight"
               /\ call'[d].pc = "compensate" => status'[call'[d].saga] = "failed"
               /\ call'[d].done \in 0..Len(Wired(d)')
               /\ call'[d].pc = "execute" => call'[d].done < Len(Wired(d)')
    <3>1. call[d].pc \in {"approve", "run", "execute", "failed", "compensate"} =>
            call[d].saga # None
      BY DEF IInv, SagaInv, AtWork
    <3> QED BY <1>3, <2>1, <3>1 DEF IInv, StatusInv
  <2>2. Len(Wired(c)') \in Nat
    <3>1. call'[c].kind \in {"spawn", "operator", "retire"}
      BY DEF TypeInv, CallType
    <3>2. Len(Steps) \in Nat /\ Len(SpawnSteps) \in Nat /\ Len(RetireSteps) \in Nat
      BY StepsAssumption, StepNames
    <3> QED BY <3>1, <3>2 DEF Wired
  <2>3. call'[c].done \in 0..Len(Wired(c)')
    BY <2>2 DEF Joins
  <2> QED BY <1>2, <2>1, <2>3 DEF StatusInv, Joins
<1>5. WorkInv'
  <2>1. ASSUME NEW d \in Calls, d # c, call'[d].pc \in AtWork
        PROVE  Work(d, call[d].saga)'
    <3>1. call'[d] = call[d] /\ Done(d)' = Done(d) /\ (AppFirst(d)' <=> AppFirst(d))
      BY <1>3, <2>1
    <3>2. Work(d, call[d].saga)
      BY <2>1, <3>1 DEF IInv, WorkInv
    <3>3. UNCHANGED <<creds, tokens, live, residue, ran>>
      BY DEF Joins
    <3>4. \A r : \A x : Of(r, x)' = Of(r, x)
      BY <3>3 DEF Of
    <3>5. \A r, e : Undoable(d, r, e)' <=> Undoable(d, r, e)
      BY <3>1, <3>3 DEF Undoable
    <3> QED BY <3>1, <3>2, <3>3, <3>4, <3>5 DEF Work
  <2>2. ASSUME NEW s \in Calls, call'[c].saga = s, call'[c].pc \in AtWork
        PROVE  Work(c, s)'
    <3>1. status'[s] = "pending" /\ call'[c].done = 0
      BY <2>2 DEF Joins, AtWork
    <3>2. /\ live'[s] = {} /\ residue'[s] = {} /\ creds'[s] = None /\ tokens'[s] = None
          /\ \A a \in ran' : a[1] # s
      BY <1>2, <3>1 DEF Joins
    <3>3. Done(c)' = {} /\ AppFirst(c)'
      BY <3>1 DEF Done, AppFirst
    <3> QED BY <3>2, <3>3 DEF Work
  <2>3. call'[c].pc \in AtWork => call'[c].saga \in Calls
    BY DEF Joins, AtWork
  <2>4. \A d \in Calls : d # c => call'[d].saga = call[d].saga
    BY <1>3
  <2> QED BY <2>1, <2>2, <2>3, <2>4 DEF WorkInv
<1>6. OwnSteps'
  <2>1. \A d \in Calls : d # c => Wired(d)' = Wired(d)
    BY <1>3
  <2> QED BY <1>2, <2>1 DEF OwnSteps, IInv, Joins
<1>7. ExecutedOnce'
  BY DEF IInv, ExecutedOnce, Joins
<1>8. SagaOutcome'
  <2>1. \A r \in Calls : status'[r] \in {"completed", "failed"} => r # c /\ status'[r] = status[r]
    BY <1>1 DEF Joins
  <2>2. \A r, x : Of(r, x)' = Of(r, x)
    BY DEF Of, Joins
  <2>3. CompletedIsWhole'
    <3>1. ASSUME NEW r \in Calls, status'[r] = "completed"
          PROVE  \A x \in ToSet(Wired(r)') : Of(r, x)' # {}
      <4>1. Wired(r)' = Wired(r) /\ status[r] = "completed"
        BY <1>3, <2>1, <3>1
      <4> QED BY <2>2, <4>1 DEF IInv, SagaOutcome, CompletedIsWhole
    <3> QED BY <3>1 DEF CompletedIsWhole
  <2>4. \A r \in Calls : Running(r) => Running(r)'
    BY <1>1, <1>3, NoneAssumption DEF Running, Returned
  <2>5. RolledBack'
    BY <2>1, <2>4 DEF IInv, SagaOutcome, RolledBack, Joins
  <2> QED BY <2>3, <2>5 DEF SagaOutcome
<1> QED BY <1>4, <1>5, <1>6, <1>7, <1>8 DEF IInv

(* InsertIfAbsent: a new saga, or the one of this token. *)
LEMMA InsertIfAbsentKeeps ==
  ASSUME IInv, NEW c \in Calls, InsertIfAbsent(c), UNCHANGED dispVars PROVE IInv'
<1> DEFINE t == call[c].token
<1>1. call[c].pc = "insert"
  BY DEF InsertIfAbsent, At
<1>2. /\ t \in Tokens /\ t # None /\ call[c].saga = None /\ call[c].done = 0
      /\ status[c] = "absent" /\ c # None /\ ~Returned(c)
  BY <1>1, NoneAssumption DEF IInv, TypeInv, CallType, SagaInv, Returned
<1>3. UNCHANGED <<creds, tokens, live, residue, ran, dispVars>>
  BY DEF InsertIfAbsent, daoVars, histVars
<1>4. PICK p \in {"approve", "replayed"}, s \in Calls \cup {None} :
        call' = [call EXCEPT ![c].pc = p, ![c].saga = s]
        /\ \/ /\ p = "approve" /\ s = c /\ index[t] = None
              /\ status' = [status EXCEPT ![c] = "pending"]
              /\ index' = [index EXCEPT ![t] = c]
           \/ /\ p = "approve" /\ s = index[t] /\ s # None /\ status[s] = "pending"
              /\ UNCHANGED <<status, index>>
           \/ p = "replayed" /\ s = None /\ UNCHANGED <<status, index>>
  <2>1. index[t] \in Calls \cup {None}
    BY <1>2 DEF IInv, TypeInv, SagaType
  <2>2. CASE index[t] = None
    BY <2>2 DEF InsertIfAbsent
  <2>3. CASE index[t] # None /\ status[index[t]] = "pending"
    BY <2>1, <2>3 DEF InsertIfAbsent, ResumeOrReplay
  <2>4. CASE index[t] # None /\ status[index[t]] # "pending"
    <3>1. call' = [call EXCEPT ![c].pc = "replayed"] /\ UNCHANGED <<status, index>>
      BY <2>4 DEF InsertIfAbsent, ResumeOrReplay, Goto
    <3>2. [call EXCEPT ![c].pc = "replayed"] = [call EXCEPT ![c].pc = "replayed", ![c].saga = None]
      BY <1>2 DEF IInv, TypeInv, CallType
    <3> QED BY <3>1, <3>2
  <2> QED BY <2>2, <2>3, <2>4
<1>5. /\ CallType' /\ call'[c].pc = p /\ call'[c].saga = s
      /\ call'[c].token = t /\ call'[c].kind = call[c].kind /\ call'[c].done = 0
      /\ \A d \in Calls \ {c} : call'[d] = call[d]
  <2>1. p \in {"idle", "insert"} \cup AtWork \cup Ended
    BY DEF AtWork, Ended
  <2>2. call' = [call EXCEPT ![c].pc = p, ![c].saga = s]
    BY <1>4
  <2>3. call \in [Calls ->
          [kind : {"spawn", "operator", "retire"}, pc : {"idle", "insert"} \cup AtWork \cup Ended,
           token : Tokens \cup {None}, saga : Calls \cup {None}, done : Nat, code : BOOLEAN,
           uri : {"missing", "empty", "set"}]]
    BY DEF IInv, TypeInv, CallType
  <2>4. CallType'
    <3> DEFINE Pcs == {"idle", "insert"} \cup AtWork \cup Ended
               Rec == [kind : {"spawn", "operator", "retire"}, pc : Pcs,
                       token : Tokens \cup {None}, saga : Calls \cup {None}, done : Nat,
                       code : BOOLEAN, uri : {"missing", "empty", "set"}]
    <3>1. [call[c] EXCEPT !.pc = p, !.saga = s] \in Rec
      <4>1. p \in Pcs /\ s \in Calls \cup {None} /\ call[c] \in Rec
        BY <2>1, <2>3
      <4> HIDE DEF Pcs
      <4> QED BY <4>1
    <3>2. call' = [call EXCEPT ![c] = [call[c] EXCEPT !.pc = p, !.saga = s]]
      BY <2>2
    <3>3. call \in [Calls -> Rec]
      BY <2>3
    <3> HIDE DEF Rec
    <3>4. call' \in [Calls -> Rec]
      BY <3>1, <3>2, <3>3
    <3> QED BY <3>4 DEF Rec, CallType
  <2> QED BY <1>2, <2>2, <2>3, <2>4
<1>6. /\ status' \in [Calls -> {"absent", "pending", "in_flight", "completed", "failed"}]
      /\ index' \in [Tokens -> Calls \cup {None}]
      /\ \A r \in Calls : status'[r] = status[r] \/ (r = c /\ status'[r] = "pending")
      /\ \A u \in Tokens : index'[u] = index[u] \/ (u = t /\ index[t] = None /\ index'[u] = c)
      /\ p = "approve" => s \in Calls /\ status'[s] = "pending" /\ index'[t] = s
      /\ s = c => status'[c] = "pending"
      /\ p = "replayed" => s = None
      /\ status'[c] # "absent" => s = c
  BY <1>2, <1>4, NoneAssumption DEF IInv, TypeInv, SagaType
<1>7. TypeInv'
  BY <1>3, <1>5, <1>6 DEF IInv, TypeInv, SagaType, DispType, dispVars
<1>8. Joins(c)
  BY <1>1, <1>3, <1>5, <1>6 DEF Joins
<1>9. ClickInv'
  <2>1. \A d \in Calls : call'[d].token = call[d].token
    BY <1>5
  <2>2. \A d \in Calls, u \in Tokens : Won(d, u)' <=> Won(d, u)
    BY <1>3, <2>1 DEF Won, dispVars
  <2> QED BY <1>3, <2>2 DEF IInv, ClickInv, dispVars
<1>10. OneCall'
  BY <1>2, <1>5 DEF IInv, OneCall, Returned
<1>11. SagaInv'
  <2> USE DEF IInv, SagaInv
  <2>1. ASSUME NEW r \in Calls, status'[r] # "absent" PROVE call'[r].saga = r
    BY <1>5, <1>6, <2>1
  <2>2. ASSUME NEW u \in Tokens, index'[u] # None
        PROVE  call'[index'[u]].token = u /\ call'[index'[u]].saga = index'[u]
    <3>1. CASE index'[u] = index[u]
      <4>1. index[u] \in Calls /\ index[u] # c
        BY <1>2, <2>2, <3>1 DEF TypeInv, SagaType
      <4> QED BY <1>5, <2>2, <3>1, <4>1
    <3>2. CASE u = t /\ index[t] = None /\ index'[u] = c
      BY <1>2, <1>4, <1>5, <1>6, <3>2, NoneAssumption
    <3> QED BY <1>6, <3>1, <3>2
  <2>3. ASSUME NEW d \in Calls, d # c
        PROVE  /\ call'[d] = call[d] /\ call[d].saga # c
               /\ call[d].saga # None =>
                    /\ call[d].saga \in Calls
                    /\ status'[call[d].saga] # "absent"
                    /\ call'[call[d].saga].kind = call[d].kind
                    /\ IF call[d].token = None THEN call[d].saga = d
                                               ELSE index'[call[d].token] = call[d].saga
    <3>1. call'[d] = call[d]
      BY <1>5, <2>3
    <3>2. call[d].saga # c
      BY <1>2
    <3>3. call[d].saga # None => call[d].saga \in Calls
      BY DEF TypeInv, CallType
    <3>4. call[d].token # None => call[d].token \in Tokens
      BY DEF TypeInv, CallType
    <3> QED BY <1>2, <1>5, <1>6, <3>1, <3>2, <3>3, <3>4
  <2>4. call'[c].saga # None =>
          /\ status'[call'[c].saga] # "absent"
          /\ call'[call'[c].saga].kind = call'[c].kind
          /\ index'[call'[c].token] = call'[c].saga
    <3>1. SUFFICES ASSUME s # None
                   PROVE  status'[s] # "absent" /\ call'[s].kind = call[c].kind /\ index'[t] = s
      BY <1>5
    <3>2. p = "approve"
      BY <1>6, <3>1
    <3>3. CASE s = c
      BY <1>5, <1>6, <3>2, <3>3
    <3>4. CASE s # c
      <4>1. s = index[t]
        BY <1>4, <3>2, <3>4
      <4>2. call[s].token = t
        BY <1>2, <3>1, <4>1
      <4>3. call[s].kind = call[c].kind
        <5>1. s \in Calls
          BY <3>1
        <5>2. /\ call[s].kind \in {"spawn", "operator", "retire"}
              /\ call[c].kind \in {"spawn", "operator", "retire"}
          BY <5>1 DEF TypeInv, CallType
        <5> QED BY <1>2, <4>2, <5>1, <5>2
      <4> QED BY <1>5, <1>6, <3>1, <3>2, <3>4, <4>3
    <3> QED BY <3>3, <3>4
  <2>5. /\ call'[c].pc \notin {"idle", "insert"}
        /\ call'[c].pc \in {"idle", "insert", "replayed"} => call'[c].saga = None
        /\ call'[c].pc \in AtWork => call'[c].saga # None
        /\ call'[c].token # None /\ call'[c].done = 0
        /\ call'[c].kind # "operator"
        /\ call'[c].kind = "retire" <=> call'[c].token \in RetireTokens
    BY <1>2, <1>5, <1>6, NoneAssumption DEF AtWork
  <2> QED BY <2>1, <2>2, <2>3, <2>4, <2>5
<1> QED BY <1>7, <1>8, <1>9, <1>10, <1>11, JoinKeeps

-----------------------------------------------------------------------------
(* A call that begins: through a kickoff, with a token that no call still  *)
(* running has, or directly, on a saga of its own. *)
LEMMA IdleIs ==
  ASSUME IInv, NEW c \in Calls, call[c].pc = "idle"
  PROVE  /\ call[c] \in [kind : {"spawn"}, pc : {"idle"}, token : {None}, saga : {None},
                         done : {0}, code : BOOLEAN, uri : {"missing", "empty", "set"}]
         /\ status[c] = "absent" /\ c # None /\ "idle" \notin AtWork
         /\ \A d \in Calls : call[d].saga # c
         /\ \A t \in Tokens : index[t] # c
<1>1. call[c] \in [kind : {"spawn", "operator", "retire"}, pc : {"idle", "insert"} \cup AtWork \cup Ended,
                   token : Tokens \cup {None}, saga : Calls \cup {None}, done : Nat, code : BOOLEAN,
                   uri : {"missing", "empty", "set"}]
  BY DEF IInv, TypeInv, CallType
<1>2. /\ call[c].saga = None /\ call[c].done = 0 /\ call[c].token = None
      /\ call[c].kind = "spawn" /\ c # None
  BY NoneAssumption DEF IInv, SagaInv
<1>3. status[c] = "absent"
  BY <1>2 DEF IInv, SagaInv
<1>4. \A d \in Calls : call[d].saga # c
  BY <1>2, <1>3 DEF IInv, SagaInv
<1>5. \A t \in Tokens : index[t] # c
  BY <1>2 DEF IInv, SagaInv
<1> QED BY <1>1, <1>2, <1>3, <1>4, <1>5 DEF AtWork

(* Kickoff and RetireKickoff *)
LEMMA BeginKeeps ==
  ASSUME IInv, NEW c \in Calls, call[c].pc = "idle", NEW t \in Tokens,
         NEW k \in {"spawn", "retire"}, k = "retire" <=> t \in RetireTokens,
         NEW u \in {"missing", "empty", "set"},
         call' = [call EXCEPT ![c] = [@ EXCEPT !.kind = k, !.pc = "insert", !.token = t, !.uri = u]],
         UNCHANGED <<status, index, daoVars, live, histVars>>,
         \A d \in Calls \ {c} : call[d].token = t => Returned(d),
         DispType', ClickInv'
  PROVE  IInv'
<1>1. /\ call[c] \in [kind : {"spawn"}, pc : {"idle"}, token : {None}, saga : {None},
                      done : {0}, code : BOOLEAN, uri : {"missing", "empty", "set"}]
      /\ status[c] = "absent" /\ c # None /\ "idle" \notin AtWork
      /\ \A d \in Calls : call[d].saga # c
      /\ \A v \in Tokens : index[v] # c
  BY IdleIs
<1>2. /\ CallType' /\ call'[c].kind = k /\ call'[c].pc = "insert" /\ call'[c].token = t
      /\ call'[c].saga = None /\ call'[c].done = 0
      /\ \A d \in Calls \ {c} : call'[d] = call[d]
  BY <1>1 DEF IInv, TypeInv, CallType
<1>3. TypeInv'
  BY <1>2 DEF IInv, TypeInv, SagaType, daoVars, histVars
<1>4. Joins(c)
  BY <1>2 DEF Joins, daoVars, histVars
<1>5. OneCall'
  BY <1>2 DEF IInv, OneCall, Returned
<1>6. t # None
  BY NoneAssumption
<1>7. SagaInv'
  <2> USE DEF IInv, SagaInv
  <2>1. ASSUME NEW d \in Calls, d # c
        PROVE  /\ call'[d] = call[d]
               /\ call[d].saga # None => call[d].saga \in Calls /\ call[d].saga # c
    BY <1>1, <1>2, <2>1 DEF TypeInv, CallType
  <2>2. \A v \in Tokens : index[v] # None => index[v] \in Calls /\ index[v] # c
    BY <1>1 DEF TypeInv, SagaType
  <2>3. \A r \in Calls : status[r] # "absent" => r # c
    BY <1>1
  <2>4. "insert" \notin AtWork
    BY DEF AtWork
  <2>5. /\ \A r \in Calls : status'[r] # "absent" => call'[r].saga = r
        /\ \A v \in Tokens : index'[v] # None =>
             call'[index'[v]].token = v /\ call'[index'[v]].saga = index'[v]
    BY <2>1, <2>2, <2>3
  <2>6. ASSUME NEW d \in Calls, d # c, call[d].saga # None
        PROVE  /\ status'[call[d].saga] # "absent"
               /\ call'[call[d].saga].kind = call[d].kind
               /\ IF call[d].token = None THEN call[d].saga = d
                                          ELSE index'[call[d].token] = call[d].saga
    BY <2>1, <2>6
  <2> QED BY <1>2, <1>6, <2>1, <2>4, <2>5, <2>6
<1> QED BY <1>3, <1>4, <1>5, <1>7, JoinKeeps

(* DirectRun *)
LEMMA DirectRunKeeps ==
  ASSUME IInv, NEW c \in Calls, NEW k \in {"operator", "retire"}, RunDirect(c, k),
         UNCHANGED dispVars
  PROVE  IInv'
<1>1. /\ call[c].pc = "idle"
      /\ status' = [status EXCEPT ![c] = "pending"]
      /\ UNCHANGED <<index, creds, tokens, live, residue, ran, dispVars>>
  BY DEF RunDirect, At, daoVars, histVars
<1>2. PICK b \in BOOLEAN :
        call' = [call EXCEPT ![c] = [@ EXCEPT !.kind = k, !.pc = "run", !.saga = c, !.code = b]]
  BY DEF RunDirect
<1>3. /\ call[c] \in [kind : {"spawn"}, pc : {"idle"}, token : {None}, saga : {None},
                      done : {0}, code : BOOLEAN, uri : {"missing", "empty", "set"}]
      /\ status[c] = "absent" /\ c # None
      /\ \A d \in Calls : call[d].saga # c
      /\ \A v \in Tokens : index[v] # c
  BY <1>1, IdleIs
<1>4. /\ CallType' /\ call'[c].kind = k /\ call'[c].pc = "run" /\ call'[c].token = None
      /\ call'[c].saga = c /\ call'[c].done = 0
      /\ \A d \in Calls \ {c} : call'[d] = call[d]
  <2>1. "run" \in AtWork
    BY DEF AtWork
  <2> QED BY <1>2, <1>3, <2>1 DEF IInv, TypeInv, CallType
<1>5. /\ status' \in [Calls -> {"absent", "pending", "in_flight", "completed", "failed"}]
      /\ status'[c] = "pending" /\ \A r \in Calls \ {c} : status'[r] = status[r]
  BY <1>1 DEF IInv, TypeInv, SagaType
<1>6. TypeInv'
  BY <1>1, <1>4, <1>5 DEF IInv, TypeInv, SagaType, DispType, dispVars
<1>7. Joins(c)
  BY <1>1, <1>4, <1>5 DEF Joins
<1>8. OneCall'
  BY <1>4 DEF IInv, OneCall, Returned
<1>9. ClickInv'
  <2>1. \A d \in Calls : call'[d].token = call[d].token
    BY <1>3, <1>4
  <2>2. \A d \in Calls, v \in Tokens : Won(d, v)' <=> Won(d, v)
    BY <1>1, <2>1 DEF Won, dispVars
  <2> QED BY <1>1, <2>2 DEF IInv, ClickInv, dispVars
<1>10. SagaInv'
  <2> USE DEF IInv, SagaInv
  <2>1. ASSUME NEW d \in Calls, d # c
        PROVE  /\ call'[d] = call[d]
               /\ call[d].saga # None => call[d].saga \in Calls /\ call[d].saga # c
    BY <1>3, <1>4, <2>1 DEF TypeInv, CallType
  <2>2. \A v \in Tokens : index[v] # None => index[v] \in Calls /\ index[v] # c
    BY <1>3 DEF TypeInv, SagaType
  <2>3. /\ \A r \in Calls : status'[r] # "absent" => call'[r].saga = r
        /\ \A v \in Tokens : index'[v] # None =>
             call'[index'[v]].token = v /\ call'[index'[v]].saga = index'[v]
    BY <1>1, <1>4, <1>5, <2>1, <2>2
  <2>4. ASSUME NEW d \in Calls, d # c, call[d].saga # None
        PROVE  /\ status'[call[d].saga] # "absent"
               /\ call'[call[d].saga].kind = call[d].kind
               /\ IF call[d].token = None THEN call[d].saga = d
                                          ELSE index'[call[d].token] = call[d].saga
    BY <1>1, <1>5, <2>1, <2>4
  <2> QED BY <1>3, <1>4, <1>5, <2>1, <2>3, <2>4
<1> QED BY <1>6, <1>7, <1>8, <1>9, <1>10, JoinKeeps

(* The dispatcher's own steps *)
LEMMA DispKeeps ==
  ASSUME IInv, UNCHANGED sagaVars, DispType', ClickInv' PROVE IInv'
<1>1. UNCHANGED <<status, index, call, creds, tokens, live, residue, ran>>
  BY DEF sagaVars, daoVars, histVars
<1>2. \A c : /\ Wired(c)' = Wired(c) /\ Done(c)' = Done(c) /\ (AppFirst(c)' <=> AppFirst(c))
             /\ Returned(c)' <=> Returned(c)
  BY <1>1 DEF Wired, Done, AppFirst, Returned
<1>3. TypeInv'
  BY <1>1 DEF IInv, TypeInv, CallType, SagaType
<1>4. OneCall' /\ SagaInv' /\ ExecutedOnce'
  BY <1>1, <1>2 DEF IInv, OneCall, SagaInv, ExecutedOnce
<1>5. StatusInv' /\ OwnSteps'
  BY <1>1, <1>2 DEF IInv, StatusInv, OwnSteps
<1>6. \A s, x : Of(s, x)' = Of(s, x)
  BY <1>1 DEF Of
<1>7. \A c, s : Work(c, s)' <=> Work(c, s)
  BY <1>1, <1>2, <1>6 DEF Work, Undoable
<1>8. WorkInv'
  BY <1>1, <1>7 DEF IInv, WorkInv
<1>9. SagaOutcome'
  BY <1>1, <1>2, <1>6 DEF IInv, SagaOutcome, CompletedIsWhole, RolledBack, Running
<1> QED BY <1>3, <1>4, <1>5, <1>8, <1>9 DEF IInv

-----------------------------------------------------------------------------
(* Cards and clicks *)
LEMMA CardKeeps ==
  ASSUME IInv,
         \/ \E t \in Tokens \ RetireTokens : Insert(t)
         \/ \E c \in Calls, t \in Tokens, d \in {"approved", "rejected"} :
              DispatchInteraction(c, t, d)
  PROVE  IInv'
<1> USE DEF IInv, TypeInv, DispType
<1>1. CASE \E t \in Tokens \ RetireTokens : Insert(t)
  <2>1. PICK t \in Tokens \ RetireTokens : Insert(t)
    BY <1>1
  <2>2. /\ UNCHANGED <<sagaVars, click, replays>> /\ approvals[t] = "absent"
        /\ approvals' = [approvals EXCEPT ![t] = "pending"]
    BY <2>1 DEF Insert
  <2>3. DispType'
    BY <2>2
  <2>4. \A c, v : Won(c, v)' <=> Won(c, v)
    BY <2>2 DEF Won, sagaVars
  <2>5. ClickInv'
    BY <2>2, <2>4 DEF ClickInv
  <2> QED BY <2>2, <2>3, <2>5, DispKeeps
<1>2. CASE \E c \in Calls, t \in Tokens, d \in {"approved", "rejected"} :
             DispatchInteraction(c, t, d)
  <2>1. PICK c \in Calls, t \in Tokens, d \in {"approved", "rejected"} :
          DispatchInteraction(c, t, d)
    BY <1>2
  <2>2. /\ UNCHANGED <<sagaVars, approvals, replays>>
        /\ click[c].pc = "idle" /\ approvals[t] # "absent"
        /\ click' = [click EXCEPT ![c] = [pc |-> "resolve", token |-> t, decision |-> d]]
    BY <2>1 DEF DispatchInteraction, ClickAt
  <2>3. DispType'
    BY <2>2
  <2>4. \A e \in Calls : \A v : Won(e, v)' <=> Won(e, v)
    BY <2>2 DEF Won, sagaVars
  <2>5. t \in Tokens \ RetireTokens
    BY <2>2 DEF ClickInv
  <2>6. ClickInv'
    BY <2>2, <2>4, <2>5 DEF ClickInv
  <2> QED BY <2>2, <2>3, <2>6, DispKeeps
<1> QED BY <1>1, <1>2

(* The first click to find the row pending wins the token. *)
LEMMA ResolveKeeps ==
  ASSUME IInv, NEW c \in Calls, Resolve(c) PROVE IInv'
<1> USE DEF IInv, TypeInv, DispType
<1> DEFINE t == click[c].token
           d == click[c].decision
<1>1. /\ click[c].pc = "resolve" /\ UNCHANGED <<sagaVars, replays>>
      /\ t \in Tokens \ RetireTokens /\ d \in {"approved", "rejected"}
  BY DEF Resolve, ClickAt, ClickInv
<1>2. UNCHANGED call
  BY <1>1 DEF sagaVars
<1>3. CASE approvals[t] = "pending"
  <2>1. PICK p \in {"route", "done"} :
          /\ click' = [click EXCEPT ![c].pc = p]
          /\ p = "route" => d = "approved"
    BY <1>3 DEF Resolve, ClickGoto
  <2>2. approvals' = [approvals EXCEPT ![t] = d]
    BY <1>3 DEF Resolve
  <2>3. DispType'
    BY <1>1, <2>1, <2>2
  <2>4. /\ click'[c].pc = p /\ click'[c].token = t /\ click'[c].decision = d
        /\ \A e \in Calls \ {c} : click'[e] = click[e]
    BY <2>1
  <2>5. \A e \in Calls : ~Won(e, t)
    BY <1>1, <1>3 DEF ClickInv
  <2>6. \A e \in Calls, v \in Tokens \ RetireTokens :
          Won(e, v)' <=> (Won(e, v) \/ (e = c /\ v = t /\ p = "route"))
    BY <1>1, <1>2, <2>4 DEF Won
  <2>7. /\ approvals'[t] = d
        /\ \A v \in Tokens : v # t => approvals'[v] = approvals[v]
    BY <1>1, <2>2
  <2>8. ASSUME NEW e \in Calls, NEW v \in Tokens \ RetireTokens, Won(e, v)'
        PROVE  approvals'[v] = "approved" /\ \A f \in Calls : Won(f, v)' => e = f
    <3>1. CASE v = t
      BY <2>1, <2>5, <2>6, <2>7, <2>8, <3>1
    <3>2. CASE v # t
      BY <2>6, <2>7, <2>8, <3>2 DEF ClickInv
    <3> QED BY <3>1, <3>2
  <2>9. /\ \A v \in RetireTokens : approvals'[v] = "absent"
        /\ \A e \in Calls :
             /\ click'[e].pc # "idle" => click'[e].token \in Tokens \ RetireTokens
             /\ click'[e].pc = "resolve" => click'[e].decision # "none"
    BY <1>1, <2>4, <2>7, RetireTokensAssumption DEF ClickInv
  <2>10. ClickInv'
    BY <2>8, <2>9 DEF ClickInv
  <2> QED BY <1>1, <2>3, <2>10, DispKeeps
<1>4. CASE approvals[t] # "pending"
  <2>1. click' = [click EXCEPT ![c].pc = "stale"] /\ UNCHANGED approvals
    BY <1>4 DEF Resolve, ClickGoto
  <2>2. DispType'
    BY <2>1
  <2>3. \A e \in Calls : \A v : Won(e, v)' <=> Won(e, v)
    BY <1>1, <1>2, <2>1 DEF Won
  <2>4. ClickInv'
    BY <1>1, <2>1, <2>3 DEF ClickInv
  <2> QED BY <1>1, <2>2, <2>4, DispKeeps
<1> QED BY <1>3, <1>4

(* A click past its decision: it hands its own token on, or ends. *)
LEMMA ClickKeeps ==
  ASSUME IInv, NEW c \in Calls, NEW p \in {"wait", "done"}, click[c].pc \in {"route", "wait"},
         ClickGoto(c, p), UNCHANGED approvals,
         \A e \in Calls, v \in Tokens : Won(e, v)' => Won(e, v)
  PROVE  DispType' /\ ClickInv'
<1> USE DEF IInv, TypeInv, DispType
<1>1. click' = [click EXCEPT ![c].pc = p]
  BY DEF ClickGoto
<1>2. DispType'
  BY <1>1
<1>3. ClickInv'
  BY <1>1 DEF ClickInv
<1> QED BY <1>2, <1>3

(* RouteSpawn, RouteReplay and KickoffReturns *)
LEMMA RouteKeeps ==
  ASSUME IInv, NEW c \in Calls, RouteSpawn(c) \/ RouteReplay(c) \/ KickoffReturns(c)
  PROVE  IInv'
<1> DEFINE t == click[c].token
<1>1. click[c].pc \in {"route", "wait"} /\ t \in Tokens \ RetireTokens /\ UNCHANGED approvals
  BY DEF RouteSpawn, RouteReplay, KickoffReturns, ClickAt, IInv, ClickInv
<1>2. click \in [Calls -> [pc : {"idle", "resolve", "route", "wait", "done", "stale"},
                           token : Tokens \cup {None},
                           decision : {"none", "approved", "rejected"}]]
  BY DEF IInv, TypeInv, DispType
<1>3. ASSUME NEW p \in {"wait", "done"}, ClickGoto(c, p)
      PROVE  /\ click'[c].pc = p /\ click'[c].token = t
             /\ \A e \in Calls : /\ e # c => click'[e] = click[e]
                                 /\ click'[e].pc = "route" => e # c /\ click[e].pc = "route"
                                 /\ click'[e].token = click[e].token
  BY <1>2, <1>3 DEF ClickGoto
<1>4. CASE RouteSpawn(c) /\ ClickGoto(c, "wait") /\ Kickoff(c, t)
  <2>1. /\ call[c].pc = "idle"
        /\ call' = [call EXCEPT ![c].pc = "insert", ![c].token = t]
        /\ UNCHANGED <<status, index, daoVars, live, histVars, replays>>
    BY <1>4 DEF RouteSpawn, Kickoff, At
  <2>2. /\ call[c].kind = "spawn" /\ call[c].uri \in {"missing", "empty", "set"}
        /\ c \in DOMAIN call /\ call \in [Calls -> [kind : {"spawn", "operator", "retire"},
             pc : {"idle", "insert"} \cup AtWork \cup Ended, token : Tokens \cup {None},
             saga : Calls \cup {None}, done : Nat, code : BOOLEAN,
             uri : {"missing", "empty", "set"}]]
    BY <2>1 DEF IInv, TypeInv, CallType, SagaInv
  <2>3. call' = [call EXCEPT ![c] = [@ EXCEPT !.kind = "spawn", !.pc = "insert", !.token = t,
                                              !.uri = call[c].uri]]
    BY <2>1, <2>2
  <2>4. \A e \in Calls : /\ e # c => call'[e] = call[e]
                         /\ e = c => call'[e].token = t
    BY <2>1, <2>2
  <2>5. click[c].pc = "route"
    BY <1>4 DEF RouteSpawn, ClickAt
  <2>6. Won(c, t)
    BY <2>5 DEF Won
  <2>7. \A e \in Calls, v \in Tokens : Won(e, v)' => Won(e, v)
    BY <1>3, <1>4, <2>1, <2>4, <2>6 DEF Won
  <2>8. DispType' /\ ClickInv'
    BY <1>1, <1>4, <2>7, ClickKeeps
  <2>9. \A e \in Calls \ {c} : call[e].token # t
    BY ZenonT(30), <1>1, <2>6 DEF IInv, ClickInv, Won
  <2>10. "spawn" = "retire" <=> t \in RetireTokens
    BY <1>1
  <2>11. PICK u \in {"missing", "empty", "set"} : call[c].uri = u
    BY <2>2
  <2>12. PICK v \in Tokens \ RetireTokens : t = v
    BY <1>1
  <2>13. PICK k \in {"spawn", "retire"} : k = "spawn" /\ (k = "retire" <=> v \in RetireTokens)
    OBVIOUS
  <2>14. call' = [call EXCEPT ![c] = [@ EXCEPT !.kind = k, !.pc = "insert", !.token = v, !.uri = u]]
    BY <2>3, <2>11, <2>12, <2>13
  <2>15. \A d \in Calls \ {c} : call[d].token = v => Returned(d)
    BY <2>9, <2>12
  <2>16. UNCHANGED <<status, index, daoVars, live, histVars>>
    BY <2>1
  <2> QED BY <2>1, <2>8, <2>13, <2>14, <2>15, <2>16, BeginKeeps
<1>5. CASE RouteSpawn(c) /\ ClickGoto(c, "done") /\ UNCHANGED sagaVars
  <2>1. UNCHANGED <<call, replays>>
    BY <1>5 DEF RouteSpawn, sagaVars
  <2>2. \A e \in Calls, v \in Tokens : Won(e, v)' => Won(e, v)
    BY <1>3, <1>5, <2>1 DEF Won
  <2>3. DispType' /\ ClickInv'
    BY <1>1, <1>5, <2>2, ClickKeeps
  <2> QED BY <1>5, <2>3, DispKeeps
<1>6. CASE RouteReplay(c)
  <2>1. /\ UNCHANGED <<sagaVars, call>> /\ ClickGoto(c, "done")
        /\ replays' = replays \cup {<<t, c>>} /\ click[c].pc = "route"
    BY <1>6 DEF RouteReplay, sagaVars, ClickAt
  <2>2. Won(c, t)
    BY <2>1 DEF Won
  <2>3. \A e \in Calls, v \in Tokens : <<v, e>> \in replays' => <<v, e>> \in replays \/ (v = t /\ e = c)
    BY <2>1
  <2>4. \A e \in Calls, v \in Tokens : Won(e, v)' => Won(e, v)
    BY <1>3, <2>1, <2>2, <2>3 DEF Won
  <2>5. DispType' /\ ClickInv'
    BY <1>1, <2>1, <2>4, ClickKeeps
  <2> QED BY <2>1, <2>5, DispKeeps
<1>7. CASE KickoffReturns(c)
  <2>1. UNCHANGED <<sagaVars, call, replays>> /\ ClickGoto(c, "done")
    BY <1>7 DEF KickoffReturns, sagaVars
  <2>2. \A e \in Calls, v \in Tokens : Won(e, v)' => Won(e, v)
    BY <1>3, <2>1 DEF Won
  <2>3. DispType' /\ ClickInv'
    BY <1>1, <2>1, <2>2, ClickKeeps
  <2> QED BY <2>1, <2>3, DispKeeps
<1> QED BY <1>4, <1>5, <1>6, <1>7 DEF RouteSpawn

(* Retire *)
LEMMA RetireKeeps ==
  ASSUME IInv, NEW c \in Calls, NEW t \in RetireTokens, Retire(c, t) PROVE IInv'
<1>1. t \in Tokens
  BY RetireTokensAssumption
<1>2. /\ call[c].pc = "idle"
      /\ call' = [call EXCEPT ![c] = [@ EXCEPT !.kind = "retire", !.pc = "insert",
                                               !.token = t, !.uri = "empty"]]
      /\ UNCHANGED <<status, index, daoVars, live, histVars, dispVars>>
      /\ \A d \in Calls : call[d].token = t => Returned(d)
  BY DEF Retire, RetireKickoff, At
<1>3. /\ c \in DOMAIN call /\ call[c] \in [kind : {"spawn"}, pc : {"idle"}, token : {None},
           saga : {None}, done : {0}, code : BOOLEAN, uri : {"missing", "empty", "set"}]
  BY <1>2, IdleIs DEF IInv, TypeInv, CallType
<1>4. \A e \in Calls : /\ e # c => call'[e] = call[e]
                       /\ e = c => call'[e].token = t
  BY <1>2, <1>3
<1>5. \A e \in Calls, v \in Tokens \ RetireTokens : Won(e, v)' => Won(e, v)
  BY <1>2, <1>4 DEF Won, dispVars
<1>6. DispType' /\ ClickInv'
  BY <1>2, <1>5 DEF IInv, TypeInv, DispType, ClickInv, dispVars
<1> QED BY <1>1, <1>2, <1>6, BeginKeeps

-----------------------------------------------------------------------------
(* Every step of a saga keeps the invariant. *)
LEMMA SagaKeeps ==
  ASSUME IInv, NEW c \in Calls, Saga(c) PROVE IInv'
<1>1. UNCHANGED dispVars
  BY DEF Saga
<1>2. CASE InsertIfAbsent(c)
  BY <1>1, <1>2, InsertIfAbsentKeeps
<1>3. CASE ~InsertIfAbsent(c)
  <2>1. call[c].pc \in AtWork
    BY <1>3 DEF Saga, SagaStep, AppendApproved, UpdateStep, MarkCompleted, ExecuteOk, ExecuteFail,
         CreateAppPartial, InstallPartial, MarkFailed, Compensate, Compensated, At, AtWork
  <2>2. PICK s \in Calls : call[c].saga = s
    BY <2>1, AtWorkIs
  <2>3. CASE AppendApproved(c)
    BY <1>1, <2>2, <2>3, AppendKeeps
  <2>4. CASE UpdateStep(c)
    BY <1>1, <2>2, <2>4, UpdateStepKeeps
  <2>5. CASE MarkCompleted(c)
    BY <1>1, <2>2, <2>5, MarkCompletedKeeps
  <2>6. CASE ExecuteOk(c)
    BY <1>1, <2>2, <2>6, ExecuteOkKeeps
  <2>7. CASE ExecuteFail(c) \/ CreateAppPartial(c) \/ InstallPartial(c)
    BY <1>1, <2>2, <2>7, FailKeeps
  <2>8. CASE MarkFailed(c)
    BY <1>1, <2>2, <2>8, MarkFailedKeeps
  <2>9. CASE Compensate(c)
    BY <1>1, <2>2, <2>9, CompensateKeeps
  <2>10. CASE Compensated(c)
    BY <1>1, <2>2, <2>10, CompensatedKeeps
  <2> QED BY <1>3, <2>3, <2>4, <2>5, <2>6, <2>7, <2>8, <2>9, <2>10 DEF Saga, SagaStep
<1> QED BY <1>2, <1>3

(* Every action does. *)
LEMMA NextKeeps == IInv /\ [Next]_vars => IInv'
<1> SUFFICES ASSUME IInv, [Next]_vars PROVE IInv'
  OBVIOUS
<1>1. CASE UNCHANGED vars
  <2>1. UNCHANGED <<sagaVars, dispVars, call>>
    BY <1>1 DEF vars, sagaVars
  <2>2. \A c, t : Won(c, t)' <=> Won(c, t)
    BY <2>1 DEF Won, dispVars
  <2>3. DispType' /\ ClickInv'
    BY <2>1, <2>2 DEF IInv, TypeInv, DispType, ClickInv, dispVars
  <2> QED BY <2>1, <2>3, DispKeeps
<1>2. CASE \/ \E t \in Tokens \ RetireTokens : Insert(t)
           \/ \E c \in Calls, t \in Tokens, d \in {"approved", "rejected"} :
                DispatchInteraction(c, t, d)
  BY <1>2, CardKeeps
<1>3. ASSUME NEW c \in Calls, Handler(c) PROVE IInv'
  BY <1>3, ResolveKeeps, RouteKeeps, SagaKeeps DEF Handler
<1>4. ASSUME NEW c \in Calls, DirectRun(c) PROVE IInv'
  BY <1>4, DirectRunKeeps DEF DirectRun
<1>5. ASSUME NEW c \in Calls, NEW t \in RetireTokens, Retire(c, t) PROVE IInv'
  BY <1>5, RetireKeeps
<1> QED BY <1>1, <1>2, <1>3, <1>4, <1>5 DEF Next

(* It holds at the start. *)
LEMMA InitIs == Init => IInv
<1> SUFFICES ASSUME Init PROVE IInv
  OBVIOUS
<1> USE DEF Init, SagaInit
<1>1. /\ \A c \in Calls : call[c] = Idle /\ c # None /\ click[c].pc = "idle" /\ click[c].token = None
      /\ \A t \in Tokens : t # None
  BY NoneAssumption
<1>2. TypeInv
  BY DEF TypeInv, CallType, SagaType, DispType, Idle
<1>3. OneCall /\ ClickInv
  BY <1>1, RetireTokensAssumption DEF OneCall, ClickInv, Won, Idle
<1>4. SagaInv
  BY <1>1 DEF SagaInv, Idle, AtWork
<1>5. StatusInv
  <2>1. \A c \in Calls : Len(Wired(c)) \in Nat
    BY <1>2, WiredIs DEF TypeInv
  <2> QED BY <1>1, <2>1 DEF StatusInv, Idle
<1>6. WorkInv
  BY <1>1 DEF WorkInv, Idle, AtWork
<1>7. OwnSteps /\ ExecutedOnce /\ SagaOutcome
  BY DEF OwnSteps, ExecutedOnce, SagaOutcome, CompletedIsWhole, RolledBack
<1> QED BY <1>2, <1>3, <1>4, <1>5, <1>6, <1>7 DEF IInv

(* It always holds. *)
LEMMA InvariantHolds == Spec => []IInv
<1>1. Init => IInv
  BY InitIs
<1>2. IInv /\ [Next]_vars => IInv'
  BY NextKeeps
<1> QED BY <1>1, <1>2, PTL DEF Spec

-----------------------------------------------------------------------------
(* What the runs check follows from the invariant. *)
LEMMA TypeFollows == IInv => TypeOK
<1> SUFFICES ASSUME IInv PROVE TypeOK
  OBVIOUS
<1>1. /\ status \in [Calls -> {"absent", "pending", "in_flight", "completed", "failed"}]
      /\ index \in [Tokens -> Calls \cup {None}]
      /\ creds \in [Calls -> Calls \cup {None}] /\ tokens \in [Calls -> Calls \cup {None}]
  BY DEF IInv, TypeInv, SagaType
<1>2. ASSUME NEW c \in Calls
      PROVE  /\ call[c].saga \in Calls \cup {None}
             /\ call[c].done \in 0..Len(Wired(c))
             /\ live[c] \subseteq ToSet(Wired(c)) \X Calls
             /\ residue[c] \subseteq ToSet(Wired(c))
  <2>1. call[c].saga \in Calls \cup {None}
    BY DEF IInv, TypeInv, CallType
  <2>2. call[c].done \in 0..Len(Wired(c))
    BY DEF IInv, StatusInv
  <2> QED BY <2>1, <2>2 DEF IInv, OwnSteps
<1>3. SagaTypeOK
  BY <1>1, <1>2 DEF SagaTypeOK
<1>4. /\ approvals \in [Tokens -> {"absent", "pending", "approved", "rejected"}]
      /\ \A c \in Calls : click[c].pc \in {"idle", "resolve", "route", "wait", "done", "stale"}
  BY DEF IInv, TypeInv, DispType
<1> QED BY <1>3, <1>4 DEF TypeOK

(* One click acts on a token, and its decision is the stored one. *)
LEMMA OneActs == IInv => ActedOnOnce
<1> SUFFICES ASSUME IInv, NEW t \in Tokens \ RetireTokens
             PROVE  LET acting == {c \in Calls : call[c].token = t \/ <<t, c>> \in replays} IN
                    /\ Cardinality(acting) <= 1
                    /\ acting # {} => approvals[t] = "approved"
  BY DEF ActedOnOnce
<1> DEFINE acting == {c \in Calls : call[c].token = t \/ <<t, c>> \in replays}
<1>1. \A c \in acting : c \in Calls /\ Won(c, t)
  BY DEF Won
<1>2. \A c \in acting : approvals[t] = "approved" /\ \A d \in acting : c = d
  BY <1>1 DEF IInv, ClickInv
<1> HIDE DEF acting
<1>3. ASSUME acting = {} PROVE Cardinality(acting) <= 1
  <2>1. Cardinality(acting) = 0
    BY <1>3, FS_EmptySet
  <2> QED BY <1>3, <2>1
<1>4. ASSUME acting # {}
      PROVE  Cardinality(acting) <= 1 /\ approvals[t] = "approved"
  <2>1. PICK c \in acting : acting = {c}
    BY <1>2, <1>4
  <2>2. Cardinality(acting) = 1
    BY <2>1, FS_Singleton
  <2> QED BY <1>2, <1>4, <2>2
<1>5. /\ Cardinality(acting) <= 1
      /\ acting # {} => approvals[t] = "approved"
  BY <1>3, <1>4
<1> QED BY <1>5 DEF acting

(* core/pkg/spawn and the dispatcher: rows name calls, step counts stay    *)
(* within the wired list, artefacts are of a saga's own steps.             *)
THEOREM TypeCorrect == Spec => []TypeOK
<1> QED BY InvariantHolds, TypeFollows, PTL

(* dispatcher.go and spawnkickoff.go: however the clicks, retries and      *)
(* direct runs interleave, one click of an approved token and none of a    *)
(* rejected one acts, and every step of a saga is executed by one call.    *)
THEOREM DecidedAndRun == Spec => []DecidedAndRunOnce
<1>1. IInv => DecidedAndRunOnce
  <2>1. IInv => ExecutedOnce
    BY DEF IInv
  <2> QED BY <2>1, TypeFollows, OneActs DEF DecidedAndRunOnce
<1> QED BY <1>1, InvariantHolds, PTL

(* saga.go Run and compensate: a completed saga's watchkeeper has what     *)
(* every step makes; of a failed one, once its call returned, only what a  *)
(* failed clean-up left is there.                                          *)
THEOREM SagaEndsWholeOrGone == Spec => []SagaOutcome
<1>1. IInv => SagaOutcome
  BY DEF IInv
<1> QED BY <1>1, InvariantHolds, PTL

(* dispatcher.go, pending_approval_memory.go: of the calls that share an   *)
(* approval token all but one have returned, so nobody works on a saga     *)
(* next to its own call.                                                   *)
THEOREM OneCallAtWork == Spec => []OneCall
<1>1. IInv => OneCall
  BY DEF IInv
<1> QED BY <1>1, InvariantHolds, PTL
=============================================================================
