------------------------------ MODULE KeepStore ------------------------------
(***************************************************************************)
(* Keep's REST interface to its Postgres store: the client library, the    *)
(* bearer-token check, one scoped transaction per request over a pool of   *)
(* connections, and the write and read handlers.                           *)
(*   core/pkg/keepclient (do, read_*, write_*, human), core/pkg/lifecycle  *)
(*   core/internal/keep/auth, core/internal/keep/db/scope.go               *)
(*   core/internal/keep/server (middleware, handlers_write, handlers_read, *)
(*   handlers_human, handlers_cost_rollup)                                 *)
(*                                                                         *)
(* Postgres is external: read-committed transactions, row locks, unique    *)
(* keys that make a second writer wait, row security on knowledge chunks   *)
(* and manifests, now() fixed at the transaction's start.  A request may   *)
(* be lost, its answer may be lost, the client may give up at any time,    *)
(* and every statement may fail.                                           *)
(*                                                                         *)
(* Row ids made by the database are the numbers of the calls that insert   *)
(* them.  A request's "flaw" names what is wrong with it: how its body is  *)
(* encoded ("type", "large", "body"), a required field left empty          *)
(* ("empty"), an ill-formed field ("shape"), or "none".                    *)
(***************************************************************************)
EXTENDS Integers, FiniteSets, FiniteSetsExt, TLC

CONSTANTS
  Slots,       \* callers: each makes one call at a time
  NConns,      \* the size of the connection pool
  Requests,    \* the calls each caller may make
  Humans0,     \* human rows at the start: id -> [org, slack]
  Wks0,        \* watchkeeper rows at the start: id -> row
  ManifestOrg, \* manifest id -> its organization
  Issuer,      \* HMACVerifier.issuer
  MaxLimit,    \* maxSearchTopK, maxLogLimit, maxWatchkeeperListLimit
  DefLimit,    \* defaultLogLimit, defaultWatchkeeperListLimit
  MaxCalls,    \* bound: calls made
  MaxFaults    \* bound: lost messages, failed statements and timeouts

ASSUME LimitsAssumption == DefLimit \in 1..MaxLimit
ASSUME CallsAssumption == MaxCalls \in Nat
ASSUME PoolAssumption == NConns \in Nat \ {0}

\* The routes: what a request may ask for.
Endpoints ==
  {"store", "logAppend", "putVersion", "insertWatchkeeper", "updateStatus", "setLead",
   "insertHuman", "lookupHuman", "search", "getManifest", "logTail", "getWatchkeeper",
   "listWatchkeepers", "costRollups"}

\* A version number is a count (a negative one is an ill-formed field).
ASSUME RequestsAssumption ==
  \A s \in Slots : \A r \in Requests[s] :
    r.op \in Endpoints /\ (r.op = "putVersion" => r.no \in Nat)

Conns == 1..NConns
NoOrg == "none"       \* an empty organization_id claim
NoSlack == "none"     \* slack_user_id NULL
Week == 2             \* days in a bucket of the weekly grain

\* The rows at the start are finitely many and obey the schema (unique slack
\* ids, the foreign key of the lead, the check on the status), and new rows
\* get ids of their own.
ASSUME RowsAssumption ==
  /\ IsFiniteSet(DOMAIN Wks0)
  /\ \A g, h \in DOMAIN Humans0 :
       Humans0[g].slack = Humans0[h].slack /\ Humans0[g].slack # NoSlack => g = h
  /\ \A w \in DOMAIN Wks0 :
       Wks0[w] \in [lead : DOMAIN Humans0, status : {"pending", "active", "retired"},
                    spawned : Nat, retired : Nat, archive : STRING]
  /\ (DOMAIN Humans0 \cup DOMAIN Wks0) \cap 1..MaxCalls = {}

VARIABLES
  human,    \* watchkeeper.human: id -> [org, slack]
  wk,       \* watchkeeper.watchkeeper: id -> row
  version,  \* watchkeeper.manifest_version: set of [id, manifest, no]
  chunk,    \* watchkeeper.knowledge_chunk: set of [id, scope]
  log,      \* watchkeeper.keepers_log: set of [id, at, actor, agent, model, cost]
  conn,     \* each pooled connection: its transaction's caller and settings
  slot,     \* each caller and the server goroutine that serves its request
  calls,    \* calls made so far
  now,      \* transactions begun so far: the database's now()
  acked,    \* ids of the rows whose insertion a caller was told of (history)
  faults    \* faults so far

tables == <<human, wk, version, chunk, log>>
vars == <<tables, conn, slot, calls, now, acked, faults>>

Free == [by |-> 0, role |-> "none", scope |-> "none", org |-> "none", at |-> 0]
Idle == [pc |-> "idle", req |-> [op |-> "none"], n |-> 0, client |-> "gone",
         conn |-> 0, write |-> [t |-> "none"], status |-> 0, body |-> {},
         known |-> {}, locks |-> {}]

Init ==
  /\ human = Humans0 /\ wk = Wks0
  /\ version = {} /\ chunk = {} /\ log = {}
  /\ conn = [k \in Conns |-> Free]
  /\ slot = [s \in Slots |-> Idle]
  /\ calls = 0 /\ now = 0 /\ acked = {} /\ faults = 0

----------------------------------------------------------------------------
(* The client library: what each method refuses before it sends anything.  *)

Store(r) == r.op = "store" => r.flaw # "empty"
LogAppend(r) == r.op = "logAppend" => r.flaw # "empty"
PutManifestVersion(r) == r.op = "putVersion" => r.flaw \notin {"empty", "shape"}
InsertWatchkeeper(r) == r.op = "insertWatchkeeper" => r.flaw # "empty"
UpdateWatchkeeperStatus(r) ==
  r.op = "updateStatus" /\ r.archive = "absent" =>
    r.flaw # "empty" /\ r.val \in {"active", "retired"}
UpdateWatchkeeperRetired(r) ==
  r.op = "updateStatus" /\ r.archive # "absent" =>
    r.flaw # "empty" /\ r.val = "retired" /\ r.archive \notin {"blank", "relative", "null"}
InsertHuman(r) == r.op = "insertHuman" => r.flaw # "empty"
LookupHumanBySlackID(r) == r.op = "lookupHuman" => r.flaw # "empty"
SetWatchkeeperLead(r) == r.op = "setLead" => r.flaw # "empty"
Search(r) == r.op = "search" => r.flaw # "empty" /\ r.n > 0
GetManifest(r) == r.op = "getManifest" => r.flaw # "empty"
LogTail(r) == r.op = "logTail" => r.flaw # "shape"
GetWatchkeeper(r) == r.op = "getWatchkeeper" => r.flaw # "empty"
ListWatchkeepers(r) ==
  r.op = "listWatchkeepers" =>
    r.val \in {"any", "pending", "active", "retired"} /\ r.n <= MaxLimit /\ r.flaw # "shape"
CostRollups(r) ==
  r.op = "costRollups" =>
    r.flaw # "empty" /\ r.val \in {"daily", "weekly"} /\ r.from <= r.to

\* A request made without the library ("raw") is not checked by it.
ClientAccepts(r) ==
  r.raw \/ ( /\ r.flaw \notin {"type", "large", "body"}
             /\ Store(r) /\ LogAppend(r) /\ PutManifestVersion(r)
             /\ InsertWatchkeeper(r) /\ UpdateWatchkeeperStatus(r)
             /\ UpdateWatchkeeperRetired(r) /\ InsertHuman(r)
             /\ LookupHumanBySlackID(r) /\ SetWatchkeeperLead(r) /\ Search(r)
             /\ GetManifest(r) /\ LogTail(r) /\ GetWatchkeeper(r)
             /\ ListWatchkeepers(r) /\ CostRollups(r) )

\* lifecycle.Manager: Spawn inserts and then activates; Retire, Health and
\* List are one client call each and check what that call checks.
Spawn(r, id) == [op |-> "updateStatus", tok |-> r.tok, flaw |-> "none", raw |-> FALSE,
                 id |-> id, val |-> "active", archive |-> "absent", spawn |-> FALSE]

\* Client.do: refused here, or sent with the token source's token.
do(s, r) ==
  /\ slot[s].pc \in {"idle", "done"} /\ calls < MaxCalls
  /\ calls' = calls + 1
  /\ slot' = [slot EXCEPT ![s] =
       IF ClientAccepts(r) /\ r.tok.form # "unavailable"
         THEN [Idle EXCEPT !.pc = "sent", !.req = r, !.n = calls + 1,
                           !.client = "waiting", !.known = acked]
         ELSE [Idle EXCEPT !.pc = "done", !.req = r, !.n = calls + 1]]
  /\ UNCHANGED <<tables, conn, now, acked, faults>>

----------------------------------------------------------------------------
(* The server before its transaction: the token, then the request.         *)

ValidScope(scope) == scope \in {"org", "user", "agent", "agent:name"}

Verify(t) ==
  /\ t.form = "jwt" /\ t.signed /\ t.iss = Issuer /\ t.fresh
  /\ ValidScope(t.scope)

bearerToken(t) == t.form \in {"jwt", "garbage"}

AuthMiddleware(r) == IF bearerToken(r.tok) /\ Verify(r.tok) THEN 0 ELSE 401

decode(r) == CASE r.flaw = "type" -> 415
               [] r.flaw = "large" -> 413
               [] r.flaw = "body" -> 400
               [] OTHER -> 0

RefuseIf(cond, code) == IF cond THEN code ELSE 0

\* The first check that refuses decides the answer.
First(a, b) == IF a # 0 THEN a ELSE b

parseStoreRequest(r) == First(decode(r), RefuseIf(r.flaw \in {"empty", "shape"}, 400))
parseLogAppendRequest(r) == First(decode(r), RefuseIf(r.flaw = "empty", 400))

\* actorFromScope: the agent or the user the token speaks for; org has none.
actorFromScope(scope) ==
  CASE scope = "agent" -> "watchkeeper" [] scope = "user" -> "human"
    [] scope = "org" -> "nobody" [] OTHER -> "bad"

checkLogAppend(r) ==
  First(parseLogAppendRequest(r),
        RefuseIf(actorFromScope(r.tok.scope) = "bad" \/ r.flaw = "shape", 400))

organizationRequired(r) == RefuseIf(r.tok.org = NoOrg, 403)

parsePutManifestVersionRequest(r) ==
  First(decode(r), RefuseIf(r.flaw \in {"empty", "shape"} \/ r.no = 0, 400))
parseInsertWatchkeeperRequest(r) ==
  First(decode(r), RefuseIf(r.flaw \in {"empty", "shape"}, 400))
parseUpdateWatchkeeperStatusRequest(r) ==
  First(decode(r),
        RefuseIf(\/ r.flaw \in {"empty", "shape"}
                 \/ r.val \notin {"active", "retired"}
                 \/ r.archive # "absent" /\ r.val # "retired"
                 \/ r.archive \in {"null", "blank", "relative"}, 400))
parseInsertHumanRequest(r) ==
  First(decode(r),
  First(RefuseIf(r.flaw \in {"empty", "shape"}, 400),
  First(organizationRequired(r), RefuseIf(r.org # r.tok.org, 403))))
parseUpdateWatchkeeperLeadRequest(r) ==
  First(decode(r), RefuseIf(r.flaw \in {"empty", "shape"}, 400))
checkLookupHuman(r) == RefuseIf(r.flaw \in {"empty", "shape"}, 400)
parseSearchRequest(r) ==
  First(decode(r), RefuseIf(r.flaw \in {"empty", "shape"} \/ r.n = 0, 400))
checkGetManifest(r) == RefuseIf(r.flaw = "empty", 400)
checkLogTail(r) == RefuseIf(r.flaw = "shape", 400)
checkGetWatchkeeper(r) == RefuseIf(r.flaw \in {"empty", "shape"}, 400)
checkListWatchkeepers(r) ==
  RefuseIf(\/ r.val \notin {"any", "pending", "active", "retired"}
           \/ r.n > MaxLimit \/ r.flaw = "shape", 400)
parseCostRollupParams(r) ==
  RefuseIf(\/ r.flaw \in {"empty", "shape"} \/ r.to < r.from
           \/ r.val \notin {"daily", "weekly"}, 400)

\* Every write but Store and LogAppend wants a token with an organization,
\* and asks for it after it has looked at the request.
Checked(r) ==
  CASE r.op = "store" -> parseStoreRequest(r)
    [] r.op = "logAppend" -> checkLogAppend(r)
    [] r.op = "putVersion" -> First(parsePutManifestVersionRequest(r), organizationRequired(r))
    [] r.op = "insertWatchkeeper" ->
         First(parseInsertWatchkeeperRequest(r), organizationRequired(r))
    [] r.op = "updateStatus" ->
         First(parseUpdateWatchkeeperStatusRequest(r), organizationRequired(r))
    [] r.op = "setLead" -> First(parseUpdateWatchkeeperLeadRequest(r), organizationRequired(r))
    [] r.op = "insertHuman" -> parseInsertHumanRequest(r)
    [] r.op = "lookupHuman" -> checkLookupHuman(r)
    [] r.op = "search" -> parseSearchRequest(r)
    [] r.op = "getManifest" -> checkGetManifest(r)
    [] r.op = "logTail" -> checkLogTail(r)
    [] r.op = "getWatchkeeper" -> checkGetWatchkeeper(r)
    [] r.op = "listWatchkeepers" -> checkListWatchkeepers(r)
    [] r.op = "costRollups" -> parseCostRollupParams(r)

Arrive(s) ==
  /\ slot[s].pc = "sent"
  /\ LET code == First(AuthMiddleware(slot[s].req), Checked(slot[s].req)) IN
     slot' = [slot EXCEPT ![s].pc = IF code = 0 THEN "begin" ELSE "reply",
                          ![s].status = code]
  /\ UNCHANGED <<tables, conn, calls, now, acked, faults>>

----------------------------------------------------------------------------
(* WithScope: a transaction on a pooled connection, under the role and the *)
(* settings of the claim, all of them local to the transaction.            *)

RoleForScope(scope) ==
  CASE scope = "org" -> "wk_org_role" [] scope = "user" -> "wk_user_role"
    [] OTHER -> "wk_agent_role"

\* Mutant: watchkeeper.scope is never set.
BugNoScope(s, t) == [by |-> slot[s].n, role |-> RoleForScope(t.scope),
                     scope |-> "none", org |-> t.org, at |-> now + 1]

Settings(s, t) == [by |-> slot[s].n, role |-> RoleForScope(t.scope),
                   scope |-> t.scope, org |-> t.org, at |-> now + 1]

\* Free connections are alike, so the first of them stands for any.
WithScope(s) ==
  /\ slot[s].pc = "begin"
  /\ \E k \in Conns :
       /\ conn[k].by = 0 /\ \A j \in 1..(k - 1) : conn[j].by # 0
       /\ conn' = [conn EXCEPT ![k] = Settings(s, slot[s].req.tok)]
       /\ slot' = [slot EXCEPT ![s].pc = "tx", ![s].conn = k]
  /\ now' = now + 1
  /\ UNCHANGED <<tables, calls, acked, faults>>

\* Mutant: SET ROLE without LOCAL, so the settings outlive the transaction.
BugSetRole(k) == [conn EXCEPT ![k].by = 0]

\* The end of a transaction takes its local role and settings with it.
EndTx(k) == [conn EXCEPT ![k] = Free]

\* Mutant: the error of Commit is dropped.
BugDropCommitError(s, code) ==
  /\ conn' = EndTx(slot[s].conn)
  /\ slot' = [slot EXCEPT ![s].pc = "reply", ![s].conn = 0, ![s].write = [t |-> "none"],
                          ![s].locks = {},
                          ![s].status = IF slot[s].pc = "commit" THEN @ ELSE code]
  /\ UNCHANGED <<tables, calls, now, acked>>

\* The deferred Rollback, and the answer that goes with the error.
Rollback(s, code) ==
  /\ conn' = EndTx(slot[s].conn)
  /\ slot' = [slot EXCEPT ![s].pc = "reply", ![s].status = code, ![s].conn = 0,
                          ![s].write = [t |-> "none"], ![s].locks = {}]
  /\ UNCHANGED <<tables, calls, now, acked>>

NoWrite == [t |-> "none"]

InTx(s, op) == slot[s].pc = "tx" /\ slot[s].req.op = op
Me(s) == conn[slot[s].conn]

OrgOfLead(id) == human[wk[id].lead].org
Owned(s, id) == id \in DOMAIN wk /\ OrgOfLead(id) = slot[s].req.tok.org

\* Row security shows a transaction the manifests of its own organization.
ManifestVisible(s, m) == m \in DOMAIN ManifestOrg /\ ManifestOrg[m] = Me(s).org

\* The row a log entry names as its actor.
ActorRow(t) ==
  CASE actorFromScope(t.scope) = "watchkeeper" -> {<<"wk", t.who>>}
    [] actorFromScope(t.scope) = "human" -> {<<"human", t.who>>}
    [] OTHER -> {}

----------------------------------------------------------------------------
(* Locks.  A SELECT FOR UPDATE locks its row for "update", an UPDATE for    *)
(* "nokey", the check of a foreign key for "share"; an insert has the       *)
(* unique "key" it writes.  They are held until the transaction ends.       *)

Lock(mode, row) == [mode |-> mode, row |-> row]

Conflict(a, b) ==
  a.row = b.row /\ ("update" \in {a.mode, b.mode} \/ (a.mode = b.mode /\ a.mode # "share"))

\* Mutant: a plain SELECT, without FOR UPDATE.
BugNoRowLock(s) ==
  LET r == slot[s].req IN
  CASE InTx(s, "setLead") /\ Owned(s, r.id) -> {Lock("nokey", <<"wk", r.id>>)}
    [] OTHER -> {}

\* What the next statement of a transaction has to lock.  A row its filter
\* does not find is not locked.  FOR UPDATE OF w leaves the human row alone.
NextLocks(s) ==
  LET r == slot[s].req IN
  CASE InTx(s, "updateStatus") /\ Owned(s, r.id) -> {Lock("update", <<"wk", r.id>>)}
    [] InTx(s, "setLead") /\ Owned(s, r.id) -> {Lock("nokey", <<"wk", r.id>>)}
    [] slot[s].pc = "locked" /\ r.op = "setLead" -> {Lock("share", <<"human", r.lead>>)}
    [] InTx(s, "insertWatchkeeper") -> {Lock("share", <<"human", r.lead>>)}
    [] InTx(s, "logAppend") -> {Lock("share", row) : row \in ActorRow(r.tok)}
    [] InTx(s, "putVersion") /\ ManifestVisible(s, r.id) ->
         {Lock("key", <<"version", r.id, r.no>>)}
    [] InTx(s, "insertHuman") /\ r.slack # NoSlack -> {Lock("key", <<"slack", r.slack>>)}
    [] OTHER -> {}

\* The transactions that statement has to wait for.
BlockedBy(s) ==
  {p \in Slots \ {s} : \E a \in NextLocks(s), b \in slot[p].locks : Conflict(a, b)}

\* A statement that leaves another to run has the row.
HasRow(s, body) ==
  /\ slot' = [slot EXCEPT ![s].pc = "locked", ![s].body = body,
                          ![s].locks = @ \cup NextLocks(s)]
  /\ UNCHANGED <<tables, conn, calls, now, acked, faults>>

\* The transaction's body is done: this is what Commit will make visible.
Ready(s, w, code, body) ==
  /\ slot' = [slot EXCEPT ![s].pc = "commit", ![s].write = w,
                          ![s].status = code, ![s].body = body,
                          ![s].locks = @ \cup NextLocks(s)]
  /\ UNCHANGED <<tables, conn, calls, now, acked, faults>>

----------------------------------------------------------------------------
(* The handlers: what each does inside its transaction.                    *)

handleStore(s) ==
  /\ InTx(s, "store")
  /\ Ready(s, [t |-> "chunk", row |-> [id |-> slot[s].n, scope |-> slot[s].req.tok.scope]],
           201, {slot[s].n})

\* The actor of an entry has to exist.
handleLogAppend(s) ==
  /\ InTx(s, "logAppend")
  /\ LET r == slot[s].req
         known == \A row \in ActorRow(r.tok) :
                    row[2] \in IF row[1] = "wk" THEN DOMAIN wk ELSE DOMAIN human IN
     \/ ~known /\ Rollback(s, 500) /\ UNCHANGED faults
     \/ /\ known
        /\ Ready(s, [t |-> "log",
                     row |-> [id |-> slot[s].n, at |-> Me(s).at, cost |-> r.cost,
                              agent |-> r.agent, model |-> r.model,
                              actor |-> ActorRow(r.tok)]],
                 201, {slot[s].n})

handlePutManifestVersion(s) ==
  /\ InTx(s, "putVersion")
  /\ LET r == slot[s].req
         same == {v \in version : v.manifest = r.id /\ v.no = r.no} IN
     \/ ~ManifestVisible(s, r.id) /\ Rollback(s, 404) /\ UNCHANGED faults
     \/ ManifestVisible(s, r.id) /\ same # {} /\ Rollback(s, 409) /\ UNCHANGED faults
     \/ /\ ManifestVisible(s, r.id) /\ same = {}
        /\ Ready(s, [t |-> "version", row |-> [id |-> slot[s].n, manifest |-> r.id, no |-> r.no]],
                 201, {slot[s].n})

handleInsertWatchkeeper(s) ==
  /\ InTx(s, "insertWatchkeeper")
  /\ LET r == slot[s].req
         ours == r.lead \in DOMAIN human /\ human[r.lead].org = r.tok.org IN
     \/ ~ours /\ Rollback(s, 404) /\ UNCHANGED faults
     \/ ours /\ r.manifest \notin DOMAIN ManifestOrg /\ Rollback(s, 500) /\ UNCHANGED faults
     \/ /\ ours /\ r.manifest \in DOMAIN ManifestOrg
        /\ Ready(s, [t |-> "wk", id |-> slot[s].n,
                     row |-> [lead |-> r.lead, status |-> "pending", spawned |-> 0,
                              retired |-> 0, archive |-> "null"]],
                 201, {slot[s].n})

\* Mutant: FOR UPDATE without OF w, which locks the human first.
BugBareForUpdate(s) ==
  /\ InTx(s, "updateStatus")
  /\ LET id == slot[s].req.id  lead == Lock("update", <<"human", wk[id].lead>>) IN
     \/ ~Owned(s, id) /\ Ready(s, NoWrite, 404, {})
     \/ /\ Owned(s, id) /\ slot[s].locks = {}
        /\ \A b \in UNION {slot[p].locks : p \in Slots} : ~Conflict(lead, b)
        /\ slot' = [slot EXCEPT ![s].locks = {lead}]
        /\ UNCHANGED <<tables, conn, calls, now, acked, faults>>
     \/ Owned(s, id) /\ slot[s].locks # {} /\ HasRow(s, {wk[id].status})

\* SELECT ... FOR UPDATE OF w, which waits for the row's lock.
handleUpdateWatchkeeperStatus(s) ==
  /\ InTx(s, "updateStatus")
  /\ LET id == slot[s].req.id IN
     \/ ~Owned(s, id) /\ Ready(s, NoWrite, 404, {})
     \/ Owned(s, id) /\ HasRow(s, {wk[id].status})

execRetireUpdate(s, row) ==
  [row EXCEPT !.status = "retired", !.retired = Me(s).at,
              !.archive = IF slot[s].req.archive = "absent" THEN "null"
                          ELSE slot[s].req.archive]

\* The switch over the status the SELECT read, and its UPDATE.
Transition(s) ==
  /\ slot[s].pc = "locked" /\ slot[s].req.op = "updateStatus"
  /\ LET r == slot[s].req  row == wk[r.id]  from == slot[s].body IN
     \/ /\ from = {"pending"} /\ r.val = "active"
        /\ Ready(s, [t |-> "wk", id |-> r.id,
                     row |-> [row EXCEPT !.status = "active", !.spawned = Me(s).at]], 204, {})
     \/ /\ from = {"active"} /\ r.val = "retired"
        /\ Ready(s, [t |-> "wk", id |-> r.id, row |-> execRetireUpdate(s, row)], 204, {})
     \/ /\ ~(from = {"pending"} /\ r.val = "active") /\ ~(from = {"active"} /\ r.val = "retired")
        /\ Ready(s, NoWrite, 400, {})

handleInsertHuman(s) ==
  /\ InTx(s, "insertHuman")
  /\ LET r == slot[s].req IN
     \/ /\ r.slack # NoSlack /\ \E h \in DOMAIN human : human[h].slack = r.slack
        /\ Rollback(s, 409) /\ UNCHANGED faults
     \/ /\ r.slack = NoSlack \/ \A h \in DOMAIN human : human[h].slack # r.slack
        /\ Ready(s, [t |-> "human", row |-> [org |-> r.tok.org, slack |-> r.slack]],
                 201, {slot[s].n})

\* The UPDATE's own filter is on the current lead.
handleSetWatchkeeperLead(s) ==
  /\ InTx(s, "setLead")
  /\ LET id == slot[s].req.id IN
     \/ ~Owned(s, id) /\ Ready(s, NoWrite, 404, {})
     \/ Owned(s, id) /\ HasRow(s, {})

\* The foreign key, checked when the row is updated: the new lead only has to
\* exist.
LeadExists(s) ==
  /\ slot[s].pc = "locked" /\ slot[s].req.op = "setLead"
  /\ LET r == slot[s].req IN
     \/ r.lead \notin DOMAIN human /\ Rollback(s, 400) /\ UNCHANGED faults
     \/ /\ r.lead \in DOMAIN human
        /\ Ready(s, [t |-> "wk", id |-> r.id, row |-> [wk[r.id] EXCEPT !.lead = r.lead]], 204, {})

Found(s, rows) == IF rows = {} THEN Rollback(s, 404) /\ UNCHANGED faults
                  ELSE Ready(s, NoWrite, 200, rows)

handleLookupHumanBySlackID(s) ==
  /\ InTx(s, "lookupHuman")
  /\ Found(s, {h \in DOMAIN human : human[h].slack = slot[s].req.slack})

handleGetWatchkeeper(s) ==
  /\ InTx(s, "getWatchkeeper")
  /\ Found(s, {slot[s].req.id} \cap DOMAIN wk)

handleGetManifest(s) ==
  /\ InTx(s, "getManifest")
  /\ LET rows == {v \in version : v.manifest = slot[s].req.id /\ ManifestVisible(s, v.manifest)} IN
     \/ slot[s].req.flaw = "shape" /\ Rollback(s, 500) /\ UNCHANGED faults
     \/ /\ slot[s].req.flaw = "none"
        /\ Found(s, {v.id : v \in {w \in rows : \A x \in rows : x.no <= w.no}})

Clamp(n) == IF n = 0 THEN DefLimit ELSE IF n > MaxLimit THEN MaxLimit ELSE n

\* The n rows with the largest key; rows with equal keys come in any order.
Newest(rows, key(_), n) ==
  {T \in SUBSET rows :
     /\ Cardinality(T) = IF n < Cardinality(rows) THEN n ELSE Cardinality(rows)
     /\ \A x \in T, y \in rows \ T : key(x) >= key(y)}

\* Row security shows the chunks of scope org and those of the caller's own.
ChunkVisible(s, c) == c.scope \in {"org", Me(s).scope}

handleSearch(s) ==
  /\ InTx(s, "search")
  /\ \E T \in Newest({c \in chunk : ChunkVisible(s, c)}, LAMBDA c : 0, Clamp(slot[s].req.n)) :
       Ready(s, NoWrite, 200, {c.id : c \in T})

handleLogTail(s) ==
  /\ InTx(s, "logTail")
  /\ \E T \in Newest(log, LAMBDA e : e.at, Clamp(slot[s].req.n)) :
       Ready(s, NoWrite, 200, {e.id : e \in T})

handleListWatchkeepers(s) ==
  /\ InTx(s, "listWatchkeepers")
  /\ LET rows == {w \in DOMAIN wk : slot[s].req.val \in {"any", wk[w].status}} IN
     \E T \in Newest(rows, LAMBDA w : w, Clamp(slot[s].req.n)) : Ready(s, NoWrite, 200, T)

Bucket(grain, at) == IF grain = "weekly" THEN Week * (at \div Week) ELSE at

\* The calls of the agent a roll-up counts, and those of one group.
Counted(r) == {e \in log : e.cost # 0 /\ e.agent = r.agent /\ r.from <= e.at /\ e.at < r.to}
Group(r, e) == <<Bucket(r.val, e.at), e.model>>
InGroup(r, g) == {e \in Counted(r) : Group(r, e) = g}
Tokens(rows) == MapThenSumSet(LAMBDA e : e.cost, rows)

\* One row per bucket and model with a call in it: its calls and their tokens.
runCostRollupQuery(r) ==
  {[group |-> g, calls |-> Cardinality(InGroup(r, g)), tokens |-> Tokens(InGroup(r, g))] :
     g \in {Group(r, e) : e \in Counted(r)}}

handleCostRollups(s) ==
  /\ InTx(s, "costRollups")
  /\ Ready(s, NoWrite, 200, runCostRollupQuery(slot[s].req))

Statement(s) ==
  \/ handleStore(s) \/ handleLogAppend(s) \/ handlePutManifestVersion(s)
  \/ handleInsertWatchkeeper(s) \/ handleUpdateWatchkeeperStatus(s) \/ Transition(s)
  \/ handleInsertHuman(s) \/ handleSetWatchkeeperLead(s) \/ LeadExists(s)
  \/ handleLookupHumanBySlackID(s) \/ handleGetWatchkeeper(s)
  \/ handleGetManifest(s) \/ handleSearch(s) \/ handleLogTail(s)
  \/ handleListWatchkeepers(s) \/ handleCostRollups(s)

\* A statement goes on when it has its locks.
Handler(s) == BlockedBy(s) = {} /\ Statement(s)

----------------------------------------------------------------------------
(* Commit, the answer, and everything that may go wrong.                   *)

Apply(w, n) ==
  /\ human' = IF w.t = "human" THEN [i \in DOMAIN human \cup {n} |->
                 IF i = n THEN w.row ELSE human[i]] ELSE human
  /\ wk' = IF w.t = "wk" THEN [i \in DOMAIN wk \cup {w.id} |->
              IF i = w.id THEN w.row ELSE wk[i]] ELSE wk
  /\ version' = IF w.t = "version" THEN version \cup {w.row} ELSE version
  /\ chunk' = IF w.t = "chunk" THEN chunk \cup {w.row} ELSE chunk
  /\ log' = IF w.t = "log" THEN log \cup {w.row} ELSE log

\* tx.Commit; told is FALSE when the commit took effect and its own answer
\* was lost, which the handler reports as a failure.
Commit(s, told) ==
  /\ slot[s].pc = "commit"
  /\ Apply(slot[s].write, slot[s].n)
  /\ conn' = EndTx(slot[s].conn)
  /\ slot' = [slot EXCEPT ![s].pc = "reply", ![s].conn = 0, ![s].write = NoWrite,
                          ![s].locks = {},
                          ![s].status = IF told THEN @ ELSE 500]
  /\ UNCHANGED <<calls, now, acked>>

CommitOK(s) == Commit(s, TRUE) /\ UNCHANGED faults
CommitUnknown(s) == faults < MaxFaults /\ Commit(s, FALSE) /\ faults' = faults + 1

\* Any statement of the transaction fails, also because the request's
\* context ended with the client.
StatementFails(s) ==
  /\ slot[s].pc \in {"tx", "locked", "commit"}
  /\ faults < MaxFaults /\ faults' = faults + 1
  /\ Rollback(s, 500)

BeginFails(s) ==
  /\ slot[s].pc = "begin" /\ faults < MaxFaults /\ faults' = faults + 1
  /\ slot' = [slot EXCEPT ![s].pc = "reply", ![s].status = 500]
  /\ UNCHANGED <<tables, conn, calls, now, acked>>

\* The request never arrives, or the client stops waiting for the answer.
Lost(s) ==
  /\ slot[s].client = "waiting" /\ faults < MaxFaults /\ faults' = faults + 1
  /\ slot' = [slot EXCEPT ![s].client = "gone",
                          ![s].pc = IF @ = "sent" THEN "done" ELSE @]
  /\ UNCHANGED <<tables, conn, calls, now, acked>>

\* A client that gave up never sees the answer.
NobodyThere(s) ==
  /\ slot[s].pc = "reply" /\ slot[s].client = "gone"
  /\ slot' = [slot EXCEPT ![s].pc = "done", ![s].status = 0, ![s].body = {}]
  /\ UNCHANGED <<tables, conn, calls, now, acked, faults>>

\* The answer: Spawn goes on to activate the row it was told of.
Answer(s) ==
  /\ slot[s].pc = "reply" /\ slot[s].client = "waiting"
  /\ acked' = IF slot[s].status = 201 THEN acked \cup slot[s].body ELSE acked
  /\ slot' = [slot EXCEPT ![s] =
       IF slot[s].req.op = "insertWatchkeeper" /\ slot[s].status = 201 /\ slot[s].req.spawn
         THEN [Idle EXCEPT !.pc = "sent", !.req = Spawn(slot[s].req, slot[s].n),
                           !.n = slot[s].n, !.client = "waiting", !.known = acked']
         ELSE [slot[s] EXCEPT !.pc = "done", !.client = "gone"]]
  /\ UNCHANGED <<tables, conn, calls, now, faults>>

Serve(s) ==
  Arrive(s) \/ WithScope(s) \/ Handler(s) \/ CommitOK(s) \/ NobodyThere(s) \/ Answer(s)
Faults(s) == CommitUnknown(s) \/ StatementFails(s) \/ BeginFails(s) \/ Lost(s)

Next == \E s \in Slots : Serve(s) \/ Faults(s) \/ \E r \in Requests[s] : do(s, r)

Spec == Init /\ [][Next]_vars

----------------------------------------------------------------------------
(* Properties.                                                             *)

Answered(s) == slot[s].pc = "done" /\ slot[s].status # 0

VersionOf(id) == CHOOSE v \in version : v.id = id
LogOf(id) == CHOOSE e \in log : e.id = id

\* What a read was asked for: a row its answer must not lack unless the
\* answer is full of rows at least as new.
Matches(r, id) ==
  CASE r.op = "lookupHuman" -> id \in DOMAIN human /\ human[id].slack = r.slack
    [] r.op = "getWatchkeeper" -> id \in DOMAIN wk /\ id = r.id
    [] r.op = "listWatchkeepers" -> id \in DOMAIN wk /\ r.val = "any"
    [] r.op = "search" -> \E c \in chunk : c.id = id /\ c.scope \in {"org", r.tok.scope}
    [] r.op = "logTail" -> \E e \in log : e.id = id
    [] OTHER -> FALSE
Full(r, body) ==
  r.op \in {"listWatchkeepers", "search", "logTail"} /\ Cardinality(body) = Clamp(r.n)
NewerInBody(r, body, id) ==
  r.op = "logTail" => \A x \in body : LogOf(x).at >= LogOf(id).at

FindsKnown(r, body, known) ==
  \A id \in known :
    Matches(r, id) => id \in body \/ (Full(r, body) /\ NewerInBody(r, body, id))

ManifestIsRecent(r, body, known) ==
  r.op = "getManifest" =>
    /\ \A v \in version :
         v.id \in known /\ v.manifest = r.id /\ ManifestOrg[r.id] = r.tok.org =>
           \E x \in body : VersionOf(x).no >= v.no
    /\ \A x \in body : ManifestOrg[VersionOf(x).manifest] = r.tok.org

RollupCounts(r, body, known) ==
  r.op = "costRollups" =>
    /\ \A e \in Counted(r) :
         e.id \in known => \E x \in body : x.group = Group(r, e)
    /\ \A x \in body :
         /\ \E e \in log : Group(r, e) = x.group /\ e.agent = r.agent
         /\ Cardinality({e \in InGroup(r, x.group) : e.id \in known}) <= x.calls
         /\ x.calls <= Cardinality(InGroup(r, x.group))
    /\ \A x, y \in body : x.group = y.group => x = y

SearchIsInScope(r, body) ==
  r.op = "search" =>
    \A c \in chunk : c.id \in body => c.scope \in {"org", r.tok.scope}

\* A caller that was told of a row finds it in every read it starts
\* afterwards, whatever ran in between: a search, a log tail, a list or a
\* lookup has it unless its limit is used up by rows at least as new, the
\* manifest it gets is no older than a version it knew of, and a cost
\* roll-up counts every call of the agent it is asked about once, in its
\* bucket and under its model, and no other agent's.  A read shows nothing
\* outside the token's scope.
FreshReads ==
  \A s \in Slots :
    LET r == slot[s].req  body == slot[s].body  known == slot[s].known IN
    slot[s].pc \in {"reply", "done"} /\ slot[s].status \in {200, 404} =>
      /\ FindsKnown(r, body, known) /\ ManifestIsRecent(r, body, known)
      /\ RollupCounts(r, body, known) /\ SearchIsInScope(r, body)

\* A connection is in one transaction at a time and carries that caller's
\* role, scope and organization; back in the pool it carries none.
PooledConnectionsAreClean ==
  \A k \in Conns :
    LET users == {s \in Slots : slot[s].conn = k} IN
    IF users = {} THEN conn[k] = Free
    ELSE \E s \in users :
           /\ users = {s} /\ conn[k].by = slot[s].n
           /\ conn[k].scope = slot[s].req.tok.scope /\ conn[k].org = slot[s].req.tok.org
           /\ conn[k].role = RoleForScope(slot[s].req.tok.scope)

\* A caller told that its write was made finds it made, and once; a caller
\* told that it was refused has changed nothing.
Refused(s) == Answered(s) /\ slot[s].status \in 400..499
Made(n) == \/ n \in DOMAIN human \/ n \in DOMAIN wk
           \/ n \in {x.id : x \in version \cup chunk \cup log}
Rank == [pending |-> 0, active |-> 1, retired |-> 2]
AckIsEffect ==
  /\ \A s \in Slots :
       /\ Answered(s) /\ slot[s].status = 201 => Made(slot[s].n)
       /\ Answered(s) /\ slot[s].status = 204 /\ slot[s].req.op = "updateStatus" =>
            Rank[wk[slot[s].req.id].status] >= Rank[slot[s].req.val]
       /\ Refused(s) /\ slot[s].req.op # "updateStatus" => ~Made(slot[s].n)
  /\ \A v, w \in version : v.manifest = w.manifest /\ v.no = w.no => v = w
  /\ \A g, h \in DOMAIN human :
       human[g].slack = human[h].slack /\ human[g].slack # NoSlack => g = h

\* A watchkeeper only moves from pending to active to retired, its times and
\* archive are written by that move alone, and whoever changes the row is of
\* the organization that leads it at that moment.
OneWayAndOwned ==
  [][ \A w \in DOMAIN wk :
        /\ w \in DOMAIN wk'
        /\ Rank[wk'[w].status] - Rank[wk[w].status] \in 0..1
        /\ wk'[w].status = wk[w].status => wk'[w] = [wk[w] EXCEPT !.lead = wk'[w].lead]
        /\ wk'[w] # wk[w] =>
             \E s \in Slots : /\ slot[s].pc = "commit" /\ slot'[s].pc = "reply"
                               /\ slot[s].req.id = w
                               /\ slot[s].req.tok.org = OrgOfLead(w) ]_vars

\* A caller that can only go on when one of W does: its next statement waits
\* for a lock of one, or every pooled connection is taken, by them or for good.
Stuck(s, W) ==
  \/ /\ slot[s].pc = "begin"
     /\ \A k \in Conns : conn[k].by # 0 /\ \A p \in Slots \ W : slot[p].conn # k
  \/ slot[s].pc \in {"tx", "locked"} /\ BlockedBy(s) \cap W # {}

\* Nobody waits in a circle: among any callers there is one that needs none
\* of them to go on.  "DO NOT drop the OF w qualifier ... opening a deadlock
\* window" (handleUpdateWatchkeeperStatus); connections, row locks, foreign
\* keys and unique keys are waited for in this order.
NoDeadlock == \A W \in (SUBSET Slots) \ {{}} : \E s \in W : ~Stuck(s, W)

=============================================================================
