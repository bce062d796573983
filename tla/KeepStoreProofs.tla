-------------------------- MODULE KeepStoreProofs --------------------------
(***************************************************************************)
(* Keep's transactions proved for any number of callers, pooled            *)
(* connections, requests and faults: a pooled connection never carries     *)
(* another caller's settings, an acknowledged write is there and a refused *)
(* one is not, unique keys hold, a watchkeeper moves one way and by its    *)
(* own organization only, and what a caller was told of it finds again.    *)
(*                                                                         *)
(* The steps of a caller are of eight kinds (Calls, GivesUp, Moves, Takes, *)
(* Locks, Readies, Undoes, Commits), and every action is one of them.      *)
(* The invariant says what a transaction holds while it is open: its       *)
(* connection (ConnInv), its locks (LocksOf), what it read under them      *)
(* (LockInv), and a write that is still right when it commits (WriteInv),  *)
(* because no other transaction holds the same row or unique key (Apart).  *)
(* That locks are only held past the wait for them makes NoDeadlock.       *)
(* A second one (FreshInv) says of each read what it found, from the       *)
(* statement that read it until its answer is forgotten.                   *)
(***************************************************************************)
EXTENDS KeepStore, FiniteSetTheorems, TLAPS

OpenPcs == {"tx", "locked", "commit"}
Pcs == {"idle", "sent", "begin", "reply", "done"} \cup OpenPcs

Fields ==
  {"pc", "req", "n", "client", "conn", "write", "status", "body", "known", "locks"}

(* The locks a transaction has: its row's, the unique key's of its insert,   *)
(* and never more than a share of a human row.                              *)
RowOps == {"updateStatus", "setLead"}

RowLocked(r, L) == \E l \in L : l.mode \in {"update", "nokey"} /\ l.row = <<"wk", r.id>>

Secured(r, w, L) ==
  /\ w.t = "wk" /\ r.op \in RowOps => RowLocked(r, L)
  /\ w.t = "version" => Lock("key", <<"version", w.row.manifest, w.row.no>>) \in L
  /\ w.t = "human" => w.row.slack = NoSlack \/ Lock("key", <<"slack", w.row.slack>>) \in L

Shared(L) == \A l \in L : l.row[1] = "human" => l.mode = "share"

LocksOf(x) ==
  /\ x.pc \notin {"locked", "commit"} => x.locks = {}
  /\ x.pc = "locked" => x.req.op \in RowOps /\ RowLocked(x.req, x.locks)
  /\ Secured(x.req, x.write, x.locks) /\ Shared(x.locks)

SlotShape(x) ==
  /\ x = [f \in Fields |-> x[f]]
  /\ x.pc \in Pcs
  /\ x.pc # "idle" => x.req.op \in Endpoints
  /\ LocksOf(x)

Columns == {"lead", "status", "spawned", "retired", "archive"}

RowShape(x) ==
  /\ x = [f \in Columns |-> x[f]]
  /\ x.lead \in DOMAIN human
  /\ x.status \in {"pending", "active", "retired"}

Shape ==
  /\ slot = [s \in Slots |-> slot[s]]
  /\ \A s \in Slots : SlotShape(slot[s])
  /\ conn = [k \in Conns |-> conn[k]]
  /\ \A w \in DOMAIN wk : RowShape(wk[w])

(* The numbers of calls: each its own, and only the call that inserted a    *)
(* row has made it.                                                         *)
NumberOf(s) ==
  /\ slot[s].n \in 0..calls
  /\ slot[s].pc # "idle" => slot[s].n \in 1..calls
  /\ slot[s].pc \in {"sent", "begin"} \cup OpenPcs /\ slot[s].req.op # "updateStatus" =>
       ~Made(slot[s].n)

Numbers ==
  /\ calls \in Nat /\ calls <= MaxCalls
  /\ \A s \in Slots : NumberOf(s)
  /\ \A n \in 1..MaxCalls : n > calls => ~Made(n)

ConnOf(s) ==
  IF slot[s].pc \in OpenPcs
  THEN /\ slot[s].conn \in Conns
       /\ conn[slot[s].conn].by = slot[s].n
       /\ conn[slot[s].conn].scope = slot[s].req.tok.scope
       /\ conn[slot[s].conn].org = slot[s].req.tok.org
       /\ conn[slot[s].conn].role = RoleForScope(slot[s].req.tok.scope)
  ELSE slot[s].conn = 0

ConnInv ==
  /\ \A s \in Slots : ConnOf(s)
  /\ \A k \in Conns : (\A s \in Slots : slot[s].conn # k) => conn[k] = Free

(* What a transaction that holds a row's lock read is still so. *)
LockOf(s) ==
  slot[s].pc = "locked" =>
    /\ Owned(s, slot[s].req.id)
    /\ slot[s].req.op = "updateStatus" => slot[s].body = {wk[slot[s].req.id].status}

LockInv == \A s \in Slots : LockOf(s)

(* What a transaction is about to commit is still right. *)
InsertSound(s) ==
  LET w == slot[s].write IN
  /\ slot[s].status = 201 /\ slot[s].req.op # "updateStatus"
  /\ \/ w.t \in {"chunk", "log"} /\ w.row.id = slot[s].n
     \/ /\ w.t = "version" /\ w.row.id = slot[s].n
        /\ \A v \in version : ~(v.manifest = w.row.manifest /\ v.no = w.row.no)
     \/ /\ w.t = "human"
        /\ w.row.slack = NoSlack \/ \A h \in DOMAIN human : human[h].slack # w.row.slack
     \/ /\ w.t = "wk" /\ w.id = slot[s].n /\ slot[s].req.op # "setLead"
        /\ RowShape(w.row)

UpdateSound(s) ==
  LET w == slot[s].write  r == slot[s].req IN
  /\ w.t = "wk" /\ w.id = r.id /\ slot[s].status = 204
  /\ Owned(s, r.id) /\ RowShape(w.row)
  /\ \/ /\ r.op = "updateStatus" /\ w.row.status = r.val
        /\ w.row.lead = wk[r.id].lead
        /\ \/ wk[r.id].status = "pending" /\ r.val = "active"
           \/ wk[r.id].status = "active" /\ r.val = "retired"
     \/ r.op = "setLead" /\ w.row = [wk[r.id] EXCEPT !.lead = w.row.lead]

NothingSound(s) == slot[s].write.t = "none" /\ slot[s].status \in {200, 400, 404}

WriteOf(s) ==
  IF slot[s].pc = "commit" THEN InsertSound(s) \/ UpdateSound(s) \/ NothingSound(s)
  ELSE slot[s].write.t = "none"

WriteInv == \A s \in Slots : WriteOf(s)

(* No two callers share a number, a connection, a row lock or a unique key. *)
Holds(s, id) ==
  \/ slot[s].pc = "locked" /\ slot[s].req.id = id
  \/ slot[s].write.t = "wk" /\ slot[s].write.id = id

ApartFrom(s, p) ==
  /\ slot[s].n # 0 => slot[s].n # slot[p].n
  /\ slot[s].conn # 0 => slot[s].conn # slot[p].conn
  /\ slot[s].pc = "locked" => ~Holds(p, slot[s].req.id)
  /\ slot[s].write.t = "wk" => ~Holds(p, slot[s].write.id)
  /\ slot[s].write.t = "version" /\ slot[p].write.t = "version" =>
       ~(/\ slot[s].write.row.manifest = slot[p].write.row.manifest
         /\ slot[s].write.row.no = slot[p].write.row.no)
  /\ slot[s].write.t = "human" /\ slot[p].write.t = "human" =>
       slot[s].write.row.slack = NoSlack \/ slot[s].write.row.slack # slot[p].write.row.slack

Apart == \A s, p \in Slots : s # p => ApartFrom(s, p)

(* What a caller is about to be told, or has been told. *)
AckOf(s) ==
  /\ slot[s].pc \in {"idle", "sent", "begin", "tx", "locked"} => slot[s].status = 0
  /\ slot[s].pc \in {"reply", "done"} =>
       /\ slot[s].status = 201 => Made(slot[s].n)
       /\ slot[s].status = 204 /\ slot[s].req.op = "updateStatus" =>
            /\ slot[s].req.id \in DOMAIN wk
            /\ Rank[wk[slot[s].req.id].status] >= Rank[slot[s].req.val]
            /\ slot[s].req.val \in {"active", "retired"}
       /\ slot[s].status \in 400..499 /\ slot[s].req.op # "updateStatus" => ~Made(slot[s].n)

AckInv == \A s \in Slots : AckOf(s)

UniqueKeys ==
  /\ \A v, w \in version : v.manifest = w.manifest /\ v.no = w.no => v = w
  /\ \A g, h \in DOMAIN human :
       human[g].slack = human[h].slack /\ human[g].slack # NoSlack => g = h

IInv ==
  Shape /\ Numbers /\ ConnInv /\ LockInv /\ WriteInv /\ Apart /\ AckInv /\ UniqueKeys

LEMMA InitIInv == Init => IInv
<1> SUFFICES ASSUME Init PROVE IInv
  OBVIOUS
<1> USE DEF Init, Idle, Free
<1>1. Shape
  <2>1. LocksOf(Idle)
    BY DEF LocksOf, Secured, Shared
  <2>2. SlotShape(Idle)
    BY <2>1 DEF SlotShape, Pcs, Fields
  <2>3. \A w \in DOMAIN wk : RowShape(wk[w])
    BY RowsAssumption DEF RowShape, Columns
  <2> QED BY <2>2, <2>3 DEF Shape
<1>2. Numbers
  BY RowsAssumption, CallsAssumption DEF Numbers, NumberOf, OpenPcs, Made
<1>3. ConnInv /\ LockInv /\ WriteInv /\ AckInv
  BY DEF ConnInv, ConnOf, LockInv, LockOf, WriteInv, WriteOf, AckInv, AckOf, OpenPcs
<1>4. Apart
  BY DEF Apart, ApartFrom, Holds
<1>5. UniqueKeys
  BY RowsAssumption DEF UniqueKeys
<1> QED BY <1>1, <1>2, <1>3, <1>4, <1>5 DEF IInv
-----------------------------------------------------------------------------
(* The kinds of steps *)

Frame(s) ==
  /\ slot' = [p \in Slots |-> slot'[p]]
  /\ SlotShape(slot'[s])
  /\ \A p \in Slots : p # s => slot'[p] = slot[p]

SameCall(s) == slot'[s].req = slot[s].req /\ slot'[s].n = slot[s].n

(* A call is made, and refused by the client or sent. *)
Calls(s) ==
  /\ Frame(s) /\ UNCHANGED <<tables, conn>>
  /\ slot[s].pc \in {"idle", "done"} /\ calls < MaxCalls /\ calls' = calls + 1
  /\ slot'[s].pc \in {"sent", "done"} /\ slot'[s].n = calls + 1
  /\ slot'[s].conn = 0 /\ slot'[s].status = 0 /\ slot'[s].write = NoWrite

(* The client gives up: nothing else changes. *)
GivesUp(s) ==
  /\ Frame(s) /\ UNCHANGED <<tables, conn, calls>> /\ SameCall(s)
  /\ slot'[s].pc = slot[s].pc /\ slot'[s].conn = slot[s].conn
  /\ slot'[s].write = slot[s].write /\ slot'[s].status = slot[s].status
  /\ slot'[s].body = slot[s].body

(* Before and after the transaction. *)
Moves(s) ==
  /\ Frame(s) /\ UNCHANGED <<tables, conn, calls>>
  /\ slot'[s].n = slot[s].n /\ slot'[s].conn = slot[s].conn /\ slot'[s].write.t = "none"
  /\ \/ /\ slot[s].pc = "sent" /\ slot'[s].pc = "begin"
        /\ slot'[s].req = slot[s].req /\ slot'[s].status = 0
     \/ /\ slot[s].pc \in {"sent", "begin"} /\ slot'[s].pc = "reply"
        /\ slot'[s].req = slot[s].req
        /\ slot'[s].status \in {400, 401, 403, 413, 415, 500}
     \/ /\ slot[s].pc \in {"sent", "reply"} /\ slot'[s].pc = "done"
        /\ slot'[s].req = slot[s].req /\ slot'[s].status \in {0, slot[s].status}
     \/ /\ slot[s].pc = "reply" /\ slot'[s].pc = "sent"
        /\ slot'[s].req.op = "updateStatus" /\ slot'[s].status = 0

Takes(s) ==
  /\ Frame(s) /\ UNCHANGED <<tables, calls>> /\ SameCall(s)
  /\ slot[s].pc = "begin" /\ slot'[s].pc = "tx"
  /\ \E k \in Conns : /\ conn[k].by = 0
                      /\ conn' = [conn EXCEPT ![k] = Settings(s, slot[s].req.tok)]
                      /\ slot'[s].conn = k
  /\ slot'[s].write = slot[s].write /\ slot'[s].status = slot[s].status

Locks(s) ==
  /\ Frame(s) /\ UNCHANGED <<tables, conn, calls>> /\ SameCall(s)
  /\ slot[s].pc = "tx" /\ slot'[s].pc = "locked"
  /\ slot'[s].conn = slot[s].conn /\ slot'[s].write = slot[s].write
  /\ slot'[s].status = slot[s].status
  /\ Owned(s, slot[s].req.id)
  /\ slot[s].req.op = "updateStatus" => slot'[s].body = {wk[slot[s].req.id].status}
  /\ \A p \in Slots : ~Holds(p, slot[s].req.id)

(* No other transaction has a claim on what this one is about to write. *)
Clear(s, w) ==
  \A p \in Slots : p # s =>
    /\ w.t = "wk" => ~Holds(p, w.id)
    /\ w.t = "version" /\ slot[p].write.t = "version" =>
         ~(w.row.manifest = slot[p].write.row.manifest /\ w.row.no = slot[p].write.row.no)
    /\ w.t = "human" /\ slot[p].write.t = "human" =>
         w.row.slack = NoSlack \/ w.row.slack # slot[p].write.row.slack

Readies(s) ==
  /\ Frame(s) /\ UNCHANGED <<tables, conn, calls>> /\ SameCall(s)
  /\ slot[s].pc \in {"tx", "locked"} /\ slot'[s].pc = "commit"
  /\ slot'[s].conn = slot[s].conn
  /\ InsertSound(s)' \/ UpdateSound(s)' \/ NothingSound(s)'
  /\ Clear(s, slot'[s].write)

Ends(s) ==
  /\ Frame(s) /\ UNCHANGED calls /\ SameCall(s)
  /\ slot'[s].pc = "reply" /\ slot'[s].conn = 0 /\ slot'[s].write = NoWrite
  /\ conn' = [conn EXCEPT ![slot[s].conn] = Free]

Undoes(s) ==
  /\ Ends(s) /\ UNCHANGED tables
  /\ slot[s].pc \in OpenPcs /\ slot'[s].status \in {400, 404, 409, 500}

Commits(s) ==
  /\ Ends(s) /\ Apply(slot[s].write, slot[s].n)
  /\ slot[s].pc = "commit" /\ slot'[s].status \in {slot[s].status, 500}

Kinds(s) ==
  \/ Calls(s) \/ GivesUp(s) \/ Moves(s) \/ Takes(s) \/ Locks(s) \/ Readies(s)
  \/ Undoes(s) \/ Commits(s)

(* Two ways to change a slot. *)
LEMMA ShapeOf ==
  ASSUME IInv, NEW s \in Slots
  PROVE  /\ slot[s] = [f \in Fields |-> slot[s][f]]
         /\ slot[s].pc \in Pcs
         /\ slot[s].pc # "idle" => slot[s].req.op \in Endpoints
         /\ slot = [p \in Slots |-> slot[p]]
         /\ LocksOf(slot[s])
BY DEF IInv, Shape, SlotShape

LEMMA FrameRule ==
  ASSUME IInv, NEW s \in Slots, NEW x, slot' = [slot EXCEPT ![s] = x], SlotShape(x)
  PROVE  Frame(s) /\ slot'[s] = x
BY ShapeOf DEF Frame

(* A caller outside its transaction has no locks. *)
LEMMA Unlocked ==
  ASSUME NEW x, x.locks = {}, x.write.t = "none", x.pc # "locked"
  PROVE  LocksOf(x)
BY DEF LocksOf, Secured, Shared

LEMMA DoIsACall ==
  ASSUME IInv, NEW s \in Slots, NEW r \in Requests[s], do(s, r)
  PROVE  Calls(s)
<1> DEFINE x == IF ClientAccepts(r) /\ r.tok.form # "unavailable"
         THEN [Idle EXCEPT !.pc = "sent", !.req = r, !.n = calls + 1,
                           !.client = "waiting", !.known = acked]
         ELSE [Idle EXCEPT !.pc = "done", !.req = r, !.n = calls + 1]
<1>1. slot' = [slot EXCEPT ![s] = x]
  BY DEF do
<1>2. /\ x = [f \in Fields |-> x[f]]
      /\ x.pc \in {"sent", "done"} /\ x.req = r /\ x.n = calls + 1 /\ x.conn = 0
      /\ x.write = NoWrite /\ x.status = 0 /\ x.locks = {}
  BY ZenonT(30) DEF Idle, NoWrite, Fields
<1> HIDE DEF x
<1>3. SlotShape(x)
  BY <1>2, RequestsAssumption, Unlocked DEF SlotShape, Pcs, NoWrite
<1>4. Frame(s) /\ slot'[s] = x
  BY <1>1, <1>3, FrameRule
<1>5. /\ UNCHANGED <<tables, conn>> /\ calls' = calls + 1 /\ calls < MaxCalls
      /\ slot[s].pc \in {"idle", "done"}
  BY DEF do, tables
<1> QED BY <1>2, <1>4, <1>5 DEF Calls

(* Every check refuses with a code of its own or lets the request through. *)
Codes == {0, 400, 401, 403, 413, 415}

LEMMA CheckedCode ==
  ASSUME NEW r, r.op \in Endpoints
  PROVE  First(AuthMiddleware(r), Checked(r)) \in Codes
<1> USE DEF Codes
<1>1. decode(r) \in Codes
  BY DEF decode
<1>2. \A a \in Codes, b \in Codes : First(a, b) \in Codes
  BY DEF First
<1>3. organizationRequired(r) \in Codes
  BY DEF organizationRequired, RefuseIf
<1>4. /\ parseStoreRequest(r) \in Codes /\ parseLogAppendRequest(r) \in Codes
      /\ parsePutManifestVersionRequest(r) \in Codes
      /\ parseInsertWatchkeeperRequest(r) \in Codes
      /\ parseUpdateWatchkeeperStatusRequest(r) \in Codes
      /\ parseUpdateWatchkeeperLeadRequest(r) \in Codes
  BY <1>1 DEF parseStoreRequest, parseLogAppendRequest, parsePutManifestVersionRequest,
     parseInsertWatchkeeperRequest, parseUpdateWatchkeeperStatusRequest,
     parseUpdateWatchkeeperLeadRequest, First, RefuseIf
<1>4a. checkLogAppend(r) \in Codes /\ parseInsertHumanRequest(r) \in Codes
  BY <1>1, <1>3, <1>4 DEF checkLogAppend, parseInsertHumanRequest, First, RefuseIf
<1>5. /\ checkLookupHuman(r) \in Codes /\ parseSearchRequest(r) \in Codes
      /\ checkGetManifest(r) \in Codes /\ checkLogTail(r) \in Codes
      /\ checkGetWatchkeeper(r) \in Codes /\ checkListWatchkeepers(r) \in Codes
      /\ parseCostRollupParams(r) \in Codes
  BY <1>1 DEF checkLookupHuman, parseSearchRequest, checkGetManifest, checkLogTail,
     checkGetWatchkeeper, checkListWatchkeepers, parseCostRollupParams, First, RefuseIf
<1>6. Checked(r) \in Codes
  <2> HIDE DEF Codes
  <2> QED BY <1>2, <1>3, <1>4, <1>4a, <1>5 DEF Checked, Endpoints
<1> QED BY <1>2, <1>6 DEF AuthMiddleware

(* An edit of a caller's slot that leaves its request alone. *)
LEMMA EditRule ==
  ASSUME IInv, NEW s \in Slots, NEW x, slot' = [slot EXCEPT ![s] = x],
         x = [f \in Fields |-> x[f]], x.pc \in Pcs, x.req = slot[s].req,
         LocksOf(x), slot[s].pc # "idle"
  PROVE  Frame(s) /\ slot'[s] = x
<1>1. SlotShape(x)
  BY ShapeOf DEF SlotShape
<1> QED BY <1>1, FrameRule

LEMMA ArriveIsAMove ==
  ASSUME IInv, NEW s \in Slots, Arrive(s)
  PROVE  Moves(s)
<1> USE ShapeOf
<1> DEFINE code == First(AuthMiddleware(slot[s].req), Checked(slot[s].req))
           x == [slot[s] EXCEPT !.pc = IF code = 0 THEN "begin" ELSE "reply",
                                !.status = code]
<1>1. slot' = [slot EXCEPT ![s] = x] /\ slot[s].pc = "sent"
      /\ UNCHANGED <<tables, conn, calls>>
  BY DEF Arrive, tables
<1>2. code \in Codes
  BY <1>1, CheckedCode
<1> HIDE DEF code
<1>3. /\ x = [f \in Fields |-> x[f]]
      /\ x.pc = IF code = 0 THEN "begin" ELSE "reply"
      /\ x.req = slot[s].req /\ x.n = slot[s].n /\ x.conn = slot[s].conn
      /\ x.write = slot[s].write /\ x.status = code /\ x.locks = slot[s].locks
  BY DEF Fields
<1> HIDE DEF x
<1>3a. LocksOf(x)
  BY <1>1, <1>3, Unlocked DEF LocksOf, IInv, WriteInv, WriteOf
<1>4. Frame(s) /\ slot'[s] = x
  BY <1>1, <1>3, <1>3a, EditRule DEF Pcs
<1> QED BY <1>1, <1>2, <1>3, <1>4 DEF Moves, IInv, WriteInv, WriteOf, Codes

LEMMA WithScopeTakes ==
  ASSUME IInv, NEW s \in Slots, WithScope(s)
  PROVE  Takes(s)
<1> USE ShapeOf
<1>1. PICK k \in Conns :
        /\ conn[k].by = 0
        /\ conn' = [conn EXCEPT ![k] = Settings(s, slot[s].req.tok)]
        /\ slot' = [slot EXCEPT ![s].pc = "tx", ![s].conn = k]
  BY DEF WithScope
<1> DEFINE x == [slot[s] EXCEPT !.pc = "tx", !.conn = k]
<1>2. slot' = [slot EXCEPT ![s] = x] /\ slot[s].pc = "begin" /\ UNCHANGED <<tables, calls>>
  BY <1>1 DEF WithScope, tables
<1>3. /\ x = [f \in Fields |-> x[f]]
      /\ x.pc = "tx" /\ x.req = slot[s].req /\ x.n = slot[s].n /\ x.conn = k
      /\ x.write = slot[s].write /\ x.status = slot[s].status /\ x.locks = slot[s].locks
  BY DEF Fields
<1> HIDE DEF x
<1>3a. LocksOf(x)
  BY <1>2, <1>3, Unlocked DEF LocksOf, IInv, WriteInv, WriteOf
<1>4. Frame(s) /\ slot'[s] = x
  BY <1>2, <1>3, <1>3a, EditRule DEF Pcs, OpenPcs
<1> QED BY <1>1, <1>2, <1>3, <1>4 DEF Takes, SameCall

LEMMA CommitCommits ==
  ASSUME IInv, NEW s \in Slots, CommitOK(s) \/ CommitUnknown(s)
  PROVE  Commits(s)
<1>1. PICK told \in BOOLEAN : Commit(s, told)
  BY DEF CommitOK, CommitUnknown
<1>2. /\ slot = [p \in Slots |-> slot[p]] /\ slot[s] = [f \in Fields |-> slot[s][f]]
      /\ slot[s].pc = "commit" /\ slot[s].req.op \in Endpoints
  BY <1>1, ShapeOf DEF Commit
<1>3. slot' = [slot EXCEPT ![s].pc = "reply", ![s].conn = 0, ![s].write = NoWrite,
                          ![s].locks = {}, ![s].status = IF told THEN @ ELSE 500]
  BY <1>1 DEF Commit
<1>4. /\ slot'[s].pc = "reply" /\ slot'[s].conn = 0 /\ slot'[s].write = NoWrite
      /\ slot'[s].status = (IF told THEN slot[s].status ELSE 500) /\ slot'[s].locks = {}
  BY <1>2, <1>3 DEF Fields
<1>5. slot'[s].req = slot[s].req /\ slot'[s].n = slot[s].n
  BY <1>2, <1>3 DEF Fields
<1>6. slot'[s] = [f \in Fields |-> slot'[s][f]] /\ slot' = [p \in Slots |-> slot'[p]]
  <2>1. PICK st : slot' = [slot EXCEPT ![s].pc = "reply", ![s].conn = 0, ![s].write = NoWrite,
                                       ![s].locks = {}, ![s].status = st]
    BY <1>3
  <2> HIDE <1>3
  <2> QED BY <1>2, <2>1
<1>7. \A p \in Slots : p # s => slot'[p] = slot[p]
  BY <1>2, <1>3
<1>8. Frame(s)
  <2>1. LocksOf(slot'[s])
    BY <1>4, Unlocked DEF NoWrite
  <2> QED BY <1>2, <1>4, <1>5, <1>6, <1>7, <2>1 DEF Frame, SlotShape, Pcs
<1> QED BY <1>1, <1>2, <1>4, <1>5, <1>8 DEF Commits, Commit, Ends, SameCall, EndTx

LEMMA RollbackUndoes ==
  ASSUME IInv, NEW s \in Slots, NEW code \in {400, 404, 409, 500}, Rollback(s, code),
         slot[s].pc \in OpenPcs
  PROVE  Undoes(s)
<1>1. /\ slot = [p \in Slots |-> slot[p]] /\ slot[s] = [f \in Fields |-> slot[s][f]]
      /\ slot[s].req.op \in Endpoints
  BY ShapeOf DEF OpenPcs
<1>1a. slot' = [slot EXCEPT ![s].pc = "reply", ![s].status = code, ![s].conn = 0,
                           ![s].write = NoWrite, ![s].locks = {}]
  BY DEF Rollback, NoWrite
<1>2. /\ slot'[s].pc = "reply" /\ slot'[s].conn = 0 /\ slot'[s].write = NoWrite
      /\ slot'[s].status = code /\ slot'[s].locks = {}
  BY <1>1, <1>1a DEF Fields
<1>3. slot'[s].req = slot[s].req /\ slot'[s].n = slot[s].n
  BY <1>1, <1>1a DEF Fields
<1>4. slot'[s] = [f \in Fields |-> slot'[s][f]]
  BY ZenonT(30), <1>1, <1>1a
<1>4a. slot' = [p \in Slots |-> slot'[p]]
  BY <1>1, <1>1a
<1>5. \A p \in Slots : p # s => slot'[p] = slot[p]
  BY <1>1, <1>1a
<1>6. Frame(s)
  <2>1. LocksOf(slot'[s])
    BY <1>2, Unlocked DEF NoWrite
  <2> QED BY <1>1, <1>2, <1>3, <1>4, <1>4a, <1>5, <2>1 DEF Frame, SlotShape, Pcs
<1>7. conn' = EndTx(slot[s].conn) /\ calls' = calls /\ UNCHANGED tables
  BY DEF Rollback, tables
<1> QED BY <1>2, <1>3, <1>6, <1>7 DEF Undoes, Ends, SameCall, EndTx

(* Nothing locks a human row for more than a share. *)
LEMMA NextIsShared ==
  ASSUME NEW s \in Slots PROVE Shared(NextLocks(s))
<1>1. ASSUME NEW l \in NextLocks(s)
      PROVE  l.row[1] = "human" => l.mode = "share"
  BY <1>1 DEF NextLocks, Lock, ActorRow
<1> QED BY <1>1 DEF Shared

LEMMA ReadyEdits ==
  ASSUME IInv, NEW s \in Slots, NEW w, NEW code, NEW body, Ready(s, w, code, body),
         slot[s].pc \in {"tx", "locked"},
         Secured(slot[s].req, w, slot[s].locks \cup NextLocks(s))
  PROVE  /\ Frame(s) /\ UNCHANGED <<tables, conn, calls>> /\ SameCall(s)
         /\ slot'[s].pc = "commit" /\ slot'[s].conn = slot[s].conn
         /\ slot'[s].write = w /\ slot'[s].status = code
<1> USE ShapeOf
<1> DEFINE L == slot[s].locks \cup NextLocks(s)
           x == [slot[s] EXCEPT !.pc = "commit", !.write = w, !.status = code,
                                !.body = body, !.locks = L]
<1>1. slot' = [slot EXCEPT ![s] = x] /\ UNCHANGED <<tables, conn, calls>>
  BY DEF Ready, tables
<1>1a. Shared(L) /\ Secured(slot[s].req, w, L)
  BY NextIsShared DEF LocksOf, Shared
<1> HIDE DEF L
<1>2. /\ x = [f \in Fields |-> x[f]]
      /\ x.pc = "commit" /\ x.req = slot[s].req /\ x.n = slot[s].n
      /\ x.conn = slot[s].conn /\ x.write = w /\ x.status = code /\ x.locks = L
  BY DEF Fields
<1> HIDE DEF x
<1>2a. LocksOf(x)
  BY <1>1a, <1>2 DEF LocksOf
<1>3. Frame(s) /\ slot'[s] = x
  BY <1>1, <1>2, <1>2a, EditRule DEF Pcs, OpenPcs
<1> QED BY <1>1, <1>2, <1>3 DEF SameCall

LEMMA EndsOfACall ==
  ASSUME IInv, NEW s \in Slots,
         BeginFails(s) \/ Lost(s) \/ NobodyThere(s) \/ Answer(s)
  PROVE  Moves(s) \/ GivesUp(s)
<1>0. /\ slot[s].pc \notin OpenPcs => slot[s].write.t = "none"
      /\ slot = [p \in Slots |-> slot[p]] /\ slot[s] = [f \in Fields |-> slot[s][f]]
      /\ slot[s].pc \in Pcs /\ (slot[s].pc # "idle" => slot[s].req.op \in Endpoints)
      /\ LocksOf(slot[s])
  BY ShapeOf DEF IInv, WriteInv, WriteOf, OpenPcs
<1> USE <1>0
<1>1. CASE BeginFails(s)
  <2> DEFINE x == [slot[s] EXCEPT !.pc = "reply", !.status = 500]
  <2>1. /\ slot' = [slot EXCEPT ![s] = x] /\ slot[s].pc = "begin"
        /\ UNCHANGED <<tables, conn, calls>>
    BY ZenonT(30), <1>1 DEF BeginFails, tables
  <2>2. /\ x = [f \in Fields |-> x[f]]
        /\ x.pc = "reply" /\ x.req = slot[s].req /\ x.n = slot[s].n
        /\ x.conn = slot[s].conn /\ x.write = slot[s].write /\ x.status = 500
        /\ x.locks = slot[s].locks
    <3>1. x = [f \in Fields |-> x[f]]
      BY ZenonT(30)
    <3>2. x.pc = "reply" /\ x.status = 500
      BY DEF Fields
    <3>3. /\ x.req = slot[s].req /\ x.n = slot[s].n /\ x.conn = slot[s].conn
          /\ x.write = slot[s].write /\ x.locks = slot[s].locks
      BY DEF Fields
    <3> HIDE DEF x
    <3> QED BY <3>1, <3>2, <3>3
  <2> HIDE DEF x
  <2>2a. LocksOf(x)
    BY <2>1, <2>2, Unlocked DEF LocksOf, OpenPcs
  <2>3. Frame(s) /\ slot'[s] = x
    BY <2>1, <2>2, <2>2a, EditRule DEF Pcs
  <2> QED BY <1>0, <2>1, <2>2, <2>3 DEF Moves, OpenPcs
<1>2. CASE Lost(s)
  <2> DEFINE x == [slot[s] EXCEPT !.client = "gone", !.pc = IF @ = "sent" THEN "done" ELSE @]
  <2>1. /\ slot' = [slot EXCEPT ![s] = x]
        /\ UNCHANGED <<tables, conn, calls>>
    BY <1>2 DEF Lost, tables
  <2>2. /\ x = [f \in Fields |-> x[f]]
        /\ x.pc = IF slot[s].pc = "sent" THEN "done" ELSE slot[s].pc
        /\ x.req = slot[s].req /\ x.n = slot[s].n /\ x.body = slot[s].body
        /\ x.conn = slot[s].conn /\ x.write = slot[s].write /\ x.status = slot[s].status
        /\ x.locks = slot[s].locks
    BY DEF Fields
  <2> HIDE DEF x
  <2>2a. LocksOf(x)
    BY <2>2 DEF LocksOf
  <2>3. SlotShape(x)
    BY <2>2, <2>2a DEF SlotShape, Pcs
  <2>4. Frame(s) /\ slot'[s] = x
    BY <2>1, <2>3, FrameRule
  <2> QED BY <1>0, <2>1, <2>2, <2>4 DEF Moves, GivesUp, SameCall, OpenPcs
<1>3. CASE NobodyThere(s)
  <2> DEFINE x == [slot[s] EXCEPT !.pc = "done", !.status = 0, !.body = {}]
  <2>1. /\ slot' = [slot EXCEPT ![s] = x] /\ slot[s].pc = "reply"
        /\ UNCHANGED <<tables, conn, calls>>
    BY <1>3 DEF NobodyThere, tables
  <2>2. /\ x = [f \in Fields |-> x[f]]
        /\ x.pc = "done" /\ x.req = slot[s].req /\ x.n = slot[s].n
        /\ x.conn = slot[s].conn /\ x.write = slot[s].write /\ x.status = 0
        /\ x.locks = slot[s].locks
    BY DEF Fields
  <2> HIDE DEF x
  <2>2a. LocksOf(x)
    BY <2>1, <2>2, Unlocked DEF LocksOf, OpenPcs
  <2>3. Frame(s) /\ slot'[s] = x
    BY <2>1, <2>2, <2>2a, EditRule DEF Pcs
  <2> QED BY <1>0, <2>1, <2>2, <2>3 DEF Moves, OpenPcs
<1>4. CASE Answer(s)
  <2>0. slot[s].pc = "reply" /\ UNCHANGED <<tables, conn, calls>> /\ slot[s].conn = 0
    BY <1>4 DEF Answer, tables, IInv, ConnInv, ConnOf, OpenPcs
  <2>1. CASE /\ slot[s].req.op = "insertWatchkeeper" /\ slot[s].status = 201
             /\ slot[s].req.spawn
    <3> DEFINE x == [Idle EXCEPT !.pc = "sent", !.req = Spawn(slot[s].req, slot[s].n),
                           !.n = slot[s].n, !.client = "waiting", !.known = acked']
    <3>1. slot' = [slot EXCEPT ![s] = x]
      BY <1>4, <2>1 DEF Answer
    <3>2. /\ x = [f \in Fields |-> x[f]]
          /\ x.pc = "sent" /\ x.req.op = "updateStatus" /\ x.n = slot[s].n
          /\ x.conn = 0 /\ x.write.t = "none" /\ x.status = 0 /\ x.locks = {}
      BY ZenonT(30) DEF Fields, Idle, Spawn
    <3> HIDE DEF x
    <3>3. SlotShape(x)
      BY <3>2, Unlocked DEF SlotShape, Pcs, Endpoints
    <3>4. Frame(s) /\ slot'[s] = x
      BY <3>1, <3>3, FrameRule
    <3> QED BY <1>0, <2>0, <3>2, <3>4 DEF Moves, OpenPcs
  <2>2. CASE ~(/\ slot[s].req.op = "insertWatchkeeper" /\ slot[s].status = 201
               /\ slot[s].req.spawn)
    <3> DEFINE x == [slot[s] EXCEPT !.pc = "done", !.client = "gone"]
    <3>1. slot' = [slot EXCEPT ![s] = x]
      BY <1>4, <2>2 DEF Answer
    <3>2. /\ x = [f \in Fields |-> x[f]]
          /\ x.pc = "done" /\ x.req = slot[s].req /\ x.n = slot[s].n
          /\ x.conn = slot[s].conn /\ x.write = slot[s].write /\ x.status = slot[s].status
          /\ x.locks = slot[s].locks
      BY DEF Fields
    <3> HIDE DEF x
    <3>2a. LocksOf(x)
      BY <2>0, <3>2, Unlocked DEF LocksOf, OpenPcs
    <3>3. Frame(s) /\ slot'[s] = x
      BY <2>0, <3>1, <3>2, <3>2a, EditRule DEF Pcs
    <3> QED BY <1>0, <2>0, <3>2, <3>3 DEF Moves, OpenPcs
  <2> QED BY <2>1, <2>2
<1> QED BY <1>1, <1>2, <1>3, <1>4

(* Who is not kept waiting is alone with the locks it takes. *)
LEMMA AloneWithLocks ==
  ASSUME NEW s \in Slots, BlockedBy(s) = {}, NEW p \in Slots, p # s,
         NEW a \in NextLocks(s), NEW b \in slot[p].locks
  PROVE  ~Conflict(a, b)
BY DEF BlockedBy

(* An answer without a write needs no lock. *)
LEMMA NoWriteReadies ==
  ASSUME IInv, NEW s \in Slots, NEW code \in {200, 400, 404}, NEW body,
         Ready(s, NoWrite, code, body), slot[s].pc \in {"tx", "locked"}
  PROVE  Readies(s)
<1>1. Secured(slot[s].req, NoWrite, slot[s].locks \cup NextLocks(s))
  BY DEF Secured, NoWrite
<1>2. /\ Frame(s) /\ UNCHANGED <<tables, conn, calls>> /\ SameCall(s)
      /\ slot'[s].pc = "commit" /\ slot'[s].conn = slot[s].conn
      /\ slot'[s].write = NoWrite /\ slot'[s].status = code
  BY <1>1, ReadyEdits
<1> QED BY <1>2 DEF Readies, NothingSound, Clear, NoWrite

(* Inserts *)
LEMMA StoreReadies ==
  ASSUME IInv, NEW s \in Slots, handleStore(s) \/ handleLogAppend(s)
  PROVE  Readies(s) \/ Undoes(s)
<1>1. /\ slot[s].pc = "tx" /\ slot[s].req.op # "updateStatus"
      /\ \/ Rollback(s, 500)
         \/ \E w, body : Ready(s, w, 201, body) /\ w.t \in {"chunk", "log"} /\ w.row.id = slot[s].n
  <2>1. CASE handleStore(s)
    BY <2>1 DEF handleStore, InTx
  <2>2. CASE handleLogAppend(s)
    BY <2>2 DEF handleLogAppend, InTx
  <2> QED BY <2>1, <2>2
<1>2. CASE Rollback(s, 500)
  BY <1>1, <1>2, RollbackUndoes DEF OpenPcs
<1>3. ASSUME NEW w, NEW body, Ready(s, w, 201, body), w.t \in {"chunk", "log"}, w.row.id = slot[s].n
      PROVE  Readies(s)
  <2>1. Secured(slot[s].req, w, slot[s].locks \cup NextLocks(s))
    BY <1>3 DEF Secured
  <2>2. /\ Frame(s) /\ UNCHANGED <<tables, conn, calls>> /\ SameCall(s)
        /\ slot'[s].pc = "commit" /\ slot'[s].conn = slot[s].conn
        /\ slot'[s].write = w /\ slot'[s].status = 201
    BY <1>1, <1>3, <2>1, ReadyEdits
  <2>3. InsertSound(s)' /\ Clear(s, slot'[s].write)
    BY <1>1, <1>3, <2>2 DEF InsertSound, Clear, SameCall
  <2> QED BY <1>1, <2>2, <2>3 DEF Readies
<1> QED BY <1>1, <1>2, <1>3

LEMMA PutReadiesOrUndoes ==
  ASSUME IInv, NEW s \in Slots, BlockedBy(s) = {}, handlePutManifestVersion(s)
  PROVE  Readies(s) \/ Undoes(s)
<1>1. slot[s].pc = "tx" /\ slot[s].req.op = "putVersion"
  BY DEF handlePutManifestVersion, InTx
<1>2. CASE Rollback(s, 404) \/ Rollback(s, 409)
  BY <1>1, <1>2, RollbackUndoes DEF OpenPcs
<1>3. CASE ~(Rollback(s, 404) \/ Rollback(s, 409))
  <2> DEFINE r == slot[s].req
             w == [t |-> "version", row |-> [id |-> slot[s].n, manifest |-> r.id, no |-> r.no]]
             key == Lock("key", <<"version", r.id, r.no>>)
  <2>1. /\ ManifestVisible(s, r.id)
        /\ {v \in version : v.manifest = r.id /\ v.no = r.no} = {}
        /\ Ready(s, w, 201, {slot[s].n})
    BY <1>3 DEF handlePutManifestVersion
  <2>2. /\ w.t = "version" /\ w.row.id = slot[s].n /\ w.row.manifest = r.id /\ w.row.no = r.no
    OBVIOUS
  <2>2a. key \in NextLocks(s)
    BY <1>1, <2>1 DEF NextLocks, InTx
  <2>2b. Secured(r, w, slot[s].locks \cup NextLocks(s))
    BY <2>2, <2>2a DEF Secured
  <2> HIDE DEF w
  <2>3. /\ Frame(s) /\ UNCHANGED <<tables, conn, calls>> /\ SameCall(s)
        /\ slot'[s].pc = "commit" /\ slot'[s].conn = slot[s].conn
        /\ slot'[s].write = w /\ slot'[s].status = 201
    BY <1>1, <2>1, <2>2b, ReadyEdits
  <2>4. InsertSound(s)'
    BY <1>1, <2>1, <2>2, <2>3 DEF InsertSound, SameCall, tables
  <2>5. Clear(s, slot'[s].write)
    <3> SUFFICES ASSUME NEW p \in Slots, p # s, slot[p].write.t = "version",
                        w.row.manifest = slot[p].write.row.manifest,
                        w.row.no = slot[p].write.row.no
                 PROVE  FALSE
      BY <2>2, <2>3 DEF Clear
    <3>1. key \in slot[p].locks
      BY <2>2, ShapeOf DEF LocksOf, Secured
    <3>2. Conflict(key, key)
      BY DEF Conflict, Lock
    <3> QED BY <2>2a, <3>1, <3>2, AloneWithLocks
  <2> QED BY <1>1, <2>3, <2>4, <2>5 DEF Readies
<1> QED BY <1>2, <1>3

(* The row of a caller's own number is nobody's. *)
LEMMA NumberIsFree ==
  ASSUME IInv, NEW s \in Slots, slot[s].pc = "tx", slot[s].req.op # "updateStatus"
  PROVE  /\ ~Made(slot[s].n)
         /\ \A p \in Slots : p # s => ~Holds(p, slot[s].n)
<1>1. ~Made(slot[s].n) /\ slot[s].n # 0
  BY DEF IInv, Numbers, NumberOf, OpenPcs
<1>2. ASSUME NEW p \in Slots, p # s PROVE ~Holds(p, slot[s].n)
  <2>1. CASE slot[p].pc = "locked"
    BY <1>1, <2>1 DEF IInv, LockInv, LockOf, WriteInv, WriteOf, Owned, Made, Holds
  <2>2. CASE slot[p].pc # "locked"
    <3> SUFFICES ASSUME slot[p].write.t = "wk", slot[p].write.id = slot[s].n PROVE FALSE
      BY <2>2 DEF Holds
    <3>1. InsertSound(p) \/ UpdateSound(p)
      BY DEF IInv, WriteInv, WriteOf, NothingSound
    <3>2. CASE InsertSound(p)
      BY <1>1, <1>2, <3>2 DEF InsertSound, IInv, Apart, ApartFrom
    <3>3. CASE UpdateSound(p)
      BY <1>1, <3>3 DEF UpdateSound, Owned, Made
    <3> QED BY <3>1, <3>2, <3>3
  <2> QED BY <2>1, <2>2
<1> QED BY <1>1, <1>2

LEMMA InsertWatchkeeperReadiesOrUndoes ==
  ASSUME IInv, NEW s \in Slots, handleInsertWatchkeeper(s)
  PROVE  Readies(s) \/ Undoes(s)
<1>1. slot[s].pc = "tx" /\ slot[s].req.op = "insertWatchkeeper"
  BY DEF handleInsertWatchkeeper, InTx
<1>2. CASE Rollback(s, 404) \/ Rollback(s, 500)
  BY <1>1, <1>2, RollbackUndoes DEF OpenPcs
<1>3. CASE ~(Rollback(s, 404) \/ Rollback(s, 500))
  <2> DEFINE row == [lead |-> slot[s].req.lead, status |-> "pending", spawned |-> 0,
                     retired |-> 0, archive |-> "null"]
             w == [t |-> "wk", id |-> slot[s].n, row |-> row]
  <2>1. slot[s].req.lead \in DOMAIN human /\ Ready(s, w, 201, {slot[s].n})
    BY <1>3 DEF handleInsertWatchkeeper
  <2>2. RowShape(row)
    BY <2>1 DEF RowShape, Columns
  <2>3. w.t = "wk" /\ w.id = slot[s].n /\ w.row = row
    OBVIOUS
  <2>3a. Secured(slot[s].req, w, slot[s].locks \cup NextLocks(s))
    BY <1>1, <2>3 DEF Secured, RowOps
  <2> HIDE DEF w, row
  <2>4. /\ Frame(s) /\ UNCHANGED <<tables, conn, calls>> /\ SameCall(s)
        /\ slot'[s].pc = "commit" /\ slot'[s].conn = slot[s].conn
        /\ slot'[s].write = w /\ slot'[s].status = 201
    BY <1>1, <2>1, <2>3a, ReadyEdits
  <2>5. InsertSound(s)'
    BY <1>1, <2>2, <2>3, <2>4 DEF InsertSound, SameCall, tables, RowShape
  <2>6. Clear(s, slot'[s].write)
    BY <1>1, <2>3, <2>4, NumberIsFree DEF Clear
  <2> QED BY <1>1, <2>4, <2>5, <2>6 DEF Readies
<1> QED BY <1>2, <1>3

LEMMA InsertHumanReadiesOrUndoes ==
  ASSUME IInv, NEW s \in Slots, BlockedBy(s) = {}, handleInsertHuman(s)
  PROVE  Readies(s) \/ Undoes(s)
<1>1. slot[s].pc = "tx" /\ slot[s].req.op = "insertHuman"
  BY DEF handleInsertHuman, InTx
<1>2. CASE Rollback(s, 409)
  BY <1>1, <1>2, RollbackUndoes DEF OpenPcs
<1>3. CASE ~Rollback(s, 409)
  <2> DEFINE r == slot[s].req
             w == [t |-> "human", row |-> [org |-> r.tok.org, slack |-> r.slack]]
             key == Lock("key", <<"slack", r.slack>>)
  <2>1. /\ r.slack = NoSlack \/ \A h \in DOMAIN human : human[h].slack # r.slack
        /\ Ready(s, w, 201, {slot[s].n})
    BY <1>3 DEF handleInsertHuman
  <2>2. w.t = "human" /\ w.row.slack = r.slack
    OBVIOUS
  <2>2a. r.slack # NoSlack => key \in NextLocks(s)
    BY <1>1 DEF NextLocks, InTx
  <2>2b. Secured(r, w, slot[s].locks \cup NextLocks(s))
    BY <2>2, <2>2a DEF Secured
  <2> HIDE DEF w
  <2>3. /\ Frame(s) /\ UNCHANGED <<tables, conn, calls>> /\ SameCall(s)
        /\ slot'[s].pc = "commit" /\ slot'[s].conn = slot[s].conn
        /\ slot'[s].write = w /\ slot'[s].status = 201
    BY <1>1, <2>1, <2>2b, ReadyEdits
  <2>4. InsertSound(s)'
    BY <1>1, <2>1, <2>2, <2>3 DEF InsertSound, SameCall, tables
  <2>5. Clear(s, slot'[s].write)
    <3> SUFFICES ASSUME NEW p \in Slots, p # s, slot[p].write.t = "human", w.row.slack # NoSlack,
                        w.row.slack = slot[p].write.row.slack
                 PROVE  FALSE
      BY <2>2, <2>3 DEF Clear
    <3>1. key \in slot[p].locks
      BY <2>2, ShapeOf DEF LocksOf, Secured
    <3>2. Conflict(key, key)
      BY DEF Conflict, Lock
    <3> QED BY <2>2, <2>2a, <3>1, <3>2, AloneWithLocks
  <2> QED BY <1>1, <2>3, <2>4, <2>5 DEF Readies
<1> QED BY <1>2, <1>3
(* Updates *)
LEMMA RowIsClear ==
  ASSUME IInv, NEW s \in Slots, slot[s].pc = "tx", slot[s].req.op \in RowOps,
         Owned(s, slot[s].req.id), BlockedBy(s) = {}
  PROVE  \A p \in Slots : ~Holds(p, slot[s].req.id)
<1> DEFINE id == slot[s].req.id
<1> SUFFICES ASSUME NEW p \in Slots, Holds(p, id) PROVE FALSE
  OBVIOUS
<1>1. p # s
  BY DEF Holds, IInv, WriteInv, WriteOf
<1>2. slot[p].pc = "locked" \/ slot[p].write.t = "wk"
  BY DEF Holds
<1>3. CASE slot[p].req.op \in RowOps
  <2>1. slot[p].req.id = id
    <3>1. CASE slot[p].pc = "locked"
      BY <3>1 DEF Holds, IInv, WriteInv, WriteOf
    <3>2. CASE slot[p].pc # "locked"
      <4>1. slot[p].pc = "commit" /\ slot[p].write.t = "wk" /\ slot[p].write.id = id
        BY <3>2 DEF Holds, IInv, WriteInv, WriteOf
      <4>2. UpdateSound(p)
        BY <1>3, <4>1 DEF IInv, WriteInv, WriteOf, InsertSound, NothingSound, RowOps
      <4> QED BY <4>1, <4>2 DEF UpdateSound
    <3> QED BY <3>1, <3>2
  <2>2. RowLocked(slot[p].req, slot[p].locks)
    BY <1>2, <1>3, ShapeOf DEF LocksOf, Secured
  <2>3. PICK b \in slot[p].locks : b.mode \in {"update", "nokey"} /\ b.row = <<"wk", id>>
    BY <2>1, <2>2 DEF RowLocked
  <2>4. PICK mode \in {"update", "nokey"} : Lock(mode, <<"wk", id>>) \in NextLocks(s)
    BY DEF NextLocks, InTx, RowOps
  <2>5. Conflict(Lock(mode, <<"wk", id>>), b)
    BY <2>3 DEF Conflict, Lock
  <2> QED BY <1>1, <2>4, <2>5, AloneWithLocks
<1>4. CASE slot[p].req.op \notin RowOps
  <2>1. slot[p].pc = "commit" /\ slot[p].write.t = "wk" /\ slot[p].write.id = id
    BY <1>2, <1>4, ShapeOf DEF Holds, LocksOf, IInv, WriteInv, WriteOf
  <2>2. InsertSound(p)
    BY <1>4, <2>1 DEF IInv, WriteInv, WriteOf, UpdateSound, NothingSound, RowOps
  <2>3. slot[p].n = id /\ ~Made(slot[p].n)
    BY <1>4, <2>1, <2>2 DEF InsertSound, IInv, Numbers, NumberOf, OpenPcs, RowOps
  <2> QED BY <2>3 DEF Owned, Made
<1> QED BY <1>3, <1>4

LEMMA HasRowLocks ==
  ASSUME IInv, NEW s \in Slots, slot[s].pc = "tx", slot[s].req.op \in RowOps,
         Owned(s, slot[s].req.id), BlockedBy(s) = {}, NEW body, HasRow(s, body),
         slot[s].req.op = "updateStatus" => body = {wk[slot[s].req.id].status}
  PROVE  Locks(s)
<1> DEFINE L == slot[s].locks \cup NextLocks(s)
           x == [slot[s] EXCEPT !.pc = "locked", !.body = body, !.locks = L]
<1>1. slot' = [slot EXCEPT ![s] = x] /\ UNCHANGED <<tables, conn, calls>>
  BY ShapeOf DEF HasRow, tables
<1>2. slot[s] = [f \in Fields |-> slot[s][f]] /\ LocksOf(slot[s])
  BY ShapeOf
<1>3. Shared(L) /\ RowLocked(slot[s].req, L) /\ slot[s].write.t = "none"
  <2>1. Shared(L)
    BY <1>2, NextIsShared DEF LocksOf, Shared
  <2>2. PICK mode \in {"update", "nokey"} : Lock(mode, <<"wk", slot[s].req.id>>) \in NextLocks(s)
    BY DEF NextLocks, InTx, RowOps
  <2>3. RowLocked(slot[s].req, L)
    BY <2>2 DEF RowLocked, Lock
  <2> QED BY <2>1, <2>3 DEF IInv, WriteInv, WriteOf
<1> HIDE DEF L
<1>4. /\ x = [f \in Fields |-> x[f]]
      /\ x.pc = "locked" /\ x.req = slot[s].req /\ x.n = slot[s].n
      /\ x.conn = slot[s].conn /\ x.write = slot[s].write /\ x.status = slot[s].status
      /\ x.body = body /\ x.locks = L
  BY <1>2 DEF Fields
<1> HIDE DEF x
<1>5. LocksOf(x)
  BY <1>3, <1>4 DEF LocksOf, Secured
<1>6. Frame(s) /\ slot'[s] = x
  BY <1>1, <1>4, <1>5, EditRule DEF Pcs, OpenPcs
<1> QED BY <1>1, <1>4, <1>6, RowIsClear DEF Locks, SameCall

LEMMA UpdateStatusLocks ==
  ASSUME IInv, NEW s \in Slots, BlockedBy(s) = {},
         handleUpdateWatchkeeperStatus(s) \/ handleSetWatchkeeperLead(s)
  PROVE  Locks(s) \/ Readies(s)
<1>1. slot[s].pc = "tx" /\ slot[s].req.op \in RowOps
  BY DEF handleUpdateWatchkeeperStatus, handleSetWatchkeeperLead, InTx, RowOps
<1>2. CASE Ready(s, NoWrite, 404, {})
  BY <1>1, <1>2, NoWriteReadies
<1>3. CASE ~Ready(s, NoWrite, 404, {})
  <2>1. PICK body :
          /\ Owned(s, slot[s].req.id) /\ HasRow(s, body)
          /\ slot[s].req.op = "updateStatus" => body = {wk[slot[s].req.id].status}
    BY <1>3 DEF handleUpdateWatchkeeperStatus, handleSetWatchkeeperLead, InTx
  <2> QED BY <1>1, <2>1, HasRowLocks
<1> QED BY <1>2, <1>3

LEMMA TransitionReadies ==
  ASSUME IInv, NEW s \in Slots, Transition(s)
  PROVE  Readies(s)
<1> DEFINE r == slot[s].req
           row == wk[r.id]
<1>1. /\ slot[s].pc = "locked" /\ r.op = "updateStatus" /\ Owned(s, r.id)
      /\ slot[s].body = {row.status} /\ RowShape(row)
      /\ \A p \in Slots : p # s => ~Holds(p, r.id)
  BY DEF Transition, IInv, LockInv, LockOf, Apart, ApartFrom, Owned, Shape
<1>2. CASE Ready(s, NoWrite, 400, {})
  BY <1>1, <1>2, NoWriteReadies
<1>3. CASE ~Ready(s, NoWrite, 400, {})
  <2>1. PICK new :
          /\ Ready(s, [t |-> "wk", id |-> r.id, row |-> new], 204, {})
          /\ \/ /\ row.status = "pending" /\ r.val = "active"
                /\ new = [row EXCEPT !.status = "active", !.spawned = Me(s).at]
             \/ /\ row.status = "active" /\ r.val = "retired"
                /\ new = execRetireUpdate(s, row)
    BY <1>1, <1>3 DEF Transition
  <2>2. /\ RowShape(new) /\ new.status = r.val /\ new.lead = row.lead
    BY <1>1, <2>1 DEF RowShape, Columns, execRetireUpdate
  <2> DEFINE w == [t |-> "wk", id |-> r.id, row |-> new]
  <2>3. w.t = "wk" /\ w.id = r.id /\ w.row = new /\ Ready(s, w, 204, {})
    BY <2>1
  <2>3a. Secured(r, w, slot[s].locks \cup NextLocks(s))
    BY <1>1, <2>3, ShapeOf DEF Secured, LocksOf, RowLocked
  <2> HIDE DEF w
  <2>4. /\ Frame(s) /\ UNCHANGED <<tables, conn, calls>> /\ SameCall(s)
        /\ slot'[s].pc = "commit" /\ slot'[s].conn = slot[s].conn
        /\ slot'[s].write = w /\ slot'[s].status = 204
    <3>1. slot[s].pc \in {"tx", "locked"} /\ Ready(s, w, 204, {})
      BY <1>1, <2>3
    <3>2. Secured(slot[s].req, w, slot[s].locks \cup NextLocks(s))
      BY <2>3a
    <3> HIDE DEF r
    <3> QED BY <3>1, <3>2, ReadyEdits
  <2>5. UpdateSound(s)'
    <3>1. Owned(s, r.id)' /\ RowShape(new)'
      BY <1>1, <2>1, <2>2, <2>4 DEF SameCall, tables, RowShape, Owned, OrgOfLead
    <3>2. slot'[s].write = w /\ slot'[s].req = r /\ slot'[s].status = 204 /\ wk' = wk
      BY <1>1, <2>4 DEF SameCall, tables
    <3>3. /\ r.op = "updateStatus" /\ w.row.status = r.val /\ w.row.lead = wk[r.id].lead
          /\ \/ wk[r.id].status = "pending" /\ r.val = "active"
             \/ wk[r.id].status = "active" /\ r.val = "retired"
      BY <1>1, <2>1, <2>2, <2>3
    <3> QED BY <2>3, <3>1, <3>2, <3>3 DEF UpdateSound
  <2>6. Clear(s, slot'[s].write)
    BY <1>1, <2>3, <2>4 DEF Clear
  <2> QED BY <1>1, <2>4, <2>5, <2>6 DEF Readies
<1> QED BY <1>2, <1>3

LEMMA LeadReadiesOrUndoes ==
  ASSUME IInv, NEW s \in Slots, LeadExists(s)
  PROVE  Readies(s) \/ Undoes(s)
<1> DEFINE r == slot[s].req
<1>1. /\ slot[s].pc = "locked" /\ r.op = "setLead" /\ Owned(s, r.id) /\ RowShape(wk[r.id])
      /\ \A p \in Slots : p # s => ~Holds(p, r.id)
  BY DEF LeadExists, IInv, LockInv, LockOf, Apart, ApartFrom, Owned, Shape
<1>2. CASE Rollback(s, 400)
  BY <1>1, <1>2, RollbackUndoes DEF OpenPcs
<1>3. CASE ~Rollback(s, 400)
  <2>1. PICK new :
          /\ Ready(s, [t |-> "wk", id |-> r.id, row |-> new], 204, {})
          /\ new = [wk[r.id] EXCEPT !.lead = r.lead] /\ r.lead \in DOMAIN human
    BY <1>3 DEF LeadExists
  <2>2. RowShape(new) /\ new = [wk[r.id] EXCEPT !.lead = new.lead]
    BY <1>1, <2>1 DEF RowShape, Columns
  <2>3. PICK w : /\ w.t = "wk" /\ w.id = r.id /\ w.row = new
                 /\ Ready(s, w, 204, {})
    BY <2>1
  <2>4. Secured(r, w, slot[s].locks \cup NextLocks(s))
    BY <1>1, <2>3, ShapeOf DEF Secured, LocksOf, RowLocked
  <2>5. /\ Frame(s) /\ UNCHANGED <<tables, conn, calls>> /\ SameCall(s)
        /\ slot'[s].pc = "commit" /\ slot'[s].conn = slot[s].conn
        /\ slot'[s].write = w /\ slot'[s].status = 204
    BY <1>1, <2>3, <2>4, ReadyEdits
  <2>6. UpdateSound(s)'
    <3>1. /\ slot'[s].write = w /\ slot'[s].req = r /\ slot'[s].status = 204
          /\ wk' = wk /\ human' = human
      BY <2>5 DEF SameCall, tables
    <3>2. Owned(s, r.id)'
      BY <1>1, <3>1 DEF Owned, OrgOfLead
    <3>3. RowShape(w.row)'
      BY <2>2, <2>3, <3>1 DEF RowShape
    <3>4. r.op = "setLead" /\ w.row = [wk[r.id] EXCEPT !.lead = w.row.lead]
      BY <1>1, <2>2, <2>3
    <3> QED BY <2>3, <3>1, <3>2, <3>3, <3>4 DEF UpdateSound
  <2>7. Clear(s, slot'[s].write)
    BY <1>1, <2>3, <2>5 DEF Clear
  <2> QED BY <1>1, <2>5, <2>6, <2>7 DEF Readies
<1> QED BY <1>2, <1>3

(* Reads *)
LEMMA ReadsReadyOrUndo ==
  ASSUME IInv, NEW s \in Slots,
         \/ handleLookupHumanBySlackID(s) \/ handleGetWatchkeeper(s) \/ handleGetManifest(s)
         \/ handleSearch(s) \/ handleLogTail(s) \/ handleListWatchkeepers(s)
         \/ handleCostRollups(s)
  PROVE  Readies(s) \/ Undoes(s)
<1>1. /\ slot[s].pc = "tx"
      /\ \/ Rollback(s, 404) \/ Rollback(s, 500)
         \/ \E body : Ready(s, NoWrite, 200, body)
  <2>1. CASE handleLookupHumanBySlackID(s) \/ handleGetWatchkeeper(s)
    BY <2>1 DEF handleLookupHumanBySlackID, handleGetWatchkeeper, Found, InTx
  <2>2. CASE handleGetManifest(s)
    BY <2>2 DEF handleGetManifest, Found, InTx
  <2>3. CASE handleSearch(s)
    BY <2>3 DEF handleSearch, InTx
  <2>4. CASE handleLogTail(s)
    BY <2>4 DEF handleLogTail, InTx
  <2>5. CASE handleListWatchkeepers(s)
    BY <2>5 DEF handleListWatchkeepers, InTx
  <2>6. CASE handleCostRollups(s)
    BY <2>6 DEF handleCostRollups, InTx
  <2> QED BY <2>1, <2>2, <2>3, <2>4, <2>5, <2>6
<1>2. CASE Rollback(s, 404) \/ Rollback(s, 500)
  BY <1>1, <1>2, RollbackUndoes DEF OpenPcs
<1>3. ASSUME NEW body, Ready(s, NoWrite, 200, body) PROVE Readies(s)
  BY <1>1, <1>3, NoWriteReadies
<1> QED BY <1>1, <1>2, <1>3

LEMMA HandlerIsAKind ==
  ASSUME IInv, NEW s \in Slots, Handler(s)
  PROVE  Locks(s) \/ Readies(s) \/ Undoes(s)
BY StoreReadies, PutReadiesOrUndoes, InsertWatchkeeperReadiesOrUndoes,
   InsertHumanReadiesOrUndoes, UpdateStatusLocks, TransitionReadies, LeadReadiesOrUndoes,
   ReadsReadyOrUndo DEF Handler, Statement

LEMMA EveryStepIsAKind ==
  ASSUME IInv, Next PROVE \E s \in Slots : Kinds(s)
<1>1. PICK s \in Slots : Serve(s) \/ Faults(s) \/ \E r \in Requests[s] : do(s, r)
  BY DEF Next
<1>2. CASE Serve(s) /\ ~Handler(s)
  BY <1>2, ArriveIsAMove, WithScopeTakes, CommitCommits, EndsOfACall DEF Serve, Kinds
<1>3. CASE Handler(s)
  BY <1>3, HandlerIsAKind DEF Kinds
<1>4. CASE Faults(s)
  <2>1. CASE StatementFails(s)
    BY <2>1, RollbackUndoes DEF StatementFails, OpenPcs, Kinds
  <2> QED BY <1>4, <2>1, CommitCommits, EndsOfACall DEF Faults, Kinds
<1>5. CASE \E r \in Requests[s] : do(s, r)
  BY <1>5, DoIsACall DEF Kinds
<1> QED BY <1>1, <1>2, <1>3, <1>4, <1>5
-----------------------------------------------------------------------------
(* Every kind of step keeps the invariant *)

(* A write that was right stays so while its caller and the tables do.       *)
LEMMA SoundStays ==
  ASSUME NEW p \in Slots, UNCHANGED tables,
         slot'[p].pc = slot[p].pc, slot'[p].req = slot[p].req, slot'[p].n = slot[p].n,
         slot'[p].write = slot[p].write, slot'[p].status = slot[p].status, WriteOf(p)
  PROVE  WriteOf(p)'
<1> USE DEF tables
<1>1. \A x : RowShape(x)' <=> RowShape(x)
  BY DEF RowShape
<1>2. \A x : Owned(p, x)' <=> Owned(p, x)
  BY DEF Owned, OrgOfLead
<1>3. InsertSound(p)' <=> InsertSound(p)
  BY <1>1 DEF InsertSound
<1>4. UpdateSound(p)' <=> UpdateSound(p)
  BY <1>1, <1>2 DEF UpdateSound
<1>5. NothingSound(p)' <=> NothingSound(p)
  BY DEF NothingSound
<1> QED BY <1>3, <1>4, <1>5 DEF WriteOf

(* Steps that leave the tables alone: what is left to show is about the      *)
(* caller that takes them.                                                   *)
LEMMA QuietStep ==
  ASSUME IInv, NEW s \in Slots, Frame(s), UNCHANGED tables,
         calls' \in Nat, calls' >= calls, calls' <= MaxCalls,
         conn' = [k \in Conns |-> conn'[k]], ConnInv',
         NumberOf(s)', LockOf(s)', WriteOf(s)', AckOf(s)',
         \A p \in Slots : p # s => ApartFrom(s, p)' /\ ApartFrom(p, s)'
  PROVE  IInv'
<1> USE DEF tables
<1>0. \A p \in Slots : p # s => slot'[p] = slot[p]
  BY DEF Frame
<1>1. Shape'
  <2>1. \A p \in Slots : SlotShape(slot'[p])
    BY DEF IInv, Shape, Frame
  <2>2. \A w \in DOMAIN wk' : RowShape(wk[w])'
    BY DEF IInv, Shape, RowShape
  <2>3. slot' = [p \in Slots |-> slot'[p]]
    BY DEF Frame
  <2> QED BY <2>1, <2>2, <2>3 DEF Shape, SlotShape
<1>2. Numbers'
  BY <1>0 DEF IInv, Numbers, NumberOf, Made
<1>3. LockInv'
  <2> SUFFICES ASSUME NEW p \in Slots, p # s PROVE LockOf(p)'
    BY DEF LockInv
  <2>1. LockOf(p) /\ slot'[p] = slot[p]
    BY <1>0 DEF IInv, LockInv
  <2> QED BY <2>1 DEF LockOf, Owned, OrgOfLead
<1>4. WriteInv'
  <2> SUFFICES ASSUME NEW p \in Slots, p # s PROVE WriteOf(p)'
    BY DEF WriteInv
  <2>1. WriteOf(p) /\ slot'[p] = slot[p]
    BY <1>0 DEF IInv, WriteInv
  <2> QED BY <2>1, SoundStays
<1>5. Apart'
  BY ZenonT(30), SMTT(30), <1>0 DEF IInv, Apart, ApartFrom, Holds
<1>6. AckInv'
  <2> SUFFICES ASSUME NEW p \in Slots, p # s PROVE AckOf(p)'
    BY DEF AckInv
  <2>1. AckOf(p) /\ slot'[p] = slot[p]
    BY <1>0 DEF IInv, AckInv
  <2> QED BY <2>1 DEF AckOf, Made
<1>7. UniqueKeys'
  BY DEF IInv, UniqueKeys
<1> QED BY <1>1, <1>2, <1>3, <1>4, <1>5, <1>6, <1>7 DEF IInv

LEMMA CallsKeep ==
  ASSUME IInv, NEW s \in Slots, Calls(s)
  PROVE  IInv'
<1> USE DEF Calls, tables, NoWrite
<1>1. calls' \in Nat /\ calls' >= calls /\ calls' <= MaxCalls /\ calls \in Nat
  BY CallsAssumption DEF IInv, Numbers
<1>2. NumberOf(s)' /\ LockOf(s)' /\ WriteOf(s)' /\ AckOf(s)'
  BY <1>1 DEF IInv, Numbers, NumberOf, LockOf, WriteOf, AckOf, Made, OpenPcs
<1>3. slot[s].conn = 0 /\ ConnInv'
  BY DEF IInv, ConnInv, ConnOf, Frame, OpenPcs
<1>4. \A p \in Slots : p # s => ApartFrom(s, p)' /\ ApartFrom(p, s)'
  BY <1>1 DEF IInv, Numbers, NumberOf, ApartFrom, Holds, Frame
<1> QED BY <1>1, <1>2, <1>3, <1>4, QuietStep DEF IInv, Shape
LEMMA GivesUpKeeps ==
  ASSUME IInv, NEW s \in Slots, GivesUp(s)
  PROVE  IInv'
<1> USE DEF GivesUp, SameCall, tables
<1>1. calls' \in Nat /\ calls' >= calls /\ calls' <= MaxCalls
  BY CallsAssumption DEF IInv, Numbers
<1>2. NumberOf(s)' /\ LockOf(s)' /\ AckOf(s)'
  <2>1. NumberOf(s) /\ LockOf(s) /\ AckOf(s)
    BY DEF IInv, Numbers, LockInv, AckInv
  <2>2. NumberOf(s)'
    BY <2>1 DEF NumberOf, Made
  <2>3. LockOf(s)'
    BY <2>1 DEF LockOf, Owned, OrgOfLead
  <2>4. AckOf(s)'
    BY <2>1 DEF AckOf, Made
  <2> QED BY <2>2, <2>3, <2>4
<1>3. WriteOf(s)'
  BY SoundStays DEF IInv, WriteInv
<1>4. ConnInv'
  BY DEF IInv, ConnInv, ConnOf, Frame
<1>5. \A p \in Slots : p # s => ApartFrom(s, p)' /\ ApartFrom(p, s)'
  BY DEF IInv, Apart, ApartFrom, Holds, Frame
<1> QED BY <1>1, <1>2, <1>3, <1>4, <1>5, QuietStep DEF IInv, Shape

LEMMA MovesKeep ==
  ASSUME IInv, NEW s \in Slots, Moves(s)
  PROVE  IInv'
<1> USE DEF Moves, tables
<1>1. calls' \in Nat /\ calls' >= calls /\ calls' <= MaxCalls
  BY CallsAssumption DEF IInv, Numbers
<1>2. /\ slot[s].pc \notin OpenPcs /\ slot'[s].pc \notin OpenPcs /\ slot[s].pc # "idle"
      /\ slot[s].conn = 0
  BY DEF IInv, ConnInv, ConnOf, OpenPcs
<1>3. NumberOf(s)'
  BY <1>2 DEF IInv, Numbers, NumberOf, Made
<1>4. LockOf(s)' /\ WriteOf(s)'
  BY <1>2 DEF LockOf, WriteOf, OpenPcs
<1>5. AckOf(s)'
  BY <1>2 DEF IInv, Numbers, NumberOf, AckInv, AckOf, Made
<1>6. ConnInv'
  BY <1>2 DEF IInv, ConnInv, ConnOf, Frame
<1>7. \A p \in Slots : p # s => ApartFrom(s, p)' /\ ApartFrom(p, s)'
  BY <1>2 DEF IInv, Apart, ApartFrom, Holds, Frame, OpenPcs
<1> QED BY <1>1, <1>3, <1>4, <1>5, <1>6, <1>7, QuietStep DEF IInv, Shape

LEMMA TakesKeep ==
  ASSUME IInv, NEW s \in Slots, Takes(s)
  PROVE  IInv'
<1> USE DEF SameCall, tables
<1>1. calls' \in Nat /\ calls' >= calls /\ calls' <= MaxCalls
  BY CallsAssumption DEF Takes, IInv, Numbers
<1>2. NumberOf(s)' /\ LockOf(s)' /\ WriteOf(s)' /\ AckOf(s)'
  BY DEF Takes, IInv, Numbers, NumberOf, LockOf, WriteInv, WriteOf, AckInv, AckOf, Made, OpenPcs
<1>3. PICK k \in Conns : /\ conn[k].by = 0
                         /\ conn' = [conn EXCEPT ![k] = Settings(s, slot[s].req.tok)]
                         /\ slot'[s].conn = k
  BY DEF Takes
<1>4. slot[s].pc = "begin" /\ slot'[s].pc = "tx" /\ slot[s].conn = 0 /\ slot[s].n # 0
      /\ slot'[s].req = slot[s].req /\ slot'[s].n = slot[s].n
      /\ \A p \in Slots : p # s => slot'[p] = slot[p]
  BY DEF Takes, Frame, IInv, ConnInv, ConnOf, Numbers, NumberOf, OpenPcs
<1>5. /\ conn' = [j \in Conns |-> conn'[j]] /\ conn'[k] = Settings(s, slot[s].req.tok)
      /\ \A j \in Conns : j # k => conn'[j] = conn[j]
  BY <1>3 DEF IInv, Shape
<1>6. \A p \in Slots : slot[p].conn # k
  BY <1>3 DEF IInv, ConnInv, ConnOf, Numbers, NumberOf, Conns, OpenPcs
<1>7. ConnInv'
  <2>1. ConnOf(s)'
    BY <1>3, <1>4, <1>5 DEF ConnOf, OpenPcs, Settings
  <2>2. ASSUME NEW p \in Slots, p # s PROVE ConnOf(p)'
    BY <1>4, <1>5, <1>6, <2>2 DEF IInv, ConnInv, ConnOf
  <2>3. \A j \in Conns : (\A p \in Slots : slot'[p].conn # j) => conn'[j] = Free
    BY <1>3, <1>4, <1>5 DEF IInv, ConnInv, Conns
  <2> QED BY <2>1, <2>2, <2>3 DEF ConnInv, Free
<1>8. \A p \in Slots : p # s => ApartFrom(s, p)' /\ ApartFrom(p, s)'
  BY <1>3, <1>4, <1>6 DEF Takes, IInv, Apart, ApartFrom, Holds
<1> QED BY <1>1, <1>2, <1>5, <1>7, <1>8, QuietStep DEF Takes

LEMMA LocksKeep ==
  ASSUME IInv, NEW s \in Slots, Locks(s)
  PROVE  IInv'
<1> USE DEF Locks, SameCall, tables
<1>1. calls' \in Nat /\ calls' >= calls /\ calls' <= MaxCalls
  BY CallsAssumption DEF IInv, Numbers
<1>2. NumberOf(s)' /\ LockOf(s)' /\ WriteOf(s)' /\ AckOf(s)'
  BY DEF IInv, Numbers, NumberOf, LockOf, WriteInv, WriteOf, AckInv, AckOf, Made, OpenPcs,
     Owned, OrgOfLead
<1>3. ConnInv'
  BY DEF IInv, ConnInv, ConnOf, Frame, OpenPcs
<1>4. \A p \in Slots : p # s => ApartFrom(s, p)' /\ ApartFrom(p, s)'
  BY DEF IInv, Apart, ApartFrom, WriteInv, WriteOf, Holds, Frame
<1> QED BY <1>1, <1>2, <1>3, <1>4, QuietStep DEF IInv, Shape

LEMMA ReadiesKeep ==
  ASSUME IInv, NEW s \in Slots, Readies(s)
  PROVE  IInv'
<1> USE DEF Readies, SameCall, tables
<1>1. calls' \in Nat /\ calls' >= calls /\ calls' <= MaxCalls
  BY CallsAssumption DEF IInv, Numbers
<1>2. NumberOf(s)' /\ LockOf(s)' /\ WriteOf(s)' /\ AckOf(s)'
  BY DEF IInv, Numbers, NumberOf, LockOf, WriteOf, AckOf, Made, OpenPcs
<1>3. ConnInv'
  BY DEF IInv, ConnInv, ConnOf, Frame, OpenPcs
<1>4. ASSUME NEW p \in Slots, p # s PROVE ApartFrom(s, p)' /\ ApartFrom(p, s)'
  <2>1. slot'[p] = slot[p] /\ ApartFrom(s, p) /\ ApartFrom(p, s)
    BY <1>4 DEF Frame, IInv, Apart
  <2>2. Clear(s, slot'[s].write)
    OBVIOUS
  <2>3. slot[p].pc = "locked" => ~(slot'[s].write.t = "wk" /\ slot'[s].write.id = slot[p].req.id)
    BY <1>4, <2>2 DEF Clear, Holds
  <2>4. slot[p].write.t = "wk" =>
          ~(slot'[s].write.t = "wk" /\ slot'[s].write.id = slot[p].write.id)
    BY <1>4, <2>2 DEF Clear, Holds
  <2> HIDE DEF Readies
  <2>5. slot'[s].pc = "commit" /\ slot'[s].conn = slot[s].conn /\ slot'[s].n = slot[s].n
    BY DEF Readies
  <2>6. ApartFrom(s, p)'
    BY <1>4, <2>1, <2>2, <2>5 DEF Clear, Holds, ApartFrom
  <2>7. ApartFrom(p, s)'
    BY <1>4, <2>1, <2>2, <2>3, <2>4, <2>5 DEF Clear, Holds, ApartFrom
  <2> QED BY <2>6, <2>7
<1> QED BY <1>1, <1>2, <1>3, <1>4, QuietStep DEF IInv, Shape

(* The end of a transaction gives its connection back. *)
LEMMA EndFreesConnection ==
  ASSUME IInv, NEW s \in Slots, Ends(s), slot[s].pc \in OpenPcs
  PROVE  conn' = [k \in Conns |-> conn'[k]] /\ ConnInv'
<1>1. /\ slot[s].conn \in Conns /\ slot'[s].conn = 0 /\ slot'[s].pc = "reply"
      /\ conn' = [conn EXCEPT ![slot[s].conn] = Free]
      /\ \A p \in Slots : p # s => slot'[p] = slot[p] /\ slot[p].conn # slot[s].conn
  BY DEF Ends, Frame, IInv, ConnInv, ConnOf, Apart, ApartFrom, Conns
<1>2. /\ conn' = [k \in Conns |-> conn'[k]] /\ conn'[slot[s].conn] = Free
      /\ \A k \in Conns : k # slot[s].conn => conn'[k] = conn[k]
  BY <1>1 DEF IInv, Shape
<1>3. ConnOf(s)'
  BY <1>1 DEF ConnOf, OpenPcs
<1>4. \A p \in Slots : p # s => ConnOf(p)'
  BY <1>1, <1>2 DEF IInv, ConnInv, ConnOf
<1>5. ASSUME NEW k \in Conns, \A p \in Slots : slot'[p].conn # k PROVE conn'[k] = Free
  BY <1>1, <1>2, <1>5 DEF IInv, ConnInv
<1> QED BY <1>2, <1>3, <1>4, <1>5 DEF ConnInv, Free

LEMMA UndoesKeep ==
  ASSUME IInv, NEW s \in Slots, Undoes(s)
  PROVE  IInv'
<1> USE DEF Undoes, Ends, SameCall, tables, NoWrite
<1>1. calls' \in Nat /\ calls' >= calls /\ calls' <= MaxCalls
  BY CallsAssumption DEF IInv, Numbers
<1>2. NumberOf(s)' /\ LockOf(s)' /\ WriteOf(s)' /\ AckOf(s)'
  BY DEF IInv, Numbers, NumberOf, LockOf, WriteOf, AckOf, Made, OpenPcs
<1>3. conn' = [k \in Conns |-> conn'[k]] /\ ConnInv'
  BY ZenonT(30), EndFreesConnection
<1>4. \A p \in Slots : p # s => ApartFrom(s, p)' /\ ApartFrom(p, s)'
  BY DEF IInv, Apart, ApartFrom, Holds, Frame
<1> QED BY ZenonT(30), <1>1, <1>2, <1>3, <1>4, QuietStep
(* What a commit does to the tables: one row is inserted under a number that *)
(* nobody has, or one row is updated, or nothing changes.                    *)
LEMMA CommitShape ==
  ASSUME IInv, NEW s \in Slots, Commits(s)
  PROVE  \/ InsertSound(s) /\ ~Made(slot[s].n)
         \/ UpdateSound(s) \/ NothingSound(s)
BY DEF Commits, IInv, WriteInv, WriteOf, Numbers, NumberOf, InsertSound, OpenPcs

LEMMA CommitMakes ==
  ASSUME IInv, NEW s \in Slots, Commits(s)
  PROVE  /\ \A m : Made(m) => Made(m)'
         /\ \A m : Made(m)' => Made(m) \/ (m = slot[s].n /\ InsertSound(s))
         /\ InsertSound(s) => Made(slot[s].n)'
<1> DEFINE w == slot[s].write  n == slot[s].n
<1>1. Apply(w, n)
  BY DEF Commits
<1> DEFINE ids == {x.id : x \in version \cup chunk \cup log}
<1>2. DOMAIN human' = DOMAIN human \cup (IF w.t = "human" THEN {n} ELSE {})
  BY <1>1 DEF Apply
<1>3. DOMAIN wk' = DOMAIN wk \cup (IF w.t = "wk" THEN {w.id} ELSE {})
  BY <1>1 DEF Apply
<1>4. ids' = ids \cup (IF w.t \in {"version", "chunk", "log"} THEN {w.row.id} ELSE {})
  <2>1. (version \cup chunk \cup log)'
          = (version \cup chunk \cup log)
              \cup (IF w.t \in {"version", "chunk", "log"} THEN {w.row} ELSE {})
    BY <1>1 DEF Apply
  <2> QED BY <2>1
<1>5. \A m : Made(m) <=> m \in DOMAIN human \/ m \in DOMAIN wk \/ m \in ids
  BY DEF Made
<1>6. \A m : Made(m)' <=> m \in DOMAIN human' \/ m \in DOMAIN wk' \/ m \in ids'
  BY DEF Made
<1>7. /\ w.t = "human" => InsertSound(s)
      /\ w.t = "wk" => (w.id = n /\ InsertSound(s)) \/ w.id \in DOMAIN wk
      /\ w.t \in {"version", "chunk", "log"} => w.row.id = n /\ InsertSound(s)
      /\ InsertSound(s) => \/ w.t = "human"
                           \/ w.t = "wk" /\ w.id = n
                           \/ w.t \in {"version", "chunk", "log"} /\ w.row.id = n
  <2>1. CASE InsertSound(s)
    BY <2>1 DEF InsertSound
  <2>2. CASE UpdateSound(s)
    BY <2>2 DEF InsertSound, UpdateSound, Owned
  <2>3. CASE NothingSound(s)
    BY <2>3 DEF InsertSound, NothingSound
  <2> QED BY <2>1, <2>2, <2>3, CommitShape
<1> HIDE DEF w, ids, n
<1>8. \A m : Made(m) => Made(m)'
  BY <1>2, <1>3, <1>4, <1>5, <1>6
<1>9. \A m : Made(m)' => Made(m) \/ (m = n /\ InsertSound(s))
  <2> SUFFICES ASSUME NEW m, Made(m)', ~Made(m) PROVE m = n /\ InsertSound(s)
    OBVIOUS
  <2>1. CASE m \in DOMAIN human' \/ m \in DOMAIN wk'
    BY <1>2, <1>3, <1>5, <1>7, <2>1
  <2>2. CASE m \in ids'
    BY <1>4, <1>5, <1>7, <2>2
  <2> QED BY <1>6, <2>1, <2>2
<1>10. InsertSound(s) => Made(n)'
  <2> SUFFICES ASSUME InsertSound(s) PROVE n \in DOMAIN human' \/ n \in DOMAIN wk' \/ n \in ids'
    <3>1. n' = n
      BY DEF Commits, Ends, SameCall, n
    <3> QED BY <1>6, <3>1
  <2>1. CASE w.t = "human"
    BY <1>2, <2>1
  <2>2. CASE w.t = "wk" /\ w.id = n
    BY <1>3, <2>2
  <2>3. CASE w.t \in {"version", "chunk", "log"} /\ w.row.id = n
    BY <1>4, <2>3
  <2> QED BY <1>7, <2>1, <2>2, <2>3
<1> QED BY <1>8, <1>9, <1>10 DEF n

LEMMA CommitKeepsRows ==
  ASSUME IInv, NEW s \in Slots, Commits(s)
  PROVE  /\ \A h \in DOMAIN human : h \in DOMAIN human' /\ human'[h] = human[h]
         /\ \A i \in DOMAIN wk :
              /\ i \in DOMAIN wk'
              /\ \/ wk'[i] = wk[i]
                 \/ UpdateSound(s) /\ i = slot[s].req.id /\ wk'[i] = slot[s].write.row
         /\ UpdateSound(s) => wk'[slot[s].req.id] = slot[s].write.row
         /\ \A i \in DOMAIN wk' : RowShape(wk[i])'
<1> DEFINE w == slot[s].write  n == slot[s].n
<1>1. Apply(w, n)
  BY DEF Commits
<1>2. \A h \in DOMAIN human : h \in DOMAIN human' /\ human'[h] = human[h]
  <2>1. CASE w.t = "human"
    <3>1. n \notin DOMAIN human
      BY ZenonT(30), <2>1, CommitShape DEF UpdateSound, NothingSound, Made
    <3> QED BY <1>1, <2>1, <3>1 DEF Apply
  <2>2. CASE w.t # "human"
    BY <1>1, <2>2 DEF Apply
  <2> QED BY <2>1, <2>2
<1>3. /\ \A i \in DOMAIN wk :
           /\ i \in DOMAIN wk'
           /\ \/ wk'[i] = wk[i]
              \/ UpdateSound(s) /\ i = slot[s].req.id /\ wk'[i] = w.row
      /\ UpdateSound(s) => wk'[slot[s].req.id] = w.row
      /\ \A i \in DOMAIN wk' : (wk'[i] = w.row /\ RowShape(w.row)) \/ (i \in DOMAIN wk /\ wk'[i] = wk[i])
  <2>1. CASE w.t = "wk"
    <3>0. wk' = [i \in DOMAIN wk \cup {w.id} |-> IF i = w.id THEN w.row ELSE wk[i]]
      BY <1>1, <2>1 DEF Apply
    <3>1. CASE InsertSound(s) /\ ~Made(n)
      <4>1. w.id \notin DOMAIN wk /\ RowShape(w.row) /\ ~UpdateSound(s)
        BY <2>1, <3>1 DEF InsertSound, UpdateSound, Made
      <4> QED BY <3>0, <4>1
    <3>2. CASE UpdateSound(s)
      <4>1. w.id \in DOMAIN wk /\ RowShape(w.row) /\ w.id = slot[s].req.id
        BY <2>1, <3>2 DEF UpdateSound, Owned
      <4> QED BY <3>0, <3>2, <4>1
    <3> QED BY <2>1, <3>1, <3>2, CommitShape DEF NothingSound
  <2>2. CASE w.t # "wk"
    BY <1>1, <2>2 DEF Apply, UpdateSound
  <2> QED BY <2>1, <2>2
<1>4. \A i \in DOMAIN wk' : RowShape(wk[i])'
  BY <1>2, <1>3 DEF RowShape, IInv, Shape
<1> QED BY <1>2, <1>3, <1>4

LEMMA CommitRanks ==
  ASSUME IInv, NEW s \in Slots, Commits(s), NEW i \in DOMAIN wk
  PROVE  Rank[wk'[i].status] >= Rank[wk[i].status]
<1>1. RowShape(wk[i])
  BY DEF IInv, Shape
<1>2. CASE wk'[i] = wk[i]
  BY <1>1, <1>2 DEF RowShape, Rank
<1>3. CASE UpdateSound(s) /\ i = slot[s].req.id /\ wk'[i] = slot[s].write.row
  BY <1>1, <1>3 DEF UpdateSound, Rank, RowShape, Columns
<1> QED BY <1>2, <1>3, CommitKeepsRows

LEMMA CommitsKeep ==
  ASSUME IInv, NEW s \in Slots, Commits(s)
  PROVE  IInv'
<1> DEFINE w == slot[s].write  n == slot[s].n
<1>1. /\ Frame(s) /\ calls' = calls /\ slot'[s].req = slot[s].req /\ slot'[s].n = slot[s].n
      /\ slot[s].pc = "commit" /\ slot'[s].pc = "reply"
      /\ slot'[s].status \in {slot[s].status, 500}
      /\ slot'[s].conn = 0 /\ slot'[s].write.t = "none" /\ Ends(s)
      /\ Apply(w, n)
  BY DEF Commits, Ends, SameCall, NoWrite
<1>2. \A p \in Slots : p # s => slot'[p] = slot[p] /\ ApartFrom(s, p) /\ ApartFrom(p, s)
  BY <1>1 DEF Frame, IInv, Apart
<1>3. conn' = [k \in Conns |-> conn'[k]] /\ ConnInv'
  BY <1>1, EndFreesConnection DEF OpenPcs
<1>4. Shape'
  <2>1. \A p \in Slots : SlotShape(slot'[p])
    BY <1>1 DEF IInv, Shape, Frame
  <2>2. slot' = [p \in Slots |-> slot'[p]]
    BY <1>1 DEF Frame
  <2> QED BY <1>3, <2>1, <2>2, CommitKeepsRows DEF Shape, SlotShape
<1>5. Numbers'
  <2>1. \A p \in Slots : NumberOf(p)'
    BY <1>1, <1>2, CommitMakes DEF IInv, Numbers, NumberOf, ApartFrom, OpenPcs
  <2>2. \A m \in 1..MaxCalls : m > calls => ~Made(m)'
    BY CallsAssumption, CommitMakes DEF IInv, Numbers, NumberOf
  <2> QED BY <1>1, <2>1, <2>2 DEF Numbers, IInv
<1>6. ASSUME NEW p \in Slots, p # s, NEW id, Owned(p, id), ~Holds(s, id)
      PROVE  Owned(p, id)' /\ wk'[id] = wk[id]
  <2>1. id \in DOMAIN wk /\ RowShape(wk[id]) /\ wk[id].lead \in DOMAIN human
    BY <1>6 DEF Owned, IInv, Shape, RowShape
  <2>2. wk'[id] = wk[id] /\ id \in DOMAIN wk'
    <3>1. ~(UpdateSound(s) /\ id = slot[s].req.id)
      BY <1>6 DEF UpdateSound, Holds
    <3> QED BY <2>1, <3>1, CommitKeepsRows
  <2>3. human'[wk[id].lead] = human[wk[id].lead]
    BY <2>1, CommitKeepsRows
  <2> QED BY <1>2, <1>6, <2>2, <2>3 DEF Owned, OrgOfLead
<1>7. LockInv'
  <2> SUFFICES ASSUME NEW p \in Slots, slot'[p].pc = "locked" PROVE LockOf(p)'
    BY DEF LockInv, LockOf
  <2>1. p # s /\ slot'[p] = slot[p] /\ LockOf(p) /\ ~Holds(s, slot[p].req.id)
    BY <1>1, <1>2 DEF IInv, LockInv, ApartFrom
  <2>2. Owned(p, slot[p].req.id)
    BY <2>1 DEF LockOf
  <2>3. Owned(p, slot[p].req.id)' /\ wk'[slot[p].req.id] = wk[slot[p].req.id]
    BY <1>6, <2>1, <2>2
  <2> QED BY <2>1, <2>3 DEF LockOf
<1>8. WriteInv'
  <2> SUFFICES ASSUME NEW p \in Slots PROVE WriteOf(p)'
    BY DEF WriteInv
  <2>1. CASE p = s
    BY <1>1, <2>1 DEF WriteOf
  <2>2. CASE p # s
    <3>1. slot'[p] = slot[p] /\ WriteOf(p)
      BY <1>2, <2>2 DEF IInv, WriteInv
    <3>2. CASE slot[p].pc = "commit" /\ InsertSound(p)
      <4>1. CASE slot[p].write.t = "version"
        BY <1>1, <1>2, <2>2, <3>1, <3>2, <4>1 DEF InsertSound, WriteOf, Apply, ApartFrom
      <4>2. CASE slot[p].write.t = "human"
        <5>1. /\ slot[p].write.row.slack = NoSlack
                 \/ \A h \in DOMAIN human : human[h].slack # slot[p].write.row.slack
              /\ slot[p].status = 201 /\ slot[p].req.op # "updateStatus"
          BY <3>2, <4>2 DEF InsertSound
        <5>2. slot[s].write.t = "human" =>
                slot[p].write.row.slack = NoSlack \/ slot[s].write.row.slack # slot[p].write.row.slack
          BY <1>2, <2>2, <4>2 DEF ApartFrom
        <5>3. \A h \in DOMAIN human' : \/ h \in DOMAIN human /\ human'[h] = human[h]
                                       \/ /\ slot[s].write.t = "human"
                                          /\ human'[h] = slot[s].write.row
          BY <1>1 DEF Apply
        <5>4. slot[p].write.row.slack = NoSlack
              \/ \A h \in DOMAIN human' : human'[h].slack # slot[p].write.row.slack
          BY <5>1, <5>2, <5>3
        <5>5. InsertSound(p)'
          BY <3>1, <4>2, <5>1, <5>4 DEF InsertSound
        <5> QED BY <3>1, <3>2, <5>5 DEF WriteOf
      <4>3. CASE slot[p].write.t = "wk"
        <5>1. RowShape(slot[p].write.row)'
          BY ZenonT(30), <3>1, <3>2, <4>3, CommitKeepsRows DEF InsertSound, RowShape
        <5> QED BY <3>1, <3>2, <4>3, <5>1 DEF InsertSound, WriteOf
      <4> QED BY ZenonT(30), <3>1, <3>2, <4>1, <4>2, <4>3 DEF InsertSound, WriteOf
    <3>3. CASE slot[p].pc = "commit" /\ UpdateSound(p)
      <4>1. Owned(p, slot[p].req.id) /\ ~Holds(s, slot[p].req.id)
        BY <1>2, <2>2, <3>3 DEF UpdateSound, ApartFrom
      <4>2. Owned(p, slot[p].req.id)' /\ wk'[slot[p].req.id] = wk[slot[p].req.id]
        BY <1>6, <2>2, <3>1, <4>1
      <4>3. RowShape(slot[p].write.row)'
        BY ZenonT(30), <3>1, <3>3, CommitKeepsRows DEF UpdateSound, RowShape
      <4>4. UpdateSound(p)'
        BY <3>1, <3>3, <4>2, <4>3 DEF UpdateSound
      <4> QED BY <3>1, <3>3, <4>4 DEF WriteOf
    <3> QED BY <3>1, <3>2, <3>3 DEF WriteOf, NothingSound
  <2> QED BY <2>1, <2>2
<1>9. Apart'
  BY ZenonT(30), SMTT(30), <1>1, <1>2 DEF IInv, Apart, ApartFrom, Holds
<1>10. AckInv'
  <2> SUFFICES ASSUME NEW p \in Slots PROVE AckOf(p)'
    BY DEF AckInv
  <2>1. CASE p = s
    <3>1. CASE InsertSound(s)
      <4>1. slot[s].status = 201 /\ Made(slot[s].n)'
        BY <3>1, CommitMakes DEF InsertSound
      <4>2. slot'[s].status \in {201, 500} /\ slot'[s].n = slot[s].n /\ slot'[s].pc = "reply"
        BY <1>1, <4>1
      <4> QED BY <2>1, <4>1, <4>2 DEF AckOf
    <3>2. CASE UpdateSound(s)
      <4>1. slot[s].status = 204 /\ slot[s].req.id \in DOMAIN wk'
            /\ wk'[slot[s].req.id] = slot[s].write.row
        BY <3>2, CommitKeepsRows DEF UpdateSound, Owned
      <4>2. slot[s].req.op = "updateStatus" =>
              slot[s].write.row.status = slot[s].req.val /\ slot[s].req.val \in {"active", "retired"}
        BY <3>2 DEF UpdateSound
      <4> QED BY <1>1, <2>1, <4>1, <4>2 DEF AckOf, Rank
    <3>3. CASE NothingSound(s)
      <4>1. slot[s].req.op # "updateStatus" => ~Made(slot[s].n)'
        BY <3>3, <1>1, CommitMakes DEF NothingSound, InsertSound, IInv, Numbers, NumberOf, OpenPcs
      <4> QED BY <1>1, <2>1, <3>3, <4>1 DEF AckOf, NothingSound
    <3> QED BY <3>1, <3>2, <3>3, CommitShape
  <2>2. CASE p # s
    <3>1. slot'[p] = slot[p] /\ AckOf(p)
      BY <1>2, <2>2 DEF IInv, AckInv
    <3>2. slot[p].pc \in {"reply", "done"} =>
            /\ slot[p].status = 201 => Made(slot[p].n)'
            /\ slot[p].status \in 400..499 /\ slot[p].req.op # "updateStatus" => ~Made(slot[p].n)'
      BY <1>2, <2>2, <3>1, CommitMakes DEF AckOf, ApartFrom, IInv, Numbers, NumberOf
    <3>3. ASSUME slot[p].pc \in {"reply", "done"}, slot[p].status = 204,
                 slot[p].req.op = "updateStatus"
          PROVE  /\ slot[p].req.id \in DOMAIN wk'
                 /\ Rank[wk'[slot[p].req.id].status] >= Rank[slot[p].req.val]
                 /\ slot[p].req.val \in {"active", "retired"}
      <4>1. /\ slot[p].req.id \in DOMAIN wk
            /\ Rank[wk[slot[p].req.id].status] >= Rank[slot[p].req.val]
            /\ slot[p].req.val \in {"active", "retired"}
        BY <3>1, <3>3 DEF AckOf
      <4>2. /\ slot[p].req.id \in DOMAIN wk' /\ RowShape(wk[slot[p].req.id])
            /\ RowShape(wk[slot[p].req.id])'
        BY <4>1, <3>1, CommitKeepsRows DEF IInv, Shape
      <4>3. Rank[wk'[slot[p].req.id].status] >= Rank[wk[slot[p].req.id].status]
        BY <4>1, CommitRanks
      <4>4. \A st \in {"pending", "active", "retired"} : Rank[st] \in Int
        BY DEF Rank
      <4>5. /\ wk[slot[p].req.id].status \in {"pending", "active", "retired"}
            /\ wk'[slot[p].req.id].status \in {"pending", "active", "retired"}
        BY <3>1, <4>2 DEF RowShape
      <4>6. /\ Rank[wk[slot[p].req.id].status] \in Int /\ Rank[wk'[slot[p].req.id].status] \in Int
            /\ Rank[slot[p].req.val] \in Int
        <5> HIDE DEF Rank
        <5> QED BY <4>1, <4>5, <4>4
      <4>7. Rank[wk'[slot[p].req.id].status] >= Rank[slot[p].req.val]
        BY <4>1, <4>3, <4>6
      <4> QED BY <3>1, <4>1, <4>2, <4>7
    <3> QED BY <3>1, <3>2, <3>3 DEF AckOf
  <2> QED BY <2>1, <2>2
<1>11. UniqueKeys'
  <2>1. \A v, x \in version' : v.manifest = x.manifest /\ v.no = x.no => v = x
    <3>1. CASE w.t # "version"
      BY <1>1, <3>1 DEF Apply, IInv, UniqueKeys
    <3>2. CASE w.t = "version"
      <4>1. /\ version' = version \cup {w.row}
            /\ \A v \in version : ~(v.manifest = w.row.manifest /\ v.no = w.row.no)
        <5>1. version' = version \cup {w.row}
          BY <1>1, <3>2 DEF Apply
        <5>2. InsertSound(s)
          BY ZenonT(60), <3>2, CommitShape DEF UpdateSound, NothingSound
        <5> QED BY <3>2, <5>1, <5>2 DEF InsertSound
      <4> QED BY <4>1 DEF IInv, UniqueKeys
    <3> QED BY <3>1, <3>2
  <2>2. \A g, h \in DOMAIN human' :
          human'[g].slack = human'[h].slack /\ human'[g].slack # NoSlack => g = h
    <3>1. CASE w.t # "human"
      BY <1>1, <3>1 DEF Apply, IInv, UniqueKeys
    <3>2. CASE w.t = "human"
      <4>1. /\ human' = [i \in DOMAIN human \cup {n} |-> IF i = n THEN w.row ELSE human[i]]
            /\ w.row.slack = NoSlack \/ \A h \in DOMAIN human : human[h].slack # w.row.slack
        <5>1. human' = [i \in DOMAIN human \cup {n} |-> IF i = n THEN w.row ELSE human[i]]
          BY <1>1, <3>2 DEF Apply
        <5>2. InsertSound(s)
          BY ZenonT(60), <3>2, CommitShape DEF UpdateSound, NothingSound
        <5> QED BY <3>2, <5>1, <5>2 DEF InsertSound
      <4> QED BY <4>1 DEF IInv, UniqueKeys
    <3> QED BY <3>1, <3>2
  <2> QED BY <2>1, <2>2 DEF UniqueKeys
<1> QED BY <1>3, <1>4, <1>5, <1>7, <1>8, <1>9, <1>10, <1>11 DEF IInv
LEMMA InvStep == IInv /\ [Next]_vars => IInv'
<1> SUFFICES ASSUME IInv, [Next]_vars PROVE IInv'
  OBVIOUS
<1>1. CASE Next
  <2>1. PICK s \in Slots : Kinds(s)
    BY <1>1, EveryStepIsAKind
  <2> QED BY <2>1, CallsKeep, GivesUpKeeps, MovesKeep, TakesKeep, LocksKeep, ReadiesKeep,
             UndoesKeep, CommitsKeep DEF Kinds
<1>2. CASE UNCHANGED vars
  <2>1. UNCHANGED <<human, wk, version, chunk, log, conn, slot, calls>>
    BY <1>2 DEF vars, tables
  <2>2. Shape'
    BY <2>1 DEF IInv, Shape, SlotShape, RowShape
  <2>3. Numbers'
    BY <2>1 DEF IInv, Numbers, NumberOf, Made
  <2>4. ConnInv' /\ LockInv'
    BY <2>1 DEF IInv, ConnInv, ConnOf, LockInv, LockOf, Owned, OrgOfLead
  <2>5. WriteInv'
    BY <2>1, SoundStays DEF IInv, WriteInv, tables
  <2>6. Apart'
    BY <2>1 DEF IInv, Apart, ApartFrom, Holds
  <2>7. AckInv' /\ UniqueKeys'
    BY <2>1 DEF IInv, AckInv, AckOf, UniqueKeys, Made
  <2> QED BY <2>2, <2>3, <2>4, <2>5, <2>6, <2>7 DEF IInv
<1> QED BY <1>1, <1>2

LEMMA Invariance == Spec => []IInv
BY InitIInv, InvStep, PTL DEF Spec
-----------------------------------------------------------------------------
(* PooledConnectionsAreClean: WithScope's settings stay with the             *)
(* transaction, and no two requests share a connection.                      *)
THEOREM ConnectionsClean == Spec => []PooledConnectionsAreClean
<1>1. IInv => PooledConnectionsAreClean
  <2> SUFFICES ASSUME IInv, NEW k \in Conns
               PROVE  LET users == {s \in Slots : slot[s].conn = k} IN
                      IF users = {} THEN conn[k] = Free
                      ELSE \E s \in users :
                             /\ users = {s} /\ conn[k].by = slot[s].n
                             /\ conn[k].scope = slot[s].req.tok.scope
                             /\ conn[k].org = slot[s].req.tok.org
                             /\ conn[k].role = RoleForScope(slot[s].req.tok.scope)
    BY DEF PooledConnectionsAreClean
  <2> DEFINE users == {s \in Slots : slot[s].conn = k}
  <2>1. CASE users = {}
    BY <2>1 DEF IInv, ConnInv
  <2>2. CASE users # {}
    <3>1. PICK s \in Slots : slot[s].conn = k
      BY <2>2
    <3>2. k # 0
      BY DEF Conns
    <3>3. \A p \in Slots : p # s => slot[p].conn # k
      BY <3>1, <3>2 DEF IInv, Apart, ApartFrom
    <3>4. users = {s}
      BY <3>1, <3>3
    <3>5. ConnOf(s) /\ slot[s].pc \in OpenPcs
      BY <3>1, <3>2 DEF IInv, ConnInv, ConnOf
    <3> QED BY <3>1, <3>4, <3>5 DEF ConnOf
  <2> QED BY <2>1, <2>2
<1> QED BY <1>1, Invariance, PTL

(* AckIsEffect: a caller told 201 or 204 finds its write made, a caller told *)
(* 4xx finds nothing, and the unique keys of versions and Slack ids hold.    *)
THEOREM AnswersAreTrue == Spec => []AckIsEffect
<1>1. IInv => AckIsEffect
  BY DEF IInv, AckInv, AckOf, UniqueKeys, AckIsEffect, Answered, Refused
<1> QED BY <1>1, Invariance, PTL

(* One step of a watchkeeper's row, as OneWayAndOwned says it.               *)
RowMove(w) ==
  /\ w \in DOMAIN wk'
  /\ Rank[wk'[w].status] - Rank[wk[w].status] \in 0..1
  /\ wk'[w].status = wk[w].status => wk'[w] = [wk[w] EXCEPT !.lead = wk'[w].lead]
  /\ wk'[w] # wk[w] =>
       \E s \in Slots : /\ slot[s].pc = "commit" /\ slot'[s].pc = "reply"
                        /\ slot[s].req.id = w
                        /\ slot[s].req.tok.org = OrgOfLead(w)

LEMMA SameRow ==
  ASSUME IInv, NEW w \in DOMAIN wk, wk' = wk \/ (w \in DOMAIN wk' /\ wk'[w] = wk[w])
  PROVE  RowMove(w)
<1>1. RowShape(wk[w])
  BY DEF IInv, Shape
<1>2. Rank[wk[w].status] \in Int
  BY <1>1 DEF RowShape, Rank
<1>3. wk[w] = [wk[w] EXCEPT !.lead = wk[w].lead]
  BY <1>1 DEF RowShape
<1> QED BY <1>2, <1>3 DEF RowMove

LEMMA RowStep ==
  ASSUME IInv, [Next]_vars, NEW w \in DOMAIN wk
  PROVE  RowMove(w)
<1>1. CASE UNCHANGED vars
  BY <1>1, SameRow DEF vars, tables
<1>2. ASSUME NEW s \in Slots, Kinds(s) PROVE RowMove(w)
  <2>1. CASE Calls(s) \/ GivesUp(s) \/ Moves(s) \/ Takes(s) \/ Locks(s) \/ Readies(s) \/ Undoes(s)
    <3>1. wk' = wk
      BY <2>1 DEF Calls, GivesUp, Moves, Takes, Locks, Readies, Undoes, tables
    <3> QED BY <3>1, SameRow
  <2>2. CASE Commits(s)
    <3>1. CASE wk'[w] = wk[w]
      BY <2>2, <3>1, CommitKeepsRows, SameRow
    <3>2. CASE UpdateSound(s) /\ w = slot[s].req.id /\ wk'[w] = slot[s].write.row
      <4>1. /\ w \in DOMAIN wk' /\ RowShape(wk[w]) /\ Owned(s, w) /\ RowShape(wk'[w])
        BY <2>2, <3>2, CommitKeepsRows DEF IInv, Shape, UpdateSound
      <4>2. slot[s].pc = "commit" /\ slot'[s].pc = "reply"
        BY <2>2 DEF Commits, Ends
      <4>3. slot[s].req.tok.org = OrgOfLead(w)
        BY <4>1 DEF Owned
      <4>4. \/ wk[w].status = "pending" /\ wk'[w].status = "active"
            \/ wk[w].status = "active" /\ wk'[w].status = "retired"
            \/ wk'[w] = [wk[w] EXCEPT !.lead = wk'[w].lead]
        BY <3>2 DEF UpdateSound
      <4>5. CASE wk'[w] = [wk[w] EXCEPT !.lead = wk'[w].lead]
        <5>1. wk'[w].status = wk[w].status
          BY <4>1, <4>5 DEF RowShape, Columns
        <5>2. Rank[wk[w].status] \in Int
          BY <4>1 DEF RowShape, Rank
        <5> QED BY <3>2, <4>1, <4>2, <4>3, <4>5, <5>1, <5>2 DEF RowMove
      <4>6. CASE \/ wk[w].status = "pending" /\ wk'[w].status = "active"
                 \/ wk[w].status = "active" /\ wk'[w].status = "retired"
        <5>1. Rank[wk'[w].status] - Rank[wk[w].status] \in 0..1 /\ wk'[w].status # wk[w].status
          BY <4>6 DEF Rank
        <5> QED BY <3>2, <4>1, <4>2, <4>3, <5>1 DEF RowMove
      <4> QED BY <4>4, <4>5, <4>6
    <3> QED BY <2>2, <3>1, <3>2, CommitKeepsRows
  <2> QED BY <1>2, <2>1, <2>2 DEF Kinds
<1> QED BY <1>1, <1>2, EveryStepIsAKind

(* OneWayAndOwned: the status moves one way, its times and archive with it,  *)
(* and the organization that leads the row makes every change.               *)
THEOREM RowsMoveOneWay == Spec => OneWayAndOwned
<1>1. IInv /\ [Next]_vars => [\A w \in DOMAIN wk : RowMove(w)]_vars
  BY RowStep
<1>2. (\A w \in DOMAIN wk : RowMove(w)) <=>
        \A w \in DOMAIN wk :
        /\ w \in DOMAIN wk'
        /\ Rank[wk'[w].status] - Rank[wk[w].status] \in 0..1
        /\ wk'[w].status = wk[w].status => wk'[w] = [wk[w] EXCEPT !.lead = wk'[w].lead]
        /\ wk'[w] # wk[w] =>
             \E s \in Slots : /\ slot[s].pc = "commit" /\ slot'[s].pc = "reply"
                               /\ slot[s].req.id = w
                               /\ slot[s].req.tok.org = OrgOfLead(w)
  BY DEF RowMove
<1> QED BY <1>1, <1>2, Invariance, PTL DEF Spec, OneWayAndOwned
-----------------------------------------------------------------------------
(* FreshReads.  What a read found stays right while its answer travels,     *)
(* because rows are only added, each under a number that nobody was told of *)
(* before.                                                                  *)
Reading(s) == slot[s].pc \in {"commit", "reply", "done"} /\ slot[s].status \in {200, 404}

(* What is shown is in its table, and a count is a number. *)
BodyThere(r, body) ==
  /\ r.op = "search" => \A x \in body : \E c \in chunk : c.id = x
  /\ r.op = "logTail" => \A x \in body : \E e \in log : e.id = x
  /\ r.op = "getManifest" => \A x \in body : \E v \in version : v.id = x
  /\ r.op = "costRollups" => \A x \in body : x.calls \in Nat

Fresh(r, body, known) ==
  /\ FindsKnown(r, body, known) /\ ManifestIsRecent(r, body, known)
  /\ RollupCounts(r, body, known) /\ SearchIsInScope(r, body) /\ BodyThere(r, body)

ReadOf(s) == Reading(s) => Fresh(slot[s].req, slot[s].body, slot[s].known)

VersionShape(v) == v.no \in Nat /\ v.manifest \in DOMAIN ManifestOrg

(* What a caller knows, and what it is about to be told of its own insert. *)
TellOf(s) ==
  /\ slot[s].pc \in {"sent", "begin", "tx"} => slot[s].body = {}
  /\ slot[s].pc \in {"commit", "reply"} /\ slot[s].status = 201 => slot[s].body = {slot[s].n}
  /\ \A id \in slot[s].known : Made(id)
  /\ slot[s].req.op = "putVersion" => slot[s].req.no \in Nat
  /\ slot[s].write.t = "version" => VersionShape(slot[s].write.row)

UniqueIds(T) == \A x, y \in T : x.id = y.id => x = y

TablesInv ==
  /\ IsFiniteSet(version) /\ IsFiniteSet(chunk) /\ IsFiniteSet(log) /\ IsFiniteSet(DOMAIN wk)
  /\ UniqueIds(version) /\ UniqueIds(chunk) /\ UniqueIds(log)
  /\ \A v \in version : VersionShape(v)

AckedInv == \A id \in acked : Made(id)

FreshInv == TablesInv /\ AckedInv /\ \A s \in Slots : TellOf(s) /\ ReadOf(s)

LEMMA InitFresh == Init => FreshInv
<1> SUFFICES ASSUME Init PROVE FreshInv
  OBVIOUS
<1>1. TablesInv /\ AckedInv
  BY FS_EmptySet, RowsAssumption DEF Init, TablesInv, AckedInv, UniqueIds
<1>2. ASSUME NEW s \in Slots PROVE TellOf(s) /\ ReadOf(s)
  BY <1>2 DEF Init, Idle, TellOf, ReadOf, Reading
<1> QED BY <1>1, <1>2 DEF FreshInv

(* How the tables change: rows of known numbers stay as they are. *)
Extends(T, U) == T \subseteq U /\ \A x \in U : Made(x.id) => x \in T

Grows ==
  /\ \A m : Made(m) => Made(m)'
  /\ \A h : Made(h) /\ h \in DOMAIN human' => h \in DOMAIN human /\ human'[h] = human[h]
  /\ \A i : Made(i) /\ i \in DOMAIN wk' => i \in DOMAIN wk
  /\ Extends(version, version') /\ Extends(chunk, chunk') /\ Extends(log, log')

LEMMA StillGrows == ASSUME FreshInv, UNCHANGED tables PROVE Grows /\ TablesInv'
<1>1. /\ human' = human /\ wk' = wk /\ version' = version /\ chunk' = chunk /\ log' = log
  BY DEF tables
<1> QED BY <1>1 DEF Grows, Extends, Made, FreshInv, TablesInv, UniqueIds, VersionShape

LEMMA OneMore ==
  ASSUME NEW T, NEW x, IsFiniteSet(T), UniqueIds(T), ~Made(x.id), \A y \in T : Made(y.id)
  PROVE  Extends(T, T \cup {x}) /\ IsFiniteSet(T \cup {x}) /\ UniqueIds(T \cup {x})
BY FS_AddElement DEF Extends, UniqueIds

LEMMA CommitGrows ==
  ASSUME IInv, FreshInv, NEW s \in Slots, Commits(s)
  PROVE  Grows /\ TablesInv'
<1> DEFINE w == slot[s].write  n == slot[s].n
<1>1. Apply(w, n)
  BY DEF Commits
<1>2. /\ \A v \in version : Made(v.id)
      /\ \A c \in chunk : Made(c.id)
      /\ \A e \in log : Made(e.id)
  BY DEF Made
<1>3. /\ w.t \in {"version", "chunk", "log"} => w.row.id = n /\ ~Made(n)
      /\ w.t = "human" => ~Made(n)
      /\ w.t = "wk" => w.id \in DOMAIN wk \/ ~Made(w.id)
  <2>1. CASE InsertSound(s) /\ ~Made(n)
    BY <2>1 DEF InsertSound
  <2>2. CASE UpdateSound(s)
    BY <2>2 DEF UpdateSound, Owned
  <2>3. CASE NothingSound(s)
    BY <2>3 DEF NothingSound
  <2> QED BY <2>1, <2>2, <2>3, CommitShape
<1>4. /\ TablesInv /\ (w.t = "version" => VersionShape(w.row))
  BY DEF FreshInv, TellOf
<1> HIDE DEF w, n
<1> DEFINE After(T, t) == IF w.t = t THEN T \cup {w.row} ELSE T
<1>5. /\ version' = After(version, "version") /\ chunk' = After(chunk, "chunk")
      /\ log' = After(log, "log")
  BY <1>1 DEF Apply
<1>6. Extends(version, version') /\ IsFiniteSet(version') /\ UniqueIds(version')
  <2>1. CASE w.t = "version"
    BY <1>2, <1>3, <1>4, <1>5, <2>1, OneMore DEF TablesInv
  <2>2. CASE w.t # "version"
    BY <1>4, <1>5, <2>2 DEF TablesInv, Extends
  <2> QED BY <2>1, <2>2
<1>7. Extends(chunk, chunk') /\ IsFiniteSet(chunk') /\ UniqueIds(chunk')
  <2>1. CASE w.t = "chunk"
    BY <1>2, <1>3, <1>4, <1>5, <2>1, OneMore DEF TablesInv
  <2>2. CASE w.t # "chunk"
    BY <1>4, <1>5, <2>2 DEF TablesInv, Extends
  <2> QED BY <2>1, <2>2
<1>8. Extends(log, log') /\ IsFiniteSet(log') /\ UniqueIds(log')
  <2>1. CASE w.t = "log"
    BY <1>2, <1>3, <1>4, <1>5, <2>1, OneMore DEF TablesInv
  <2>2. CASE w.t # "log"
    BY <1>4, <1>5, <2>2 DEF TablesInv, Extends
  <2> QED BY <2>1, <2>2
<1>9. \A v \in version' : VersionShape(v)
  BY <1>4, <1>5 DEF TablesInv
<1>10. /\ IsFiniteSet(DOMAIN wk')
       /\ \A i : Made(i) /\ i \in DOMAIN wk' => i \in DOMAIN wk
  <2>1. CASE w.t = "wk"
    <3>1. DOMAIN wk' = DOMAIN wk \cup {w.id}
      BY <1>1, <2>1 DEF Apply
    <3>2. IsFiniteSet(DOMAIN wk')
      BY <1>4, <3>1, FS_AddElement DEF TablesInv
    <3> QED BY <1>3, <2>1, <3>1, <3>2
  <2>2. CASE w.t # "wk"
    BY <1>1, <1>4, <2>2 DEF Apply, TablesInv
  <2> QED BY <2>1, <2>2
<1>11. \A h : Made(h) /\ h \in DOMAIN human' => h \in DOMAIN human /\ human'[h] = human[h]
  <2>1. CASE w.t = "human"
    <3>1. human' = [i \in DOMAIN human \cup {n} |-> IF i = n THEN w.row ELSE human[i]] /\ ~Made(n)
      BY <1>1, <1>3, <2>1 DEF Apply
    <3> QED BY <3>1
  <2>2. CASE w.t # "human"
    BY <1>1, <2>2 DEF Apply
  <2> QED BY <2>1, <2>2
<1>12. \A m : Made(m) => Made(m)'
  BY CommitMakes
<1>13. UniqueIds(version)' /\ UniqueIds(chunk)' /\ UniqueIds(log)' /\ \A v \in version' : VersionShape(v)'
  BY <1>6, <1>7, <1>8, <1>9 DEF UniqueIds, VersionShape
<1> QED BY <1>6, <1>7, <1>8, <1>10, <1>11, <1>12, <1>13 DEF Grows, TablesInv

(* The row of an id. *)
LEMMA RowOf ==
  ASSUME NEW T, UniqueIds(T), NEW v \in T
  PROVE  (CHOOSE x \in T : x.id = v.id) = v
BY DEF UniqueIds

LEMMA FreshStays ==
  ASSUME TablesInv, Grows, TablesInv', NEW r, NEW body, NEW known,
         \A id \in known : Made(id), Fresh(r, body, known)
  PROVE  Fresh(r, body, known)'
<1> USE DEF Fresh
<1>4. /\ \A v \in version : Made(v.id)
      /\ \A c \in chunk : Made(c.id)
      /\ \A e \in log : Made(e.id)
  BY DEF Made
<1>5. BodyThere(r, body)'
  <2>1. version \subseteq version' /\ chunk \subseteq chunk' /\ log \subseteq log'
    BY DEF Grows, Extends
  <2> QED BY <2>1 DEF BodyThere
<1>6. /\ \A v \in version : VersionOf(v.id)' = v /\ VersionOf(v.id) = v
      /\ \A e \in log : LogOf(e.id)' = e /\ LogOf(e.id) = e
  <2>1. /\ version \subseteq version' /\ UniqueIds(version) /\ UniqueIds(version')
        /\ log \subseteq log' /\ UniqueIds(log) /\ UniqueIds(log')
    BY DEF Grows, Extends, TablesInv, UniqueIds
  <2>2. \A v \in version : VersionOf(v.id)' = v /\ VersionOf(v.id) = v
    BY <2>1, RowOf DEF VersionOf
  <2> QED BY <2>1, <2>2, RowOf DEF LogOf
<1>7. FindsKnown(r, body, known)'
  <2> SUFFICES ASSUME NEW id \in known, Matches(r, id)'
               PROVE  id \in body \/ (Full(r, body) /\ NewerInBody(r, body, id))'
    BY DEF FindsKnown
  <2>1. Made(id)
    OBVIOUS
  <2>2. Matches(r, id)
    BY <2>1 DEF Matches, Grows, Extends
  <2>3. id \in body \/ (Full(r, body) /\ NewerInBody(r, body, id))
    BY <2>2 DEF FindsKnown
  <2>4. Full(r, body) => Full(r, body)'
    BY DEF Full
  <2>5. NewerInBody(r, body, id) => NewerInBody(r, body, id)'
    <3>1. CASE r.op = "logTail"
      <4>1. \E e \in log : e.id = id
        BY <2>2, <3>1 DEF Matches
      <4>2. \A x \in body : \E e \in log : e.id = x
        BY <3>1 DEF BodyThere
      <4>3. \A x \in body \cup {id} : LogOf(x)' = LogOf(x)
        BY <1>6, <4>1, <4>2
      <4> QED BY <4>3 DEF NewerInBody
    <3>2. CASE r.op # "logTail"
      BY <3>2 DEF NewerInBody
    <3> QED BY <3>1, <3>2
  <2> QED BY <2>3, <2>4, <2>5
<1>8. ManifestIsRecent(r, body, known)'
  <2> SUFFICES ASSUME r.op = "getManifest"
               PROVE  /\ \A v \in version' :
                           v.id \in known /\ v.manifest = r.id /\ ManifestOrg[r.id] = r.tok.org =>
                             \E x \in body : VersionOf(x)'.no >= v.no
                      /\ \A x \in body : ManifestOrg[VersionOf(x)'.manifest] = r.tok.org
    BY DEF ManifestIsRecent
  <2>1. \A v \in version' : v.id \in known => v \in version
    BY DEF Grows, Extends
  <2>2. \A x \in body : VersionOf(x)' = VersionOf(x)
    BY <1>6 DEF BodyThere
  <2>3. /\ \A v \in version :
             v.id \in known /\ v.manifest = r.id /\ ManifestOrg[r.id] = r.tok.org =>
               \E x \in body : VersionOf(x).no >= v.no
        /\ \A x \in body : ManifestOrg[VersionOf(x).manifest] = r.tok.org
    BY DEF ManifestIsRecent
  <2> QED BY <2>1, <2>2, <2>3
<1>9. RollupCounts(r, body, known)'
  <2> SUFFICES ASSUME r.op = "costRollups"
               PROVE  /\ \A e \in Counted(r)' : e.id \in known => \E x \in body : x.group = Group(r, e)
                      /\ \A x \in body :
                           /\ \E e \in log' : Group(r, e) = x.group /\ e.agent = r.agent
                           /\ Cardinality({e \in InGroup(r, x.group)' : e.id \in known}) <= x.calls
                           /\ x.calls <= Cardinality(InGroup(r, x.group)')
                      /\ \A x, y \in body : x.group = y.group => x = y
    BY DEF RollupCounts
  <2>1. /\ \A e \in Counted(r) : e.id \in known => \E x \in body : x.group = Group(r, e)
        /\ \A x \in body :
             /\ \E e \in log : Group(r, e) = x.group /\ e.agent = r.agent
             /\ Cardinality({e \in InGroup(r, x.group) : e.id \in known}) <= x.calls
             /\ x.calls <= Cardinality(InGroup(r, x.group))
        /\ \A x, y \in body : x.group = y.group => x = y
    BY DEF RollupCounts
  <2>2. \A e \in log' : e.id \in known => e \in log
    BY DEF Grows, Extends
  <2>3. \A e \in Counted(r)' : e.id \in known => e \in Counted(r)
    BY <2>2 DEF Counted
  <2>4. ASSUME NEW b
        PROVE  /\ {e \in InGroup(r, b)' : e.id \in known} = {e \in InGroup(r, b) : e.id \in known}
               /\ InGroup(r, b) \subseteq InGroup(r, b)'
               /\ Cardinality(InGroup(r, b)) \in Nat /\ Cardinality(InGroup(r, b)') \in Nat
               /\ Cardinality(InGroup(r, b)) <= Cardinality(InGroup(r, b)')
    <3>1. log \subseteq log'
      BY DEF Grows, Extends
    <3>2. InGroup(r, b) \subseteq InGroup(r, b)'
      BY <3>1 DEF InGroup, Counted
    <3>3. {e \in InGroup(r, b)' : e.id \in known} = {e \in InGroup(r, b) : e.id \in known}
      BY <2>2, <3>2 DEF InGroup, Counted
    <3>4. IsFiniteSet(InGroup(r, b)')
      BY FS_Subset DEF InGroup, Counted, TablesInv
    <3> QED BY <3>2, <3>3, <3>4, FS_Subset, FS_CardinalityType
  <2>5. ASSUME NEW x \in body
        PROVE  /\ Cardinality({e \in InGroup(r, x.group)' : e.id \in known}) <= x.calls
               /\ x.calls <= Cardinality(InGroup(r, x.group)')
    <3> DEFINE b == x.group
    <3>1. /\ InGroup(r, b) \subseteq InGroup(r, b)'
          /\ {e \in InGroup(r, b)' : e.id \in known} = {e \in InGroup(r, b) : e.id \in known}
          /\ Cardinality(InGroup(r, b)) \in Nat /\ Cardinality(InGroup(r, b)') \in Nat
      BY <2>4
    <3>2. x.calls \in Nat
      BY DEF BodyThere
    <3>3. /\ Cardinality({e \in InGroup(r, b) : e.id \in known}) <= x.calls
          /\ x.calls <= Cardinality(InGroup(r, b))
      BY <2>1
    <3>4. Cardinality({e \in InGroup(r, b)' : e.id \in known}) <= x.calls
      BY <3>1, <3>3
    <3>5. x.calls <= Cardinality(InGroup(r, b)')
      BY <2>4, <3>2, <3>3
    <3> QED BY <3>4, <3>5
  <2>6. ASSUME NEW x \in body
        PROVE  \E e \in log' : Group(r, e) = x.group /\ e.agent = r.agent
    BY <2>1 DEF Grows, Extends
  <2> QED BY <2>1, <2>3, <2>5, <2>6
<1>10. SearchIsInScope(r, body)'
  BY <1>4 DEF SearchIsInScope, BodyThere, Grows, Extends
<1> QED BY <1>5, <1>7, <1>8, <1>9, <1>10 DEF Fresh
-----------------------------------------------------------------------------
(* What each read finds. *)
LEMMA Least == ASSUME NEW S \in SUBSET Nat, S # {} PROVE \E m \in S : \A k \in S : m <= k
<1>1. PICK m \in S : \A k \in S : <<k, m>> \notin OpToRel(<, Nat)
  BY WFMin, NatLessThanWellFounded, Zenon
<1>2. \A k \in S : k \in Nat /\ m \in Nat /\ ~(k < m)
  BY <1>1, Zenon DEF OpToRel
<1> QED BY <1>2

(* Finitely many versions have a newest one: the one with the fewest above it. *)
LEMMA NewestVersion ==
  ASSUME NEW R, IsFiniteSet(R), R # {}, \A v \in R : v.no \in Nat
  PROVE  \E w \in R : \A v \in R : v.no <= w.no
<1> DEFINE Above(w) == {v \in R : v.no > w.no}
           Counts == {Cardinality(Above(w)) : w \in R}
<1>1. \A w \in R : IsFiniteSet(Above(w)) /\ Cardinality(Above(w)) \in Nat
  BY FS_Subset, FS_CardinalityType
<1>2. PICK m \in Counts : \A k \in Counts : m <= k
  <2>1. Counts \in SUBSET Nat /\ Counts # {}
    BY <1>1
  <2> HIDE DEF Counts
  <2> QED BY <2>1, Least
<1>3. PICK w \in R : m = Cardinality(Above(w))
  BY <1>2
<1>4. ASSUME NEW v \in R, v.no > w.no PROVE FALSE
  <2>1. Above(v) \subseteq Above(w) /\ v \in Above(w) /\ v \notin Above(v)
    BY <1>4
  <2>2. Cardinality(Above(v)) <= Cardinality(Above(w)) /\ Cardinality(Above(w)) # Cardinality(Above(v))
    BY <1>1, <2>1, FS_Subset
  <2>3. Cardinality(Above(w)) <= Cardinality(Above(v))
    BY <1>2, <1>3
  <2>4. Cardinality(Above(w)) \in Nat /\ Cardinality(Above(v)) \in Nat
    BY <1>1
  <2> HIDE DEF Above
  <2> QED BY <2>2, <2>3, <2>4
<1> QED BY <1>4

LEMMA LimitIsUsed ==
  ASSUME NEW rows, IsFiniteSet(rows), NEW T \in SUBSET rows, NEW n,
         Cardinality(T) = (IF n < Cardinality(rows) THEN n ELSE Cardinality(rows)),
         T # rows
  PROVE  Cardinality(T) = n
BY FS_Subset

LEMMA AsManyIds ==
  ASSUME NEW T, IsFiniteSet(T), UniqueIds(T)
  PROVE  Cardinality({x.id : x \in T}) = Cardinality(T)
<1> DEFINE f == [x \in T |-> x.id]
<1>1. f \in Surjection(T, {x.id : x \in T}) /\ f \in Injection(T, {x.id : x \in T})
  BY DEF Surjection, Injection, IsInjective, UniqueIds
<1> QED BY <1>1, FS_Surjection

OtherOps == {"store", "logAppend", "putVersion", "insertWatchkeeper", "updateStatus", "setLead",
             "insertHuman"}

LEMMA NotARead == ASSUME NEW r, r.op \in OtherOps, NEW body, NEW known PROVE Fresh(r, body, known)
BY DEF OtherOps, Fresh, FindsKnown, Matches, ManifestIsRecent, RollupCounts, SearchIsInScope, BodyThere

(* What a handler leaves for the answer: of a read, what it should find. *)
Leaves(s, code, body) == code \in {200, 404} => Fresh(slot[s].req, body, slot[s].known)

LookedUp(s) ==
  slot[s].pc = "tx" /\ \/ \E body : Ready(s, NoWrite, 200, body) /\ Leaves(s, 200, body)
                       \/ Rollback(s, 404) /\ Leaves(s, 404, {})
                       \/ Rollback(s, 500)

LEMMA MeIsMe ==
  ASSUME IInv, NEW s \in Slots, slot[s].pc = "tx"
  PROVE  Me(s).scope = slot[s].req.tok.scope /\ Me(s).org = slot[s].req.tok.org
BY DEF IInv, ConnInv, ConnOf, Me, OpenPcs

LEMMA OneFound ==
  ASSUME NEW s \in Slots, NEW rows, Found(s, rows), slot[s].pc = "tx",
         Fresh(slot[s].req, rows, slot[s].known)
  PROVE  LookedUp(s)
BY DEF Found, LookedUp, Leaves

LEMMA LookupFinds ==
  ASSUME IInv, FreshInv, NEW s \in Slots,
         handleLookupHumanBySlackID(s) \/ handleGetWatchkeeper(s)
  PROVE  LookedUp(s)
<1>1. CASE handleLookupHumanBySlackID(s)
  <2> DEFINE rows == {h \in DOMAIN human : human[h].slack = slot[s].req.slack}
  <2>1. slot[s].req.op = "lookupHuman" /\ slot[s].pc = "tx" /\ Found(s, rows)
    BY <1>1 DEF handleLookupHumanBySlackID, InTx
  <2>2. Fresh(slot[s].req, rows, slot[s].known)
    BY <2>1 DEF Fresh, FindsKnown, Matches, ManifestIsRecent, RollupCounts, SearchIsInScope, BodyThere
  <2> QED BY <2>1, <2>2, OneFound
<1>2. CASE handleGetWatchkeeper(s)
  <2> DEFINE rows == {slot[s].req.id} \cap DOMAIN wk
  <2>1. slot[s].req.op = "getWatchkeeper" /\ slot[s].pc = "tx" /\ Found(s, rows)
    BY <1>2 DEF handleGetWatchkeeper, InTx
  <2>2. Fresh(slot[s].req, rows, slot[s].known)
    BY <2>1 DEF Fresh, FindsKnown, Matches, ManifestIsRecent, RollupCounts, SearchIsInScope, BodyThere
  <2> QED BY <2>1, <2>2, OneFound
<1> QED BY <1>1, <1>2

LEMMA ManifestFinds ==
  ASSUME IInv, FreshInv, NEW s \in Slots, handleGetManifest(s)
  PROVE  LookedUp(s)
<1> DEFINE r == slot[s].req
           rows == {v \in version : v.manifest = r.id /\ ManifestVisible(s, v.manifest)}
           best == {w \in rows : \A x \in rows : x.no <= w.no}
           body == {v.id : v \in best}
<1>1. /\ r.op = "getManifest" /\ slot[s].pc = "tx"
      /\ Rollback(s, 500) \/ Found(s, body)
  BY DEF handleGetManifest, InTx
<1>2. TablesInv
  BY DEF FreshInv
<1>3. \A v \in version : v.no \in Nat /\ v.manifest \in DOMAIN ManifestOrg /\ VersionOf(v.id) = v
  BY <1>2, RowOf DEF TablesInv, VersionShape, VersionOf
<1>4. rows # {} => best # {}
  <2>1. IsFiniteSet(rows)
    BY <1>2, FS_Subset DEF TablesInv
  <2> QED BY <1>3, <2>1, NewestVersion
<1>5. ManifestIsRecent(r, body, slot[s].known)
  <2>1. ASSUME NEW v \in version, v.manifest = r.id, ManifestOrg[r.id] = r.tok.org
        PROVE  \E x \in body : VersionOf(x).no >= v.no
    <3>1. v \in rows
      BY <1>1, <1>3, <2>1, MeIsMe DEF ManifestVisible
    <3>2. PICK w \in best : TRUE
      BY <1>4, <3>1
    <3>3. w \in version /\ v.no <= w.no /\ w.id \in body
      BY <3>1, <3>2
    <3> QED BY <1>3, <3>3
  <2>2. ASSUME NEW x \in body PROVE ManifestOrg[VersionOf(x).manifest] = r.tok.org
    <3>1. PICK w \in best : x = w.id
      BY <2>2
    <3>2. w \in version /\ ManifestVisible(s, w.manifest)
      BY <3>1
    <3> QED BY <1>1, <1>3, <3>1, <3>2, MeIsMe DEF ManifestVisible
  <2> QED BY <2>1, <2>2 DEF ManifestIsRecent
<1>6. \A x \in body : \E v \in version : v.id = x
  OBVIOUS
<1>7. Fresh(r, body, slot[s].known)
  <2> HIDE DEF body
  <2> QED BY <1>1, <1>5, <1>6 DEF Fresh, FindsKnown, Matches, RollupCounts, SearchIsInScope, BodyThere
<1> QED BY <1>1, <1>7, OneFound DEF LookedUp

LEMMA SearchFinds ==
  ASSUME IInv, FreshInv, NEW s \in Slots, handleSearch(s)
  PROVE  LookedUp(s)
<1> DEFINE r == slot[s].req
           rows == {c \in chunk : ChunkVisible(s, c)}
<1>1. r.op = "search" /\ slot[s].pc = "tx"
  BY DEF handleSearch, InTx
<1>2. PICK T \in SUBSET rows :
        /\ Cardinality(T) = (IF Clamp(r.n) < Cardinality(rows) THEN Clamp(r.n) ELSE Cardinality(rows))
        /\ Ready(s, NoWrite, 200, {c.id : c \in T})
  BY DEF handleSearch, Newest
<1> DEFINE body == {c.id : c \in T}
<1>3. IsFiniteSet(rows) /\ IsFiniteSet(T) /\ UniqueIds(T) /\ UniqueIds(chunk)
  BY FS_Subset DEF FreshInv, TablesInv, UniqueIds
<1>4. FindsKnown(r, body, slot[s].known)
  <2> SUFFICES ASSUME NEW id \in slot[s].known, Matches(r, id), id \notin body
               PROVE  Full(r, body) /\ NewerInBody(r, body, id)
    BY DEF FindsKnown
  <2>1. PICK c \in rows : c.id = id
    BY <1>1, MeIsMe DEF Matches, ChunkVisible
  <2>2. T # rows
    BY <2>1
  <2>3. Cardinality(body) = Clamp(r.n)
    BY <1>2, <1>3, <2>2, LimitIsUsed, AsManyIds
  <2> QED BY <1>1, <2>3 DEF Full, NewerInBody
<1>5. SearchIsInScope(r, body)
  <2>1. ASSUME NEW c \in chunk, c.id \in body PROVE c.scope \in {"org", r.tok.scope}
    <3>1. c \in T
      BY <1>3, <2>1 DEF UniqueIds
    <3> QED BY <1>1, <3>1, MeIsMe DEF ChunkVisible
  <2> QED BY <2>1 DEF SearchIsInScope
<1>6. \A x \in body : \E c \in chunk : c.id = x
  OBVIOUS
<1>7. Fresh(r, body, slot[s].known)
  <2> HIDE DEF body
  <2> QED BY <1>1, <1>4, <1>5, <1>6 DEF Fresh, ManifestIsRecent, RollupCounts, BodyThere
<1> QED BY <1>1, <1>2, <1>7 DEF LookedUp, Leaves

LEMMA TailFinds ==
  ASSUME IInv, FreshInv, NEW s \in Slots, handleLogTail(s)
  PROVE  LookedUp(s)
<1> DEFINE r == slot[s].req
<1>1. r.op = "logTail" /\ slot[s].pc = "tx"
  BY DEF handleLogTail, InTx
<1>2. PICK T \in SUBSET log :
        /\ Cardinality(T) = (IF Clamp(r.n) < Cardinality(log) THEN Clamp(r.n) ELSE Cardinality(log))
        /\ \A x \in T, y \in log \ T : x.at >= y.at
        /\ Ready(s, NoWrite, 200, {e.id : e \in T})
  BY DEF handleLogTail, Newest
<1> DEFINE body == {e.id : e \in T}
<1>3. IsFiniteSet(log) /\ IsFiniteSet(T) /\ UniqueIds(T) /\ UniqueIds(log)
  BY FS_Subset DEF FreshInv, TablesInv, UniqueIds
<1>4. FindsKnown(r, body, slot[s].known)
  <2> SUFFICES ASSUME NEW id \in slot[s].known, Matches(r, id), id \notin body
               PROVE  Full(r, body) /\ NewerInBody(r, body, id)
    BY DEF FindsKnown
  <2>1. PICK e \in log : e.id = id
    BY <1>1 DEF Matches
  <2>2. e \notin T
    BY <2>1
  <2>3. Cardinality(body) = Clamp(r.n)
    BY <1>2, <1>3, <2>2, LimitIsUsed, AsManyIds
  <2>4. \A t \in log : LogOf(t.id) = t
    BY <1>3, RowOf DEF LogOf
  <2>5. \A x \in body : LogOf(x).at >= LogOf(id).at
    BY <1>2, <2>1, <2>2, <2>4
  <2> QED BY <1>1, <2>3, <2>5 DEF Full, NewerInBody
<1>6. \A x \in body : \E e \in log : e.id = x
  OBVIOUS
<1>7. Fresh(r, body, slot[s].known)
  <2> HIDE DEF body
  <2> QED BY <1>1, <1>4, <1>6 DEF Fresh, ManifestIsRecent, RollupCounts, SearchIsInScope, BodyThere
<1> QED BY <1>1, <1>2, <1>7 DEF LookedUp, Leaves

LEMMA ListFinds ==
  ASSUME IInv, FreshInv, NEW s \in Slots, handleListWatchkeepers(s)
  PROVE  LookedUp(s)
<1> DEFINE r == slot[s].req
           rows == {w \in DOMAIN wk : r.val \in {"any", wk[w].status}}
<1>1. r.op = "listWatchkeepers" /\ slot[s].pc = "tx"
  BY DEF handleListWatchkeepers, InTx
<1>2. PICK T \in SUBSET rows :
        /\ Cardinality(T) = (IF Clamp(r.n) < Cardinality(rows) THEN Clamp(r.n) ELSE Cardinality(rows))
        /\ Ready(s, NoWrite, 200, T)
  BY DEF handleListWatchkeepers, Newest
<1>3. IsFiniteSet(rows)
  BY FS_Subset DEF FreshInv, TablesInv
<1>4. FindsKnown(r, T, slot[s].known)
  <2> SUFFICES ASSUME NEW id \in slot[s].known, Matches(r, id), id \notin T
               PROVE  Full(r, T) /\ NewerInBody(r, T, id)
    BY DEF FindsKnown
  <2>1. id \in rows
    BY <1>1 DEF Matches
  <2>2. Cardinality(T) = Clamp(r.n)
    BY <1>2, <1>3, <2>1, LimitIsUsed
  <2> QED BY <1>1, <2>2 DEF Full, NewerInBody
<1>5. Fresh(r, T, slot[s].known)
  BY <1>1, <1>4 DEF Fresh, ManifestIsRecent, RollupCounts, SearchIsInScope, BodyThere
<1> QED BY <1>1, <1>2, <1>5 DEF LookedUp, Leaves

LEMMA RollupFinds ==
  ASSUME IInv, FreshInv, NEW s \in Slots, handleCostRollups(s)
  PROVE  LookedUp(s)
<1> DEFINE r == slot[s].req
           body == runCostRollupQuery(r)
<1>1. r.op = "costRollups" /\ slot[s].pc = "tx" /\ Ready(s, NoWrite, 200, body)
  BY DEF handleCostRollups, InTx
<1>2. ASSUME NEW b
      PROVE  /\ Cardinality(InGroup(r, b)) \in Nat
             /\ Cardinality({e \in InGroup(r, b) : e.id \in slot[s].known}) <= Cardinality(InGroup(r, b))
  <2>1. IsFiniteSet(InGroup(r, b))
    BY FS_Subset DEF InGroup, Counted, FreshInv, TablesInv
  <2> QED BY <2>1, FS_Subset, FS_CardinalityType
<1>3. \A x \in body : /\ x.calls = Cardinality(InGroup(r, x.group))
                      /\ x = [group |-> x.group, calls |-> Cardinality(InGroup(r, x.group)),
                              tokens |-> Tokens(InGroup(r, x.group))]
                      /\ \E e \in Counted(r) : x.group = Group(r, e)
  BY DEF runCostRollupQuery
<1>4. \A e \in Counted(r) : \E x \in body : x.group = Group(r, e)
  <2> SUFFICES ASSUME NEW e \in Counted(r)
               PROVE  \E x \in body : x.group = Group(r, e)
    OBVIOUS
  <2>1. PICK b : b = Group(r, e)
    OBVIOUS
  <2>2. [group |-> b, calls |-> Cardinality(InGroup(r, b)), tokens |-> Tokens(InGroup(r, b))] \in body
    BY <2>1 DEF runCostRollupQuery
  <2> QED BY <2>1, <2>2
<1> HIDE DEF body
<1>5. RollupCounts(r, body, slot[s].known)
  <2>1. \A x, y \in body : x.group = y.group => x = y
    BY <1>3
  <2>2. \A x \in body :
          /\ Cardinality({e \in InGroup(r, x.group) : e.id \in slot[s].known}) <= x.calls
          /\ x.calls <= Cardinality(InGroup(r, x.group))
    BY <1>2, <1>3
  <2>3. \A x \in body : \E e \in log : Group(r, e) = x.group /\ e.agent = r.agent
    BY <1>3 DEF Counted
  <2> QED BY <1>4, <2>1, <2>2, <2>3 DEF RollupCounts
<1>6. Fresh(r, body, slot[s].known)
  BY <1>1, <1>2, <1>3, <1>5 DEF Fresh, FindsKnown, Matches, ManifestIsRecent, SearchIsInScope, BodyThere
<1> QED BY <1>1, <1>6 DEF LookedUp, Leaves
-----------------------------------------------------------------------------
(* What each step leaves for the answer.                                    *)
LEMMA FreshRule ==
  ASSUME FreshInv, NEW s \in Slots, Frame(s), Grows, TablesInv', AckedInv',
         TellOf(s)', ReadOf(s)'
  PROVE  FreshInv'
<1>1. ASSUME NEW p \in Slots, p # s PROVE TellOf(p)' /\ ReadOf(p)'
  <2>1. slot'[p] = slot[p]
    BY <1>1 DEF Frame
  <2>2. TellOf(p) /\ ReadOf(p) /\ TablesInv
    BY DEF FreshInv
  <2>3. TellOf(p)'
    BY <2>1, <2>2 DEF TellOf, Grows, VersionShape
  <2>4. ReadOf(p)'
    <3>1. PICK r, body, known : r = slot[p].req /\ body = slot[p].body /\ known = slot[p].known
      OBVIOUS
    <3>2. Reading(p)' => Reading(p)
      BY <2>1 DEF Reading
    <3>3. Reading(p) => Fresh(r, body, known)'
      BY <2>2, <3>1, FreshStays DEF ReadOf, TellOf
    <3> QED BY <2>1, <3>1, <3>2, <3>3 DEF ReadOf
  <2> QED BY <2>3, <2>4
<1> QED BY <1>1 DEF FreshInv

(* A caller's answer stays as it is while its step goes on. *)
LEMMA StepRule ==
  ASSUME IInv, FreshInv, NEW s \in Slots, Frame(s), Grows, TablesInv', acked' = acked,
         SameCall(s), slot'[s].body = slot[s].body, slot'[s].known = slot[s].known,
         slot'[s].write.t = "none" \/ slot'[s].write = slot[s].write,
         Reading(s)' => Reading(s),
         slot'[s].pc \in {"sent", "begin", "tx"} => slot[s].body = {},
         slot'[s].pc \in {"commit", "reply"} /\ slot'[s].status = 201 =>
           slot[s].pc \in {"commit", "reply"} /\ slot[s].status = 201
  PROVE  FreshInv'
<1>1. TellOf(s) /\ ReadOf(s) /\ TablesInv
  BY DEF FreshInv
<1>2. AckedInv'
  BY DEF FreshInv, AckedInv, Grows
<1>3. TellOf(s)'
  BY <1>1 DEF TellOf, Grows, VersionShape, SameCall
<1>4. ReadOf(s)'
  <2>1. PICK r, body, known : r = slot[s].req /\ body = slot[s].body /\ known = slot[s].known
    OBVIOUS
  <2>2. Reading(s) => Fresh(r, body, known)'
    BY <1>1, <2>1, FreshStays DEF ReadOf, TellOf
  <2> QED BY <2>1, <2>2 DEF ReadOf, SameCall
<1> QED BY <1>2, <1>3, <1>4, FreshRule

(* The answer is settled within the transaction. *)
LEMMA SettleRule ==
  ASSUME IInv, FreshInv, NEW s \in Slots, Frame(s), UNCHANGED tables, acked' = acked,
         SameCall(s), slot'[s].known = slot[s].known, slot'[s].pc \in {"commit", "reply"},
         slot'[s].write.t = "version" => VersionShape(slot'[s].write.row),
         slot'[s].status = 201 => slot'[s].body = {slot[s].n},
         slot'[s].status \in {200, 404} => Fresh(slot[s].req, slot'[s].body, slot[s].known)
  PROVE  FreshInv'
<1>1. TellOf(s) /\ TablesInv
  BY DEF FreshInv
<1>2. Grows /\ TablesInv'
  BY StillGrows
<1>3. AckedInv'
  BY <1>2 DEF FreshInv, AckedInv, Grows
<1>4. TellOf(s)'
  BY <1>1, <1>2 DEF TellOf, Grows, VersionShape, SameCall
<1>5. ReadOf(s)'
  <2>1. PICK r, body, known : r = slot[s].req /\ body = slot'[s].body /\ known = slot[s].known
    OBVIOUS
  <2>2. Fresh(r, body, known) => Fresh(r, body, known)'
    BY <1>1, <1>2, <2>1, FreshStays DEF TellOf
  <2> QED BY <2>1, <2>2 DEF ReadOf, Reading, SameCall
<1> QED BY <1>2, <1>3, <1>4, <1>5, FreshRule

LEMMA ReadyTells ==
  ASSUME IInv, NEW s \in Slots, NEW w, NEW code, NEW body, Ready(s, w, code, body),
         slot[s].pc \in {"tx", "locked"}
  PROVE  /\ slot'[s].body = body /\ slot'[s].known = slot[s].known /\ acked' = acked
         /\ UNCHANGED tables /\ SameCall(s)
         /\ slot'[s].pc = "commit" /\ slot'[s].write = w /\ slot'[s].status = code
<1> DEFINE L == slot[s].locks \cup NextLocks(s)
           x == [slot[s] EXCEPT !.pc = "commit", !.write = w, !.status = code,
                                !.body = body, !.locks = L]
<1>1. slot' = [slot EXCEPT ![s] = x] /\ acked' = acked /\ UNCHANGED tables
  BY ShapeOf DEF Ready, tables
<1> HIDE DEF L
<1>2. /\ x.body = body /\ x.known = slot[s].known /\ x.req = slot[s].req /\ x.n = slot[s].n
      /\ x.pc = "commit" /\ x.write = w /\ x.status = code
  BY ShapeOf DEF Fields
<1> HIDE DEF x
<1> QED BY <1>1, <1>2, ShapeOf DEF SameCall

LEMMA RollbackTells ==
  ASSUME IInv, NEW s \in Slots, NEW code, Rollback(s, code)
  PROVE  /\ slot'[s].body = slot[s].body /\ slot'[s].known = slot[s].known /\ acked' = acked
         /\ slot'[s].status = code
<1> DEFINE x == [slot[s] EXCEPT !.pc = "reply", !.status = code, !.conn = 0,
                                !.write = [t |-> "none"], !.locks = {}]
<1>1. slot' = [slot EXCEPT ![s] = x] /\ acked' = acked
  BY ShapeOf DEF Rollback
<1>2. x.body = slot[s].body /\ x.known = slot[s].known /\ x.status = code
  BY ShapeOf DEF Fields
<1> HIDE DEF x
<1> QED BY <1>1, <1>2, ShapeOf

LEMMA ReadySettles ==
  ASSUME IInv, FreshInv, NEW s \in Slots, Frame(s), slot[s].pc \in {"tx", "locked"},
         NEW w, NEW code, NEW body, Ready(s, w, code, body), Leaves(s, code, body),
         code = 201 => body = {slot[s].n}, w.t = "version" => VersionShape(w.row)
  PROVE  FreshInv'
<1> QED BY ReadyTells, SettleRule DEF Leaves

LEMMA RollbackSettles ==
  ASSUME IInv, FreshInv, NEW s \in Slots, slot[s].pc \in OpenPcs,
         NEW code \in {400, 404, 409, 500}, Rollback(s, code),
         code = 404 => slot[s].pc = "tx" /\ Leaves(s, 404, {})
  PROVE  FreshInv'
<1>1. /\ Frame(s) /\ UNCHANGED tables /\ SameCall(s)
      /\ slot'[s].pc = "reply" /\ slot'[s].write.t = "none" /\ slot'[s].status = code
      /\ slot'[s].body = slot[s].body /\ slot'[s].known = slot[s].known /\ acked' = acked
  BY RollbackUndoes, RollbackTells DEF Undoes, Ends, NoWrite, tables
<1>2. slot[s].pc = "tx" => slot[s].body = {}
  BY DEF FreshInv, TellOf
<1>3. code \in {200, 404} => Fresh(slot[s].req, slot'[s].body, slot[s].known)
  BY <1>1, <1>2 DEF Leaves
<1>4. code # 201
  OBVIOUS
<1> QED BY <1>1, <1>3, <1>4, SettleRule

(* Each handler. *)
LEMMA StoreFresh ==
  ASSUME IInv, FreshInv, NEW s \in Slots, Frame(s), handleStore(s) \/ handleLogAppend(s)
  PROVE  FreshInv'
<1>1. /\ slot[s].pc = "tx"
      /\ Rollback(s, 500) \/ \E w : Ready(s, w, 201, {slot[s].n}) /\ w.t # "version"
  <2>1. CASE handleStore(s)
    BY <2>1 DEF handleStore, InTx
  <2>2. CASE handleLogAppend(s)
    BY <2>2 DEF handleLogAppend, InTx
  <2> QED BY <2>1, <2>2
<1>2. CASE Rollback(s, 500)
  BY <1>1, <1>2, RollbackSettles DEF OpenPcs
<1>3. ASSUME NEW w, Ready(s, w, 201, {slot[s].n}), w.t # "version" PROVE FreshInv'
  BY <1>1, <1>3, ReadySettles DEF Leaves
<1> QED BY <1>1, <1>2, <1>3

LEMMA PutFresh ==
  ASSUME IInv, FreshInv, NEW s \in Slots, Frame(s), handlePutManifestVersion(s)
  PROVE  FreshInv'
<1> DEFINE r == slot[s].req
           w == [t |-> "version", row |-> [id |-> slot[s].n, manifest |-> r.id, no |-> r.no]]
<1>1. /\ slot[s].pc = "tx" /\ r.op = "putVersion"
      /\ \/ Rollback(s, 404) \/ Rollback(s, 409)
         \/ ManifestVisible(s, r.id) /\ Ready(s, w, 201, {slot[s].n})
  BY DEF handlePutManifestVersion, InTx
<1>2. CASE Rollback(s, 404) \/ Rollback(s, 409)
  BY <1>1, <1>2, NotARead, RollbackSettles DEF OpenPcs, Leaves, OtherOps
<1>3. CASE ManifestVisible(s, r.id) /\ Ready(s, w, 201, {slot[s].n})
  <2>1. VersionShape(w.row)
    BY <1>1, <1>3 DEF FreshInv, TellOf, VersionShape, ManifestVisible
  <2> QED BY <1>1, <1>3, <2>1, ReadySettles DEF Leaves
<1> QED BY <1>1, <1>2, <1>3

LEMMA InsertFresh ==
  ASSUME IInv, FreshInv, NEW s \in Slots, Frame(s),
         handleInsertWatchkeeper(s) \/ handleInsertHuman(s)
  PROVE  FreshInv'
<1>1. /\ slot[s].pc = "tx" /\ slot[s].req.op \in {"insertWatchkeeper", "insertHuman"}
      /\ \/ Rollback(s, 404) \/ Rollback(s, 500) \/ Rollback(s, 409)
         \/ \E w : Ready(s, w, 201, {slot[s].n}) /\ w.t # "version"
  BY DEF handleInsertWatchkeeper, handleInsertHuman, InTx
<1>2. CASE Rollback(s, 404) \/ Rollback(s, 500) \/ Rollback(s, 409)
  BY <1>1, <1>2, NotARead, RollbackSettles DEF OpenPcs, Leaves, OtherOps
<1>3. ASSUME NEW w, Ready(s, w, 201, {slot[s].n}), w.t # "version" PROVE FreshInv'
  BY <1>1, <1>3, ReadySettles DEF Leaves
<1> QED BY <1>1, <1>2, <1>3

LEMMA UpdateFresh ==
  ASSUME IInv, FreshInv, NEW s \in Slots, Frame(s),
         \/ handleUpdateWatchkeeperStatus(s) \/ Transition(s)
         \/ handleSetWatchkeeperLead(s) \/ LeadExists(s)
  PROVE  FreshInv'
<1>1. slot[s].pc \in {"tx", "locked"} /\ slot[s].req.op \in {"updateStatus", "setLead"}
  BY DEF handleUpdateWatchkeeperStatus, Transition, handleSetWatchkeeperLead, LeadExists, InTx
<1>2. \/ \E w, code : Ready(s, w, code, {}) /\ code # 201 /\ w.t # "version"
      \/ Rollback(s, 400)
      \/ slot[s].pc = "tx" /\ \E body : HasRow(s, body)
  <2> DEFINE E == \E w, code : Ready(s, w, code, {}) /\ code # 201 /\ w.t # "version"
  <2>1. ASSUME NEW code, code \in {400, 404}, Ready(s, NoWrite, code, {}) PROVE E
    BY <2>1 DEF NoWrite
  <2>2. ASSUME NEW i, NEW row, Ready(s, [t |-> "wk", id |-> i, row |-> row], 204, {}) PROVE E
    BY <2>2
  <2> HIDE DEF E
  <2>3. Transition(s) => E
    BY <2>1, <2>2 DEF Transition
  <2>4. LeadExists(s) => E \/ Rollback(s, 400)
    BY <2>2 DEF LeadExists
  <2>5. handleUpdateWatchkeeperStatus(s) \/ handleSetWatchkeeperLead(s) =>
          E \/ (slot[s].pc = "tx" /\ \E body : HasRow(s, body))
    BY <2>1 DEF handleUpdateWatchkeeperStatus, handleSetWatchkeeperLead, InTx
  <2> QED BY <2>3, <2>4, <2>5 DEF E
<1>3. ASSUME NEW w, NEW code, Ready(s, w, code, {}), code # 201, w.t # "version" PROVE FreshInv'
  BY <1>1, <1>3, NotARead, ReadySettles DEF Leaves, OtherOps
<1>4. CASE Rollback(s, 400)
  BY <1>1, <1>4, RollbackSettles DEF OpenPcs
<1>5. ASSUME slot[s].pc = "tx", NEW body, HasRow(s, body) PROVE FreshInv'
  <2>1. acked' = acked /\ UNCHANGED tables
    BY <1>5 DEF HasRow, tables
  <2>2. /\ slot'[s].pc = "locked" /\ slot'[s].known = slot[s].known /\ slot'[s].write = slot[s].write
        /\ SameCall(s)
    <3> DEFINE L == slot[s].locks \cup NextLocks(s)
               x == [slot[s] EXCEPT !.pc = "locked", !.body = body, !.locks = L]
    <3>1. slot' = [slot EXCEPT ![s] = x]
      BY <1>5, ShapeOf DEF HasRow
    <3> HIDE DEF L
    <3>2. /\ x.pc = "locked" /\ x.known = slot[s].known /\ x.write = slot[s].write
          /\ x.req = slot[s].req /\ x.n = slot[s].n
      BY ShapeOf DEF Fields
    <3> HIDE DEF x
    <3> QED BY <3>1, <3>2, ShapeOf DEF SameCall
  <2>4. Grows /\ TablesInv' /\ AckedInv'
    BY <2>1, StillGrows DEF FreshInv, AckedInv, Grows
  <2>5. TellOf(s)' /\ ReadOf(s)'
    BY <2>2, <2>4 DEF FreshInv, TellOf, ReadOf, Reading, Grows, VersionShape, SameCall
  <2> QED BY <2>4, <2>5, FreshRule
<1> QED BY <1>2, <1>3, <1>4, <1>5

LEMMA LookedUpFresh ==
  ASSUME IInv, FreshInv, NEW s \in Slots, Frame(s), LookedUp(s)
  PROVE  FreshInv'
<1>1. slot[s].pc = "tx"
  BY DEF LookedUp
<1>2. CASE Rollback(s, 404) /\ Leaves(s, 404, {})
  BY <1>1, <1>2, RollbackSettles DEF OpenPcs
<1>3. CASE Rollback(s, 500)
  BY <1>1, <1>3, RollbackSettles DEF OpenPcs
<1>4. ASSUME NEW body, Ready(s, NoWrite, 200, body), Leaves(s, 200, body) PROVE FreshInv'
  BY <1>1, <1>4, ReadySettles DEF NoWrite
<1> QED BY <1>2, <1>3, <1>4 DEF LookedUp

(* A call is made. *)
LEMMA DoFresh ==
  ASSUME IInv, FreshInv, NEW s \in Slots, NEW r \in Requests[s], do(s, r)
  PROVE  FreshInv'
<1> DEFINE x == IF ClientAccepts(r) /\ r.tok.form # "unavailable"
         THEN [Idle EXCEPT !.pc = "sent", !.req = r, !.n = calls + 1,
                           !.client = "waiting", !.known = acked]
         ELSE [Idle EXCEPT !.pc = "done", !.req = r, !.n = calls + 1]
<1>1. slot' = [slot EXCEPT ![s] = x] /\ acked' = acked /\ UNCHANGED tables
  BY DEF do, tables
<1>2. /\ x.pc \in {"sent", "done"} /\ x.req = r /\ x.status = 0 /\ x.body = {}
      /\ x.known \in {acked, {}} /\ x.write.t = "none"
  BY ZenonT(30) DEF Idle
<1> HIDE DEF x
<1>3. Frame(s) /\ slot'[s] = x
  BY <1>1, DoIsACall, ShapeOf DEF Calls
<1>4. Grows /\ TablesInv' /\ AckedInv'
  BY <1>1, StillGrows DEF FreshInv, AckedInv, Grows
<1>5. TellOf(s)' /\ ReadOf(s)'
  <2>1. \A id \in x.known : Made(id)'
    BY <1>2, <1>4 DEF FreshInv, AckedInv, Grows
  <2> QED BY <1>2, <1>3, <2>1, RequestsAssumption DEF TellOf, ReadOf, Reading
<1> QED BY <1>3, <1>4, <1>5, FreshRule

(* On the way to the transaction, and back. *)
LEMMA ArriveFresh == ASSUME IInv, FreshInv, NEW s \in Slots, Arrive(s) PROVE FreshInv'
<1> DEFINE code == First(AuthMiddleware(slot[s].req), Checked(slot[s].req))
<1>1. /\ slot' = [slot EXCEPT ![s].pc = IF code = 0 THEN "begin" ELSE "reply", ![s].status = code]
      /\ acked' = acked /\ UNCHANGED tables /\ slot[s].pc = "sent"
  BY DEF Arrive, tables
<1>2. Frame(s) /\ SameCall(s)
  BY <1>1, ArriveIsAMove DEF Moves, SameCall
<1>3. code \in Codes
  BY <1>1, CheckedCode, ShapeOf
<1> HIDE DEF code
<1>4. /\ slot'[s].pc \in {"begin", "reply"} /\ slot'[s].status = code
      /\ slot'[s].body = slot[s].body /\ slot'[s].known = slot[s].known
      /\ slot'[s].write = slot[s].write
  <2> DEFINE x == [slot[s] EXCEPT !.pc = IF code = 0 THEN "begin" ELSE "reply", !.status = code]
  <2>1. slot' = [slot EXCEPT ![s] = x]
    BY <1>1, ShapeOf
  <2>2. /\ x.pc \in {"begin", "reply"} /\ x.status = code
        /\ x.body = slot[s].body /\ x.known = slot[s].known /\ x.write = slot[s].write
    BY ShapeOf DEF Fields
  <2> HIDE DEF x
  <2> QED BY <2>1, <2>2, ShapeOf
<1>5. slot[s].body = {}
  BY <1>1 DEF FreshInv, TellOf
<1>6. ~Reading(s)' /\ slot'[s].status # 201
  BY <1>3, <1>4 DEF Reading, Codes
<1> QED BY <1>1, <1>2, <1>4, <1>5, <1>6, StillGrows, StepRule

LEMMA WithScopeFresh == ASSUME IInv, FreshInv, NEW s \in Slots, WithScope(s) PROVE FreshInv'
<1>1. PICK k \in Conns : slot' = [slot EXCEPT ![s].pc = "tx", ![s].conn = k]
  BY DEF WithScope
<1>2. acked' = acked /\ UNCHANGED tables /\ slot[s].pc = "begin"
  BY DEF WithScope, tables
<1>3. Frame(s) /\ SameCall(s)
  BY WithScopeTakes DEF Takes
<1>4. /\ slot'[s].pc = "tx" /\ slot'[s].body = slot[s].body /\ slot'[s].known = slot[s].known
      /\ slot'[s].write = slot[s].write
  <2> DEFINE x == [slot[s] EXCEPT !.pc = "tx", !.conn = k]
  <2>1. slot' = [slot EXCEPT ![s] = x]
    BY <1>1, ShapeOf
  <2>2. x.pc = "tx" /\ x.body = slot[s].body /\ x.known = slot[s].known /\ x.write = slot[s].write
    BY ShapeOf DEF Fields
  <2> HIDE DEF x
  <2> QED BY <2>1, <2>2, ShapeOf
<1>5. slot[s].body = {}
  BY <1>2 DEF FreshInv, TellOf
<1> QED BY <1>2, <1>3, <1>4, <1>5, StillGrows, StepRule DEF Reading

LEMMA CommitFresh ==
  ASSUME IInv, FreshInv, NEW s \in Slots, CommitOK(s) \/ CommitUnknown(s) PROVE FreshInv'
<1>1. PICK told \in BOOLEAN : Commit(s, told)
  BY DEF CommitOK, CommitUnknown
<1>2. /\ slot' = [slot EXCEPT ![s].pc = "reply", ![s].conn = 0, ![s].write = NoWrite,
                              ![s].locks = {}, ![s].status = IF told THEN @ ELSE 500]
      /\ acked' = acked /\ slot[s].pc = "commit"
  BY <1>1 DEF Commit
<1>3. Commits(s)
  BY CommitCommits
<1>4. Frame(s) /\ SameCall(s) /\ Grows /\ TablesInv'
  <2>1. Frame(s) /\ SameCall(s)
    BY <1>3 DEF Commits, Ends
  <2>2. Grows /\ TablesInv'
    BY <1>3, CommitGrows
  <2> QED BY <2>1, <2>2
<1>5. /\ slot'[s].pc = "reply" /\ slot'[s].body = slot[s].body /\ slot'[s].known = slot[s].known
      /\ slot'[s].write.t = "none" /\ slot'[s].status \in {slot[s].status, 500}
  <2>1. slot'[s].body = slot[s].body /\ slot'[s].known = slot[s].known
    <3>1. slot = [p \in Slots |-> slot[p]] /\ slot[s] = [f \in Fields |-> slot[s][f]]
      BY ShapeOf
    <3> QED BY <1>2, <3>1 DEF Fields
  <2> QED BY <1>3, <2>1 DEF Commits, Ends, NoWrite
<1>6. /\ Reading(s)' => Reading(s)
      /\ slot'[s].status = 201 => slot[s].status = 201
  BY <1>2, <1>5 DEF Reading
<1> QED BY <1>2, <1>4, <1>5, <1>6, StepRule

LEMMA EndsFresh ==
  ASSUME IInv, FreshInv, NEW s \in Slots, BeginFails(s) \/ Lost(s) \/ NobodyThere(s)
  PROVE  FreshInv'
<1>0. /\ slot = [p \in Slots |-> slot[p]] /\ slot[s] = [f \in Fields |-> slot[s][f]]
      /\ TellOf(s)
  BY ShapeOf DEF FreshInv
<1>1. Frame(s) /\ acked' = acked /\ UNCHANGED tables
  BY EndsOfACall DEF Moves, GivesUp, BeginFails, Lost, NobodyThere, tables
<1>2. Grows /\ TablesInv'
  BY <1>1, StillGrows
<1>3. CASE BeginFails(s)
  <2>1. slot' = [slot EXCEPT ![s].pc = "reply", ![s].status = 500]
    BY <1>3 DEF BeginFails
  <2>2. /\ slot'[s].pc = "reply" /\ slot'[s].status = 500 /\ slot'[s].req = slot[s].req
        /\ slot'[s].n = slot[s].n /\ slot'[s].body = slot[s].body
        /\ slot'[s].known = slot[s].known /\ slot'[s].write = slot[s].write
    <3> DEFINE x == [slot[s] EXCEPT !.pc = "reply", !.status = 500]
    <3>1. slot' = [slot EXCEPT ![s] = x]
      BY SMTT(20), ZenonT(30), <1>0, <2>1
    <3>2. /\ x.pc = "reply" /\ x.status = 500 /\ x.req = slot[s].req /\ x.n = slot[s].n
          /\ x.body = slot[s].body /\ x.known = slot[s].known /\ x.write = slot[s].write
      BY <1>0 DEF Fields
    <3> HIDE DEF x
    <3> QED BY <1>0, <3>1, <3>2
  <2> QED BY <1>1, <1>2, <2>2, StepRule DEF Reading, SameCall
<1>4. CASE Lost(s)
  <2>1. slot' = [slot EXCEPT ![s].client = "gone", ![s].pc = IF @ = "sent" THEN "done" ELSE @]
    BY <1>4 DEF Lost
  <2>2. /\ slot'[s].pc = (IF slot[s].pc = "sent" THEN "done" ELSE slot[s].pc)
        /\ slot'[s].status = slot[s].status /\ slot'[s].req = slot[s].req
        /\ slot'[s].n = slot[s].n /\ slot'[s].body = slot[s].body
        /\ slot'[s].known = slot[s].known /\ slot'[s].write = slot[s].write
    BY <1>0, <2>1 DEF Fields
  <2>3. slot[s].pc = "sent" => slot[s].status = 0
    BY DEF IInv, AckInv, AckOf
  <2> QED BY <1>0, <1>1, <1>2, <2>2, <2>3, StepRule DEF Reading, SameCall, TellOf
<1>5. CASE NobodyThere(s)
  <2>1. slot' = [slot EXCEPT ![s].pc = "done", ![s].status = 0, ![s].body = {}]
    BY <1>5 DEF NobodyThere
  <2>2. /\ slot'[s].pc = "done" /\ slot'[s].status = 0 /\ slot'[s].req = slot[s].req
        /\ slot'[s].known = slot[s].known /\ slot'[s].write = slot[s].write
    BY <1>0, <2>1 DEF Fields
  <2>3. TellOf(s)' /\ ReadOf(s)'
    BY <1>0, <1>2, <2>2 DEF TellOf, ReadOf, Reading, Grows, VersionShape
  <2>4. AckedInv'
    BY <1>1, <1>2 DEF FreshInv, AckedInv, Grows
  <2> QED BY <1>1, <1>2, <2>3, <2>4, FreshRule
<1> QED BY <1>3, <1>4, <1>5

LEMMA AnswerFresh == ASSUME IInv, FreshInv, NEW s \in Slots, Answer(s) PROVE FreshInv'
<1>1. /\ slot[s].pc = "reply" /\ UNCHANGED tables
      /\ acked' = IF slot[s].status = 201 THEN acked \cup slot[s].body ELSE acked
  BY DEF Answer, tables
<1>2. Grows /\ TablesInv'
  BY <1>1, StillGrows
<1>3. TellOf(s) /\ ReadOf(s) /\ AckedInv
  BY DEF FreshInv
<1>4. AckedInv'
  <2>1. slot[s].status = 201 => slot[s].body = {slot[s].n} /\ Made(slot[s].n)
    BY <1>1, <1>3 DEF TellOf, IInv, AckInv, AckOf
  <2> QED BY <1>1, <1>2, <1>3, <2>1 DEF AckedInv, Grows
<1>5. Frame(s)
  BY EndsOfACall DEF Moves, GivesUp
<1>6. CASE /\ slot[s].req.op = "insertWatchkeeper" /\ slot[s].status = 201
           /\ slot[s].req.spawn
  <2> DEFINE x == [Idle EXCEPT !.pc = "sent", !.req = Spawn(slot[s].req, slot[s].n),
                         !.n = slot[s].n, !.client = "waiting", !.known = acked']
  <2>1. slot' = [slot EXCEPT ![s] = x]
    BY <1>6 DEF Answer
  <2>2. /\ x.pc = "sent" /\ x.req.op = "updateStatus" /\ x.status = 0 /\ x.body = {}
        /\ x.known = acked' /\ x.write.t = "none"
    BY DEF Idle, Spawn
  <2> HIDE DEF x
  <2>3. slot'[s] = x
    BY <2>1, ShapeOf
  <2>4. TellOf(s)' /\ ReadOf(s)'
    BY <1>4, <2>2, <2>3 DEF TellOf, ReadOf, Reading, AckedInv
  <2> QED BY <1>2, <1>4, <1>5, <2>4, FreshRule
<1>7. CASE ~(/\ slot[s].req.op = "insertWatchkeeper" /\ slot[s].status = 201
             /\ slot[s].req.spawn)
  <2> DEFINE x == [slot[s] EXCEPT !.pc = "done", !.client = "gone"]
  <2>1. slot' = [slot EXCEPT ![s] = x]
    BY <1>7 DEF Answer
  <2>2. /\ x.pc = "done" /\ x.req = slot[s].req /\ x.status = slot[s].status
        /\ x.body = slot[s].body /\ x.known = slot[s].known /\ x.write = slot[s].write
    BY ShapeOf DEF Fields
  <2> HIDE DEF x
  <2>3. slot'[s] = x
    BY <2>1, ShapeOf
  <2>4. TellOf(s)'
    BY <1>2, <1>3, <2>2, <2>3 DEF TellOf, Grows, VersionShape
  <2>5. ReadOf(s)'
    <3>1. PICK r, body, known : r = slot[s].req /\ body = slot[s].body /\ known = slot[s].known
      OBVIOUS
    <3>2. Reading(s) => Fresh(r, body, known)'
      BY <1>2, <1>3, <3>1, FreshStays DEF ReadOf, TellOf, FreshInv
    <3> QED BY <1>1, <2>2, <2>3, <3>1, <3>2 DEF ReadOf, Reading
  <2> QED BY <1>2, <1>4, <1>5, <2>4, <2>5, FreshRule
<1> QED BY <1>6, <1>7

LEMMA FreshStep == IInv /\ FreshInv /\ [Next]_vars => FreshInv'
<1> SUFFICES ASSUME IInv, FreshInv, [Next]_vars PROVE FreshInv'
  OBVIOUS
<1>1. CASE UNCHANGED vars
  <2>1. UNCHANGED tables /\ slot' = slot /\ acked' = acked
    BY <1>1 DEF vars
  <2>2. Grows /\ TablesInv'
    BY <2>1, StillGrows
  <2>3. AckedInv'
    BY <2>1, <2>2 DEF FreshInv, AckedInv, Grows
  <2>4. ASSUME NEW s \in Slots PROVE TellOf(s)' /\ ReadOf(s)'
    <3>1. TellOf(s) /\ ReadOf(s) /\ TablesInv
      BY DEF FreshInv
    <3>2. PICK r, body, known : r = slot[s].req /\ body = slot[s].body /\ known = slot[s].known
      OBVIOUS
    <3>3. Reading(s) => Fresh(r, body, known)'
      BY <2>2, <3>1, <3>2, FreshStays DEF ReadOf, TellOf
    <3> QED BY <2>1, <2>2, <3>1, <3>2, <3>3 DEF ReadOf, Reading, TellOf, Grows, VersionShape
  <2> QED BY <2>2, <2>3, <2>4 DEF FreshInv
<1>2. ASSUME NEW s \in Slots, Handler(s) PROVE FreshInv'
  <2>1. Frame(s)
    BY <1>2, HandlerIsAKind DEF Locks, Readies, Undoes, Ends
  <2> QED BY <1>2, <2>1, StoreFresh, PutFresh, InsertFresh, UpdateFresh, LookedUpFresh, LookupFinds,
            ManifestFinds, SearchFinds, TailFinds, ListFinds, RollupFinds DEF Handler, Statement
<1>3. ASSUME NEW s \in Slots, StatementFails(s) PROVE FreshInv'
  BY <1>3, RollbackSettles DEF StatementFails, OpenPcs
<1> QED BY <1>1, <1>2, <1>3, DoFresh, ArriveFresh, WithScopeFresh, CommitFresh, EndsFresh, AnswerFresh
        DEF Next, Serve, Faults

(* FreshReads: what a caller was told of it finds in its later reads, newest *)
(* versions and counts included, and it sees its own scope only.             *)
THEOREM ReadsAreFresh == Spec => []FreshReads
<1>1. FreshInv => FreshReads
  BY DEF FreshInv, ReadOf, Reading, Fresh, FreshReads
<1> QED BY <1>1, InitIInv, InitFresh, InvStep, FreshStep, PTL DEF Spec
-----------------------------------------------------------------------------
(* Waiting *)

(* Who waits for a lock waits for one that holds its row already and is     *)
(* past that wait.                                                          *)
LEMMA WaitsForLater ==
  ASSUME IInv, NEW s \in Slots, slot[s].pc \in {"tx", "locked"}, NEW p \in BlockedBy(s)
  PROVE  slot[s].pc = "tx" /\ p \in Slots /\ slot[p].pc \in {"locked", "commit"}
<1>1. PICK a \in NextLocks(s), b \in slot[p].locks : p \in Slots /\ Conflict(a, b)
  BY DEF BlockedBy
<1>2. slot[p].pc \in {"locked", "commit"}
  BY <1>1, ShapeOf DEF LocksOf
<1>3. CASE slot[s].pc = "locked"
  <2>1. slot[s].req.op = "setLead" /\ a = Lock("share", <<"human", slot[s].req.lead>>)
    BY <1>1, <1>3 DEF NextLocks, InTx
  <2>2. b.row = <<"human", slot[s].req.lead>>
    BY <1>1, <2>1 DEF Conflict, Lock
  <2>3. b.row[1] = "human"
    BY <2>2
  <2>4. b.mode = "share"
    BY <1>1, <2>3, ShapeOf DEF LocksOf, Shared
  <2> QED BY <1>1, <2>1, <2>4 DEF Conflict, Lock
<1> QED BY <1>1, <1>2, <1>3

(* NoDeadlock: of any callers the one furthest on can go on without the     *)
(* others.                                                                  *)
THEOREM NoDeadlocks == Spec => []NoDeadlock
<1>1. IInv => NoDeadlock
  <2> SUFFICES ASSUME IInv, NEW W \in (SUBSET Slots) \ {{}}
               PROVE  \E s \in W : ~Stuck(s, W)
    BY DEF NoDeadlock
  <2>1. CASE \E s \in W : slot[s].pc \notin {"begin", "tx"}
    <3>1. PICK s \in W : slot[s].pc \notin {"begin", "tx"}
      BY <2>1
    <3> QED BY <3>1, WaitsForLater DEF Stuck
  <2>2. CASE /\ \A s \in W : slot[s].pc \in {"begin", "tx"}
             /\ \E s \in W : slot[s].pc = "tx"
    <3>1. PICK s \in W : slot[s].pc = "tx"
      BY <2>2
    <3> QED BY <2>2, <3>1, WaitsForLater DEF Stuck
  <2>3. CASE \A s \in W : slot[s].pc = "begin"
    <3>1. PICK s \in W : TRUE
      OBVIOUS
    <3> SUFFICES ASSUME Stuck(s, W) PROVE FALSE
      BY <3>1
    <3>2. \A k \in Conns : conn[k].by # 0 /\ \A p \in Slots \ W : slot[p].conn # k
      BY <2>3, <3>1 DEF Stuck
    <3>3. 1 \in Conns
      BY PoolAssumption DEF Conns
    <3>4. \A p \in W : slot[p].conn = 0
      BY <2>3 DEF IInv, ConnInv, ConnOf, OpenPcs
    <3>5. \A p \in Slots : slot[p].conn # 1
      BY <3>2, <3>3, <3>4
    <3>6. conn[1] = Free
      BY <3>3, <3>5 DEF IInv, ConnInv
    <3> QED BY <3>2, <3>3, <3>6 DEF Free
  <2> QED BY <2>1, <2>2, <2>3
<1> QED BY <1>1, Invariance, PTL
=============================================================================
