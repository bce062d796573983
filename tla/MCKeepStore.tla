----------------------------- MODULE MCKeepStore -----------------------------
(* Two organizations, a watchkeeper of the first that is active and one     *)
(* that is pending, a manifest each.  Three workloads: two callers meet on  *)
(* the same rows with requests of every kind; three callers share two       *)
(* connections and want each other's locks; one writes what another reads.  *)
EXTENDS KeepStore

tok(load, scope, org) ==
  [form |-> "jwt", signed |-> TRUE, iss |-> "keep", fresh |-> TRUE, scope |-> scope,
   org |-> org, who |-> IF scope = "user" THEN 11 ELSE 21, load |-> load]
A == tok("meet", "org", "a")
B == tok("meet", "agent", "b")
U == tok("meet", "user", "a")

MCHumans == 11 :> [org |-> "a", slack |-> "s1"] @@ 12 :> [org |-> "b", slack |-> NoSlack]
              @@ 13 :> [org |-> "a", slack |-> NoSlack]
row(status) == [lead |-> 11, status |-> status, spawned |-> 0, retired |-> 0, archive |-> "null"]
MCWks == 21 :> row("active") @@ 22 :> row("pending")
MCManifests == 31 :> "a" @@ 32 :> "b"

base == [raw |-> FALSE, flaw |-> "none", spawn |-> FALSE]
store(t) == [op |-> "store", tok |-> t] @@ base
append(t, who, m, c) == [op |-> "logAppend", tok |-> t, cost |-> c, agent |-> who, model |-> m] @@ base
put(t, m, no) == [op |-> "putVersion", tok |-> t, id |-> m, no |-> no] @@ base
insert(t, lead, sp, m) ==
  [op |-> "insertWatchkeeper", tok |-> t, lead |-> lead, spawn |-> sp, manifest |-> m] @@ base
status(t, id, v, a) == [op |-> "updateStatus", tok |-> t, id |-> id, val |-> v, archive |-> a] @@ base
lead(t, id, h) == [op |-> "setLead", tok |-> t, id |-> id, lead |-> h] @@ base
person(t, org, sl) == [op |-> "insertHuman", tok |-> t, org |-> org, slack |-> sl] @@ base
lookup(t, sl) == [op |-> "lookupHuman", tok |-> t, slack |-> sl] @@ base
search(t, n) == [op |-> "search", tok |-> t, n |-> n] @@ base
get(t, m) == [op |-> "getManifest", tok |-> t, id |-> m] @@ base
tail(t, n) == [op |-> "logTail", tok |-> t, n |-> n] @@ base
one(t, id) == [op |-> "getWatchkeeper", tok |-> t, id |-> id] @@ base
list(t, v, n) == [op |-> "listWatchkeepers", tok |-> t, val |-> v, n |-> n] @@ base
cost(t, f, to, g) ==
  [op |-> "costRollups", tok |-> t, agent |-> "x", from |-> f, to |-> to, val |-> g] @@ base

bad(r, f) == [r EXCEPT !.flaw = f]
unchecked(r, f) == [r EXCEPT !.flaw = f, !.raw = TRUE]
withTok(r, f, v) == [r EXCEPT !.tok = f :> v @@ @]

\* The first caller writes; the second writes to the same rows and reads.
First1 ==
  { store(U), append(A, "x", "m", 1), put(A, 31, 1), insert(A, 11, TRUE, 31), person(A, "a", "s2"),
    status(A, 21, "retired", "absent"), status(A, 22, "active", "absent"), lead(A, 21, 12) }
Second ==
  { put(A, 31, 1), put(B, 31, 1), insert(A, 12, FALSE, 31), person(A, "a", "s2"),
    status(A, 21, "retired", "uri"), status(B, 21, "retired", "absent"), lead(A, 21, 12),
    status(A, 22, "retired", "absent"), append(U, "x", "m", 0),
    lookup(B, "s2"), search(U, 2), search(tok("meet", "agent:name", "b"), 2), get(A, 31), get(B, 31),
    tail(A, 1), one(B, 22), list(A, "any", 1), cost(A, 0, 3, "weekly") }
Refusals ==
  { bad(store(U), "empty"), unchecked(store(U), "shape"), unchecked(store(U), "type"),
    unchecked(store(U), "large"), unchecked(store(U), "body"),
    withTok(store(U), "fresh", FALSE), withTok(store(U), "form", "unavailable"),
    append(tok("meet", "agent:name", "a"), "x", "m", 1),
    withTok(append(U, "x", "m", 0), "who", 19),
    insert(A, 11, FALSE, 39), put(tok("meet", "org", NoOrg), 31, 1), person(A, "b", "s2"), lead(A, 22, 19),
    status(A, 21, "active", "uri"), unchecked(get(A, 31), "shape"), cost(A, 3, 1, "daily") }

\* Every kind of lock and key that two callers may want.
W == tok("wait", "org", "a")
Wait ==
  << {status(W, 21, "retired", "absent"), person(W, "a", "s2")},
     {lead(W, 21, 11), append(tok("wait", "agent", "a"), "x", "m", 0), insert(W, 11, FALSE, 31)},
     {lead(W, 21, 13), person(W, "a", "s2"), put(W, 31, 1)} >>

\* Calls of two agents and two models, a chunk, and their readers.
R == tok("read", "user", "a")
Read ==
  << {append(R, "x", "m", 1), append(R, "x", "k", 2), append(R, "y", "m", 1), store(R)},
     {cost(R, 0, 4, "weekly"), tail(R, 2), search(R, 2), append(R, "x", "m", 1)} >>

MCRequests ==
  1 :> First1 \cup Wait[1] \cup Read[1] @@
  2 :> Second \cup Refusals \cup Wait[2] \cup Read[2] @@
  3 :> Wait[3]

\* The first call chooses the workload.
Called(s) == slot[s].n # 0
Load(s) == slot[s].req.tok.load
Bounds == [meet |-> <<2, 1>>, wait |-> <<3, 0>>, read |-> <<3, 0>>]
OneWorkload ==
  \A s, p \in Slots : Called(s)' /\ (Called(p) \/ Called(p)') =>
    /\ Called(p) => Load(s)' = Load(p)
    /\ Called(p)' => Load(s)' = Load(p)'
    /\ calls' <= Bounds[Load(s)'][1] /\ faults' <= Bounds[Load(s)'][2]
=============================================================================
