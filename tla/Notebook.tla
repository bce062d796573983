------------------------------ MODULE Notebook ------------------------------
(***************************************************************************)
(* One agent's notebook: the SQLite file with its entry and entry_vec      *)
(* tables, the calls on a *DB, the supervisor that hands out the handle,   *)
(* the archives written at retirement and by the backup loop, and the      *)
(* import of an archive into an empty notebook, by any goroutine, whoever  *)
(* else has the notebook open.                                             *)
(*   core/pkg/notebook, core/pkg/archivestore,                             *)
(*   core/pkg/runtime/notebook_supervisor*.go                              *)
(*   core/pkg/coordinator/{list_pending_lessons,forget_dm_handler}.go      *)
(*                                                                         *)
(* SQLite is external: a handle has one connection, so its statements and  *)
(* transactions take turns; writers of two handles on one file take turns; *)
(* a transaction that read before another handle's commit cannot write; a  *)
(* handle keeps the file it opened when another is renamed over its path;  *)
(* what a file holds is uncertain to whoever opens it after its log was    *)
(* removed under an open handle.                                           *)
(* Every statement, file operation and log call may fail, and the process  *)
(* may crash.  A "flaw" marks a call its own checks refuse.                *)
(***************************************************************************)
EXTENDS Integers, Sequences, FiniteSets, FiniteSetsExt, SequencesExt, Functions, TLC

CONSTANTS
  Slots,      \* goroutines that make calls
  Jobs,       \* Jobs[n]: the calls the n-th caller may choose from
  Starts,     \* rows of the entry table at the start: id -> row
  Archive0,   \* archives in the store at the start: name -> archive
  Stores,     \* the archive stores tried: "localfs", "s3"
  Current,    \* the boot check's currentVersions: tool -> version
  MaxTopK,    \* maxTopK
  MaxPending, \* maxPendingLessons
  MaxTime,    \* bound: the clock
  MaxTicks,   \* bound: ticks of a backup loop
  MaxFaults   \* bound: failures and crashes

Chunks == 2       \* an archive passes through the pipe in this many pieces
NewId(n) == 10 + n
With(f, k, v) == [x \in DOMAIN f \union {k} |-> IF x = k THEN v ELSE f[x]]

\* A row of the entry table: what the queries look at.
Rows == [cat : STRING, sup : Int, active : Int, review : BOOLEAN, tool : STRING, ver : STRING]
TxOps == {"remember", "forget", "forgetDM"}
QueryOps == {"recall", "counts", "listPending", "stats", "mark", "clear", "promote"}

\* UUIDs: a new entry's id is not that of an old one.
Minted == {NewId(n) : n \in 1..Len(Jobs)}
Entries(e) == e \in [DOMAIN e -> Rows] /\ DOMAIN e \intersect Minted = {}

ASSUME JobsAssumption ==
  /\ Jobs \in Seq(Range(Jobs))
  /\ \A n \in DOMAIN Jobs : \A j \in Jobs[n] :
       /\ j.op \in TxOps \union QueryOps \union
                   {"flag", "archive", "backup", "import", "supOpen", "supClose"}
       /\ j.op = "remember" /\ j.flaw = "none" => j.row \in Rows
ASSUME StartsAssumption == \A e \in Starts : Entries(e)
\* The archives there are were put by another run, or do not hold a notebook.
ASSUME Archive0Assumption ==
  /\ Archive0 = [a \in DOMAIN Archive0 |-> Archive0[a]]
  /\ \A a \in DOMAIN Archive0 : LET z == Archive0[a] IN
       /\ z = [whole |-> z.whole, schema |-> z.schema, full |-> z.full, snap |-> z.snap, by |-> 0]
       /\ z.whole => z.full
       /\ z.snap = [entry |-> z.snap.entry, vec |-> z.snap.vec]
       /\ Entries(z.snap.entry) /\ (z.schema => DOMAIN z.snap.entry = z.snap.vec)

VARIABLES
  inode,   \* the database files made so far: entry rows and vector rows
  path,    \* the file the agent's path names
  handle,  \* the *DB values made so far
  dbs,     \* NotebookSupervisor.dbs for the agent: a handle or 0
  slot,    \* each goroutine's call
  store,   \* which archive store is configured (settled by the first Put)
  arch,    \* the archives in the store: name -> archive
  audit,   \* rows in Keeper's Log
  made,    \* calls made
  now,     \* the clock: milliseconds for rows, seconds for archive names
  faults,  \* failures so far
  told     \* history, of each file: what callers have been told was kept, is
           \* gone or is flagged, what was undone, and the files torn by an import

vars == <<inode, path, handle, dbs, slot, store, arch, audit, made, now, faults, told>>

Idle == [pc |-> "idle", job |-> [op |-> "none"], n |-> 0, at |-> 0, h |-> 0, view |-> [entry |-> <<>>, vec |-> {}],
         seen |-> {}, out |-> {}, gone |-> {}, flagged |-> {},
         a |-> "none", p |-> "none", got |-> 0, name |-> 0, ticks |-> 0]

Init ==
  /\ \E e \in Starts :
       /\ inode = <<[entry |-> e, vec |-> DOMAIN e]>> /\ path = 1
       /\ IF e = <<>> THEN handle = <<>> /\ dbs = 0
                      ELSE handle = <<[open |-> TRUE, file |-> 1, tx |-> 0]>> /\ dbs = 1
       /\ told = [kept |-> <<DOMAIN e>>, undone |-> <<{}>>, gone |-> <<{}>>, flagged |-> <<{}>>,
                  torn |-> {}, uris |-> {}, clash |-> {}]
  /\ slot = [s \in Slots |-> Idle]
  /\ store = "unset" /\ arch = Archive0
  /\ audit = {} /\ made = 0 /\ now = 0 /\ faults = 0

----------------------------------------------------------------------------
(* What the statements compute over a file's tables.                       *)

CanFail == faults < MaxFaults
File(s) == handle[slot[s].h].file
Tables(s) == inode[File(s)]

\* The row Remember inserts: validated, with its id and creation time.
validate(job) == job.flaw = "none"

\* Remember: both rows, or neither; the entry it is superseded by must exist.
RememberOK(c, id, row) == id \notin DOMAIN c.entry /\ (row.sup # 0 => row.sup \in DOMAIN c.entry)
Remember(c, id, row) == [entry |-> With(c.entry, id, row), vec |-> c.vec \union {id}]

\* Forget: an entry that supersedes another cannot be deleted (foreign key).
Referenced(c, id) == \E i \in DOMAIN c.entry \ {id} : c.entry[i].sup = id
ForgetOK(c, id) == id \in DOMAIN c.entry /\ ~Referenced(c, id)
Forget(c, id) == [entry |-> Restrict(c.entry, DOMAIN c.entry \ {id}), vec |-> c.vec \ {id}]

\* ForgetPendingLesson: only a lesson that is not superseded and still cooling off.
ForgetPendingLesson(c, id, t) ==
  /\ id \in DOMAIN c.entry
  /\ c.entry[id].cat = "lesson" /\ c.entry[id].sup = 0 /\ c.entry[id].active > t

\* Recall: the nearest vectors first, the filters after.
Closer(q, i, j) == IF q = "low" THEN i < j ELSE i > j
Knn(c, q, k) == {i \in c.vec : Cardinality({j \in c.vec : Closer(q, j, i)}) < k}
\* Mutant: the needs_review filter is missing.
BugRecallFlagged(c, job, t) ==
  {i \in Knn(c, job.near, Min({job.k, MaxTopK})) \intersect DOMAIN c.entry :
     c.entry[i].sup = 0 /\ c.entry[i].active <= t /\ job.cat \in {"any", c.entry[i].cat}}
Recall(c, job, t) ==
  {i \in Knn(c, job.near, Min({job.k, MaxTopK})) \intersect DOMAIN c.entry :
     /\ c.entry[i].sup = 0 /\ c.entry[i].active <= t /\ ~c.entry[i].review
     /\ job.cat \in {"any", c.entry[i].cat}}

\* RecallFilterCounts: two counts in two statements.
RecallFilterCounts(c, t, which) ==
  {i \in DOMAIN c.entry :
     /\ c.entry[i].sup = 0
     /\ IF which = 1 THEN ~c.entry[i].review /\ c.entry[i].active > t ELSE c.entry[i].review}

\* PendingLessons: the soonest active first, at most the limit.
Sooner(c, i, j) ==
  \/ c.entry[i].active < c.entry[j].active
  \/ c.entry[i].active = c.entry[j].active /\ i < j
PendingLessons(c, t, limit) ==
  LET rows == {i \in DOMAIN c.entry : /\ c.entry[i].cat = "lesson" /\ c.entry[i].sup = 0
                                      /\ ~c.entry[i].review /\ c.entry[i].active > t}
  IN  {i \in rows : Cardinality({j \in rows : Sooner(c, j, i)}) < Min({limit, MaxPending})}

\* Stats: totals in one statement, the categories in a second, one clock reading.
Stats(c, t) == {i \in DOMAIN c.entry : c.entry[i].sup = 0 /\ c.entry[i].active <= t}

\* FlagSupersededLessons: the candidates, and which of them are outdated.
flagCandidates(c) ==
  {i \in DOMAIN c.entry : /\ c.entry[i].cat = "lesson" /\ c.entry[i].sup = 0
                          /\ c.entry[i].ver # "none" /\ ~c.entry[i].review}
extractToolNameFromSubject(row) == row.tool # "none"
outdated(row) ==
  /\ extractToolNameFromSubject(row)
  /\ ~(row.tool \in DOMAIN Current /\ Current[row.tool] = row.ver)

setNeedsReview(c, id, value) == [c EXCEPT !.entry[id].review = value]

----------------------------------------------------------------------------
(* The calls: how one begins, fails and ends.                              *)

Free(s) == slot[s].pc \in {"idle", "done"}

\* The slot when its call has ended with this answer.
Ended(s, out) == [Idle EXCEPT !.pc = "done", !.out = out, !.job = slot[s].job,
                              !.gone = slot[s].gone, !.flagged = slot[s].flagged]
End(s, out) == slot' = [slot EXCEPT ![s] = Ended(s, out)]
Release(s) == handle' = [handle EXCEPT ![slot[s].h].tx = 0]

\* list_pending_lessons refuses a limit out of range, then asks the notebook.
ListPendingLessonsHandler(job) == job.op = "listPending" => validate(job) /\ job.k \in 1..MaxPending
\* The forget command: a DM without the prefix is not one; the id must be a UUID.
matchForgetPrefix(job) == job.text = "forget"
ForgetDMHandle(job) == job.op = "forgetDM" => matchForgetPrefix(job) /\ validate(job)
\* Recall and the counts refuse k <= 0 and a wrong dimension.
recallChecks(job) == job.op \in {"recall", "counts"} => validate(job) /\ job.k > 0

Accepts(job) ==
  /\ ListPendingLessonsHandler(job) /\ ForgetDMHandle(job) /\ recallChecks(job)
  /\ job.op \in {"remember", "forget", "mark", "clear", "promote", "archive", "backup", "import"} => validate(job)

FirstPc(job) ==
  CASE job.op \in TxOps -> "begin"
    [] job.op \in QueryOps -> "query"
    [] job.op = "flag" -> "flagSelect"
    [] job.op = "archive" -> "arc"
    [] job.op = "backup" -> "tick"
    [] job.op = "import" -> "fetch"
    [] job.op = "supOpen" -> "supOpen"
    [] job.op = "supClose" -> "supClose"

NeedsHandle(job) == job.op \notin {"import", "supOpen", "supClose"}

\* What a call on this file must respect: what was forgotten or flagged before.
Past(f) == IF f \in told.torn THEN [gone |-> {}, flagged |-> {}]
                              ELSE [gone |-> told.gone[f], flagged |-> told.flagged[f]]

\* A caller looks the handle up (NotebookSupervisor.Lookup) and calls.  An
\* import opens a handle of its own.
Lookup(s, job) ==
  /\ Free(s) /\ \A r \in Slots : Free(r) => s <= r
  /\ made < Len(Jobs) /\ job \in Jobs[made + 1] /\ made' = made + 1
  /\ slot' = [slot EXCEPT ![s] =
       IF ~Accepts(job) \/ (NeedsHandle(job) /\ dbs = 0)
         THEN [Idle EXCEPT !.pc = "done", !.job = job]
       ELSE IF NeedsHandle(job)
         THEN [Idle EXCEPT !.pc = FirstPc(job), !.job = job, !.n = made + 1, !.at = now, !.h = dbs,
                           !.gone = Past(handle[dbs].file).gone,
                           !.flagged = Past(handle[dbs].file).flagged,
                           !.a = "vacuum", !.p = "copy"]
       ELSE [Idle EXCEPT !.pc = FirstPc(job), !.job = job, !.n = made + 1]]
  /\ UNCHANGED <<inode, path, handle, dbs, store, arch, audit, now, faults, told>>

\* No other handle holds the file's write lock.
Unlocked(s) == \A r \in Slots \ {s} : slot[r].pc = "commit" => File(r) # File(s)
ConnFree(s) == handle[slot[s].h].tx = 0

\* A transaction begins when the handle's connection is free.
BeginTx(s) ==
  /\ slot[s].pc = "begin"
  /\ IF handle[slot[s].h].open
       THEN /\ ConnFree(s)
            /\ handle' = [handle EXCEPT ![slot[s].h].tx = s]
            /\ slot' = [slot EXCEPT ![s].pc = IF slot[s].job.op = "forgetDM" THEN "read" ELSE "write"]
       ELSE End(s, {}) /\ UNCHANGED handle
  /\ UNCHANGED <<inode, path, dbs, store, arch, audit, made, now, faults, told>>

\* ForgetPendingLesson reads the row before it writes; the others do not.
ReadInTx(s) ==
  /\ slot[s].pc = "read"
  /\ slot' = [slot EXCEPT ![s].pc = "write", ![s].view = Tables(s)]
  /\ UNCHANGED <<inode, path, handle, dbs, store, arch, audit, made, now, faults, told>>

\* The two inserts, or the two deletes, of the transaction.
CanWrite(s) ==
  LET j == slot[s].job
  IN  CASE j.op = "remember" -> RememberOK(Tables(s), NewId(slot[s].n), j.row)
        [] j.op = "forget"   -> ForgetOK(Tables(s), j.id)
        [] j.op = "forgetDM" -> /\ ForgetPendingLesson(slot[s].view, j.id, slot[s].at)
                                /\ Tables(s) = slot[s].view /\ ForgetOK(Tables(s), j.id)
Written(s) ==
  LET j == slot[s].job
  IN  IF j.op = "remember" THEN Remember(Tables(s), NewId(slot[s].n), j.row)
                           ELSE Forget(Tables(s), j.id)

WriteInTx(s) ==
  /\ slot[s].pc = "write" /\ Unlocked(s)
  /\ IF CanWrite(s) THEN /\ slot' = [slot EXCEPT ![s].pc = "commit", ![s].view = Written(s)]
                         /\ UNCHANGED handle
                    ELSE End(s, {}) /\ Release(s)
  /\ UNCHANGED <<inode, path, dbs, store, arch, audit, made, now, faults, told>>

Target(s) == IF slot[s].job.op = "remember" THEN NewId(slot[s].n) ELSE slot[s].job.id

Commit(s) ==
  /\ slot[s].pc = "commit"
  /\ inode' = [inode EXCEPT ![File(s)] = slot[s].view]
  /\ Release(s)
  /\ told' = IF slot[s].job.op = "remember" THEN told
             ELSE [told EXCEPT !.kept[File(s)] = @ \ {Target(s)},
                               !.undone[File(s)] = @ \union {Target(s)}]
  /\ slot' = [slot EXCEPT ![s].pc = "audit", ![s].view = Idle.view]
  /\ UNCHANGED <<path, dbs, store, arch, audit, made, now, faults>>

\* Mutant: the two writes are not in one transaction.
BugNoTx(s) ==
  /\ slot[s].pc \in {"read", "write", "commit"} /\ CanFail /\ faults' = faults + 1
  /\ inode' = IF slot[s].pc = "commit" THEN [inode EXCEPT ![File(s)].vec = slot[s].view.vec] ELSE inode
  /\ End(s, {}) /\ Release(s)
  /\ UNCHANGED <<path, dbs, store, arch, audit, made, now, told>>

\* A statement or the commit fails: the deferred rollback undoes the rest.
TxFault(s) ==
  /\ slot[s].pc \in {"read", "write", "commit"} /\ CanFail /\ faults' = faults + 1
  /\ End(s, {}) /\ Release(s)
  /\ UNCHANGED <<inode, path, dbs, store, arch, audit, made, now, told>>

\* The audit row after the commit; its failure is reported, the effect stays.
\* Somebody else may have forgotten the entry before its writer is told of it.
LogAppend(s) ==
  /\ slot[s].pc = "audit"
  /\ \/ /\ audit' = audit \union {<<slot[s].job.op, Target(s)>>}
        /\ told' = IF slot[s].job.op = "remember"
                     THEN [told EXCEPT !.kept[File(s)] = @ \union ({Target(s)} \ told.undone[File(s)])]
                     ELSE [told EXCEPT !.gone[File(s)] = @ \union {Target(s)}]
        /\ UNCHANGED faults
     \/ /\ CanFail /\ faults' = faults + 1 /\ UNCHANGED <<audit, told>>
  /\ End(s, {Target(s)})
  /\ UNCHANGED <<inode, path, handle, dbs, store, arch, made, now>>

----------------------------------------------------------------------------
(* Calls of one statement, and of several that are not one transaction.    *)

\* What the statement selects; for mark and clear, the row it updates.
Selected(s) ==
  LET j == slot[s].job IN
  CASE j.op = "recall"      -> Recall(Tables(s), j, slot[s].at)
    [] j.op = "counts"      -> RecallFilterCounts(Tables(s), slot[s].at, 1)
    [] j.op = "listPending" -> PendingLessons(Tables(s), slot[s].at, j.k)
    [] j.op = "stats"       -> Stats(Tables(s), slot[s].at)
    [] j.op \in {"mark", "clear"} -> DOMAIN Tables(s).entry \intersect {j.id}
    [] j.op = "promote"     -> DOMAIN Tables(s).entry \intersect Tables(s).vec \intersect {j.id}

\* PromoteToKeep: the proposal built from the row is audited before it is returned.
PromoteToKeep(s) == slot' = [slot EXCEPT ![s].pc = "promoted", ![s].out = Selected(s)]

\* A call in progress on this file.
WorksOn(r, f) == slot[r].h # 0 /\ File(r) = f

\* MarkNeedsReview and ClearNeedsReview: one UPDATE.
Review(s) ==
  IF slot[s].job.op \in {"mark", "clear"} /\ Selected(s) # {}
    THEN /\ inode' = [inode EXCEPT ![File(s)] = setNeedsReview(@, slot[s].job.id, slot[s].job.op = "mark")]
         /\ told' = [told EXCEPT !.flagged[File(s)] = IF slot[s].job.op = "mark" THEN @ \union {slot[s].job.id}
                                                                       ELSE @ \ {slot[s].job.id}]
         /\ slot' = [r \in Slots |->
              IF r = s THEN Ended(s, {}) ELSE
              IF slot[s].job.op = "clear" /\ WorksOn(r, File(s))
                THEN [slot[r] EXCEPT !.flagged = @ \ {slot[s].job.id}, !.seen = @ \ {slot[s].job.id}]
                ELSE slot[r]]
    ELSE End(s, Selected(s)) /\ UNCHANGED <<inode, told>>

Query(s) ==
  /\ slot[s].pc = "query"
  /\ IF handle[slot[s].h].open
       THEN /\ ConnFree(s) /\ (slot[s].job.op \in {"mark", "clear"} => Unlocked(s))
            /\ \/ slot[s].job.op = "promote" /\ Selected(s) # {} /\ PromoteToKeep(s) /\ UNCHANGED <<inode, told>>
               \/ /\ slot[s].job.op \in {"counts", "stats"}
                  /\ slot' = [slot EXCEPT ![s].pc = "query2", ![s].out = Selected(s)]
                  /\ UNCHANGED <<inode, told>>
               \/ /\ slot[s].job.op \notin {"counts", "stats"}
                  /\ slot[s].job.op = "promote" => Selected(s) = {}
                  /\ Review(s)
       ELSE End(s, {}) /\ UNCHANGED <<inode, told>>
  /\ UNCHANGED <<path, handle, dbs, store, arch, audit, made, now, faults>>

\* The second statement of the counts and of the statistics.
Query2(s) ==
  /\ slot[s].pc = "query2"
  /\ handle[slot[s].h].open => ConnFree(s)
  /\ IF handle[slot[s].h].open
       THEN End(s, slot[s].out \union IF slot[s].job.op = "counts"
                                        THEN RecallFilterCounts(Tables(s), slot[s].at, 2)
                                        ELSE Stats(Tables(s), slot[s].at))
       ELSE End(s, {})
  /\ UNCHANGED <<inode, path, handle, dbs, store, arch, audit, made, now, faults, told>>

Promoted(s) ==
  /\ slot[s].pc = "promoted"
  /\ \/ audit' = audit \union {<<"promote", slot[s].job.id>>} /\ UNCHANGED faults
     \/ CanFail /\ faults' = faults + 1 /\ UNCHANGED audit
  /\ End(s, slot[s].out)
  /\ UNCHANGED <<inode, path, handle, dbs, store, arch, made, now, told>>

\* BootCheck: FlagSupersededLessons reads the candidates and closes the cursor,
\* then updates them one by one; the first failure ends the pass.
FlagSelect(s) ==
  /\ slot[s].pc = "flagSelect"
  /\ IF handle[slot[s].h].open
       THEN /\ ConnFree(s)
            /\ LET c == {i \in flagCandidates(Tables(s)) : outdated(Tables(s).entry[i])}
               IN  slot' = [slot EXCEPT ![s].pc = "flag", ![s].out = c, ![s].seen = c]
       ELSE End(s, {})
  /\ UNCHANGED <<inode, path, handle, dbs, store, arch, audit, made, now, faults, told>>

evaluateAndFlagCandidate(s, i) ==
  /\ slot[s].pc = "flag" /\ i \in slot[s].out
  /\ handle[slot[s].h].open => ConnFree(s) /\ Unlocked(s)
  /\ IF handle[slot[s].h].open /\ i \in DOMAIN Tables(s).entry
       THEN /\ inode' = [inode EXCEPT ![File(s)] = setNeedsReview(@, i, TRUE)]
            /\ slot' = [slot EXCEPT ![s].out = @ \ {i}]
       ELSE End(s, {}) /\ UNCHANGED inode
  /\ UNCHANGED <<path, handle, dbs, store, arch, audit, made, now, faults, told>>

FlagEnd(s) ==
  /\ slot[s].pc = "flag" /\ slot[s].out = {}
  /\ told' = [told EXCEPT !.flagged[File(s)] = @ \union (slot[s].seen \intersect DOMAIN Tables(s).entry)]
  /\ End(s, {})
  /\ UNCHANGED <<inode, path, handle, dbs, store, arch, audit, made, now, faults>>

QueryFault(s) ==
  /\ slot[s].pc \in {"query", "query2", "flagSelect", "flag"} /\ CanFail /\ faults' = faults + 1
  /\ End(s, {})
  /\ UNCHANGED <<inode, path, handle, dbs, store, arch, audit, made, now, told>>

----------------------------------------------------------------------------
(* Archiving: a goroutine snapshots the file and writes it into a pipe     *)
(* (slot.a) while the caller puts what it reads into the store (slot.p).   *)

InArc(s) == slot[s].pc = "arc"

\* PeriodicBackup: each tick archives; only cancellation ends the loop.
Tick(s) ==
  /\ slot[s].pc = "tick" /\ slot[s].ticks < MaxTicks
  /\ slot' = [slot EXCEPT ![s].pc = "arc", ![s].a = "vacuum", ![s].p = "copy", ![s].got = 0,
                          ![s].ticks = @ + 1]
  /\ UNCHANGED <<inode, path, handle, dbs, store, arch, audit, made, now, faults, told>>

Cancel(s) ==
  /\ slot[s].pc = "tick" /\ End(s, {})
  /\ UNCHANGED <<inode, path, handle, dbs, store, arch, audit, made, now, faults, told>>

\* VACUUM INTO: one statement, so a snapshot of one instant.
Vacuum(s) ==
  /\ InArc(s) /\ slot[s].a = "vacuum"
  /\ handle[slot[s].h].open => ConnFree(s)
  /\ slot' = [slot EXCEPT ![s] = IF handle[slot[s].h].open
                 THEN [@ EXCEPT !.a = "stream", !.view = Tables(s)] ELSE [@ EXCEPT !.a = "err"]]
  /\ UNCHANGED <<inode, path, handle, dbs, store, arch, audit, made, now, faults, told>>

ArchiveFault(s) ==
  /\ InArc(s) /\ slot[s].a \in {"vacuum", "stream"} /\ CanFail /\ faults' = faults + 1
  /\ slot' = [slot EXCEPT ![s].a = "err"]
  /\ UNCHANGED <<inode, path, handle, dbs, store, arch, audit, made, now, told>>

\* io.Pipe: a write waits for the reader; after the last piece the writer is
\* closed without an error.
Stream(s) ==
  /\ InArc(s) /\ slot[s].a = "stream" /\ slot[s].p = "copy"
  /\ slot' = [slot EXCEPT ![s].got = @ + 1, ![s].a = IF slot[s].got + 1 = Chunks THEN "ok" ELSE @]
  /\ UNCHANGED <<inode, path, handle, dbs, store, arch, audit, made, now, faults, told>>

\* Mutant: a failed Put leaves the reader open.
BugReaderLeft(s) == FALSE
\* A failed Put closes the reader, and the blocked writer fails.
ReaderClosed(s) == slot[s].p = "err"
StreamBroken(s) ==
  /\ InArc(s) /\ slot[s].a = "stream" /\ ReaderClosed(s)
  /\ slot' = [slot EXCEPT ![s].a = "err"]
  /\ UNCHANGED <<inode, path, handle, dbs, store, arch, audit, made, now, faults, told>>

\* The archive under a name: closed with its trailer, and all of the snapshot.
Tarball(s, whole) == [whole |-> whole, schema |-> TRUE, full |-> slot[s].got = Chunks, snap |-> slot[s].view, by |-> slot[s].n]
writeTarballStream(s, name, whole) == arch' = With(arch, name, Tarball(s, whole))

\* What the reader sees when the archiving goroutine is done: the end of the
\* stream, or the error it closed the pipe with.
\* Mutant: the pipe is closed without the error.
BugCloseNil(s) == IF slot[s].a = "err" THEN "ok" ELSE slot[s].a
PipeEnds(s) == slot[s].a

\* LocalFS.Put: the copy ended; the name is the clock in whole seconds, the
\* file must not exist, and whatever goes wrong the file of that name is removed.
LocalPut(s) ==
  IF now \in DOMAIN arch
    THEN /\ arch' = Restrict(arch, DOMAIN arch \ {now})
         /\ slot' = [slot EXCEPT ![s].p = "err"]
         /\ told' = [told EXCEPT !.clash = @ \union {now}]
    ELSE /\ writeTarballStream(s, now, FALSE)
         /\ slot' = [slot EXCEPT ![s].p = "fill", ![s].name = now]
         /\ UNCHANGED told

\* S3Compatible.Put: one object, written over an older one of the same key.
S3Put(s) ==
  /\ writeTarballStream(s, now, TRUE)
  /\ slot' = [slot EXCEPT ![s].p = "ok", ![s].name = now]
  /\ told' = IF now \in DOMAIN arch THEN [told EXCEPT !.clash = @ \union {now}] ELSE told

Put(s) ==
  /\ InArc(s) /\ slot[s].p = "copy" /\ PipeEnds(s) \in {"ok", "err"}
  /\ IF PipeEnds(s) = "err"
       THEN slot' = [slot EXCEPT ![s].p = "err"] /\ UNCHANGED <<arch, told, store>>
       ELSE /\ store' \in IF store = "unset" THEN Stores ELSE {store}
            /\ \/ store' = "localfs" /\ LocalPut(s)
               \/ store' = "s3" /\ S3Put(s)
  /\ UNCHANGED <<inode, path, handle, dbs, audit, made, now, faults>>

\* The tarball's file is complete (if nobody removed it meanwhile).
writeTarball(s) ==
  /\ InArc(s) /\ slot[s].p = "fill"
  /\ arch' = IF slot[s].name \in DOMAIN arch /\ arch[slot[s].name].by = slot[s].n
               THEN [arch EXCEPT ![slot[s].name].whole = TRUE] ELSE arch
  /\ slot' = [slot EXCEPT ![s].p = "ok"]
  /\ UNCHANGED <<inode, path, handle, dbs, store, audit, made, now, faults, told>>

PutFault(s) ==
  /\ InArc(s) /\ slot[s].p \in {"copy", "fill"} /\ CanFail /\ faults' = faults + 1
  /\ arch' = IF slot[s].p = "fill" THEN Restrict(arch, DOMAIN arch \ {slot[s].name}) ELSE arch
  /\ slot' = [slot EXCEPT ![s].p = "err"]
  /\ UNCHANGED <<inode, path, handle, dbs, store, audit, made, now, told>>

\* After an archive the caller returns, the backup loop waits for its next tick.
AfterArchive(s, out) ==
  slot' = [slot EXCEPT ![s] = IF slot[s].job.op = "backup"
             THEN [@ EXCEPT !.pc = "tick", !.view = Idle.view, !.got = 0, !.name = 0, !.a = "none", !.p = "none"]
             ELSE Ended(s, out)]

\* archiveAndAudit: Put has returned; the goroutine is joined; either failed,
\* or the address is audited, and returned even when the audit fails.
archiveAndAudit(s) ==
  /\ InArc(s) /\ slot[s].p \in {"ok", "err"} /\ slot[s].a \in {"ok", "err"}
  /\ IF "err" \in {slot[s].a, slot[s].p}
       THEN AfterArchive(s, {}) /\ UNCHANGED <<audit, faults, told>>
       ELSE /\ \/ audit' = audit \union {<<slot[s].job.op, slot[s].name>>} /\ UNCHANGED faults
               \/ CanFail /\ faults' = faults + 1 /\ UNCHANGED audit
            /\ told' = [told EXCEPT !.uris = @ \union {[name |-> slot[s].name, snap |-> slot[s].view]}]
            /\ AfterArchive(s, {slot[s].name})
  /\ UNCHANGED <<inode, path, handle, dbs, store, arch, made, now>>

----------------------------------------------------------------------------
(* ImportFromArchive (and the CLI's import), with a handle of its own, and *)
(* the supervisor's Open and Close.                                        *)

Opened(f) == Append(handle, [open |-> TRUE, file |-> f, tx |-> 0])
Closed(h) == [handle EXCEPT ![h].open = FALSE]

\* Get: the archive must exist; an unfinished one fails while it is copied.
Get(name) == name \in DOMAIN arch /\ arch[name].whole
\* The header, the tables and the indexes of a notebook.
validateArchive(a) == a.full /\ a.schema

\* The archive is read into a spool.
Fetch(s) ==
  /\ slot[s].pc = "fetch"
  /\ IF Get(slot[s].job.uri)
       THEN LET a == arch[slot[s].job.uri] IN
            /\ slot' = [slot EXCEPT ![s].pc = "import", ![s].h = Len(handle) + 1, ![s].view = a.snap,
                                    ![s].a = IF validateArchive(a) THEN "ok" ELSE "err"]
            /\ handle' = Opened(path)
       ELSE End(s, {}) /\ UNCHANGED handle
  /\ UNCHANGED <<inode, path, dbs, store, arch, audit, made, now, faults, told>>

\* Mutant: the check that the target is empty is missing.
BugImportOver(s) ==
  /\ slot[s].pc = "import"
  /\ handle' = Closed(slot[s].h)
  /\ IF slot[s].a = "ok"
       THEN slot' = [slot EXCEPT ![s].pc = "sidecars", ![s].seen = told.kept[File(s)]]
       ELSE End(s, {})
  /\ UNCHANGED <<inode, path, dbs, store, arch, audit, made, now, faults, told>>
\* Import: the spool is checked, then the target must be empty, then the handle
\* is closed.  On a refusal the caller closes the handle too.
Import(s) ==
  /\ slot[s].pc = "import"
  /\ handle' = Closed(slot[s].h)
  /\ IF slot[s].a = "ok" /\ DOMAIN Tables(s).entry = {}
       THEN slot' = [slot EXCEPT ![s].pc = "sidecars", ![s].seen = told.kept[File(s)]]
       ELSE End(s, {})
  /\ UNCHANGED <<inode, path, dbs, store, arch, audit, made, now, faults, told>>

\* The write-ahead log of whatever file the path names now is removed.
RemoveSidecars(s) ==
  /\ slot[s].pc = "sidecars"
  /\ slot' = [slot EXCEPT ![s].pc = "rename"]
  /\ told' = [told EXCEPT !.torn =
       IF \E h \in DOMAIN handle : handle[h].open /\ handle[h].file = path THEN @ \union {path} ELSE @]
  /\ UNCHANGED <<inode, path, handle, dbs, store, arch, audit, made, now, faults>>

\* The spool is renamed over the path and opened again.
ImportRename(s) ==
  /\ slot[s].pc = "rename"
  /\ inode' = Append(inode, slot[s].view) /\ path' = Len(inode) + 1
  /\ handle' = Opened(path')
  /\ told' = [told EXCEPT !.kept = Append(@, DOMAIN slot[s].view.entry),
                          !.undone = Append(@, {}), !.gone = Append(@, {}), !.flagged = Append(@, {})]
  /\ slot' = [slot EXCEPT ![s].pc = "imported", ![s].h = Len(handle) + 1, ![s].view = Idle.view]
  /\ UNCHANGED <<dbs, store, arch, audit, made, now, faults>>

\* A failure now (of the reopening, or of the audit) leaves the imported file.
Imported(s) ==
  /\ slot[s].pc = "imported"
  /\ \/ audit' = audit \union {<<"import", slot[s].job.uri>>} /\ UNCHANGED faults
     \/ CanFail /\ faults' = faults + 1 /\ UNCHANGED audit
  /\ handle' = Closed(slot[s].h) /\ End(s, {slot[s].job.uri})
  /\ UNCHANGED <<inode, path, dbs, store, arch, made, now, told>>

ImportFault(s) ==
  /\ slot[s].pc \in {"fetch", "import", "sidecars", "rename"} /\ CanFail /\ faults' = faults + 1
  /\ End(s, {})
  /\ handle' = IF slot[s].pc = "import" THEN Closed(slot[s].h) ELSE handle
  /\ UNCHANGED <<inode, path, dbs, store, arch, audit, made, now, told>>

\* NotebookSupervisor.Open, under its lock: the handle it has, or a new one
\* (closed again when its mode cannot be set).
Open(s) ==
  /\ slot[s].pc = "supOpen" /\ End(s, {})
  /\ \/ dbs # 0 /\ UNCHANGED <<handle, dbs, faults>>
     \/ dbs = 0 /\ handle' = Opened(path) /\ dbs' = Len(handle) + 1 /\ UNCHANGED faults
     \/ dbs = 0 /\ CanFail /\ faults' = faults + 1 /\ UNCHANGED <<handle, dbs>>
  /\ UNCHANGED <<inode, path, store, arch, audit, made, now, told>>

\* NotebookSupervisor.Close: out of the map under the lock, closed outside it.
Close(s) ==
  /\ slot[s].pc = "supClose"
  /\ IF dbs = 0 THEN End(s, {}) ELSE slot' = [slot EXCEPT ![s].pc = "closing", ![s].h = dbs]
  /\ dbs' = 0
  /\ UNCHANGED <<inode, path, handle, store, arch, audit, made, now, faults, told>>

Closing(s) ==
  /\ slot[s].pc = "closing" /\ handle' = Closed(slot[s].h) /\ End(s, {})
  /\ UNCHANGED <<inode, path, dbs, store, arch, audit, made, now, faults, told>>

\* The process dies and starts again: files and the store remain.
Crash ==
  /\ CanFail /\ faults' = faults + 1
  /\ \E s \in Slots : ~Free(s)
  /\ slot' = [s \in Slots |-> Idle] /\ dbs' = 0
  /\ handle' = [h \in DOMAIN handle |-> [handle[h] EXCEPT !.open = FALSE, !.tx = 0]]
  /\ UNCHANGED <<inode, path, store, arch, audit, made, now, told>>

Clock ==
  /\ now < MaxTime /\ now' = now + 1
  /\ UNCHANGED <<inode, path, handle, dbs, slot, store, arch, audit, made, faults, told>>

----------------------------------------------------------------------------
StoreStep(s) ==
  \/ BeginTx(s) \/ ReadInTx(s) \/ WriteInTx(s) \/ Commit(s) \/ LogAppend(s)
  \/ Query(s) \/ Query2(s) \/ Promoted(s)
  \/ FlagSelect(s) \/ FlagEnd(s) \/ \E i \in slot[s].out : evaluateAndFlagCandidate(s, i)
PutStep(s) == Stream(s) \/ StreamBroken(s) \/ Put(s) \/ writeTarball(s) \/ archiveAndAudit(s) \/ Vacuum(s)
OtherStep(s) ==
  \/ Fetch(s) \/ Import(s) \/ RemoveSidecars(s) \/ ImportRename(s) \/ Imported(s)
  \/ Open(s) \/ Close(s) \/ Closing(s) \/ Cancel(s)
Step(s) == StoreStep(s) \/ PutStep(s) \/ OtherStep(s)
Fault(s) == TxFault(s) \/ QueryFault(s) \/ ArchiveFault(s) \/ PutFault(s) \/ ImportFault(s)

Next ==
  \/ \E s \in Slots : Step(s) \/ Tick(s) \/ Fault(s) \/ \E j \in UNION Range(Jobs) : Lookup(s, j)
  \/ Crash \/ Clock
  \/ made = Len(Jobs) /\ (\A s \in Slots : Free(s)) /\ UNCHANGED vars

\* Every goroutine runs, and a waiting one gets the connection in turn.
Spec == Init /\ [][Next]_vars /\ \A s \in Slots : WF_vars(Step(s))

----------------------------------------------------------------------------
(* Properties.                                                             *)

\* Every entry has its vector and every vector its entry, in every file and
\* archive, whatever statement failed and wherever the process died: the two
\* tables are only written together (remember.go, forget.go).
RowsInStep ==
  /\ \A f \in DOMAIN inode : DOMAIN inode[f].entry = inode[f].vec
  /\ \A a \in DOMAIN arch : arch[a].schema => DOMAIN arch[a].snap.entry = arch[a].snap.vec

\* What a caller was told of the file that the path names is so: an entry
\* reported as remembered or imported is in it until somebody forgets it, one
\* reported as forgotten is not, through crashes, reopening and other handles,
\* unless an import removed its log under an open handle (remember.go,
\* forget.go); and an import that goes on to replace the file it found empty
\* drops nothing that had been reported by then (import.go).
AckedIsKept ==
  /\ path \notin told.torn =>
       LET there == DOMAIN inode[path].entry
       IN  told.kept[path] \subseteq there /\ told.gone[path] \intersect there = {}
  /\ \A s \in Slots : slot[s].pc \in {"sidecars", "rename"} /\ File(s) = path =>
       slot[s].seen \intersect told.kept[path] = {}

\* A recall never returns an entry that was forgotten, or a lesson that a
\* boot check or a reviewer had flagged and nobody cleared, before it began.
RecallRespects ==
  \A s \in Slots : slot[s].pc = "done" /\ slot[s].job.op = "recall" =>
    slot[s].out \intersect (slot[s].gone \union slot[s].flagged) = {}

\* An archive whose address a caller got is in the store, complete, and holds
\* the snapshot taken for it, unless two archives of the agent were put in one
\* second; and a tarball that is complete holds all of a snapshot.
ArchiveIsWhole ==
  /\ \A u \in told.uris : u.name \notin told.clash =>
       u.name \in DOMAIN arch /\ arch[u.name].whole /\ arch[u.name].snap = u.snap
  /\ \A a \in DOMAIN arch : arch[a].whole => arch[a].full

\* Every call ends: no caller waits for ever on the connection, on the file's
\* lock, or on either end of the archive's pipe.
EveryCallEnds == \A s \in Slots : ~Free(s) ~> Free(s)

=============================================================================
