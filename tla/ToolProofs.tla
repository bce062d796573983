----------------------------- MODULE ToolProofs ------------------------------
(***************************************************************************)
(* Tools: their registry, the approvals of new ones, and the calls an      *)
(* agent makes.                                                            *)
(*                                                                         *)
(* What the scheduler and the registry guarantee for any sources, tools,   *)
(* concurrent syncs, recomputes and holders: an announced sync is in the   *)
(* snapshot readers load, what is announced is what was verified, the      *)
(* events of two revisions do not interleave, and refcounts are exact.     *)
(*                                                                         *)
(* The argument for the snapshot: a source is Pending from the moment its  *)
(* directory changes until a recompute that was asked for after the change *)
(* holds recomputeMu.  A source that is not pending has not changed since  *)
(* the scan under way read it, nor, if nobody is to scan for it, since the *)
(* current snapshot did.                                                   *)
(*                                                                         *)
(* What the approval webhook guarantees for any proposals, deliveries and  *)
(* faults: a proposal is decided once, its claim stays while its decision  *)
(* is published, and the handlers implement OneShotDecision.  Deciding     *)
(* once is not inductive: it rests on a claim having at most one handler   *)
(* that may still publish, and on who that is (HolderInv).                 *)
(*                                                                         *)
(* What the runtime, the coordinator's tools, the dry run and the cron     *)
(* scheduler guarantee for any workload, manifests and faults: what a call *)
(* is told is what happened, a lesson has its cause, a dry run is reported *)
(* and a tick has its owner, and a scan that says it is whole is whole.    *)
(* The invariant (AgentInv) says at every stage of a call what it has      *)
(* already written and may still write; that a step of one call leaves it  *)
(* to the others rests on the numbers of the calls being their own.  A     *)
(* scan (FoundInv) has found what is listed up to the place it has come to, *)
(* unless somebody changed the list.                                       *)
(***************************************************************************)
EXTENDS ToolRegistry, ToolApproval, AgentTools, FiniteSetTheorems, SequenceTheorems, TLAPS

SyncRec == [pc : {"idle", "locked", "pull", "verify", "publish", "done"},
            src : 0 .. N, tree : SUBSET Tools]
RecPcs == {"idle", "lock", "scan", "swapped", "publish", "done"}
RecRec == [pc : RecPcs, src : 0 .. N, next : 1 .. N + 1, rev : Nat, snap : Snapshot,
           shadows : SUBSET (Tools \X Sources)]
Events == [kind : {"shadowed", "updated"}, rev : Nat]

HoldType ==
  /\ refs \in [0 .. Cardinality(Syncers) + Cardinality(Callers) -> Nat]
  /\ hold \in [Holders -> [pc : {"idle", "loaded", "held", "released"}, rev : Nat]]

-----------------------------------------------------------------------------
(* A sync that is under way has the mutex of its source. *)
MuInv ==
  \A y \in Syncers : sync[y].pc \notin {"idle", "done"} =>
    sync[y].src \in Sources /\ perSourceMu[sync[y].src] = y

(* A recompute starts from an empty snapshot; the worker's has a source. *)
BegunInv ==
  /\ \A r \in Recomputers : rec[r].pc \in {"idle", "lock"} =>
       rec[r].next = 1 /\ rec[r].snap.bad = {}
  /\ rec["worker"].pc \in {"lock", "scan"} => rec["worker"].src \in Sources

(* Sources of which an announcement is owed, queued or about to be acted on *)
Awaited(s) == rec["worker"].pc = "lock" /\ rec["worker"].src = s
Pending(s) == s \in untold \/ s \in Queued \/ Awaited(s)

ScanInv ==
  \A r \in Recomputers : rec[r].pc = "scan" =>
    \A s \in Sources : s < rec[r].next /\ s \notin rec[r].snap.bad /\ ~Pending(s) =>
      rec[r].snap.scan[s] = disk[s]
CurrentInv ==
  \A s \in Sources :
    ~Pending(s) /\ ~(rec["worker"].pc = "scan" /\ rec["worker"].src = s) =>
      current.snap.scan[s] = disk[s]

(* Every recompute that swapped has a revision of its own, announced by    *)
(* nobody else: nothing of it before it has publishMu, then its shadows    *)
(* only, at the end of what was published.                                 *)
Announcing(r) == rec[r].pc \in {"swapped", "publish"}
RevisionInv ==
  /\ \A r \in Recomputers : Announcing(r) => rec[r].rev <= current.rev
  /\ \A r, q \in Recomputers :
       Announcing(r) /\ Announcing(q) /\ rec[r].rev = rec[q].rev => r = q
  /\ \A i \in 1 .. Len(published) : published[i].rev <= current.rev
PublishedInv ==
  \A r \in Recomputers : \A i \in 1 .. Len(published) : published[i].rev = rec[r].rev =>
    /\ rec[r].pc # "swapped"
    /\ rec[r].pc = "publish" =>
         /\ published[i].kind = "shadowed"
         /\ \A j \in i .. Len(published) : published[j].rev = rec[r].rev

(* Holders have revisions that were installed. *)
HoldInv == \A h \in Holders : hold[h].rev <= current.rev

(* There are no more revisions than calls that were made for them. *)
Synced == {y \in Syncers : sync[y].pc = "done"}
Recomputed == {c \in Callers : rec[c].pc \in {"swapped", "publish", "done"}}
WorkerDue == IF rec["worker"].pc \in {"lock", "scan"} THEN 1 ELSE 0
CountInv ==
  current.rev + Len(queue) + WorkerDue <= Cardinality(Synced) + Cardinality(Recomputed)

IInv ==
  /\ TypeOK /\ HoldType /\ MuInv /\ AnnouncedIsVerified /\ BegunInv /\ ScanInv /\ CurrentInv
  /\ RevisionInv /\ PublishedInv /\ OneRevisionAtATime /\ HoldInv /\ RefsExact /\ CountInv

-----------------------------------------------------------------------------
(* The shape of the state *)
LEMMA TypeIs ==
  ASSUME TypeOK
  PROVE  /\ disk \in [Sources -> SUBSET Tools] /\ untold \subseteq Sources
         /\ populated \in 0 .. MaxPopulate
         /\ sync \in [Syncers -> SyncRec] /\ perSourceMu \in [Sources -> Syncers \cup {None}]
         /\ queue \in Seq(Sources) /\ rec \in [Recomputers -> RecRec]
         /\ \A r \in Recomputers : /\ rec[r].pc = "scan" <=> recomputeMu = r
                                   /\ rec[r].pc = "publish" <=> publishMu = r
         /\ current \in [rev : Nat, snap : Snapshot]
         /\ retiring \subseteq 0 .. current.rev - 1
         /\ published \in Seq(Events)
BY DEF TypeOK, SyncRec, RecRec, RecPcs, Events

(* Nobody is None, and the worker is no caller. *)
LEMMA NamesApart ==
  /\ None \notin Syncers /\ None \notin Recomputers
  /\ "worker" \in Recomputers /\ "worker" \notin Callers
  /\ \A r \in Recomputers : r # "worker" => r \in Callers
  /\ \A c \in Callers : c \in Recomputers
  /\ N \in Nat /\ N >= 1
BY GoroutinesAssumption, SourcesAssumption DEF Recomputers, None

(* What is queued, when an announcement is added or taken *)
LEMMA QueueGrows ==
  ASSUME queue \in Seq(Sources), NEW s \in Sources, queue' = Append(queue, s)
  PROVE  /\ queue' \in Seq(Sources) /\ Len(queue') = Len(queue) + 1 /\ Len(queue) \in Nat
         /\ \A x : x \in Queued' <=> x \in Queued \/ x = s
<1>1. /\ queue' \in Seq(Sources) /\ Len(queue) \in Nat /\ Len(queue') = Len(queue) + 1
      /\ DOMAIN queue = 1 .. Len(queue) /\ DOMAIN queue' = 1 .. (Len(queue) + 1)
      /\ \A k \in 1 .. Len(queue) : queue'[k] = queue[k]
      /\ queue'[Len(queue) + 1] = s
  OBVIOUS
<1>2. ASSUME NEW x PROVE x \in Queued' <=> x \in Queued \/ x = s
  <2>1. ASSUME x \in Queued' PROVE x \in Queued \/ x = s
    <3>1. PICK k \in 1 .. (Len(queue) + 1) : queue'[k] = x
      BY <1>1, <2>1 DEF Queued
    <3>2. k \in 1 .. Len(queue) \/ k = Len(queue) + 1
      BY <1>1
    <3> QED BY <1>1, <3>1, <3>2 DEF Queued
  <2>2. ASSUME x \in Queued PROVE x \in Queued'
    <3>1. PICK k \in 1 .. Len(queue) : queue[k] = x
      BY <1>1, <2>2 DEF Queued
    <3>2. k \in 1 .. (Len(queue) + 1) /\ queue'[k] = x
      BY <1>1, <3>1
    <3> QED BY <1>1, <3>2 DEF Queued
  <2>3. ASSUME x = s PROVE x \in Queued'
    <3>1. Len(queue) + 1 \in 1 .. (Len(queue) + 1)
      BY <1>1
    <3> QED BY <1>1, <2>3, <3>1 DEF Queued
  <2> QED BY <2>1, <2>2, <2>3
<1> QED BY <1>1, <1>2

LEMMA QueueShrinks ==
  ASSUME queue \in Seq(Sources), queue # <<>>, queue' = Tail(queue)
  PROVE  /\ queue' \in Seq(Sources) /\ Len(queue') = Len(queue) - 1 /\ Len(queue) \in Nat
         /\ Head(queue) \in Sources
         /\ \A x : x \in Queued => x \in Queued' \/ x = Head(queue)
<1>1. /\ queue' \in Seq(Sources) /\ Len(queue) \in Nat \ {0} /\ Len(queue') = Len(queue) - 1
      /\ DOMAIN queue = 1 .. Len(queue) /\ DOMAIN queue' = 1 .. (Len(queue) - 1)
      /\ \A k \in 1 .. (Len(queue) - 1) : queue'[k] = queue[k + 1]
      /\ Head(queue) = queue[1] /\ queue[1] \in Sources
  OBVIOUS
<1>2. ASSUME NEW x \in Queued, x # Head(queue) PROVE x \in Queued'
  <2>1. PICK k \in 1 .. Len(queue) : queue[k] = x
    BY <1>1 DEF Queued
  <2>2. k - 1 \in 1 .. (Len(queue) - 1) /\ (k - 1) + 1 = k
    BY <1>1, <1>2, <2>1
  <2>3. queue'[k - 1] = x
    BY <1>1, <2>1, <2>2
  <2> QED BY <1>1, <2>2, <2>3 DEF Queued
<1> QED BY <1>1, <1>2

(* Arithmetic of the count of revisions *)
LEMMA SumsHold ==
  ASSUME NEW a \in Nat, NEW b \in Nat, NEW c \in Nat, NEW d \in Nat, NEW e \in Nat,
         NEW x \in Nat, NEW y \in Nat, a + b + c <= d + e, x - b <= y - d
  PROVE  a + x + c <= y + e
OBVIOUS

LEMMA CountsGive ==
  ASSUME NEW a \in Nat, NEW b \in Nat, NEW c \in Nat, NEW d \in Nat, NEW e \in Nat,
         NEW x \in Nat, NEW y \in Nat, a + b + c <= d + e, d <= x, e <= y
  PROVE  a <= x + y
OBVIOUS

LEMMA SumOfThree ==
  ASSUME NEW a \in Nat, NEW b \in Nat, NEW c \in Nat PROVE a + b + c \in Nat
OBVIOUS

-----------------------------------------------------------------------------
(* Steps of the scheduler leave the registry alone: a source whose         *)
(* directory changes is untold, and one that is announced is queued.       *)
LEMMA QuietKeeps ==
  ASSUME IInv, UNCHANGED <<recVars, holdVars>>,
         disk' \in [Sources -> SUBSET Tools], untold' \subseteq Sources,
         populated' \in 0 .. MaxPopulate, sync' \in [Syncers -> SyncRec],
         perSourceMu' \in [Sources -> Syncers \cup {None}], queue' \in Seq(Sources),
         \A s \in Sources : s \notin untold' /\ s \notin Queued' =>
           s \notin untold /\ s \notin Queued /\ disk'[s] = disk[s],
         MuInv', AnnouncedIsVerified',
         Len(queue') - Len(queue) <= Cardinality(Synced') - Cardinality(Synced),
         Cardinality(Synced) \in Nat, Cardinality(Synced') \in Nat
  PROVE  IInv'
<1>1. UNCHANGED <<rec, recomputeMu, publishMu, current, retiring, published, refs, hold>>
  BY DEF recVars, holdVars
<1>2. TypeOK' /\ HoldType'
  BY <1>1, TypeIs DEF IInv, TypeOK, HoldType, SyncRec
<1>3. BegunInv' /\ RevisionInv' /\ PublishedInv' /\ OneRevisionAtATime' /\ HoldInv' /\ RefsExact'
  <2>1. BegunInv' /\ HoldInv' /\ RefsExact'
    BY <1>1 DEF IInv, BegunInv, HoldInv, RefsExact
  <2>2. RevisionInv' /\ PublishedInv' /\ OneRevisionAtATime'
    BY <1>1 DEF IInv, RevisionInv, PublishedInv, OneRevisionAtATime, Announcing
  <2> QED BY <2>1, <2>2
<1>4. \A s \in Sources : ~Pending(s)' => ~Pending(s) /\ disk'[s] = disk[s]
  BY <1>1 DEF Pending, Awaited
<1>5. ScanInv' /\ CurrentInv'
  BY <1>1, <1>4 DEF IInv, ScanInv, CurrentInv
<1>6. CountInv'
  <2>1. Recomputed' = Recomputed /\ WorkerDue' = WorkerDue /\ WorkerDue \in Nat
        /\ current'.rev = current.rev
    BY <1>1 DEF Recomputed, WorkerDue
  <2>2. /\ Len(queue) \in Nat /\ Len(queue') \in Nat /\ current.rev \in Nat
        /\ Cardinality(Recomputed) \in Nat
    <3>1. IsFiniteSet(Recomputed)
      BY GoroutinesAssumption, FS_Subset DEF Recomputed
    <3> QED BY <3>1, FS_CardinalityType, TypeIs DEF IInv
  <2>3. current.rev + Len(queue) + WorkerDue <= Cardinality(Synced) + Cardinality(Recomputed)
    BY DEF IInv, CountInv
  <2>4. current.rev + Len(queue') + WorkerDue <= Cardinality(Synced') + Cardinality(Recomputed)
    BY <2>1, <2>2, <2>3, SumsHold
  <2> QED BY <2>1, <2>4 DEF CountInv
<1> QED BY <1>2, <1>3, <1>5, <1>6 DEF IInv

(* Synced, when one more call ends, or none does *)
LEMMA SyncedFinite == IsFiniteSet(Synced) /\ Cardinality(Synced) \in Nat
<1>1. IsFiniteSet(Synced)
  BY GoroutinesAssumption, FS_Subset DEF Synced
<1> QED BY <1>1, FS_CardinalityType

LEMMA SyncEnds ==
  ASSUME NEW y \in Syncers, sync[y].pc # "done", sync'[y].pc = "done",
         \A z \in Syncers : z # y => sync'[z] = sync[z]
  PROVE  Cardinality(Synced') = Cardinality(Synced) + 1 /\ Cardinality(Synced) \in Nat
<1>1. Synced' = Synced \cup {y} /\ y \notin Synced
  BY DEF Synced
<1> QED BY <1>1, SyncedFinite, FS_AddElement

LEMMA SyncGoesOn ==
  ASSUME NEW y \in Syncers, sync[y].pc # "done", sync'[y].pc # "done",
         \A z \in Syncers : z # y => sync'[z] = sync[z]
  PROVE  Synced' = Synced /\ Cardinality(Synced) \in Nat
BY SyncedFinite DEF Synced

-----------------------------------------------------------------------------
(* SyncOnce, step by step *)
LEMMA ToKeepsTree ==
  ASSUME TypeOK, NEW y \in Syncers, NEW p \in {"locked", "pull", "verify", "publish", "done"},
         To(y, p)
  PROVE  /\ sync' \in [Syncers -> SyncRec]
         /\ sync'[y].pc = p /\ sync'[y].src = sync[y].src /\ sync'[y].tree = sync[y].tree
         /\ \A z \in Syncers : z # y => sync'[z] = sync[z]
<1>1. sync \in [Syncers -> SyncRec]
  BY TypeIs
<1> QED BY <1>1 DEF SyncRec, To

(* Two syncs under way are of two sources. *)
LEMMA TwoSources ==
  ASSUME MuInv, NEW y \in Syncers, NEW z \in Syncers, y # z,
         sync[y].pc \notin {"idle", "done"}, sync[z].pc \notin {"idle", "done"}
  PROVE  sync[y].src # sync[z].src
BY DEF MuInv

LEMMA SyncLockKeeps ==
  ASSUME IInv, NEW y \in Syncers, NEW s \in Sources, SyncLock(y, s) PROVE IInv'
<1> USE DEF IInv
<1>1. /\ sync[y].pc = "idle" /\ perSourceMu[s] = None
      /\ sync' = [sync EXCEPT ![y].pc = "locked", ![y].src = s]
      /\ perSourceMu' = [perSourceMu EXCEPT ![s] = y]
      /\ UNCHANGED <<disk, untold, populated, queue, recVars, holdVars>>
  BY DEF SyncLock
<1>2. /\ sync' \in [Syncers -> SyncRec] /\ sync'[y].pc = "locked" /\ sync'[y].src = s
      /\ \A z \in Syncers : z # y => sync'[z] = sync[z]
  <2>1. s \in 0 .. N
    BY NamesApart DEF Sources
  <2> QED BY ZenonT(40), <1>1, <2>1, TypeIs DEF SyncRec
<1>3. /\ perSourceMu' \in [Sources -> Syncers \cup {None}] /\ perSourceMu'[s] = y
      /\ \A x \in Sources : x # s => perSourceMu'[x] = perSourceMu[x]
  BY <1>1, TypeIs
<1>4. MuInv'
  BY <1>1, <1>2, <1>3, NamesApart DEF MuInv
<1>5. AnnouncedIsVerified'
  BY <1>1, <1>2 DEF AnnouncedIsVerified
<1>6. Synced' = Synced /\ Cardinality(Synced) \in Nat
  BY <1>1, <1>2, SyncGoesOn
<1>7. Queued' = Queued
  BY <1>1 DEF Queued
<1>8. queue \in Seq(Sources) /\ Len(queue) \in Nat
  BY TypeIs
<1> QED BY <1>1, <1>2, <1>3, <1>4, <1>5, <1>6, <1>7, <1>8, TypeIs, QuietKeeps

(* A sync that fails leaves its source's mutex free. *)
LEMMA SyncEndKeeps ==
  ASSUME IInv, NEW y \in Syncers, SyncFails(y) \/ SyncPullFails(y) \/ SyncPublishFails(y)
  PROVE  IInv'
<1> USE DEF IInv
<1>1. /\ sync[y].pc \in {"locked", "pull", "verify", "publish"}
      /\ To(y, "done") /\ Unlock(sync[y].src)
      /\ UNCHANGED <<disk, untold, populated, queue, recVars, holdVars>>
  BY DEF SyncFails, SyncPullFails, SyncPublishFails
<1>2. /\ sync' \in [Syncers -> SyncRec] /\ sync'[y].pc = "done"
      /\ \A z \in Syncers : z # y => sync'[z] = sync[z]
  BY <1>1, ToKeepsTree
<1>3. /\ perSourceMu' \in [Sources -> Syncers \cup {None}]
      /\ \A x \in Sources : x # sync[y].src => perSourceMu'[x] = perSourceMu[x]
  BY <1>1, TypeIs DEF Unlock
<1>4. MuInv'
  BY <1>1, <1>2, <1>3, TwoSources DEF MuInv
<1>5. AnnouncedIsVerified'
  BY <1>1, <1>2 DEF AnnouncedIsVerified
<1>6. Cardinality(Synced') = Cardinality(Synced) + 1 /\ Cardinality(Synced) \in Nat
  BY <1>1, <1>2, SyncEnds
<1>7. Queued' = Queued /\ queue \in Seq(Sources) /\ Len(queue) \in Nat
  BY <1>1, TypeIs DEF Queued
<1>8. Len(queue') - Len(queue) <= Cardinality(Synced') - Cardinality(Synced)
  BY <1>1, <1>6, <1>7
<1> QED BY <1>1, <1>2, <1>3, <1>4, <1>5, <1>6, <1>7, <1>8, TypeIs, QuietKeeps

LEMMA SyncStatKeeps ==
  ASSUME IInv, NEW y \in Syncers, SyncStat(y) PROVE IInv'
<1> USE DEF IInv
<1>1. /\ sync[y].pc = "locked" /\ To(y, "verify")
      /\ UNCHANGED <<disk, untold, populated, perSourceMu, queue, recVars, holdVars>>
  BY DEF SyncStat
<1>2. /\ sync' \in [Syncers -> SyncRec] /\ sync'[y].pc = "verify" /\ sync'[y].src = sync[y].src
      /\ \A z \in Syncers : z # y => sync'[z] = sync[z]
  BY <1>1, ToKeepsTree
<1>3. MuInv' /\ AnnouncedIsVerified'
  BY <1>1, <1>2 DEF MuInv, AnnouncedIsVerified
<1>4. Synced' = Synced /\ Cardinality(Synced) \in Nat
  BY <1>1, <1>2, SyncGoesOn
<1>5. Queued' = Queued /\ queue \in Seq(Sources) /\ Len(queue) \in Nat
  BY <1>1, TypeIs DEF Queued
<1> QED BY <1>1, <1>2, <1>3, <1>4, <1>5, TypeIs, QuietKeeps

(* A pull writes to the directory of its own source. *)
LEMMA SyncPullKeeps ==
  ASSUME IInv, NEW y \in Syncers, SyncPull(y) \/ SyncPulled(y) PROVE IInv'
<1> USE DEF IInv
<1>1. PICK p \in {"pull", "verify"}, tree \in SUBSET Tools :
        /\ sync[y].pc \in {"locked", "pull"} /\ To(y, p) /\ Write(sync[y].src, tree)
        /\ UNCHANGED <<populated, perSourceMu, queue, recVars, holdVars>>
  BY DEF SyncPull, SyncPulled
<1>2. /\ sync' \in [Syncers -> SyncRec] /\ sync'[y].pc = p /\ sync'[y].src = sync[y].src
      /\ \A z \in Syncers : z # y => sync'[z] = sync[z]
  BY <1>1, ToKeepsTree
<1>3. /\ sync[y].src \in Sources
      /\ disk' \in [Sources -> SUBSET Tools] /\ untold' = untold \cup {sync[y].src}
      /\ \A s \in Sources : s # sync[y].src => disk'[s] = disk[s]
  BY <1>1, TypeIs DEF MuInv, Write
<1>4. MuInv'
  BY <1>1, <1>2 DEF MuInv
<1>5. AnnouncedIsVerified'
  <2> SUFFICES ASSUME NEW z \in Syncers, sync'[z].pc = "publish", sync'[z].src \in GitSources
               PROVE  disk'[sync'[z].src] = sync'[z].tree
    BY DEF AnnouncedIsVerified
  <2>1. z # y /\ sync'[z] = sync[z]
    BY <1>2
  <2>2. sync[z].src # sync[y].src /\ sync[z].src \in Sources
    BY <1>1, <2>1, TwoSources DEF MuInv
  <2> QED BY <1>3, <2>1, <2>2 DEF AnnouncedIsVerified
<1>6. Synced' = Synced /\ Cardinality(Synced) \in Nat
  BY <1>1, <1>2, SyncGoesOn
<1>7. Queued' = Queued /\ queue \in Seq(Sources) /\ Len(queue) \in Nat
  BY <1>1, TypeIs DEF Queued
<1> QED BY <1>1, <1>2, <1>3, <1>4, <1>5, <1>6, <1>7, TypeIs, QuietKeeps

(* The verifier's tree is the directory's. *)
LEMMA SyncVerifyKeeps ==
  ASSUME IInv, NEW y \in Syncers, SyncVerify(y) PROVE IInv'
<1> USE DEF IInv
<1>1. /\ sync[y].pc = "verify"
      /\ sync' = [sync EXCEPT ![y].pc = "publish", ![y].tree = disk[sync[y].src]]
      /\ UNCHANGED <<disk, untold, populated, perSourceMu, queue, recVars, holdVars>>
  BY DEF SyncVerify
<1>2. sync[y].src \in Sources /\ disk[sync[y].src] \in SUBSET Tools
  BY <1>1, TypeIs DEF MuInv
<1>3. /\ sync' \in [Syncers -> SyncRec] /\ sync'[y].pc = "publish" /\ sync'[y].src = sync[y].src
      /\ sync'[y].tree = disk[sync[y].src]
      /\ \A z \in Syncers : z # y => sync'[z] = sync[z]
  <2>1. PICK tree \in SUBSET Tools : disk[sync[y].src] = tree
    BY <1>2
  <2>2. sync' = [sync EXCEPT ![y].pc = "publish", ![y].tree = tree]
    BY <1>1, <2>1
  <2>3. sync \in [Syncers -> SyncRec]
    BY TypeIs
  <2> QED BY <2>1, <2>2, <2>3 DEF SyncRec
<1>4. MuInv' /\ AnnouncedIsVerified'
  BY <1>1, <1>3 DEF MuInv, AnnouncedIsVerified
<1>5. Synced' = Synced /\ Cardinality(Synced) \in Nat
  BY <1>1, <1>3, SyncGoesOn
<1>6. Queued' = Queued /\ queue \in Seq(Sources) /\ Len(queue) \in Nat
  BY <1>1, TypeIs DEF Queued
<1> QED BY <1>1, <1>3, <1>4, <1>5, <1>6, TypeIs, QuietKeeps

(* What is announced is queued, so it stays pending. *)
LEMMA SyncPublishKeeps ==
  ASSUME IInv, NEW y \in Syncers, SyncPublish(y) PROVE IInv'
<1> USE DEF IInv
<1> DEFINE s == sync[y].src
<1>1. /\ sync[y].pc = "publish" /\ queue' = Append(queue, s) /\ untold' = untold \ {s}
      /\ To(y, "done") /\ Unlock(s)
      /\ UNCHANGED <<disk, populated, recVars, holdVars>>
  BY DEF SyncPublish
<1>2. /\ sync' \in [Syncers -> SyncRec] /\ sync'[y].pc = "done"
      /\ \A z \in Syncers : z # y => sync'[z] = sync[z]
  BY <1>1, ToKeepsTree
<1>3. s \in Sources
  BY <1>1 DEF MuInv
<1>4. /\ perSourceMu' \in [Sources -> Syncers \cup {None}]
      /\ \A x \in Sources : x # s => perSourceMu'[x] = perSourceMu[x]
  BY <1>1, TypeIs DEF Unlock
<1>5. MuInv'
  BY <1>1, <1>2, <1>4, TwoSources DEF MuInv
<1>6. AnnouncedIsVerified'
  BY <1>1, <1>2 DEF AnnouncedIsVerified
<1>7. Cardinality(Synced') = Cardinality(Synced) + 1 /\ Cardinality(Synced) \in Nat
  BY <1>1, <1>2, SyncEnds
<1>8. /\ queue' \in Seq(Sources) /\ Len(queue') = Len(queue) + 1 /\ Len(queue) \in Nat
      /\ \A x : x \in Queued' <=> x \in Queued \/ x = s
  <2>1. queue \in Seq(Sources)
    BY TypeIs
  <2> HIDE DEF s
  <2> QED BY <1>1, <1>3, <2>1, QueueGrows
<1>9. Len(queue') - Len(queue) <= Cardinality(Synced') - Cardinality(Synced)
  BY <1>7, <1>8
<1>10. untold' \subseteq Sources /\ \A x \in Sources : x \notin untold' /\ x \notin Queued' =>
         x \notin untold /\ x \notin Queued
  BY <1>1, <1>8, TypeIs
<1> QED BY <1>1, <1>2, <1>4, <1>5, <1>6, <1>7, <1>8, <1>9, <1>10, TypeIs, QuietKeeps

(* A directory that other tooling fills is not under git. *)
LEMMA PopulateKeeps ==
  ASSUME IInv, NEW s \in Sources, NEW tree \in SUBSET Tools, Populate(s, tree) PROVE IInv'
<1> USE DEF IInv
<1>1. /\ s \notin GitSources /\ populated < MaxPopulate /\ populated' = populated + 1
      /\ untold' = untold \cup {s} /\ disk' = [disk EXCEPT ![s] = tree]
      /\ UNCHANGED <<sync, perSourceMu, queue, recVars, holdVars>>
  BY DEF Populate, Write, schedVars
<1>2. /\ disk' \in [Sources -> SUBSET Tools]
      /\ \A x \in Sources : x # s => disk'[x] = disk[x]
  BY <1>1, TypeIs
<1>3. populated' \in 0 .. MaxPopulate
  BY <1>1, TypeIs, SettingsAssumption
<1>4. MuInv'
  BY <1>1 DEF MuInv
<1>5. AnnouncedIsVerified'
  BY <1>1, <1>2, SourcesAssumption DEF AnnouncedIsVerified, Sources
<1>6. Synced' = Synced /\ Cardinality(Synced) \in Nat
  BY <1>1, SyncedFinite DEF Synced
<1>7. Queued' = Queued /\ queue \in Seq(Sources) /\ Len(queue) \in Nat
  BY <1>1, TypeIs DEF Queued
<1> QED BY <1>1, <1>2, <1>3, <1>4, <1>5, <1>6, <1>7, TypeIs, QuietKeeps

-----------------------------------------------------------------------------
(* Holders count and release revisions that were installed. *)
LEMMA HolderMoves ==
  ASSUME IInv, UNCHANGED <<disk, untold, populated, schedVars, queue, recVars>>,
         HoldType', HoldInv', RefsExact'
  PROVE  IInv'
<1>1. UNCHANGED <<disk, untold, populated, sync, perSourceMu, queue, rec, recomputeMu, publishMu,
                  current, retiring, published>>
  BY DEF schedVars, recVars
<1>2. \A k \in DOMAIN refs' : refs'[k] \in Nat
  BY DEF HoldType
<1>3. TypeOK'
  BY <1>1, <1>2 DEF IInv, TypeOK
<1>4. MuInv' /\ AnnouncedIsVerified' /\ BegunInv'
  BY <1>1 DEF IInv, MuInv, AnnouncedIsVerified, BegunInv
<1>5. \A s : Pending(s)' <=> Pending(s)
  BY <1>1 DEF Pending, Awaited, Queued
<1>6. ScanInv' /\ CurrentInv'
  BY <1>1, <1>5 DEF IInv, ScanInv, CurrentInv
<1>7. RevisionInv' /\ PublishedInv' /\ OneRevisionAtATime'
  BY <1>1 DEF IInv, RevisionInv, PublishedInv, OneRevisionAtATime, Announcing
<1>8. CountInv'
  BY <1>1 DEF IInv, CountInv, Synced, Recomputed, WorkerDue
<1> QED BY <1>3, <1>4, <1>6, <1>7, <1>8 DEF IInv

HoldsRevision(k) == {h \in Holders : hold[h].pc = "held" /\ hold[h].rev = k}

LEMMA HoldingIs ==
  ASSUME NEW k PROVE IsFiniteSet(HoldsRevision(k)) /\ Cardinality(HoldsRevision(k)) \in Nat
<1>1. IsFiniteSet(HoldsRevision(k))
  BY GoroutinesAssumption, FS_Subset DEF HoldsRevision
<1> QED BY <1>1, FS_CardinalityType

LEMMA AcquireLoadKeeps ==
  ASSUME IInv, NEW h \in Holders, AcquireLoad(h) PROVE IInv'
<1> USE DEF IInv
<1>1. /\ hold[h].pc = "idle" /\ hold' = [hold EXCEPT ![h] = [pc |-> "loaded", rev |-> current.rev]]
      /\ UNCHANGED <<disk, untold, populated, schedVars, queue, recVars, refs>>
  BY DEF AcquireLoad
<1>2. current.rev \in Nat /\ UNCHANGED current
  BY <1>1, TypeIs DEF recVars
<1>3. HoldType' /\ HoldInv'
  BY <1>1, <1>2 DEF HoldType, HoldInv
<1>4. \A k : HoldsRevision(k)' = HoldsRevision(k)
  BY <1>1 DEF HoldType, HoldsRevision
<1>5. RefsExact'
  BY <1>1, <1>4 DEF RefsExact, HoldsRevision
<1> QED BY <1>1, <1>3, <1>5, HolderMoves

LEMMA AcquireCountKeeps ==
  ASSUME IInv, NEW h \in Holders, AcquireCount(h) PROVE IInv'
<1> USE DEF IInv
<1> DEFINE v == hold[h].rev
<1>1. /\ hold[h].pc = "loaded" /\ refs' = [refs EXCEPT ![v] = @ + 1]
      /\ hold' = [hold EXCEPT ![h].pc = "held"]
      /\ UNCHANGED <<disk, untold, populated, schedVars, queue, recVars>>
  BY DEF AcquireCount
<1>2. UNCHANGED current
  BY <1>1 DEF recVars
<1>3. HoldType' /\ HoldInv'
  <2>1. refs' \in [0 .. Cardinality(Syncers) + Cardinality(Callers) -> Nat]
    <3>1. \A k \in DOMAIN refs : refs[k] \in Nat /\ refs'[k] = IF k = v THEN refs[k] + 1 ELSE refs[k]
      BY <1>1 DEF HoldType
    <3>2. refs' = [k \in 0 .. Cardinality(Syncers) + Cardinality(Callers) |-> refs'[k]]
          /\ DOMAIN refs = 0 .. Cardinality(Syncers) + Cardinality(Callers)
      BY <1>1 DEF HoldType
    <3>3. \A k \in DOMAIN refs : refs'[k] \in Nat
      BY <3>1
    <3> QED BY <3>2, <3>3
  <2>2. /\ hold' \in [Holders -> [pc : {"idle", "loaded", "held", "released"}, rev : Nat]]
        /\ \A g \in Holders : hold'[g].rev = hold[g].rev
    BY <1>1 DEF HoldType
  <2> QED BY <1>2, <2>1, <2>2 DEF HoldType, HoldInv
<1>4. /\ HoldsRevision(v)' = HoldsRevision(v) \cup {h} /\ h \notin HoldsRevision(v)
      /\ \A k : k # v => HoldsRevision(k)' = HoldsRevision(k)
  BY <1>1 DEF HoldType, HoldsRevision
<1>5. Cardinality(HoldsRevision(v)') = Cardinality(HoldsRevision(v)) + 1
  BY <1>4, HoldingIs, FS_AddElement
<1>6. RefsExact'
  <2> SUFFICES ASSUME NEW k \in DOMAIN refs PROVE refs'[k] = Cardinality(HoldsRevision(k)')
    BY <1>1 DEF RefsExact, HoldsRevision
  <2>1. refs[k] = Cardinality(HoldsRevision(k))
    BY DEF RefsExact, HoldsRevision
  <2> QED BY <1>1, <1>4, <1>5, <2>1 DEF HoldType
<1> QED BY <1>1, <1>3, <1>6, HolderMoves

(* A second release of the same entry counts nothing. *)
LEMMA ReleaseKeeps ==
  ASSUME IInv, NEW h \in Holders, Release(h) PROVE IInv'
<1> USE DEF IInv
<1> DEFINE v == hold[h].rev
<1>1. /\ hold[h].pc \in {"held", "released"}
      /\ refs' = [refs EXCEPT ![v] = IF hold[h].pc = "held" THEN @ - 1 ELSE @]
      /\ hold' = [hold EXCEPT ![h].pc = "released"]
      /\ UNCHANGED <<disk, untold, populated, schedVars, queue, recVars>>
  BY DEF Release
<1>2. UNCHANGED current
  BY <1>1 DEF recVars
<1>3. hold' \in [Holders -> [pc : {"idle", "loaded", "held", "released"}, rev : Nat]] /\ HoldInv'
  BY <1>1, <1>2 DEF HoldType, HoldInv
<1>4. DOMAIN refs' = DOMAIN refs
  BY <1>1
<1>5. CASE hold[h].pc = "held"
  <2>1. /\ HoldsRevision(v)' = HoldsRevision(v) \ {h} /\ h \in HoldsRevision(v)
        /\ \A k : k # v => HoldsRevision(k)' = HoldsRevision(k)
    BY <1>1, <1>5 DEF HoldType, HoldsRevision
  <2>2. Cardinality(HoldsRevision(v)') = Cardinality(HoldsRevision(v)) - 1
    BY <2>1, HoldingIs, FS_RemoveElement
  <2>3. ASSUME NEW k \in DOMAIN refs PROVE refs'[k] = Cardinality(HoldsRevision(k)')
    <3>1. refs[k] = Cardinality(HoldsRevision(k))
      BY DEF RefsExact, HoldsRevision
    <3> QED BY <1>1, <1>5, <2>1, <2>2, <3>1 DEF HoldType
  <2>4. \A k : Cardinality(HoldsRevision(k)') \in Nat
    <3>1. \A k : IsFiniteSet(HoldsRevision(k)')
      BY GoroutinesAssumption, FS_Subset DEF HoldsRevision
    <3> QED BY <3>1, FS_CardinalityType
  <2>5. RefsExact'
    BY <1>4, <2>3 DEF RefsExact, HoldsRevision
  <2>6. HoldType'
    <3>1. \A k \in DOMAIN refs : refs'[k] \in Nat
      BY <2>3, <2>4
    <3>2. refs' = [k \in 0 .. Cardinality(Syncers) + Cardinality(Callers) |-> refs'[k]]
          /\ DOMAIN refs = 0 .. Cardinality(Syncers) + Cardinality(Callers)
      BY <1>1 DEF HoldType
    <3> QED BY <1>3, <3>1, <3>2 DEF HoldType
  <2> QED BY <1>1, <1>3, <2>5, <2>6, HolderMoves
<1>6. CASE hold[h].pc = "released"
  <2>1. /\ refs' = refs
        /\ \A k : HoldsRevision(k)' = HoldsRevision(k)
    BY <1>1, <1>6 DEF HoldType, HoldsRevision
  <2>2. RefsExact' /\ HoldType'
    BY <1>3, <2>1 DEF RefsExact, HoldsRevision, HoldType
  <2> QED BY <1>1, <1>3, <2>2, HolderMoves
<1> QED BY <1>1, <1>5, <1>6

-----------------------------------------------------------------------------
(* Recompute, step by step: what is left to show of each of its steps *)
LEMMA RecomputeRule ==
  ASSUME IInv, UNCHANGED <<disk, populated, schedVars, holdVars>>,
         untold' \subseteq Sources, queue' \in Seq(Sources), rec' \in [Recomputers -> RecRec],
         \A r \in Recomputers : /\ rec'[r].pc = "scan" <=> recomputeMu' = r
                                /\ rec'[r].pc = "publish" <=> publishMu' = r,
         current' \in [rev : Nat, snap : Snapshot], retiring' \subseteq 0 .. current'.rev - 1,
         published' \in Seq(Events), current'.rev >= current.rev,
         BegunInv', ScanInv', CurrentInv', RevisionInv', PublishedInv', OneRevisionAtATime',
         CountInv'
  PROVE  IInv'
<1>1. UNCHANGED <<disk, populated, sync, perSourceMu, refs, hold>>
  BY DEF schedVars, holdVars
<1>2. TypeOK' /\ HoldType'
  BY <1>1, TypeIs DEF IInv, TypeOK, HoldType, SyncRec, RecRec, RecPcs, Events
<1>3. MuInv' /\ AnnouncedIsVerified' /\ RefsExact'
  BY <1>1 DEF IInv, MuInv, AnnouncedIsVerified, RefsExact
<1>4. HoldInv'
  <2>1. current.rev \in Nat /\ current'.rev \in Nat
    BY TypeIs DEF IInv
  <2>2. \A h \in Holders : hold[h].rev \in Nat
    BY DEF IInv, HoldType
  <2> QED BY <1>1, <2>1, <2>2 DEF IInv, HoldInv
<1> QED BY <1>2, <1>3, <1>4 DEF IInv

(* A step that announces nothing and after which its call has nothing to   *)
(* announce *)
LEMMA SilentStep ==
  ASSUME IInv, NEW r \in Recomputers, rec'[r].pc \notin {"swapped", "publish"},
         \A q \in Recomputers : q # r => rec'[q] = rec[q],
         published' = published, current'.rev \in Nat, current'.rev >= current.rev
  PROVE  RevisionInv' /\ PublishedInv' /\ OneRevisionAtATime'
<1>1. /\ current.rev \in Nat /\ published \in Seq(Events) /\ rec \in [Recomputers -> RecRec]
  BY TypeIs DEF IInv
<1>2. \A q \in Recomputers : rec[q].rev \in Nat
  BY <1>1 DEF RecRec
<1>3. \A i \in 1 .. Len(published) : published[i].rev \in Nat
  <2>1. \A i \in 1 .. Len(published) : published[i] \in Events
    BY <1>1
  <2> QED BY <2>1 DEF Events
<1>4. RevisionInv'
  BY <1>1, <1>2, <1>3 DEF IInv, RevisionInv, Announcing
<1>5. PublishedInv'
  BY DEF IInv, PublishedInv
<1>6. OneRevisionAtATime'
  BY DEF IInv, OneRevisionAtATime
<1> QED BY <1>4, <1>5, <1>6

(* The count of calls against the count of revisions *)
LEMMA RecomputedFinite == IsFiniteSet(Recomputed) /\ Cardinality(Recomputed) \in Nat
<1>1. IsFiniteSet(Recomputed)
  BY GoroutinesAssumption, FS_Subset DEF Recomputed
<1> QED BY <1>1, FS_CardinalityType

LEMMA CountStep ==
  ASSUME IInv, UNCHANGED sync, current'.rev \in Nat, queue' \in Seq(Sources),
         Cardinality(Recomputed') \in Nat,
         current'.rev + Len(queue') + WorkerDue' + Cardinality(Recomputed)
           <= current.rev + Len(queue) + WorkerDue + Cardinality(Recomputed')
  PROVE  CountInv'
<1>1. Synced' = Synced /\ Cardinality(Synced) \in Nat
  BY SyncedFinite DEF Synced
<1>2. /\ current.rev \in Nat /\ Len(queue) \in Nat /\ Len(queue') \in Nat
      /\ WorkerDue \in Nat /\ WorkerDue' \in Nat /\ Cardinality(Recomputed) \in Nat
  BY TypeIs, RecomputedFinite DEF IInv, WorkerDue
<1>3. current.rev + Len(queue) + WorkerDue <= Cardinality(Synced) + Cardinality(Recomputed)
  BY DEF IInv, CountInv
<1> DEFINE a == current.rev + Len(queue) + WorkerDue
           b == current'.rev + Len(queue') + WorkerDue'
           d == Cardinality(Synced)  e == Cardinality(Recomputed)  f == Cardinality(Recomputed')
<1>4. a \in Nat /\ b \in Nat /\ d \in Nat /\ e \in Nat /\ f \in Nat
  <2>1. a \in Nat
    BY <1>2, SumOfThree
  <2>2. b \in Nat
    BY <1>2, SumOfThree
  <2> QED BY <1>1, <1>2, <2>1, <2>2
<1>5. b + e <= a + f /\ a <= d + e
  BY <1>2, <1>3
<1>6. b <= d + f
  <2> HIDE DEF a, b, d, e, f
  <2> QED BY <1>4, <1>5
<1>7. current'.rev + Len(queue') + WorkerDue' <= Cardinality(Synced) + Cardinality(Recomputed')
  BY <1>6
<1> QED BY <1>1, <1>7 DEF CountInv

Past == {"swapped", "publish", "done"}
Due(stage) == IF stage \in {"lock", "scan"} THEN 1 ELSE 0

(* How a step of one recomputer changes the two counts *)
LEMMA CountsMove ==
  ASSUME IInv, NEW r \in Recomputers, \A q \in Recomputers : q # r => rec'[q] = rec[q],
         rec[r].pc \in Past => rec'[r].pc \in Past
  PROVE  /\ Cardinality(Recomputed') \in Nat /\ Cardinality(Recomputed) \in Nat
         /\ r = "worker" => /\ Recomputed' = Recomputed
                            /\ WorkerDue = Due(rec[r].pc) /\ WorkerDue' = Due(rec'[r].pc)
         /\ r # "worker" => /\ WorkerDue' = WorkerDue
                            /\ Cardinality(Recomputed') = Cardinality(Recomputed) +
                                 IF rec[r].pc \notin Past /\ rec'[r].pc \in Past THEN 1 ELSE 0
<1>1. IsFiniteSet(Recomputed) /\ Cardinality(Recomputed) \in Nat
  BY RecomputedFinite
<1>2. CASE r = "worker"
  <2>1. Recomputed' = Recomputed
    BY <1>2, NamesApart DEF Recomputed
  <2>2. WorkerDue = Due(rec[r].pc) /\ WorkerDue' = Due(rec'[r].pc)
    BY <1>2 DEF WorkerDue, Due
  <2> QED BY <1>1, <1>2, <2>1, <2>2
<1>3. CASE r # "worker"
  <2>1. r \in Callers /\ WorkerDue' = WorkerDue
    BY <1>3, NamesApart DEF WorkerDue
  <2>2. CASE rec[r].pc \notin Past /\ rec'[r].pc \in Past
    <3>1. Recomputed' = Recomputed \cup {r} /\ r \notin Recomputed
      BY <2>1, <2>2, NamesApart DEF Recomputed, Past
    <3>2. Cardinality(Recomputed') = Cardinality(Recomputed) + 1
      BY <1>1, <3>1, FS_AddElement
    <3> QED BY <1>1, <1>3, <2>1, <2>2, <3>2
  <2>3. CASE ~(rec[r].pc \notin Past /\ rec'[r].pc \in Past)
    <3>1. Recomputed' = Recomputed
      BY <2>1, <2>3, NamesApart DEF Recomputed, Past
    <3> QED BY <1>1, <1>3, <2>1, <2>3, <3>1
  <2> QED BY <2>2, <2>3
<1> QED BY <1>2, <1>3

(* The steps of a recompute up to its swap: they announce nothing. *)
LEMMA UnannouncedKeeps ==
  ASSUME IInv, NEW r \in Recomputers, rec[r].pc \in {"idle", "lock", "scan"},
         rec' \in [Recomputers -> RecRec], rec'[r].pc \in {"idle", "lock", "scan", "done"},
         \A q \in Recomputers : q # r => rec'[q] = rec[q],
         UNCHANGED <<disk, populated, schedVars, publishMu, current, retiring, published,
                     holdVars>>,
         untold' \subseteq Sources, queue' \in Seq(Sources),
         \A q \in Recomputers : rec'[q].pc = "scan" <=> recomputeMu' = q,
         BegunInv', ScanInv', CurrentInv',
         current.rev + Len(queue') + WorkerDue' + Cardinality(Recomputed)
           <= current.rev + Len(queue) + WorkerDue + Cardinality(Recomputed')
  PROVE  IInv'
<1>1. /\ current \in [rev : Nat, snap : Snapshot] /\ published \in Seq(Events)
      /\ retiring \subseteq 0 .. current.rev - 1
      /\ \A q \in Recomputers : rec[q].pc = "publish" <=> publishMu = q
  BY TypeIs DEF IInv
<1>2. /\ current' = current /\ published' = published /\ current.rev \in Nat
      /\ current'.rev >= current.rev /\ current'.rev \in Nat
  BY <1>1
<1>3. \A q \in Recomputers : rec'[q].pc = "publish" <=> publishMu' = q
  BY <1>1
<1>4. RevisionInv' /\ PublishedInv' /\ OneRevisionAtATime'
  BY <1>2, SilentStep
<1>5. Cardinality(Recomputed') \in Nat
  BY GoroutinesAssumption, FS_Subset, FS_CardinalityType DEF Recomputed
<1>6. CountInv'
  BY <1>2, <1>5, CountStep DEF schedVars
<1> QED BY <1>1, <1>2, <1>3, <1>4, <1>6, RecomputeRule

(* The worker takes an announcement: its source stays pending. *)
LEMMA RecomputeCallKeeps ==
  ASSUME IInv, NEW r \in Recomputers, RecomputeCall(r) PROVE IInv'
<1> USE DEF IInv
<1>1. /\ rec[r].pc = "idle" /\ (r = "worker" => queue # <<>>)
      /\ rec' = [rec EXCEPT ![r].pc = "lock", ![r].src = IF r = "worker" THEN Head(queue) ELSE 0]
      /\ queue' = IF r = "worker" THEN Tail(queue) ELSE queue
      /\ UNCHANGED <<disk, untold, populated, schedVars, recomputeMu, publishMu,
                     current, retiring, published, holdVars>>
  BY DEF RecomputeCall
<1>2. queue \in Seq(Sources) /\ rec \in [Recomputers -> RecRec] /\ untold \subseteq Sources
      /\ current.rev \in Nat /\ \A q \in Recomputers : rec[q].pc = "scan" <=> recomputeMu = q
  BY TypeIs
<1>3. r = "worker" =>
        /\ queue' \in Seq(Sources) /\ Len(queue') = Len(queue) - 1 /\ Len(queue) \in Nat
        /\ Head(queue) \in Sources /\ \A x : x \in Queued => x \in Queued' \/ x = Head(queue)
  BY <1>1, <1>2, QueueShrinks
<1>4. r # "worker" => queue' = queue /\ Queued' = Queued
  BY <1>1 DEF Queued
<1>5. PICK v : v = (IF r = "worker" THEN Head(queue) ELSE 0)
  OBVIOUS
<1>6. v \in 0 .. N
  BY <1>3, <1>5, NamesApart DEF Sources
<1>7. rec' = [rec EXCEPT ![r].pc = "lock", ![r].src = v]
  BY <1>1, <1>5
<1>8. /\ rec' \in [Recomputers -> RecRec]
      /\ \A q \in Recomputers : q # r => rec'[q] = rec[q]
  <2>1. "lock" \in RecPcs
    BY DEF RecPcs
  <2> QED BY ZenonT(40), <1>2, <1>6, <1>7, <2>1 DEF RecRec
<1>9. /\ rec'[r].pc = "lock" /\ rec'[r].src = v /\ rec'[r].next = rec[r].next
      /\ rec'[r].snap = rec[r].snap
  BY <1>2, <1>7 DEF RecRec
<1>10. \A s \in Sources : Pending(s) => Pending(s)'
  <2> SUFFICES ASSUME NEW s \in Sources, Pending(s) PROVE Pending(s)'
    OBVIOUS
  <2>1. CASE r = "worker"
    BY <1>1, <1>3, <1>5, <1>9, <2>1 DEF Pending, Awaited
  <2>2. CASE r # "worker"
    BY <1>1, <1>4, <1>8, <2>2, NamesApart DEF Pending, Awaited
  <2> QED BY <2>1, <2>2
<1>11. BegunInv'
  <2>1. ASSUME NEW q \in Recomputers, rec'[q].pc \in {"idle", "lock"}
        PROVE  rec'[q].next = 1 /\ rec'[q].snap.bad = {}
    BY <1>1, <1>8, <1>9, <2>1 DEF BegunInv
  <2>2. ASSUME rec'["worker"].pc \in {"lock", "scan"} PROVE rec'["worker"].src \in Sources
    BY <1>3, <1>5, <1>8, <1>9, <2>2, NamesApart DEF BegunInv
  <2> QED BY <2>1, <2>2 DEF BegunInv
<1>12. ScanInv'
  BY <1>1, <1>8, <1>9, <1>10 DEF ScanInv
<1>13. CurrentInv'
  <2>1. rec'["worker"].pc = "scan" => rec["worker"] = rec'["worker"]
    BY <1>8, <1>9, NamesApart
  <2>2. rec["worker"].pc = "scan" => rec["worker"] = rec'["worker"]
    BY <1>1, <1>8, NamesApart
  <2> QED BY <1>1, <1>10, <2>1, <2>2 DEF CurrentInv
<1>14. \A q \in Recomputers : rec'[q].pc = "scan" <=> recomputeMu' = q
  BY <1>1, <1>2, <1>8, <1>9
<1>15. current.rev + Len(queue') + WorkerDue' + Cardinality(Recomputed)
         <= current.rev + Len(queue) + WorkerDue + Cardinality(Recomputed')
  <2>1. /\ Cardinality(Recomputed') \in Nat /\ Cardinality(Recomputed) \in Nat
        /\ r = "worker" => Recomputed' = Recomputed /\ WorkerDue = 0 /\ WorkerDue' = 1
        /\ r # "worker" => WorkerDue' = WorkerDue /\ Cardinality(Recomputed') = Cardinality(Recomputed)
    BY <1>1, <1>8, <1>9, CountsMove DEF Past, Due
  <2>2. Len(queue) \in Nat /\ WorkerDue \in Nat
    BY <1>2 DEF WorkerDue
  <2>3. CASE r = "worker"
    BY <1>2, <1>3, <2>1, <2>2, <2>3
  <2>4. CASE r # "worker"
    BY <1>2, <1>4, <2>1, <2>2, <2>4
  <2> QED BY <2>3, <2>4
<1>16. queue' \in Seq(Sources)
  BY <1>2, <1>3, <1>4
<1> QED BY <1>1, <1>2, <1>8, <1>9, <1>11, <1>12, <1>13, <1>14, <1>15, <1>16, UnannouncedKeeps

(* It has the mutex: what was announced before is now its to read. *)
LEMMA RecomputeLockKeeps ==
  ASSUME IInv, NEW r \in Recomputers, RecomputeLock(r) PROVE IInv'
<1> USE DEF IInv
<1>1. /\ rec[r].pc = "lock" /\ recomputeMu = None /\ recomputeMu' = r
      /\ rec' = [rec EXCEPT ![r].pc = "scan"]
      /\ UNCHANGED <<disk, untold, populated, schedVars, queue, publishMu, current,
                     retiring, published, holdVars>>
  BY DEF RecomputeLock
<1>2. queue \in Seq(Sources) /\ rec \in [Recomputers -> RecRec] /\ untold \subseteq Sources
      /\ current.rev \in Nat /\ \A q \in Recomputers : rec[q].pc = "scan" <=> recomputeMu = q
  BY TypeIs
<1>3. /\ rec' \in [Recomputers -> RecRec]
      /\ \A q \in Recomputers : q # r => rec'[q] = rec[q]
  <2>1. "scan" \in RecPcs
    BY DEF RecPcs
  <2> QED BY ZenonT(40), <1>1, <1>2, <2>1 DEF RecRec
<1>4. /\ rec'[r].pc = "scan" /\ rec'[r].src = rec[r].src /\ rec'[r].next = rec[r].next
      /\ rec'[r].snap = rec[r].snap
  BY <1>1, <1>2 DEF RecRec
<1>5. \A q \in Recomputers : rec[q].pc # "scan"
  BY <1>1, <1>2, NamesApart
<1>6. \A q \in Recomputers : rec'[q].pc = "scan" <=> recomputeMu' = q
  BY <1>1, <1>3, <1>4, <1>5
<1>7. BegunInv'
  <2>1. ASSUME NEW q \in Recomputers, rec'[q].pc \in {"idle", "lock"}
        PROVE  rec'[q].next = 1 /\ rec'[q].snap.bad = {}
    BY <1>3, <1>4, <2>1 DEF BegunInv
  <2>2. ASSUME rec'["worker"].pc \in {"lock", "scan"} PROVE rec'["worker"].src \in Sources
    BY <1>1, <1>3, <1>4, <2>2, NamesApart DEF BegunInv
  <2> QED BY <2>1, <2>2 DEF BegunInv
<1>8. ScanInv'
  <2> SUFFICES ASSUME NEW q \in Recomputers, rec'[q].pc = "scan", NEW s \in Sources,
                      s < rec'[q].next
               PROVE  FALSE
    BY DEF ScanInv
  <2>1. q = r
    BY <1>3, <1>5
  <2>2. s < 1
    BY <1>1, <1>4, <2>1 DEF BegunInv
  <2> QED BY <2>2, NamesApart DEF Sources
<1>9. CurrentInv'
  <2> SUFFICES ASSUME NEW s \in Sources, ~Pending(s)',
                      ~(rec'["worker"].pc = "scan" /\ rec'["worker"].src = s)
               PROVE  current.snap.scan[s] = disk[s]
    BY <1>1 DEF CurrentInv
  <2>1. ~Pending(s)
    BY <1>1, <1>3, <1>4, NamesApart DEF Pending, Awaited, Queued
  <2> QED BY <1>5, <2>1, NamesApart DEF CurrentInv
<1>10. current.rev + Len(queue') + WorkerDue' + Cardinality(Recomputed)
         <= current.rev + Len(queue) + WorkerDue + Cardinality(Recomputed')
  <2>1. /\ Cardinality(Recomputed') \in Nat /\ Cardinality(Recomputed) \in Nat
        /\ r = "worker" => Recomputed' = Recomputed /\ WorkerDue = 1 /\ WorkerDue' = 1
        /\ r # "worker" => WorkerDue' = WorkerDue /\ Cardinality(Recomputed') = Cardinality(Recomputed)
    BY <1>1, <1>3, <1>4, CountsMove DEF Past, Due
  <2>2. WorkerDue' = WorkerDue /\ Cardinality(Recomputed') = Cardinality(Recomputed)
        /\ queue' = queue
    BY <1>1, <2>1
  <2>3. current.rev + Len(queue) + WorkerDue \in Nat
    BY <1>2, SumOfThree DEF WorkerDue
  <2> QED BY <2>1, <2>2, <2>3
<1> QED BY <1>1, <1>2, <1>3, <1>4, <1>6, <1>7, <1>8, <1>9, <1>10, UnannouncedKeeps

LEMMA MergeIs ==
  ASSUME NEW snap \in Snapshot, NEW s \in Sources, NEW found \in SUBSET Tools
  PROVE  /\ Merge(snap, s, found) \in Snapshot
         /\ Merge(snap, s, found).bad = snap.bad
         /\ Merge(snap, s, found).scan[s] = found
         /\ \A x \in Sources : x # s => Merge(snap, s, found).scan[x] = snap.scan[x]
<1>1. s \in 0 .. N
  BY NamesApart DEF Sources
<1>2. /\ snap.tools \in [Tools -> 0 .. N] /\ snap.scan \in [Sources -> SUBSET Tools]
      /\ snap.bad \in SUBSET Sources
  BY DEF Snapshot
<1>3. /\ Merge(snap, s, found).bad = snap.bad
      /\ Merge(snap, s, found).scan = [snap.scan EXCEPT ![s] = found]
      /\ Merge(snap, s, found).tools
           = [t \in Tools |-> IF t \in found /\ snap.tools[t] = 0 THEN s ELSE snap.tools[t]]
      /\ Merge(snap, s, found) = [tools |-> Merge(snap, s, found).tools,
              scan |-> Merge(snap, s, found).scan, bad |-> Merge(snap, s, found).bad]
  <2>1. DOMAIN snap = {"tools", "scan", "bad"}
    BY DEF Snapshot
  <2> DEFINE won == [t \in Tools |-> IF t \in found /\ snap.tools[t] = 0 THEN s ELSE snap.tools[t]]
  <2>2. Merge(snap, s, found) = [snap EXCEPT !.tools = won, !.scan[s] = found]
    BY DEF Merge
  <2> HIDE DEF won
  <2>3. snap = [tools |-> snap.tools, scan |-> snap.scan, bad |-> snap.bad]
    BY DEF Snapshot
  <2>4. [snap EXCEPT !.tools = won, !.scan[s] = found]
          = [tools |-> won, scan |-> [snap.scan EXCEPT ![s] = found], bad |-> snap.bad]
    <3>1. PICK tt, ss, bb : snap = [tools |-> tt, scan |-> ss, bad |-> bb]
      BY <2>3
    <3>2. /\ [snap EXCEPT !.tools = won] = [tools |-> won, scan |-> ss, bad |-> bb]
          /\ snap.scan = ss /\ snap.bad = bb
      BY <3>1
    <3>3. [snap EXCEPT !.tools = won, !.scan[s] = found]
            = [[snap EXCEPT !.tools = won] EXCEPT !.scan[s] = found]
      OBVIOUS
    <3>4. [[tools |-> won, scan |-> ss, bad |-> bb] EXCEPT !.scan[s] = found]
            = [tools |-> won, scan |-> [ss EXCEPT ![s] = found], bad |-> bb]
      OBVIOUS
    <3> QED BY <3>2, <3>3, <3>4
  <2>5. Merge(snap, s, found)
          = [tools |-> won, scan |-> [snap.scan EXCEPT ![s] = found], bad |-> snap.bad]
    BY <2>2, <2>4
  <2>6. won = [t \in Tools |-> IF t \in found /\ snap.tools[t] = 0 THEN s ELSE snap.tools[t]]
    BY DEF won
  <2> QED BY <2>5, <2>6
<1>4. /\ Merge(snap, s, found).tools \in [Tools -> 0 .. N]
      /\ Merge(snap, s, found).scan \in [Sources -> SUBSET Tools]
  BY <1>1, <1>2, <1>3
<1> QED BY <1>2, <1>3, <1>4 DEF Snapshot

(* The scan of one source *)
LEMMA ScanningKeeps ==
  ASSUME IInv, NEW r \in Recomputers, rec[r].pc = "scan",
         rec' \in [Recomputers -> RecRec], rec'[r].pc = "scan", rec'[r].src = rec[r].src,
         \A q \in Recomputers : q # r => rec'[q] = rec[q],
         UNCHANGED <<disk, untold, populated, schedVars, queue, recomputeMu, publishMu, current,
                     retiring, published, holdVars>>,
         \A s \in Sources : s < rec'[r].next /\ s \notin rec'[r].snap.bad /\ ~Pending(s) =>
           rec'[r].snap.scan[s] = disk[s]
  PROVE  IInv'
<1> USE DEF IInv
<1>1. queue \in Seq(Sources) /\ untold \subseteq Sources /\ current.rev \in Nat
      /\ \A q \in Recomputers : rec[q].pc = "scan" <=> recomputeMu = q
  BY TypeIs
<1>2. \A q \in Recomputers : rec'[q].pc = "scan" <=> recomputeMu' = q
  BY <1>1
<1>3. \A q \in Recomputers : rec'[q].pc = rec[q].pc /\ rec'[q].src = rec[q].src
  OBVIOUS
<1>4. \A s : Pending(s)' <=> Pending(s)
  BY <1>3, NamesApart DEF Pending, Awaited, Queued
<1>5. BegunInv'
  <2>1. ASSUME NEW q \in Recomputers, rec'[q].pc \in {"idle", "lock"}
        PROVE  rec'[q].next = 1 /\ rec'[q].snap.bad = {}
    BY <2>1 DEF BegunInv
  <2>2. ASSUME rec'["worker"].pc \in {"lock", "scan"} PROVE rec'["worker"].src \in Sources
    BY <1>3, <2>2, NamesApart DEF BegunInv
  <2> QED BY <2>1, <2>2 DEF BegunInv
<1>6. ScanInv'
  <2> SUFFICES ASSUME NEW q \in Recomputers, rec'[q].pc = "scan", NEW s \in Sources,
                      s < rec'[q].next, s \notin rec'[q].snap.bad, ~Pending(s)
               PROVE  rec'[q].snap.scan[s] = disk[s]
    BY <1>4 DEF ScanInv
  <2> QED BY DEF ScanInv
<1>7. CurrentInv'
  BY <1>3, <1>4, NamesApart DEF CurrentInv
<1>8. current.rev + Len(queue') + WorkerDue' + Cardinality(Recomputed)
         <= current.rev + Len(queue) + WorkerDue + Cardinality(Recomputed')
  <2>1. Recomputed' = Recomputed /\ WorkerDue' = WorkerDue
    BY <1>3, NamesApart DEF Recomputed, WorkerDue
  <2>2. current.rev + Len(queue) + WorkerDue \in Nat
    BY <1>1, SumOfThree DEF WorkerDue
  <2> QED BY <2>1, <2>2, RecomputedFinite
<1> QED BY <1>1, <1>2, <1>5, <1>6, <1>7, <1>8, UnannouncedKeeps

LEMMA ScanSourceKeeps ==
  ASSUME IInv, NEW r \in Recomputers, ScanSource(r) PROVE IInv'
<1> USE DEF IInv
<1>1. PICK s : s = rec[r].next
  OBVIOUS
<1>2. PICK snap : snap = Merge(rec[r].snap, s, disk[s])
  OBVIOUS
<1>3. PICK sh : sh = rec[r].shadows
                     \cup {<<t, s>> : t \in {u \in disk[s] : rec[r].snap.tools[u] # 0}}
  OBVIOUS
<1>4. /\ rec[r].pc = "scan" /\ s \in Sources
      /\ rec' = [rec EXCEPT ![r].next = s + 1, ![r].snap = snap, ![r].shadows = sh]
      /\ UNCHANGED <<disk, untold, populated, schedVars, queue, recomputeMu,
                     publishMu, current, retiring, published, holdVars>>
  BY <1>1, <1>2, <1>3 DEF ScanSource
<1>5. /\ rec \in [Recomputers -> RecRec] /\ disk[s] \in SUBSET Tools /\ rec[r].snap \in Snapshot
      /\ rec[r].shadows \in SUBSET (Tools \X Sources)
  BY <1>4, TypeIs DEF RecRec
<1>6. /\ snap \in Snapshot /\ snap.bad = rec[r].snap.bad /\ snap.scan[s] = disk[s]
      /\ \A x \in Sources : x # s => snap.scan[x] = rec[r].snap.scan[x]
  BY <1>2, <1>4, <1>5, MergeIs
<1>7. sh \in SUBSET (Tools \X Sources)
  BY <1>3, <1>4, <1>5
<1>8. s + 1 \in 1 .. N + 1
  BY <1>4, NamesApart DEF Sources
<1>9. /\ rec' \in [Recomputers -> RecRec]
      /\ \A q \in Recomputers : q # r => rec'[q] = rec[q]
  <2>1. PICK n : n = s + 1
    OBVIOUS
  <2>2. rec' = [rec EXCEPT ![r].next = n, ![r].snap = snap, ![r].shadows = sh]
    BY <1>4, <2>1
  <2>3. n \in 1 .. N + 1
    BY <1>8, <2>1
  <2>4. PICK o \in RecRec : o = rec[r]
    BY <1>5
  <2>5. PICK x : x = [o EXCEPT !.next = n, !.snap = snap, !.shadows = sh]
    OBVIOUS
  <2>6. x \in RecRec
    BY <1>6, <1>7, <2>3, <2>5 DEF RecRec
  <2>7. rec' = [rec EXCEPT ![r] = x]
    BY <1>5, <2>2, <2>4, <2>5
  <2> QED BY <1>5, <2>6, <2>7
<1>10. /\ rec'[r].pc = "scan" /\ rec'[r].src = rec[r].src /\ rec'[r].next = s + 1
       /\ rec'[r].snap = snap
  BY <1>4, <1>5 DEF RecRec
<1>11. ASSUME NEW x \in Sources, x < rec'[r].next, x \notin rec'[r].snap.bad, ~Pending(x)
       PROVE  rec'[r].snap.scan[x] = disk[x]
  <2>1. x = s \/ x < s
    BY <1>4, <1>10, <1>11 DEF Sources
  <2>2. x < s => rec[r].snap.scan[x] = disk[x]
    BY <1>1, <1>4, <1>6, <1>10, <1>11 DEF ScanInv
  <2>3. x < s => x # s
    BY <1>4 DEF Sources
  <2> QED BY <1>6, <1>10, <2>1, <2>2, <2>3
<1> QED BY <1>4, <1>9, <1>10, <1>11, ScanningKeeps

LEMMA ScanFailsKeeps ==
  ASSUME IInv, NEW r \in Recomputers, ScanFails(r) PROVE IInv'
<1> USE DEF IInv
<1>1. PICK s : s = rec[r].next
  OBVIOUS
<1>2. PICK snap : snap = [rec[r].snap EXCEPT !.bad = @ \cup {s}]
  OBVIOUS
<1>3. rec \in [Recomputers -> RecRec] /\ rec[r].snap \in Snapshot
  BY TypeIs DEF RecRec
<1>4. /\ rec[r].pc = "scan" /\ s \in Sources
      /\ rec' = [rec EXCEPT ![r].next = s + 1, ![r].snap = snap]
      /\ UNCHANGED <<disk, untold, populated, schedVars, queue, recomputeMu,
                     publishMu, current, retiring, published, holdVars>>
  <2>1. rec' = [rec EXCEPT ![r].next = s + 1, ![r].snap.bad = @ \cup {s}]
    BY <1>1 DEF ScanFails
  <2>2. rec' = [rec EXCEPT ![r].next = s + 1, ![r].snap = snap]
    BY <1>2, <1>3, <2>1 DEF RecRec
  <2> QED BY <1>1, <2>2 DEF ScanFails
<1>5. /\ snap \in Snapshot /\ snap.bad = rec[r].snap.bad \cup {s} /\ snap.scan = rec[r].snap.scan
  BY <1>2, <1>3, <1>4 DEF Snapshot
<1>6. s + 1 \in 1 .. N + 1
  BY <1>4, NamesApart DEF Sources
<1>7. /\ rec' \in [Recomputers -> RecRec]
      /\ \A q \in Recomputers : q # r => rec'[q] = rec[q]
  BY ZenonT(40), <1>3, <1>4, <1>5, <1>6 DEF RecRec
<1>8. /\ rec'[r].pc = "scan" /\ rec'[r].src = rec[r].src /\ rec'[r].next = s + 1
      /\ rec'[r].snap = snap
  BY <1>3, <1>4 DEF RecRec
<1>9. ASSUME NEW x \in Sources, x < rec'[r].next, x \notin rec'[r].snap.bad, ~Pending(x)
      PROVE  rec'[r].snap.scan[x] = disk[x]
  <2>1. x # s /\ x < s + 1
    BY <1>5, <1>8, <1>9
  <2>2. x < s
    BY <1>4, <2>1 DEF Sources
  <2> QED BY <1>1, <1>4, <1>5, <1>8, <1>9, <2>2 DEF ScanInv
<1> QED BY <1>4, <1>7, <1>8, <1>9, ScanningKeeps

LEMMA ReturnedIs ==
  ASSUME NEW r \in Recomputers
  PROVE  /\ Returned(r) \in RecRec /\ Returned(r).next = 1 /\ Returned(r).snap.bad = {}
         /\ Returned(r).pc = IF r = "worker" THEN "idle" ELSE "done"
<1>1. Empty \in Snapshot /\ Empty.bad = {}
  BY NamesApart DEF Empty, Snapshot
<1>2. PICK p : p = (IF r = "worker" THEN "idle" ELSE "done")
  OBVIOUS
<1>3. p \in RecPcs
  BY <1>2 DEF RecPcs
<1>4. Returned(r) = [pc |-> p, src |-> 0, next |-> 1, rev |-> 0, snap |-> Empty, shadows |-> {}]
  BY <1>2 DEF Returned, Fresh0
<1>5. 1 \in 1 .. N + 1 /\ 0 \in 0 .. N
  BY NamesApart
<1> HIDE DEF Empty
<1> QED BY <1>1, <1>2, <1>3, <1>4, <1>5 DEF RecRec

(* A cancelled recompute of the worker's leaves its source untold. *)
LEMMA ScanCancelledKeeps ==
  ASSUME IInv, NEW r \in Recomputers, ScanCancelled(r) PROVE IInv'
<1> USE DEF IInv
<1>1. PICK x : x = Returned(r)
  OBVIOUS
<1>2. /\ rec[r].pc = "scan" /\ recomputeMu' = None /\ rec' = [rec EXCEPT ![r] = x]
      /\ untold' = IF r = "worker" THEN untold \cup {rec[r].src} ELSE untold
      /\ UNCHANGED <<disk, populated, schedVars, queue, publishMu, current, retiring,
                     published, holdVars>>
  BY <1>1 DEF ScanCancelled
<1>3. /\ x \in RecRec /\ x.next = 1 /\ x.snap.bad = {}
      /\ x.pc = IF r = "worker" THEN "idle" ELSE "done"
  BY <1>1, ReturnedIs
<1>4. queue \in Seq(Sources) /\ rec \in [Recomputers -> RecRec] /\ untold \subseteq Sources
      /\ current.rev \in Nat /\ \A q \in Recomputers : rec[q].pc = "scan" <=> recomputeMu = q
  BY TypeIs
<1>5. /\ rec' \in [Recomputers -> RecRec] /\ rec'[r] = x
      /\ \A q \in Recomputers : q # r => rec'[q] = rec[q]
  BY <1>2, <1>3, <1>4
<1>6. \A q \in Recomputers : q # r => rec[q].pc # "scan"
  BY <1>2, <1>4
<1>7. \A q \in Recomputers : rec'[q].pc = "scan" <=> recomputeMu' = q
  BY <1>2, <1>3, <1>5, <1>6, NamesApart
<1>8. untold' \subseteq Sources
  BY <1>2, <1>4, NamesApart DEF BegunInv
<1>9. BegunInv'
  BY <1>3, <1>5, NamesApart DEF BegunInv
<1>10. ScanInv'
  BY <1>3, <1>5, <1>6 DEF ScanInv
<1>11. CurrentInv'
  <2> SUFFICES ASSUME NEW s \in Sources, ~Pending(s)',
                      ~(rec'["worker"].pc = "scan" /\ rec'["worker"].src = s)
               PROVE  current.snap.scan[s] = disk[s]
    BY <1>2 DEF CurrentInv
  <2>1. CASE r = "worker"
    <3>1. s # rec[r].src /\ ~Pending(s)
      BY <1>2, <2>1 DEF Pending, Awaited, Queued
    <3> QED BY <2>1, <3>1 DEF CurrentInv
  <2>2. CASE r # "worker"
    <3>1. ~Pending(s) /\ rec'["worker"] = rec["worker"]
      BY <1>2, <1>5, <2>2, NamesApart DEF Pending, Awaited, Queued
    <3> QED BY <3>1 DEF CurrentInv
  <2> QED BY <2>1, <2>2
<1>12. current.rev + Len(queue') + WorkerDue' + Cardinality(Recomputed)
         <= current.rev + Len(queue) + WorkerDue + Cardinality(Recomputed')
  <2>1. /\ Cardinality(Recomputed') \in Nat /\ Cardinality(Recomputed) \in Nat
        /\ r = "worker" => Recomputed' = Recomputed /\ WorkerDue = 1 /\ WorkerDue' = 0
        /\ r # "worker" => WorkerDue' = WorkerDue
                           /\ Cardinality(Recomputed') = Cardinality(Recomputed) + 1
    BY <1>2, <1>3, <1>5, CountsMove DEF Past, Due
  <2>2. Len(queue) \in Nat /\ WorkerDue \in Nat /\ queue' = queue
    BY <1>2, <1>4 DEF WorkerDue
  <2>3. CASE r = "worker"
    BY <1>4, <2>1, <2>2, <2>3
  <2>4. CASE r # "worker"
    BY <1>4, <2>1, <2>2, <2>4
  <2> QED BY <2>3, <2>4
<1>13. rec'[r].pc \in {"idle", "done"}
  BY <1>3, <1>5
<1> QED BY <1>2, <1>4, <1>5, <1>7, <1>8, <1>9, <1>10, <1>11, <1>12, <1>13, UnannouncedKeeps

(* The swap, whatever its call does next: return or announce. *)
LEMMA SwapRule ==
  ASSUME IInv, NEW r \in Recomputers, NEW n, NEW x \in RecRec,
         n = current.rev + 1, rec[r].pc = "scan", rec[r].next \notin Sources,
         current' = [rev |-> n, snap |-> rec[r].snap],
         untold' = untold \cup rec[r].snap.bad,
         retiring' = IF KeepRetired THEN retiring \cup {current.rev} ELSE {},
         recomputeMu' = None, rec' = [rec EXCEPT ![r] = x],
         UNCHANGED <<disk, populated, schedVars, queue, publishMu, published, holdVars>>,
         \/ x.pc = "swapped" /\ x.rev = n
         \/ /\ x.pc = IF r = "worker" THEN "idle" ELSE "done"
            /\ x.next = 1 /\ x.snap.bad = {}
  PROVE  IInv'
<1> USE DEF IInv
<1>1. /\ queue \in Seq(Sources) /\ rec \in [Recomputers -> RecRec] /\ untold \subseteq Sources
      /\ current.rev \in Nat /\ retiring \subseteq 0 .. current.rev - 1
      /\ \A q \in Recomputers : /\ rec[q].pc = "scan" <=> recomputeMu = q
                                /\ rec[q].pc = "publish" <=> publishMu = q
      /\ published \in Seq(Events)
  BY TypeIs
<1>2. /\ rec[r].snap \in Snapshot /\ rec[r].snap.bad \subseteq Sources
      /\ rec[r].next \in 1 .. N + 1
  <2>1. rec[r] \in RecRec
    BY <1>1
  <2> QED BY <2>1 DEF RecRec, Snapshot
<1>3. /\ n \in Nat /\ current' \in [rev : Nat, snap : Snapshot] /\ current'.rev = n
      /\ current'.snap = rec[r].snap
  BY <1>1, <1>2
<1>4. /\ rec' \in [Recomputers -> RecRec] /\ rec'[r] = x
      /\ \A q \in Recomputers : q # r => rec'[q] = rec[q]
  BY <1>1
<1>5. x.pc \in {"swapped", "idle", "done"} /\ (r = "worker" => x.pc # "done")
      /\ (r # "worker" => x.pc # "idle")
  OBVIOUS
<1>6. \A q \in Recomputers : q # r => rec[q].pc # "scan"
  BY <1>1
<1>7. \A q \in Recomputers : /\ rec'[q].pc = "scan" <=> recomputeMu' = q
                             /\ rec'[q].pc = "publish" <=> publishMu' = q
  BY <1>1, <1>4, <1>5, <1>6, NamesApart
<1>8. BegunInv'
  BY <1>4, <1>5, NamesApart DEF BegunInv
<1>9. ScanInv'
  BY <1>4, <1>5, <1>6 DEF ScanInv
<1>10. CurrentInv'
  <2> SUFFICES ASSUME NEW s \in Sources, ~Pending(s)' PROVE rec[r].snap.scan[s] = disk[s]
    BY <1>3 DEF CurrentInv
  <2>1. ~Pending(s) /\ s \notin rec[r].snap.bad
    BY <1>4, NamesApart DEF Pending, Awaited, Queued
  <2>2. s < rec[r].next
    BY <1>2, NamesApart DEF Sources
  <2> QED BY <2>1, <2>2 DEF ScanInv
<1>11. \A i \in 1 .. Len(published) : published[i].rev \in Nat
  <2>1. \A i \in 1 .. Len(published) : published[i] \in Events
    BY <1>1
  <2> QED BY <2>1 DEF Events
<1>12. RevisionInv' /\ PublishedInv' /\ OneRevisionAtATime'
  <2>1. CASE x.pc = "swapped" /\ x.rev = n
    <3>1. \A q \in Recomputers : rec[q].rev \in Nat
      BY <1>1 DEF RecRec
    <3>2. \A q \in Recomputers : Announcing(q)' =>
            IF q = r THEN rec'[q].rev = n ELSE Announcing(q) /\ rec'[q].rev = rec[q].rev
      BY <1>4, <2>1 DEF Announcing
    <3>3. \A q \in Recomputers : Announcing(q) => rec[q].rev < n
      BY <1>1, <3>1 DEF RevisionInv
    <3>4. \A i \in 1 .. Len(published) : published[i].rev < n
      BY <1>1, <1>11 DEF RevisionInv
    <3>5. RevisionInv'
      <4>1. \A q \in Recomputers : Announcing(q)' => rec'[q].rev <= n
        BY <1>3, <3>1, <3>2, <3>3
      <4>2. \A p, q \in Recomputers :
              Announcing(p)' /\ Announcing(q)' /\ rec'[p].rev = rec'[q].rev => p = q
        BY <1>3, <3>1, <3>2, <3>3 DEF RevisionInv
      <4>3. \A i \in 1 .. Len(published) : published[i].rev <= n
        BY <1>3, <1>11, <3>4
      <4> QED BY <1>3, <4>1, <4>2, <4>3 DEF RevisionInv
    <3>6. PublishedInv'
      <4> SUFFICES ASSUME NEW q \in Recomputers, NEW i \in 1 .. Len(published),
                          published[i].rev = rec'[q].rev
                   PROVE  /\ rec'[q].pc # "swapped"
                          /\ rec'[q].pc = "publish" =>
                               /\ published[i].kind = "shadowed"
                               /\ \A j \in i .. Len(published) : published[j].rev = rec'[q].rev
        BY DEF PublishedInv
      <4>1. q # r
        BY <1>3, <1>4, <1>11, <2>1, <3>4
      <4> QED BY <1>4, <4>1 DEF PublishedInv
    <3>7. OneRevisionAtATime'
      BY DEF OneRevisionAtATime
    <3> QED BY <3>5, <3>6, <3>7
  <2>2. CASE x.pc # "swapped"
    BY <1>1, <1>3, <1>4, <1>5, <2>2, SilentStep
  <2> QED BY <2>1, <2>2
<1>13. CountInv'
  <2>1. /\ Cardinality(Recomputed') \in Nat /\ Cardinality(Recomputed) \in Nat
        /\ r = "worker" => Recomputed' = Recomputed /\ WorkerDue = 1 /\ WorkerDue' = 0
        /\ r # "worker" => WorkerDue' = WorkerDue
                           /\ Cardinality(Recomputed') = Cardinality(Recomputed) + 1
    BY <1>4, <1>5, CountsMove DEF Past, Due
  <2>2. Len(queue) \in Nat /\ WorkerDue \in Nat /\ queue' = queue
    BY <1>1 DEF WorkerDue
  <2>3. n + Len(queue') + WorkerDue' + Cardinality(Recomputed)
          <= current.rev + Len(queue) + WorkerDue + Cardinality(Recomputed')
    <3>1. CASE r = "worker"
      BY <1>1, <2>1, <2>2, <3>1
    <3>2. CASE r # "worker"
      BY SMTT(30), <1>1, <2>1, <2>2, <3>2
    <3> QED BY <3>1, <3>2
  <2> QED BY <1>1, <1>3, <2>1, <2>2, <2>3, CountStep DEF schedVars
<1>14. retiring' \subseteq 0 .. current'.rev - 1 /\ current'.rev >= current.rev
  <2> DEFINE m == current.rev
  <2>1. m \in Nat /\ n = m + 1 /\ retiring \subseteq 0 .. m - 1
    BY <1>1
  <2>2. retiring' \subseteq retiring \cup {m}
    OBVIOUS
  <2> HIDE DEF m
  <2>3. retiring' \subseteq 0 .. n - 1 /\ n >= m
    <3>1. 0 .. m - 1 \subseteq 0 .. n - 1 /\ m \in 0 .. n - 1 /\ n >= m
      BY <2>1
    <3> QED BY <2>1, <2>2, <3>1
  <2> QED BY <1>3, <2>3 DEF m
<1>15. untold' \subseteq Sources /\ queue' \in Seq(Sources) /\ published' \in Seq(Events)
  BY <1>1, <1>2
<1> QED BY <1>3, <1>4, <1>7, <1>8, <1>9, <1>10, <1>12, <1>13, <1>14, <1>15, RecomputeRule

(* Only one recompute scans: what it read of a source that is not pending *)
(* is still on disk when it swaps.                                        *)
LEMMA SwapKeeps ==
  ASSUME IInv, NEW r \in Recomputers, Swap(r) PROVE IInv'
<1> USE DEF IInv
<1>1. PICK n : n = current.rev + 1
  OBVIOUS
<1>2. /\ queue \in Seq(Sources) /\ rec \in [Recomputers -> RecRec] /\ untold \subseteq Sources
      /\ current.rev \in Nat /\ retiring \subseteq 0 .. current.rev - 1
      /\ \A q \in Recomputers : /\ rec[q].pc = "scan" <=> recomputeMu = q
                                /\ rec[q].pc = "publish" <=> publishMu = q
      /\ published \in Seq(Events)
  BY TypeIs
<1>3. PICK x : x = IF Wired THEN [rec[r] EXCEPT !.pc = "swapped", !.rev = n] ELSE Returned(r)
  OBVIOUS
<1>4. /\ rec[r].pc = "scan" /\ rec[r].next \notin Sources
      /\ current' = [rev |-> n, snap |-> rec[r].snap] /\ untold' = untold \cup rec[r].snap.bad
      /\ retiring' = IF KeepRetired THEN retiring \cup {current.rev} ELSE {}
      /\ recomputeMu' = None /\ rec' = [rec EXCEPT ![r] = x]
      /\ UNCHANGED <<disk, populated, schedVars, queue, publishMu, published, holdVars>>
  BY <1>1, <1>3 DEF Swap, retireEntry
<1>5. /\ rec[r] \in RecRec /\ rec[r].snap \in Snapshot /\ rec[r].snap.bad \subseteq Sources
      /\ rec[r].next \in 1 .. N + 1
  <2>1. rec[r] \in RecRec
    BY <1>2
  <2> QED BY <2>1 DEF RecRec, Snapshot
<1>6. n \in Nat /\ current' \in [rev : Nat, snap : Snapshot] /\ current'.rev = n
      /\ current'.snap = rec[r].snap
  BY <1>1, <1>2, <1>4, <1>5
<1>7. CASE Wired
  <2>1. x = [rec[r] EXCEPT !.pc = "swapped", !.rev = n]
    BY <1>3, <1>7
  <2>2. x \in RecRec /\ x.pc = "swapped" /\ x.rev = n
    <3>1. "swapped" \in RecPcs
      BY DEF RecPcs
    <3> QED BY <1>5, <1>6, <2>1, <3>1 DEF RecRec
  <2> QED BY <2>2, SwapRule, <1>1, <1>2, <1>4, <1>5, <1>6
<1>8. CASE ~Wired
  <2>1. x = Returned(r)
    BY <1>3, <1>8
  <2>2. x \in RecRec /\ x.next = 1 /\ x.snap.bad = {}
        /\ x.pc = IF r = "worker" THEN "idle" ELSE "done"
    BY <2>1, ReturnedIs
  <2> QED BY <2>2, SwapRule, <1>1, <1>2, <1>4, <1>5, <1>6
<1> QED BY <1>7, <1>8

(* Announcing changes neither count. *)
LEMMA QuietCount ==
  ASSUME IInv, NEW r \in Recomputers, rec[r].pc \in {"swapped", "publish"},
         rec'[r].pc = "publish" \/ rec'[r].pc = IF r = "worker" THEN "idle" ELSE "done",
         \A q \in Recomputers : q # r => rec'[q] = rec[q],
         UNCHANGED <<schedVars, queue, current>>
  PROVE  CountInv'
<1>1. Recomputed' = Recomputed /\ WorkerDue' = WorkerDue
  BY NamesApart DEF Recomputed, WorkerDue
<1>2. Synced' = Synced
  BY DEF schedVars, Synced
<1> QED BY <1>1, <1>2 DEF IInv, CountInv

(* It has publishMu, and nothing of its revision is out yet. *)
LEMMA PublishLockKeeps ==
  ASSUME IInv, NEW r \in Recomputers, PublishLock(r) PROVE IInv'
<1> USE DEF IInv
<1>1. /\ rec[r].pc = "swapped" /\ publishMu = None /\ publishMu' = r
      /\ rec' = [rec EXCEPT ![r].pc = "publish"]
      /\ UNCHANGED <<disk, untold, populated, schedVars, queue, recomputeMu, current,
                     retiring, published, holdVars>>
  BY DEF PublishLock
<1>2. /\ queue \in Seq(Sources) /\ rec \in [Recomputers -> RecRec] /\ untold \subseteq Sources
      /\ current \in [rev : Nat, snap : Snapshot] /\ retiring \subseteq 0 .. current.rev - 1
      /\ \A q \in Recomputers : /\ rec[q].pc = "scan" <=> recomputeMu = q
                                /\ rec[q].pc = "publish" <=> publishMu = q
      /\ published \in Seq(Events)
  BY TypeIs
<1>3. /\ rec' \in [Recomputers -> RecRec]
      /\ \A q \in Recomputers : q # r => rec'[q] = rec[q]
  <2>1. "publish" \in RecPcs
    BY DEF RecPcs
  <2> QED BY ZenonT(40), <1>1, <1>2, <2>1 DEF RecRec
<1>4. rec'[r].pc = "publish" /\ rec'[r].rev = rec[r].rev
  BY <1>1, <1>2 DEF RecRec
<1>5. \A q \in Recomputers : rec[q].pc # "publish"
  BY <1>1, <1>2, NamesApart
<1>6. \A q \in Recomputers : /\ rec'[q].pc = "scan" <=> recomputeMu' = q
                             /\ rec'[q].pc = "publish" <=> publishMu' = q
  BY <1>1, <1>2, <1>3, <1>4, <1>5
<1>7. BegunInv' /\ ScanInv' /\ CurrentInv'
  <2>1. BegunInv'
    BY <1>3, <1>4, NamesApart DEF BegunInv
  <2>2. \A s : Pending(s)' <=> Pending(s)
    BY <1>1, <1>3, <1>4, NamesApart DEF Pending, Awaited, Queued
  <2>3. ScanInv'
    BY <1>1, <1>3, <1>4, <2>2 DEF ScanInv
  <2>4. CurrentInv'
    BY <1>1, <1>3, <1>4, <2>2, NamesApart DEF CurrentInv
  <2> QED BY <2>1, <2>3, <2>4
<1>8. RevisionInv'
  <2>1. \A q \in Recomputers : Announcing(q)' => Announcing(q) /\ rec'[q].rev = rec[q].rev
    BY <1>1, <1>3, <1>4 DEF Announcing
  <2> QED BY <1>1, <2>1 DEF RevisionInv
<1>9. PublishedInv'
  BY <1>1, <1>3, <1>4 DEF PublishedInv
<1>10. OneRevisionAtATime'
  BY <1>1 DEF OneRevisionAtATime
<1>11. CountInv'
  BY <1>1, <1>2, <1>3, <1>4, QuietCount
<1>12. current'.rev >= current.rev
  BY <1>1, <1>2
<1> QED BY <1>1, <1>2, <1>3, <1>6, <1>7, <1>8, <1>9, <1>10, <1>11, <1>12, RecomputeRule

(* An event of the revision being announced comes after every other event. *)
LEMMA OfferIs ==
  ASSUME IInv, NEW r \in Recomputers, rec[r].pc = "publish", NEW ev \in Events,
         ev.rev = rec[r].rev, Offer(ev)
  PROVE  /\ published' \in Seq(Events)
         /\ Len(published) \in Nat /\ Len(published') \in {Len(published), Len(published) + 1}
         /\ \A i \in 1 .. Len(published) : published'[i] = published[i]
         /\ \A i \in 1 .. Len(published') : i \in 1 .. Len(published) \/ published'[i] = ev
<1>1. published \in Seq(Events)
  BY TypeIs DEF IInv
<1>2. CASE published' = published
  BY <1>1, <1>2
<1>3. CASE published' = Append(published, ev)
  <2>1. /\ published' \in Seq(Events) /\ Len(published) \in Nat
        /\ Len(published') = Len(published) + 1
        /\ \A i \in 1 .. Len(published) : published'[i] = published[i]
        /\ published'[Len(published) + 1] = ev
    BY <1>1, <1>3
  <2>2. \A i \in 1 .. Len(published') : i \in 1 .. Len(published) \/ i = Len(published) + 1
    BY <2>1
  <2> QED BY <2>1, <2>2
<1> QED BY <1>2, <1>3 DEF Offer

LEMMA OfferKeepsOrder ==
  ASSUME IInv, NEW r \in Recomputers, rec[r].pc = "publish", NEW ev \in Events,
         ev.rev = rec[r].rev, Offer(ev)
  PROVE  OneRevisionAtATime'
<1> USE DEF IInv
<1> DEFINE L == Len(published)  M == Len(published')
<1>1. /\ L \in Nat /\ M \in {L, L + 1}
      /\ \A i \in 1 .. L : published'[i] = published[i]
      /\ \A i \in 1 .. M : i \in 1 .. L \/ published'[i] = ev
      /\ published' \in Seq(Events)
  BY OfferIs
<1>2. DOMAIN published = 1 .. L /\ DOMAIN published' = 1 .. M
  BY <1>1, TypeIs
<1>3. ASSUME NEW i \in 1 .. L, published[i].rev = ev.rev
      PROVE  published[i].kind = "shadowed" /\ \A j \in i .. L : published[j].rev = ev.rev
  BY <1>3 DEF PublishedInv
<1>4. ASSUME NEW i \in 1 .. L, NEW j \in 1 .. L, i < j
      PROVE  \/ /\ published[i].rev # published[j].rev
                /\ \A k \in j .. L : published[k].rev # published[i].rev
             \/ published[i].rev = published[j].rev /\ published[i].kind = "shadowed"
  BY <1>2, <1>4 DEF OneRevisionAtATime
<1> HIDE DEF L, M, IInv
<1>5. ASSUME NEW i \in 1 .. M, NEW j \in 1 .. M, i < j
      PROVE  \/ /\ published'[i].rev # published'[j].rev
                /\ \A k \in j .. M : published'[k].rev # published'[i].rev
             \/ published'[i].rev = published'[j].rev /\ published'[i].kind = "shadowed"
  <2>1. i \in 1 .. L /\ published'[i] = published[i]
    BY <1>1, <1>5
  <2>2. CASE published[i].rev = ev.rev
    <3>1. published'[j].rev = ev.rev
      <4>1. CASE j \in 1 .. L
        <5>1. j \in i .. L
          BY <1>1, <1>5, <4>1
        <5> QED BY <1>1, <1>3, <2>1, <2>2, <4>1, <5>1
      <4>2. CASE published'[j] = ev
        BY <4>2
      <4> QED BY <1>1, <4>1, <4>2
    <3> QED BY <1>3, <2>1, <2>2, <3>1
  <2>3. CASE published[i].rev # ev.rev /\ j \in 1 .. L
    <3>1. published'[j] = published[j]
      BY <1>1, <2>3
    <3>2. ASSUME NEW k \in j .. M, published[i].rev # published[j].rev
          PROVE  published'[k].rev # published[i].rev
      <4>1. k \in 1 .. M
        BY <1>1, <2>3
      <4>2. CASE k \in 1 .. L
        <5>1. k \in j .. L
          BY <1>1, <2>3, <4>2
        <5> QED BY <1>1, <1>4, <1>5, <2>1, <2>3, <3>2, <4>2, <5>1
      <4>3. CASE published'[k] = ev
        BY <2>3, <4>3
      <4> QED BY <1>1, <4>1, <4>2, <4>3
    <3> QED BY <1>4, <1>5, <2>1, <2>3, <3>1, <3>2
  <2>4. CASE published[i].rev # ev.rev /\ j \notin 1 .. L
    <3>1. \A k \in j .. M : k \in 1 .. M /\ k \notin 1 .. L
      BY <1>1, <2>4
    <3>2. \A k \in j .. M : published'[k] = ev
      BY <1>1, <3>1
    <3>3. published'[j] = ev
      BY <1>1, <2>4
    <3> QED BY <2>1, <2>4, <3>2, <3>3
  <2> QED BY <2>2, <2>3, <2>4
<1>6. \A i, j \in 1 .. M : i < j =>
        \/ /\ published'[i].rev # published'[j].rev
           /\ \A k \in j .. M : published'[k].rev # published'[i].rev
        \/ published'[i].rev = published'[j].rev /\ published'[i].kind = "shadowed"
  BY <1>5
<1> QED BY <1>2, <1>6 DEF OneRevisionAtATime, M

(* The loop over the shadows goes on, or the update was the last event. *)
LEMMA OfferKeeps ==
  ASSUME IInv, NEW r \in Recomputers, rec[r].pc = "publish", NEW ev \in Events,
         ev.rev = rec[r].rev, Offer(ev), rec' \in [Recomputers -> RecRec],
         \A q \in Recomputers : q # r => rec'[q] = rec[q],
         UNCHANGED <<disk, untold, populated, schedVars, queue, recomputeMu, current,
                     retiring, holdVars>>,
         \/ /\ rec'[r].pc = "publish" /\ rec'[r].rev = rec[r].rev /\ publishMu' = publishMu
            /\ ev.kind = "shadowed"
         \/ /\ rec'[r].pc = IF r = "worker" THEN "idle" ELSE "done"
            /\ rec'[r].next = 1 /\ rec'[r].snap.bad = {} /\ publishMu' = None
  PROVE  IInv'
<1> USE DEF IInv
<1>1. /\ queue \in Seq(Sources) /\ rec \in [Recomputers -> RecRec] /\ untold \subseteq Sources
      /\ current \in [rev : Nat, snap : Snapshot] /\ retiring \subseteq 0 .. current.rev - 1
      /\ \A q \in Recomputers : /\ rec[q].pc = "scan" <=> recomputeMu = q
                                /\ rec[q].pc = "publish" <=> publishMu = q
  BY TypeIs
<1>2. /\ published' \in Seq(Events)
      /\ \A i \in 1 .. Len(published) : published'[i] = published[i]
      /\ \A i \in 1 .. Len(published') : i \in 1 .. Len(published) \/ published'[i] = ev
      /\ Len(published') \in {Len(published), Len(published) + 1} /\ Len(published) \in Nat
  BY OfferIs
<1>3. rec'[r].pc \in {"publish", "idle", "done"} /\ (r = "worker" => rec'[r].pc # "done")
      /\ (r # "worker" => rec'[r].pc # "idle")
  OBVIOUS
<1>4. \A q \in Recomputers : q # r => rec[q].pc # "publish"
  BY <1>1
<1>5. \A q \in Recomputers : /\ rec'[q].pc = "scan" <=> recomputeMu' = q
                             /\ rec'[q].pc = "publish" <=> publishMu' = q
  <2>1. \A q \in Recomputers : rec'[q].pc = "scan" <=> recomputeMu' = q
    BY <1>1, <1>3
  <2>2. \A q \in Recomputers : rec'[q].pc = "publish" <=> publishMu' = q
    BY <1>1, <1>3, <1>4, NamesApart
  <2> QED BY <2>1, <2>2
<1>6. BegunInv' /\ ScanInv' /\ CurrentInv'
  <2>1. BegunInv'
    BY <1>3, NamesApart DEF BegunInv
  <2>2. \A s : Pending(s)' <=> Pending(s)
    BY <1>3, NamesApart DEF Pending, Awaited, Queued
  <2>3. ScanInv'
    BY <1>3, <2>2 DEF ScanInv
  <2>4. CurrentInv'
    BY <1>3, <2>2, NamesApart DEF CurrentInv
  <2> QED BY <2>1, <2>3, <2>4
<1>7. RevisionInv'
  <2>1. \A q \in Recomputers : Announcing(q)' => Announcing(q) /\ rec'[q].rev = rec[q].rev
    BY <1>3 DEF Announcing
  <2>2. ev.rev <= current.rev
    BY DEF RevisionInv, Announcing
  <2>3. ASSUME NEW i \in 1 .. Len(published') PROVE published'[i].rev <= current.rev
    BY <1>2, <2>2 DEF RevisionInv
  <2> QED BY <2>1, <2>3 DEF RevisionInv
<1>8. PublishedInv'
  <2> SUFFICES ASSUME NEW q \in Recomputers, NEW i \in 1 .. Len(published'),
                      published'[i].rev = rec'[q].rev
               PROVE  /\ rec'[q].pc # "swapped"
                      /\ rec'[q].pc = "publish" =>
                           /\ published'[i].kind = "shadowed"
                           /\ \A j \in i .. Len(published') : published'[j].rev = rec'[q].rev
    BY DEF PublishedInv
  <2>1. CASE q # r
    <3>1. rec'[q] = rec[q] /\ rec[q].pc # "publish"
      BY <1>4, <2>1
    <3>2. i \in 1 .. Len(published) => rec[q].pc # "swapped"
      BY <1>2, <3>1 DEF PublishedInv
    <3>3. published'[i] = ev => rec[q].pc # "swapped"
      BY <2>1, <3>1 DEF RevisionInv, Announcing
    <3> QED BY <1>2, <3>1, <3>2, <3>3
  <2>2. CASE q = r /\ rec'[r].pc = "publish"
    <3>1. rec'[r].rev = ev.rev /\ ev.kind = "shadowed"
      BY <2>2
    <3>2. published'[i].kind = "shadowed"
      BY <1>2, <2>2, <3>1 DEF PublishedInv
    <3>3. ASSUME NEW j \in i .. Len(published') PROVE published'[j].rev = ev.rev
      <4>1. j \in 1 .. Len(published')
        BY <1>2
      <4>2. CASE j \in 1 .. Len(published)
        <5>1. i \in 1 .. Len(published) /\ j \in i .. Len(published)
          BY <1>2, <4>2
        <5>2. published[i].rev = rec[r].rev
          BY <1>2, <2>2, <3>1, <5>1
        <5> QED BY <1>2, <4>2, <5>1, <5>2 DEF PublishedInv
      <4> QED BY <1>2, <4>1, <4>2
    <3> QED BY <2>2, <3>1, <3>2, <3>3
  <2>3. CASE q = r /\ rec'[r].pc # "publish"
    BY <1>3, <2>3
  <2> QED BY <2>1, <2>2, <2>3
<1>9. OneRevisionAtATime'
  BY OfferKeepsOrder
<1>10. CountInv'
  BY QuietCount
<1>11. current'.rev >= current.rev
  BY <1>1
<1> QED BY <1>1, <1>2, <1>5, <1>6, <1>7, <1>8, <1>9, <1>10, <1>11, RecomputeRule

LEMMA PublishShadowKeeps ==
  ASSUME IInv, NEW r \in Recomputers, PublishShadow(r) PROVE IInv'
<1> USE DEF IInv
<1>1. rec \in [Recomputers -> RecRec] /\ rec[r].rev \in Nat
      /\ rec[r].shadows \in SUBSET (Tools \X Sources)
  BY TypeIs DEF RecRec
<1>2. PICK ev : ev = [kind |-> "shadowed", rev |-> rec[r].rev]
  OBVIOUS
<1>3. PICK sh \in rec[r].shadows : Offer(ev) /\ rec' = [rec EXCEPT ![r].shadows = @ \ {sh}]
  BY <1>2 DEF PublishShadow
<1>4. PICK left : left = rec[r].shadows \ {sh}
  OBVIOUS
<1>5. /\ rec[r].pc = "publish" /\ ev \in Events /\ ev.rev = rec[r].rev /\ ev.kind = "shadowed"
      /\ UNCHANGED <<disk, untold, populated, schedVars, queue, recomputeMu,
                     publishMu, current, retiring, holdVars>>
  BY <1>1, <1>2 DEF PublishShadow, Events
<1>6. rec' = [rec EXCEPT ![r].shadows = left] /\ left \in SUBSET (Tools \X Sources)
  BY <1>1, <1>3, <1>4
<1>7. /\ rec' \in [Recomputers -> RecRec]
      /\ \A q \in Recomputers : q # r => rec'[q] = rec[q]
  BY <1>1, <1>6 DEF RecRec
<1>8. rec'[r].pc = "publish" /\ rec'[r].rev = rec[r].rev
  BY <1>1, <1>5, <1>6 DEF RecRec
<1> QED BY <1>3, <1>5, <1>7, <1>8, OfferKeeps

LEMMA PublishUpdatedKeeps ==
  ASSUME IInv, NEW r \in Recomputers, PublishUpdated(r) PROVE IInv'
<1> USE DEF IInv
<1>1. rec \in [Recomputers -> RecRec] /\ rec[r].rev \in Nat
  BY TypeIs DEF RecRec
<1>2. PICK ev : ev = [kind |-> "updated", rev |-> rec[r].rev]
  OBVIOUS
<1>3. PICK x : x = Returned(r)
  OBVIOUS
<1>4. /\ rec[r].pc = "publish" /\ Offer(ev) /\ publishMu' = None /\ rec' = [rec EXCEPT ![r] = x]
      /\ UNCHANGED <<disk, untold, populated, schedVars, queue, recomputeMu, current,
                     retiring, holdVars>>
  BY <1>2, <1>3 DEF PublishUpdated
<1>5. ev \in Events /\ ev.rev = rec[r].rev
  BY <1>1, <1>2 DEF Events
<1>6. /\ x \in RecRec /\ x.next = 1 /\ x.snap.bad = {}
      /\ x.pc = IF r = "worker" THEN "idle" ELSE "done"
  BY <1>3, ReturnedIs
<1>7. /\ rec' \in [Recomputers -> RecRec] /\ rec'[r] = x
      /\ \A q \in Recomputers : q # r => rec'[q] = rec[q]
  BY <1>1, <1>4, <1>6
<1> QED BY <1>4, <1>5, <1>6, <1>7, OfferKeeps

-----------------------------------------------------------------------------
(* Every step keeps the invariant. *)
LEMMA SyncKeeps ==
  ASSUME IInv, NEW y \in Syncers, (\E s \in Sources : SyncLock(y, s)) \/ SyncStep(y)
  PROVE  IInv'
<1>1. CASE \E s \in Sources : SyncLock(y, s)
  BY <1>1, SyncLockKeeps
<1>2. CASE SyncStat(y) \/ SyncVerify(y)
  BY <1>2, SyncStatKeeps, SyncVerifyKeeps
<1>3. CASE SyncPull(y) \/ SyncPulled(y)
  BY <1>3, SyncPullKeeps
<1>4. CASE SyncFails(y) \/ SyncPullFails(y) \/ SyncPublishFails(y)
  BY <1>4, SyncEndKeeps
<1>5. CASE SyncPublish(y)
  BY <1>5, SyncPublishKeeps
<1> QED BY <1>1, <1>2, <1>3, <1>4, <1>5 DEF SyncStep

LEMMA RecomputeKeeps ==
  ASSUME IInv, NEW r \in Recomputers, RecomputeCall(r) \/ RecomputeStep(r)
  PROVE  IInv'
<1>1. CASE RecomputeCall(r)
  BY <1>1, RecomputeCallKeeps
<1>2. CASE RecomputeLock(r)
  BY <1>2, RecomputeLockKeeps
<1>3. CASE ScanSource(r) \/ ScanFails(r)
  BY <1>3, ScanSourceKeeps, ScanFailsKeeps
<1>4. CASE ScanCancelled(r)
  BY <1>4, ScanCancelledKeeps
<1>5. CASE Swap(r)
  BY <1>5, SwapKeeps
<1>6. CASE PublishLock(r)
  BY <1>6, PublishLockKeeps
<1>7. CASE PublishShadow(r)
  BY <1>7, PublishShadowKeeps
<1>8. CASE PublishUpdated(r)
  BY <1>8, PublishUpdatedKeeps
<1> QED BY <1>1, <1>2, <1>3, <1>4, <1>5, <1>6, <1>7, <1>8 DEF RecomputeStep

LEMMA NextKeeps ==
  ASSUME IInv, [Next]_vars PROVE IInv'
<1>1. CASE UNCHANGED vars
  <2>1. UNCHANGED <<disk, untold, populated, schedVars, queue, recVars, refs, hold>>
    BY <1>1 DEF vars, schedVars, recVars
  <2>2. HoldType' /\ HoldInv' /\ RefsExact'
    BY <2>1 DEF IInv, HoldType, HoldInv, RefsExact, recVars
  <2> QED BY <2>1, <2>2, HolderMoves
<1>2. CASE \E y \in Syncers : (\E s \in Sources : SyncLock(y, s)) \/ SyncStep(y)
  BY <1>2, SyncKeeps
<1>3. CASE \E s \in Sources, tree \in SUBSET Tools : Populate(s, tree)
  BY <1>3, PopulateKeeps
<1>4. CASE \E r \in Recomputers : RecomputeCall(r) \/ RecomputeStep(r)
  BY <1>4, RecomputeKeeps
<1>5. CASE \E h \in Holders : AcquireLoad(h) \/ AcquireCount(h) \/ Release(h)
  BY <1>5, AcquireLoadKeeps, AcquireCountKeeps, ReleaseKeeps
<1> QED BY <1>1, <1>2, <1>3, <1>4, <1>5 DEF Next

LEMMA InitIs ==
  ASSUME Init PROVE IInv
<1> USE DEF Init
<1>1. Fresh0 \in RecRec /\ Empty \in Snapshot /\ Fresh0.pc = "idle" /\ Fresh0.next = 1
      /\ Fresh0.snap.bad = {}
  <2>1. Empty \in Snapshot /\ Empty.bad = {}
    BY NamesApart DEF Empty, Snapshot
  <2>2. "idle" \in RecPcs /\ 1 \in 1 .. N + 1 /\ 0 \in 0 .. N
    BY NamesApart DEF RecPcs
  <2> HIDE DEF Empty
  <2> QED BY <2>1, <2>2 DEF Fresh0, RecRec
<1>2. Empty.scan = [s \in Sources |-> {}]
  BY DEF Empty
<1>3. /\ Cardinality(Syncers) \in Nat /\ Cardinality(Callers) \in Nat
  BY GoroutinesAssumption, FS_CardinalityType
<1>4. rec \in [Recomputers -> RecRec] /\ \A r \in Recomputers : rec[r] = Fresh0
  BY <1>1
<1>5. HoldType
  BY <1>3 DEF HoldType
<1>6. TypeOK
  <2>1. /\ disk \in [Sources -> SUBSET Tools] /\ untold \subseteq Sources
        /\ populated \in 0 .. MaxPopulate
        /\ perSourceMu \in [Sources -> Syncers \cup {None}]
        /\ queue \in Seq(Sources) /\ published \in Seq(Events)
    BY SettingsAssumption
  <2>2. sync \in [Syncers -> SyncRec]
    BY NamesApart DEF SyncRec
  <2>3. \A r \in Recomputers : /\ rec[r].pc = "scan" <=> recomputeMu = r
                               /\ rec[r].pc = "publish" <=> publishMu = r
    BY <1>1, <1>4, NamesApart
  <2>4. current \in [rev : Nat, snap : Snapshot] /\ retiring \subseteq 0 .. current.rev - 1
    <3>1. current = [rev |-> 0, snap |-> Empty] /\ retiring = {} /\ 0 \in Nat
      OBVIOUS
    <3> QED BY <1>1, <3>1
  <2>5. \A k \in DOMAIN refs : refs[k] \in Nat
    BY <1>5 DEF HoldType
  <2> QED BY <1>4, <2>1, <2>2, <2>3, <2>4, <2>5 DEF TypeOK, SyncRec, RecRec, RecPcs, Events
<1>7. MuInv /\ AnnouncedIsVerified
  BY DEF MuInv, AnnouncedIsVerified
<1>8. BegunInv /\ ScanInv
  BY <1>1, <1>4, NamesApart DEF BegunInv, ScanInv
<1>9. CurrentInv
  BY <1>2 DEF CurrentInv
<1>10. RevisionInv /\ PublishedInv /\ OneRevisionAtATime
  BY <1>1, <1>4 DEF RevisionInv, PublishedInv, OneRevisionAtATime, Announcing
<1>11. HoldInv
  BY DEF HoldInv
<1>12. RefsExact
  <2>1. ASSUME NEW k \in DOMAIN refs PROVE refs[k] = Cardinality(HoldsRevision(k))
    <3>1. HoldsRevision(k) = {}
      BY DEF HoldsRevision
    <3> QED BY <2>1, <3>1, FS_EmptySet
  <2> QED BY <2>1 DEF RefsExact, HoldsRevision
<1>13. CountInv
  <2>1. Synced = {} /\ Recomputed = {} /\ WorkerDue = 0
    BY <1>1, <1>4, NamesApart DEF Synced, Recomputed, WorkerDue
  <2>2. current.rev = 0 /\ Len(queue) = 0
    OBVIOUS
  <2> QED BY <2>1, <2>2, FS_EmptySet DEF CountInv
<1> QED BY <1>5, <1>6, <1>7, <1>8, <1>9, <1>10, <1>11, <1>12, <1>13 DEF IInv

(* The inductive invariant holds of the scheduler, the registry and their   *)
(* holders (scheduler.go, registry.go): pending sources, the ownership of   *)
(* the mutexes and of revisions, and the counts.                            *)
THEOREM InvariantHolds == Spec => []IInv
<1>1. Init => IInv
  BY InitIs
<1>2. IInv /\ [Next]_vars => IInv'
  BY NextKeeps
<1> QED BY <1>1, <1>2, PTL DEF Spec

(* When the worker is not on its way to a scan, what is neither untold nor *)
(* queued is not pending.                                                  *)
LEMMA InvariantShows ==
  ASSUME IInv PROVE SnapshotsAreSound
<1>1. SyncedIsVisible
  <2> SUFFICES ASSUME rec["worker"].pc \notin {"lock", "scan"},
                      NEW s \in Sources \ (untold \cup Queued)
               PROVE  current.snap.scan[s] = disk[s]
    BY DEF SyncedIsVisible
  <2>1. ~Pending(s)
    BY DEF Pending, Awaited
  <2> QED BY <2>1 DEF IInv, CurrentInv
<1> QED BY <1>1 DEF IInv, SnapshotsAreSound

(* What the scheduler and the registry promise of what readers load, of    *)
(* what is announced and of what is counted, for any sources, tools and    *)
(* numbers of concurrent syncs, recomputes and holders (scheduler.go,      *)
(* SyncOnce; registry.go, Recompute and Acquire).                          *)
THEOREM SnapshotsHold == Spec => []SnapshotsAreSound
<1>1. IInv => SnapshotsAreSound
  BY InvariantShows
<1> QED BY <1>1, InvariantHolds, PTL

(* Every revision has a refcount: there are never more revisions than      *)
(* calls of SyncOnce and of Recompute, so the entry a holder loaded        *)
(* (registry.go, Acquire) is one whose count exists.                       *)
RevisionsAreCounted == \A h \in Holders : hold[h].rev \in DOMAIN refs

LEMMA CountsBound ==
  ASSUME IInv PROVE RevisionsAreCounted
<1>1. /\ current.rev \in Nat /\ Len(queue) \in Nat /\ WorkerDue \in Nat
      /\ \A h \in Holders : hold[h].rev \in Nat /\ hold[h].rev <= current.rev
      /\ DOMAIN refs = 0 .. Cardinality(Syncers) + Cardinality(Callers)
  BY TypeIs DEF IInv, WorkerDue, HoldType, HoldInv
<1>2. /\ Cardinality(Synced) <= Cardinality(Syncers) /\ Cardinality(Synced) \in Nat
      /\ Cardinality(Syncers) \in Nat
  BY GoroutinesAssumption, FS_Subset, FS_CardinalityType DEF Synced
<1>3. /\ Cardinality(Recomputed) <= Cardinality(Callers) /\ Cardinality(Recomputed) \in Nat
      /\ Cardinality(Callers) \in Nat
  BY GoroutinesAssumption, FS_Subset, FS_CardinalityType DEF Recomputed
<1>4. current.rev + Len(queue) + WorkerDue <= Cardinality(Synced) + Cardinality(Recomputed)
  BY DEF IInv, CountInv
<1>5. current.rev <= Cardinality(Syncers) + Cardinality(Callers)
  BY <1>1, <1>2, <1>3, <1>4, CountsGive
<1> QED BY <1>1, <1>2, <1>3, <1>5 DEF RevisionsAreCounted

THEOREM RevisionsHold == Spec => []RevisionsAreCounted
<1>1. IInv => RevisionsAreCounted
  BY CountsBound
<1> QED BY <1>1, InvariantHolds, PTL
-----------------------------------------------------------------------------
(* Decisions on proposed tools *)

(* A request that holds the claim on its proposal holds it alone, for its  *)
(* kind, and before any event.                                             *)
HolderInv ==
  \A r \in Requests : pc[r] \in Holding =>
    /\ decisions[on[r]] = kind[r]
    /\ \A e \in events : e[1] # on[r]
    /\ \A q \in Requests : pc[q] \in Holding /\ on[q] = on[r] => q = r

ApprovalInv == ApprovalTypeOK /\ HolderInv /\ AnnouncedIsClaimed /\ OneEvent /\ ClaimIsAnnounced

LEMMA InitApprovalInv == ApprovalInit => ApprovalInv
BY DEF ApprovalInit, ApprovalInv, ApprovalTypeOK, HolderInv, AnnouncedIsClaimed, OneEvent,
       ClaimIsAnnounced, Holding, Answers, Kinds, Routes

(* The steps that neither claim, give back nor publish *)
QuietHandle(r) == Receive(r) \/ Inquire(r) \/ GiveUp(r) \/ ResolveSource(r) \/ SyncOnce(r)

LEMMA ApprovalTypeStep == ApprovalTypeOK /\ [ApprovalNext]_approvalVars => ApprovalTypeOK'
<1> SUFFICES ASSUME ApprovalTypeOK, [ApprovalNext]_approvalVars PROVE ApprovalTypeOK'
  OBVIOUS
<1> USE DEF ApprovalTypeOK, Holding, Answers, Kinds, Routes, reqVars
<1>1. CASE UNCHANGED approvalVars
  BY <1>1 DEF approvalVars
<1>2. ASSUME NEW p \in Proposals, Record(p) PROVE ApprovalTypeOK'
  BY <1>2 DEF Record
<1>3. ASSUME NEW r \in Requests, Handle(r) PROVE ApprovalTypeOK'
  <2>1. CASE QuietHandle(r)
    BY <2>1 DEF QuietHandle, Receive, Inquire, GiveUp, ResolveSource, SyncOnce, Goto
  <2>2. CASE MarkDecided(r)
    BY <2>2 DEF MarkDecided, Goto
  <2>3. CASE SourceFails(r) \/ PublishFails(r)
    BY <2>3 DEF SourceFails, PublishFails, UnmarkDecided, Goto
  <2>4. CASE Publish(r)
    BY <2>4 DEF Publish, Goto
  <2> QED BY <1>3, <2>1, <2>2, <2>3, <2>4 DEF Handle, QuietHandle
<1> QED BY <1>1, <1>2, <1>3 DEF ApprovalNext

LEMMA ApprovalInvStep == ApprovalInv /\ [ApprovalNext]_approvalVars => ApprovalInv'
<1> SUFFICES ASSUME ApprovalInv, [ApprovalNext]_approvalVars PROVE ApprovalInv'
  OBVIOUS
<1>0. ApprovalTypeOK /\ ApprovalTypeOK'
  BY ApprovalTypeStep DEF ApprovalInv
<1> USE <1>0 DEF ApprovalInv
<1>1. CASE UNCHANGED approvalVars
  BY <1>1 DEF approvalVars, reqVars, HolderInv, AnnouncedIsClaimed, OneEvent, ClaimIsAnnounced
<1>2. ASSUME NEW p \in Proposals, Record(p) PROVE ApprovalInv'
  BY <1>2 DEF Record, reqVars, HolderInv, AnnouncedIsClaimed, OneEvent, ClaimIsAnnounced
<1>3. ASSUME NEW r \in Requests, Handle(r) PROVE ApprovalInv'
  <2>1. CASE QuietHandle(r)
    <3>1. /\ UNCHANGED <<decisions, on, kind, events>>
          /\ pc' \in [Requests -> {"idle", "mark"} \cup Holding \cup Answers]
          /\ \A q \in Requests : pc'[q] \in Holding <=> pc[q] \in Holding
      BY <2>1 DEF QuietHandle, Receive, Inquire, GiveUp, ResolveSource, SyncOnce, Goto,
                  reqVars, ApprovalTypeOK, Holding, Answers
    <3> QED BY <3>1 DEF HolderInv, AnnouncedIsClaimed, OneEvent, ClaimIsAnnounced
  <2>2. CASE MarkDecided(r)
    <3>1. CASE decisions[on[r]] = "none"
      <4>1. /\ decisions' = [decisions EXCEPT ![on[r]] = kind[r]]
            /\ UNCHANGED <<on, kind, events>>
            /\ pc'[r] \in Holding
            /\ \A q \in Requests : q # r => pc'[q] = pc[q]
        BY <2>2, <3>1 DEF MarkDecided, Goto, reqVars, ApprovalTypeOK, Holding
      <4>2. /\ \A e \in events : e[1] # on[r]
            /\ \A q \in Requests : pc[q] \in Holding => on[q] # on[r]
        BY <3>1 DEF AnnouncedIsClaimed, HolderInv, ApprovalTypeOK, Kinds
      <4>3. HolderInv'
        BY <4>1, <4>2 DEF HolderInv, ApprovalTypeOK
      <4>4. AnnouncedIsClaimed' /\ OneEvent'
        BY <4>1, <4>2 DEF AnnouncedIsClaimed, OneEvent, ApprovalTypeOK
      <4>5. ClaimIsAnnounced'
        BY <4>1, <4>2 DEF ClaimIsAnnounced, ApprovalTypeOK
      <4> QED BY <4>3, <4>4, <4>5
    <3>2. CASE decisions[on[r]] # "none"
      <4>1. /\ UNCHANGED <<decisions, on, kind, events>>
            /\ \A q \in Requests : pc'[q] \in Holding <=> pc[q] \in Holding
        BY <2>2, <3>2 DEF MarkDecided, Goto, reqVars, ApprovalTypeOK, Holding
      <4> QED BY <4>1 DEF HolderInv, AnnouncedIsClaimed, OneEvent, ClaimIsAnnounced
    <3> QED BY <3>1, <3>2
  <2>3. CASE SourceFails(r) \/ PublishFails(r)
    <3>1. pc[r] \in Holding
      BY <2>3 DEF SourceFails, PublishFails, Holding
    <3>2. /\ decisions[on[r]] = kind[r]
          /\ \A e \in events : e[1] # on[r]
          /\ \A q \in Requests : pc[q] \in Holding /\ on[q] = on[r] => q = r
      BY <3>1 DEF HolderInv
    <3>3. /\ decisions' = [decisions EXCEPT ![on[r]] = "none"]
          /\ UNCHANGED <<on, kind, events>>
          /\ pc'[r] = "failed"
          /\ \A q \in Requests : q # r => pc'[q] = pc[q]
      BY <2>3, <3>2 DEF SourceFails, PublishFails, UnmarkDecided, Goto, reqVars, ApprovalTypeOK
    <3>4. HolderInv'
      BY <3>2, <3>3 DEF HolderInv, ApprovalTypeOK, Holding
    <3>5. AnnouncedIsClaimed' /\ OneEvent'
      BY <3>2, <3>3 DEF AnnouncedIsClaimed, OneEvent, ApprovalTypeOK
    <3>6. ClaimIsAnnounced'
      BY <3>2, <3>3 DEF ClaimIsAnnounced, ApprovalTypeOK
    <3> QED BY <3>4, <3>5, <3>6
  <2>4. CASE Publish(r)
    <3>1. pc[r] \in Holding
      BY <2>4 DEF Publish, Holding
    <3>2. /\ decisions[on[r]] = kind[r]
          /\ \A e \in events : e[1] # on[r]
          /\ \A q \in Requests : pc[q] \in Holding /\ on[q] = on[r] => q = r
      BY <3>1 DEF HolderInv
    <3>3. /\ UNCHANGED <<decisions, on, kind>>
          /\ events' = events \cup {<<on[r], kind[r], r>>}
          /\ pc'[r] \notin Holding
          /\ \A q \in Requests : q # r => pc'[q] = pc[q]
      BY <2>4 DEF Publish, Goto, reqVars, ApprovalTypeOK, Holding
    <3>4. HolderInv'
      BY <3>2, <3>3 DEF HolderInv, ApprovalTypeOK
    <3>5. AnnouncedIsClaimed'
      BY <3>2, <3>3 DEF AnnouncedIsClaimed, ApprovalTypeOK
    <3>6. OneEvent'
      BY <3>2, <3>3 DEF OneEvent, ApprovalTypeOK
    <3>7. ClaimIsAnnounced'
      <4> SUFFICES ASSUME NEW p \in Proposals, decisions[p] # "none"
                   PROVE  \/ \E q \in Requests : /\ pc'[q] \in Holding
                                                 /\ on[q] = p /\ kind[q] = decisions[p]
                          \/ \E q \in Requests : <<p, decisions[p], q>> \in events'
        BY <3>3 DEF ClaimIsAnnounced
      <4>1. CASE p = on[r]
        BY <4>1, <3>2, <3>3
      <4>2. CASE p # on[r]
        BY <4>2, <3>3 DEF ClaimIsAnnounced
      <4> QED BY <4>1, <4>2
    <3> QED BY <3>4, <3>5, <3>6, <3>7
  <2> QED BY <1>3, <2>1, <2>2, <2>3, <2>4 DEF Handle, QuietHandle
<1> QED BY <1>1, <1>2, <1>3 DEF ApprovalNext

THEOREM ApprovalInvariance == ApprovalSpec => []ApprovalInv
BY InitApprovalInv, ApprovalInvStep, PTL DEF ApprovalSpec

(* proposalstore.go: the stores and handlers keep their types. *)
THEOREM ApprovalTypeCorrect == ApprovalSpec => []ApprovalTypeOK
<1>1. ApprovalInv => ApprovalTypeOK
  BY DEF ApprovalInv
<1> QED BY <1>1, ApprovalInvariance, PTL

(* proposalstore.go DecisionRecorder, webhook.go, callbacks.go: at most    *)
(* one terminal event is ever published for a proposal.                    *)
THEOREM DecidedOnce == ApprovalSpec => []OneEvent
<1>1. ApprovalInv => OneEvent
  BY DEF ApprovalInv
<1> QED BY <1>1, ApprovalInvariance, PTL

(* webhook.go and callbacks.go: an announced decision stays claimed.       *)
THEOREM AnnouncedStaysClaimed == ApprovalSpec => []AnnouncedIsClaimed
<1>1. ApprovalInv => AnnouncedIsClaimed
  BY DEF ApprovalInv
<1> QED BY <1>1, ApprovalInvariance, PTL

(* webhook.go and callbacks.go: no failure leaves a claim that nobody will *)
(* announce.                                                               *)
THEOREM NoOrphanedClaim == ApprovalSpec => []ClaimIsAnnounced
<1>1. ApprovalInv => ClaimIsAnnounced
  BY DEF ApprovalInv
<1> QED BY <1>1, ApprovalInvariance, PTL

-----------------------------------------------------------------------------
(* Refinement: only Publish moves the announced outcome. *)

LEMMA OutcomeInit == ApprovalInit => Abstract!Init
BY DEF ApprovalInit, Abstract!Init, Outcome

LEMMA OutcomeStep == ApprovalInv /\ [ApprovalNext]_approvalVars => [Abstract!Next]_Outcome
<1> SUFFICES ASSUME ApprovalInv, [ApprovalNext]_approvalVars PROVE [Abstract!Next]_Outcome
  OBVIOUS
<1>0. ApprovalTypeOK /\ HolderInv
  BY DEF ApprovalInv
<1>1. CASE UNCHANGED events
  BY <1>1 DEF Outcome
<1>2. ASSUME NEW r \in Requests, Publish(r) PROVE Abstract!Next
  <2>1. /\ events' = events \cup {<<on[r], kind[r], r>>}
        /\ \A e \in events : e[1] # on[r]
        /\ on[r] \in Proposals /\ kind[r] \in {"approved", "rejected"}
    BY <1>0, <1>2 DEF Publish, HolderInv, Holding, ApprovalTypeOK, Kinds
  <2>2. Outcome[on[r]] = "none"
    BY <2>1 DEF Outcome
  <2>3. Outcome' = [Outcome EXCEPT ![on[r]] = kind[r]]
    <3>1. \A p \in Proposals, k \in Kinds, q \in Requests :
            <<p, k, q>> \in events' <=>
              <<p, k, q>> \in events \/ (p = on[r] /\ k = kind[r] /\ q = r)
      BY <2>1
    <3>2. Outcome'[on[r]] = kind[r]
      BY <2>1, <3>1 DEF Outcome, Kinds
    <3>3. \A p \in Proposals : p # on[r] => Outcome'[p] = Outcome[p]
      BY <2>1, <3>1 DEF Outcome, Kinds
    <3> QED BY <3>2, <3>3, <2>1 DEF Outcome
  <2> QED BY <2>1, <2>2, <2>3 DEF Abstract!Next, Abstract!Decide, Kinds
<1>3. CASE ApprovalNext
  BY <1>1, <1>2, <1>3 DEF ApprovalNext, Record, Handle, Receive, Inquire, GiveUp, MarkDecided,
     ResolveSource, SourceFails, SyncOnce, PublishFails
<1> QED BY <1>1, <1>3 DEF approvalVars

(* Both decision routes together implement the one-shot decision of        *)
(* OneShotDecision.                                                        *)
THEOREM ImplementsOneShot == ApprovalSpec => OneShot
BY OutcomeInit, OutcomeStep, ApprovalInvariance, PTL DEF ApprovalSpec, OneShot, Abstract!Spec

----------------------------------------------------------------------------
(* Agents and their tool calls.                                            *)

(* Where a call is: on its way to a tool, learning from a failure,         *)
(* rehearsing a tool, or with the scheduler.                               *)
Calling == {"dispatch", "handler", "open", "page", "write"}
Reflecting == {"append", "embed", "remember"}
Rehearsing == {"validate", "scope", "invoke", "gate", "publish"}
Registering == {"cron", "reg1", "reg2", "unreg"}

CallFields == {"pc", "job", "n", "ctx", "page", "cursor", "got", "want", "clean", "cut",
               "err", "ev", "done"}

(* Calls are records of one shape. *)
CallShape ==
  /\ DOMAIN call = Slots
  /\ \A c \in Slots : DOMAIN call[c] = CallFields

Wrote(c) == \E e \in effects : e.n = call[c].n
Permitted(j) == ~RequiresApproval(Manifests[j.m], j.op) /\ j.op \in Manifests[j.m].toolset

MayWrite(j) ==
  /\ Permitted(j)
  /\ j.op = "update_ticket_field" => "assignee" \notin j.fields /\ j.fields \subseteq Whitelist

(* Every call has a number of its own and is answered at its end. *)
NumberOf(c) ==
  /\ call[c].n \in 0 .. made
  /\ call[c].n = 0 <=> call[c].pc = "idle"
  /\ ~Free(c) => call[c].n \notin DOMAIN answers

(* Which operation is where. *)
KindOf(c) ==
  LET j == call[c].job IN
  /\ call[c].pc \in Calling \cup Reflecting => j.op \in ToolNames
  /\ call[c].pc = "client" => j.op \in ClientCalls
  /\ call[c].pc \in Rehearsing => j.op = "dryrun"
  /\ call[c].pc \in Registering => j.op \notin ToolNames \cup ClientCalls \cup {"dryrun"}
  /\ j.op = "dryrun" => j.mode \in Modes

(* What a tool call has written, may write, and will be told. *)
PermitOf(c) ==
  LET j == call[c].job IN
  j.op \in ToolNames =>
    /\ call[c].pc \in Calling => ~Wrote(c)
    /\ call[c].pc \in Calling \ {"dispatch"} => Permitted(j)
    /\ call[c].pc \in Calling \ {"dispatch", "handler"} => ~reassigns(j)
    /\ Wrote(c) => MayWrite(j)
    /\ call[c].pc \notin Calling /\ call[c].err \in PreDispatch => ~Wrote(c)
    /\ call[c].pc = "done" /\ call[c].err = "ok" /\ j.op \notin Reads => Wrote(c)

(* A reflection knows its failure and cites only a row that is there. *)
LessonOf(c) ==
  /\ call[c].pc \in Calling \cup {"append"} => call[c].ev = 0
  /\ call[c].pc \in Reflecting =>
       /\ call[c].err \notin {"ok", "refused"} /\ ~shouldSkipReflection(call[c].err)
       /\ call[c].ev # 0 => call[c].ev = call[c].n /\ call[c].ev \in log

(* What a dry run has done, and in which mode. *)
DryRunOf(c) ==
  LET j == call[c].job IN
  /\ call[c].pc \notin {"invoke", "gate", "publish", "done"} => call[c].done = <<>>
  /\ call[c].pc \in {"scope", "invoke"} => j.mode = "scoped"
  /\ j.op = "dryrun" =>
       \A e \in effects : e.n = call[c].n => j.mode = "scoped"
  /\ call[c].pc = "done" /\ sideEffectsFired(c) =>
       call[c].err = "unpublished" \/ [n |-> call[c].n, count |-> Len(call[c].done)] \in reports

(* The tick of a half registration is one that was handed out. *)
RegistrationOf(c) == call[c].pc \in {"reg2", "unreg"} => call[c].ev \in 1 .. sched.next - 1

Own(c) ==
  /\ NumberOf(c) /\ KindOf(c) /\ PermitOf(c) /\ LessonOf(c) /\ DryRunOf(c) /\ RegistrationOf(c)

(* The numbers handed out: what carries one belongs to a call made. *)
Numbered ==
  /\ made \in Nat /\ script \in Scripts
  /\ \A c, d \in Slots : call[c].n = call[d].n => c = d \/ call[c].n = 0
  /\ \A e \in effects : e.n \in 1 .. made
  /\ DOMAIN answers \subseteq 1 .. made

LessonNs == {l.n : l \in lessons}
LessonInv ==
  /\ IsFiniteSet(lessons) /\ IsFiniteSet(LessonNs)
  /\ Cardinality(LessonNs) = Cardinality(lessons)
  /\ \A l \in lessons :
       /\ l.n \in DOMAIN answers
       /\ answers[l.n] \notin {"ok", "refused"} /\ ~shouldSkipReflection(answers[l.n])
       /\ l.ev # 0 => l.ev = l.n /\ l.ev \in log

(* The scheduler's entries; what was dropped is not among them. *)
TickInv ==
  /\ sched \in [state : {"notStarted", "started", "stopped"}, entries : SUBSET Nat, next : Nat \ {0}]
  /\ sched.entries \subseteq 1 .. sched.next - 1
  /\ dropped \subseteq 1 .. sched.next - 1
  /\ sched.state # "stopped" => sched.entries \cap dropped = {}

AgentInv ==
  /\ CallShape /\ Numbered /\ LessonInv /\ TickInv
  /\ \A c \in Slots : Own(c)

----------------------------------------------------------------------------
(* Names.                                                                  *)

LEMMA ToolNamesAre ==
  /\ ToolNames = {"find_overdue_tickets", "find_stale_prs", "fetch_watch_orders", "record_watch_order",
                  "post_daily_briefing", "nudge_reviewer", "update_ticket_field"}
  /\ Scans = {"find_overdue_tickets", "fetch_watch_orders", "find_stale_prs"}
  /\ ClientCalls = {"GetIssue", "AddComment", "GetRef", "CreateRef", "CreateOrUpdateFile", "CreatePullRequest"}
BY DEF ToolNames, ArgsOf, Scans, ServiceOf, ClientCalls, ClientArgsOf

(* Every operation begins in one place. *)
LEMMA FirstPlace ==
  ASSUME NEW o
  PROVE  /\ o \in ToolNames => FirstPc(o) = "dispatch"
         /\ o \in ClientCalls => FirstPc(o) = "client"
         /\ o = "dryrun" => FirstPc(o) = "validate"
         /\ o \notin ToolNames \cup ClientCalls \cup {"dryrun"} => FirstPc(o) = "cron"
BY ToolNamesAre DEF FirstPc

----------------------------------------------------------------------------
(* How a step changes a call and what it leaves of the others.             *)

(* What a step made for call n may add. *)
AddsFor(n) ==
  /\ effects \subseteq effects' /\ \A e \in effects' : e \in effects \/ e.n = n
  /\ DOMAIN answers' \subseteq DOMAIN answers \cup {n}
  /\ log \subseteq log' /\ reports \subseteq reports'
  /\ sched'.next >= sched.next

Others(c) == \A d \in Slots : d # c => call'[d] = call[d]

LEMMA Becomes ==
  ASSUME CallShape, NEW c \in Slots, NEW x, DOMAIN x = CallFields, call' = [call EXCEPT ![c] = x]
  PROVE  CallShape' /\ Others(c) /\ call'[c] = x
BY DEF CallShape, Others

LEMMA EndedIs ==
  ASSUME CallShape, NEW c \in Slots, NEW told
  PROVE  LET x == Ended(c, told) IN
         /\ DOMAIN x = CallFields
         /\ x.pc = "done" /\ x.job = call[c].job /\ x.n = call[c].n /\ x.err = told
         /\ x.ev = 0 /\ x.done = call[c].done
BY DEF Ended, Idle, CallFields, CallShape

(* The call of c is over and was told so. *)
Ends(c, told) ==
  /\ CallShape' /\ Others(c)
  /\ call'[c].pc = "done" /\ call'[c].job = call[c].job /\ call'[c].n = call[c].n
  /\ call'[c].err = told /\ call'[c].ev = 0 /\ call'[c].done = call[c].done
  /\ DOMAIN answers' = DOMAIN answers \cup {call[c].n}
  /\ \A m \in DOMAIN answers \ {call[c].n} : answers'[m] = answers[m]
  /\ answers'[call[c].n] = told

LEMMA Answered ==
  ASSUME CallShape, NEW c \in Slots, NEW told, Answer(c, told) PROVE Ends(c, told)
<1>1. call' = [call EXCEPT ![c] = Ended(c, told)]
  BY DEF Answer
<1>2. CallShape' /\ Others(c) /\ call'[c] = Ended(c, told)
  BY <1>1, EndedIs, Becomes
<1>3. answers' = [m \in DOMAIN answers \cup {call[c].n} |-> IF m = call[c].n THEN told ELSE answers[m]]
  BY DEF Answer, Tell
<1> QED BY <1>2, <1>3, EndedIs DEF Ends

LEMMA OwnFrame ==
  ASSUME AgentInv, NEW c \in Slots, NEW d \in Slots, d # c, call[c].n # 0, call'[d] = call[d],
         AddsFor(call[c].n), made' = made, TickInv'
  PROVE  Own(d)'
<1> DEFINE n == call[c].n
<1>1. Own(d) /\ call[d].n # n
  BY DEF AgentInv, Numbered
<1>2. Wrote(d)' <=> Wrote(d)
  BY <1>1 DEF Wrote, AddsFor
<1>3. NumberOf(d)'
  BY <1>1 DEF Own, NumberOf, AddsFor, Free
<1>4. KindOf(d)' /\ PermitOf(d)'
  BY <1>1, <1>2 DEF Own, KindOf, PermitOf
<1>5. LessonOf(d)'
  BY <1>1 DEF Own, LessonOf, AddsFor
<1>6. DryRunOf(d)'
  BY <1>1 DEF Own, DryRunOf, AddsFor, sideEffectsFired
<1>7. RegistrationOf(d)'
  BY <1>1 DEF AgentInv, TickInv, Own, RegistrationOf, AddsFor
<1> QED BY <1>3, <1>4, <1>5, <1>6, <1>7 DEF Own

LEMMA StepRule ==
  ASSUME AgentInv, NEW c \in Slots, ~Free(c), CallShape', Others(c), call'[c].n = call[c].n,
         AddsFor(call[c].n), UNCHANGED load, Own(c)', LessonInv', TickInv'
  PROVE  AgentInv'
<1>1. made' = made /\ script' = script
  BY DEF load
<1>2. call[c].n \in 1 .. made /\ call[c].n # 0
  BY DEF AgentInv, Numbered, Own, NumberOf, Free
<1>3. ASSUME NEW d \in Slots PROVE Own(d)'
  BY <1>1, <1>2, OwnFrame DEF Others
<1>4. Numbered'
  <2>1. \A d \in Slots : call'[d].n = call[d].n
    BY DEF Others
  <2> QED BY <1>1, <1>2, <2>1 DEF AgentInv, Numbered, AddsFor
<1> QED BY <1>3, <1>4 DEF AgentInv

LEMMA LessonsKept ==
  ASSUME LessonInv, lessons' = lessons, log \subseteq log', DOMAIN answers \subseteq DOMAIN answers',
         \A m \in DOMAIN answers : answers'[m] = answers[m]
  PROVE  LessonInv'
<1>1. LessonNs' = LessonNs
  BY DEF LessonNs
<1> QED BY <1>1 DEF LessonInv

LEMMA TicksKept == ASSUME TickInv, UNCHANGED <<sched, dropped>> PROVE TickInv'
BY DEF TickInv

----------------------------------------------------------------------------
(* A call is answered, fails, or goes on.                                  *)

(* An answer that adds no lesson keeps those there are. *)
LEMMA AnswerKeepsLessons ==
  ASSUME AgentInv, NEW c \in Slots, ~Free(c), NEW told, Ends(c, told), UNCHANGED lessons, log \subseteq log'
  PROVE  LessonInv'
<1>1. call[c].n \notin DOMAIN answers
  BY DEF AgentInv, Own, NumberOf
<1> QED BY <1>1, LessonsKept DEF AgentInv, Ends

(* What an answer may say: a write is owned up to, and so is a dry run. *)
LEMMA EndRule ==
  ASSUME AgentInv, NEW c \in Slots, ~Free(c), NEW told, Ends(c, told),
         effects \subseteq effects', \A e \in effects' : e \in effects \/ e.n = call[c].n,
         log \subseteq log', reports \subseteq reports', sched'.next >= sched.next, UNCHANGED load,
         call[c].job.op \in ToolNames =>
           /\ told \in PreDispatch => ~Wrote(c)'
           /\ told = "ok" /\ call[c].job.op \notin Reads => Wrote(c)'
           /\ Wrote(c)' => MayWrite(call[c].job),
         call[c].job.op = "dryrun" =>
           \A e \in effects' : e.n = call[c].n =>
             call[c].job.mode = "scoped",
         sideEffectsFired(c) =>
           told = "unpublished" \/ [n |-> call[c].n, count |-> Len(call[c].done)] \in reports',
         LessonInv', TickInv'
  PROVE  AgentInv'
<1>1. /\ CallShape' /\ Others(c)
      /\ call'[c].pc = "done" /\ call'[c].job = call[c].job /\ call'[c].n = call[c].n
      /\ call'[c].err = told /\ call'[c].ev = 0 /\ call'[c].done = call[c].done
      /\ DOMAIN answers' = DOMAIN answers \cup {call[c].n}
  BY DEF Ends
<1>2. AddsFor(call[c].n)
  BY <1>1 DEF AddsFor
<1>3. Own(c)
  BY DEF AgentInv
<1>4. NumberOf(c)'
  BY <1>1, <1>3 DEF Own, NumberOf, Free, load
<1>5. KindOf(c)'
  BY <1>1, <1>3 DEF Own, KindOf, Calling, Reflecting, Rehearsing, Registering
<1>6. PermitOf(c)'
  BY <1>1 DEF PermitOf, Calling
<1>7. LessonOf(c)' /\ RegistrationOf(c)'
  BY <1>1 DEF LessonOf, RegistrationOf, Calling, Reflecting
<1>8. DryRunOf(c)'
  BY <1>1 DEF DryRunOf, sideEffectsFired
<1> QED BY <1>1, <1>2, <1>4, <1>5, <1>6, <1>7, <1>8, StepRule DEF Own

LEMMA NothingFired ==
  ASSUME AgentInv, NEW c \in Slots, call[c].pc \notin {"invoke", "gate", "publish", "done"}
  PROVE  ~sideEffectsFired(c)
<1>1. call[c].done = <<>>
  BY DEF AgentInv, Own, DryRunOf
<1>2. DOMAIN <<>> = {}
  OBVIOUS
<1> QED BY <1>1, <1>2 DEF sideEffectsFired

(* Only its stage changes: nothing is written, told or noted. *)
LEMMA PcChanges ==
  ASSUME CallShape, NEW c \in Slots, NEW p, call' = [call EXCEPT ![c].pc = p]
  PROVE  /\ CallShape' /\ Others(c)
         /\ call'[c].pc = p /\ call'[c].job = call[c].job /\ call'[c].n = call[c].n
         /\ call'[c].err = call[c].err /\ call'[c].ev = call[c].ev /\ call'[c].done = call[c].done
BY DEF CallShape, Others, CallFields

(* A call goes on: what its next stage rests on holds. *)
LEMMA MoveRule ==
  ASSUME AgentInv, NEW c \in Slots, ~Free(c), CallShape', Others(c),
         call'[c].pc \notin {"idle", "done"}, call'[c].n = call[c].n,
         effects \subseteq effects', \A e \in effects' : e \in effects \/ e.n = call[c].n,
         log \subseteq log', sched'.next >= sched.next, UNCHANGED <<load, answers, reports, lessons>>, TickInv',
         KindOf(c)', PermitOf(c)', LessonOf(c)', DryRunOf(c)', RegistrationOf(c)'
  PROVE  AgentInv'
<1>1. AddsFor(call[c].n)
  BY DEF AddsFor
<1>2. NumberOf(c)'
  BY DEF AgentInv, Own, NumberOf, Free, load
<1>3. LessonInv'
  BY LessonsKept DEF AgentInv
<1> QED BY <1>1, <1>2, <1>3, StepRule DEF Own

LEMMA FailRule ==
  ASSUME AgentInv, NEW c \in Slots, call[c].pc \in Calling \cup {"client"}, NEW err,
         err \notin {"ok", "refused"}, FailWith(c, err),
         effects \subseteq effects', \A e \in effects' : e \in effects \/ e.n = call[c].n,
         call[c].job.op \in ToolNames =>
           /\ err \in PreDispatch => ~Wrote(c)'
           /\ Wrote(c)' => MayWrite(call[c].job),
         UNCHANGED <<load, sched, dropped, lessons, log, reports>>
  PROVE  AgentInv'
<1>1. /\ TickInv' /\ ~Free(c) /\ ~sideEffectsFired(c) /\ Own(c) /\ CallShape
      /\ sched'.next >= sched.next
  BY TicksKept, NothingFired DEF AgentInv, Calling, Free, TickInv
<1>2. call[c].job.op # "dryrun" /\ (call[c].pc = "client" => call[c].job.op \notin ToolNames)
  BY <1>1, ToolNamesAre DEF Own, KindOf
<1>3. CASE Answer(c, err)
  <2>1. Ends(c, err)
    BY <1>1, <1>3, Answered
  <2> QED BY <1>1, <1>2, <2>1, AnswerKeepsLessons, EndRule
<1>4. CASE ~Answer(c, err)
  <2>1. /\ call[c].job.op \in ToolNames /\ ~shouldSkipReflection(err) /\ answers' = answers
        /\ call' = [call EXCEPT ![c].pc = "append", ![c].err = err]
    BY <1>4 DEF FailWith
  <2>2. /\ CallShape' /\ Others(c)
        /\ call'[c].pc = "append" /\ call'[c].job = call[c].job /\ call'[c].n = call[c].n
        /\ call'[c].err = err /\ call'[c].ev = call[c].ev /\ call'[c].done = call[c].done
    BY <1>1, <2>1 DEF CallShape, Others, CallFields
  <2>3. call[c].pc \in Calling
    BY <1>2, <2>1
  <2>4. KindOf(c)'
    BY <1>2, <2>1, <2>2 DEF KindOf, Calling, Reflecting, Rehearsing, Registering
  <2>5. PermitOf(c)'
    BY <2>2 DEF PermitOf, Calling
  <2>6. LessonOf(c)' /\ RegistrationOf(c)'
    BY <1>1, <2>1, <2>2, <2>3 DEF Own, LessonOf, RegistrationOf, Calling, Reflecting
  <2>7. DryRunOf(c)'
    BY <1>1, <1>2, <2>2, <2>3 DEF Own, DryRunOf, Calling, sideEffectsFired
  <2> QED BY <1>1, <2>1, <2>2, <2>4, <2>5, <2>6, <2>7, MoveRule
<1> QED BY <1>3, <1>4

----------------------------------------------------------------------------
(* A tool call, from the dispatcher to its write.                          *)

LEMMA CallingIs ==
  ASSUME AgentInv, NEW c \in Slots, call[c].pc \in Calling
  PROVE  /\ ~Free(c) /\ call[c].job.op \in ToolNames /\ call[c].job.op # "dryrun"
         /\ ~Wrote(c) /\ ~sideEffectsFired(c) /\ call[c].ev = 0 /\ call[c].done = <<>>
         /\ call[c].pc # "dispatch" => Permitted(call[c].job)
         /\ call[c].pc \notin {"dispatch", "handler"} => ~reassigns(call[c].job)
<1>1. /\ ~Free(c) /\ ~sideEffectsFired(c) /\ Own(c)
  BY NothingFired DEF AgentInv, Calling, Free
<1>2. call[c].job.op \in ToolNames
  BY <1>1 DEF Own, KindOf
<1>3. call[c].done = <<>> /\ call[c].ev = 0
  BY <1>1 DEF Own, LessonOf, DryRunOf, Calling
<1> QED BY <1>1, <1>2, <1>3, ToolNamesAre DEF Own, PermitOf

(* Nothing but the call changes when a tool call goes on. *)
LEMMA GoesOn ==
  ASSUME AgentInv, NEW c \in Slots, call[c].pc \in Calling, CallShape', Others(c),
         call'[c].pc \in Calling \ {"dispatch"}, call'[c].job = call[c].job,
         call'[c].n = call[c].n, call'[c].ev = call[c].ev, call'[c].done = call[c].done,
         Permitted(call[c].job), call'[c].pc # "handler" => ~reassigns(call[c].job),
         UNCHANGED <<sched, dropped, effects, answers, reports, load, notes>>
  PROVE  AgentInv'
<1>1. /\ ~Free(c) /\ call[c].job.op \in ToolNames /\ call[c].job.op # "dryrun"
      /\ ~Wrote(c) /\ call[c].ev = 0 /\ call[c].done = <<>>
      /\ TickInv' /\ sched'.next >= sched.next
  BY CallingIs, TicksKept DEF AgentInv, TickInv
<1>2. KindOf(c)'
  BY <1>1 DEF KindOf, Calling, Reflecting, Rehearsing, Registering
<1>3. PermitOf(c)'
  BY <1>1 DEF PermitOf, Calling, Wrote
<1>4. LessonOf(c)' /\ RegistrationOf(c)'
  BY <1>1 DEF LessonOf, RegistrationOf, Calling, Reflecting
<1>5. DryRunOf(c)'
  BY <1>1 DEF DryRunOf, Calling
<1>6. call'[c].pc \notin {"idle", "done"}
  BY DEF Calling
<1> QED BY <1>1, <1>2, <1>3, <1>4, <1>5, <1>6, MoveRule DEF notes

(* A call that has written nothing may be answered with anything but "ok", *)
(* unless it only reads.                                                   *)
LEMMA EndsUnwritten ==
  ASSUME AgentInv, NEW c \in Slots, call[c].pc \in Calling, NEW told, Ends(c, told),
         told = "ok" => call[c].job.op \in Reads,
         UNCHANGED <<sched, dropped, effects, reports, load, notes>>
  PROVE  AgentInv'
<1>1. /\ ~Free(c) /\ call[c].job.op \in ToolNames /\ call[c].job.op # "dryrun"
      /\ ~Wrote(c) /\ ~sideEffectsFired(c)
      /\ TickInv' /\ sched'.next >= sched.next
  BY CallingIs, TicksKept DEF AgentInv, TickInv
<1>2. ~Wrote(c)'
  BY <1>1 DEF Wrote, Ends
<1>3. LessonInv'
  BY <1>1, AnswerKeepsLessons DEF notes
<1> QED BY <1>1, <1>2, <1>3, EndRule DEF notes

LEMMA FailsUnwritten ==
  ASSUME AgentInv, NEW c \in Slots, call[c].pc \in Calling, NEW err,
         err \notin {"ok", "refused"}, FailWith(c, err),
         UNCHANGED <<sched, dropped, effects, reports, load, notes>>
  PROVE  AgentInv'
<1>1. ~Free(c) /\ ~Wrote(c) /\ CallShape
  BY CallingIs DEF AgentInv
<1>2. call'[c].n = call[c].n
  <2>1. CASE Answer(c, err)
    BY <1>1, <2>1, Answered DEF Ends
  <2>2. CASE ~Answer(c, err)
    BY <1>1, <2>2 DEF FailWith, CallShape, CallFields
  <2> QED BY <2>1, <2>2
<1>3. ~Wrote(c)'
  BY <1>1, <1>2 DEF Wrote
<1> QED BY <1>3, FailRule DEF notes

LEMMA InvokeToolKeeps == ASSUME AgentInv, NEW c \in Slots, InvokeTool(c) PROVE AgentInv'
<1> DEFINE v == IF live THEN Dispatch(c) ELSE "terminated"
<1>1. /\ call[c].pc = "dispatch" /\ call[c].pc \in Calling /\ CallShape
      /\ UNCHANGED <<sched, dropped, effects, reports, load, notes>>
  BY DEF InvokeTool, Calling, AgentInv, cronVars, fireVars
<1>2. v \notin {"ok", "refused"}
  BY DEF Dispatch
<1>3. CASE v = "none"
  <2>1. call' = [call EXCEPT ![c].pc = "handler"] /\ answers' = answers
    BY <1>3 DEF InvokeTool
  <2>2. Permitted(call[c].job)
    BY <1>3 DEF Dispatch, Permitted, toolsetContains
  <2>3. /\ CallShape' /\ Others(c)
        /\ call'[c].pc = "handler" /\ call'[c].job = call[c].job /\ call'[c].n = call[c].n
        /\ call'[c].ev = call[c].ev /\ call'[c].done = call[c].done
    BY <1>1, <2>1, PcChanges
  <2> QED BY <1>1, <2>1, <2>2, <2>3, GoesOn DEF Calling
<1>4. CASE v # "none"
  <2>1. FailWith(c, v)
    BY <1>4 DEF InvokeTool
  <2> HIDE DEF v
  <2> QED BY <1>1, <1>2, <2>1, FailsUnwritten
<1> QED BY <1>3, <1>4

LEMMA HandlerKeeps == ASSUME AgentInv, NEW c \in Slots, Handler(c) PROVE AgentInv'
<1>1. /\ call[c].pc = "handler" /\ call[c].pc \in Calling /\ CallShape
      /\ UNCHANGED <<sched, dropped, effects, reports, load, notes>>
  BY DEF Handler, Calling, AgentInv, cronVars, fireVars
<1>2. CASE ~call[c].ctx
  <2>1. FailWith(c, "ctx")
    BY <1>2 DEF Handler
  <2> QED BY <1>1, <2>1, FailsUnwritten
<1>3. CASE call[c].ctx /\ Refuses(call[c].job)
  <2>1. Answer(c, "refused")
    BY <1>3 DEF Handler
  <2>2. Ends(c, "refused")
    BY <1>1, <2>1, Answered
  <2> QED BY <1>1, <2>2, EndsUnwritten
<1>4. CASE call[c].ctx /\ ~Refuses(call[c].job)
  <2> DEFINE j == call[c].job
             p == IF j.op = "fetch_watch_orders" THEN "open" ELSE IF j.op \in Scans THEN "page" ELSE "write"
             k == IF j.op = "find_stale_prs" THEN 1 ELSE 0
             w == IF j.op \in Scans THEN Wanted(j) ELSE {}
  <2>1. /\ p \in {"open", "page", "write"} /\ answers' = answers
        /\ call' = [call EXCEPT ![c].pc = p, ![c].cursor = k, ![c].want = w]
    BY <1>4 DEF Handler
  <2> HIDE DEF p, k, w, j
  <2>2. /\ CallShape' /\ Others(c)
        /\ call'[c].pc = p /\ call'[c].job = call[c].job /\ call'[c].n = call[c].n
        /\ call'[c].ev = call[c].ev /\ call'[c].done = call[c].done
    BY <1>1, <2>1 DEF CallShape, Others, CallFields
  <2>3. Permitted(call[c].job) /\ ~reassigns(call[c].job)
    BY <1>1, <1>4, CallingIs DEF Refuses
  <2> QED BY <1>1, <2>1, <2>2, <2>3, GoesOn DEF Calling
<1> QED BY <1>2, <1>3, <1>4

LEMMA OpenKeeps == ASSUME AgentInv, NEW c \in Slots, openIMOrLiftRefusal(c) PROVE AgentInv'
<1>1. /\ call[c].pc = "open" /\ call[c].pc \in Calling /\ CallShape
      /\ UNCHANGED <<sched, dropped, effects, reports, load, notes>>
  BY DEF openIMOrLiftRefusal, Calling, AgentInv, cronVars, fireVars
<1>2. CASE call' = [call EXCEPT ![c].pc = "page", ![c].want = Wanted(call[c].job)] /\ answers' = answers
  <2>1. /\ CallShape' /\ Others(c)
        /\ call'[c].pc = "page" /\ call'[c].job = call[c].job /\ call'[c].n = call[c].n
        /\ call'[c].ev = call[c].ev /\ call'[c].done = call[c].done
    <3> DEFINE w == Wanted(call[c].job)
    <3>1. call' = [call EXCEPT ![c].pc = "page", ![c].want = w]
      BY <1>2
    <3> HIDE DEF w
    <3> QED BY <1>1, <3>1 DEF CallShape, Others, CallFields
  <2>2. Permitted(call[c].job) /\ ~reassigns(call[c].job)
    BY <1>1, CallingIs
  <2> QED BY <1>1, <1>2, <2>1, <2>2, GoesOn DEF Calling
<1>3. CASE Answer(c, "refused")
  <2>1. Ends(c, "refused")
    BY <1>1, <1>3, Answered
  <2> QED BY <1>1, <2>1, EndsUnwritten
<1>4. CASE FailWith(c, "tool")
  BY <1>1, <1>4, FailsUnwritten
<1> QED BY <1>2, <1>3, <1>4 DEF openIMOrLiftRefusal

LEMMA NextPageKeeps ==
  ASSUME AgentInv, NEW c \in Slots, NEW o \in Scans, NextPage(c, o) PROVE AgentInv'
<1>1. /\ call[c].pc = "page" /\ call[c].pc \in Calling /\ CallShape
      /\ call[c].job.op \in Reads
      /\ UNCHANGED <<sched, dropped, effects, reports, load, notes>>
  BY DEF NextPage, Calling, AgentInv, cronVars, fireVars, Reads
<1>2. \/ FailWith(c, "tool")
      \/ /\ \E g, k, u : call' = [call EXCEPT ![c].got = g, ![c].page = k, ![c].cursor = u]
         /\ UNCHANGED answers
      \/ /\ \E g, t : call' = [call EXCEPT ![c] = [Ended(c, "ok") EXCEPT !.got = g, !.cut = t]]
         /\ Tell(c, "ok")
  <2>1. PICK r \in Pages(c) :
          LET j == call[c].job  got == call[c].got \union Taken(c, r)  k == call[c].page + 1
              cut == IF AtCap(c, r) THEN moreAtCap(c, r) ELSE AfterPage(j, r) # "whole"
          IN  IF ~Decodes(j, r) THEN FailWith(c, "tool")
              ELSE IF ~AtCap(c, r) /\ AfterPage(j, r) = "next" /\ k < MaxPages
                THEN /\ call' = [call EXCEPT ![c].got = got, ![c].page = k, ![c].cursor = r.next]
                     /\ UNCHANGED answers
                ELSE /\ call' = [call EXCEPT ![c] = [Ended(c, "ok") EXCEPT !.got = got, !.cut = cut]]
                     /\ Tell(c, "ok")
    BY DEF NextPage
  <2> DEFINE got == call[c].got \union Taken(c, r)  k == call[c].page + 1
             cut == IF AtCap(c, r) THEN moreAtCap(c, r) ELSE AfterPage(call[c].job, r) # "whole"
  <2>2. \/ FailWith(c, "tool")
        \/ /\ call' = [call EXCEPT ![c].got = got, ![c].page = k, ![c].cursor = r.next]
           /\ UNCHANGED answers
        \/ /\ call' = [call EXCEPT ![c] = [Ended(c, "ok") EXCEPT !.got = got, !.cut = cut]]
           /\ Tell(c, "ok")
    BY <2>1
  <2> HIDE DEF got, k, cut
  <2> QED BY <2>2
<1>3. CASE FailWith(c, "tool")
  BY <1>1, <1>3, FailsUnwritten
<1>4. ASSUME NEW g, NEW k, NEW u, UNCHANGED answers,
             call' = [call EXCEPT ![c].got = g, ![c].page = k, ![c].cursor = u]
      PROVE  AgentInv'
  <2>1. /\ CallShape' /\ Others(c)
        /\ call'[c].pc = "page" /\ call'[c].job = call[c].job /\ call'[c].n = call[c].n
        /\ call'[c].ev = call[c].ev /\ call'[c].done = call[c].done
    BY <1>1, <1>4 DEF CallShape, Others, CallFields
  <2>2. Permitted(call[c].job) /\ ~reassigns(call[c].job)
    BY <1>1, CallingIs
  <2> QED BY <1>1, <1>4, <2>1, <2>2, GoesOn DEF Calling
<1>5. ASSUME NEW g, NEW t, Tell(c, "ok"),
             call' = [call EXCEPT ![c] = [Ended(c, "ok") EXCEPT !.got = g, !.cut = t]]
      PROVE  AgentInv'
  <2> DEFINE x == Ended(c, "ok")
             y == [x EXCEPT !.got = g, !.cut = t]
  <2>1. /\ DOMAIN x = CallFields
        /\ x.pc = "done" /\ x.job = call[c].job /\ x.n = call[c].n /\ x.err = "ok"
        /\ x.ev = 0 /\ x.done = call[c].done
    BY <1>1, EndedIs
  <2>2. call' = [call EXCEPT ![c] = y]
    BY <1>5
  <2> HIDE DEF x
  <2>3. /\ DOMAIN y = CallFields
        /\ y.pc = "done" /\ y.job = call[c].job /\ y.n = call[c].n /\ y.err = "ok"
        /\ y.ev = 0 /\ y.done = call[c].done
    BY <2>1 DEF CallFields
  <2> HIDE DEF y
  <2>4. CallShape' /\ Others(c) /\ call'[c] = y
    BY <1>1, <2>2, <2>3, Becomes
  <2>5. Ends(c, "ok")
    BY <1>5, <2>3, <2>4 DEF Ends, Tell
  <2> QED BY <1>1, <2>5, EndsUnwritten
<1> QED BY <1>2, <1>3, <1>4, <1>5

LEMMA PageFailsKeeps == ASSUME AgentInv, NEW c \in Slots, PageFails(c) PROVE AgentInv'
<1>1. /\ call[c].pc = "page" /\ call[c].pc \in Calling
      /\ UNCHANGED <<sched, dropped, effects, reports, load, notes>>
  BY DEF PageFails, Calling, cronVars, fireVars
<1>2. FailWith(c, "tool") \/ FailWith(c, "ctx")
  BY DEF PageFails
<1> QED BY <1>1, <1>2, FailsUnwritten

(* A request: it may be written or not when it fails, and is when it       *)
(* succeeds.                                                               *)
LEMMA RequestedKeeps ==
  ASSUME AgentInv, NEW c \in Slots, call[c].pc \in {"write", "client"}, NEW what, Requested(c, what),
         call[c].job.op \in ToolNames => MayWrite(call[c].job),
         UNCHANGED <<sched, dropped, reports, load, notes>>
  PROVE  AgentInv'
<1>1. /\ CallShape /\ ~Free(c) /\ ~sideEffectsFired(c) /\ Own(c)
      /\ TickInv' /\ sched'.next >= sched.next
  BY NothingFired, TicksKept DEF AgentInv, TickInv, Free
<1>2. call[c].job.op # "dryrun"
  BY <1>1, ToolNamesAre DEF Own, KindOf, Calling
<1>3. /\ effects \subseteq effects'
      /\ \A e \in effects' : e \in effects \/ e.n = call[c].n
  BY DEF Requested, Succeeds, FailsOrIsLost, Effect
<1>4. CASE Succeeds(c, what)
  <2>1. Ends(c, "ok")
    BY <1>1, <1>4, Answered DEF Succeeds
  <2>2. call[c].job.op \notin Reads => Wrote(c)'
    <3>1. ASSUME call[c].job.op \notin Reads PROVE Effect(c, what) \in effects'
      BY <1>4, <3>1 DEF Succeeds
    <3>2. Effect(c, what).n = call'[c].n
      BY <2>1 DEF Effect, Ends
    <3> QED BY <3>1, <3>2 DEF Wrote
  <2>3. LessonInv'
    BY <1>1, <2>1, AnswerKeepsLessons DEF notes
  <2> QED BY <1>1, <1>2, <1>3, <2>1, <2>2, <2>3, EndRule DEF PreDispatch, notes
<1>5. CASE FailsOrIsLost(c, what)
  <2>1. FailWith(c, "tool")
    BY <1>5 DEF FailsOrIsLost
  <2> QED BY <1>3, <2>1, FailRule DEF PreDispatch, Calling, notes
<1> QED BY <1>4, <1>5 DEF Requested

LEMMA WriteOnceKeeps ==
  ASSUME AgentInv, NEW c \in Slots, NEW o, WriteOnce(c, o) PROVE AgentInv'
<1>1. /\ call[c].pc = "write" /\ call[c].pc \in Calling
      /\ UNCHANGED <<sched, dropped, reports, load, notes>>
  BY DEF WriteOnce, Calling, cronVars, fireVars
<1>2. CASE clientChecks(call[c].job)
  <2>1. Requested(c, call[c].job.op)
    BY <1>2 DEF WriteOnce
  <2>2. MayWrite(call[c].job)
    BY <1>1, <1>2, CallingIs DEF MayWrite, reassigns, clientChecks, fieldWhitelistContains
  <2> QED BY <1>1, <2>1, <2>2, RequestedKeeps
<1>3. CASE ~clientChecks(call[c].job)
  <2>1. FailWith(c, "tool") /\ effects' = effects
    BY <1>3 DEF WriteOnce
  <2> QED BY <1>1, <2>1, FailsUnwritten
<1> QED BY <1>2, <1>3

LEMMA ClientCallKeeps ==
  ASSUME AgentInv, NEW c \in Slots, NEW o, ClientCall(c, o) PROVE AgentInv'
<1>1. /\ call[c].pc = "client" /\ UNCHANGED <<sched, dropped, reports, load, notes>>
  BY DEF ClientCall, cronVars, fireVars
<1>2. call[c].job.op \notin ToolNames
  BY <1>1, ToolNamesAre DEF AgentInv, Own, KindOf
<1>3. CASE clientChecks(call[c].job)
  <2>1. Requested(c, call[c].job.op)
    BY <1>3 DEF ClientCall
  <2> QED BY <1>1, <1>2, <2>1, RequestedKeeps
<1>4. CASE ~clientChecks(call[c].job)
  <2>1. FailWith(c, "invalid") /\ effects' = effects
    BY <1>4 DEF ClientCall
  <2> QED BY <1>1, <1>2, <2>1, FailRule DEF notes
<1> QED BY <1>3, <1>4

----------------------------------------------------------------------------
(* Reflection on a failure.                                                *)

LEMMA ReflectingIs ==
  ASSUME AgentInv, NEW c \in Slots, call[c].pc \in Reflecting
  PROVE  /\ ~Free(c) /\ call[c].job.op \in ToolNames /\ call[c].job.op # "dryrun"
         /\ ~sideEffectsFired(c) /\ call[c].done = <<>>
         /\ call[c].err \in PreDispatch => ~Wrote(c)
         /\ Wrote(c) => MayWrite(call[c].job)
         /\ call[c].err \notin {"ok", "refused"} /\ ~shouldSkipReflection(call[c].err)
         /\ call[c].pc = "append" => call[c].ev = 0
         /\ call[c].ev # 0 => call[c].ev = call[c].n /\ call[c].ev \in log
<1>1. /\ ~Free(c) /\ ~sideEffectsFired(c) /\ Own(c)
      /\ call[c].pc \notin Calling
  BY NothingFired DEF AgentInv, Reflecting, Calling, Free
<1>2. call[c].job.op \in ToolNames
  BY <1>1 DEF Own, KindOf
<1>3. call[c].done = <<>>
  BY <1>1 DEF Own, DryRunOf, Reflecting
<1> QED BY <1>1, <1>2, <1>3, ToolNamesAre DEF Own, PermitOf, LessonOf

(* The next step of a reflection. *)
LEMMA ReflectsOn ==
  ASSUME AgentInv, NEW c \in Slots, call[c].pc \in Reflecting, CallShape', Others(c),
         call'[c].pc \in {"embed", "remember"}, call'[c].job = call[c].job, call'[c].n = call[c].n,
         call'[c].err = call[c].err, call'[c].done = call[c].done,
         call'[c].ev # 0 => call'[c].ev = call[c].n /\ call'[c].ev \in log', log \subseteq log',
         UNCHANGED <<sched, dropped, effects, answers, reports, load, lessons>>
  PROVE  AgentInv'
<1>1. /\ ~Free(c) /\ call[c].job.op \in ToolNames /\ call[c].job.op # "dryrun" /\ call[c].done = <<>>
      /\ call[c].err \in PreDispatch => ~Wrote(c)
      /\ Wrote(c) => MayWrite(call[c].job)
      /\ call[c].err \notin {"ok", "refused"} /\ ~shouldSkipReflection(call[c].err)
      /\ TickInv' /\ sched'.next >= sched.next
  BY ReflectingIs, TicksKept DEF AgentInv, TickInv
<1>2. KindOf(c)'
  BY <1>1 DEF KindOf, Calling, Reflecting, Rehearsing, Registering
<1>3. PermitOf(c)'
  BY <1>1 DEF PermitOf, Calling, Wrote
<1>4. LessonOf(c)' /\ RegistrationOf(c)'
  BY <1>1 DEF LessonOf, RegistrationOf, Calling, Reflecting
<1>5. DryRunOf(c)'
  BY <1>1 DEF DryRunOf
<1> QED BY <1>1, <1>2, <1>3, <1>4, <1>5, MoveRule

(* The tool's failure is what the caller is told in the end. *)
LEMMA ReflectionEnds ==
  ASSUME AgentInv, NEW c \in Slots, call[c].pc \in Reflecting, Ends(c, call[c].err), LessonInv',
         UNCHANGED <<sched, dropped, effects, reports, load, log>>
  PROVE  AgentInv'
<1>1. TickInv' /\ sched'.next >= sched.next
  BY TicksKept DEF AgentInv, TickInv
<1>2. Wrote(c)' <=> Wrote(c)
  BY DEF Wrote, Ends
<1> QED BY <1>1, <1>2, ReflectingIs, EndRule

LEMMA KeepersLogAppendKeeps ==
  ASSUME AgentInv, NEW c \in Slots, KeepersLogAppend(c) PROVE AgentInv'
<1>1. /\ call[c].pc = "append" /\ call[c].pc \in Reflecting /\ CallShape /\ log \subseteq log'
      /\ UNCHANGED <<sched, dropped, effects, answers, reports, load, lessons>>
  BY DEF KeepersLogAppend, Reflecting, AgentInv, cronVars, fireVars
<1>2. /\ CallShape' /\ Others(c)
      /\ call'[c].pc = "embed" /\ call'[c].job = call[c].job /\ call'[c].n = call[c].n
      /\ call'[c].err = call[c].err /\ call'[c].done = call[c].done
      /\ call'[c].ev = call[c].ev \/ (call'[c].ev = call[c].n /\ call[c].n \in log')
  BY <1>1 DEF KeepersLogAppend, CallShape, Others, CallFields
<1> QED BY <1>1, <1>2, ReflectingIs, ReflectsOn

LEMMA EmbedKeeps == ASSUME AgentInv, NEW c \in Slots, Embed(c) PROVE AgentInv'
<1>1. /\ call[c].pc = "embed" /\ call[c].pc \in Reflecting /\ CallShape
      /\ UNCHANGED <<sched, dropped, effects, reports, load, log, lessons>>
  BY DEF Embed, Reflecting, AgentInv, cronVars, fireVars, notes
<1>2. CASE call' = [call EXCEPT ![c].pc = "remember"] /\ answers' = answers
  <2>1. /\ CallShape' /\ Others(c)
        /\ call'[c].pc = "remember" /\ call'[c].job = call[c].job /\ call'[c].n = call[c].n
        /\ call'[c].err = call[c].err /\ call'[c].ev = call[c].ev /\ call'[c].done = call[c].done
    BY <1>1, <1>2, PcChanges
  <2>2. call[c].ev # 0 => call[c].ev = call[c].n /\ call[c].ev \in log
    BY <1>1, ReflectingIs
  <2> QED BY <1>1, <1>2, <2>1, <2>2, ReflectsOn
<1>3. CASE Answer(c, call[c].err)
  <2>1. Ends(c, call[c].err)
    BY <1>1, <1>3, Answered
  <2>2. LessonInv'
    BY <1>1, <2>1, ReflectingIs, AnswerKeepsLessons
  <2> QED BY <1>1, <2>1, <2>2, ReflectionEnds
<1> QED BY <1>2, <1>3 DEF Embed

(* The lesson is the first about this call, for the call was not answered. *)
LEMMA RememberKeeps == ASSUME AgentInv, NEW c \in Slots, Remember(c) PROVE AgentInv'
<1> DEFINE n == call[c].n  l == [n |-> n, ev |-> call[c].ev]
<1>1. /\ call[c].pc = "remember" /\ call[c].pc \in Reflecting /\ CallShape
      /\ UNCHANGED <<sched, dropped, effects, reports, load, log>>
      /\ Answer(c, call[c].err)
  BY DEF Remember, Reflecting, AgentInv, cronVars, fireVars
<1>2. Ends(c, call[c].err)
  BY <1>1, Answered
<1>3. ~Free(c) /\ n \notin DOMAIN answers /\ LessonInv
  BY <1>1, ReflectingIs DEF AgentInv, Own, NumberOf
<1>4. CASE lessons' = lessons
  <2>1. LessonInv'
    BY <1>1, <1>2, <1>3, <1>4, AnswerKeepsLessons
  <2> QED BY <1>1, <1>2, <2>1, ReflectionEnds
<1>5. CASE lessons' = lessons \cup {l}
  <2>1. n \notin LessonNs /\ l \notin lessons
    BY <1>3 DEF LessonInv, LessonNs
  <2>2. LessonNs' = LessonNs \cup {n}
    <3>1. LessonNs' = {m.n : m \in lessons \cup {l}}
      BY <1>5 DEF LessonNs
    <3>2. {m.n : m \in lessons \cup {l}} = {m.n : m \in lessons} \cup {l.n}
      OBVIOUS
    <3>3. l.n = n
      OBVIOUS
    <3> QED BY <3>1, <3>2, <3>3 DEF LessonNs
  <2>3. /\ IsFiniteSet(lessons') /\ Cardinality(lessons') = Cardinality(lessons) + 1
        /\ IsFiniteSet(LessonNs') /\ Cardinality(LessonNs') = Cardinality(LessonNs) + 1
    BY <1>3, <1>5, <2>1, <2>2, FS_AddElement DEF LessonInv
  <2>4. ASSUME NEW m \in lessons'
        PROVE  /\ m.n \in DOMAIN answers'
               /\ answers'[m.n] \notin {"ok", "refused"} /\ ~shouldSkipReflection(answers'[m.n])
               /\ m.ev # 0 => m.ev = m.n /\ m.ev \in log'
    <3>1. CASE m \in lessons
      BY <1>1, <1>2, <1>3, <3>1 DEF LessonInv, Ends
    <3>2. CASE m = l
      BY <1>1, <1>2, <3>2, ReflectingIs DEF Ends
    <3> QED BY <1>5, <3>1, <3>2
  <2>5. LessonInv'
    BY <1>3, <2>3, <2>4 DEF LessonInv
  <2> QED BY <1>1, <1>2, <2>5, ReflectionEnds
<1> QED BY <1>4, <1>5 DEF Remember

----------------------------------------------------------------------------
(* The dry run of a proposed tool.                                         *)

(* What a dry run did so far, it did in the mode that allows it.            *)
Confined(c) ==
  \A e \in effects : e.n = call[c].n =>
    call[c].job.mode = "scoped"

LEMMA RehearsingIs ==
  ASSUME AgentInv, NEW c \in Slots, call[c].pc \in Rehearsing
  PROVE  /\ ~Free(c) /\ call[c].job.op = "dryrun" /\ call[c].job.op \notin ToolNames
         /\ call[c].job.mode \in Modes /\ Confined(c)
         /\ call[c].pc \in {"scope", "invoke"} => call[c].job.mode = "scoped"
         /\ call[c].pc \in {"validate", "scope"} => call[c].done = <<>> /\ ~sideEffectsFired(c)
<1>1. ~Free(c) /\ Own(c)
  BY DEF AgentInv, Rehearsing, Free
<1>2. call[c].job.op = "dryrun"
  BY <1>1 DEF Own, KindOf
<1>3. call[c].job.op \notin ToolNames
  BY <1>2, ToolNamesAre
<1>4. call[c].job.mode \in Modes
  BY <1>1, <1>2 DEF Own, KindOf
<1>5. Confined(c)
  BY <1>1, <1>2 DEF Own, DryRunOf, Confined
<1>6. call[c].pc \in {"scope", "invoke"} => call[c].job.mode = "scoped"
  BY <1>1 DEF Own, DryRunOf
<1>7. call[c].pc \in {"validate", "scope"} => call[c].done = <<>> /\ ~sideEffectsFired(c)
  BY <1>1, NothingFired DEF Own, DryRunOf
<1> QED BY <1>1, <1>2, <1>3, <1>4, <1>5, <1>6, <1>7

LEMMA RehearsesOn ==
  ASSUME AgentInv, NEW c \in Slots, call[c].pc \in Rehearsing, CallShape', Others(c),
         call'[c].pc \in {"scope", "invoke", "gate", "publish"}, call'[c].job = call[c].job,
         call'[c].n = call[c].n, call'[c].pc = "scope" => call'[c].done = <<>>,
         call'[c].pc \in {"scope", "invoke"} => call[c].job.mode = "scoped", Confined(c)',
         effects \subseteq effects', \A e \in effects' : e \in effects \/ e.n = call[c].n,
         UNCHANGED <<sched, dropped, answers, reports, load, notes>>
  PROVE  AgentInv'
<1>1. /\ ~Free(c) /\ call[c].job.op = "dryrun" /\ call[c].job.op \notin ToolNames
      /\ call[c].job.mode \in Modes
      /\ TickInv' /\ sched'.next >= sched.next
  BY RehearsingIs, TicksKept DEF AgentInv, TickInv
<1>2. KindOf(c)'
  BY <1>1 DEF KindOf, Calling, Reflecting, Rehearsing, Registering
<1>3. PermitOf(c)'
  BY <1>1 DEF PermitOf
<1>4. LessonOf(c)' /\ RegistrationOf(c)'
  BY <1>1 DEF LessonOf, RegistrationOf, Calling, Reflecting
<1>5. DryRunOf(c)'
  BY <1>1 DEF DryRunOf, Confined
<1> QED BY <1>1, <1>2, <1>3, <1>4, <1>5, MoveRule DEF notes

LEMMA RehearsalEnds ==
  ASSUME AgentInv, NEW c \in Slots, call[c].pc \in Rehearsing, NEW told, Answer(c, told),
         Confined(c)', effects \subseteq effects', \A e \in effects' : e \in effects \/ e.n = call[c].n,
         reports \subseteq reports',
         sideEffectsFired(c) =>
           told = "unpublished" \/ [n |-> call[c].n, count |-> Len(call[c].done)] \in reports',
         UNCHANGED <<sched, dropped, load, notes>>
  PROVE  AgentInv'
<1>1. /\ ~Free(c) /\ call[c].job.op = "dryrun" /\ call[c].job.op \notin ToolNames
      /\ TickInv' /\ sched'.next >= sched.next /\ CallShape
  BY RehearsingIs, TicksKept DEF AgentInv, TickInv
<1>2. Ends(c, told)
  BY <1>1, Answered
<1>3. LessonInv'
  BY <1>1, <1>2, AnswerKeepsLessons DEF notes
<1>4. \A e \in effects' : e.n = call[c].n =>
        call[c].job.mode = "scoped"
  BY <1>2 DEF Confined, Ends
<1> QED BY <1>1, <1>2, <1>3, <1>4, EndRule DEF notes

(* Nothing is done outside: what was done stays confined. *)
LEMMA StaysConfined ==
  ASSUME AgentInv, NEW c \in Slots, call[c].pc \in Rehearsing, UNCHANGED effects,
         call'[c].n = call[c].n, call'[c].job = call[c].job
  PROVE  Confined(c)'
BY RehearsingIs DEF Confined

LEMMA AnswerIsFor ==
  ASSUME AgentInv, NEW c \in Slots, NEW told, Answer(c, told)
  PROVE  call'[c].n = call[c].n /\ call'[c].job = call[c].job
<1>1. CallShape
  BY DEF AgentInv
<1> QED BY <1>1, Answered DEF Ends

LEMMA ValidateKeeps == ASSUME AgentInv, NEW c \in Slots, Validate(c) PROVE AgentInv'
<1>1. /\ call[c].pc = "validate" /\ call[c].pc \in Rehearsing /\ CallShape
      /\ UNCHANGED <<sched, dropped, effects, reports, load, notes>>
  BY DEF Validate, Rehearsing, AgentInv, cronVars, fireVars
<1>2. \/ \E told : Answer(c, told)
      \/ /\ UNCHANGED answers /\ call[c].job.mode # "none"
         /\ call' = [call EXCEPT
              ![c].pc = IF call[c].job.mode = "ghost" THEN "gate" ELSE "scope",
              ![c].done = IF call[c].job.mode = "ghost"
                            THEN [i \in 1..Len(call[c].job.invs) |-> "ghosted"] ELSE <<>>]
  BY DEF Validate
<1>3. ASSUME NEW told, Answer(c, told) PROVE AgentInv'
  BY <1>1, <1>3, AnswerIsFor, StaysConfined, RehearsingIs, RehearsalEnds
<1>4. ASSUME UNCHANGED answers, call[c].job.mode # "none", NEW p, NEW d,
             call' = [call EXCEPT ![c].pc = p, ![c].done = d],
             \/ call[c].job.mode = "ghost" /\ p = "gate"
             \/ call[c].job.mode # "ghost" /\ p = "scope" /\ d = <<>>
      PROVE  AgentInv'
  <2>1. /\ CallShape' /\ Others(c)
        /\ call'[c].pc = p /\ call'[c].job = call[c].job /\ call'[c].n = call[c].n
        /\ call'[c].done = d
    BY <1>1, <1>4 DEF CallShape, Others, CallFields
  <2>2. p = "scope" => call[c].job.mode = "scoped"
    BY <1>1, <1>4, RehearsingIs DEF Modes
  <2>3. Confined(c)'
    BY <1>1, <2>1, StaysConfined
  <2> QED BY <1>1, <1>4, <2>1, <2>2, <2>3, RehearsesOn
<1>5. CASE \E told : Answer(c, told)
  BY <1>3, <1>5
<1>6. CASE /\ UNCHANGED answers /\ call[c].job.mode # "none"
           /\ call' = [call EXCEPT
                ![c].pc = IF call[c].job.mode = "ghost" THEN "gate" ELSE "scope",
                ![c].done = IF call[c].job.mode = "ghost"
                              THEN [i \in 1..Len(call[c].job.invs) |-> "ghosted"] ELSE <<>>]
  <2> DEFINE p == IF call[c].job.mode = "ghost" THEN "gate" ELSE "scope"
             d == IF call[c].job.mode = "ghost"
                    THEN [i \in 1..Len(call[c].job.invs) |-> "ghosted"] ELSE <<>>
  <2>1. /\ call' = [call EXCEPT ![c].pc = p, ![c].done = d]
        /\ \/ call[c].job.mode = "ghost" /\ p = "gate"
           \/ call[c].job.mode # "ghost" /\ p = "scope" /\ d = <<>>
    BY <1>6
  <2> HIDE DEF p, d
  <2> QED BY <1>4, <1>6, <2>1
<1> QED BY <1>2, <1>5, <1>6

LEMMA ScopeResolverKeeps == ASSUME AgentInv, NEW c \in Slots, ScopeResolver(c) PROVE AgentInv'
<1>1. /\ call[c].pc = "scope" /\ call[c].pc \in Rehearsing /\ CallShape
      /\ UNCHANGED <<sched, dropped, effects, reports, load, notes>>
  BY DEF ScopeResolver, Rehearsing, AgentInv, cronVars, fireVars
<1>2. CASE call' = [call EXCEPT ![c].pc = "invoke"] /\ answers' = answers
  <2>1. /\ CallShape' /\ Others(c)
        /\ call'[c].pc = "invoke" /\ call'[c].job = call[c].job /\ call'[c].n = call[c].n
    BY <1>1, <1>2, PcChanges
  <2> QED BY <1>1, <1>2, <2>1, StaysConfined, RehearsingIs, RehearsesOn
<1>3. CASE Answer(c, "scope")
  BY <1>1, <1>3, AnswerIsFor, StaysConfined, RehearsingIs, RehearsalEnds
<1> QED BY <1>2, <1>3 DEF ScopeResolver

(* The run breaks off: unreported only when nothing went out. *)
LEMMA BreakOffKeeps ==
  ASSUME AgentInv, NEW c \in Slots, call[c].pc \in Rehearsing, NEW err, NEW d, BreakOff(c, err, d),
         effects \subseteq effects', \A e \in effects' : e \in effects \/ e.n = call[c].n,
         \A e \in effects' : e.n = call[c].n =>
           call[c].job.mode = "scoped",
         UNCHANGED <<sched, dropped, reports, load, notes>>
  PROVE  AgentInv'
<1>1. CASE sideEffectsFired(c)
  <2>1. call' = [call EXCEPT ![c].pc = "publish", ![c].err = err, ![c].done = d] /\ answers' = answers
    BY <1>1 DEF BreakOff
  <2>2. /\ CallShape' /\ Others(c)
        /\ call'[c].pc = "publish" /\ call'[c].job = call[c].job /\ call'[c].n = call[c].n
    BY <2>1 DEF AgentInv, CallShape, Others, CallFields
  <2>3. Confined(c)'
    BY <2>2 DEF Confined
  <2> QED BY <2>1, <2>2, <2>3, RehearsesOn
<1>2. CASE ~sideEffectsFired(c)
  <2>1. Answer(c, err)
    BY <1>2 DEF BreakOff
  <2>2. Confined(c)'
    BY <2>1, AnswerIsFor DEF Confined
  <2> QED BY <1>2, <2>1, <2>2, RehearsalEnds
<1> QED BY <1>1, <1>2

LEMMA ExecuteScopedKeeps == ASSUME AgentInv, NEW c \in Slots, executeScoped(c) PROVE AgentInv'
<1> DEFINE i == call[c].page + 1
           e0 == Effect(c, call[c].job.invs[i].kind)
<1>1. /\ call[c].pc = "invoke" /\ call[c].pc \in Rehearsing /\ CallShape
      /\ UNCHANGED <<sched, dropped, reports, load, notes>>
  BY DEF executeScoped, Rehearsing, AgentInv, cronVars, fireVars
<1>2. e0.n = call[c].n
  BY DEF Effect
<1>3. ASSUME effects' \subseteq effects \cup {e0}
      PROVE  \A e \in effects' : e.n = call[c].n =>
               call[c].job.mode = "scoped"
  <2> HIDE DEF e0
  <2> QED BY <1>1, <1>2, <1>3, RehearsingIs DEF Confined
<1>4. \/ /\ call' = [call EXCEPT ![c].pc = "gate"] /\ UNCHANGED <<answers, effects>>
      \/ \E err, d : BreakOff(c, err, d) /\ effects' \in {effects, effects \cup {e0}}
      \/ /\ \E d : call' = [call EXCEPT ![c].page = i, ![c].done = d]
         /\ effects' \in {effects, effects \cup {e0}} /\ UNCHANGED answers
  BY DEF executeScoped
<1> HIDE DEF e0, i
<1>5. CASE call' = [call EXCEPT ![c].pc = "gate"] /\ UNCHANGED <<answers, effects>>
  <2>1. /\ CallShape' /\ Others(c)
        /\ call'[c].pc = "gate" /\ call'[c].job = call[c].job /\ call'[c].n = call[c].n
    BY <1>1, <1>5, PcChanges
  <2> QED BY <1>1, <1>5, <2>1, StaysConfined, RehearsesOn
<1>6. CASE \E err, d : BreakOff(c, err, d) /\ effects' \in {effects, effects \cup {e0}}
  <2>1. PICK err, d : BreakOff(c, err, d) /\ effects' \in {effects, effects \cup {e0}}
    BY <1>6
  <2>2. /\ effects \subseteq effects' /\ effects' \subseteq effects \cup {e0}
        /\ \A e \in effects' : e \in effects \/ e.n = call[c].n
    BY <1>2, <2>1
  <2> QED BY <1>1, <1>3, <2>1, <2>2, BreakOffKeeps
<1>7. CASE /\ \E d : call' = [call EXCEPT ![c].page = i, ![c].done = d]
           /\ effects' \in {effects, effects \cup {e0}} /\ UNCHANGED answers
  <2>1. PICK d : call' = [call EXCEPT ![c].page = i, ![c].done = d]
    BY <1>7
  <2>2. /\ CallShape' /\ Others(c)
        /\ call'[c].pc = "invoke" /\ call'[c].job = call[c].job /\ call'[c].n = call[c].n
    BY <1>1, <2>1 DEF CallShape, Others, CallFields
  <2>3. /\ effects \subseteq effects' /\ effects' \subseteq effects \cup {e0}
        /\ \A e \in effects' : e \in effects \/ e.n = call[c].n
    BY <1>2, <1>7
  <2>4. Confined(c)'
    BY <1>3, <2>2, <2>3 DEF Confined
  <2>5. call[c].job.mode = "scoped"
    BY <1>1, RehearsingIs
  <2> QED BY <1>1, <1>7, <2>2, <2>3, <2>4, <2>5, RehearsesOn
<1> QED BY <1>4, <1>5, <1>6, <1>7

LEMMA PrePublishGateKeeps == ASSUME AgentInv, NEW c \in Slots, prePublishGate(c) PROVE AgentInv'
<1>1. /\ call[c].pc = "gate" /\ call[c].pc \in Rehearsing /\ CallShape
      /\ UNCHANGED <<sched, dropped, effects, reports, load, notes>>
  BY DEF prePublishGate, Rehearsing, AgentInv, cronVars, fireVars
<1>2. CASE ~call[c].ctx /\ ~sideEffectsFired(c)
  <2>1. Answer(c, "ctx")
    BY <1>2 DEF prePublishGate
  <2> QED BY <1>1, <1>2, <2>1, AnswerIsFor, StaysConfined, RehearsalEnds
<1>3. CASE ~(~call[c].ctx /\ ~sideEffectsFired(c))
  <2>1. call' = [call EXCEPT ![c].pc = "publish"] /\ answers' = answers
    BY <1>3 DEF prePublishGate
  <2>2. /\ CallShape' /\ Others(c)
        /\ call'[c].pc = "publish" /\ call'[c].job = call[c].job /\ call'[c].n = call[c].n
    BY <1>1, <2>1, PcChanges
  <2> QED BY <1>1, <2>1, <2>2, StaysConfined, RehearsesOn
<1> QED BY <1>2, <1>3

LEMMA PublishDryRunKeeps == ASSUME AgentInv, NEW c \in Slots, publishDryRun(c) PROVE AgentInv'
<1> DEFINE report == [n |-> call[c].n, count |-> Len(call[c].done)]
<1>1. /\ call[c].pc = "publish" /\ call[c].pc \in Rehearsing /\ CallShape
      /\ UNCHANGED <<sched, dropped, effects, load, notes>>
  BY DEF publishDryRun, Rehearsing, AgentInv, cronVars, fireVars
<1>2. PICK told : /\ Answer(c, told)
                  /\ \/ reports' = reports \cup {report}
                     \/ told = "unpublished" /\ reports' = reports
  BY DEF publishDryRun
<1>3. /\ reports \subseteq reports'
      /\ told = "unpublished" \/ report \in reports'
  BY <1>2
<1>4. Confined(c)'
  BY <1>1, <1>2, AnswerIsFor, StaysConfined
<1> QED BY <1>1, <1>2, <1>3, <1>4, RehearsalEnds

----------------------------------------------------------------------------
(* The scheduler and its registrations.                                    *)

LEMMA RegisteringIs ==
  ASSUME AgentInv, NEW c \in Slots, call[c].pc \in Registering
  PROVE  /\ ~Free(c) /\ call[c].job.op \notin ToolNames \cup ClientCalls \cup {"dryrun"}
         /\ ~sideEffectsFired(c) /\ call[c].done = <<>>
         /\ call[c].pc \in {"reg2", "unreg"} => call[c].ev \in 1 .. sched.next - 1
<1>1. ~Free(c) /\ ~sideEffectsFired(c) /\ Own(c)
  BY NothingFired DEF AgentInv, Registering, Free
<1>2. call[c].done = <<>>
  BY <1>1 DEF Own, DryRunOf, Registering
<1> QED BY <1>1, <1>2 DEF Own, KindOf, RegistrationOf

LEMMA RegisteringEnds ==
  ASSUME AgentInv, NEW c \in Slots, call[c].pc \in Registering, NEW told, Answer(c, told),
         TickInv', sched'.next >= sched.next, UNCHANGED <<effects, reports, load, notes>>
  PROVE  AgentInv'
<1>1. Ends(c, told)
  BY Answered DEF AgentInv
<1>2. LessonInv'
  BY <1>1, RegisteringIs, AnswerKeepsLessons DEF notes
<1> QED BY <1>1, <1>2, RegisteringIs, EndRule DEF notes

LEMMA RegistersOn ==
  ASSUME AgentInv, NEW c \in Slots, call[c].pc \in Registering, CallShape', Others(c),
         call'[c].pc \in {"reg1", "reg2", "unreg"}, call'[c].job = call[c].job,
         call'[c].n = call[c].n, call'[c].done = call[c].done,
         call'[c].pc \in {"reg2", "unreg"} => call'[c].ev \in 1 .. sched'.next - 1,
         TickInv', sched'.next >= sched.next, UNCHANGED <<effects, answers, reports, load, notes>>
  PROVE  AgentInv'
<1>1. /\ ~Free(c) /\ call[c].job.op \notin ToolNames \cup ClientCalls \cup {"dryrun"}
      /\ call[c].done = <<>>
  BY RegisteringIs
<1>2. KindOf(c)'
  BY <1>1 DEF KindOf, Calling, Reflecting, Rehearsing, Registering
<1>3. PermitOf(c)' /\ RegistrationOf(c)'
  BY <1>1 DEF PermitOf, RegistrationOf
<1>4. LessonOf(c)'
  BY DEF LessonOf, Calling, Reflecting
<1>5. DryRunOf(c)'
  BY <1>1 DEF DryRunOf
<1> QED BY <1>1, <1>2, <1>3, <1>4, <1>5, MoveRule DEF notes

(* What the scheduler's operations do to its entries. *)
LEMMA ScheduleKeeps ==
  ASSUME TickInv, Schedule(sched.next), UNCHANGED dropped
  PROVE  TickInv' /\ sched'.next = sched.next + 1
<1> DEFINE id == sched.next
<1>1. id \in Nat \ {0} /\ id \notin dropped
  BY DEF TickInv
<1>2. sched' = [state |-> sched.state, entries |-> sched.entries \cup {id}, next |-> id + 1]
  BY DEF TickInv, Schedule
<1>3. /\ sched'.state = sched.state /\ sched'.entries = sched.entries \cup {id} /\ sched'.next = id + 1
      /\ id + 1 \in Nat \ {0} /\ \A k \in 1 .. id - 1 : k \in 1 .. (id + 1) - 1
  BY <1>1, <1>2
<1>4. sched' \in [state : {"notStarted", "started", "stopped"}, entries : SUBSET Nat, next : Nat \ {0}]
  BY <1>1, <1>2, <1>3 DEF TickInv
<1>5. /\ sched'.entries \subseteq 1 .. sched'.next - 1
      /\ dropped' \subseteq 1 .. sched'.next - 1
      /\ sched'.state # "stopped" => sched'.entries \cap dropped' = {}
  BY <1>1, <1>3 DEF TickInv
<1> QED BY <1>3, <1>4, <1>5 DEF TickInv

LEMMA UnscheduleKeeps ==
  ASSUME TickInv, NEW e, Unschedule(e),
         dropped' = dropped \/ (dropped' = dropped \cup {e} /\ e \in 1 .. sched.next - 1)
  PROVE  TickInv' /\ sched'.next = sched.next
BY DEF TickInv, Unschedule

LEMMA StateKeeps ==
  ASSUME TickInv, NEW s \in {"started", "stopped"}, sched.state = "notStarted" \/ s = "stopped",
         sched' = [sched EXCEPT !.state = s], UNCHANGED dropped
  PROVE  TickInv' /\ sched'.next = sched.next
BY DEF TickInv

LEMMA NextIs == ASSUME AgentInv PROVE TickInv /\ sched.next \in Nat
BY DEF AgentInv, TickInv

LEMMA CronCallKeeps == ASSUME AgentInv, NEW c \in Slots, CronCall(c) PROVE AgentInv'
<1>1. /\ call[c].pc = "cron" /\ call[c].pc \in Registering /\ CallShape
      /\ UNCHANGED <<dropped, effects, reports, load, notes>>
  BY DEF CronCall, Registering, AgentInv, fireVars
<1>2. TickInv /\ sched.next \in Nat
  BY NextIs
<1>3. \/ \E told : Answer(c, told) /\ UNCHANGED sched
      \/ Answer(c, "ok") /\ Schedule(sched.next)
      \/ Answer(c, "ok") /\ \E e : Unschedule(e)
      \/ Answer(c, "ok") /\ sched.state = "notStarted" /\ sched' = [sched EXCEPT !.state = "started"]
      \/ Answer(c, "ok") /\ sched' = [sched EXCEPT !.state = "stopped"]
      \/ call' = [call EXCEPT ![c].pc = "reg1"] /\ UNCHANGED <<sched, answers>>
  BY DEF CronCall
<1>4. ASSUME NEW told, Answer(c, told), UNCHANGED sched PROVE AgentInv'
  BY <1>1, <1>2, <1>4, TicksKept, RegisteringEnds
<1>5. CASE Answer(c, "ok") /\ Schedule(sched.next)
  <2>1. TickInv' /\ sched'.next = sched.next + 1
    BY <1>1, <1>2, <1>5, ScheduleKeeps
  <2> QED BY <1>1, <1>2, <1>5, <2>1, RegisteringEnds
<1>6. CASE Answer(c, "ok") /\ \E e : Unschedule(e)
  <2>1. PICK e : Unschedule(e)
    BY <1>6
  <2>2. TickInv' /\ sched'.next = sched.next
    BY <1>1, <1>2, <2>1, UnscheduleKeeps
  <2> QED BY <1>1, <1>2, <1>6, <2>2, RegisteringEnds
<1>7. CASE Answer(c, "ok") /\ sched.state = "notStarted" /\ sched' = [sched EXCEPT !.state = "started"]
  <2>1. TickInv' /\ sched'.next = sched.next
    BY <1>1, <1>2, <1>7, StateKeeps
  <2> QED BY <1>1, <1>2, <1>7, <2>1, RegisteringEnds
<1>8. CASE Answer(c, "ok") /\ sched' = [sched EXCEPT !.state = "stopped"]
  <2>1. TickInv' /\ sched'.next = sched.next
    BY <1>1, <1>2, <1>8, StateKeeps
  <2> QED BY <1>1, <1>2, <1>8, <2>1, RegisteringEnds
<1>9. CASE call' = [call EXCEPT ![c].pc = "reg1"] /\ UNCHANGED <<sched, answers>>
  <2>1. /\ CallShape' /\ Others(c)
        /\ call'[c].pc = "reg1" /\ call'[c].job = call[c].job /\ call'[c].n = call[c].n
        /\ call'[c].done = call[c].done
    BY <1>1, <1>9, PcChanges
  <2>2. TickInv'
    BY <1>1, <1>2, <1>9, TicksKept
  <2> QED BY <1>1, <1>2, <1>9, <2>1, <2>2, RegistersOn
<1> QED BY <1>3, <1>4, <1>5, <1>6, <1>7, <1>8, <1>9

LEMMA RegisterBriefingKeeps == ASSUME AgentInv, NEW c \in Slots, RegisterBriefing(c) PROVE AgentInv'
<1>1. /\ call[c].pc = "reg1" /\ call[c].pc \in Registering /\ CallShape
      /\ UNCHANGED <<dropped, effects, reports, load, notes>>
  BY DEF RegisterBriefing, Registering, AgentInv, fireVars
<1>2. TickInv /\ sched.next \in Nat
  BY NextIs
<1>3. CASE call[c].job.flaw = "briefing" \/ sched.state = "stopped"
  <2>1. Answer(c, "invalid") /\ UNCHANGED sched
    BY <1>3 DEF RegisterBriefing
  <2> QED BY <1>1, <1>2, <2>1, TicksKept, RegisteringEnds
<1>4. CASE ~(call[c].job.flaw = "briefing" \/ sched.state = "stopped")
  <2>1. /\ Schedule(sched.next) /\ UNCHANGED answers
        /\ call' = [call EXCEPT ![c].pc = "reg2", ![c].ev = sched.next]
    BY <1>4 DEF RegisterBriefing
  <2>2. TickInv' /\ sched'.next = sched.next + 1
    BY <1>1, <1>2, <2>1, ScheduleKeeps
  <2>3. /\ CallShape' /\ Others(c)
        /\ call'[c].pc = "reg2" /\ call'[c].job = call[c].job /\ call'[c].n = call[c].n
        /\ call'[c].done = call[c].done /\ call'[c].ev = sched.next
    BY <1>1, <2>1 DEF CallShape, Others, CallFields
  <2>4. sched.next >= 1
    BY <1>2 DEF TickInv
  <2>5. call'[c].ev \in 1 .. sched'.next - 1
    BY <1>2, <2>2, <2>3, <2>4
  <2>6. sched'.next >= sched.next /\ UNCHANGED <<effects, answers, reports, load, notes>>
    BY <1>1, <1>2, <2>1, <2>2
  <2> QED BY <1>1, <2>2, <2>3, <2>5, <2>6, RegistersOn
<1> QED BY <1>3, <1>4

LEMMA RegisterSweepKeeps == ASSUME AgentInv, NEW c \in Slots, RegisterSweep(c) PROVE AgentInv'
<1>1. /\ call[c].pc = "reg2" /\ call[c].pc \in Registering /\ CallShape
      /\ UNCHANGED <<dropped, effects, reports, load, notes>>
  BY DEF RegisterSweep, Registering, AgentInv, fireVars
<1>2. TickInv /\ sched.next \in Nat
  BY NextIs
<1>3. CASE call' = [call EXCEPT ![c].pc = "unreg"] /\ UNCHANGED <<answers, sched>>
  <2>1. /\ CallShape' /\ Others(c)
        /\ call'[c].pc = "unreg" /\ call'[c].job = call[c].job /\ call'[c].n = call[c].n
        /\ call'[c].done = call[c].done /\ call'[c].ev = call[c].ev
    BY <1>1, <1>3, PcChanges
  <2>2. TickInv' /\ call[c].ev \in 1 .. sched.next - 1
    BY <1>1, <1>2, <1>3, TicksKept, RegisteringIs
  <2> QED BY <1>1, <1>2, <1>3, <2>1, <2>2, RegistersOn
<1>4. CASE Answer(c, "ok") /\ Schedule(sched.next)
  <2>1. TickInv' /\ sched'.next = sched.next + 1
    BY <1>1, <1>2, <1>4, ScheduleKeeps
  <2> QED BY <1>1, <1>2, <1>4, <2>1, RegisteringEnds
<1> QED BY <1>3, <1>4 DEF RegisterSweep

(* The first tick is taken back unless the scheduler has stopped. *)
LEMMA UndoBriefingKeeps == ASSUME AgentInv, NEW c \in Slots, UndoBriefing(c) PROVE AgentInv'
<1>1. /\ call[c].pc = "unreg" /\ call[c].pc \in Registering
      /\ dropped' = dropped \cup {call[c].ev} /\ Answer(c, "invalid")
      /\ UNCHANGED <<effects, reports, load, notes>>
  BY DEF UndoBriefing, Registering
<1>2. TickInv /\ sched.next \in Nat /\ call[c].ev \in 1 .. sched.next - 1
  BY <1>1, NextIs, RegisteringIs
<1>3. CASE sched.state = "stopped"
  <2>1. sched' = sched
    BY <1>3 DEF UndoBriefing
  <2>2. TickInv'
    BY <1>1, <1>2, <1>3, <2>1 DEF TickInv
  <2> QED BY <1>1, <1>2, <2>1, <2>2, RegisteringEnds
<1>4. CASE sched.state # "stopped"
  <2>1. Unschedule(call[c].ev)
    BY <1>4 DEF UndoBriefing
  <2>2. TickInv' /\ sched'.next = sched.next
    BY <1>1, <1>2, <2>1, UnscheduleKeeps
  <2> QED BY <1>1, <1>2, <2>2, RegisteringEnds
<1> QED BY <1>3, <1>4

----------------------------------------------------------------------------
(* Beginnings, cancellations and the environment.                          *)

(* What a step does to a call besides these fields does not matter. *)
LEMMA SameCalls ==
  ASSUME AgentInv, CallShape',
         \A d \in Slots : /\ call'[d].pc = call[d].pc /\ call'[d].job = call[d].job
                          /\ call'[d].n = call[d].n /\ call'[d].err = call[d].err
                          /\ call'[d].ev = call[d].ev /\ call'[d].done = call[d].done,
         UNCHANGED <<sched, dropped, effects, answers, reports, load, notes>>
  PROVE  AgentInv'
<1>1. made' = made /\ script' = script /\ log' = log /\ lessons' = lessons
  BY DEF load, notes
<1>2. ASSUME NEW d \in Slots PROVE Own(d)'
  <2>1. Own(d)
    BY DEF AgentInv
  <2>2. Wrote(d)' <=> Wrote(d)
    BY DEF Wrote
  <2>3. NumberOf(d)' /\ KindOf(d)' /\ PermitOf(d)'
    BY <1>1, <2>1, <2>2 DEF Own, NumberOf, KindOf, PermitOf, Free
  <2>4. LessonOf(d)' /\ DryRunOf(d)' /\ RegistrationOf(d)'
    BY <1>1, <2>1 DEF Own, LessonOf, DryRunOf, RegistrationOf, sideEffectsFired
  <2> QED BY <2>3, <2>4 DEF Own
<1>3. Numbered'
  BY <1>1 DEF AgentInv, Numbered
<1>4. LessonInv' /\ TickInv'
  BY <1>1, LessonsKept, TicksKept DEF AgentInv
<1> QED BY <1>2, <1>3, <1>4 DEF AgentInv

LEMMA CallsKept ==
  ASSUME AgentInv, UNCHANGED <<call, sched, dropped, effects, answers, reports, load, notes>>
  PROVE  AgentInv'
<1>1. CallShape'
  BY DEF AgentInv, CallShape
<1> QED BY <1>1, SameCalls

LEMMA CancelKeeps == ASSUME AgentInv, NEW c \in Slots, Cancel(c) PROVE AgentInv'
<1>1. /\ CallShape /\ call' = [call EXCEPT ![c].ctx = FALSE]
      /\ UNCHANGED <<sched, dropped, effects, answers, reports, load, notes>>
  BY DEF Cancel, AgentInv, cronVars, fireVars, toolVars
<1>2. CallShape'
  BY <1>1 DEF CallShape
<1>3. ASSUME NEW d \in Slots
      PROVE  /\ call'[d].pc = call[d].pc /\ call'[d].job = call[d].job
             /\ call'[d].n = call[d].n /\ call'[d].err = call[d].err
             /\ call'[d].ev = call[d].ev /\ call'[d].done = call[d].done
  BY <1>1 DEF CallShape, CallFields
<1> QED BY <1>1, <1>2, <1>3, SameCalls

LEMMA TouchKeeps == ASSUME AgentInv, NEW s, Touch(s) PROVE AgentInv'
<1>1. /\ CallShape /\ UNCHANGED <<sched, dropped, effects, answers, reports, load, notes>>
      /\ call' = [c \in Slots |->
           IF call[c].pc = "page" /\ ServiceOf[call[c].job.op] = s
             THEN [call[c] EXCEPT !.clean = FALSE] ELSE call[c]]
  BY DEF Touch, AgentInv, cronVars, fireVars
<1>2. ASSUME NEW d \in Slots
      PROVE  call'[d] = call[d] \/ call'[d] = [call[d] EXCEPT !.clean = FALSE]
  BY <1>1
<1>3. ASSUME NEW d \in Slots
      PROVE  /\ DOMAIN call'[d] = CallFields
             /\ call'[d].pc = call[d].pc /\ call'[d].job = call[d].job
             /\ call'[d].n = call[d].n /\ call'[d].err = call[d].err
             /\ call'[d].ev = call[d].ev /\ call'[d].done = call[d].done
  BY <1>1, <1>2 DEF CallShape, CallFields
<1>4. CallShape'
  BY <1>1, <1>3 DEF CallShape
<1> QED BY <1>1, <1>3, <1>4, SameCalls

(* A new call has a number that nothing carries yet. *)
LEMMA BeginKeeps == ASSUME AgentInv, NEW c \in Slots, Begin(c) PROVE AgentInv'
<1>1. /\ Free(c) /\ made < Len(script) /\ made' = made + 1 /\ script' = script
      /\ UNCHANGED <<sched, dropped, effects, answers, reports, notes>>
      /\ made \in Nat /\ script \in Scripts /\ CallShape
  BY DEF Begin, cronVars, fireVars, toolVars, AgentInv, Numbered
<1>2. made' \in Nat /\ made + 1 \in 1 .. Len(script)
  BY <1>1, ScriptsAssumption
<1>3. PICK job \in script[made + 1] :
        call' = [call EXCEPT ![c] = [Idle EXCEPT !.pc = FirstPc(job.op), !.job = job, !.n = made + 1]]
  BY DEF Begin
<1>4. job.op = "dryrun" => job.mode \in Modes
  BY <1>1, <1>2, ScriptsAssumption
<1> DEFINE p == FirstPc(job.op)
           x == [Idle EXCEPT !.pc = p, !.job = job, !.n = made + 1]
<1>5. call' = [call EXCEPT ![c] = x]
  BY <1>3
<1> HIDE DEF p
<1>6. /\ DOMAIN x = CallFields /\ x.pc = p /\ x.job = job /\ x.n = made + 1
      /\ x.ev = 0 /\ x.done = <<>>
  BY DEF Idle, CallFields
<1> HIDE DEF x
<1>7. CallShape' /\ Others(c) /\ call'[c] = x
  BY <1>1, <1>5, <1>6, Becomes
<1>8. /\ call'[c].pc = p /\ call'[c].job = job /\ call'[c].n = made + 1
      /\ call'[c].ev = 0 /\ call'[c].done = <<>>
  BY <1>6, <1>7
<1>9. /\ job.op \in ToolNames => p = "dispatch"
      /\ job.op \in ClientCalls => p = "client"
      /\ job.op = "dryrun" => p = "validate"
      /\ job.op \notin ToolNames \cup ClientCalls \cup {"dryrun"} => p = "cron"
  BY FirstPlace DEF p
<1>10. Own(c)'
  <2>1. ~Wrote(c)' /\ \A e \in effects' : e.n # made + 1
    BY <1>1, <1>8 DEF Wrote, AgentInv, Numbered
  <2>2. made + 1 \notin DOMAIN answers'
    BY <1>1 DEF AgentInv, Numbered
  <2>3. p \in {"dispatch", "client", "validate", "cron"}
    BY <1>9
  <2>4. NumberOf(c)'
    BY <1>1, <1>2, <1>8, <2>2, <2>3 DEF NumberOf, Free
  <2>5. KindOf(c)'
    BY <1>4, <1>8, <1>9, <2>3, ToolNamesAre DEF KindOf, Calling, Reflecting, Rehearsing, Registering
  <2>6. PermitOf(c)'
    BY <1>8, <1>9, <2>1 DEF PermitOf, Calling
  <2>7. LessonOf(c)' /\ RegistrationOf(c)'
    BY <1>8, <2>3 DEF LessonOf, RegistrationOf, Reflecting
  <2>8. DryRunOf(c)'
    BY <1>8, <2>1, <2>3 DEF DryRunOf
  <2> QED BY <2>4, <2>5, <2>6, <2>7, <2>8 DEF Own
<1>11. ASSUME NEW d \in Slots, d # c PROVE Own(d)'
  <2>1. Own(d) /\ call'[d] = call[d] /\ log' = log
    BY <1>1, <1>7, <1>11 DEF AgentInv, Others, notes
  <2>2. Wrote(d)' <=> Wrote(d)
    BY <1>1, <2>1 DEF Wrote
  <2>3. NumberOf(d)'
    BY <1>1, <2>1 DEF Own, NumberOf, Free
  <2>4. KindOf(d)' /\ PermitOf(d)'
    BY <2>1, <2>2 DEF Own, KindOf, PermitOf
  <2>5. LessonOf(d)' /\ DryRunOf(d)' /\ RegistrationOf(d)'
    BY <1>1, <2>1 DEF Own, LessonOf, DryRunOf, RegistrationOf, sideEffectsFired
  <2> QED BY <2>3, <2>4, <2>5 DEF Own
<1>12. Numbered'
  <2>1. \A d \in Slots : d # c => call'[d] = call[d] /\ call[d].n \in 0 .. made
    BY <1>7 DEF AgentInv, Own, NumberOf, Others
  <2>2. \A d, e \in Slots : call'[d].n = call'[e].n => d = e \/ call'[d].n = 0
    BY <1>1, <1>8, <2>1 DEF AgentInv, Numbered
  <2>3. /\ \A e \in effects' : e.n \in 1 .. made'
        /\ DOMAIN answers' \subseteq 1 .. made'
    BY <1>1 DEF AgentInv, Numbered
  <2> QED BY <1>1, <1>2, <2>2, <2>3 DEF Numbered
<1>13. LessonInv' /\ TickInv'
  BY <1>1, LessonsKept, TicksKept DEF AgentInv, notes
<1> QED BY <1>7, <1>10, <1>11, <1>12, <1>13 DEF AgentInv

----------------------------------------------------------------------------
(* The invariant, and what follows from it.                                *)

LEMMA AgentInitInv == AgentInit => AgentInv
<1> SUFFICES ASSUME AgentInit PROVE AgentInv
  OBVIOUS
<1> USE DEF AgentInit
<1>1. CallShape /\ \A c \in Slots : call[c] = Idle
  BY DEF CallShape, Idle, CallFields
<1>2. /\ Idle.pc = "idle" /\ Idle.job = [op |-> "none"] /\ Idle.n = 0 /\ Idle.ev = 0 /\ Idle.done = <<>>
      /\ Idle.job.op = "none"
  BY DEF Idle
<1>3. DOMAIN answers = {}
  <2>1. DOMAIN <<>> = {}
    OBVIOUS
  <2> QED BY <2>1
<1>4. Numbered
  BY <1>1, <1>2, <1>3 DEF Numbered
<1>5. LessonInv
  <2>1. LessonNs = {}
    BY DEF LessonNs
  <2> QED BY <2>1, FS_EmptySet DEF LessonInv
<1>6. TickInv
  BY DEF TickInv
<1>7. ASSUME NEW c \in Slots PROVE Own(c)
  <2>1. /\ call[c].pc = "idle" /\ call[c].n = 0 /\ call[c].job.op = "none"
        /\ call[c].ev = 0 /\ call[c].done = <<>>
    BY <1>1, <1>2
  <2>2. NumberOf(c)
    BY <2>1 DEF NumberOf, Free
  <2>3. KindOf(c) /\ PermitOf(c)
    BY <2>1, ToolNamesAre DEF KindOf, PermitOf, Calling, Reflecting, Rehearsing, Registering
  <2>4. LessonOf(c) /\ DryRunOf(c) /\ RegistrationOf(c)
    BY <2>1 DEF LessonOf, DryRunOf, RegistrationOf, Calling, Reflecting
  <2> QED BY <2>2, <2>3, <2>4 DEF Own
<1> QED BY <1>1, <1>4, <1>5, <1>6, <1>7 DEF AgentInv

LEMMA StepKeeps == ASSUME AgentInv, NEW c \in Slots, Step(c) PROVE AgentInv'
<1>1. CASE FindOverdueTickets(c) \/ FetchWatchOrders(c) \/ FindStalePRs(c)
  <2>1. PICK o \in Scans : NextPage(c, o)
    BY <1>1, ToolNamesAre DEF FindOverdueTickets, FetchWatchOrders, FindStalePRs
  <2> QED BY <2>1, NextPageKeeps
<1>2. CASE RecordWatchOrder(c) \/ PostDailyBriefing(c) \/ NudgeReviewer(c) \/ UpdateTicketField(c)
  BY <1>2, WriteOnceKeeps DEF RecordWatchOrder, PostDailyBriefing, NudgeReviewer, UpdateTicketField
<1>3. CASE \/ GetIssue(c) \/ AddComment(c) \/ GetRef(c) \/ CreateRef(c)
           \/ CreateOrUpdateFile(c) \/ CreatePullRequest(c)
  BY <1>3, ClientCallKeeps DEF GetIssue, AddComment, GetRef, CreateRef, CreateOrUpdateFile, CreatePullRequest
<1>4. CASE InvokeTool(c) \/ Handler(c) \/ openIMOrLiftRefusal(c) \/ PageFails(c)
  BY <1>4, InvokeToolKeeps, HandlerKeeps, OpenKeeps, PageFailsKeeps
<1>5. CASE KeepersLogAppend(c) \/ Embed(c) \/ Remember(c)
  BY <1>5, KeepersLogAppendKeeps, EmbedKeeps, RememberKeeps
<1>6. CASE Validate(c) \/ ScopeResolver(c) \/ executeScoped(c) \/ prePublishGate(c) \/ publishDryRun(c)
  BY <1>6, ValidateKeeps, ScopeResolverKeeps, ExecuteScopedKeeps, PrePublishGateKeeps, PublishDryRunKeeps
<1>7. CASE CronCall(c) \/ RegisterBriefing(c) \/ RegisterSweep(c) \/ UndoBriefing(c)
  BY <1>7, CronCallKeeps, RegisterBriefingKeeps, RegisterSweepKeeps, UndoBriefingKeeps
<1> QED BY <1>1, <1>2, <1>3, <1>4, <1>5, <1>6, <1>7 DEF Step

LEMMA AgentNextInv == AgentInv /\ [AgentNext]_agentVars => AgentInv'
<1> SUFFICES ASSUME AgentInv, [AgentNext]_agentVars PROVE AgentInv'
  OBVIOUS
<1>1. ASSUME NEW c \in Slots, Begin(c) \/ Step(c) \/ Cancel(c) PROVE AgentInv'
  BY <1>1, BeginKeeps, StepKeeps, CancelKeeps
<1>2. ASSUME NEW s \in DOMAIN Lists0, Touch(s) PROVE AgentInv'
  BY <1>2, TouchKeeps
<1>3. ASSUME NEW t \in ToolNames, Register(t) PROVE AgentInv'
  BY <1>3, CallsKept DEF Register, cronVars, fireVars
<1>4. CASE Terminate
  BY <1>4, CallsKept DEF Terminate, cronVars, fireVars
<1>5. ASSUME NEW e, Fire(e) PROVE AgentInv'
  BY <1>5, CallsKept DEF Fire, toolVars
<1>6. ASSUME NEW f, makeFireFn(f) PROVE AgentInv'
  BY <1>6, CallsKept DEF makeFireFn, toolVars
<1>7. CASE UNCHANGED agentVars
  BY <1>7, CallsKept DEF agentVars, cronVars, fireVars, toolVars
<1> QED BY <1>1, <1>2, <1>3, <1>4, <1>5, <1>6, <1>7 DEF AgentNext

LEMMA AgentInvariance == AgentSpec => []AgentInv
BY AgentInitInv, AgentNextInv, PTL DEF AgentSpec


----------------------------------------------------------------------------
(* The scans: what one has found so far is what the service lists up to    *)
(* the place it has come to, as long as nobody changed the list.           *)

Ids(j, from, to) == {List(j)[i].id : i \in Keeping(j, from, to)}

Reached(c) ==
  LET j == call[c].job IN
  IF j.op = "find_stale_prs" THEN Min({(call[c].cursor - 1) * PageSize, Len(List(j))}) ELSE call[c].cursor

PageOf(c) ==
  LET j == call[c].job IN
  /\ call[c].cursor \in Nat /\ (j.op = "find_stale_prs" => call[c].cursor >= 1)
  /\ IsFiniteSet(call[c].got) /\ Cardinality(call[c].got) < MaxItems
  /\ call[c].clean =>
       /\ call[c].want = Wanted(j)
       /\ Reached(c) \in 0 .. Len(List(j)) /\ Found(c) = Ids(j, 1, Reached(c))

HonestOf(c) ==
  call[c].job.op \in Scans /\ call[c].err = "ok" /\ call[c].clean =>
    /\ Found(c) \subseteq call[c].want /\ Cardinality(call[c].got) <= MaxItems
    /\ ~call[c].cut => Found(c) = call[c].want

FoundOf(c) ==
  /\ call[c].pc \in {"dispatch", "handler", "open"} => call[c].got = {}
  /\ call[c].pc = "open" => call[c].job.op = "fetch_watch_orders" /\ call[c].cursor = 0
  /\ call[c].pc = "page" => call[c].job.op \in Scans /\ PageOf(c)
  /\ call[c].pc = "done" => HonestOf(c)

WorldInv ==
  /\ DOMAIN world = {"jira", "slack", "github"}
  /\ \A s \in DOMAIN world : world[s] \in Seq(Range(world[s]))

FoundInv == WorldInv /\ \A c \in Slots : FoundOf(c)

LEMMA Least == ASSUME NEW S \in SUBSET Nat, S # {} PROVE \E m \in S : \A k \in S : m <= k
<1>1. PICK m \in S : \A k \in S : <<k, m>> \notin OpToRel(<, Nat)
  BY WFMin, NatLessThanWellFounded, Zenon
<1>2. \A k \in S : k \in Nat /\ m \in Nat /\ ~(k < m)
  BY <1>1, Zenon DEF OpToRel
<1> QED BY <1>2

LEMMA MinIs == ASSUME NEW S \in SUBSET Nat, S # {} PROVE Min(S) \in S /\ \A k \in S : Min(S) <= k
<1>1. \E m \in S : \A k \in S : m <= k
  BY Least
<1> QED BY <1>1 DEF Min

LEMMA MinOfTwo ==
  ASSUME NEW a \in Nat, NEW b \in Nat
  PROVE  Min({a, b}) \in Nat /\ (a <= b => Min({a, b}) = a) /\ (b <= a => Min({a, b}) = b)
<1>1. Min({a, b}) \in {a, b} /\ Min({a, b}) <= a /\ Min({a, b}) <= b
  BY MinIs
<1> QED BY <1>1

LEMMA ListIs ==
  ASSUME FoundInv, NEW j, j.op \in Scans PROVE Len(List(j)) \in Nat
<1>1. ServiceOf[j.op] \in DOMAIN world
  BY ToolNamesAre DEF FoundInv, WorldInv, ServiceOf
<1> QED BY <1>1, LenProperties DEF FoundInv, WorldInv, List

LEMMA KeepingIs ==
  ASSUME NEW j, NEW a \in Int, NEW b \in Int
  PROVE  /\ Keeping(j, a, b) \subseteq a .. b /\ IsFiniteSet(Keeping(j, a, b))
         /\ Keeping(j, a, b) \subseteq Listing(j, a, b)
         /\ \A i : i \in Keeping(j, a, b) <=> i \in a .. b /\ Listed(j, List(j)[i]) /\ Kept(j, List(j)[i])
<1>1. Keeping(j, a, b) \subseteq a .. b
  BY DEF Keeping, Listing
<1> QED BY <1>1, FS_Interval, FS_Subset DEF Keeping, Listing

(* What a service may answer: a stretch that begins where the scan has come to. *)
LEMMA PageIs ==
  ASSUME FoundInv, NEW c \in Slots, call[c].pc = "page", NEW r \in Pages(c)
  PROVE  LET j == call[c].job IN
         /\ r.from \in Nat \ {0} /\ r.to \in Nat /\ r.next \in Nat
         /\ j.op = "find_stale_prs" => r.next >= 1
         /\ r.flag = "last" => Listing(j, r.to + 1, Len(List(j))) = {}
         /\ Reached(c) <= Len(List(j)) =>
              /\ r.to \in Reached(c) .. Len(List(j))
              /\ r.from = Reached(c) + 1 \/ (r.from > r.to /\ r.to = Reached(c))
              /\ r.to = IF j.op = "find_stale_prs" THEN Min({(r.next - 1) * PageSize, Len(List(j))}) ELSE r.next
<1> DEFINE j == call[c].job
           n == Len(List(j))
           u == call[c].cursor
<1>1. /\ j.op \in Scans /\ u \in Nat /\ n \in Nat
      /\ j.op = "find_stale_prs" => u >= 1
  BY ListIs DEF FoundInv, FoundOf, PageOf
<1>2. CASE j.op # "find_stale_prs"
  <2>1. /\ r \in Search(j, u) /\ (r.flag = "last" => Listing(j, r.to + 1, n) = {})
        /\ Reached(c) = u
    BY <1>2 DEF Pages, Reached
  <2>2. /\ r.from = u + 1 /\ r.next = r.to /\ r.to \in {u} \union Listing(j, u + 1, n)
    BY <2>1 DEF Search
  <2>3. r.to = u \/ r.to \in u + 1 .. n
    BY <2>2 DEF Listing
  <2> HIDE DEF j, n, u
  <2> QED BY <1>1, <1>2, <2>1, <2>2, <2>3 DEF j, n
<1>3. CASE j.op = "find_stale_prs"
  <2> DEFINE k == (u - 1) * PageSize
             m == u * PageSize
  <2>1. k \in Nat /\ m \in Nat /\ m = k + PageSize /\ PageSize \in Nat \ {0}
    BY <1>1, <1>3, LimitsAssumption
  <2>2. /\ r \in ListPullRequests(j, u) /\ (r.flag = "last" => Listing(j, r.to + 1, n) = {})
        /\ Reached(c) = Min({k, n})
    BY <1>3 DEF Pages, Reached
  <2>3. /\ r.from = k + 1 /\ r.next = u + 1 /\ r.to = Min({m, n})
    BY <2>2 DEF ListPullRequests
  <2>4. (r.next - 1) * PageSize = m
    BY <1>1, <2>3
  <2>5. /\ Min({k, n}) \in Nat /\ (k <= n => Min({k, n}) = k) /\ (n <= k => Min({k, n}) = n)
        /\ Min({m, n}) \in Nat /\ (m <= n => Min({m, n}) = m) /\ (n <= m => Min({m, n}) = n)
    BY <1>1, <2>1, MinOfTwo
  <2> HIDE DEF n, u, k, m
  <2>6. /\ r.from \in Nat \ {0} /\ r.to \in Nat /\ r.next \in Nat /\ r.next >= 1
        /\ r.to \in Reached(c) .. n
        /\ r.from = Reached(c) + 1 \/ (r.from > r.to /\ r.to = Reached(c))
    BY <1>1, <2>1, <2>2, <2>3, <2>5
  <2> QED BY <1>3, <2>2, <2>3, <2>4, <2>6 DEF n
<1> QED BY <1>2, <1>3

(* The place where the cap is reached, and what is taken up to there: as   *)
(* much as there is room for.                                              *)
Upto(c, r) == IF AtCap(c, r) THEN CapAt(c, r) ELSE r.to

LEMMA RoomIs ==
  ASSUME FoundInv, NEW c \in Slots, call[c].pc = "page"
  PROVE  /\ Room(c) \in Nat \ {0} /\ Room(c) = MaxItems - Cardinality(call[c].got)
         /\ IsFiniteSet(call[c].got) /\ Cardinality(call[c].got) \in Nat
BY FS_CardinalityType, LimitsAssumption DEF FoundInv, FoundOf, PageOf, Room

LEMMA MatchingIs ==
  ASSUME NEW c, NEW r, r.from \in Int, NEW i \in Int
  PROVE  /\ Matching(c, r, i) \in Nat
         /\ i < r.from => Matching(c, r, i) = 0
         /\ Matching(c, r, i) <= Matching(c, r, i - 1) + 1
<1> DEFINE A == Keeping(call[c].job, r.from, i)
           B == Keeping(call[c].job, r.from, i - 1)
<1>1. /\ IsFiniteSet(A) /\ IsFiniteSet(B) /\ A \subseteq r.from .. i
      /\ A \subseteq B \cup {i}
  <2>1. i - 1 \in Int
    OBVIOUS
  <2>2. \A k : k \in r.from .. i => k = i \/ k \in r.from .. i - 1
    OBVIOUS
  <2> QED BY <2>1, <2>2, KeepingIs
<1>2. Matching(c, r, i) = Cardinality(A) /\ Matching(c, r, i - 1) = Cardinality(B)
  BY DEF Matching
<1> HIDE DEF A, B
<1>3. IsFiniteSet(B \cup {i}) /\ Cardinality(B \cup {i}) <= Cardinality(B) + 1
  <2>1. /\ IsFiniteSet(B \cup {i})
        /\ Cardinality(B \cup {i}) = IF i \in B THEN Cardinality(B) ELSE Cardinality(B) + 1
    <3>1. IsFiniteSet(B)
      BY <1>1
    <3> QED BY <3>1, FS_AddElement
  <2>2. Cardinality(B) \in Nat
    BY <1>1, FS_CardinalityType
  <2> QED BY <2>1, <2>2
<1>4. Cardinality(A) <= Cardinality(B \cup {i})
  BY <1>1, <1>3, FS_Subset
<1>5. Cardinality(A) \in Nat /\ Cardinality(B) \in Nat /\ Cardinality(B \cup {i}) \in Nat
  BY <1>1, <1>3, FS_CardinalityType
<1>6. ASSUME i < r.from PROVE Cardinality(A) = 0
  <2>1. A = {}
    BY <1>1, <1>6
  <2> QED BY <2>1, FS_EmptySet
<1> QED BY <1>2, <1>3, <1>4, <1>5, <1>6

LEMMA UptoIs ==
  ASSUME FoundInv, NEW c \in Slots, call[c].pc = "page", NEW r, r.from \in Nat \ {0}, r.to \in Nat
  PROVE  /\ Upto(c, r) \in Nat
         /\ AtCap(c, r) => Upto(c, r) \in r.from .. r.to
         /\ ~AtCap(c, r) => Upto(c, r) = r.to /\ Matching(c, r, Upto(c, r)) < Room(c)
         /\ Matching(c, r, Upto(c, r)) <= Room(c)
<1>1. Room(c) \in Nat \ {0}
  BY RoomIs
<1>2. CASE ~AtCap(c, r)
  BY <1>1, <1>2, MatchingIs DEF AtCap, Upto
<1>3. CASE AtCap(c, r)
  <2> DEFINE S == {i \in r.from .. r.to : Matching(c, r, i) >= Room(c)}
             m == CapAt(c, r)
  <2>1. r.to \in S
    BY <1>1, <1>3, MatchingIs DEF AtCap
  <2>2. S \in SUBSET Nat
    OBVIOUS
  <2>3. m \in S /\ \A k \in S : m <= k
    BY <2>1, <2>2, MinIs DEF CapAt
  <2>4. m \in r.from .. r.to
    BY <2>3
  <2> HIDE DEF m
  <2>5. m - 1 \notin S
    BY <2>2, <2>3
  <2>6. Matching(c, r, m - 1) < Room(c)
    <3>1. m - 1 \in Int /\ Matching(c, r, m - 1) \in Nat
      BY <2>4, MatchingIs
    <3>2. CASE m - 1 < r.from
      BY <1>1, <3>1, <3>2, MatchingIs
    <3>3. CASE m - 1 >= r.from
      BY <1>1, <2>4, <2>5, <3>1, <3>3
    <3> QED BY <2>4, <3>2, <3>3
  <2>7. Matching(c, r, m) <= Matching(c, r, m - 1) + 1 /\ Matching(c, r, m) \in Nat /\ Matching(c, r, m - 1) \in Nat
    BY <2>4, MatchingIs
  <2>8. Upto(c, r) = m
    BY <1>3 DEF Upto, m
  <2> QED BY <1>1, <1>3, <2>4, <2>6, <2>7, <2>8
<1> QED BY <1>2, <1>3

LEMMA TakenIs ==
  ASSUME FoundInv, NEW c \in Slots, call[c].pc = "page", NEW r, r.from \in Nat \ {0}, r.to \in Nat
  PROVE  LET got == call[c].got \union Taken(c, r) IN
         /\ IsFiniteSet(got) /\ Cardinality(got) <= MaxItems
         /\ ~AtCap(c, r) => Cardinality(got) < MaxItems
         /\ {x[2] : x \in got} = Found(c) \union Ids(call[c].job, r.from, Upto(c, r))
<1> DEFINE j == call[c].job
           m == Upto(c, r)
           K == Keeping(j, r.from, m)
           T == Taken(c, r)
           G == call[c].got
           f == [i \in K |-> <<call[c].page, List(j)[i].id>>]
<1>1. /\ m \in Nat /\ Matching(c, r, m) <= Room(c) /\ (~AtCap(c, r) => Matching(c, r, m) < Room(c))
      /\ Matching(c, r, m) = Cardinality(K)
  BY UptoIs DEF Matching
<1>2. T = {<<call[c].page, List(j)[i].id>> : i \in K}
  BY DEF Taken, Upto
<1> HIDE DEF m
<1>3. IsFiniteSet(K)
  <2>1. r.from \in Int /\ m \in Int
    BY <1>1
  <2> HIDE DEF j
  <2> QED BY <2>1, KeepingIs
<1>4. {x[2] : x \in T} = Ids(j, r.from, m)
  <2>1. Ids(j, r.from, m) = {List(j)[i].id : i \in K}
    BY DEF Ids
  <2> HIDE DEF K, T, j
  <2>2. \A x \in T : \E i \in K : x[2] = List(j)[i].id
    BY <1>2
  <2>3. \A i \in K : <<call[c].page, List(j)[i].id>> \in T /\ <<call[c].page, List(j)[i].id>>[2] = List(j)[i].id
    BY <1>2
  <2> QED BY <2>1, <2>2, <2>3
<1> HIDE DEF K
<1>5. f \in Surjection(K, T)
  BY <1>2 DEF Surjection
<1>6. IsFiniteSet(T) /\ Cardinality(T) <= Cardinality(K)
  BY <1>3, <1>5, FS_Surjection
<1>7. /\ IsFiniteSet(G \union T)
      /\ Cardinality(G \union T) = Cardinality(G) + Cardinality(T) - Cardinality(G \cap T)
      /\ Cardinality(G \cap T) \in Nat /\ Cardinality(T) \in Nat /\ Cardinality(K) \in Nat
  BY <1>3, <1>6, RoomIs, FS_Union, FS_Intersection, FS_CardinalityType
<1>8. /\ Room(c) = MaxItems - Cardinality(G) /\ Cardinality(G) \in Nat /\ MaxItems \in Nat
  BY RoomIs, LimitsAssumption
<1>9. Cardinality(G \union T) <= MaxItems /\ (~AtCap(c, r) => Cardinality(G \union T) < MaxItems)
  BY <1>1, <1>6, <1>7, <1>8
<1>10. {x[2] : x \in G \union T} = Found(c) \union Ids(j, r.from, m)
  <2>1. {x[2] : x \in G \union T} = {x[2] : x \in G} \union {x[2] : x \in T}
    OBVIOUS
  <2> QED BY <1>4, <2>1 DEF Found
<1> QED BY <1>7, <1>9, <1>10 DEF m

(* What a scan knows of a list holds as long as the list is the same. *)
LEMMA SameList ==
  ASSUME NEW j, world'[ServiceOf[j.op]] = world[ServiceOf[j.op]]
  PROVE  /\ List(j)' = List(j)
         /\ \A a, b : Listing(j, a, b)' = Listing(j, a, b) /\ Keeping(j, a, b)' = Keeping(j, a, b)
         /\ \A a, b : Ids(j, a, b)' = Ids(j, a, b)
         /\ Wanted(j)' = Wanted(j)
<1>1. List(j)' = List(j)
  BY DEF List
<1>2. ASSUME NEW a, NEW b PROVE Listing(j, a, b)' = Listing(j, a, b)
  BY <1>1 DEF Listing
<1>3. ASSUME NEW a, NEW b PROVE Keeping(j, a, b)' = Keeping(j, a, b)
  BY <1>1, <1>2 DEF Keeping
<1>4. ASSUME NEW a, NEW b PROVE Ids(j, a, b)' = Ids(j, a, b)
  BY <1>1, <1>3 DEF Ids
<1>5. Wanted(j)' = Wanted(j)
  BY <1>1, <1>3 DEF Wanted
<1> QED BY <1>1, <1>2, <1>3, <1>4, <1>5

LEMMA SameScan ==
  ASSUME NEW d \in Slots, FoundOf(d),
         call'[d].pc = call[d].pc, call'[d].job = call[d].job, call'[d].err = call[d].err,
         call'[d].got = call[d].got, call'[d].want = call[d].want, call'[d].cut = call[d].cut,
         call'[d].cursor = call[d].cursor,
         call'[d].clean => call[d].clean,
         call[d].pc = "page" /\ call'[d].clean =>
           world'[ServiceOf[call[d].job.op]] = world[ServiceOf[call[d].job.op]]
  PROVE  FoundOf(d)'
<1>1. Found(d)' = Found(d)
  BY DEF Found
<1>2. ASSUME call[d].pc = "page" PROVE PageOf(d)'
  <2>1. PageOf(d)
    BY <1>2 DEF FoundOf
  <2>2. ASSUME call'[d].clean
        PROVE  /\ call'[d].want = Wanted(call[d].job)'
               /\ Reached(d)' \in 0 .. Len(List(call[d].job))' /\ Found(d)' = Ids(call[d].job, 1, Reached(d))'
    <3>1. PICK j : j = call[d].job
      OBVIOUS
    <3>2. /\ List(j)' = List(j) /\ Wanted(j)' = Wanted(j)
          /\ \A a, b : Ids(j, a, b)' = Ids(j, a, b)
      BY <1>2, <2>2, <3>1, SameList
    <3>3. Reached(d)' = Reached(d)
      BY <3>1, <3>2 DEF Reached
    <3>4. /\ call[d].want = Wanted(j)
          /\ Reached(d) \in 0 .. Len(List(j)) /\ Found(d) = Ids(j, 1, Reached(d))
      BY <2>1, <2>2, <3>1 DEF PageOf
    <3>5. j = call'[d].job
      BY <3>1
    <3> QED BY <1>1, <3>1, <3>2, <3>3, <3>4, <3>5
  <2> QED BY <2>1, <2>2 DEF PageOf
<1> QED BY <1>1, <1>2 DEF FoundOf, HonestOf

(* A step of one call leaves the scans of the others alone. *)
LEMMA ScanRule ==
  ASSUME FoundInv, NEW c \in Slots, Others(c), UNCHANGED world, FoundOf(c)' PROVE FoundInv'
<1>1. WorldInv'
  BY DEF FoundInv, WorldInv
<1>2. ASSUME NEW d \in Slots PROVE FoundOf(d)'
  <2>1. CASE d = c
    BY <2>1
  <2>2. CASE d # c
    <3>1. call'[d] = call[d] /\ FoundOf(d)
      BY <2>2 DEF Others, FoundInv
    <3> QED BY <3>1, SameScan
  <2> QED BY <2>1, <2>2
<1> QED BY <1>1, <1>2 DEF FoundInv

(* Where a call may go without a word about its scan. *)
Aside(c) ==
  \/ call[c].pc \notin {"dispatch", "handler", "open", "page", "done"}
  \/ call[c].pc = "done" /\ (call[c].job.op \notin Scans \/ call[c].err # "ok")
  \/ call[c].pc \in {"dispatch", "handler"} /\ call[c].got = {}

LEMMA AsideRule ==
  ASSUME FoundInv, NEW c \in Slots, Others(c), UNCHANGED world, Aside(c)' PROVE FoundInv'
<1>1. FoundOf(c)'
  BY DEF FoundOf, Aside, HonestOf
<1> QED BY <1>1, ScanRule

LEMMA AnswerAside ==
  ASSUME AgentInv, FoundInv, NEW c \in Slots, NEW told, Answer(c, told), UNCHANGED world,
         call[c].job.op \notin Scans \/ told # "ok"
  PROVE  FoundInv'
<1>1. Ends(c, told)
  BY Answered DEF AgentInv
<1>2. Others(c) /\ Aside(c)'
  BY <1>1 DEF Ends, Aside
<1> QED BY <1>2, AsideRule

LEMMA FailAside ==
  ASSUME AgentInv, FoundInv, NEW c \in Slots, NEW err, err # "ok", FailWith(c, err), UNCHANGED world
  PROVE  FoundInv'
<1>1. CASE Answer(c, err)
  BY <1>1, AnswerAside
<1>2. CASE ~Answer(c, err)
  <2>1. call' = [call EXCEPT ![c].pc = "append", ![c].err = err]
    BY <1>2 DEF FailWith
  <2>2. Others(c) /\ call'[c].pc = "append"
    BY <2>1 DEF AgentInv, CallShape, Others, CallFields
  <2>3. Aside(c)'
    BY <2>2 DEF Aside
  <2> QED BY <2>2, <2>3, AsideRule
<1> QED BY <1>1, <1>2

(* The tools that write once, and the calls that are no tool's. *)
LEMMA OthersScan ==
  ASSUME AgentInv, FoundInv, NEW c \in Slots,
         \/ \E o \in ToolNames \ Scans : WriteOnce(c, o)
         \/ \E o \in ClientCalls : ClientCall(c, o)
  PROVE  FoundInv'
<1>1. UNCHANGED world
  BY DEF WriteOnce, ClientCall, envVars
<1>2. call[c].job.op \notin Scans
  BY ToolNamesAre DEF WriteOnce, ClientCall
<1>3. (\E e : e # "ok" /\ FailWith(c, e)) \/ Answer(c, "ok")
  BY DEF WriteOnce, ClientCall, Requested, Succeeds, FailsOrIsLost
<1> QED BY <1>1, <1>2, <1>3, FailAside, AnswerAside

LEMMA ReflectionScan ==
  ASSUME AgentInv, FoundInv, NEW c \in Slots, KeepersLogAppend(c) \/ Embed(c) \/ Remember(c)
  PROVE  FoundInv'
<1>1. UNCHANGED world
  BY DEF KeepersLogAppend, Embed, Remember, envVars
<1>2. call[c].err # "ok" /\ CallShape
  BY DEF AgentInv, Own, LessonOf, Reflecting, KeepersLogAppend, Embed, Remember
<1>3. CASE Answer(c, call[c].err)
  BY <1>1, <1>2, <1>3, AnswerAside
<1>4. CASE ~Answer(c, call[c].err)
  <2>1. \/ call' = [call EXCEPT ![c].pc = "embed", ![c].ev = call[c].n]
        \/ call' = [call EXCEPT ![c].pc = "embed"]
        \/ call' = [call EXCEPT ![c].pc = "remember"]
    BY <1>4 DEF KeepersLogAppend, Embed, Remember
  <2>2. Others(c) /\ call'[c].pc \in {"embed", "remember"}
    BY <1>2, <2>1 DEF CallShape, Others, CallFields
  <2>3. Aside(c)'
    BY <2>2 DEF Aside
  <2> QED BY <1>1, <2>2, <2>3, AsideRule
<1> QED BY <1>3, <1>4

(* The dry run. *)
LEMMA RehearsalScan ==
  ASSUME AgentInv, FoundInv, NEW c \in Slots,
         Validate(c) \/ ScopeResolver(c) \/ executeScoped(c) \/ prePublishGate(c) \/ publishDryRun(c)
  PROVE  FoundInv'
<1>1. UNCHANGED world
  BY DEF Validate, ScopeResolver, executeScoped, prePublishGate, publishDryRun, envVars
<1>2. call[c].job.op \notin Scans /\ CallShape
  <2>1. call[c].pc \in Rehearsing
    BY DEF Rehearsing, Validate, ScopeResolver, executeScoped, prePublishGate, publishDryRun
  <2> QED BY <2>1, ToolNamesAre DEF AgentInv, Own, KindOf
<1>3. \/ \E told : Answer(c, told)
      \/ \E d : call' = [call EXCEPT ![c].pc = "gate", ![c].done = d]
      \/ \E d : call' = [call EXCEPT ![c].pc = "scope", ![c].done = d]
      \/ call' = [call EXCEPT ![c].pc = "invoke"]
      \/ call' = [call EXCEPT ![c].pc = "gate"]
      \/ call' = [call EXCEPT ![c].pc = "publish"]
      \/ \E i, d : call' = [call EXCEPT ![c].page = i, ![c].done = d] /\ call[c].pc = "invoke"
      \/ \E e, d : call' = [call EXCEPT ![c].pc = "publish", ![c].err = e, ![c].done = d]
  <2>1. CASE Validate(c)
    BY <2>1 DEF Validate
  <2>2. CASE ScopeResolver(c) \/ prePublishGate(c) \/ publishDryRun(c)
    BY <2>2 DEF ScopeResolver, prePublishGate, publishDryRun
  <2>3. CASE executeScoped(c)
    BY <2>3 DEF executeScoped, BreakOff
  <2> QED BY <2>1, <2>2, <2>3
<1>4. ASSUME NEW told, Answer(c, told) PROVE FoundInv'
  BY <1>1, <1>2, <1>4, AnswerAside
<1>5. CASE ~\E told : Answer(c, told)
  <2>1. Others(c) /\ call'[c].pc \in {"gate", "scope", "invoke", "publish"}
    <3>1. ASSUME NEW p, call' = [call EXCEPT ![c].pc = p]
          PROVE  Others(c) /\ call'[c].pc = p
      BY <1>2, <3>1 DEF CallShape, Others, CallFields
    <3>1a. ASSUME NEW p, NEW d, call' = [call EXCEPT ![c].pc = p, ![c].done = d]
           PROVE  Others(c) /\ call'[c].pc = p
      BY <1>2, <3>1a DEF CallShape, Others, CallFields
    <3>1b. ASSUME NEW p, NEW e, NEW d, call' = [call EXCEPT ![c].pc = p, ![c].err = e, ![c].done = d]
           PROVE  Others(c) /\ call'[c].pc = p
      BY <1>2, <3>1b DEF CallShape, Others, CallFields
    <3>2. CASE \E i, d : call' = [call EXCEPT ![c].page = i, ![c].done = d] /\ call[c].pc = "invoke"
      BY <1>2, <3>2 DEF CallShape, Others, CallFields
    <3> QED BY <1>3, <1>5, <3>1, <3>1a, <3>1b, <3>2
  <2>2. Aside(c)'
    BY <2>1 DEF Aside
  <2> QED BY <1>1, <2>1, <2>2, AsideRule
<1> QED BY <1>4, <1>5

(* The scheduler's calls. *)
LEMMA CronScan ==
  ASSUME AgentInv, FoundInv, NEW c \in Slots,
         CronCall(c) \/ RegisterBriefing(c) \/ RegisterSweep(c) \/ UndoBriefing(c)
  PROVE  FoundInv'
<1>1. UNCHANGED world
  BY DEF CronCall, RegisterBriefing, RegisterSweep, UndoBriefing, envVars
<1>2. call[c].job.op \notin Scans /\ CallShape
  <2>1. call[c].pc \in Registering
    BY DEF Registering, CronCall, RegisterBriefing, RegisterSweep, UndoBriefing
  <2> QED BY <2>1, ToolNamesAre DEF AgentInv, Own, KindOf
<1>3. \/ \E told : Answer(c, told)
      \/ call' = [call EXCEPT ![c].pc = "reg1"]
      \/ call' = [call EXCEPT ![c].pc = "reg2", ![c].ev = sched.next]
      \/ call' = [call EXCEPT ![c].pc = "unreg"]
  BY DEF CronCall, RegisterBriefing, RegisterSweep, UndoBriefing
<1>4. ASSUME NEW told, Answer(c, told) PROVE FoundInv'
  BY <1>1, <1>2, <1>4, AnswerAside
<1>5. CASE ~\E told : Answer(c, told)
  <2>1. Others(c) /\ call'[c].pc \in {"reg1", "reg2", "unreg"}
    BY <1>2, <1>3, <1>5 DEF CallShape, Others, CallFields
  <2>2. Aside(c)'
    BY <2>1 DEF Aside
  <2> QED BY <1>1, <2>1, <2>2, AsideRule
<1> QED BY <1>4, <1>5

(* A tool call on its way to its scan. *)
LEMMA InvokeToolScan == ASSUME AgentInv, FoundInv, NEW c \in Slots, InvokeTool(c) PROVE FoundInv'
<1>1. UNCHANGED world /\ CallShape /\ call[c].pc = "dispatch" /\ call[c].got = {}
  BY DEF InvokeTool, envVars, AgentInv, FoundInv, FoundOf
<1>2. (\E e : e # "ok" /\ FailWith(c, e)) \/ call' = [call EXCEPT ![c].pc = "handler"]
  BY DEF InvokeTool, Dispatch
<1>3. CASE call' = [call EXCEPT ![c].pc = "handler"]
  <2>1. Others(c) /\ call'[c].pc = "handler" /\ call'[c].got = {}
    BY <1>1, <1>3 DEF CallShape, Others, CallFields
  <2>2. Aside(c)'
    BY <2>1 DEF Aside
  <2> QED BY <1>1, <2>1, <2>2, AsideRule
<1> QED BY <1>1, <1>2, <1>3, FailAside

(* A scan that begins: it has come nowhere, and wants what is listed now. *)
LEMMA ScanBegins ==
  ASSUME FoundInv, NEW c \in Slots, UNCHANGED world,
         call'[c].pc = "page", call'[c].job = call[c].job, call[c].job.op \in Scans,
         call'[c].cursor = IF call[c].job.op = "find_stale_prs" THEN 1 ELSE 0,
         call'[c].got = {}, call'[c].want = Wanted(call[c].job)
  PROVE  FoundOf(c)'
<1>1. IsFiniteSet(call'[c].got) /\ Cardinality(call'[c].got) < MaxItems
  BY FS_EmptySet, LimitsAssumption
<1>2. /\ call'[c].want = Wanted(call[c].job)'
      /\ Reached(c)' \in 0 .. Len(List(call[c].job))' /\ Found(c)' = Ids(call[c].job, 1, Reached(c))'
  <2>1. PICK j : j = call[c].job
    OBVIOUS
  <2>2. /\ List(j)' = List(j) /\ Wanted(j)' = Wanted(j) /\ j = call'[c].job
        /\ \A a, b : Ids(j, a, b)' = Ids(j, a, b)
    BY <2>1, SameList
  <2>3. Len(List(j)) \in Nat
    BY <2>1, ListIs
  <2>4. Reached(c)' = 0
    <3>1. Reached(c)' = IF j.op = "find_stale_prs"
                          THEN Min({(call'[c].cursor - 1) * PageSize, Len(List(j))}) ELSE call'[c].cursor
      BY <2>2 DEF Reached
    <3>2. CASE j.op = "find_stale_prs"
      <4>1. call'[c].cursor = 1
        BY <2>1, <3>2
      <4>2. (call'[c].cursor - 1) * PageSize = 0
        BY <4>1, LimitsAssumption
      <4>3. Min({0, Len(List(j))}) = 0
        BY <2>3, MinOfTwo
      <4> QED BY <3>1, <3>2, <4>2, <4>3
    <3> QED BY <2>1, <3>1, <3>2
  <2>5. Found(c)' = {} /\ Ids(j, 1, 0) = {}
    <3>1. Keeping(j, 1, 0) = {}
      <4>1. Keeping(j, 1, 0) \subseteq 1 .. 0
        BY DEF Keeping, Listing
      <4> QED BY <4>1
    <3> QED BY <3>1 DEF Found, Ids
  <2> QED BY <2>1, <2>2, <2>3, <2>4, <2>5
<1>3. PageOf(c)'
  BY <1>1, <1>2 DEF PageOf
<1> QED BY <1>3 DEF FoundOf

LEMMA HandlerScan == ASSUME AgentInv, FoundInv, NEW c \in Slots, Handler(c) PROVE FoundInv'
<1>1. UNCHANGED world /\ CallShape /\ call[c].pc = "handler" /\ call[c].got = {}
  BY DEF Handler, envVars, AgentInv, FoundInv, FoundOf
<1>2. CASE ~call[c].ctx
  <2>1. FailWith(c, "ctx")
    BY <1>2 DEF Handler
  <2> QED BY <1>1, <2>1, FailAside
<1>3. CASE call[c].ctx /\ Refuses(call[c].job)
  <2>1. Answer(c, "refused")
    BY <1>3 DEF Handler
  <2> QED BY <1>1, <2>1, AnswerAside
<1>4. CASE call[c].ctx /\ ~Refuses(call[c].job)
  <2> DEFINE j == call[c].job
             p == IF j.op = "fetch_watch_orders" THEN "open" ELSE IF j.op \in Scans THEN "page" ELSE "write"
             k == IF j.op = "find_stale_prs" THEN 1 ELSE 0
             w == IF j.op \in Scans THEN Wanted(j) ELSE {}
  <2>1. call' = [call EXCEPT ![c].pc = p, ![c].cursor = k, ![c].want = w]
    BY <1>4 DEF Handler
  <2> HIDE DEF p, k, w
  <2>2. /\ Others(c) /\ call'[c].pc = p /\ call'[c].cursor = k /\ call'[c].want = w
        /\ call'[c].job = j /\ call'[c].got = {}
    BY <1>1, <2>1 DEF CallShape, Others, CallFields
  <2>3. CASE j.op = "fetch_watch_orders"
    <3>1. p = "open" /\ k = 0
      BY <2>3 DEF p, k
    <3>2. FoundOf(c)'
      BY <2>2, <2>3, <3>1 DEF FoundOf
    <3> QED BY <1>1, <2>2, <3>2, ScanRule
  <2>4. CASE j.op \in Scans /\ j.op # "fetch_watch_orders"
    <3>1. p = "page" /\ k = (IF j.op = "find_stale_prs" THEN 1 ELSE 0) /\ w = Wanted(j)
      BY <2>4 DEF p, k, w
    <3>2. FoundOf(c)'
      BY <1>1, <2>2, <2>4, <3>1, ScanBegins
    <3> QED BY <1>1, <2>2, <3>2, ScanRule
  <2>5. CASE j.op \notin Scans
    <3>1. p = "write"
      BY <2>5, ToolNamesAre DEF p
    <3>2. Aside(c)'
      BY <2>2, <3>1 DEF Aside
    <3> QED BY <1>1, <2>2, <3>2, AsideRule
  <2> QED BY <2>3, <2>4, <2>5
<1> QED BY <1>2, <1>3, <1>4

LEMMA OpenScan == ASSUME AgentInv, FoundInv, NEW c \in Slots, openIMOrLiftRefusal(c) PROVE FoundInv'
<1>1. /\ UNCHANGED world /\ CallShape /\ call[c].pc = "open" /\ call[c].got = {}
      /\ call[c].job.op = "fetch_watch_orders" /\ call[c].cursor = 0
  BY DEF openIMOrLiftRefusal, envVars, AgentInv, FoundInv, FoundOf
<1>2. CASE call' = [call EXCEPT ![c].pc = "page", ![c].want = Wanted(call[c].job)]
  <2> DEFINE w == Wanted(call[c].job)
  <2>1. call' = [call EXCEPT ![c].pc = "page", ![c].want = w]
    BY <1>2
  <2> HIDE DEF w
  <2>2. /\ Others(c) /\ call'[c].pc = "page" /\ call'[c].cursor = 0 /\ call'[c].want = w
        /\ call'[c].job = call[c].job /\ call'[c].got = {}
    BY <1>1, <2>1 DEF CallShape, Others, CallFields
  <2>3. call[c].job.op \in Scans
    BY <1>1, ToolNamesAre
  <2>4. FoundOf(c)'
    BY <1>1, <2>2, <2>3, ScanBegins DEF w
  <2> QED BY <1>1, <2>2, <2>4, ScanRule
<1>3. CASE Answer(c, "refused")
  BY <1>1, <1>3, AnswerAside
<1>4. CASE FailWith(c, "tool")
  BY <1>1, <1>4, FailAside
<1> QED BY <1>2, <1>3, <1>4 DEF openIMOrLiftRefusal

LEMMA PageFailsScan == ASSUME AgentInv, FoundInv, NEW c \in Slots, PageFails(c) PROVE FoundInv'
<1>1. UNCHANGED world /\ (FailWith(c, "tool") \/ FailWith(c, "ctx"))
  BY DEF PageFails, envVars
<1> QED BY <1>1, FailAside

(* A page adds what is kept of its stretch, and nothing is left out of a   *)
(* scan that does not say it was cut.                                      *)
LEMMA PageAdds ==
  ASSUME FoundInv, NEW c \in Slots, call[c].pc = "page", call[c].clean, NEW r \in Pages(c)
  PROVE  LET j == call[c].job  n == Len(List(j)) IN
         /\ Upto(c, r) \in 0 .. n
         /\ {x[2] : x \in call[c].got \union Taken(c, r)} = Ids(j, 1, Upto(c, r))
         /\ Ids(j, 1, Upto(c, r)) \subseteq Ids(j, 1, n) /\ call[c].want = Ids(j, 1, n)
<1> DEFINE j == call[c].job
           n == Len(List(j))
           m == Upto(c, r)
           R == Reached(c)
<1>1. /\ j.op \in Scans /\ n \in Nat /\ R \in 0 .. n
      /\ call[c].want = Wanted(j) /\ Found(c) = Ids(j, 1, R)
  BY ListIs DEF FoundInv, FoundOf, PageOf
<1>2. /\ r.from \in Nat \ {0} /\ r.to \in R .. n
      /\ r.from = R + 1 \/ (r.from > r.to /\ r.to = R)
  <2>1. /\ r.from \in Nat \ {0}
        /\ R <= n => r.to \in R .. n /\ (r.from = R + 1 \/ (r.from > r.to /\ r.to = R))
    BY PageIs
  <2>2. R <= n
    BY <1>1
  <2> QED BY <2>1, <2>2
<1>3. /\ r.to \in Nat /\ m \in Nat
      /\ AtCap(c, r) => m \in r.from .. r.to
      /\ ~AtCap(c, r) => m = r.to
      /\ {x[2] : x \in call[c].got \union Taken(c, r)} = Found(c) \union Ids(j, r.from, m)
  <2>1. r.from \in Nat \ {0} /\ r.to \in Nat
    BY PageIs
  <2>2. /\ m \in Nat
        /\ AtCap(c, r) => m \in r.from .. r.to
        /\ ~AtCap(c, r) => m = r.to
    BY <2>1, UptoIs
  <2>3. {x[2] : x \in call[c].got \union Taken(c, r)} = Found(c) \union Ids(j, r.from, m)
    BY <2>1, TakenIs
  <2> QED BY <2>1, <2>2, <2>3
<1>4. call[c].want = Ids(j, 1, n)
  BY <1>1 DEF Wanted, Ids
<1> HIDE DEF m, n, R, j
<1>5. /\ R \in Int /\ r.from \in Int /\ m \in R .. n
      /\ r.from = R + 1 \/ (r.from > m /\ m = R)
  BY <1>1, <1>2, <1>3
<1>6. Keeping(j, 1, m) = Keeping(j, 1, R) \union Keeping(j, r.from, m)
  <2>1. \A i : i \in 1 .. m <=> i \in 1 .. R \/ i \in r.from .. m
    BY <1>1, <1>2, <1>5
  <2> QED BY <1>1, <1>5, <2>1 DEF Keeping, Listing
<1>7. Keeping(j, 1, m) \subseteq Keeping(j, 1, n)
  <2>1. 1 .. m \subseteq 1 .. n
    BY <1>1, <1>5
  <2> QED BY <2>1 DEF Keeping, Listing
<1>8. Ids(j, 1, m) = Ids(j, 1, R) \union Ids(j, r.from, m)
  BY <1>6 DEF Ids
<1>9. Ids(j, 1, m) \subseteq Ids(j, 1, n)
  BY <1>7 DEF Ids
<1>10. m \in 0 .. n
  BY <1>1, <1>5
<1> QED BY <1>1, <1>3, <1>4, <1>8, <1>9, <1>10 DEF j, n, m, R

LEMMA WholeScan ==
  ASSUME FoundInv, NEW c \in Slots, call[c].pc = "page", call[c].clean, NEW r \in Pages(c),
         ~(IF AtCap(c, r) THEN moreAtCap(c, r) ELSE AfterPage(call[c].job, r) # "whole")
  PROVE  Ids(call[c].job, 1, Upto(c, r)) = call[c].want
<1> DEFINE j == call[c].job
           n == Len(List(j))
           m == Upto(c, r)
<1>1. j.op \in Scans /\ n \in Nat /\ m \in 0 .. n /\ call[c].want = Ids(j, 1, n)
  BY ListIs, PageAdds DEF FoundInv, FoundOf
<1>2. /\ r.from \in Nat \ {0} /\ r.to \in Nat
      /\ r.flag = "last" => Listing(j, r.to + 1, n) = {}
  BY PageIs
<1>3. r.flag = "last" /\ (m = r.to \/ Listing(j, m + 1, r.to) = {})
  <2>1. CASE AtCap(c, r)
    BY <2>1 DEF moreAtCap, Upto
  <2>2. CASE ~AtCap(c, r)
    BY <1>1, <2>2, ToolNamesAre DEF Upto, AfterPage, paginateOverdue, paginateHistory, paginateStalePRs
  <2> QED BY <2>1, <2>2
<1> HIDE DEF j, n, m
<1>4. Keeping(j, 1, n) = Keeping(j, 1, m)
  <2>1. ASSUME NEW i \in 1 .. n, Listed(j, List(j)[i]) PROVE i \in 1 .. m
    <3>1. i \notin m + 1 .. r.to \/ m = r.to
      BY <1>3, <2>1 DEF Listing
    <3>2. i \notin r.to + 1 .. n
      BY <1>2, <1>3, <2>1 DEF Listing
    <3> QED BY <1>1, <1>2, <2>1, <3>1, <3>2
  <2>2. 1 .. m \subseteq 1 .. n
    BY <1>1
  <2> QED BY <2>1, <2>2 DEF Keeping, Listing
<1> QED BY <1>1, <1>4 DEF Ids, j, n, m

LEMMA NextPageScan ==
  ASSUME AgentInv, FoundInv, NEW c \in Slots, NEW o \in Scans, NextPage(c, o) PROVE FoundInv'
<1>1. UNCHANGED world /\ CallShape /\ call[c].pc = "page" /\ call[c].job.op \in Scans
  BY DEF NextPage, envVars, AgentInv, FoundInv, FoundOf
<1>2. PICK r \in Pages(c) :
        LET j == call[c].job  got == call[c].got \union Taken(c, r)  k == call[c].page + 1
            cut == IF AtCap(c, r) THEN moreAtCap(c, r) ELSE AfterPage(j, r) # "whole"
        IN  IF ~Decodes(j, r) THEN FailWith(c, "tool")
            ELSE IF ~AtCap(c, r) /\ AfterPage(j, r) = "next" /\ k < MaxPages
              THEN /\ call' = [call EXCEPT ![c].got = got, ![c].page = k, ![c].cursor = r.next]
                   /\ UNCHANGED answers
              ELSE /\ call' = [call EXCEPT ![c] = [Ended(c, "ok") EXCEPT !.got = got, !.cut = cut]]
                   /\ Tell(c, "ok")
  BY DEF NextPage
<1> DEFINE j == call[c].job
           got == call[c].got \union Taken(c, r)
           k == call[c].page + 1
           cut == IF AtCap(c, r) THEN moreAtCap(c, r) ELSE AfterPage(call[c].job, r) # "whole"
<1>3. \/ FailWith(c, "tool")
      \/ ~AtCap(c, r) /\ call' = [call EXCEPT ![c].got = got, ![c].page = k, ![c].cursor = r.next]
      \/ call' = [call EXCEPT ![c] = [Ended(c, "ok") EXCEPT !.got = got, !.cut = cut]]
  BY <1>2
<1>4. /\ r.from \in Nat \ {0} /\ r.to \in Nat /\ r.next \in Nat
      /\ j.op = "find_stale_prs" => r.next >= 1
      /\ Reached(c) <= Len(List(j)) =>
           r.to = IF j.op = "find_stale_prs" THEN Min({(r.next - 1) * PageSize, Len(List(j))}) ELSE r.next
  BY <1>1, PageIs
<1>5. /\ IsFiniteSet(got) /\ Cardinality(got) <= MaxItems
      /\ ~AtCap(c, r) => Cardinality(got) < MaxItems /\ Upto(c, r) = r.to
  BY <1>1, <1>4, TakenIs, UptoIs
<1>6. ASSUME call[c].clean
      PROVE  /\ Upto(c, r) \in 0 .. Len(List(j))
             /\ {x[2] : x \in got} = Ids(j, 1, Upto(c, r))
             /\ Ids(j, 1, Upto(c, r)) \subseteq call[c].want /\ call[c].want = Wanted(j)
             /\ ~cut => Ids(j, 1, Upto(c, r)) = call[c].want
             /\ Reached(c) <= Len(List(j))
  <2>1. call[c].want = Wanted(j) /\ Reached(c) <= Len(List(j))
    BY <1>1, <1>6, ListIs DEF FoundInv, FoundOf, PageOf
  <2>2. /\ Upto(c, r) \in 0 .. Len(List(j))
        /\ {x[2] : x \in got} = Ids(j, 1, Upto(c, r))
        /\ Ids(j, 1, Upto(c, r)) \subseteq call[c].want
    BY <1>1, <1>6, PageAdds
  <2>3. ~cut => Ids(j, 1, Upto(c, r)) = call[c].want
    BY <1>1, <1>6, WholeScan
  <2> QED BY <2>1, <2>2, <2>3
<1> HIDE DEF got, k, cut, j
<1>7. CASE ~AtCap(c, r) /\ call' = [call EXCEPT ![c].got = got, ![c].page = k, ![c].cursor = r.next]
  <2>1. /\ Others(c) /\ call'[c].pc = "page" /\ call'[c].job = j /\ call'[c].got = got
        /\ call'[c].cursor = r.next /\ call'[c].want = call[c].want /\ call'[c].clean = call[c].clean
    BY <1>1, <1>7 DEF CallShape, Others, CallFields, j
  <2>2. ASSUME call[c].clean
        PROVE  /\ call'[c].want = Wanted(call[c].job)'
               /\ Reached(c)' \in 0 .. Len(List(call[c].job))'
               /\ Found(c)' = Ids(call[c].job, 1, Reached(c))'
    <3>1. PICK job : job = j
      OBVIOUS
    <3>2. /\ List(job)' = List(job) /\ Wanted(job)' = Wanted(job) /\ job = call'[c].job
          /\ \A a, b : Ids(job, a, b)' = Ids(job, a, b)
      BY <1>1, <2>1, <3>1, SameList
    <3>3. Reached(c)' = r.to
      BY <1>4, <1>6, <2>1, <2>2, <3>1, <3>2 DEF Reached
    <3>4. Found(c)' = {x[2] : x \in got}
      BY <2>1 DEF Found
    <3>5. /\ r.to \in 0 .. Len(List(job)) /\ {x[2] : x \in got} = Ids(job, 1, r.to)
          /\ call[c].want = Wanted(job)
      BY <1>5, <1>6, <1>7, <2>2, <3>1
    <3>6. job = call[c].job
      BY <3>1 DEF j
    <3> QED BY <2>1, <3>2, <3>3, <3>4, <3>5, <3>6
  <2>3. PageOf(c)'
    BY <1>4, <1>5, <1>7, <2>1, <2>2 DEF PageOf
  <2>4. FoundOf(c)'
    BY <1>1, <2>1, <2>3 DEF FoundOf, j
  <2> QED BY <1>1, <2>1, <2>4, ScanRule
<1>8. CASE call' = [call EXCEPT ![c] = [Ended(c, "ok") EXCEPT !.got = got, !.cut = cut]]
  <2> DEFINE x == Ended(c, "ok")
             y == [x EXCEPT !.got = got, !.cut = cut]
  <2>1. /\ DOMAIN x = CallFields /\ x.pc = "done" /\ x.job = call[c].job
        /\ x.want = call[c].want /\ x.clean = call[c].clean
    BY DEF Ended, Idle, CallFields
  <2>2. call' = [call EXCEPT ![c] = y]
    BY <1>8
  <2> HIDE DEF x
  <2>3. /\ DOMAIN y = CallFields /\ y.pc = "done" /\ y.got = got /\ y.cut = cut
        /\ y.want = call[c].want /\ y.clean = call[c].clean
    BY <2>1 DEF CallFields
  <2> HIDE DEF y
  <2>4. Others(c) /\ call'[c] = y
    BY <1>1, <2>2, <2>3, Becomes
  <2>5. Found(c)' = {z[2] : z \in got}
    BY <2>3, <2>4 DEF Found
  <2>6. HonestOf(c)'
    BY <1>5, <1>6, <2>3, <2>4, <2>5 DEF HonestOf
  <2>7. FoundOf(c)'
    BY <2>3, <2>4, <2>6 DEF FoundOf
  <2> QED BY <1>1, <2>4, <2>7, ScanRule
<1>9. CASE FailWith(c, "tool")
  BY <1>1, <1>9, FailAside
<1> QED BY <1>3, <1>7, <1>8, <1>9

(* A list that is touched stays a list, and every scan of it knows. *)
LEMMA TouchedList ==
  ASSUME NEW l, l \in Seq(Range(l)), NEW x, NEW m,
         m = <<x>> \o l \/ \E i \in DOMAIN l : m = Append(RemoveAt(l, i), x)
  PROVE  m \in Seq(Range(m))
<1> DEFINE S == Range(l) \union {x}
<1>1. l \in Seq(S) /\ <<x>> \in Seq(S) /\ x \in S
  <2>1. l \in Seq(S)
    BY SeqMonotonic
  <2> QED BY <2>1
<1>2. m \in Seq(S)
  <2>1. CASE m = <<x>> \o l
    BY <1>1, <2>1, ConcatProperties
  <2>2. ASSUME NEW i \in DOMAIN l, m = Append(RemoveAt(l, i), x) PROVE m \in Seq(S)
    <3>1. /\ Len(l) \in Nat /\ DOMAIN l = 1 .. Len(l)
          /\ \A k \in 1 .. Len(l) : l[k] \in S
      BY <1>1, LenProperties, ElementOfSeq
    <3>2. i \in Int /\ 1 <= i /\ i <= Len(l)
      BY <3>1
    <3> HIDE DEF S
    <3>3. SubSeq(l, 1, i - 1) \in Seq(S)
      <4>1. 1 \in Int /\ i - 1 \in Int /\ \A k \in 1 .. i - 1 : l[k] \in S
        BY <3>1, <3>2
      <4> QED BY <4>1, SubSeqProperties
    <3>4. SubSeq(l, i + 1, Len(l)) \in Seq(S)
      <4>1. i + 1 \in Int /\ Len(l) \in Int /\ \A k \in i + 1 .. Len(l) : l[k] \in S
        BY <3>1, <3>2
      <4> QED BY <4>1, SubSeqProperties
    <3>5. RemoveAt(l, i) \in Seq(S)
      BY <3>3, <3>4, ConcatProperties DEF RemoveAt
    <3> QED BY <1>1, <2>2, <3>5, AppendProperties
  <2> QED BY <2>1, <2>2
<1>3. m \in [1 .. Len(m) -> S] /\ DOMAIN m = 1 .. Len(m) /\ Len(m) \in Nat
  BY <1>2, LenProperties
<1>4. \A k \in 1 .. Len(m) : m[k] \in Range(m)
  BY <1>3 DEF Range
<1>5. m \in [1 .. Len(m) -> Range(m)]
  BY <1>3, <1>4
<1>6. m \in UNION {[1 .. n -> Range(m)] : n \in Nat}
  BY <1>3, <1>5
<1> QED BY <1>6, SeqDef

LEMMA TouchScan == ASSUME AgentInv, FoundInv, NEW s \in DOMAIN Lists0, Touch(s) PROVE FoundInv'
<1>1. /\ s \in DOMAIN world /\ WorldInv
      /\ call' = [c \in Slots |->
           IF call[c].pc = "page" /\ ServiceOf[call[c].job.op] = s
             THEN [call[c] EXCEPT !.clean = FALSE] ELSE call[c]]
  BY ListsAssumption DEF Touch, FoundInv, WorldInv
<1>2. PICK x, m : /\ world' = [world EXCEPT ![s] = m]
                  /\ m = <<x>> \o world[s] \/ \E i \in DOMAIN world[s] : m = Append(RemoveAt(world[s], i), x)
  <2>1. CASE s = "slack"
    <3> DEFINE x == [id |-> 90 + touches, upd |-> Now]
               m == <<x>> \o world[s]
    <3>1. world' = [world EXCEPT ![s] = m]
      BY <2>1 DEF Touch
    <3> HIDE DEF x
    <3> QED BY <3>1
  <2>2. CASE s # "slack"
    <3>1. PICK i \in DOMAIN world[s] :
            world' = [world EXCEPT ![s] = Append(RemoveAt(@, i), [@[i] EXCEPT !.upd = Now])]
      BY <2>2 DEF Touch
    <3> DEFINE x == [world[s][i] EXCEPT !.upd = Now]
               m == Append(RemoveAt(world[s], i), x)
    <3>2. world' = [world EXCEPT ![s] = m]
      BY <3>1
    <3> HIDE DEF x
    <3> QED BY <3>2
  <2> QED BY <2>1, <2>2
<1>3. WorldInv'
  <2>1. m \in Seq(Range(m))
    BY <1>1, <1>2, TouchedList DEF WorldInv
  <2>2. DOMAIN world' = DOMAIN world /\ \A t \in DOMAIN world : world'[t] = IF t = s THEN m ELSE world[t]
    BY <1>1, <1>2
  <2> QED BY <1>1, <2>1, <2>2 DEF WorldInv
<1>4. ASSUME NEW d \in Slots PROVE FoundOf(d)'
  <2>1. FoundOf(d) /\ DOMAIN call[d] = CallFields
    BY DEF FoundInv, AgentInv, CallShape
  <2>2. CASE call[d].pc = "page" /\ ServiceOf[call[d].job.op] = s
    <3>1. call'[d] = [call[d] EXCEPT !.clean = FALSE]
      BY <1>1, <2>2
    <3>2. /\ call'[d].pc = call[d].pc /\ call'[d].job = call[d].job /\ call'[d].err = call[d].err
          /\ call'[d].got = call[d].got /\ call'[d].want = call[d].want /\ call'[d].cut = call[d].cut
          /\ call'[d].cursor = call[d].cursor /\ call'[d].clean = FALSE
      BY <2>1, <3>1 DEF CallFields
    <3> QED BY <2>1, <3>2, SameScan
  <2>3. CASE call[d].pc = "page" /\ ServiceOf[call[d].job.op] # s
    <3>1. call'[d] = call[d]
      BY <1>1, <2>3
    <3>2. ServiceOf[call[d].job.op] \in DOMAIN world
      BY <1>1, <2>1, <2>3, ToolNamesAre DEF FoundOf, WorldInv, ServiceOf
    <3>3. world'[ServiceOf[call[d].job.op]] = world[ServiceOf[call[d].job.op]]
      BY <1>2, <2>3, <3>2
    <3> QED BY <2>1, <3>1, <3>3, SameScan
  <2>4. CASE call[d].pc # "page"
    <3>1. call'[d] = call[d]
      BY <1>1, <2>4
    <3> QED BY <2>1, <2>4, <3>1, SameScan
  <2> QED BY <2>2, <2>3, <2>4
<1> QED BY <1>3, <1>4 DEF FoundInv

LEMMA BeginScan == ASSUME AgentInv, FoundInv, NEW c \in Slots, Begin(c) PROVE FoundInv'
<1>1. UNCHANGED world /\ CallShape
  BY DEF Begin, toolVars, envVars, AgentInv
<1>2. PICK job \in script[made + 1] :
        call' = [call EXCEPT ![c] = [Idle EXCEPT !.pc = FirstPc(job.op), !.job = job, !.n = made + 1]]
  BY DEF Begin
<1> DEFINE p == FirstPc(job.op)
           x == [Idle EXCEPT !.pc = p, !.job = job, !.n = made + 1]
<1>3. call' = [call EXCEPT ![c] = x]
  BY <1>2
<1>4. p \in {"dispatch", "client", "validate", "cron"}
  BY DEF FirstPc
<1> HIDE DEF p
<1>5. x.pc = p /\ x.got = {}
  BY DEF Idle
<1> HIDE DEF x
<1>6. Others(c) /\ call'[c] = x
  BY <1>1, <1>3 DEF CallShape, Others
<1>7. Aside(c)'
  BY <1>4, <1>5, <1>6 DEF Aside
<1> QED BY <1>1, <1>6, <1>7, AsideRule

LEMMA CancelScan == ASSUME AgentInv, FoundInv, NEW c \in Slots, Cancel(c) PROVE FoundInv'
<1>1. UNCHANGED world /\ CallShape /\ call' = [call EXCEPT ![c].ctx = FALSE] /\ FoundOf(c)
  BY DEF Cancel, toolVars, envVars, AgentInv, FoundInv
<1>2. /\ Others(c)
      /\ call'[c].pc = call[c].pc /\ call'[c].job = call[c].job /\ call'[c].err = call[c].err
      /\ call'[c].got = call[c].got /\ call'[c].want = call[c].want /\ call'[c].cut = call[c].cut
      /\ call'[c].cursor = call[c].cursor /\ call'[c].clean = call[c].clean
  BY <1>1 DEF CallShape, Others, CallFields
<1>3. FoundOf(c)'
  BY <1>1, <1>2, SameScan
<1> QED BY <1>1, <1>2, <1>3, ScanRule

LEMMA ScansKept == ASSUME FoundInv, UNCHANGED <<call, world>> PROVE FoundInv'
<1>1. ASSUME NEW d \in Slots PROVE FoundOf(d)'
  BY SameScan DEF FoundInv
<1> QED BY <1>1 DEF FoundInv, WorldInv

LEMMA ScanInitInv == AgentInit => FoundInv
<1> SUFFICES ASSUME AgentInit PROVE FoundInv
  OBVIOUS
<1>1. \A c \in Slots : call[c].pc = "idle"
  BY DEF AgentInit, Idle
<1>2. WorldInv
  BY ListsAssumption DEF AgentInit, WorldInv
<1> QED BY <1>1, <1>2 DEF FoundInv, FoundOf

LEMMA StepScan == ASSUME AgentInv, FoundInv, NEW c \in Slots, Step(c) PROVE FoundInv'
<1>1. CASE FindOverdueTickets(c) \/ FetchWatchOrders(c) \/ FindStalePRs(c)
  <2>1. PICK o \in Scans : NextPage(c, o)
    BY <1>1, ToolNamesAre DEF FindOverdueTickets, FetchWatchOrders, FindStalePRs
  <2> QED BY <2>1, NextPageScan
<1>2. CASE \/ RecordWatchOrder(c) \/ PostDailyBriefing(c) \/ NudgeReviewer(c) \/ UpdateTicketField(c)
           \/ GetIssue(c) \/ AddComment(c) \/ GetRef(c) \/ CreateRef(c)
           \/ CreateOrUpdateFile(c) \/ CreatePullRequest(c)
  <2>1. \/ \E o \in ToolNames \ Scans : WriteOnce(c, o)
        \/ \E o \in ClientCalls : ClientCall(c, o)
    BY <1>2, ToolNamesAre DEF RecordWatchOrder, PostDailyBriefing, NudgeReviewer, UpdateTicketField,
       GetIssue, AddComment, GetRef, CreateRef, CreateOrUpdateFile, CreatePullRequest
  <2> QED BY <2>1, OthersScan
<1>3. CASE InvokeTool(c) \/ Handler(c) \/ openIMOrLiftRefusal(c) \/ PageFails(c)
  BY <1>3, InvokeToolScan, HandlerScan, OpenScan, PageFailsScan
<1>4. CASE KeepersLogAppend(c) \/ Embed(c) \/ Remember(c)
  BY <1>4, ReflectionScan
<1>5. CASE Validate(c) \/ ScopeResolver(c) \/ executeScoped(c) \/ prePublishGate(c) \/ publishDryRun(c)
  BY <1>5, RehearsalScan
<1>6. CASE CronCall(c) \/ RegisterBriefing(c) \/ RegisterSweep(c) \/ UndoBriefing(c)
  BY <1>6, CronScan
<1> QED BY <1>1, <1>2, <1>3, <1>4, <1>5, <1>6 DEF Step

LEMMA ScanNextInv == AgentInv /\ FoundInv /\ [AgentNext]_agentVars => FoundInv'
<1> SUFFICES ASSUME AgentInv, FoundInv, [AgentNext]_agentVars PROVE FoundInv'
  OBVIOUS
<1>1. ASSUME NEW c \in Slots, Begin(c) \/ Step(c) \/ Cancel(c) PROVE FoundInv'
  BY <1>1, BeginScan, StepScan, CancelScan
<1>2. ASSUME NEW s \in DOMAIN Lists0, Touch(s) PROVE FoundInv'
  BY <1>2, TouchScan
<1>3. ASSUME NEW t \in ToolNames, Register(t) PROVE FoundInv'
  BY <1>3, ScansKept DEF Register
<1>4. CASE Terminate
  BY <1>4, ScansKept DEF Terminate
<1>5. ASSUME NEW e, Fire(e) \/ makeFireFn(e) PROVE FoundInv'
  BY <1>5, ScansKept DEF Fire, makeFireFn, toolVars, envVars
<1>6. CASE UNCHANGED agentVars
  BY <1>6, ScansKept DEF agentVars, toolVars, envVars
<1> QED BY <1>1, <1>2, <1>3, <1>4, <1>5, <1>6 DEF AgentNext

LEMMA ScanInvariance == AgentSpec => []FoundInv
BY AgentInvariance, ScanInitInv, ScanNextInv, PTL DEF AgentSpec

(* A scan that says it is whole is whole, and none returns what does not   *)
(* match or more than the cap, whatever page sizes and end markers the     *)
(* services answer with and whatever they list (paginateOverdue,           *)
(* paginateHistory, paginateStalePRs).                                     *)
THEOREM ScansHonest == AgentSpec => []ScanIsHonest
<1>1. FoundInv => ScanIsHonest
  BY DEF FoundInv, FoundOf, HonestOf, ScanIsHonest
<1> QED BY <1>1, ScanInvariance, PTL

(* What a call was told is what happened, for any workload, manifests and  *)
(* faults (WiredRuntime.InvokeTool, ToolDispatcher.Dispatch).              *)
THEOREM AnswersTrue == AgentSpec => []AnswerIsTrue
<1>1. AgentInv => AnswerIsTrue
  <2> SUFFICES ASSUME AgentInv, NEW c \in Slots
               PROVE  LET j == call[c].job  wrote == \E e \in effects : e.n = call[c].n IN
                      /\ call[c].pc = "done" /\ j.op \in ToolNames =>
                           /\ call[c].err = "ok" /\ j.op \notin Reads => wrote
                           /\ call[c].err \in PreDispatch => ~wrote
                      /\ wrote /\ j.op \in ToolNames =>
                           /\ ~RequiresApproval(Manifests[j.m], j.op) /\ j.op \in Manifests[j.m].toolset
                           /\ j.op = "update_ticket_field" =>
                                "assignee" \notin j.fields /\ j.fields \subseteq Whitelist
    BY DEF AnswerIsTrue
  <2>1. PermitOf(c)
    BY DEF AgentInv, Own
  <2> QED BY <2>1 DEF PermitOf, Wrote, MayWrite, Permitted, Calling
<1> QED BY <1>1, AgentInvariance, PTL

(* Every lesson is about a call that failed, there is one per call, and    *)
(* the row it cites exists (ToolErrorReflector.Reflect).                   *)
THEOREM LessonsCaused == AgentSpec => []LessonHasCause
<1>1. AgentInv => LessonHasCause
  BY DEF AgentInv, LessonInv, LessonNs, LessonHasCause
<1> QED BY <1>1, AgentInvariance, PTL

(* Only a scoped dry run writes anything outside, and what it did is        *)
(* announced or known not to be (Executor.executeScoped).                  *)
THEOREM DryRunsReported == AgentSpec => []DryRunIsReported
<1>1. AgentInv => DryRunIsReported
  BY DEF AgentInv, Own, DryRunOf, DryRunIsReported
<1> QED BY <1>1, AgentInvariance, PTL

(* A registration that returned an error leaves no tick behind, and once   *)
(* Stop's context is done nothing is published any more                    *)
(* (RegisterCoordinatorCronTicks, Scheduler.Stop).                         *)
THEOREM TicksOwned == AgentSpec => TicksAreOwned
<1>1. AgentInv => (sched.state # "stopped" => sched.entries \cap dropped = {})
  BY DEF AgentInv, TickInv
<1>2. [AgentNext]_agentVars => [StopDone => UNCHANGED ticks]_agentVars
  <2> SUFFICES ASSUME AgentNext, StopDone PROVE UNCHANGED ticks
    OBVIOUS
  <2>1. ASSUME NEW c \in Slots, Begin(c) \/ Step(c) \/ Cancel(c) PROVE UNCHANGED ticks
    BY <2>1 DEF Begin, Cancel, Step, cronVars, fireVars, InvokeTool, Handler, openIMOrLiftRefusal,
       FindOverdueTickets, FetchWatchOrders, FindStalePRs, NextPage, PageFails, RecordWatchOrder,
       PostDailyBriefing, NudgeReviewer, UpdateTicketField, WriteOnce, GetIssue, AddComment, GetRef,
       CreateRef, CreateOrUpdateFile, CreatePullRequest, ClientCall, KeepersLogAppend, Embed, Remember,
       Validate, ScopeResolver, executeScoped, prePublishGate, publishDryRun, CronCall,
       RegisterBriefing, RegisterSweep, UndoBriefing
  <2>2. ~\E f \in firing : makeFireFn(f)
    BY DEF StopDone
  <2>3. ASSUME NEW s, Touch(s) \/ Register(s) \/ Terminate \/ Fire(s) PROVE UNCHANGED ticks
    BY <2>3 DEF Touch, Register, Terminate, Fire, cronVars, fireVars
  <2> QED BY <2>1, <2>2, <2>3 DEF AgentNext
<1> QED BY <1>1, <1>2, AgentInvariance, PTL DEF AgentSpec, TicksAreOwned
=============================================================================
