---------------------------- MODULE ToolRegistry ----------------------------
(***************************************************************************)
(* The tool registry (core/pkg/toolregistry): a Scheduler that brings the  *)
(* directory of a tool source up to date and announces it on the bus, and  *)
(* a Registry that rebuilds the effective toolset on every announcement,   *)
(* swaps it in, and announces the new revision.                            *)
(*                                                                         *)
(* Sources are numbered in the order of the configuration, which is their  *)
(* order of precedence. What is on disk for a source is the set of tools   *)
(* whose manifests its directory holds. A pull rewrites the directory in   *)
(* two steps, so a scan may read it half way. The bus's topic of synced    *)
(* sources is the sequence `queue`; its worker is the recomputer "worker"  *)
(* and the members of Callers are goroutines calling Recompute directly.   *)
(* Times and the contents of manifests are left out; the grace period of a *)
(* retired snapshot, which decides when its tracking ends, is either zero  *)
(* or longer than the run.                                                 *)
(***************************************************************************)
EXTENDS Integers, Sequences, FiniteSets

CONSTANTS N,           \* number of configured sources
          GitSources,  \* the ones of kind git; the others are local or hosted
          Tools, Syncers, Callers, Holders,
          Wired,       \* a Publisher was given to the registry
          KeepRetired, \* the grace period outlasts the run (else it is zero)
          MaxPopulate, \* bound on out-of-band changes of a directory
          MaxCalls     \* bound on calls of SyncOnce and direct ones of Recompute

ASSUME SourcesAssumption == N \in Nat \ {0} /\ GitSources \subseteq 1 .. N

ASSUME SettingsAssumption == Wired \in BOOLEAN /\ KeepRetired \in BOOLEAN
                             /\ MaxPopulate \in Nat /\ MaxCalls \in Nat

Sources == 1 .. N

Recomputers == Callers \cup {"worker"}

None == "none"

ASSUME GoroutinesAssumption ==
  /\ IsFiniteSet(Syncers) /\ IsFiniteSet(Callers) /\ IsFiniteSet(Holders)
  /\ None \notin Syncers \cup Callers /\ "worker" \notin Callers

VARIABLES
  disk,        \* <DataDir>/tools/<source>: the tools found there
  untold,      \* sources changed on disk since their last lasting announcement
  populated,   \* out-of-band changes so far
  sync,        \* per SyncOnce call: where it is, its source, the tree verified
  perSourceMu, \* holder of the mutex of a source
  queue,       \* SourceSynced events the bus has accepted and not dispatched
  rec,         \* per recomputer: where it is and what it has built
  recomputeMu, publishMu,
  current,     \* the entry installed: its revision and snapshot
  retiring,    \* revisions still tracked after being replaced
  refs,        \* refcount per revision
  hold,        \* per holder: the entry it loaded, and whether it is counted
  published    \* the registry's own events, in the order the bus took them

vars == <<disk, untold, populated, sync, perSourceMu, queue, rec, recomputeMu,
          publishMu, current, retiring, refs, hold, published>>

schedVars == <<sync, perSourceMu>>
recVars   == <<rec, recomputeMu, publishMu, current, retiring, published>>
holdVars  == <<refs, hold>>

(* A snapshot: the winner of each tool (0: no source has it), what was read
   of each source, and the sources that could not be read. *)
Empty == [tools |-> [t \in Tools |-> 0], scan |-> [s \in Sources |-> {}], bad |-> {}]

Fresh0 == [pc |-> "idle", src |-> 0, next |-> 1, rev |-> 0, snap |-> Empty,
           shadows |-> {}]

\* No directory has been filled; NewRegistry installs revision 0, an empty
\* snapshot.
Init ==
  /\ disk = [s \in Sources |-> {}]
  /\ untold = {}
  /\ populated = 0
  /\ sync = [y \in Syncers |-> [pc |-> "idle", src |-> 0, tree |-> {}]]
  /\ perSourceMu = [s \in Sources |-> None]
  /\ queue = <<>>
  /\ rec = [r \in Recomputers |-> Fresh0]
  /\ recomputeMu = None
  /\ publishMu = None
  /\ current = [rev |-> 0, snap |-> Empty]
  /\ retiring = {}
  /\ refs = [k \in 0 .. Cardinality(Syncers) + Cardinality(Callers) |-> 0]
  /\ hold = [h \in Holders |-> [pc |-> "idle", rev |-> 0]]
  /\ published = <<>>
-----------------------------------------------------------------------------
(* Scheduler.SyncOnce *)

To(y, pc) == sync' = [sync EXCEPT ![y].pc = pc]

Unlock(s) == perSourceMu' = [perSourceMu EXCEPT ![s] = None]

Calls == Cardinality({y \in Syncers : sync[y].pc # "idle"})
         + Cardinality({c \in Callers : rec[c].pc # "idle"})

\* The source's mutex, held until SyncOnce returns.
SyncLock(y, s) ==
  /\ sync[y].pc = "idle"
  /\ Calls < MaxCalls
  /\ perSourceMu[s] = None
  /\ perSourceMu' = [perSourceMu EXCEPT ![s] = y]
  /\ sync' = [sync EXCEPT ![y].pc = "locked", ![y].src = s]
  /\ UNCHANGED <<disk, untold, populated, queue, recVars, holdVars>>

\* The path, the credential, the directory or the signature is refused: the
\* failure is announced on another topic and the directory stays as it is.
SyncFails(y) ==
  /\ sync[y].pc \in {"locked", "verify"}
  /\ To(y, "done")
  /\ Unlock(sync[y].src)
  /\ UNCHANGED <<disk, untold, populated, queue, recVars, holdVars>>

\* A local or hosted source is only looked for.
SyncStat(y) ==
  /\ sync[y].pc = "locked"
  /\ sync[y].src \notin GitSources
  /\ To(y, "verify")
  /\ UNCHANGED <<disk, untold, populated, perSourceMu, queue, recVars, holdVars>>

Write(s, tree) ==
  /\ disk' = [disk EXCEPT ![s] = tree]
  /\ untold' = untold \cup {s}

\* Clone or Pull has started to rewrite the directory.
SyncPull(y) ==
  /\ sync[y].pc = "locked"
  /\ sync[y].src \in GitSources
  /\ \E torn \in SUBSET Tools : Write(sync[y].src, torn)
  /\ To(y, "pull")
  /\ UNCHANGED <<populated, perSourceMu, queue, recVars, holdVars>>

SyncPulled(y) ==
  /\ sync[y].pc = "pull"
  /\ \E tree \in SUBSET Tools : Write(sync[y].src, tree)
  /\ To(y, "verify")
  /\ UNCHANGED <<populated, perSourceMu, queue, recVars, holdVars>>

\* Clone or Pull fails half way.
SyncPullFails(y) ==
  /\ sync[y].pc = "pull"
  /\ To(y, "done")
  /\ Unlock(sync[y].src)
  /\ UNCHANGED <<disk, untold, populated, queue, recVars, holdVars>>

\* The verifier has read the directory and accepts it.
SyncVerify(y) ==
  /\ sync[y].pc = "verify"
  /\ sync' = [sync EXCEPT ![y].pc = "publish", ![y].tree = disk[sync[y].src]]
  /\ UNCHANGED <<disk, untold, populated, perSourceMu, queue, recVars, holdVars>>

\* emitSuccess: the bus takes SourceSynced.
SyncPublish(y) ==
  /\ sync[y].pc = "publish"
  /\ queue' = Append(queue, sync[y].src)
  /\ untold' = untold \ {sync[y].src}
  /\ To(y, "done")
  /\ Unlock(sync[y].src)
  /\ UNCHANGED <<disk, populated, recVars, holdVars>>

\* emitSuccess: the bus refuses SourceSynced and the caller gets the error.
SyncPublishFails(y) ==
  /\ sync[y].pc = "publish"
  /\ To(y, "done")
  /\ Unlock(sync[y].src)
  /\ UNCHANGED <<disk, untold, populated, queue, recVars, holdVars>>

\* Other tooling fills the directory of a local or hosted source.
Populate(s, tree) ==
  /\ s \notin GitSources
  /\ populated < MaxPopulate
  /\ populated' = populated + 1
  /\ Write(s, tree)
  /\ UNCHANGED <<schedVars, queue, recVars, holdVars>>
-----------------------------------------------------------------------------
(* Registry.Recompute *)

\* Where a recomputer goes when Recompute returns: the bus worker takes the
\* next event, a direct caller is done.
Returned(r) == [Fresh0 EXCEPT !.pc = IF r = "worker" THEN "idle" ELSE "done"]

\* Called by the handler of a SourceSynced event, or directly.
RecomputeCall(r) ==
  /\ rec[r].pc = "idle"
  /\ IF r = "worker" THEN queue # <<>> ELSE Calls < MaxCalls
  /\ rec' = [rec EXCEPT ![r].pc = "lock",
                        ![r].src = IF r = "worker" THEN Head(queue) ELSE 0]
  /\ queue' = IF r = "worker" THEN Tail(queue) ELSE queue
  /\ UNCHANGED <<disk, untold, populated, schedVars, recomputeMu, publishMu,
                 current, retiring, published, holdVars>>

BugScanUnlocked(r) ==   \* the scan does not wait for the mutex
  /\ rec[r].pc = "lock"
  /\ recomputeMu' = r
  /\ rec' = [rec EXCEPT ![r].pc = "scan"]
  /\ UNCHANGED <<disk, untold, populated, schedVars, queue, publishMu, current,
                 retiring, published, holdVars>>

RecomputeLock(r) ==
  /\ rec[r].pc = "lock"
  /\ recomputeMu = None
  /\ recomputeMu' = r
  /\ rec' = [rec EXCEPT ![r].pc = "scan"]
  /\ UNCHANGED <<disk, untold, populated, schedVars, queue, publishMu, current,
                 retiring, published, holdVars>>

\* One source merged: a tool that already has a winner is shadowed.
Merge(snap, s, found) ==
  [snap EXCEPT
     !.tools = [t \in Tools |-> IF t \in found /\ @[t] = 0 THEN s ELSE @[t]],
     !.scan[s] = found]

\* ScanSourceDir of the next source, and its manifests merged.
ScanSource(r) ==
  LET s == rec[r].next IN
  /\ rec[r].pc = "scan"
  /\ s \in Sources
  /\ rec' = [rec EXCEPT
       ![r].next = s + 1,
       ![r].snap = Merge(@, s, disk[s]),
       ![r].shadows = @ \cup {<<t, s>> : t \in {u \in disk[s] :
                                             rec[r].snap.tools[u] # 0}}]
  /\ UNCHANGED <<disk, untold, populated, schedVars, queue, recomputeMu,
                 publishMu, current, retiring, published, holdVars>>

\* The directory cannot be read: the source is skipped.
ScanFails(r) ==
  LET s == rec[r].next IN
  /\ rec[r].pc = "scan"
  /\ s \in Sources
  /\ rec' = [rec EXCEPT ![r].next = s + 1, ![r].snap.bad = @ \cup {s}]
  /\ UNCHANGED <<disk, untold, populated, schedVars, queue, recomputeMu,
                 publishMu, current, retiring, published, holdVars>>

BugKeepMutex(r) ==   \* the error return leaves recomputeMu locked
  /\ rec[r].pc = "scan"
  /\ rec[r].next \in Sources
  /\ untold' = IF r = "worker" THEN untold \cup {rec[r].src} ELSE untold
  /\ rec' = [rec EXCEPT ![r] = Returned(r)]
  /\ UNCHANGED <<disk, populated, schedVars, queue, recomputeMu, publishMu,
                 current, retiring, published, holdVars>>

\* The context ends during the scan: nothing is installed, and the
\* announcement that asked for this recompute is spent.
ScanCancelled(r) ==
  /\ rec[r].pc = "scan"
  /\ rec[r].next \in Sources
  /\ untold' = IF r = "worker" THEN untold \cup {rec[r].src} ELSE untold
  /\ recomputeMu' = None
  /\ rec' = [rec EXCEPT ![r] = Returned(r)]
  /\ UNCHANGED <<disk, populated, schedVars, queue, publishMu, current, retiring,
                 published, holdVars>>

\* The replaced entry is tracked, and the ones past their grace period swept.
retireEntry(old) == retiring' = IF KeepRetired THEN retiring \cup {old} ELSE {}

\* The next revision is swapped in and the old entry retired.
Swap(r) ==
  /\ rec[r].pc = "scan"
  /\ rec[r].next \notin Sources
  /\ current' = [rev |-> current.rev + 1, snap |-> rec[r].snap]
  /\ untold' = untold \cup rec[r].snap.bad
  /\ retireEntry(current.rev)
  /\ recomputeMu' = None
  /\ rec' = [rec EXCEPT
       ![r] = IF Wired THEN [@ EXCEPT !.pc = "swapped", !.rev = current.rev + 1]
                       ELSE Returned(r)]
  /\ UNCHANGED <<disk, populated, schedVars, queue, publishMu, published, holdVars>>

PublishLock(r) ==
  /\ rec[r].pc = "swapped"
  /\ publishMu = None
  /\ publishMu' = r
  /\ rec' = [rec EXCEPT ![r].pc = "publish"]
  /\ UNCHANGED <<disk, untold, populated, schedVars, queue, recomputeMu, current,
                 retiring, published, holdVars>>

\* One event offered to the bus, which may refuse it; the error is kept for
\* the return and the loop goes on.
Offer(ev) == published' \in {published, Append(published, ev)}

\* One shadow of the revision (in any order: their order is not observed).
PublishShadow(r) ==
  /\ rec[r].pc = "publish"
  /\ \E sh \in rec[r].shadows :
       /\ Offer([kind |-> "shadowed", rev |-> rec[r].rev])
       /\ rec' = [rec EXCEPT ![r].shadows = @ \ {sh}]
  /\ UNCHANGED <<disk, untold, populated, schedVars, queue, recomputeMu,
                 publishMu, current, retiring, holdVars>>

PublishUpdated(r) ==
  /\ rec[r].pc = "publish"
  /\ rec[r].shadows = {}
  /\ Offer([kind |-> "updated", rev |-> rec[r].rev])
  /\ publishMu' = None
  /\ rec' = [rec EXCEPT ![r] = Returned(r)]
  /\ UNCHANGED <<disk, untold, populated, schedVars, queue, recomputeMu, current,
                 retiring, holdVars>>
-----------------------------------------------------------------------------
(* Registry.Acquire: the load and the increment are two steps. *)

AcquireLoad(h) ==
  /\ hold[h].pc = "idle"
  /\ hold' = [hold EXCEPT ![h] = [pc |-> "loaded", rev |-> current.rev]]
  /\ UNCHANGED <<disk, untold, populated, schedVars, queue, recVars, refs>>

AcquireCount(h) ==
  /\ hold[h].pc = "loaded"
  /\ refs' = [refs EXCEPT ![hold[h].rev] = @ + 1]
  /\ hold' = [hold EXCEPT ![h].pc = "held"]
  /\ UNCHANGED <<disk, untold, populated, schedVars, queue, recVars>>

\* The release callback, which may be called again.
Release(h) ==
  /\ hold[h].pc \in {"held", "released"}
  /\ refs' = [refs EXCEPT ![hold[h].rev] = IF hold[h].pc = "held" THEN @ - 1 ELSE @]
  /\ hold' = [hold EXCEPT ![h].pc = "released"]
  /\ UNCHANGED <<disk, untold, populated, schedVars, queue, recVars>>
-----------------------------------------------------------------------------
SyncStep(y) ==
  \/ SyncFails(y) \/ SyncStat(y) \/ SyncPull(y) \/ SyncPulled(y)
  \/ SyncPullFails(y) \/ SyncVerify(y) \/ SyncPublish(y) \/ SyncPublishFails(y)

RecomputeStep(r) ==
  \/ RecomputeLock(r) \/ ScanSource(r) \/ ScanFails(r) \/ ScanCancelled(r)
  \/ Swap(r) \/ PublishLock(r) \/ PublishShadow(r) \/ PublishUpdated(r)

Next ==
  \/ \E y \in Syncers : (\E s \in Sources : SyncLock(y, s)) \/ SyncStep(y)
  \/ \E s \in Sources, tree \in SUBSET Tools : Populate(s, tree)
  \/ \E r \in Recomputers : RecomputeCall(r) \/ RecomputeStep(r)
  \/ \E h \in Holders : AcquireLoad(h) \/ AcquireCount(h) \/ Release(h)

Spec == Init /\ [][Next]_vars

\* Goroutines inside a call keep running, and so does the bus worker; nothing
\* obliges anyone to call SyncOnce, Recompute, Acquire or Release.
FairSpec ==
  /\ Spec
  /\ \A y \in Syncers : WF_vars(SyncStep(y))
  /\ \A r \in Recomputers : WF_vars(RecomputeStep(r))
  /\ WF_vars(RecomputeCall("worker"))
-----------------------------------------------------------------------------
(* Properties *)

Snapshot ==
  [tools : [Tools -> 0 .. N], scan : [Sources -> SUBSET Tools], bad : SUBSET Sources]

\* Types, and the two mutexes held exactly by the recomputer inside them.
TypeOK ==
  /\ disk \in [Sources -> SUBSET Tools]
  /\ untold \subseteq Sources
  /\ populated \in 0 .. MaxPopulate
  /\ sync \in [Syncers -> [pc : {"idle", "locked", "pull", "verify", "publish", "done"},
                           src : 0 .. N, tree : SUBSET Tools]]
  /\ perSourceMu \in [Sources -> Syncers \cup {None}]
  /\ queue \in Seq(Sources)
  /\ rec \in [Recomputers ->
       [pc : {"idle", "lock", "scan", "swapped", "publish", "done"}, src : 0 .. N,
        next : 1 .. N + 1, rev : Nat, snap : Snapshot, shadows : SUBSET (Tools \X Sources)]]
  /\ \A r \in Recomputers : /\ rec[r].pc = "scan" <=> recomputeMu = r
                            /\ rec[r].pc = "publish" <=> publishMu = r
  /\ current \in [rev : Nat, snap : Snapshot]
  /\ retiring \subseteq 0 .. current.rev - 1
  /\ \A k \in DOMAIN refs : refs[k] \in Nat
  /\ published \in Seq([kind : {"shadowed", "updated"}, rev : Nat])

Queued == {queue[k] : k \in DOMAIN queue}

(* A successful sync is not lost: once its announcement has been dispatched,
   the current snapshot shows what is on disk, whatever other recomputes were
   under way when the directory changed (registry.go, Recompute: the scan is
   inside recomputeMu).  Sources whose announcement failed or whose recompute
   was cancelled or could not read them are excepted. *)
SyncedIsVisible ==
  rec["worker"].pc \notin {"lock", "scan"} =>
    \A s \in Sources \ (untold \cup Queued) : current.snap.scan[s] = disk[s]

(* What a sync announces is the tree its verifier accepted: nothing rewrites a
   git source's directory between the two (scheduler.go, SyncOnce: "would let a
   concurrent SyncOnce mutate the on-disk tree underneath the verifier"). *)
AnnouncedIsVerified ==
  \A y \in Syncers : sync[y].pc = "publish" /\ sync[y].src \in GitSources =>
    disk[sync[y].src] = sync[y].tree

(* The events of two revisions are not interleaved, and the shadows of a
   revision come before its update (registry.go, publishMu). *)
OneRevisionAtATime ==
  \A i, j \in DOMAIN published : i < j =>
    \/ published[i].rev # published[j].rev
       /\ \A k \in j .. Len(published) : published[k].rev # published[i].rev
    \/ published[i].rev = published[j].rev /\ published[i].kind = "shadowed"

(* The refcount of an entry, current or retired, is the number of holders that
   acquired it and have not released it, however often they release and even
   when the entry was replaced between the load and the increment. *)
RefsExact ==
  \A k \in DOMAIN refs :
    refs[k] = Cardinality({h \in Holders : hold[h].pc = "held" /\ hold[h].rev = k})

(* Recompute returns, whoever else syncs, scans or publishes. *)
RecomputeReturns ==
  \A r \in Recomputers : rec[r].pc = "lock" ~> rec[r].pc \in {"idle", "done"}

(* registry.go and scheduler.go together: a sync that was announced is in the
   snapshot readers load, what was announced is what was verified, the events
   of revisions do not interleave and retired entries are counted exactly. *)
SnapshotsAreSound ==
  TypeOK /\ SyncedIsVisible /\ AnnouncedIsVerified /\ OneRevisionAtATime /\ RefsExact
=============================================================================
