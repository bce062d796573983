----------------------------- MODULE ToolTrees ------------------------------
(***************************************************************************)
(* What operators do to the directory of one tool: install a local patch   *)
(* over it, roll it back, export it, propose it to another repository.     *)
(*   core/pkg/localpatch, core/pkg/hostedexport, core/pkg/toolshare        *)
(*                                                                         *)
(* Every call is a one-shot command, and two of them on one tool at a time *)
(* are left to the operator to avoid (localpatch/installer.go:335-341), so *)
(* they run one after another; but each of their file operations may fail, *)
(* or be the last before a crash, and the next command finds the disk as   *)
(* it was left.  A directory is the set of its files; a file is known by   *)
(* its name and the folder it came from.  Checks that refuse a request     *)
(* before anything is touched and depend on it alone are left out.         *)
(***************************************************************************)
EXTENDS Naturals, FiniteSets

CONSTANTS Folders,    \* folders an operator may install, or a pipeline fill in
          Contents,   \* the names of a folder's files
          VersionOf,  \* the version its manifest states
          Manifest,   \* the name manifest.json
          MaxOps, MaxFaults

Versions == {VersionOf[f] : f \in Folders}
Names == UNION {Contents[f] : f \in Folders}

ASSUME FoldersAssumption ==
  \A f \in Folders : Manifest \in Contents[f] /\ Contents[f] \subseteq Names

ASSUME BoundsAssumption == MaxOps \in Nat /\ MaxFaults \in Nat

VARIABLES
  kind,      \* kind of the tool's source
  live,      \* <DataDir>/tools/<source>/<tool>
  snap,      \* <DataDir>/_history/<source>/<tool>/<version>, per version
  dest,      \* destination of exports
  branch,    \* branch of the share in progress
  proposals, \* shares announced as proposed
  prs,       \* pull requests opened: <<share, files>>
  op,        \* the command in progress
  replaced,  \* versions whose whole tree was live and has been replaced
  torn,      \* versions a fault left a part of, with no whole snapshot
  ops, faults

vars == <<kind, live, snap, dest, branch, proposals, prs, op, replaced, torn,
          ops, faults>>

Absent == [dir |-> FALSE, files |-> {}]
Dir(files) == [dir |-> TRUE, files |-> files]

Tree(f) == Contents[f] \X {f}
Files == UNION {Tree(f) : f \in Folders}
Whole(files) == \E f \in Folders : files = Tree(f)

\* LoadManifestFromFile finds a manifest, and the version it states.
Decodable(files) == \E x \in files : x[1] = Manifest
Version(files) == VersionOf[(CHOOSE x \in files : x[1] = Manifest)[2]]

Idle == [pc |-> "idle", do |-> "none", src |-> {}, cur |-> {}, todo |-> {}]

Init ==
  /\ kind \in {"local", "hosted"}
  /\ live = Absent
  /\ snap = [v \in Versions |-> Absent]
  /\ dest = Absent
  /\ branch = {}
  /\ proposals = {}
  /\ prs = {}
  /\ op = Idle
  /\ replaced = {}
  /\ torn = {}
  /\ ops = 0
  /\ faults = 0

diskVars  == <<live, snap, replaced, torn>>
shareVars == <<branch, proposals, prs>>

Goto(pc) == op' = [op EXCEPT !.pc = pc]

\* A command starts; when its checks of the disk refuse it, it ends at once.
Start(do, ok, pc, src, cur) ==
  /\ op.pc = "idle"
  /\ ops < MaxOps
  /\ ops' = ops + 1
  /\ op' = IF ok THEN [Idle EXCEPT !.pc = pc, !.do = do, !.src = src, !.cur = cur] ELSE op
  /\ UNCHANGED <<kind, diskVars, dest, shareVars, faults>>

\* readLiveVersion: a directory without a readable manifest is refused.
Readable == live.dir => Decodable(live.files)

\* The version to snapshot before the live tree is replaced, if any.
Current == IF live.dir THEN {Version(live.files)} ELSE {}
-----------------------------------------------------------------------------
(* Installer.Install and Rollbacker.Rollback *)

Install(f) ==
  /\ kind = "local"
  /\ Start("install", Readable, "snapshot", Tree(f), IF Readable THEN Current ELSE {})

\* locateSnapshot, verifySnapshotManifest, readLiveVersion.  The live tree is
\* not snapshotted when it states the version rolled back to.
Rollback(v) ==
  /\ kind = "local"
  /\ Start("rollback",
           /\ snap[v].dir /\ Decodable(snap[v].files) /\ Version(snap[v].files) = v
           /\ Readable,
           "snapshot", snap[v].files,
           IF Readable THEN Current \ {v} ELSE {})

BugOverwrite ==   \* an existing snapshot is written again
  /\ op.pc = "snapshot"
  /\ IF op.cur = {}
     THEN Goto("remove") /\ snap' = snap
     ELSE \E v \in op.cur : /\ snap' = [snap EXCEPT ![v] = Dir(@.files)]
                            /\ op' = [op EXCEPT !.pc = "snapwrite", !.todo = live.files]
  /\ UNCHANGED <<kind, live, replaced, torn, dest, shareVars, ops, faults>>

\* The snapshot's directory is made unless there is one already, which is
\* taken for the snapshot.
snapshotIfPresent ==
  /\ op.pc = "snapshot"
  /\ IF \A v \in op.cur : snap[v].dir
     THEN Goto("remove") /\ snap' = snap
     ELSE \E v \in op.cur : /\ snap' = [snap EXCEPT ![v] = Dir({})]
                            /\ op' = [op EXCEPT !.pc = "snapwrite", !.todo = live.files]
  /\ UNCHANGED <<kind, live, replaced, torn, dest, shareVars, ops, faults>>

\* One file written over the one of its name.
Put(files, x) == {y \in files : y[1] # x[1]} \cup {x}

\* copyTree, which has read its source before it writes, in any order.
SnapshotFile ==
  /\ op.pc = "snapwrite"
  /\ \E x \in op.todo, v \in op.cur :
       /\ snap' = [snap EXCEPT ![v] = Dir(Put(@.files, x))]
       /\ op' = [op EXCEPT !.todo = @ \ {x},
                           !.pc = IF op.todo = {x} THEN "remove" ELSE @]
  /\ UNCHANGED <<kind, live, replaced, torn, dest, shareVars, ops, faults>>

BugNoRemove ==   \* the new files are written over the old ones
  /\ op.pc = "remove"
  /\ op' = [op EXCEPT !.pc = "livewrite", !.todo = op.src]
  /\ live' = Dir(live.files)
  /\ UNCHANGED <<kind, snap, replaced, torn, dest, shareVars, ops, faults>>

\* replaceLive: RemoveAll takes the files away one by one, then the directory.
RemoveAll ==
  /\ op.pc = "remove"
  /\ replaced' = IF Whole(live.files) THEN replaced \cup {Version(live.files)}
                                      ELSE replaced
  /\ IF live.files = {}
     THEN live' = Absent /\ Goto("mkdir")
     ELSE (\E x \in live.files : live' = Dir(live.files \ {x})) /\ op' = op
  /\ UNCHANGED <<kind, snap, torn, dest, shareVars, ops, faults>>

MkdirLive ==
  /\ op.pc = "mkdir"
  /\ live' = Dir({})
  /\ op' = [op EXCEPT !.pc = "livewrite", !.todo = op.src]
  /\ UNCHANGED <<kind, snap, replaced, torn, dest, shareVars, ops, faults>>

LiveFile ==
  /\ op.pc = "livewrite"
  /\ \E x \in op.todo :
       /\ live' = Dir(Put(live.files, x))
       /\ op' = [op EXCEPT !.todo = @ \ {x},
                           !.pc = IF op.todo = {x} THEN "publish" ELSE @]
  /\ UNCHANGED <<kind, snap, replaced, torn, dest, shareVars, ops, faults>>

\* local_patch_applied or hosted_tool_exported is published.
Publish ==
  /\ op.pc = "publish"
  /\ op' = Idle
  /\ UNCHANGED <<kind, diskVars, dest, shareVars, ops, faults>>
-----------------------------------------------------------------------------
(* Exporter.Export *)

\* The pipeline that fills hosted sources, between commands.
Fill(f) ==
  /\ kind = "hosted"
  /\ op.pc = "idle"
  /\ live.files # Tree(f)
  /\ live' = Dir(Tree(f))
  /\ UNCHANGED <<kind, snap, replaced, torn, dest, shareVars, op, ops, faults>>

\* The destination must be missing or empty; the digest is taken.
Export ==
  /\ kind = "hosted"
  /\ Start("export", Decodable(live.files) /\ dest.files = {},
           "destmkdir", live.files, {})

ExportMkdir ==
  /\ op.pc = "destmkdir"
  /\ dest' = Dir(dest.files)
  /\ op' = [op EXCEPT !.pc = "destwrite", !.todo = live.files]
  /\ UNCHANGED <<kind, diskVars, shareVars, ops, faults>>

ExportFile ==
  /\ op.pc = "destwrite"
  /\ \E x \in op.todo :
       /\ dest' = Dir(Put(dest.files, x))
       /\ op' = [op EXCEPT !.todo = @ \ {x},
                           !.pc = IF op.todo = {x} THEN "publish" ELSE @]
  /\ UNCHANGED <<kind, diskVars, shareVars, ops, faults>>
-----------------------------------------------------------------------------
(* Sharer.Share *)

\* The manifest is read and the files collected.
Share == Start("share", Decodable(live.files), "propose", live.files, {})

\* tool_share_proposed is published before anything is done on GitHub.
Propose ==
  /\ op.pc = "propose"
  /\ proposals' = proposals \cup {ops}
  /\ Goto("branch")
  /\ UNCHANGED <<kind, diskVars, dest, branch, prs, ops, faults>>

\* GetRef and CreateRef: a branch of its own for every share.
CreateBranch ==
  /\ op.pc = "branch"
  /\ branch' = {}
  /\ op' = [op EXCEPT !.pc = "branchwrite", !.todo = op.src]
  /\ UNCHANGED <<kind, diskVars, dest, proposals, prs, ops, faults>>

BranchFile ==
  /\ op.pc = "branchwrite"
  /\ \E x \in op.todo :
       /\ branch' = Put(branch, x)
       /\ op' = [op EXCEPT !.todo = @ \ {x},
                           !.pc = IF op.todo = {x} THEN "pr" ELSE @]
  /\ UNCHANGED <<kind, diskVars, dest, proposals, prs, ops, faults>>

OpenPR ==
  /\ op.pc = "pr"
  /\ prs' = prs \cup {<<ops, branch>>}
  /\ Goto("opened")
  /\ UNCHANGED <<kind, diskVars, dest, branch, proposals, ops, faults>>

\* tool_share_pr_opened is published and the lead told, as far as that works.
ShareDone ==
  /\ op.pc = "opened"
  /\ op' = Idle
  /\ UNCHANGED <<kind, diskVars, dest, shareVars, ops, faults>>
-----------------------------------------------------------------------------
\* What is incomplete if the command in progress ends here: the snapshot or the
\* live tree it is writing, unless a whole snapshot is there.
CutShort ==
  {v \in Versions : /\ ~Whole(snap[v].files)
                    /\ \/ op.pc = "snapwrite" /\ v \in op.cur
                       \/ op.pc = "livewrite" /\ v = Version(op.src)}

\* The next file operation, call or publish fails and the command returns, or
\* the process dies: what was done stays.
Fault ==
  /\ op.pc # "idle"
  /\ faults < MaxFaults
  /\ faults' = faults + 1
  /\ op' = Idle
  /\ torn' = torn \cup CutShort
  /\ UNCHANGED <<kind, live, snap, replaced, dest, shareVars, ops>>

Next ==
  \/ \E f \in Folders : Install(f) \/ Fill(f)
  \/ \E v \in Versions : Rollback(v)
  \/ snapshotIfPresent \/ SnapshotFile \/ RemoveAll \/ MkdirLive \/ LiveFile
  \/ Export \/ ExportMkdir \/ ExportFile \/ Publish
  \/ Share \/ Propose \/ CreateBranch \/ BranchFile \/ OpenPR \/ ShareDone
  \/ Fault

Spec == Init /\ [][Next]_vars
-----------------------------------------------------------------------------
(* Properties *)

Directory == [dir : BOOLEAN, files : SUBSET Files]

\* Types; a missing directory is empty and a directory never holds two files
\* of one name.
TypeOK ==
  /\ live \in Directory /\ snap \in [Versions -> Directory] /\ dest \in Directory
  /\ branch \subseteq Files
  /\ proposals \subseteq 1 .. MaxOps
  /\ prs \subseteq (1 .. MaxOps) \X SUBSET Files
  /\ op.src \subseteq Files /\ op.todo \subseteq Files /\ op.cur \subseteq Versions
  /\ replaced \subseteq Versions /\ torn \subseteq Versions
  /\ \A d \in {live, dest} \cup {snap[v] : v \in Versions} :
       /\ d.files # {} => d.dir
       /\ \A x, y \in d.files : x[1] = y[1] => x = y

(* What a command announces is what is there: when local_patch_applied or
   hosted_tool_exported is published, the live tree or the bundle is exactly
   the tree whose digest the event carries, and every pull request has exactly
   the files that were collected for it and was announced as proposed before it
   was opened, whatever earlier commands left behind (localpatch.replaceLive,
   hostedexport.assertDestinationEmpty, Sharer.Share). *)
AnnouncedIsThere ==
  /\ op.pc = "publish" =>
       op.src = IF op.do = "export" THEN dest.files ELSE live.files
  /\ op.pc = "opened" => <<ops, op.src>> \in prs
  /\ \A pr \in prs : pr[1] \in proposals

(* "the existing snapshot is preserved (NOT overwritten)" (localpatch,
   snapshotIfPresent): once whole, a snapshot never changes. *)
SnapshotIsFinal ==
  \A v \in Versions : Whole(snap[v].files) => snap'[v] = snap[v]

Kept(v) == Whole(snap[v].files) /\ Version(snap[v].files) = v

(* Every version that was live and has been replaced can be rolled back to,
   its snapshot is whole, except the versions of which a fault cut a copy
   short: a failed removal, a rollback that failed half way and the command
   run after either of them lose nothing (Installer.Install and
   Rollbacker.Rollback snapshot before they overwrite; replaceLive's comment on
   what an operator does after a crash). *)
ReplacedIsKept == \A v \in replaced \ torn : Kept(v)

(* localpatch: what was replaced can be rolled back to, and a whole snapshot
   is never written again, by installs and rollbacks that follow each other in
   any order and fail or crash at any file operation. *)
SnapshotsAreKept == []TypeOK /\ [][SnapshotIsFinal /\ ReplacedIsKept']_vars
=============================================================================
