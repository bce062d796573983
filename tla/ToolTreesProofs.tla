-------------------------- MODULE ToolTreesProofs --------------------------
(***************************************************************************)
(* What ToolTrees promises of a tool's directory, proved for any folders,  *)
(* any number of commands and any number of faults: type correctness, what *)
(* is announced is there, a whole snapshot is final, and what was replaced *)
(* can be rolled back to.                                                  *)
(*                                                                         *)
(* None of them is inductive.  Everything rests on two facts the code      *)
(* never states: whatever the order of commands and faults, a directory    *)
(* holds files of one folder only (TreesInv), so writing a file over the   *)
(* one of its name only ever adds a file; and what a copy has written and  *)
(* what it has still to write make up its source (CopyInv).                *)
(***************************************************************************)
EXTENDS ToolTrees, TLAPS

Pcs == {"idle", "snapshot", "snapwrite", "remove", "mkdir", "livewrite", "publish",
        "destmkdir", "destwrite", "propose", "branch", "branchwrite", "pr", "opened"}

Dos == {"none", "install", "rollback", "export", "share"}

Ops == [pc : Pcs, do : Dos, src : SUBSET Files, cur : SUBSET Versions, todo : SUBSET Files]

TypeInv ==
  /\ live \in Directory /\ snap \in [Versions -> Directory] /\ dest \in Directory
  /\ branch \subseteq Files
  /\ proposals \subseteq 1 .. MaxOps
  /\ prs \subseteq (1 .. MaxOps) \X SUBSET Files
  /\ op \in Ops
  /\ replaced \subseteq Versions /\ torn \subseteq Versions
  /\ ops \in 0 .. MaxOps /\ faults \in Nat
  /\ op.pc # "idle" => ops \in 1 .. MaxOps

(* Files of one folder, and so of different names. *)
OneTree(files) ==
  /\ files \subseteq Files
  /\ \A x, y \in files : x[2] = y[2]

TreesInv ==
  /\ OneTree(live.files) /\ (live.files # {} => live.dir)
  /\ OneTree(dest.files) /\ (dest.files # {} => dest.dir)
  /\ \A v \in Versions : OneTree(snap[v].files) /\ (snap[v].files # {} => snap[v].dir)
  /\ OneTree(op.src)

(* What a copy has written and what it has still to write are its source,  *)
(* and the source of a command is what it announces at its end.            *)
CopyInv ==
  /\ \A u, v \in op.cur : u = v
  /\ op.pc = "snapwrite" =>
       \A v \in op.cur : /\ snap[v].files \cup op.todo = live.files
                         /\ snap[v].files \cap op.todo = {}
  /\ op.pc \in {"snapshot", "snapwrite", "remove", "mkdir", "livewrite"} => op.do # "export"
  /\ op.pc = "livewrite" => live.files \cup op.todo = op.src
  /\ op.pc \in {"destmkdir", "destwrite"} => op.do = "export" /\ op.src = live.files
  /\ op.pc = "destmkdir" => dest.files = {}
  /\ op.pc = "destwrite" => dest.files \cup op.todo = op.src
  /\ op.pc = "branchwrite" => branch \cup op.todo = op.src
  /\ op.pc = "pr" => branch = op.src
  /\ op.pc \in {"branch", "branchwrite", "pr", "opened"} => ops \in proposals

IInv == TypeInv /\ TreesInv /\ CopyInv /\ AnnouncedIsThere
-----------------------------------------------------------------------------
(* Folders, trees and copies *)

LEMMA FilesOfAFolder ==
  ASSUME NEW x \in Files
  PROVE  x[2] \in Folders /\ x[1] \in Contents[x[2]] /\ x = <<x[1], x[2]>>
BY DEF Files, Tree

LEMMA TreeIsOne ==
  ASSUME NEW f \in Folders
  PROVE  OneTree(Tree(f)) /\ <<Manifest, f>> \in Tree(f)
BY FoldersAssumption DEF OneTree, Tree, Files

LEMMA SubTree ==
  ASSUME NEW S, NEW T, S \subseteq T, OneTree(T)
  PROVE  OneTree(S)
BY DEF OneTree

(* Writing a file over the one of its name adds it. *)
LEMMA PutAdds ==
  ASSUME NEW S, NEW x, NEW T, OneTree(T), S \subseteq T, x \in T
  PROVE  Put(S, x) = S \cup {x}
<1>1. ASSUME NEW y \in S, y[1] = x[1] PROVE y = x
  <2>1. x \in Files /\ y \in Files /\ y[2] = x[2]
    BY DEF OneTree
  <2> QED BY <2>1, <1>1, FilesOfAFolder
<1> QED BY <1>1 DEF Put

(* A tree that is whole is not a part of another. *)
LEMMA WholeIsMaximal ==
  ASSUME NEW S, NEW T, Whole(S), OneTree(T), S \subseteq T
  PROVE  S = T
<1>1. PICK f \in Folders : S = Tree(f)
  BY DEF Whole
<1>2. <<Manifest, f>> \in S
  BY <1>1, TreeIsOne
<1>3. ASSUME NEW x \in T PROVE x \in S
  <2>1. x \in Files /\ x[2] = f
    BY <1>2, <1>3 DEF OneTree
  <2> QED BY <2>1, <1>1, FilesOfAFolder DEF Tree
<1> QED BY <1>3

LEMMA WholeIsOne ==
  ASSUME NEW S, Whole(S)
  PROVE  OneTree(S) /\ Decodable(S) /\ S # {}
<1>1. PICK f \in Folders : S = Tree(f)
  BY DEF Whole
<1>2. OneTree(S) /\ <<Manifest, f>> \in S
  BY <1>1, TreeIsOne
<1> QED BY <1>2 DEF Decodable

LEMMA VersionIsVersion ==
  ASSUME NEW S, OneTree(S), Decodable(S)
  PROVE  Version(S) \in Versions
<1> DEFINE m == CHOOSE x \in S : x[1] = Manifest
<1>1. m \in S
  BY DEF Decodable
<1>2. m[2] \in Folders
  BY <1>1, FilesOfAFolder DEF OneTree
<1> QED BY <1>2 DEF Version, Versions

(* A part of a tree that states a version states the tree's. *)
LEMMA SameVersion ==
  ASSUME NEW S, NEW T, S \subseteq T, OneTree(T), Decodable(S)
  PROVE  Decodable(T) /\ Version(S) = Version(T)
<1> DEFINE m(R) == CHOOSE x \in R : x[1] = Manifest
<1>1. Decodable(T)
  BY DEF Decodable
<1>2. m(S) \in S /\ m(T) \in T
  BY <1>1 DEF Decodable
<1>3. m(S)[2] = m(T)[2]
  BY <1>2 DEF OneTree
<1> QED BY <1>1, <1>3 DEF Version

-----------------------------------------------------------------------------
(* The invariant *)

LEMMA InitIInv == Init => IInv
BY BoundsAssumption
   DEF Init, IInv, TypeInv, TreesInv, CopyInv, AnnouncedIsThere, OneTree, Absent, Idle,
       Directory, Pcs, Ops, Dos

(* A command that starts, or is refused, leaves the disk alone. *)
Begins(pc, do, src, cur) ==
  /\ op' = [pc |-> pc, do |-> do, src |-> src, cur |-> cur, todo |-> {}]
  /\ OneTree(src)
  /\ \A u, v \in cur : u = v
  /\ pc = "snapshot" => do # "export"
  /\ pc = "destmkdir" => do = "export" /\ src = live.files /\ dest.files = {}
Starts ==
  /\ op.pc = "idle"
  /\ \/ op' = op
     \/ \E pc \in {"snapshot", "destmkdir", "propose"}, do \in Dos,
           src \in SUBSET Files, cur \in SUBSET Versions : Begins(pc, do, src, cur)
  /\ ops' \in 1 .. MaxOps
  /\ UNCHANGED <<live, snap, dest, branch, proposals, prs, replaced, torn, faults>>

(* What Starts asks of a command, from its arguments to Start. *)
LEMMA StartIsStarts ==
  ASSUME IInv, NEW ok \in BOOLEAN,
         NEW do \in Dos, NEW pc \in {"snapshot", "destmkdir", "propose"}, NEW src, NEW cur,
         op' = IF ok THEN [Idle EXCEPT !.pc = pc, !.do = do, !.src = src, !.cur = cur]
                     ELSE op,
         op.pc = "idle", ops < MaxOps, ops' = ops + 1,
         UNCHANGED <<kind, diskVars, dest, shareVars, faults>>,
         ok => /\ OneTree(src)
               /\ cur \subseteq Versions /\ \A u, v \in cur : u = v
               /\ pc = "snapshot" => do # "export"
               /\ pc = "destmkdir" => do = "export" /\ src = live.files /\ dest.files = {}
  PROVE  Starts
<1>1. ops' \in 1 .. MaxOps
  BY BoundsAssumption DEF IInv, TypeInv
<1>2. CASE ok
  <2>1. op' = [pc |-> pc, do |-> do, src |-> src, cur |-> cur, todo |-> {}]
    BY <1>2 DEF Idle
  <2>2. src \in SUBSET Files /\ cur \in SUBSET Versions
    BY <1>2 DEF OneTree
  <2>3. /\ OneTree(src) /\ \A u, v \in cur : u = v
        /\ pc = "snapshot" => do # "export"
        /\ pc = "destmkdir" => do = "export" /\ src = live.files /\ dest.files = {}
    BY <1>2
  <2>4. Begins(pc, do, src, cur)
    BY <2>1, <2>3 DEF Begins
  <2>5. UNCHANGED <<live, snap, dest, branch, proposals, prs, replaced, torn, faults>>
    BY DEF diskVars, shareVars
  <2> QED BY <1>1, <2>2, <2>4, <2>5 DEF Starts
<1>3. CASE ~ok
  BY <1>1, <1>3 DEF Starts, Begins, diskVars, shareVars
<1> QED BY <1>2, <1>3

LEMMA CommandStarts ==
  ASSUME IInv,
         \/ \E f \in Folders : Install(f)
         \/ \E v \in Versions : Rollback(v)
         \/ Export
         \/ Share
  PROVE  Starts
<1> USE DEF Start
<1>1. Readable => Current \subseteq Versions /\ \A u, v \in Current : u = v
  BY VersionIsVersion DEF Readable, Current, TreesInv, IInv
<1>2. /\ OneTree(live.files)
      /\ \A v \in Versions : OneTree(snap[v].files)
      /\ snap \in [Versions -> Directory] /\ live \in Directory
  BY DEF IInv, TypeInv, TreesInv
<1>3. CASE \E f \in Folders : Install(f)
  <2>1. PICK f \in Folders : Install(f)
    BY <1>3
  <2> DEFINE cur == IF Readable THEN Current ELSE {}
  <2>2. /\ op' = IF Readable
                 THEN [Idle EXCEPT !.pc = "snapshot", !.do = "install",
                                   !.src = Tree(f), !.cur = cur]
                 ELSE op
        /\ op.pc = "idle" /\ ops < MaxOps /\ ops' = ops + 1
        /\ UNCHANGED <<kind, diskVars, dest, shareVars, faults>>
    BY <2>1 DEF Install
  <2>3. Readable \in BOOLEAN /\ OneTree(Tree(f))
    BY TreeIsOne, <1>2 DEF Readable, Decodable, Directory
  <2>4. cur \subseteq Versions /\ \A u, v \in cur : u = v
    BY <1>1
  <2> HIDE DEF cur
  <2> QED BY <2>2, <2>3, <2>4, StartIsStarts DEF Dos
<1>4. CASE \E v \in Versions : Rollback(v)
  <2>1. PICK v \in Versions : Rollback(v)
    BY <1>4
  <2> DEFINE ok == /\ snap[v].dir /\ Decodable(snap[v].files) /\ Version(snap[v].files) = v
                   /\ Readable
             cur == IF Readable THEN Current \ {v} ELSE {}
  <2>2. /\ op' = IF ok
                 THEN [Idle EXCEPT !.pc = "snapshot", !.do = "rollback",
                                   !.src = snap[v].files, !.cur = cur]
                 ELSE op
        /\ op.pc = "idle" /\ ops < MaxOps /\ ops' = ops + 1
        /\ UNCHANGED <<kind, diskVars, dest, shareVars, faults>>
    BY <2>1 DEF Rollback
  <2>3. ok \in BOOLEAN /\ OneTree(snap[v].files)
    BY <1>2 DEF Readable, Decodable, Directory
  <2>4. cur \subseteq Versions /\ \A u, w \in cur : u = w
    BY <1>1
  <2> HIDE DEF ok, cur
  <2> QED BY <2>2, <2>3, <2>4, StartIsStarts DEF Dos
<1>5. CASE Export
  <2> DEFINE ok == Decodable(live.files) /\ dest.files = {}
  <2>1. ok \in BOOLEAN
    BY DEF Decodable
  <2>2. /\ op' = IF ok
                 THEN [Idle EXCEPT !.pc = "destmkdir", !.do = "export",
                                   !.src = live.files, !.cur = {}]
                 ELSE op
        /\ op.pc = "idle" /\ ops < MaxOps /\ ops' = ops + 1
        /\ UNCHANGED <<kind, diskVars, dest, shareVars, faults>>
        /\ ok => dest.files = {}
    BY <1>5 DEF Export
  <2> HIDE DEF ok
  <2> QED BY <1>2, <2>1, <2>2, StartIsStarts DEF Dos
<1>6. CASE Share
  <2>1. Decodable(live.files) \in BOOLEAN
    BY DEF Decodable
  <2> QED BY <1>2, <1>6, <2>1, StartIsStarts DEF Share, Dos
<1> QED BY <1>3, <1>4, <1>5, <1>6

LEMMA StartStep == IInv /\ Starts => IInv'
<1> SUFFICES ASSUME IInv, Starts PROVE IInv'
  OBVIOUS
<1> USE BoundsAssumption DEF IInv
<1>1. UNCHANGED <<live, snap, dest, branch, proposals, prs, replaced, torn, faults>>
      /\ ops' \in 1 .. MaxOps /\ ops' \in 0 .. MaxOps
  BY DEF Starts, Begins
<1>2. CASE op' = op
  BY <1>1, <1>2 DEF Starts, Begins, TypeInv, TreesInv, CopyInv, AnnouncedIsThere
<1>3. CASE op' # op
  <2>1. PICK pc \in {"snapshot", "destmkdir", "propose"}, do \in Dos,
             src \in SUBSET Files, cur \in SUBSET Versions :
          /\ op' = [pc |-> pc, do |-> do, src |-> src, cur |-> cur, todo |-> {}]
          /\ OneTree(src)
          /\ \A u, v \in cur : u = v
          /\ pc = "snapshot" => do # "export"
          /\ pc = "destmkdir" => do = "export" /\ src = live.files /\ dest.files = {}
    BY <1>3 DEF Starts, Begins
  <2>2. TypeInv'
    BY <1>1, <2>1 DEF TypeInv, Pcs, Ops
  <2>3. TreesInv'
    BY <1>1, <2>1 DEF TreesInv
  <2>4. CopyInv' /\ AnnouncedIsThere'
    BY <1>1, <2>1 DEF CopyInv, AnnouncedIsThere
  <2> QED BY <2>2, <2>3, <2>4
<1> QED BY <1>2, <1>3

LEMMA InvStep == IInv /\ [Next]_vars => IInv'
<1> SUFFICES ASSUME IInv, [Next]_vars PROVE IInv'
  OBVIOUS
<1> USE DEF IInv
<1>1. CASE UNCHANGED vars
  BY <1>1 DEF vars, TypeInv, TreesInv, CopyInv, AnnouncedIsThere
<1>2. CASE \/ \E f \in Folders : Install(f)
           \/ \E v \in Versions : Rollback(v)
           \/ Export
           \/ Share
  BY <1>2, CommandStarts, StartStep
<1>3. ASSUME NEW f \in Folders, Fill(f) PROVE IInv'
  <2>1. OneTree(Tree(f)) /\ Tree(f) \subseteq Files
    BY TreeIsOne DEF OneTree
  <2> QED BY <1>3, <2>1 DEF Fill, TypeInv, TreesInv, CopyInv, AnnouncedIsThere, Directory,
                            Dir, shareVars
<1>5. CASE snapshotIfPresent
  <2>1. /\ op \in Ops
        /\ op.pc = "snapshot" /\ ops \in 1 .. MaxOps
        /\ UNCHANGED <<live, replaced, torn, dest, branch, proposals, prs, ops, faults>>
    BY <1>5 DEF snapshotIfPresent, TypeInv, shareVars
  <2>2. CASE \A v \in op.cur : snap[v].dir
    <3>1. snap' = snap /\ op' = [op EXCEPT !.pc = "remove"]
      BY <1>5, <2>2 DEF snapshotIfPresent, Goto
    <3> QED BY <2>1, <3>1 DEF TypeInv, TreesInv, CopyInv, AnnouncedIsThere, Pcs, Ops
  <2>3. CASE \E v \in op.cur : ~snap[v].dir
    <3>1. PICK v \in op.cur : /\ snap' = [snap EXCEPT ![v] = Dir({})]
                              /\ op' = [op EXCEPT !.pc = "snapwrite", !.todo = live.files]
      BY <1>5, <2>3 DEF snapshotIfPresent
    <3>2. v \in Versions /\ op.cur = {v} /\ live.files \subseteq Files
      BY <2>1 DEF CopyInv, TreesInv, OneTree, Ops
    <3>3. TypeInv'
      BY <2>1, <3>1, <3>2 DEF TypeInv, Directory, Dir, Pcs, Ops
    <3>4. TreesInv'
      BY <2>1, <3>1, <3>2 DEF TypeInv, TreesInv, OneTree, Dir
    <3>5. CopyInv' /\ AnnouncedIsThere'
      BY <2>1, <3>1, <3>2 DEF TypeInv, CopyInv, AnnouncedIsThere, Dir
    <3> QED BY <3>3, <3>4, <3>5
  <2> QED BY <2>2, <2>3
<1>6. CASE SnapshotFile
  <2>1. /\ op \in Ops
        /\ op.pc = "snapwrite" /\ ops \in 1 .. MaxOps
        /\ UNCHANGED <<live, replaced, torn, dest, branch, proposals, prs, ops, faults>>
    BY <1>6 DEF SnapshotFile, TypeInv, shareVars
  <2>2. PICK x \in op.todo, v \in op.cur :
          /\ snap' = [snap EXCEPT ![v] = Dir(Put(@.files, x))]
          /\ op' = [op EXCEPT !.todo = @ \ {x},
                              !.pc = IF op.todo = {x} THEN "remove" ELSE @]
    BY <1>6 DEF SnapshotFile
  <2>3. /\ v \in Versions /\ op.cur = {v}
        /\ snap[v].files \cup op.todo = live.files /\ snap[v].files \cap op.todo = {}
    BY <2>1 DEF CopyInv, Ops
  <2>4. Put(snap[v].files, x) = snap[v].files \cup {x}
    BY <2>3, PutAdds DEF TreesInv
  <2>5. snap' = [snap EXCEPT ![v] = Dir(snap[v].files \cup {x})]
    BY <2>2, <2>3, <2>4 DEF TypeInv
  <2>6. OneTree(snap[v].files \cup {x})
    BY <2>3, SubTree DEF TreesInv
  <2>7. TypeInv'
    <3>1. op' \in Ops
      BY <2>1, <2>2 DEF Ops, Pcs
    <3>2. snap' \in [Versions -> Directory]
      BY <2>5, <2>6 DEF TypeInv, Directory, Dir, OneTree
    <3> QED BY <2>1, <3>1, <3>2 DEF TypeInv
  <2>8. TreesInv'
    BY <2>1, <2>2, <2>3, <2>5, <2>6 DEF TypeInv, TreesInv, OneTree, Dir
  <2>9. CopyInv' /\ AnnouncedIsThere'
    BY <2>1, <2>2, <2>3, <2>5 DEF TypeInv, CopyInv, AnnouncedIsThere, Dir
  <2> QED BY <2>7, <2>8, <2>9
<1>7. CASE RemoveAll
  <2>1. /\ op \in Ops /\ op.pc = "remove" /\ ops \in 1 .. MaxOps
        /\ UNCHANGED <<snap, torn, dest, branch, proposals, prs, ops, faults>>
    BY <1>7 DEF RemoveAll, TypeInv, shareVars
  <2>2. replaced' \subseteq Versions
    <3>1. Whole(live.files) => Version(live.files) \in Versions
      BY WholeIsOne, VersionIsVersion
    <3> QED BY <1>7, <3>1 DEF RemoveAll, TypeInv
  <2>3. CASE live.files = {}
    <3>1. live' = Absent /\ op' = [op EXCEPT !.pc = "mkdir"]
      BY <1>7, <2>3 DEF RemoveAll, Goto
    <3>2. TypeInv' /\ TreesInv'
      BY <2>1, <2>2, <3>1 DEF TypeInv, TreesInv, Absent, Directory, OneTree, Ops, Pcs
    <3>3. CopyInv' /\ AnnouncedIsThere'
      BY <2>1, <3>1 DEF CopyInv, AnnouncedIsThere, Ops
    <3> QED BY <3>2, <3>3
  <2>4. CASE live.files # {}
    <3>1. PICK x \in live.files : live' = Dir(live.files \ {x})
      BY <1>7, <2>4 DEF RemoveAll
    <3>2. op' = op
      BY <1>7, <2>4 DEF RemoveAll
    <3>3. OneTree(live.files \ {x}) /\ live.files \ {x} \subseteq Files
      BY DEF TreesInv, OneTree
    <3>4. TypeInv' /\ TreesInv'
      BY <2>1, <2>2, <3>1, <3>2, <3>3 DEF TypeInv, TreesInv, Dir, Directory
    <3>5. CopyInv' /\ AnnouncedIsThere'
      BY <2>1, <3>1, <3>2 DEF CopyInv, AnnouncedIsThere
    <3> QED BY <3>4, <3>5
  <2> QED BY <2>3, <2>4
<1>8. CASE MkdirLive
  <2>1. /\ op \in Ops /\ op.pc = "mkdir" /\ ops \in 1 .. MaxOps
        /\ live' = Dir({}) /\ op' = [op EXCEPT !.pc = "livewrite", !.todo = op.src]
        /\ UNCHANGED <<snap, dest, branch, proposals, prs, replaced, torn, ops, faults>>
    BY <1>8 DEF MkdirLive, TypeInv, shareVars
  <2>2. op' \in Ops /\ op'.src = op.src
    BY <2>1 DEF Ops, Pcs
  <2>2a. TypeInv' /\ TreesInv'
    BY <2>1, <2>2 DEF TypeInv, TreesInv, Dir, Directory, OneTree
  <2>3. CopyInv' /\ AnnouncedIsThere'
    BY <2>1 DEF CopyInv, AnnouncedIsThere, Dir, Ops
  <2> QED BY <2>2a, <2>3
<1>9. CASE LiveFile
  <2>1. /\ op \in Ops /\ op.pc = "livewrite" /\ ops \in 1 .. MaxOps
        /\ UNCHANGED <<snap, dest, branch, proposals, prs, replaced, torn, ops, faults>>
    BY <1>9 DEF LiveFile, TypeInv, shareVars
  <2>2. PICK x \in op.todo :
          /\ live' = Dir(Put(live.files, x))
          /\ op' = [op EXCEPT !.todo = @ \ {x},
                              !.pc = IF op.todo = {x} THEN "publish" ELSE @]
    BY <1>9 DEF LiveFile
  <2>3. live.files \cup op.todo = op.src /\ OneTree(op.src)
    BY <2>1 DEF CopyInv, TreesInv
  <2>4. live' = Dir(live.files \cup {x}) /\ OneTree(live.files \cup {x})
    BY <2>2, <2>3, PutAdds, SubTree
  <2>5. op' \in Ops /\ op'.src = op.src
    BY <2>1, <2>2 DEF Ops, Pcs
  <2>6. TypeInv' /\ TreesInv'
    BY <2>1, <2>4, <2>5 DEF TypeInv, TreesInv, Dir, Directory, OneTree
  <2>7. CopyInv'
    BY <2>1, <2>2, <2>3, <2>4 DEF CopyInv, Dir, Ops
  <2>8. AnnouncedIsThere'
    <3>1. op.do # "export" /\ op'.do = op.do
      BY <2>1, <2>2 DEF CopyInv, Ops
    <3>2. op'.pc = "publish" => live'.files = op'.src
      <4>1. op'.pc = "publish" => op.todo = {x}
        BY <2>1, <2>2 DEF Ops
      <4>2. live'.files = live.files \cup {x}
        BY <2>4 DEF Dir
      <4> QED BY <2>3, <2>5, <4>1, <4>2
    <3>3. op'.pc # "opened"
      BY <2>1, <2>2 DEF Ops
    <3> QED BY <2>1, <3>1, <3>2, <3>3 DEF AnnouncedIsThere
  <2> QED BY <2>6, <2>7, <2>8
<1>10. CASE ExportMkdir
  <2>1. /\ op \in Ops /\ op.pc = "destmkdir" /\ ops \in 1 .. MaxOps
        /\ dest' = Dir(dest.files)
        /\ op' = [op EXCEPT !.pc = "destwrite", !.todo = live.files]
        /\ UNCHANGED <<live, snap, branch, proposals, prs, replaced, torn, ops, faults>>
    BY <1>10 DEF ExportMkdir, TypeInv, diskVars, shareVars
  <2>2. op' \in Ops /\ op'.src = op.src
    BY <2>1 DEF Ops, Pcs, TreesInv, OneTree
  <2>2a. TypeInv' /\ TreesInv'
    BY <2>1, <2>2 DEF TypeInv, TreesInv, Dir, Directory
  <2>3. CopyInv' /\ AnnouncedIsThere'
    BY <2>1 DEF CopyInv, AnnouncedIsThere, Dir, Ops
  <2> QED BY <2>2a, <2>3
<1>11. CASE ExportFile
  <2>1. /\ op \in Ops /\ op.pc = "destwrite" /\ ops \in 1 .. MaxOps
        /\ UNCHANGED <<live, snap, branch, proposals, prs, replaced, torn, ops, faults>>
    BY <1>11 DEF ExportFile, TypeInv, diskVars, shareVars
  <2>2. PICK x \in op.todo :
          /\ dest' = Dir(Put(dest.files, x))
          /\ op' = [op EXCEPT !.todo = @ \ {x},
                              !.pc = IF op.todo = {x} THEN "publish" ELSE @]
    BY <1>11 DEF ExportFile
  <2>3. dest.files \cup op.todo = op.src /\ OneTree(op.src) /\ op.do = "export"
    BY <2>1 DEF CopyInv, TreesInv
  <2>4. dest' = Dir(dest.files \cup {x}) /\ OneTree(dest.files \cup {x})
    BY <2>2, <2>3, PutAdds, SubTree
  <2>5. op' \in Ops /\ op'.src = op.src
    BY <2>1, <2>2 DEF Ops, Pcs
  <2>6. TypeInv' /\ TreesInv'
    BY <2>1, <2>4, <2>5 DEF TypeInv, TreesInv, Dir, Directory, OneTree
  <2>7. CopyInv' /\ AnnouncedIsThere'
    BY <2>1, <2>2, <2>3, <2>4 DEF CopyInv, AnnouncedIsThere, Dir, Ops
  <2> QED BY <2>6, <2>7
<1>12. CASE Publish \/ ShareDone \/ Fault
  <2>1. /\ op' = [pc |-> "idle", do |-> "none", src |-> {}, cur |-> {}, todo |-> {}]
        /\ UNCHANGED <<live, snap, dest, branch, proposals, prs, replaced, ops>>
        /\ faults' \in Nat /\ torn' \subseteq Versions
    BY <1>12 DEF Publish, ShareDone, Fault, CutShort, Idle, diskVars, shareVars, TypeInv
  <2>2. TypeInv' /\ TreesInv'
    BY <2>1 DEF TypeInv, TreesInv, OneTree, Ops, Pcs, Dos
  <2>3. CopyInv' /\ AnnouncedIsThere'
    BY <2>1 DEF CopyInv, AnnouncedIsThere
  <2> QED BY <2>2, <2>3
<1>13. CASE Propose \/ CreateBranch \/ OpenPR
  <2>1. /\ op \in Ops /\ ops \in 1 .. MaxOps
        /\ UNCHANGED <<live, snap, dest, replaced, torn, ops, faults>>
        /\ proposals' = proposals \cup (IF op.pc = "propose" THEN {ops} ELSE {})
    BY <1>13 DEF Propose, CreateBranch, OpenPR, diskVars, TypeInv
  <2>2. CASE Propose
    BY <2>1, <2>2 DEF Propose, Goto, TypeInv, TreesInv, CopyInv, AnnouncedIsThere, Ops, Pcs
  <2>3. CASE CreateBranch
    <3>1. TypeInv' /\ TreesInv'
      BY <2>1, <2>3 DEF CreateBranch, TypeInv, TreesInv, Ops, Pcs
    <3>2. CopyInv' /\ AnnouncedIsThere'
      BY <2>1, <2>3 DEF CreateBranch, CopyInv, AnnouncedIsThere, Ops
    <3> QED BY <3>1, <3>2
  <2>4. CASE OpenPR
    <3>1. TypeInv' /\ TreesInv'
      BY <2>1, <2>4 DEF OpenPR, Goto, TypeInv, TreesInv, Ops, Pcs
    <3>2. CopyInv' /\ AnnouncedIsThere'
      BY <2>1, <2>4 DEF OpenPR, Goto, CopyInv, AnnouncedIsThere, Ops
    <3> QED BY <3>1, <3>2
  <2> QED BY <1>13, <2>2, <2>3, <2>4
<1>14. CASE BranchFile
  <2>1. /\ op \in Ops /\ op.pc = "branchwrite" /\ ops \in 1 .. MaxOps
        /\ UNCHANGED <<live, snap, dest, proposals, prs, replaced, torn, ops, faults>>
    BY <1>14 DEF BranchFile, TypeInv, diskVars
  <2>2. PICK x \in op.todo :
          /\ branch' = Put(branch, x)
          /\ op' = [op EXCEPT !.todo = @ \ {x},
                              !.pc = IF op.todo = {x} THEN "pr" ELSE @]
    BY <1>14 DEF BranchFile
  <2>3. branch \cup op.todo = op.src /\ OneTree(op.src)
    BY <2>1 DEF CopyInv, TreesInv
  <2>4. branch' = branch \cup {x} /\ branch' \subseteq Files
    BY <2>2, <2>3, PutAdds DEF OneTree
  <2>5. op' \in Ops /\ op'.src = op.src
    BY <2>1, <2>2 DEF Ops, Pcs
  <2>6. TypeInv' /\ TreesInv'
    BY <2>1, <2>4, <2>5 DEF TypeInv, TreesInv
  <2>7. CopyInv' /\ AnnouncedIsThere'
    BY <2>1, <2>2, <2>3, <2>4 DEF CopyInv, AnnouncedIsThere, Ops
  <2> QED BY <2>6, <2>7
<1> QED
  BY <1>1, <1>2, <1>3, <1>5, <1>6, <1>7, <1>8, <1>9, <1>10, <1>11, <1>12, <1>13, <1>14
     DEF Next
-----------------------------------------------------------------------------
(* The theorems *)

LEMMA Invariance == Spec => []IInv
<1>1. IInv /\ [Next]_vars => IInv'
  BY InvStep
<1> QED BY InitIInv, <1>1, PTL DEF Spec

LEMMA IInvTypes == IInv => TypeOK
<1> SUFFICES ASSUME IInv PROVE TypeOK
  OBVIOUS
<1>1. ASSUME NEW d \in {live, dest} \cup {snap[v] : v \in Versions}
      PROVE  /\ d.files # {} => d.dir
             /\ \A x, y \in d.files : x[1] = y[1] => x = y
  <2>1. OneTree(d.files) /\ (d.files # {} => d.dir)
    BY DEF IInv, TreesInv
  <2> QED BY <2>1, FilesOfAFolder DEF OneTree
<1> QED BY <1>1 DEF IInv, TypeInv, Ops, TypeOK

(* Types: every directory holds files of known folders, a missing one none, *)
(* and none ever holds two files of one name, however commands and faults   *)
(* follow each other.                                                       *)
THEOREM TypeCorrect == Spec => []TypeOK
BY Invariance, IInvTypes, PTL

(* What a command announces is there: the tree published as applied or      *)
(* exported is exactly the one of its digest, a pull request has the files  *)
(* that were collected, and was announced as proposed before it was opened  *)
(* (localpatch.replaceLive, hostedexport.Export, Sharer.Share).             *)
THEOREM AnnouncedThere == Spec => []AnnouncedIsThere
<1>1. IInv => AnnouncedIsThere
  BY DEF IInv
<1> QED BY <1>1, Invariance, PTL
-----------------------------------------------------------------------------
(* Snapshots.  Of a version of which no fault has cut a copy short, a live  *)
(* tree and a snapshot are whole unless the command in progress is at work  *)
(* on them, a live tree about to be removed has its snapshot, and what has  *)
(* been replaced keeps it.                                                  *)
LocalPcs == {"snapshot", "snapwrite", "remove", "mkdir", "livewrite"}

States(files, v) == Decodable(files) /\ Version(files) = v

VersionInv(v) ==
  /\ op.pc \in LocalPcs /\ States(op.src, v) => Whole(op.src)
  /\ snap[v].dir => Kept(v) \/ (op.pc = "snapwrite" /\ v \in op.cur)
  /\ States(live.files, v) /\ op.pc # "livewrite" =>
       Kept(v) \/ (op.pc # "remove" /\ Whole(live.files))
  /\ v \in replaced => Kept(v)

CommandInv ==
  /\ op.pc \in LocalPcs => Decodable(op.src)
  /\ op.pc = "snapshot" =>
       /\ live.dir => /\ Decodable(live.files)
                      /\ Version(live.files) \in op.cur \/ snap[Version(live.files)].dir
       /\ \A v \in op.cur : live.dir /\ Version(live.files) = v
  /\ op.pc = "snapwrite" =>
       live.dir /\ Decodable(live.files) /\ op.cur = {Version(live.files)}

KeptInv == CommandInv /\ \A v \in Versions \ torn : VersionInv(v)

(* A snapshot that a step changes was not whole. *)
LEMMA FinalStep ==
  ASSUME IInv, [Next]_vars, NEW v \in Versions, Whole(snap[v].files)
  PROVE  snap'[v] = snap[v]
<1> USE DEF IInv
<1>1. CASE snapshotIfPresent
  <2>1. snap[v].dir
    BY WholeIsOne DEF TreesInv
  <2>2. CASE \A w \in op.cur : snap[w].dir
    BY <1>1, <2>2 DEF snapshotIfPresent
  <2>3. CASE \E w \in op.cur : ~snap[w].dir
    <3>1. PICK w \in op.cur : snap' = [snap EXCEPT ![w] = Dir({})]
      BY <1>1, <2>3 DEF snapshotIfPresent
    <3>2. w # v
      BY <2>1, <2>3 DEF CopyInv
    <3> QED BY <3>1, <3>2 DEF TypeInv
  <2> QED BY <2>2, <2>3
<1>2. CASE SnapshotFile
  <2>1. PICK x \in op.todo, w \in op.cur :
          snap' = [snap EXCEPT ![w] = Dir(Put(@.files, x))]
    BY <1>2 DEF SnapshotFile
  <2>2. ASSUME w = v PROVE FALSE
    <3>1. snap[v].files \cup op.todo = live.files /\ snap[v].files \cap op.todo = {}
      BY <1>2, <2>1, <2>2 DEF SnapshotFile, CopyInv
    <3>2. snap[v].files = live.files
      BY <3>1, WholeIsMaximal DEF TreesInv
    <3> QED BY <2>1, <3>1, <3>2
  <2> QED BY <2>1, <2>2 DEF TypeInv
<1>3. CASE ~snapshotIfPresent /\ ~SnapshotFile
  <2>1. snap' = snap
    BY <1>3 DEF Next, vars, diskVars, Install, Fill, Rollback, Start, RemoveAll, MkdirLive,
       LiveFile, Export, ExportMkdir, ExportFile, Publish, Share, Propose, CreateBranch,
       BranchFile, OpenPR, ShareDone, Fault
  <2> QED BY <2>1
<1> QED BY <1>1, <1>2, <1>3

LEMMA KeptStep == IInv /\ KeptInv /\ [Next]_vars => KeptInv'
<1> SUFFICES ASSUME IInv, KeptInv, [Next]_vars
             PROVE  KeptInv'
  OBVIOUS
<1>1. op \in Ops /\ snap \in [Versions -> Directory] /\ live \in Directory
  BY DEF IInv, TypeInv
<1>2. ASSUME NEW v \in Versions, Kept(v)
      PROVE  Kept(v)' /\ snap'[v] = snap[v]
  <2>1. snap'[v] = snap[v]
    BY <1>2, FinalStep DEF Kept
  <2> QED BY <1>2, <2>1 DEF Kept
<1>3. CommandInv /\ \A v \in Versions \ torn : VersionInv(v)
  BY DEF KeptInv
<1>4. OneTree(live.files) /\ OneTree(op.src) /\ \A v \in Versions : OneTree(snap[v].files)
  BY DEF IInv, TreesInv
<1>5. ASSUME UNCHANGED <<live, snap, replaced, torn>>,
             op.pc \notin LocalPcs, op'.pc \notin LocalPcs
      PROVE  KeptInv'
  BY <1>3, <1>5 DEF KeptInv, CommandInv, VersionInv, LocalPcs, Kept
<1>6. ASSUME UNCHANGED <<live, snap, replaced, torn>>, op.pc = "idle",
             \/ op' = op
             \/ /\ op'.pc = "snapshot"
                /\ Decodable(op'.src)
                /\ \A v \in Versions \ torn : States(op'.src, v) => Whole(op'.src)
                /\ Readable
                /\ \/ op'.cur = Current
                   \/ \E v \in Versions : snap[v].dir /\ op'.cur = Current \ {v}
      PROVE  KeptInv'
  <2>1. CASE op' = op
    BY <1>3, <1>6, <2>1 DEF KeptInv, CommandInv, VersionInv, Kept
  <2>2. CASE op' # op
    <3>1. CommandInv'
      BY <1>6, <2>2 DEF CommandInv, Readable, Current
    <3>2. ASSUME NEW v \in Versions \ torn PROVE VersionInv(v)'
      BY <1>3, <1>6, <2>2 DEF VersionInv, LocalPcs, Kept
    <3> QED BY <1>6, <3>1, <3>2 DEF KeptInv
  <2> QED BY <2>1, <2>2
<1>7. ASSUME NEW f \in Folders, Install(f) PROVE KeptInv'
  <2>1. UNCHANGED <<live, snap, replaced, torn>> /\ op.pc = "idle"
    BY <1>7 DEF Install, Start, diskVars
  <2>2. op' = op \/ /\ op' = [pc |-> "snapshot", do |-> "install", src |-> Tree(f),
                               cur |-> Current, todo |-> {}]
                    /\ Readable
    BY <1>7 DEF Install, Start, Idle
  <2>3. Whole(Tree(f)) /\ Decodable(Tree(f))
    BY WholeIsOne DEF Whole
  <2> QED BY <1>6, <2>1, <2>2, <2>3
<1>8. ASSUME NEW v \in Versions, Rollback(v) PROVE KeptInv'
  <2>1. UNCHANGED <<live, snap, replaced, torn>> /\ op.pc = "idle"
    BY <1>8 DEF Rollback, Start, diskVars
  <2>2. op' = op \/ /\ op' = [pc |-> "snapshot", do |-> "rollback", src |-> snap[v].files,
                               cur |-> Current \ {v}, todo |-> {}]
                    /\ Readable
                    /\ snap[v].dir /\ States(snap[v].files, v)
    BY <1>8 DEF Rollback, Start, Idle, States
  <2>3. ASSUME snap[v].dir, States(snap[v].files, v), NEW w \in Versions \ torn,
               States(snap[v].files, w)
        PROVE  Whole(snap[v].files)
    <3>1. w = v
      BY <2>3 DEF States
    <3> QED BY <1>3, <2>1, <2>3, <3>1 DEF VersionInv, Kept
  <2>4. CASE op' = op
    BY <1>6, <2>1, <2>4
  <2>5. CASE op' # op
    BY <1>6, <2>1, <2>2, <2>3, <2>5 DEF States
  <2> QED BY <2>4, <2>5
<1>9. ASSUME NEW f \in Folders, Fill(f) PROVE KeptInv'
  <2>1. /\ live' = Dir(Tree(f)) /\ op.pc = "idle"
        /\ UNCHANGED <<snap, replaced, torn, op>>
    BY <1>9 DEF Fill
  <2>2. Whole(live'.files)
    BY <2>1 DEF Whole, Dir
  <2> QED BY <1>3, <2>1, <2>2 DEF KeptInv, CommandInv, VersionInv, LocalPcs, Kept
<1>10. CASE \/ UNCHANGED vars
            \/ Export \/ ExportMkdir \/ ExportFile \/ Publish
            \/ Share \/ Propose \/ CreateBranch \/ BranchFile \/ OpenPR \/ ShareDone
  <2>1. UNCHANGED <<live, snap, replaced, torn>>
    BY <1>10 DEF vars, Export, ExportMkdir, ExportFile, Publish, Share, Start, Propose,
                CreateBranch, BranchFile, OpenPR, ShareDone, diskVars
  <2>2. op' = op \/ (op.pc \notin LocalPcs /\ op'.pc \notin LocalPcs)
    <3> USE <1>1 DEF Ops, LocalPcs
    <3>1. CASE UNCHANGED vars
      BY <3>1 DEF vars
    <3>2. CASE Export \/ Share
      <4>1. op.pc = "idle"
        BY <3>2 DEF Export, Share, Start
      <4>2. op' = op \/ op'.pc \in {"destmkdir", "propose"}
        BY <3>2 DEF Export, Share, Start, Idle
      <4> QED BY <4>1, <4>2
    <3>3. CASE ExportMkdir \/ ExportFile
      BY <3>3 DEF ExportMkdir, ExportFile
    <3>4. CASE Propose \/ CreateBranch \/ BranchFile \/ OpenPR
      BY <3>4 DEF Propose, CreateBranch, BranchFile, OpenPR, Goto
    <3>5. CASE Publish \/ ShareDone
      BY <3>5 DEF Publish, ShareDone, Idle
    <3> QED BY <1>10, <3>1, <3>2, <3>3, <3>4, <3>5
  <2>3. CASE op' = op
    BY <1>3, <2>1, <2>3 DEF KeptInv, CommandInv, VersionInv, Kept
  <2> QED BY <1>5, <2>1, <2>2, <2>3
<1>11. CASE snapshotIfPresent
  <2>1. op.pc = "snapshot" /\ UNCHANGED <<live, replaced, torn>>
    BY <1>11 DEF snapshotIfPresent
  <2>2. CASE \A v \in op.cur : snap[v].dir
    <3>1. snap' = snap /\ op'.pc = "remove" /\ op'.src = op.src
      BY <1>1, <1>11, <2>2 DEF snapshotIfPresent, Goto, Ops
    <3>2. CommandInv'
      BY <1>3, <2>1, <3>1 DEF CommandInv, LocalPcs
    <3>3. ASSUME NEW v \in Versions \ torn PROVE VersionInv(v)'
      <4>1. States(live.files, v) => snap[v].dir
        <5>1. States(live.files, v) => live.dir
          BY DEF States, Decodable, IInv, TreesInv
        <5> QED BY <1>3, <2>1, <2>2, <5>1 DEF CommandInv, States
      <4>2. States(live.files, v) => Kept(v)
        BY <1>3, <2>1, <4>1 DEF VersionInv
      <4> QED BY <1>3, <2>1, <3>1, <4>2 DEF VersionInv, LocalPcs, Kept
    <3> QED BY <2>1, <3>2, <3>3 DEF KeptInv
  <2>3. CASE \E v \in op.cur : ~snap[v].dir
    <3>1. PICK v \in op.cur : /\ snap' = [snap EXCEPT ![v] = Dir({})]
                              /\ op' = [op EXCEPT !.pc = "snapwrite", !.todo = live.files]
      BY <1>11, <2>3 DEF snapshotIfPresent
    <3>2. /\ v \in Versions /\ live.dir /\ Version(live.files) = v /\ op.cur = {v}
          /\ Decodable(live.files)
      BY <1>1, <1>3, <2>1 DEF CommandInv, Ops
    <3>3. op'.pc = "snapwrite" /\ op'.cur = {v} /\ op'.src = op.src
      BY <1>1, <3>1, <3>2 DEF Ops
    <3>4. CommandInv'
      BY <1>3, <2>1, <3>2, <3>3 DEF CommandInv, LocalPcs
    <3>5. ASSUME NEW w \in Versions \ torn PROVE VersionInv(w)'
      <4>1. Kept(w) => Kept(w)'
        BY <1>2
      <4>2. w # v => snap'[w] = snap[w]
        BY <1>1, <3>1
      <4> QED BY <1>3, <2>1, <3>3, <4>1, <4>2 DEF VersionInv, LocalPcs
    <3> QED BY <2>1, <3>4, <3>5 DEF KeptInv
  <2> QED BY <2>2, <2>3
<1>12. CASE SnapshotFile
  <2>1. PICK x \in op.todo, v \in op.cur :
          /\ snap' = [snap EXCEPT ![v] = Dir(Put(@.files, x))]
          /\ op' = [op EXCEPT !.todo = @ \ {x},
                              !.pc = IF op.todo = {x} THEN "remove" ELSE @]
    BY <1>12 DEF SnapshotFile
  <2>2. op.pc = "snapwrite" /\ UNCHANGED <<live, replaced, torn>>
    BY <1>12 DEF SnapshotFile
  <2>3. /\ v \in Versions /\ op.cur = {v} /\ live.dir /\ v = Version(live.files)
        /\ Decodable(live.files)
    BY <1>1, <1>3, <2>1, <2>2 DEF CommandInv, Ops
  <2>4. /\ snap[v].files \cup op.todo = live.files
        /\ snap[v].files \cap op.todo = {}
    BY <2>1, <2>2 DEF IInv, CopyInv
  <2>5. /\ snap'[v] = Dir(snap[v].files \cup {x})
        /\ \A w \in Versions : w # v => snap'[w] = snap[w]
    BY <1>1, <1>4, <2>1, <2>3, <2>4, PutAdds
  <2>6. op'.cur = op.cur /\ op'.src = op.src /\ op'.pc \in {"snapwrite", "remove"}
    BY <1>1, <2>1, <2>2 DEF Ops
  <2>7. v \notin torn => Whole(live.files)
    <3>1. ~Kept(v)
      BY <1>4, <2>1, <2>4, WholeIsMaximal DEF Kept
    <3> QED BY <1>3, <2>2, <2>3, <3>1 DEF VersionInv, States
  <2>8. CommandInv'
    BY <1>3, <2>2, <2>6 DEF CommandInv, LocalPcs
  <2>9. ASSUME NEW w \in Versions \ torn PROVE VersionInv(w)'
    <3>1. Kept(w) => Kept(w)'
      BY <1>2
    <3>2. CASE w # v
      <4>1. ~States(live.files, w)
        BY <2>3, <3>2 DEF States
      <4> QED BY <1>3, <2>2, <2>3, <2>5, <2>6, <3>1, <3>2, <4>1 DEF VersionInv, LocalPcs
    <3>3. CASE w = v /\ op'.pc = "snapwrite"
      BY <1>3, <2>2, <2>3, <2>6, <2>7, <3>1, <3>3 DEF VersionInv, LocalPcs
    <3>4. CASE w = v /\ op'.pc = "remove"
      <4>1. op.todo = {x}
        BY <1>1, <2>1, <2>2, <3>4 DEF Ops
      <4>2. snap'[v].files = live.files
        BY <2>4, <2>5, <4>1 DEF Dir
      <4>3. Kept(v)'
        BY <2>3, <2>7, <3>4, <4>2 DEF Kept
      <4> QED BY <1>3, <2>2, <2>6, <3>4, <4>3 DEF VersionInv, LocalPcs
    <3> QED BY <2>6, <3>2, <3>3, <3>4
  <2> QED BY <2>2, <2>8, <2>9 DEF KeptInv
<1>13. CASE RemoveAll
  <2>1. op.pc = "remove" /\ UNCHANGED <<snap, torn>>
    BY <1>13 DEF RemoveAll
  <2>2. live'.files \subseteq live.files
    BY <1>13 DEF RemoveAll, Absent, Dir
  <2>3. /\ op'.pc \in {"remove", "mkdir"} /\ op'.src = op.src
        /\ op'.pc = "mkdir" => live'.files = {}
    BY <1>1, <1>13, <2>1 DEF RemoveAll, Goto, Ops, Absent
  <2>4. CommandInv'
    BY <1>3, <2>1, <2>3 DEF CommandInv, LocalPcs
  <2>5. ASSUME NEW v \in Versions \ torn PROVE VersionInv(v)'
    <3>1. States(live'.files, v) => States(live.files, v)
      BY <1>4, <2>2, SameVersion DEF States
    <3>2. States(live.files, v) => Kept(v)
      BY <1>3, <2>1, <2>5 DEF VersionInv
    <3>3. Kept(v) => Kept(v)'
      BY <1>2
    <3>4. v \in replaced' => Kept(v)
      <4>1. CASE v \in replaced
        BY <1>3, <4>1 DEF VersionInv
      <4>2. CASE Whole(live.files) /\ v = Version(live.files)
        BY <3>2, <4>2, WholeIsOne DEF States
      <4> QED BY <1>13, <4>1, <4>2 DEF RemoveAll
    <3> QED BY <1>3, <2>1, <2>3, <3>1, <3>2, <3>3, <3>4 DEF VersionInv, LocalPcs
  <2> QED BY <2>1, <2>4, <2>5 DEF KeptInv
<1>14. CASE MkdirLive
  <2>1. /\ op.pc = "mkdir" /\ op'.pc = "livewrite" /\ op'.src = op.src
        /\ UNCHANGED <<snap, replaced, torn>>
    BY <1>1, <1>14 DEF MkdirLive, Ops
  <2> QED BY <1>3, <2>1 DEF KeptInv, CommandInv, VersionInv, LocalPcs, Kept
<1>15. CASE LiveFile
  <2>1. /\ op.pc = "livewrite" /\ op'.pc \in {"livewrite", "publish"} /\ op'.src = op.src
        /\ op'.do = op.do
        /\ UNCHANGED <<snap, replaced, torn>>
    BY <1>1, <1>15 DEF LiveFile, Ops
  <2>2. op'.pc = "publish" => live'.files = op.src
    <3>1. AnnouncedIsThere' /\ op.do # "export"
      BY <2>1, InvStep DEF IInv, CopyInv
    <3> QED BY <2>1, <3>1 DEF AnnouncedIsThere
  <2> QED BY <1>3, <2>1, <2>2 DEF KeptInv, CommandInv, VersionInv, LocalPcs, Kept
<1>16. CASE Fault
  <2>1. /\ op'.pc = "idle" /\ torn' = torn \cup CutShort
        /\ UNCHANGED <<live, snap, replaced>>
    BY <1>16 DEF Fault, Idle
  <2>2. ASSUME NEW v \in Versions \ torn' PROVE VersionInv(v)'
    <3>1. v \notin torn /\ v \notin CutShort /\ VersionInv(v)
      BY <1>3, <2>1
    <3>2. snap[v].dir => Kept(v)
      <4>1. CASE op.pc = "snapwrite" /\ v \in op.cur
        <5>1. Whole(snap[v].files)
          BY <3>1, <4>1 DEF CutShort
        <5>2. snap[v].files = live.files
          BY <1>4, <4>1, <5>1, WholeIsMaximal DEF IInv, CopyInv
        <5> QED BY <1>3, <4>1, <5>1, <5>2 DEF CommandInv, Kept
      <4> QED BY <3>1, <4>1 DEF VersionInv
    <3>3. States(live.files, v) => Kept(v) \/ Whole(live.files)
      <4>1. CASE op.pc = "livewrite" /\ States(live.files, v)
        <5>1. v = Version(op.src)
          BY <1>4, <4>1, SameVersion DEF IInv, CopyInv, States
        <5>2. Whole(snap[v].files)
          BY <3>1, <4>1, <5>1 DEF CutShort
        <5>3. snap[v].dir
          BY <5>2, WholeIsOne DEF IInv, TreesInv
        <5> QED BY <3>2, <5>3
      <4> QED BY <3>1, <4>1 DEF VersionInv
    <3> QED BY <2>1, <3>1, <3>2, <3>3 DEF VersionInv, LocalPcs, Kept
  <2>3. CommandInv'
    BY <2>1 DEF CommandInv, LocalPcs
  <2> QED BY <2>2, <2>3 DEF KeptInv
<1> QED
  BY <1>7, <1>8, <1>9, <1>10, <1>11, <1>12, <1>13, <1>14, <1>15, <1>16 DEF Next

LEMMA KeptInvKeeps == IInv /\ KeptInv => ReplacedIsKept
BY DEF IInv, TypeInv, KeptInv, VersionInv, ReplacedIsKept

(* The temporal property, and with it the one that says a snapshot is final: *)
(* whatever failed, a version that was replaced is lost only when the copy   *)
(* of its own snapshot or of its own live tree was cut short.                *)
THEOREM SnapshotsKept == Spec => SnapshotsAreKept
<1>1. Init => KeptInv
  BY DEF Init, KeptInv, CommandInv, VersionInv, States, Decodable, LocalPcs, Absent, Idle
<1>2. IInv /\ [Next]_vars => [SnapshotIsFinal]_vars
  BY FinalStep DEF SnapshotIsFinal
<1>3. IInv /\ KeptInv /\ [Next]_vars => KeptInv'
  BY KeptStep
<1> QED BY <1>1, <1>2, <1>3, Invariance, TypeCorrect, KeptInvKeeps, PTL
           DEF Spec, SnapshotsAreKept
=============================================================================
