--------------------------- MODULE NotebookProofs ---------------------------
(***************************************************************************)
(* The notebook proved for any number of goroutines, any calls, any rows   *)
(* and archives to start from, and any failures and crashes: the two       *)
(* tables stay in step, what callers were told of a file is so, a recall   *)
(* respects what it must leave out, and an archive with an address is      *)
(* whole.                                                                  *)
(*                                                                         *)
(* An import may put another file under the path at any time, so all of it *)
(* is said of each file: a call works on the file its handle has open      *)
(* (HandleOf); a transaction that is about to commit wrote what is in that *)
(* file now (WriterOf), because nobody else may write to it meanwhile      *)
(* (Apart); and ids are minted once (Old), so what was forgotten does not  *)
(* come back into the file.                                                *)
(***************************************************************************)
EXTENDS Notebook, TLAPS

Fields == {"pc", "job", "n", "at", "h", "view", "seen", "out", "gone", "flagged",
           "a", "p", "got", "name", "ticks"}
PerFile == {"kept", "undone", "gone", "flagged"}
ToldFields == PerFile \union {"torn", "uris", "clash"}

SlotShape(x) == x = [f \in Fields |-> x[f]]
IsSeq(q) == q \in Seq({q[i] : i \in DOMAIN q})
Busy(s) == ~Free(s)

(* The ids that a file holds. *)
Ids(f) == DOMAIN inode[f].entry

(* Tables in step. *)
Content(c) ==
  /\ c = [entry |-> c.entry, vec |-> c.vec]
  /\ c.entry \in [DOMAIN c.entry -> Rows] /\ DOMAIN c.entry = c.vec

(* An id that no call has yet to insert. *)
Minting(s) == slot[s].job.op = "remember" /\ slot[s].pc \in {"begin", "write", "commit"}
Old(i) ==
  /\ \A n \in (made + 1)..Len(Jobs) : i # NewId(n)
  /\ \A s \in Slots : Minting(s) => i # NewId(slot[s].n)

Fits(op, pc) ==
  \/ op \in TxOps /\ pc \in {"begin", "write", "commit", "audit"}
  \/ op = "forgetDM" /\ pc = "read"
  \/ op \in QueryOps /\ pc = "query"
  \/ op \in {"counts", "stats"} /\ pc = "query2"
  \/ op = "promote" /\ pc = "promoted"
  \/ op = "flag" /\ pc \in {"flagSelect", "flag"}
  \/ op = "archive" /\ pc = "arc"
  \/ op = "backup" /\ pc \in {"tick", "arc"}
  \/ op = "import" /\ pc \in {"fetch", "import", "sidecars", "rename", "imported"}
  \/ op = "supOpen" /\ pc = "supOpen"
  \/ op = "supClose" /\ pc \in {"supClose", "closing"}

CallOf(s) ==
  /\ slot[s].n \in 1..made /\ Fits(slot[s].job.op, slot[s].pc)
  /\ slot[s].job.op = "remember" => slot[s].job.row \in Rows

HandleOf(s) ==
  NeedsHandle(slot[s].job) \/ slot[s].pc \in {"import", "sidecars", "rename"} =>
    slot[s].h \in DOMAIN handle

WriterOf(s) ==
  /\ slot[s].pc = "commit" =>
       /\ slot[s].view = Written(s)
       /\ slot[s].job.op # "remember" => slot[s].job.id \in Ids(File(s))
  /\ slot[s].pc = "audit" =>
       \/ Target(s) \in told.undone[File(s)]
       \/ slot[s].job.op = "remember" /\ Target(s) \in Ids(File(s))

RecallOf(s) ==
  slot[s].job.op = "recall" /\ slot[s].pc = "query" =>
    \A i \in slot[s].gone \union slot[s].flagged :
      Old(i) /\ (i \in Ids(File(s)) => i \notin slot[s].gone /\ Tables(s).entry[i].review)

FlagOf(s) ==
  slot[s].pc = "flag" =>
    \A i \in slot[s].seen :
      Old(i) /\ (i \in Ids(File(s)) /\ i \notin slot[s].out => Tables(s).entry[i].review)

ArcOf(s) ==
  slot[s].pc = "arc" =>
    /\ slot[s].a = "ok" => slot[s].got = Chunks
    /\ slot[s].a \in {"stream", "ok"} =>
         Content(slot[s].view) /\ \A i \in DOMAIN slot[s].view.entry : Old(i)
    /\ slot[s].p \in {"fill", "ok"} =>
         /\ slot[s].a = "ok"
         /\ slot[s].name \notin told.clash =>
              /\ slot[s].name \in DOMAIN arch
              /\ arch[slot[s].name].by = slot[s].n /\ arch[slot[s].name].snap = slot[s].view
              /\ slot[s].p = "ok" => arch[slot[s].name].whole
              /\ slot[s].p = "fill" => \A u \in told.uris : u.name # slot[s].name

ImportOf(s) ==
  /\ slot[s].pc \in {"sidecars", "rename"} \/ (slot[s].pc = "import" /\ slot[s].a = "ok") =>
       Content(slot[s].view) /\ \A i \in DOMAIN slot[s].view.entry : Old(i)
  /\ slot[s].pc \in {"sidecars", "rename"} => slot[s].seen = {}

Own(s) ==
  /\ SlotShape(slot[s])
  /\ Busy(s) => /\ CallOf(s) /\ HandleOf(s) /\ WriterOf(s) /\ RecallOf(s)
                /\ FlagOf(s) /\ ArcOf(s) /\ ImportOf(s)
  /\ slot[s].pc = "done" /\ slot[s].job.op = "recall" =>
       slot[s].out \intersect (slot[s].gone \union slot[s].flagged) = {}

(* No two calls are about to commit to one file. *)
Sole(s) == \A r \in Slots \ {s} : slot[r].pc = "commit" => File(r) # File(s)

Apart ==
  /\ \A s, r \in Slots : s # r /\ Busy(s) /\ Busy(r) => slot[s].n # slot[r].n
  /\ \A s \in Slots : slot[s].pc = "commit" => Sole(s)

Files ==
  /\ IsSeq(inode) /\ path \in DOMAIN inode
  /\ \A f \in DOMAIN inode : Content(inode[f]) /\ \A i \in Ids(f) : Old(i)

Handles ==
  /\ IsSeq(handle) /\ dbs \in {0} \union DOMAIN handle
  /\ \A h \in DOMAIN handle :
       /\ handle[h] = [open |-> handle[h].open, file |-> handle[h].file, tx |-> handle[h].tx]
       /\ handle[h].file \in DOMAIN inode

Archive(z) ==
  /\ z = [whole |-> z.whole, schema |-> z.schema, full |-> z.full, snap |-> z.snap, by |-> z.by]
  /\ z.by # 0 \/ z.whole => z.full
  /\ z.schema => Content(z.snap)
  /\ \A i \in DOMAIN z.snap.entry : Old(i)

Archives ==
  /\ arch = [a \in DOMAIN arch |-> arch[a]]
  /\ \A a \in DOMAIN arch : Archive(arch[a])

(* What callers were told of a file. *)
Known(f) ==
  /\ told.kept[f] \subseteq Ids(f) /\ told.gone[f] \subseteq told.undone[f]
  /\ told.undone[f] \intersect Ids(f) = {}
  /\ \A i \in told.undone[f] \union told.flagged[f] : Old(i)
  /\ \A i \in told.flagged[f] \intersect Ids(f) : inode[f].entry[i].review

ToldShape(t) == t = [k \in ToldFields |-> t[k]] /\ \A k \in PerFile : IsSeq(t[k])
Addresses ==
  \A u \in told.uris : u.name \notin told.clash =>
    u.name \in DOMAIN arch /\ arch[u.name].whole /\ arch[u.name].snap = u.snap

Telling ==
  /\ ToldShape(told) /\ \A k \in PerFile : DOMAIN told[k] = DOMAIN inode
  /\ (\A f \in DOMAIN inode : Known(f)) /\ Addresses

IInv ==
  /\ slot = [s \in Slots |-> slot[s]] /\ made \in 0..Len(Jobs)
  /\ \A s \in Slots : Own(s)
  /\ Apart /\ Files /\ Handles /\ Archives /\ Telling
-----------------------------------------------------------------------------
(* Sequences and tables *)

LEMMA SeqAppend ==
  ASSUME NEW q, IsSeq(q), NEW e
  PROVE  /\ IsSeq(Append(q, e)) /\ Len(q) \in Nat /\ DOMAIN q = 1..Len(q)
         /\ DOMAIN Append(q, e) = 1..(Len(q) + 1) /\ Append(q, e)[Len(q) + 1] = e
         /\ \A i \in DOMAIN q : Append(q, e)[i] = q[i]
<1> DEFINE S == {q[i] : i \in DOMAIN q}
<1>1. q \in Seq(S) /\ Len(q) \in Nat /\ DOMAIN q = 1..Len(q)
  BY DEF IsSeq
<1>2. q \in Seq(S \union {e}) /\ Append(q, e) \in Seq(S \union {e})
  BY <1>1
<1>3. /\ Len(Append(q, e)) = Len(q) + 1 /\ Append(q, e)[Len(q) + 1] = e
      /\ DOMAIN Append(q, e) = 1..(Len(q) + 1) /\ \A i \in DOMAIN q : Append(q, e)[i] = q[i]
  BY <1>1, <1>2
<1>4. IsSeq(Append(q, e))
  BY <1>1, <1>2, <1>3 DEF IsSeq
<1> QED BY <1>1, <1>3, <1>4

LEMMA SeqExcept ==
  ASSUME NEW q, IsSeq(q), NEW e, NEW k
  PROVE  LET p == [q EXCEPT ![k] = e] IN
         /\ IsSeq(p) /\ DOMAIN p = DOMAIN q /\ (k \in DOMAIN q => p[k] = e)
         /\ \A i \in DOMAIN q : i # k => p[i] = q[i]
<1> DEFINE S == {q[i] : i \in DOMAIN q}  p == [q EXCEPT ![k] = e]
<1>1. q \in Seq(S) /\ Len(q) \in Nat /\ DOMAIN q = 1..Len(q)
  BY DEF IsSeq
<1>2. /\ p = [i \in DOMAIN q |-> p[i]] /\ DOMAIN p = DOMAIN q
      /\ (k \in DOMAIN q => p[k] = e) /\ \A i \in DOMAIN q : i # k => p[i] = q[i]
  OBVIOUS
<1> HIDE DEF p
<1> DEFINE T == {p[i] : i \in DOMAIN p}
<1>3. p \in [1..Len(q) -> T] /\ Len(q) \in Nat
  BY <1>1, <1>2
<1>4. p \in Seq(T)
  BY <1>3
<1> QED BY <1>2, <1>4 DEF IsSeq, p

LEMMA ForgetContent ==
  ASSUME NEW c, Content(c), NEW id
  PROVE  /\ Content(Forget(c, id)) /\ DOMAIN Forget(c, id).entry = DOMAIN c.entry \ {id}
         /\ \A i \in DOMAIN c.entry \ {id} : Forget(c, id).entry[i] = c.entry[i]
BY DEF Content, Forget, Restrict

LEMMA RememberContent ==
  ASSUME NEW c, Content(c), NEW id, NEW row \in Rows
  PROVE  /\ Content(Remember(c, id, row))
         /\ DOMAIN Remember(c, id, row).entry = DOMAIN c.entry \union {id}
         /\ \A i \in DOMAIN c.entry \ {id} : Remember(c, id, row).entry[i] = c.entry[i]
BY DEF Content, Remember, With

LEMMA ReviewContent ==
  ASSUME NEW c, Content(c), NEW id \in DOMAIN c.entry, NEW value \in BOOLEAN
  PROVE  LET d == setNeedsReview(c, id, value) IN
         /\ Content(d) /\ DOMAIN d.entry = DOMAIN c.entry
         /\ d.entry[id].review = value
         /\ \A i \in DOMAIN c.entry \ {id} : d.entry[i] = c.entry[i]
<1> DEFINE e == [c.entry EXCEPT ![id] = [c.entry[id] EXCEPT !.review = value]]
           d == setNeedsReview(c, id, value)
<1>1. c.entry[id] \in Rows /\ [c.entry[id] EXCEPT !.review = value] \in Rows
      /\ [c.entry[id] EXCEPT !.review = value].review = value
  BY DEF Content, Rows
<1>2. /\ e \in [DOMAIN c.entry -> Rows] /\ e[id].review = value
      /\ \A i \in DOMAIN c.entry \ {id} : e[i] = c.entry[i]
  BY <1>1 DEF Content
<1>3. d = [entry |-> e, vec |-> c.vec]
  BY DEF setNeedsReview, Content
<1> HIDE DEF e, d
<1>4. Content(d) /\ DOMAIN d.entry = DOMAIN c.entry /\ d.entry = e
  BY <1>2, <1>3 DEF Content
<1> QED BY <1>2, <1>4 DEF d
-----------------------------------------------------------------------------
(* One call's step and the others *)

LEMMA JobsLen == Len(Jobs) \in Nat /\ DOMAIN Jobs = 1..Len(Jobs)
BY JobsAssumption

LEMMA SlotOf ==
  ASSUME IInv, NEW s \in Slots
  PROVE  /\ slot = [r \in Slots |-> slot[r]] /\ slot[s] = [f \in Fields |-> slot[s][f]]
         /\ made \in Nat /\ Len(Jobs) \in Nat /\ made <= Len(Jobs)
BY JobsLen DEF IInv, Own, SlotShape

LEMMA HandleIs ==
  ASSUME IInv, NEW s \in Slots, slot[s].h \in DOMAIN handle
  PROVE  /\ File(s) \in DOMAIN inode /\ Tables(s) = inode[File(s)] /\ Content(Tables(s))
         /\ WorksOn(s, File(s)) /\ Known(File(s)) /\ \A i \in Ids(File(s)) : Old(i)
<1>1. File(s) \in DOMAIN inode /\ IsSeq(handle)
  BY DEF IInv, Handles, File
<1>2. slot[s].h # 0
  BY <1>1, SeqAppend
<1> QED BY <1>1, <1>2 DEF IInv, Files, Telling, Tables, WorksOn

LEMMA FileOf ==
  ASSUME IInv, NEW s \in Slots, Busy(s), NeedsHandle(slot[s].job)
  PROVE  /\ slot[s].h \in DOMAIN handle /\ File(s) \in DOMAIN inode
         /\ Tables(s) = inode[File(s)] /\ Content(Tables(s))
         /\ WorksOn(s, File(s)) /\ Known(File(s)) /\ \A i \in Ids(File(s)) : Old(i)
<1>1. slot[s].h \in DOMAIN handle
  BY DEF IInv, Own, HandleOf
<1> QED BY <1>1, HandleIs

(* The others' calls are as they were, but for what they had seen flagged. *)
Frame(s) ==
  /\ slot' = [r \in Slots |-> slot'[r]]
  /\ \A r \in Slots \ {s} :
       /\ SlotShape(slot'[r])
       /\ \A f \in Fields \ {"flagged", "seen"} : slot'[r][f] = slot[r][f]
       /\ slot'[r].flagged \subseteq slot[r].flagged /\ slot'[r].seen \subseteq slot[r].seen

OldKept(s) ==
  \/ made' = made /\ (Minting(s)' => Minting(s) /\ slot'[s].n = slot[s].n)
  \/ made' = made + 1 /\ made < Len(Jobs) /\ (Minting(s)' => slot'[s].n = made + 1)

LEMMA OldStays ==
  ASSUME IInv, NEW s \in Slots, Frame(s), OldKept(s), NEW i, Old(i)
  PROVE  Old(i)'
<1>1. made \in Nat /\ Len(Jobs) \in Nat
  BY SlotOf
<1>2. \A n \in (made' + 1)..Len(Jobs) : i # NewId(n)
  BY <1>1 DEF OldKept, Old
<1>3. ASSUME NEW r \in Slots, Minting(r)' PROVE i # NewId(slot'[r].n)
  <2>1. CASE r # s
    <3>1. slot'[r].pc = slot[r].pc /\ slot'[r].job = slot[r].job /\ slot'[r].n = slot[r].n
      BY <2>1 DEF Frame, Fields
    <3> QED BY <1>3, <3>1 DEF Minting, Old
  <2>2. CASE r = s
    <3>1. CASE Minting(s) /\ slot'[s].n = slot[s].n
      BY <2>2, <3>1 DEF Old
    <3>2. CASE made < Len(Jobs) /\ (Minting(s)' => slot'[s].n = made + 1)
      BY <1>1, <1>3, <2>2, <3>2 DEF Old
    <3> QED BY <1>3, <2>2, <3>1, <3>2 DEF OldKept
  <2> QED BY <2>1, <2>2
<1> QED BY <1>2, <1>3 DEF Old

(* What a step of one call leaves of the files, the handles and the archives. *)
FileMild(s, f) ==
  /\ \A i \in Ids(f)' : i \in Ids(f) \/ (Minting(s) /\ i = NewId(slot[s].n))
  /\ Ids(f) \subseteq Ids(f)' \union told'.undone[f] /\ told.undone[f] \subseteq told'.undone[f]
  /\ \A i \in Ids(f) \intersect Ids(f)' : inode[f].entry[i].review =>
       \/ inode'[f].entry[i].review
       \/ \A r \in Slots \ {s} : WorksOn(r, f) => i \notin slot'[r].flagged \union slot'[r].seen
  /\ inode'[f] = inode[f] \/ \A r \in Slots \ {s} : slot[r].pc = "commit" => File(r) # f

FilesMild(s) == \A f \in DOMAIN inode : f \in DOMAIN inode' /\ FileMild(s, f)

HandlesMild == \A h \in DOMAIN handle : h \in DOMAIN handle' /\ handle'[h].file = handle[h].file

ArchivesMild(s) ==
  /\ told.clash \subseteq told'.clash
  /\ \A a \in DOMAIN arch : \/ a \in told'.clash
                            \/ Busy(s) /\ arch[a].by = slot[s].n
                            \/ a \in DOMAIN arch' /\ arch'[a] = arch[a]
  /\ \A u \in told'.uris : \/ u \in told.uris \/ u.name \in told.clash
                           \/ Busy(s) /\ u.name \in DOMAIN arch /\ arch[u.name].by = slot[s].n

LEMMA OthersKeep ==
  ASSUME IInv, NEW s \in Slots, Frame(s), OldKept(s), FilesMild(s), HandlesMild, ArchivesMild(s),
         made' >= made, NEW r \in Slots \ {s}
  PROVE  Own(r)'
<1>1. /\ slot'[r].pc = slot[r].pc /\ slot'[r].job = slot[r].job /\ slot'[r].n = slot[r].n
      /\ slot'[r].h = slot[r].h /\ slot'[r].view = slot[r].view /\ slot'[r].out = slot[r].out
      /\ slot'[r].gone = slot[r].gone /\ slot'[r].a = slot[r].a /\ slot'[r].p = slot[r].p
      /\ slot'[r].got = slot[r].got /\ slot'[r].name = slot[r].name
      /\ slot'[r].flagged \subseteq slot[r].flagged /\ slot'[r].seen \subseteq slot[r].seen
      /\ SlotShape(slot'[r])
  BY DEF Frame, Fields
<1>2. Busy(r)' <=> Busy(r)
  BY <1>1 DEF Busy, Free
<1>3. slot'[r].pc = "done" /\ slot'[r].job.op = "recall" =>
        slot'[r].out \intersect (slot'[r].gone \union slot'[r].flagged) = {}
  BY <1>1 DEF IInv, Own
<1>4. ASSUME Busy(r)
      PROVE  /\ CallOf(r)' /\ HandleOf(r)' /\ WriterOf(r)' /\ RecallOf(r)'
             /\ FlagOf(r)' /\ ArcOf(r)' /\ ImportOf(r)'
  <2>f. PICK f : f = File(r)
    OBVIOUS
  <2>1. /\ CallOf(r) /\ HandleOf(r) /\ WriterOf(r) /\ RecallOf(r) /\ FlagOf(r) /\ ArcOf(r)
        /\ ImportOf(r) /\ made \in Nat /\ Len(Jobs) \in Nat /\ made' \in Nat
    BY <1>4, SlotOf DEF IInv, Own, OldKept
  <2>2. CallOf(r)'
    BY <1>1, <2>1 DEF CallOf
  <2>3. HandleOf(r)'
    BY <1>1, <2>1 DEF HandleOf, HandlesMild, NeedsHandle
  <2>4. ASSUME NeedsHandle(slot[r].job)
        PROVE  /\ File(r)' = f /\ f \in DOMAIN inode /\ WorksOn(r, f) /\ FileMild(s, f)
               /\ Tables(r) = inode[f] /\ Tables(r)' = inode'[f]
    <3>1. slot[r].h \in DOMAIN handle /\ f \in DOMAIN inode /\ WorksOn(r, f) /\ Tables(r) = inode[f]
      BY <1>4, <2>4, <2>f, FileOf
    <3>2. File(r)' = f
      BY <1>1, <1>4, <2>4, <2>f, FileOf DEF File, HandlesMild
    <3> QED BY <3>1, <3>2 DEF FilesMild, Tables
  <2>5. WriterOf(r)'
    <3>1. CASE slot[r].pc = "commit"
      <4>1. NeedsHandle(slot[r].job)
        BY <2>1, <3>1 DEF CallOf, Fits, NeedsHandle, TxOps
      <4>2. inode'[f] = inode[f] /\ File(r)' = f /\ Tables(r)' = Tables(r)
        BY <2>4, <2>f, <3>1, <4>1 DEF FileMild
      <4>3. Written(r)' = Written(r) /\ Ids(File(r))' = Ids(File(r))
        BY <1>1, <2>f, <4>2 DEF Written, Ids
      <4> QED BY <1>1, <2>1, <3>1, <4>3 DEF WriterOf
    <3>2. CASE slot[r].pc = "audit"
      <4>1. Target(r)' = Target(r)
        BY <1>1 DEF Target
      <4>2. NeedsHandle(slot[r].job)
        BY <2>1, <3>2 DEF CallOf, Fits, NeedsHandle, TxOps
      <4>3. /\ told.undone[f] \subseteq told'.undone[f] /\ Ids(f) \subseteq Ids(f)' \union told'.undone[f]
            /\ File(r)' = f
        BY <2>4, <4>2 DEF FileMild
      <4>4. Ids(File(r))' = Ids(f)'
        BY <4>3 DEF Ids
      <4>5. Target(r) \in told.undone[f] \/ (slot[r].job.op = "remember" /\ Target(r) \in Ids(f))
        BY <2>1, <2>f, <3>2 DEF WriterOf
      <4> QED BY <1>1, <3>2, <4>1, <4>3, <4>4, <4>5 DEF WriterOf
    <3> QED BY <1>1, <3>1, <3>2 DEF WriterOf
  <2>6. ASSUME NeedsHandle(slot[r].job), NEW i, Old(i), i \in Ids(f)' PROVE i \in Ids(f)
    <3>1. Minting(s) => ~Old(NewId(slot[s].n))
      BY DEF Old
    <3> QED BY <2>4, <2>6, <3>1 DEF FileMild
  <2>7. \A i : Old(i) => Old(i)'
    BY OldStays
  <2>8. RecallOf(r)'
    <3> SUFFICES ASSUME slot[r].job.op = "recall", slot[r].pc = "query",
                        NEW i \in slot'[r].gone \union slot'[r].flagged
                 PROVE  Old(i)' /\ (i \in Ids(File(r))' =>
                                      i \notin slot'[r].gone /\ Tables(r)'.entry[i].review)
      BY <1>1 DEF RecallOf
    <3>1. i \in slot[r].gone \union slot[r].flagged
      BY <1>1
    <3>2. NeedsHandle(slot[r].job)
      BY DEF NeedsHandle
    <3>3. Old(i) /\ (i \in Ids(f) => i \notin slot[r].gone /\ inode[f].entry[i].review)
      BY <2>1, <2>4, <2>f, <3>1, <3>2 DEF RecallOf
    <3>4. Ids(File(r))' = Ids(f)' /\ Tables(r)' = inode'[f]
      BY <2>4, <3>2 DEF Ids
    <3>5. i \in Ids(f)' => i \in Ids(f) /\ i \in slot'[r].flagged /\ i \notin slot'[r].gone
      BY <1>1, <2>6, <3>2, <3>3
    <3>6. i \in Ids(f)' => inode'[f].entry[i].review
      BY <2>4, <3>2, <3>3, <3>5 DEF FileMild
    <3> QED BY <2>7, <3>3, <3>4, <3>5, <3>6
  <2>9. FlagOf(r)'
    <3> SUFFICES ASSUME slot[r].pc = "flag", NEW i \in slot'[r].seen
                 PROVE  Old(i)' /\ (i \in Ids(File(r))' /\ i \notin slot'[r].out =>
                                      Tables(r)'.entry[i].review)
      BY <1>1 DEF FlagOf
    <3>1. NeedsHandle(slot[r].job)
      BY <2>1 DEF CallOf, Fits, NeedsHandle, TxOps, QueryOps
    <3>2. Old(i) /\ (i \in Ids(f) /\ i \notin slot[r].out => inode[f].entry[i].review)
      BY <1>1, <2>1, <2>4, <2>f, <3>1 DEF FlagOf
    <3>3. Ids(File(r))' = Ids(f)' /\ Tables(r)' = inode'[f]
      BY <2>4, <3>1 DEF Ids
    <3>4. i \in Ids(f)' /\ i \notin slot[r].out => inode'[f].entry[i].review
      BY <2>4, <2>6, <3>1, <3>2 DEF FileMild
    <3> QED BY <1>1, <2>7, <3>2, <3>3, <3>4
  <2>10. ArcOf(r)'
    <3> SUFFICES ASSUME slot[r].pc = "arc" PROVE ArcOf(r)'
      BY <1>1 DEF ArcOf
    <3>1. Busy(s) => slot[r].n # slot[s].n
      BY <1>4 DEF IInv, Apart
    <3>2. ASSUME slot[r].p \in {"fill", "ok"}, slot[r].name \notin told'.clash
          PROVE  /\ slot[r].name \in DOMAIN arch'
                 /\ arch'[slot[r].name].by = slot[r].n /\ arch'[slot[r].name].snap = slot[r].view
                 /\ slot[r].p = "ok" => arch'[slot[r].name].whole
                 /\ slot[r].p = "fill" => \A u \in told'.uris : u.name # slot[r].name
      <4> DEFINE k == slot[r].name
      <4>1. /\ k \notin told.clash /\ k \in DOMAIN arch /\ arch[k].by = slot[r].n
            /\ arch[k].snap = slot[r].view /\ (slot[r].p = "ok" => arch[k].whole)
            /\ slot[r].p = "fill" => \A u \in told.uris : u.name # k
        BY <2>1, <3>2 DEF ArcOf, ArchivesMild
      <4>2. k \in DOMAIN arch' /\ arch'[k] = arch[k]
        BY <3>1, <3>2, <4>1 DEF ArchivesMild
      <4>3. slot[r].p = "fill" => \A u \in told'.uris : u.name # k
        BY <3>1, <4>1 DEF ArchivesMild
      <4> QED BY <4>1, <4>2, <4>3
    <3>3. /\ slot[r].a = "ok" => slot[r].got = Chunks
          /\ slot[r].a \in {"stream", "ok"} =>
               Content(slot[r].view) /\ \A i \in DOMAIN slot[r].view.entry : Old(i)'
          /\ slot[r].p \in {"fill", "ok"} => slot[r].a = "ok"
      BY <2>1, <2>7 DEF ArcOf
    <3> QED BY <1>1, <3>2, <3>3 DEF ArcOf
  <2>11. ImportOf(r)'
    BY <1>1, <2>1, <2>7 DEF ImportOf
  <2> QED BY <2>2, <2>3, <2>5, <2>8, <2>9, <2>10, <2>11
<1> QED BY <1>1, <1>2, <1>3, <1>4 DEF Own

LEMMA FilesStay ==
  ASSUME IInv, NEW s \in Slots, Frame(s), OldKept(s), UNCHANGED <<inode, path>>
  PROVE  Files'
<1>1. \A i : Old(i) => Old(i)'
  BY OldStays
<1> QED BY <1>1 DEF IInv, Files, Ids

LEMMA ArchivesStay ==
  ASSUME IInv, NEW s \in Slots, Frame(s), OldKept(s), UNCHANGED arch
  PROVE  Archives'
<1> SUFFICES ASSUME NEW a \in DOMAIN arch PROVE Archive(arch[a])'
  BY DEF IInv, Archives
<1>1. Archive(arch[a]) /\ arch' = arch
  BY DEF IInv, Archives
<1>2. \A i \in DOMAIN arch[a].snap.entry : Old(i)'
  BY <1>1, OldStays DEF Archive
<1> QED BY <1>1, <1>2 DEF Archive

(* What was told of a file, when neither has changed. *)
LEMMA KnownStays ==
  ASSUME IInv, \A i : Old(i) => Old(i)', NEW f \in DOMAIN inode, inode'[f] = inode[f],
         told'.kept[f] = told.kept[f], told'.undone[f] = told.undone[f],
         told'.gone[f] = told.gone[f], told'.flagged[f] = told.flagged[f]
  PROVE  Known(f)'
<1>1. Known(f) /\ Ids(f)' = Ids(f)
  BY DEF IInv, Telling, Ids
<1> QED BY <1>1 DEF Known

LEMMA TellingStays ==
  ASSUME IInv, NEW s \in Slots, Frame(s), OldKept(s), UNCHANGED <<inode, path, arch, told>>
  PROVE  Telling'
<1>1. \A i : Old(i) => Old(i)'
  BY OldStays
<1>2. \A f \in DOMAIN inode : Known(f)'
  BY <1>1, KnownStays
<1> QED BY <1>2 DEF IInv, Telling, Addresses

(* One file's entry in one of the tables of what was told. *)
NotedIn(k, f, v) == told' = [told EXCEPT ![k] = [told[k] EXCEPT ![f] = v]]

LEMMA ToldSet ==
  ASSUME IInv, NEW k \in PerFile, NEW f \in DOMAIN inode, NEW v, NotedIn(k, f, v)
  PROVE  /\ ToldShape(told') /\ told'[k][f] = v
         /\ \A j \in ToldFields \ {k} : told'[j] = told[j]
         /\ \A j \in PerFile : DOMAIN told'[j] = DOMAIN inode
         /\ \A j \in PerFile : \A g \in DOMAIN inode \ {f} : told'[j][g] = told[j][g]
<1> DEFINE q == [told[k] EXCEPT ![f] = v]
<1>1. /\ ToldShape(told) /\ IsSeq(told[k]) /\ \A j \in PerFile : DOMAIN told[j] = DOMAIN inode
  BY DEF IInv, Telling, ToldShape
<1>2. /\ IsSeq(q) /\ DOMAIN q = DOMAIN inode /\ q[f] = v
      /\ \A g \in DOMAIN inode \ {f} : q[g] = told[k][g]
  BY <1>1, SeqExcept
<1> HIDE DEF q
<1>3. told' = [told EXCEPT ![k] = q] /\ k \in ToldFields
  BY DEF q, ToldFields, NotedIn
<1>4. /\ told' = [j \in ToldFields |-> told'[j]] /\ told'[k] = q
      /\ \A j \in ToldFields \ {k} : told'[j] = told[j]
  BY <1>1, <1>3 DEF ToldShape
<1>5. ASSUME NEW j \in PerFile
      PROVE  /\ IsSeq(told'[j]) /\ DOMAIN told'[j] = DOMAIN inode
             /\ \A g \in DOMAIN inode \ {f} : told'[j][g] = told[j][g]
  <2>1. CASE j = k
    BY <1>2, <1>4, <2>1
  <2>2. CASE j # k
    BY <1>1, <1>4, <2>2 DEF ToldShape, ToldFields
  <2> QED BY <2>1, <2>2
<1> QED BY <1>2, <1>4, <1>5 DEF ToldShape

LEMMA HandlesStay ==
  ASSUME IInv, NEW k, NEW v, UNCHANGED dbs, DOMAIN inode' = DOMAIN inode,
         handle' = handle \/ handle' = [handle EXCEPT ![k].tx = v]
  PROVE  Handles' /\ HandlesMild
<1>1. Handles
  BY DEF IInv
<1>2. CASE handle' = handle
  BY <1>1, <1>2 DEF Handles, HandlesMild
<1>3. CASE handle' = [handle EXCEPT ![k].tx = v]
  <2> DEFINE e == [handle[k] EXCEPT !.tx = v]
  <2>1. handle' = [handle EXCEPT ![k] = e]
    BY <1>3
  <2>2. k \in DOMAIN handle => /\ e = [open |-> e.open, file |-> e.file, tx |-> e.tx]
                               /\ e.file = handle[k].file
    BY <1>1 DEF Handles
  <2> HIDE DEF e
  <2>3. /\ IsSeq(handle') /\ DOMAIN handle' = DOMAIN handle
        /\ k \in DOMAIN handle => handle'[k] = e
        /\ \A h \in DOMAIN handle : h # k => handle'[h] = handle[h]
    BY <1>1, <2>1, SeqExcept DEF Handles
  <2>4. ASSUME NEW h \in DOMAIN handle'
        PROVE  /\ handle'[h] = [open |-> handle'[h].open, file |-> handle'[h].file,
                                tx |-> handle'[h].tx]
               /\ handle'[h].file = handle[h].file /\ h \in DOMAIN handle
    BY <1>1, <2>2, <2>3 DEF Handles
  <2> QED BY <1>1, <2>3, <2>4 DEF Handles, HandlesMild
<1> QED BY <1>2, <1>3

(* A call's turn: it stays the same call, and commits only when nobody else does. *)
Turn(s) ==
  /\ made' = made
  /\ Busy(s)' =>
       /\ slot'[s].n = slot[s].n /\ slot'[s].job = slot[s].job
       /\ slot'[s].pc = "commit" =>
            Sole(s) /\ slot[s].h \in DOMAIN handle /\ slot'[s].h = slot[s].h
       /\ Minting(s)' => Minting(s)

LEMMA TurnIsOldKept == ASSUME NEW s \in Slots, Turn(s) PROVE OldKept(s)
BY DEF Turn, OldKept, Minting, Busy, Free

LEMMA StepRule ==
  ASSUME IInv, NEW s \in Slots, Busy(s), Turn(s), Frame(s), FilesMild(s), HandlesMild,
         ArchivesMild(s), Own(s)', Files', Handles', Archives', Telling'
  PROVE  IInv'
<1>1. OldKept(s) /\ made' = made /\ made \in Nat
  BY TurnIsOldKept, SlotOf DEF Turn
<1>2. \A r \in Slots \ {s} : Own(r)'
  <2>1. made' >= made
    BY <1>1
  <2> QED BY <1>1, <2>1, OthersKeep
<1>3. ASSUME NEW q \in Slots, Busy(q)'
      PROVE  Busy(q) /\ slot'[q].n = slot[q].n /\ slot'[q].job = slot[q].job
  BY <1>3 DEF Frame, Turn, Fields, Busy, Free
<1>4. ASSUME NEW q \in Slots, slot'[q].pc = "commit"
      PROVE  Sole(q) /\ File(q)' = File(q) /\ (q # s => slot[q].pc = "commit")
  <2>1. CASE q = s
    <3>1. Busy(s)'
      BY <1>4, <2>1 DEF Busy, Free
    <3> QED BY <1>4, <2>1, <3>1 DEF Turn, File, HandlesMild
  <2>2. CASE q # s
    <3>1. slot[q].pc = "commit" /\ slot'[q].h = slot[q].h
      BY <1>4, <2>2 DEF Frame, Fields
    <3>2. Busy(q)
      BY <3>1 DEF Busy, Free
    <3>3. slot[q].job.op \in TxOps
      BY <3>1, <3>2 DEF IInv, Own, CallOf, Fits
    <3>4. slot[q].h \in DOMAIN handle
      BY <3>2, <3>3, FileOf DEF NeedsHandle, TxOps
    <3> QED BY <3>1, <3>4 DEF IInv, Apart, File, HandlesMild
  <2> QED BY <2>1, <2>2
<1>5. Apart'
  <2>1. ASSUME NEW p \in Slots, NEW r \in Slots, p # r, Busy(p)', Busy(r)'
        PROVE  slot'[p].n # slot'[r].n
    BY <1>3, <2>1 DEF IInv, Apart
  <2>2. ASSUME NEW p \in Slots, slot'[p].pc = "commit", NEW r \in Slots \ {p}, slot'[r].pc = "commit"
        PROVE  File(r)' # File(p)'
    <3>1. CASE r # s
      BY <1>4, <2>2, <3>1 DEF Sole
    <3>2. CASE r = s
      BY <1>4, <2>2, <3>2 DEF Sole
    <3> QED BY <3>1, <3>2
  <2> QED BY <2>1, <2>2 DEF Apart, Sole
<1>6. slot' = [r \in Slots |-> slot'[r]] /\ made' \in 0..Len(Jobs)
  BY <1>1 DEF Frame, IInv
<1> QED BY <1>2, <1>5, <1>6 DEF IInv

LEMMA FrameOf ==
  ASSUME IInv, NEW s \in Slots, NEW x, slot' = [slot EXCEPT ![s] = x]
  PROVE  Frame(s) /\ slot'[s] = x
<1>1. slot' = [r \in Slots |-> slot'[r]] /\ slot'[s] = x
      /\ \A r \in Slots \ {s} : slot'[r] = slot[r]
  BY SlotOf
<1>2. \A r \in Slots \ {s} : SlotShape(slot[r])
  BY DEF IInv, Own
<1> QED BY <1>1, <1>2 DEF Frame, SlotShape

LEMMA FilesSame ==
  ASSUME NEW s \in Slots, UNCHANGED inode, told'.undone = told.undone
  PROVE  FilesMild(s)
BY DEF FilesMild, FileMild, Ids

LEMMA ArchivesSame ==
  ASSUME NEW s \in Slots, UNCHANGED arch, told'.clash = told.clash, told'.uris = told.uris
  PROVE  ArchivesMild(s)
BY DEF ArchivesMild

(* A step that touches only its own slot and its handle's connection. *)
LEMMA LocalRule ==
  ASSUME IInv, NEW s \in Slots, Busy(s), NEW x, slot' = [slot EXCEPT ![s] = x], Turn(s),
         UNCHANGED <<inode, path, dbs, arch, told>>, NEW v,
         handle' = handle \/ handle' = [handle EXCEPT ![slot[s].h].tx = v],
         Own(s)'
  PROVE  IInv'
<1>1. Frame(s) /\ OldKept(s)
  BY FrameOf, TurnIsOldKept
<1>2. Handles' /\ HandlesMild
  BY HandlesStay
<1>3. Files' /\ Archives' /\ Telling'
  BY <1>1, FilesStay, ArchivesStay, TellingStays
<1>4. FilesMild(s) /\ ArchivesMild(s)
  BY FilesSame, ArchivesSame
<1> QED BY <1>1, <1>2, <1>3, <1>4, StepRule

LEMMA EndedOwn ==
  ASSUME IInv, NEW s \in Slots, NEW out, slot'[s] = Ended(s, out),
         slot[s].job.op = "recall" =>
           out \intersect (slot[s].gone \union slot[s].flagged) = {}
  PROVE  Own(s)' /\ ~Busy(s)' /\ (made' = made => Turn(s))
<1> DEFINE x == Ended(s, out)
<1>1. /\ x = [f \in Fields |-> x[f]] /\ x.pc = "done" /\ x.out = out
      /\ x.job = slot[s].job /\ x.gone = slot[s].gone /\ x.flagged = slot[s].flagged
  BY ZenonT(30) DEF Ended, Idle, Fields
<1> HIDE DEF x
<1>2. slot'[s] = x
  BY DEF x
<1>3. ~Busy(s)'
  BY <1>1, <1>2 DEF Busy, Free
<1> QED BY <1>1, <1>2, <1>3 DEF Own, SlotShape, Turn

(* The call ends without having touched anything but its connection. *)
LEMMA EndRule ==
  ASSUME IInv, NEW s \in Slots, Busy(s), NEW out, End(s, out),
         UNCHANGED <<inode, path, dbs, arch, told, made>>,
         handle' = handle \/ Release(s),
         slot[s].job.op = "recall" =>
           out \intersect (slot[s].gone \union slot[s].flagged) = {}
  PROVE  IInv'
<1> DEFINE x == Ended(s, out)
<1>1. slot' = [slot EXCEPT ![s] = x]
  BY DEF End
<1>2. slot'[s] = x
  BY <1>1, FrameOf
<1>3. Own(s)' /\ Turn(s)
  BY <1>2, EndedOwn
<1> HIDE DEF x
<1> QED BY <1>1, <1>3, LocalRule DEF Release

(* The call goes on, on the handle it has. *)
LEMMA OnOwn ==
  ASSUME IInv, NEW s \in Slots, Busy(s), NeedsHandle(slot[s].job), NEW x, slot'[s] = x, SlotShape(x),
         x.n = slot[s].n, x.job = slot[s].job, x.h = slot[s].h,
         Fits(slot[s].job.op, x.pc), x.pc # "query", UNCHANGED made, HandlesMild,
         WriterOf(s)', FlagOf(s)', ArcOf(s)'
  PROVE  Own(s)' /\ Busy(s)'
<1>1. Busy(s)' /\ x.pc \notin {"idle", "done", "import", "sidecars", "rename"} /\ slot[s].job.op # "import"
  BY DEF Busy, Free, Fits, NeedsHandle, TxOps, QueryOps
<1>2. CallOf(s)'
  BY DEF IInv, Own, CallOf
<1>3. HandleOf(s)'
  <2>1. slot[s].h \in DOMAIN handle
    BY FileOf
  <2> QED BY <1>1, <2>1 DEF HandleOf, HandlesMild
<1>4. RecallOf(s)' /\ ImportOf(s)'
  BY <1>1 DEF RecallOf, ImportOf
<1> QED BY <1>1, <1>2, <1>3, <1>4 DEF Own, SlotShape

LEMMA LocalKeeps ==
  ASSUME IInv, NEW s \in Slots, Busy(s), NeedsHandle(slot[s].job),
         NEW x, slot' = [slot EXCEPT ![s] = x], SlotShape(x),
         x.n = slot[s].n, x.job = slot[s].job, x.h = slot[s].h,
         Fits(slot[s].job.op, x.pc), x.pc # "query",
         x.pc = "commit" => Sole(s),
         x.pc \in {"begin", "write", "commit"} /\ slot[s].job.op = "remember" => Minting(s),
         UNCHANGED <<inode, path, dbs, arch, told, made>>, NEW v,
         handle' = handle \/ handle' = [handle EXCEPT ![slot[s].h].tx = v],
         WriterOf(s)', FlagOf(s)', ArcOf(s)'
  PROVE  IInv'
<1>1. slot'[s] = x
  BY FrameOf
<1>2. HandlesMild
  BY HandlesStay
<1>3. Own(s)'
  BY <1>1, <1>2, OnOwn
<1>4. Turn(s)
  BY <1>1, FileOf DEF Turn, Minting
<1> QED BY <1>3, <1>4, LocalRule

(* The file's lock: nobody else is about to commit to it. *)
LEMMA UnlockedMeans ==
  ASSUME IInv, NEW s \in Slots, Unlocked(s)
  PROVE  Sole(s)
BY DEF Unlocked, Sole

LEMMA TxOpsNeed ==
  ASSUME IInv, NEW s \in Slots, slot[s].pc \in {"begin", "read", "write", "commit", "audit"}
  PROVE  Busy(s) /\ slot[s].job.op \in TxOps /\ NeedsHandle(slot[s].job)
<1>1. Busy(s)
  BY DEF Busy, Free
<1>2. slot[s].job.op \in TxOps
  BY <1>1 DEF IInv, Own, CallOf, Fits, TxOps
<1> QED BY <1>1, <1>2 DEF NeedsHandle, TxOps

LEMMA BeginTxKeeps ==
  ASSUME IInv, NEW s \in Slots, BeginTx(s)
  PROVE  IInv'
<1>1. /\ slot[s].pc = "begin" /\ UNCHANGED <<inode, path, dbs, arch, told, made>>
      /\ Busy(s) /\ slot[s].job.op \in TxOps /\ NeedsHandle(slot[s].job)
  BY TxOpsNeed DEF BeginTx
<1>2. CASE handle[slot[s].h].open
  <2> DEFINE pc == IF slot[s].job.op = "forgetDM" THEN "read" ELSE "write"
             x == [slot[s] EXCEPT !.pc = pc]
  <2>1. slot' = [slot EXCEPT ![s] = x] /\ handle' = [handle EXCEPT ![slot[s].h].tx = s]
    BY <1>2 DEF BeginTx
  <2>2. /\ SlotShape(x) /\ x.n = slot[s].n /\ x.job = slot[s].job /\ x.h = slot[s].h
        /\ x.pc = pc
    BY SlotOf DEF SlotShape, Fields
  <2> HIDE DEF x
  <2>3. slot'[s] = x
    BY <2>1, FrameOf
  <2>4. WriterOf(s)' /\ FlagOf(s)' /\ ArcOf(s)'
    BY <2>2, <2>3 DEF WriterOf, FlagOf, ArcOf
  <2>5. Minting(s) \/ slot[s].job.op # "remember"
    BY <1>1, <2>2 DEF Fits, Minting
  <2>6. Fits(slot[s].job.op, x.pc) /\ x.pc \in {"read", "write"}
    BY <1>1, <2>2 DEF Fits
  <2> QED BY <1>1, <2>1, <2>2, <2>4, <2>5, <2>6, LocalKeeps
<1>3. CASE ~handle[slot[s].h].open
  BY <1>1, <1>3, EndRule DEF BeginTx, TxOps
<1> QED BY <1>2, <1>3

LEMMA ReadInTxKeeps ==
  ASSUME IInv, NEW s \in Slots, ReadInTx(s)
  PROVE  IInv'
<1> DEFINE x == [slot[s] EXCEPT !.pc = "write", !.view = Tables(s)]
<1>1. /\ slot[s].pc = "read" /\ UNCHANGED <<inode, path, handle, dbs, arch, told, made>>
      /\ Busy(s) /\ slot[s].job.op \in TxOps /\ NeedsHandle(slot[s].job)
      /\ slot' = [slot EXCEPT ![s] = x]
  BY TxOpsNeed DEF ReadInTx
<1>2. /\ SlotShape(x) /\ x.n = slot[s].n /\ x.job = slot[s].job /\ x.h = slot[s].h
      /\ x.pc = "write"
  BY SlotOf DEF SlotShape, Fields
<1> HIDE DEF x
<1>3. slot'[s] = x
  BY <1>1, FrameOf
<1>4. WriterOf(s)' /\ FlagOf(s)' /\ ArcOf(s)'
  BY <1>2, <1>3 DEF WriterOf, FlagOf, ArcOf
<1>5. Fits(slot[s].job.op, x.pc)
  BY <1>1, <1>2 DEF Fits
<1>6. Minting(s) \/ slot[s].job.op # "remember"
  BY <1>1 DEF IInv, Own, CallOf, Fits, TxOps, QueryOps
<1> QED BY <1>1, <1>2, <1>4, <1>5, <1>6, LocalKeeps

LEMMA WriteInTxKeeps ==
  ASSUME IInv, NEW s \in Slots, WriteInTx(s)
  PROVE  IInv'
<1>1. /\ slot[s].pc = "write" /\ UNCHANGED <<inode, path, dbs, arch, told, made>>
      /\ Busy(s) /\ slot[s].job.op \in TxOps /\ NeedsHandle(slot[s].job) /\ Unlocked(s)
  BY TxOpsNeed DEF WriteInTx
<1>2. CASE CanWrite(s)
  <2> DEFINE x == [slot[s] EXCEPT !.pc = "commit", !.view = Written(s)]
  <2>1. slot' = [slot EXCEPT ![s] = x] /\ handle' = handle
    BY <1>2 DEF WriteInTx
  <2>2. /\ SlotShape(x) /\ x.n = slot[s].n /\ x.job = slot[s].job /\ x.h = slot[s].h
        /\ x.pc = "commit" /\ x.view = Written(s)
    BY SlotOf DEF SlotShape, Fields
  <2> HIDE DEF x
  <2>3. slot'[s] = x
    BY <2>1, FrameOf
  <2>4. Tables(s) = inode[File(s)]
    BY <1>1, FileOf
  <2>5. File(s)' = File(s) /\ Tables(s)' = Tables(s) /\ Ids(File(s))' = Ids(File(s))
    BY <1>1, <2>1, <2>2, <2>3 DEF Tables, File, Ids
  <2>6. Written(s)' = Written(s)
    BY <2>2, <2>3, <2>5 DEF Written
  <2>7. slot[s].job.op # "remember" => slot[s].job.id \in Ids(File(s))
    BY <1>1, <1>2, <2>4 DEF CanWrite, ForgetOK, Ids, TxOps
  <2>8. WriterOf(s)' /\ FlagOf(s)' /\ ArcOf(s)'
    BY <2>2, <2>3, <2>5, <2>6, <2>7 DEF WriterOf, FlagOf, ArcOf
  <2>9. Fits(slot[s].job.op, x.pc) /\ (Minting(s) \/ slot[s].job.op # "remember")
    BY <1>1, <2>2 DEF Fits, Minting
  <2>10. Sole(s)
    BY <1>1, UnlockedMeans
  <2> QED BY <1>1, <2>1, <2>2, <2>8, <2>9, <2>10, LocalKeeps
<1>3. CASE ~CanWrite(s)
  BY <1>1, <1>3, EndRule DEF WriteInTx, TxOps
<1> QED BY <1>2, <1>3

LEMMA TxFaultKeeps ==
  ASSUME IInv, NEW s \in Slots, TxFault(s)
  PROVE  IInv'
BY TxOpsNeed, EndRule DEF TxFault, TxOps

(* The tables of one file are replaced. *)
LEMMA TablesWritten ==
  ASSUME IInv, NEW f \in DOMAIN inode, NEW c, Content(c), inode' = [inode EXCEPT ![f] = c]
  PROVE  /\ IsSeq(inode') /\ DOMAIN inode' = DOMAIN inode /\ inode'[f] = c
         /\ (\A g \in DOMAIN inode \ {f} : inode'[g] = inode[g])
         /\ Ids(f)' = DOMAIN c.entry /\ \A g \in DOMAIN inode \ {f} : Ids(g)' = Ids(g)
<1>1. Files
  BY DEF IInv
<1>2. /\ IsSeq(inode') /\ DOMAIN inode' = DOMAIN inode /\ inode'[f] = c
      /\ \A g \in DOMAIN inode : g # f => inode'[g] = inode[g]
  BY <1>1, SeqExcept DEF Files
<1> QED BY <1>2 DEF Ids

(* The invariant of the files after that. *)
LEMMA FilesWritten ==
  ASSUME IInv, NEW f \in DOMAIN inode, NEW c, Content(c), inode' = [inode EXCEPT ![f] = c],
         path' = path, \A i : Old(i) => Old(i)', \A i \in DOMAIN c.entry : Old(i)'
  PROVE  Files'
<1>1. /\ IsSeq(inode') /\ DOMAIN inode' = DOMAIN inode /\ inode'[f] = c
      /\ (\A g \in DOMAIN inode \ {f} : inode'[g] = inode[g])
      /\ Ids(f)' = DOMAIN c.entry /\ \A g \in DOMAIN inode \ {f} : Ids(g)' = Ids(g)
  BY TablesWritten
<1>2. ASSUME NEW g \in DOMAIN inode PROVE Content(inode'[g]) /\ \A i \in Ids(g)' : Old(i)'
  <2>1. CASE g = f
    BY <1>1, <2>1
  <2>2. CASE g # f
    BY <1>1, <2>2 DEF IInv, Files
  <2> QED BY <2>1, <2>2
<1> QED BY <1>1, <1>2 DEF IInv, Files

(* The other files and what was told of them stay. *)
LEMMA OthersKnown ==
  ASSUME IInv, \A i : Old(i) => Old(i)', NEW f \in DOMAIN inode,
         \A g \in DOMAIN inode \ {f} : inode'[g] = inode[g],
         \A k \in PerFile, g \in DOMAIN inode \ {f} : told'[k][g] = told[k][g]
  PROVE  \A g \in DOMAIN inode \ {f} : Known(g)'
BY KnownStays DEF PerFile

LEMMA OneFileMild ==
  ASSUME IInv, NEW s \in Slots, NEW f \in DOMAIN inode, DOMAIN inode' = DOMAIN inode,
         \A g \in DOMAIN inode \ {f} : inode'[g] = inode[g],
         \A g \in DOMAIN inode \ {f} : told'.undone[g] = told.undone[g], FileMild(s, f)
  PROVE  FilesMild(s)
<1>1. ASSUME NEW g \in DOMAIN inode, g # f PROVE FileMild(s, g)
  <2>1. Ids(g)' = Ids(g) /\ inode'[g] = inode[g] /\ told'.undone[g] = told.undone[g]
    BY <1>1 DEF Ids
  <2> QED BY <2>1 DEF FileMild
<1> QED BY <1>1 DEF FilesMild

(* The commit takes the place of the tables it wrote over. *)
LEMMA CommitTables ==
  ASSUME IInv, NEW s \in Slots, slot[s].pc = "commit"
  PROVE  LET c == slot[s].view  f == File(s) IN
         /\ Content(c)
         /\ slot[s].job.op = "remember" => DOMAIN c.entry = Ids(f) \union {NewId(slot[s].n)}
         /\ slot[s].job.op # "remember" =>
              DOMAIN c.entry = Ids(f) \ {slot[s].job.id} /\ slot[s].job.id \in Ids(f)
         /\ \A i \in Ids(f) \intersect DOMAIN c.entry : c.entry[i] = Tables(s).entry[i]
<1>1. Busy(s) /\ slot[s].job.op \in TxOps /\ NeedsHandle(slot[s].job)
  BY TxOpsNeed
<1>2. /\ slot[s].view = Written(s)
      /\ (slot[s].job.op # "remember" => slot[s].job.id \in Ids(File(s)))
      /\ slot[s].job.op = "remember" => slot[s].job.row \in Rows
  BY <1>1 DEF IInv, Own, WriterOf, CallOf
<1>3. Content(Tables(s)) /\ Ids(File(s)) = DOMAIN Tables(s).entry /\ \A i \in Ids(File(s)) : Old(i)
  BY <1>1, FileOf DEF Ids
<1>4. CASE slot[s].job.op = "remember"
  <2>1. slot[s].view = Remember(Tables(s), NewId(slot[s].n), slot[s].job.row)
    BY <1>2, <1>4 DEF Written
  <2>2. NewId(slot[s].n) \notin Ids(File(s))
    BY <1>3, <1>4 DEF Old, Minting
  <2> QED BY <1>2, <1>3, <1>4, <2>1, <2>2, RememberContent
<1>5. CASE slot[s].job.op # "remember"
  <2>1. slot[s].view = Forget(Tables(s), slot[s].job.id)
    BY <1>2, <1>5 DEF Written
  <2> QED BY <1>2, <1>3, <1>5, <2>1, ForgetContent
<1> QED BY <1>4, <1>5

(* What the commit notes of the file it writes to. *)
LEMMA CommitTold ==
  ASSUME IInv, NEW s \in Slots, Commit(s), File(s) \in DOMAIN inode
  PROVE  LET f == File(s) IN
         /\ ToldShape(told') /\ \A k \in PerFile : DOMAIN told'[k] = DOMAIN inode
         /\ told'.gone = told.gone /\ told'.flagged = told.flagged
         /\ told'.uris = told.uris /\ told'.clash = told.clash
         /\ \A k \in PerFile, g \in DOMAIN inode \ {f} : told'[k][g] = told[k][g]
         /\ slot[s].job.op = "remember" => told' = told
         /\ slot[s].job.op # "remember" =>
              /\ told'.kept[f] = told.kept[f] \ {slot[s].job.id}
              /\ told'.undone[f] = told.undone[f] \union {slot[s].job.id}
<1> DEFINE f == File(s)
           kept == [told.kept EXCEPT ![f] = told.kept[f] \ {slot[s].job.id}]
           undone == [told.undone EXCEPT ![f] = told.undone[f] \union {slot[s].job.id}]
<1>1. ToldShape(told) /\ \A k \in PerFile : DOMAIN told[k] = DOMAIN inode
  BY DEF IInv, Telling
<1>2. CASE slot[s].job.op = "remember"
  <2>1. told' = told
    BY <1>2 DEF Commit
  <2> QED BY <1>1, <1>2, <2>1
<1>3. CASE slot[s].job.op # "remember"
  <2>1. told' = [told EXCEPT !.kept = kept, !.undone = undone]
    BY <1>3 DEF Commit, Target
  <2>2. /\ IsSeq(kept) /\ DOMAIN kept = DOMAIN inode /\ kept[f] = told.kept[f] \ {slot[s].job.id}
        /\ \A g \in DOMAIN inode \ {f} : kept[g] = told.kept[g]
    BY <1>1, SeqExcept DEF ToldShape, PerFile
  <2>3. /\ IsSeq(undone) /\ DOMAIN undone = DOMAIN inode
        /\ undone[f] = told.undone[f] \union {slot[s].job.id}
        /\ \A g \in DOMAIN inode \ {f} : undone[g] = told.undone[g]
    BY <1>1, SeqExcept DEF ToldShape, PerFile
  <2> HIDE DEF kept, undone
  <2>4. /\ told' = [k \in ToldFields |-> told'[k]] /\ told'.kept = kept /\ told'.undone = undone
        /\ told'.gone = told.gone /\ told'.flagged = told.flagged
        /\ told'.uris = told.uris /\ told'.clash = told.clash
    BY <1>1, <2>1 DEF ToldShape, ToldFields, PerFile
  <2>5. ToldShape(told') /\ \A k \in PerFile : DOMAIN told'[k] = DOMAIN inode
    BY <1>1, <2>2, <2>3, <2>4 DEF ToldShape, PerFile
  <2>6. \A k \in PerFile, g \in DOMAIN inode \ {f} : told'[k][g] = told[k][g]
    BY <2>2, <2>3, <2>4 DEF PerFile
  <2> QED BY <1>3, <2>2, <2>3, <2>4, <2>5, <2>6
<1> QED BY <1>2, <1>3

LEMMA CommitKeeps ==
  ASSUME IInv, NEW s \in Slots, Commit(s)
  PROVE  IInv'
<1> DEFINE x == [slot[s] EXCEPT !.pc = "audit", !.view = Idle.view]
           op == slot[s].job.op
           c == slot[s].view
<1>f. PICK f : f = File(s)
  OBVIOUS
<1>i. PICK id : slot[s].job.op # "remember" => id = slot[s].job.id
  OBVIOUS
<1>n. PICK new : new = NewId(slot[s].n)
  OBVIOUS
<1>1. /\ slot[s].pc = "commit" /\ UNCHANGED <<path, dbs, arch, made>>
      /\ Busy(s) /\ op \in TxOps /\ NeedsHandle(slot[s].job)
      /\ slot' = [slot EXCEPT ![s] = x] /\ Release(s) /\ inode' = [inode EXCEPT ![f] = c]
  BY <1>f, TxOpsNeed DEF Commit
<1>2. SlotShape(x) /\ x.n = slot[s].n /\ x.job = slot[s].job /\ x.h = slot[s].h /\ x.pc = "audit"
  BY SlotOf DEF SlotShape, Fields
<1> HIDE DEF x
<1>3. slot'[s] = x /\ Frame(s)
  BY <1>1, FrameOf
<1>4. Turn(s)
  BY <1>1, <1>2, <1>3 DEF Turn, Minting
<1>5. f \in DOMAIN inode /\ Known(f) /\ Tables(s) = inode[f] /\ slot[s].h \in DOMAIN handle
  BY <1>1, <1>f, FileOf
<1>6. /\ Content(c) /\ \A i \in Ids(f) \intersect DOMAIN c.entry : c.entry[i] = inode[f].entry[i]
      /\ op = "remember" => DOMAIN c.entry = Ids(f) \union {new}
      /\ op # "remember" => DOMAIN c.entry = Ids(f) \ {id} /\ id \in Ids(f)
  BY <1>1, <1>5, <1>f, <1>i, <1>n, CommitTables
<1> HIDE DEF c
<1>7. /\ DOMAIN inode' = DOMAIN inode /\ inode'[f] = c /\ Ids(f)' = DOMAIN c.entry
      /\ \A g \in DOMAIN inode \ {f} : inode'[g] = inode[g]
  BY <1>1, <1>5, <1>6, TablesWritten
<1>8. Handles' /\ HandlesMild
  BY <1>1, <1>7, HandlesStay DEF Release
<1>9. \A i : Old(i) => Old(i)'
  BY <1>3, <1>4, OldStays, TurnIsOldKept
<1>10. /\ ToldShape(told') /\ \A k \in PerFile : DOMAIN told'[k] = DOMAIN inode
       /\ told'.gone = told.gone /\ told'.flagged = told.flagged
       /\ told'.uris = told.uris /\ told'.clash = told.clash
       /\ \A k \in PerFile, g \in DOMAIN inode \ {f} : told'[k][g] = told[k][g]
       /\ op = "remember" => told'.kept[f] = told.kept[f] /\ told'.undone[f] = told.undone[f]
       /\ op # "remember" => /\ told'.kept[f] = told.kept[f] \ {id}
                             /\ told'.undone[f] = told.undone[f] \union {id}
  BY <1>5, <1>f, <1>i, CommitTold
<1>11. ASSUME op = "remember" PROVE Old(new)'
  <2>1. slot[s].n \in 1..made /\ made \in Nat
    BY <1>1, SlotOf DEF IInv, Own, CallOf
  <2>2. ASSUME NEW r \in Slots, Minting(r)' PROVE new # NewId(slot'[r].n)
    <3>1. r # s
      BY <1>2, <1>3, <2>2 DEF Minting
    <3>2. Minting(r) /\ slot'[r].n = slot[r].n
      BY <1>3, <2>2, <3>1 DEF Frame, Minting, Fields
    <3>3. Busy(r)
      BY <3>2 DEF Minting, Busy, Free
    <3>4. slot[r].n # slot[s].n /\ slot[r].n \in 1..made
      BY <1>1, <3>1, <3>3 DEF IInv, Apart, Own, CallOf
    <3> QED BY <1>n, <2>1, <3>2, <3>4 DEF NewId
  <2>3. \A n \in (made' + 1)..Len(Jobs) : new # NewId(n)
    BY <1>1, <1>n, <2>1, JobsLen DEF NewId
  <2> QED BY <2>2, <2>3 DEF Old
<1>12. Files'
  <2>1. \A i \in Ids(f) : Old(i)'
    BY <1>5, <1>9 DEF IInv, Files
  <2>2. \A i \in DOMAIN c.entry : Old(i)'
    BY <1>6, <1>11, <2>1
  <2> QED BY <1>1, <1>5, <1>6, <1>9, <2>2, FilesWritten
<1>13. Archives'
  BY <1>1, <1>3, <1>4, ArchivesStay, TurnIsOldKept
<1>14. op = "remember" => new \notin told.undone[f] \union told.flagged[f]
  BY <1>1, <1>5, <1>n DEF Known, Old, Minting
<1>15. Known(f)'
  <2>1. told'.kept[f] \subseteq Ids(f)' /\ told'.gone[f] \subseteq told'.undone[f]
        /\ told'.undone[f] \intersect Ids(f)' = {}
    BY ZenonT(30), <1>5, <1>6, <1>7, <1>10, <1>14 DEF Known
  <2>2. \A i \in told'.undone[f] \union told'.flagged[f] : Old(i)'
    <3>1. op # "remember" => Old(id)'
      BY <1>5, <1>6, <1>9 DEF IInv, Files
    <3> QED BY <1>5, <1>9, <1>10, <3>1 DEF Known
  <2>3. \A i \in told'.flagged[f] \intersect Ids(f)' : inode'[f].entry[i].review
    BY <1>5, <1>6, <1>7, <1>10, <1>14 DEF Known
  <2> QED BY <2>1, <2>2, <2>3 DEF Known
<1>16. Telling'
  <2>1. \A g \in DOMAIN inode \ {f} : Known(g)'
    BY <1>5, <1>7, <1>9, <1>10, OthersKnown
  <2>2. \A g \in DOMAIN inode' : Known(g)'
    BY <1>7, <1>15, <2>1
  <2>3. Addresses'
    BY <1>1, <1>10 DEF IInv, Telling, Addresses
  <2> QED BY <1>7, <1>10, <2>2, <2>3 DEF Telling
<1>17. FilesMild(s)
  <2>1. Sole(s)
    BY <1>1 DEF IInv, Apart
  <2>2. FileMild(s, f)
    <3>1. Ids(f) \subseteq Ids(f)' \union told'.undone[f] /\ told.undone[f] \subseteq told'.undone[f]
      BY ZenonT(30), <1>6, <1>7, <1>10
    <3>2. \A i \in Ids(f)' : i \in Ids(f) \/ (Minting(s) /\ i = NewId(slot[s].n))
      BY ZenonT(30), <1>1, <1>6, <1>7, <1>n DEF Minting
    <3>3. \A i \in Ids(f) \intersect Ids(f)' : inode'[f].entry[i].review = inode[f].entry[i].review
      BY <1>6, <1>7
    <3> QED BY <1>f, <2>1, <3>1, <3>2, <3>3 DEF FileMild, Sole
  <2>3. \A g \in DOMAIN inode \ {f} : told'.undone[g] = told.undone[g]
    BY <1>10 DEF PerFile
  <2> QED BY <1>5, <1>7, <2>2, <2>3, OneFileMild
<1>18. ArchivesMild(s)
  BY <1>1, <1>10, ArchivesSame
<1>19. WriterOf(s)' /\ FlagOf(s)' /\ ArcOf(s)'
  <2>1. Target(s)' = IF op = "remember" THEN new ELSE id
    BY <1>2, <1>3, <1>i, <1>n DEF Target
  <2>2. File(s)' = f
    BY <1>2, <1>3, <1>5, <1>8, <1>f DEF File, HandlesMild
  <2>3. Ids(File(s))' = DOMAIN c.entry
    BY <1>7, <2>2 DEF Ids
  <2>4. IF op = "remember" THEN new \in DOMAIN c.entry ELSE id \in told'.undone[f]
    BY <1>6, <1>10
  <2> QED BY <1>2, <1>3, <2>1, <2>2, <2>3, <2>4 DEF WriterOf, FlagOf, ArcOf
<1>20. Own(s)'
  <2>1. Fits(op, x.pc)
    BY <1>1, <1>2 DEF Fits
  <2> QED BY <1>1, <1>2, <1>3, <1>8, <1>19, <2>1, OnOwn
<1> QED BY <1>1, <1>3, <1>4, <1>8, <1>12, <1>13, <1>16, <1>17, <1>18, <1>20, StepRule

LEMMA LogAppendKeeps ==
  ASSUME IInv, NEW s \in Slots, LogAppend(s)
  PROVE  IInv'
<1>f. PICK f : f = File(s)
  OBVIOUS
<1> DEFINE op == slot[s].job.op
           kept == told.kept[f] \union ({Target(s)} \ told.undone[f])
           gone == told.gone[f] \union {Target(s)}
<1>1. /\ slot[s].pc = "audit" /\ UNCHANGED <<inode, path, handle, dbs, arch, made>>
      /\ Busy(s) /\ op \in TxOps /\ op # "recall" /\ End(s, {Target(s)})
      /\ NeedsHandle(slot[s].job)
  BY TxOpsNeed DEF LogAppend, TxOps
<1>2. Frame(s) /\ slot'[s] = Ended(s, {Target(s)})
  BY <1>1, FrameOf DEF End
<1>3. Own(s)' /\ Turn(s)
  BY <1>1, <1>2, EndedOwn
<1>4. Handles' /\ HandlesMild
  BY <1>1, HandlesStay
<1>5. Files' /\ Archives'
  BY <1>1, <1>2, <1>3, FilesStay, ArchivesStay, TurnIsOldKept
<1>6. \A i : Old(i) => Old(i)'
  BY <1>2, <1>3, OldStays, TurnIsOldKept
<1>7. f \in DOMAIN inode /\ Known(f) /\ Ids(f)' = Ids(f)
  BY <1>1, <1>f, FileOf DEF Ids
<1>8. \/ told' = told
      \/ op = "remember" /\ NotedIn("kept", f, kept)
      \/ op # "remember" /\ NotedIn("gone", f, gone)
  BY <1>f DEF LogAppend, NotedIn
<1>9. \/ Target(s) \in told.undone[f]
      \/ op = "remember" /\ Target(s) \in Ids(f)
  BY <1>1, <1>f DEF IInv, Own, WriterOf
<1> HIDE DEF kept, gone
<1>10. ASSUME NEW k \in {"kept", "gone"}, NEW v,
              NotedIn(k, f, v), v = IF k = "kept" THEN kept ELSE gone,
              k = "kept" <=> op = "remember"
       PROVE  Telling' /\ told'.undone = told.undone /\ told'.clash = told.clash /\ told'.uris = told.uris
  <2>1. /\ ToldShape(told') /\ told'[k][f] = v
        /\ \A j \in ToldFields \ {k} : told'[j] = told[j]
        /\ \A j \in PerFile : DOMAIN told'[j] = DOMAIN inode
        /\ \A j \in PerFile, g \in DOMAIN inode \ {f} : told'[j][g] = told[j][g]
    BY <1>7, <1>10, ToldSet DEF PerFile
  <2>2. /\ told'.undone = told.undone /\ told'.flagged = told.flagged /\ told'.uris = told.uris
        /\ told'.clash = told.clash
        /\ IF k = "kept" THEN told'.gone = told.gone /\ told'.kept[f] = kept
                         ELSE told'.kept = told.kept /\ told'.gone[f] = gone
    BY <1>10, <2>1 DEF ToldFields, PerFile
  <2>3. told'.kept[f] \subseteq Ids(f) /\ told'.gone[f] \subseteq told.undone[f]
    <3>1. told.kept[f] \subseteq Ids(f) /\ told.gone[f] \subseteq told.undone[f]
      BY <1>7 DEF Known
    <3>2. CASE k = "kept"
      BY <1>9, <1>10, <2>2, <3>1, <3>2 DEF kept
    <3>3. CASE k # "kept"
      BY <1>9, <1>10, <2>2, <3>1, <3>3 DEF gone
    <3> QED BY <3>2, <3>3
  <2>4. Known(f)'
    BY <1>1, <1>6, <1>7, <2>2, <2>3 DEF Known
  <2>5. \A g \in DOMAIN inode : Known(g)'
    BY <1>1, <1>6, <1>7, <2>1, <2>4, OthersKnown
  <2>6. Addresses'
    BY <1>1, <2>2 DEF IInv, Telling, Addresses
  <2> QED BY <1>1, <2>1, <2>2, <2>5, <2>6 DEF Telling
<1>11. Telling' /\ told'.undone = told.undone /\ told'.clash = told.clash /\ told'.uris = told.uris
  <2>1. CASE told' = told
    BY <1>1, <1>2, <1>3, <2>1, TellingStays, TurnIsOldKept
  <2> QED BY <1>8, <1>10, <2>1
<1>12. FilesMild(s) /\ ArchivesMild(s)
  BY <1>1, <1>11, FilesSame, ArchivesSame
<1> QED BY <1>1, <1>2, <1>3, <1>4, <1>5, <1>11, <1>12, StepRule

(* Which calls work on the handle they looked up, and are not recalls. *)
LEMMA PcNeeds ==
  ASSUME IInv, NEW s \in Slots,
         slot[s].pc \in {"query", "query2", "promoted", "flagSelect", "flag", "tick", "arc"}
  PROVE  /\ Busy(s) /\ NeedsHandle(slot[s].job) /\ Fits(slot[s].job.op, slot[s].pc)
         /\ slot[s].pc # "query" => slot[s].job.op # "recall"
<1>1. Busy(s)
  BY DEF Busy, Free
<1>2. Fits(slot[s].job.op, slot[s].pc)
  BY <1>1 DEF IInv, Own, CallOf
<1>3. slot[s].job.op \notin {"import", "supOpen", "supClose"}
  BY <1>2 DEF Fits, TxOps, QueryOps
<1>4. slot[s].pc # "query" => slot[s].job.op # "recall"
  BY <1>2 DEF Fits, TxOps
<1> QED BY <1>1, <1>2, <1>3, <1>4 DEF NeedsHandle

(* What a recall selects is there and not under review. *)
LEMMA RecallSelects ==
  ASSUME IInv, NEW s \in Slots, slot[s].pc = "query", slot[s].job.op = "recall"
  PROVE  Selected(s) \intersect (slot[s].gone \union slot[s].flagged) = {}
<1>1. Busy(s) /\ Ids(File(s)) = DOMAIN Tables(s).entry
  BY PcNeeds, FileOf DEF Ids
<1>2. Selected(s) = Recall(Tables(s), slot[s].job, slot[s].at)
  BY DEF Selected
<1>3. \A i \in Selected(s) : i \in Ids(File(s)) /\ ~Tables(s).entry[i].review
  BY <1>1, <1>2 DEF Recall
<1>4. \A i \in slot[s].gone \union slot[s].flagged :
        i \in Ids(File(s)) => i \notin slot[s].gone /\ Tables(s).entry[i].review
  BY <1>1 DEF IInv, Own, RecallOf
<1> QED BY <1>3, <1>4

(* The call goes on with what a statement has selected. *)
LEMMA SelectedKeeps ==
  ASSUME IInv, NEW s \in Slots, slot[s].pc \in {"query", "flagSelect"}, NEW x,
         slot' = [slot EXCEPT ![s] = x], SlotShape(x),
         x.n = slot[s].n, x.job = slot[s].job, x.h = slot[s].h,
         x.pc \in {"promoted", "query2", "flag"}, Fits(slot[s].job.op, x.pc),
         UNCHANGED <<inode, path, handle, dbs, arch, told, made>>,
         x.pc = "flag" => x.seen \subseteq Ids(File(s)) /\ x.out = x.seen
  PROVE  IInv'
<1>1. Busy(s) /\ NeedsHandle(slot[s].job)
  BY PcNeeds
<1>2. slot'[s] = x /\ Frame(s)
  BY FrameOf
<1>3. OldKept(s)
  BY <1>2 DEF OldKept, Minting
<1>4. FlagOf(s)'
  <2>1. \A i \in Ids(File(s)) : Old(i)'
    BY <1>1, <1>2, <1>3, OldStays, FileOf
  <2> QED BY <1>2, <2>1 DEF FlagOf
<1>5. WriterOf(s)' /\ ArcOf(s)'
  BY <1>2 DEF WriterOf, ArcOf
<1> QED BY <1>1, <1>4, <1>5, LocalKeeps

(* One row's needs_review is set or cleared. *)
LEMMA ReviewRule ==
  ASSUME IInv, NEW s \in Slots, Frame(s), OldKept(s), NEW f \in DOMAIN inode, NEW id \in Ids(f),
         NEW value \in BOOLEAN,
         inode' = [inode EXCEPT ![f] = setNeedsReview(inode[f], id, value)], path' = path
  PROVE  /\ Files' /\ DOMAIN inode' = DOMAIN inode
         /\ Ids(f)' = Ids(f) /\ inode'[f].entry[id].review = value
         /\ \A i \in Ids(f) \ {id} : inode'[f].entry[i] = inode[f].entry[i]
         /\ \A g \in DOMAIN inode \ {f} : inode'[g] = inode[g]
<1>1. Content(inode[f]) /\ \A i \in Ids(f) : Old(i)
  BY DEF IInv, Files
<1> DEFINE d == setNeedsReview(inode[f], id, value)
<1>2. /\ Content(d) /\ DOMAIN d.entry = Ids(f) /\ d.entry[id].review = value
      /\ \A i \in Ids(f) \ {id} : d.entry[i] = inode[f].entry[i]
  BY <1>1, ReviewContent DEF Ids
<1>3. inode' = [inode EXCEPT ![f] = d]
  OBVIOUS
<1> HIDE DEF d
<1>4. /\ DOMAIN inode' = DOMAIN inode /\ inode'[f] = d /\ Ids(f)' = DOMAIN d.entry
      /\ \A g \in DOMAIN inode \ {f} : inode'[g] = inode[g]
  BY <1>2, <1>3, TablesWritten
<1>5. \A i : Old(i) => Old(i)'
  BY OldStays
<1>6. Files'
  <2>1. \A i \in DOMAIN d.entry : Old(i)'
    BY <1>1, <1>2, <1>5
  <2> QED BY <1>2, <1>3, <1>5, <2>1, FilesWritten
<1> QED BY <1>2, <1>4, <1>6

LEMMA ReviewKeeps ==
  ASSUME IInv, NEW s \in Slots, slot[s].pc = "query", slot[s].job.op \in {"mark", "clear"},
         Unlocked(s), Selected(s) # {}, Review(s),
         UNCHANGED <<path, handle, dbs, arch, made>>
  PROVE  IInv'
<1>f. PICK f : f = File(s)
  OBVIOUS
<1>i. PICK id : id = slot[s].job.id
  OBVIOUS
<1>m. PICK mark : mark = (slot[s].job.op = "mark")
  OBVIOUS
<1> DEFINE y(r) == [slot[r] EXCEPT !.flagged = slot[r].flagged \ {id}, !.seen = slot[r].seen \ {id}]
           noted == IF mark THEN told.flagged[f] \union {id} ELSE told.flagged[f] \ {id}
<1>1. /\ Busy(s) /\ NeedsHandle(slot[s].job) /\ Tables(s) = inode[f] /\ f \in DOMAIN inode
      /\ Known(f) /\ \A i \in Ids(f) : Old(i)
  BY <1>f, PcNeeds, FileOf
<1>2. id \in Ids(f)
  BY <1>1, <1>i DEF Selected, Ids
<1>3. inode' = [inode EXCEPT ![f] = setNeedsReview(inode[f], id, mark)]
  BY <1>f, <1>i, <1>m DEF Review
<1>4. slot' = [r \in Slots |-> IF r = s THEN Ended(s, {}) ELSE
                               IF slot[s].job.op = "clear" /\ WorksOn(r, f) THEN y(r) ELSE slot[r]]
  BY <1>f, <1>i DEF Review
<1>5. ASSUME NEW r \in Slots
      PROVE  /\ SlotShape(slot[r]) /\ SlotShape(y(r))
             /\ \A k \in Fields \ {"flagged", "seen"} : y(r)[k] = slot[r][k]
             /\ y(r).flagged = slot[r].flagged \ {id} /\ y(r).seen = slot[r].seen \ {id}
  BY SlotOf DEF SlotShape, Fields
<1> HIDE DEF y
<1>6. slot'[s] = Ended(s, {})
  BY <1>4
<1>7. Frame(s)
  BY <1>4, <1>5 DEF Frame
<1>8. \A r \in Slots \ {s} : ~mark /\ WorksOn(r, f) => id \notin slot'[r].flagged \union slot'[r].seen
  BY <1>4, <1>5, <1>m
<1>9. Own(s)' /\ Turn(s) /\ OldKept(s)
  BY <1>6, EndedOwn, TurnIsOldKept
<1>10. mark \in BOOLEAN
  BY <1>m
<1>11. /\ Files' /\ DOMAIN inode' = DOMAIN inode
       /\ Ids(f)' = Ids(f) /\ inode'[f].entry[id].review = mark
       /\ \A i \in Ids(f) \ {id} : inode'[f].entry[i] = inode[f].entry[i]
       /\ \A g \in DOMAIN inode \ {f} : inode'[g] = inode[g]
  BY <1>1, <1>2, <1>3, <1>7, <1>9, <1>10, ReviewRule
<1>12. Archives' /\ Handles' /\ HandlesMild
  BY <1>7, <1>9, <1>11, ArchivesStay, HandlesStay
<1>13. NotedIn("flagged", f, noted)
  BY <1>f, <1>i, <1>m DEF Review, NotedIn
<1> HIDE DEF noted
<1>14. /\ ToldShape(told') /\ told'["flagged"][f] = noted
       /\ \A j \in ToldFields \ {"flagged"} : told'[j] = told[j]
       /\ \A j \in PerFile : DOMAIN told'[j] = DOMAIN inode
       /\ \A j \in PerFile : \A g \in DOMAIN inode \ {f} : told'[j][g] = told[j][g]
  BY <1>1, <1>13, ToldSet DEF PerFile
<1>15. /\ told'.undone = told.undone /\ told'.kept = told.kept /\ told'.uris = told.uris
       /\ told'.clash = told.clash /\ told'.gone = told.gone /\ told'.flagged[f] = noted
  BY <1>14 DEF ToldFields, PerFile
<1>16. \A i : Old(i) => Old(i)'
  BY <1>7, <1>9, OldStays
<1>17. Known(f)'
  <2>1. \A i \in told'.undone[f] \union told'.flagged[f] : Old(i)'
    BY <1>1, <1>2, <1>15, <1>16 DEF Known, noted
  <2>2. ASSUME NEW i \in told'.flagged[f], i \in Ids(f)' PROVE inode'[f].entry[i].review
    <3>1. CASE i = id
      <4>1. mark = TRUE
        BY <1>10, <1>15, <2>2, <3>1 DEF noted
      <4> QED BY <1>11, <3>1, <4>1
    <3>2. CASE i # id
      <4>1. i \in told.flagged[f] /\ i \in Ids(f) \ {id}
        BY <1>11, <1>15, <2>2, <3>2 DEF noted
      <4> QED BY <1>1, <1>11, <4>1 DEF Known
    <3> QED BY <3>1, <3>2
  <2> QED BY <1>1, <1>11, <1>15, <2>1, <2>2 DEF Known
<1>18. Telling'
  <2>1. \A g \in DOMAIN inode' : Known(g)'
    BY <1>1, <1>11, <1>14, <1>16, <1>17, OthersKnown
  <2>2. Addresses'
    BY <1>15 DEF IInv, Telling, Addresses
  <2> QED BY <1>11, <1>14, <2>1, <2>2 DEF Telling
<1>19. FilesMild(s)
  <2>1. Sole(s)
    BY UnlockedMeans
  <2>2. \A i \in Ids(f) \intersect Ids(f)' : inode[f].entry[i].review =>
          \/ inode'[f].entry[i].review
          \/ \A r \in Slots \ {s} : WorksOn(r, f) => i \notin slot'[r].flagged \union slot'[r].seen
    <3> SUFFICES ASSUME NEW i \in Ids(f), inode[f].entry[i].review, ~inode'[f].entry[i].review,
                        NEW r \in Slots \ {s}, WorksOn(r, f)
                 PROVE  i \notin slot'[r].flagged \union slot'[r].seen
      OBVIOUS
    <3>1. i = id
      BY <1>11
    <3>2. ~mark
      BY <1>11, <3>1
    <3> QED BY <1>8, <3>1, <3>2
  <2>3. FileMild(s, f)
    BY <1>11, <1>15, <1>f, <2>1, <2>2 DEF FileMild, Sole
  <2> QED BY <1>1, <1>11, <1>15, <2>3, OneFileMild
<1>20. ArchivesMild(s)
  BY <1>15, ArchivesSame
<1> QED BY <1>1, <1>7, <1>9, <1>11, <1>12, <1>18, <1>19, <1>20, StepRule

LEMMA QueryKeeps ==
  ASSUME IInv, NEW s \in Slots, Query(s)
  PROVE  IInv'
<1> DEFINE op == slot[s].job.op
<1>1. /\ slot[s].pc = "query" /\ UNCHANGED <<path, handle, dbs, arch, made>>
      /\ Busy(s) /\ NeedsHandle(slot[s].job) /\ Fits(op, "query")
  BY PcNeeds DEF Query
<1>2. CASE ~handle[slot[s].h].open
  BY <1>1, <1>2, EndRule DEF Query
<1>3. ASSUME NEW pc \in {"promoted", "query2"}, pc = "promoted" => op = "promote",
             pc = "query2" => op \in {"counts", "stats"}, UNCHANGED <<inode, told>>,
             slot' = [slot EXCEPT ![s].pc = pc, ![s].out = Selected(s)]
      PROVE  IInv'
  <2> DEFINE x == [slot[s] EXCEPT !.pc = pc, !.out = Selected(s)]
  <2>1. slot' = [slot EXCEPT ![s] = x]
    BY <1>3
  <2>2. SlotShape(x) /\ x.n = slot[s].n /\ x.job = slot[s].job /\ x.h = slot[s].h /\ x.pc = pc
    BY SlotOf DEF SlotShape, Fields
  <2> HIDE DEF x
  <2>3. Fits(op, x.pc)
    BY <1>3, <2>2 DEF Fits
  <2> QED BY <1>1, <1>3, <2>1, <2>2, <2>3, SelectedKeeps
<1>4. CASE op = "promote" /\ PromoteToKeep(s) /\ UNCHANGED <<inode, told>>
  BY <1>3, <1>4 DEF PromoteToKeep
<1>5. CASE /\ op \in {"counts", "stats"} /\ UNCHANGED <<inode, told>>
           /\ slot' = [slot EXCEPT ![s].pc = "query2", ![s].out = Selected(s)]
  BY <1>3, <1>5
<1>6. CASE Review(s) /\ (op \in {"mark", "clear"} => Unlocked(s))
  <2>1. CASE op \in {"mark", "clear"} /\ Selected(s) # {}
    BY <1>1, <1>6, <2>1, ReviewKeeps
  <2>2. CASE ~(op \in {"mark", "clear"} /\ Selected(s) # {})
    <3>1. End(s, Selected(s)) /\ UNCHANGED <<inode, told>>
      BY <1>6, <2>2 DEF Review
    <3> QED BY <1>1, <3>1, EndRule, RecallSelects
  <2> QED BY <2>1, <2>2
<1> QED BY <1>2, <1>4, <1>5, <1>6 DEF Query

LEMMA Query2Keeps ==
  ASSUME IInv, NEW s \in Slots, Query2(s)
  PROVE  IInv'
<1>1. /\ UNCHANGED <<inode, path, handle, dbs, arch, told, made>>
      /\ Busy(s) /\ slot[s].job.op # "recall" /\ \E out : End(s, out)
  BY PcNeeds DEF Query2
<1> QED BY <1>1, EndRule

LEMMA PromotedKeeps ==
  ASSUME IInv, NEW s \in Slots, Promoted(s)
  PROVE  IInv'
BY PcNeeds, EndRule DEF Promoted

LEMMA QueryFaultKeeps ==
  ASSUME IInv, NEW s \in Slots, QueryFault(s)
  PROVE  IInv'
BY PcNeeds, EndRule DEF QueryFault

LEMMA FlagSelectKeeps ==
  ASSUME IInv, NEW s \in Slots, FlagSelect(s)
  PROVE  IInv'
<1>1. /\ slot[s].pc = "flagSelect" /\ UNCHANGED <<inode, path, handle, dbs, arch, told, made>>
      /\ Busy(s) /\ slot[s].job.op = "flag" /\ Ids(File(s)) = DOMAIN Tables(s).entry
  BY PcNeeds, FileOf DEF FlagSelect, Fits, TxOps, QueryOps, Ids
<1>2. CASE handle[slot[s].h].open
  <2> DEFINE c == {i \in flagCandidates(Tables(s)) : outdated(Tables(s).entry[i])}
             x == [slot[s] EXCEPT !.pc = "flag", !.out = c, !.seen = c]
  <2>1. slot' = [slot EXCEPT ![s] = x]
    BY <1>2 DEF FlagSelect
  <2>2. c \subseteq Ids(File(s))
    BY <1>1 DEF flagCandidates
  <2> HIDE DEF c
  <2>3. /\ SlotShape(x) /\ x.n = slot[s].n /\ x.job = slot[s].job /\ x.h = slot[s].h
        /\ x.pc = "flag" /\ x.out = c /\ x.seen = c
    BY SlotOf DEF SlotShape, Fields
  <2> HIDE DEF x
  <2>4. Fits(slot[s].job.op, x.pc)
    BY <1>1, <2>3 DEF Fits
  <2> QED BY <1>1, <2>1, <2>2, <2>3, <2>4, SelectedKeeps
<1>3. CASE ~handle[slot[s].h].open
  BY <1>1, <1>3, EndRule DEF FlagSelect
<1> QED BY <1>2, <1>3

LEMMA evaluateAndFlagCandidateKeeps ==
  ASSUME IInv, NEW s \in Slots, NEW id, evaluateAndFlagCandidate(s, id)
  PROVE  IInv'
<1>f. PICK f : f = File(s)
  OBVIOUS
<1>1. /\ slot[s].pc = "flag" /\ id \in slot[s].out
      /\ UNCHANGED <<path, handle, dbs, arch, told, made>>
      /\ Busy(s) /\ slot[s].job.op = "flag" /\ NeedsHandle(slot[s].job)
      /\ Tables(s) = inode[f] /\ f \in DOMAIN inode /\ Known(f) /\ slot[s].h \in DOMAIN handle
  BY <1>f, PcNeeds, FileOf DEF evaluateAndFlagCandidate, Fits, TxOps, QueryOps
<1>2. CASE handle[slot[s].h].open /\ id \in DOMAIN Tables(s).entry
  <2> DEFINE x == [slot[s] EXCEPT !.out = slot[s].out \ {id}]
  <2>1. /\ slot' = [slot EXCEPT ![s] = x] /\ id \in Ids(f) /\ Unlocked(s)
        /\ inode' = [inode EXCEPT ![f] = setNeedsReview(inode[f], id, TRUE)]
    BY <1>1, <1>2, <1>f DEF evaluateAndFlagCandidate, Ids
  <2>2. /\ SlotShape(x) /\ x.n = slot[s].n /\ x.job = slot[s].job /\ x.h = slot[s].h
        /\ x.pc = "flag" /\ x.out = slot[s].out \ {id} /\ x.seen = slot[s].seen
    BY <1>1, SlotOf DEF SlotShape, Fields
  <2> HIDE DEF x
  <2>3. slot'[s] = x /\ Frame(s)
    BY <2>1, FrameOf
  <2>4. Turn(s) /\ OldKept(s)
    BY <1>1, <2>2, <2>3, TurnIsOldKept DEF Turn, Minting
  <2>5. /\ Files' /\ DOMAIN inode' = DOMAIN inode
        /\ Ids(f)' = Ids(f) /\ inode'[f].entry[id].review = TRUE
        /\ \A i \in Ids(f) \ {id} : inode'[f].entry[i] = inode[f].entry[i]
        /\ \A g \in DOMAIN inode \ {f} : inode'[g] = inode[g]
    BY <1>1, <2>1, <2>3, <2>4, ReviewRule
  <2>6. \A i : Old(i) => Old(i)'
    BY <2>3, <2>4, OldStays
  <2>7. Archives' /\ Handles' /\ HandlesMild
    BY <1>1, <2>3, <2>4, <2>5, ArchivesStay, HandlesStay
  <2>8. Telling'
    <3>1. Known(f)'
      BY <1>1, <2>5, <2>6 DEF Known
    <3>2. \A g \in DOMAIN inode \ {f} : Known(g)'
      BY <1>1, <2>5, <2>6, OthersKnown
    <3>3. \A g \in DOMAIN inode' : Known(g)'
      BY <2>5, <3>1, <3>2
    <3>4. Addresses'
      BY <1>1 DEF IInv, Telling, Addresses
    <3> QED BY <1>1, <2>5, <3>3, <3>4 DEF IInv, Telling
  <2>9. FilesMild(s) /\ ArchivesMild(s)
    <3>1. Sole(s)
      BY <2>1, UnlockedMeans
    <3>2. \A i \in Ids(f) : inode[f].entry[i].review => inode'[f].entry[i].review
      BY <2>5
    <3>3. FileMild(s, f)
      BY <1>1, <1>f, <2>5, <3>1, <3>2 DEF FileMild, Sole
    <3> QED BY <1>1, <2>5, <3>3, OneFileMild, ArchivesSame
  <2>10. FlagOf(s)'
    <3>1. \A i \in slot[s].seen : Old(i) /\ (i \in Ids(f) /\ i \notin slot[s].out => inode[f].entry[i].review)
      BY <1>1, <1>f DEF IInv, Own, FlagOf
    <3>2. File(s)' = f /\ Tables(s)' = inode'[f]
      BY <1>1, <1>f, <2>2, <2>3 DEF File, Tables
    <3>3. Ids(File(s))' = Ids(f)
      BY <2>5, <3>2 DEF Ids
    <3> QED BY <2>2, <2>3, <2>5, <2>6, <3>1, <3>2, <3>3 DEF FlagOf
  <2>11. WriterOf(s)' /\ ArcOf(s)'
    BY <2>2, <2>3 DEF WriterOf, ArcOf
  <2>12. Own(s)'
    <3>1. Fits(slot[s].job.op, x.pc)
      BY <1>1, <2>2 DEF Fits
    <3> QED BY <1>1, <2>2, <2>3, <2>7, <2>10, <2>11, <3>1, OnOwn
  <2> QED BY <1>1, <2>3, <2>4, <2>5, <2>7, <2>8, <2>9, <2>12, StepRule
<1>3. CASE ~(handle[slot[s].h].open /\ id \in DOMAIN Tables(s).entry)
  BY <1>1, <1>3, EndRule DEF evaluateAndFlagCandidate
<1> QED BY <1>2, <1>3

LEMMA FlagEndKeeps ==
  ASSUME IInv, NEW s \in Slots, FlagEnd(s)
  PROVE  IInv'
<1>f. PICK f : f = File(s)
  OBVIOUS
<1> DEFINE noted == told.flagged[f] \union (slot[s].seen \intersect Ids(f))
<1>1. /\ slot[s].pc = "flag" /\ slot[s].out = {}
      /\ UNCHANGED <<inode, path, handle, dbs, arch, made>> /\ End(s, {})
      /\ Busy(s) /\ slot[s].job.op # "recall" /\ Tables(s) = inode[f]
      /\ f \in DOMAIN inode /\ Known(f)
  BY <1>f, PcNeeds, FileOf DEF FlagEnd
<1>2. Frame(s) /\ slot'[s] = Ended(s, {})
  BY <1>1, FrameOf DEF End
<1>3. Own(s)' /\ Turn(s) /\ OldKept(s)
  BY <1>1, <1>2, EndedOwn, TurnIsOldKept
<1>4. Files' /\ Archives' /\ Handles' /\ HandlesMild /\ Ids(f)' = Ids(f)
  BY <1>1, <1>2, <1>3, FilesStay, ArchivesStay, HandlesStay DEF Ids
<1>5. \A i : Old(i) => Old(i)'
  BY <1>2, <1>3, OldStays
<1>6. NotedIn("flagged", f, noted)
  BY <1>1, <1>f DEF FlagEnd, NotedIn, Ids
<1>7. \A i \in slot[s].seen : Old(i) /\ (i \in Ids(f) => inode[f].entry[i].review)
  BY <1>1, <1>f DEF IInv, Own, FlagOf
<1> HIDE DEF noted
<1>8. /\ ToldShape(told') /\ told'["flagged"][f] = noted
      /\ \A j \in ToldFields \ {"flagged"} : told'[j] = told[j]
      /\ \A j \in PerFile : DOMAIN told'[j] = DOMAIN inode
      /\ \A j \in PerFile : \A g \in DOMAIN inode \ {f} : told'[j][g] = told[j][g]
  BY <1>1, <1>6, ToldSet DEF PerFile
<1>9. /\ told'.undone = told.undone /\ told'.kept = told.kept /\ told'.uris = told.uris
      /\ told'.clash = told.clash /\ told'.gone = told.gone /\ told'.flagged[f] = noted
  BY <1>8 DEF ToldFields, PerFile
<1>10. Telling'
  <2>1. Known(f)'
    BY <1>1, <1>4, <1>5, <1>7, <1>9 DEF Known, noted
  <2>2. \A g \in DOMAIN inode' : Known(g)'
    BY <1>1, <1>5, <1>8, <2>1, OthersKnown
  <2>3. Addresses'
    BY <1>1, <1>9 DEF IInv, Telling, Addresses
  <2> QED BY <1>1, <1>8, <2>2, <2>3 DEF Telling
<1>11. FilesMild(s) /\ ArchivesMild(s)
  BY <1>1, <1>9, FilesSame, ArchivesSame
<1> QED BY <1>1, <1>2, <1>3, <1>4, <1>10, <1>11, StepRule

-----------------------------------------------------------------------------
(* Archiving *)

LEMMA ArcOp ==
  ASSUME IInv, NEW s \in Slots, slot[s].pc \in {"arc", "tick"}
  PROVE  slot[s].job.op \in {"archive", "backup"} /\ Busy(s) /\ NeedsHandle(slot[s].job)
BY PcNeeds DEF Fits, TxOps, QueryOps

(* What the archiving goroutine does in its own memory. *)
LEMMA ArcLocalKeeps ==
  ASSUME IInv, NEW s \in Slots, slot[s].pc \in {"arc", "tick"}, NEW x,
         slot' = [slot EXCEPT ![s] = x], SlotShape(x), x.pc = "arc",
         x.n = slot[s].n, x.job = slot[s].job, x.h = slot[s].h,
         x.p \notin {"fill", "ok"}, x.a = "ok" => x.got = Chunks,
         x.a \in {"stream", "ok"} =>
           \/ x.view = Tables(s)
           \/ slot[s].pc = "arc" /\ slot[s].a \in {"stream", "ok"} /\ x.view = slot[s].view,
         UNCHANGED <<inode, path, handle, dbs, arch, told, made>>
  PROVE  IInv'
<1>1. Busy(s) /\ NeedsHandle(slot[s].job) /\ slot[s].job.op \in {"archive", "backup"}
  BY ArcOp
<1>2. slot'[s] = x /\ Frame(s)
  BY FrameOf
<1>3. OldKept(s)
  BY <1>2 DEF OldKept, Minting
<1>4. \A i : Old(i) => Old(i)'
  BY <1>2, <1>3, OldStays
<1>5. Content(Tables(s)) /\ \A i \in DOMAIN Tables(s).entry : Old(i)
  BY <1>1, FileOf DEF Ids
<1>6. x.a \in {"stream", "ok"} => Content(x.view) /\ \A i \in DOMAIN x.view.entry : Old(i)
  BY <1>1, <1>5 DEF IInv, Own, ArcOf
<1>7. ArcOf(s)'
  BY <1>2, <1>4, <1>6 DEF ArcOf
<1>8. WriterOf(s)' /\ FlagOf(s)' /\ Fits(slot[s].job.op, x.pc)
  BY <1>1, <1>2 DEF WriterOf, FlagOf, Fits
<1> QED BY <1>1, <1>7, <1>8, LocalKeeps

LEMMA TickKeeps ==
  ASSUME IInv, NEW s \in Slots, Tick(s)
  PROVE  IInv'
<1> DEFINE x == [slot[s] EXCEPT !.pc = "arc", !.a = "vacuum", !.p = "copy", !.got = 0,
                                !.ticks = slot[s].ticks + 1]
<1>1. /\ slot[s].pc = "tick" /\ slot' = [slot EXCEPT ![s] = x]
      /\ UNCHANGED <<inode, path, handle, dbs, arch, told, made>>
  BY DEF Tick
<1>2. /\ SlotShape(x) /\ x.n = slot[s].n /\ x.job = slot[s].job /\ x.h = slot[s].h
      /\ x.pc = "arc" /\ x.a = "vacuum" /\ x.p = "copy"
  BY SlotOf DEF SlotShape, Fields
<1> HIDE DEF x
<1> QED BY <1>1, <1>2, ArcLocalKeeps

LEMMA CancelKeeps ==
  ASSUME IInv, NEW s \in Slots, Cancel(s)
  PROVE  IInv'
BY ArcOp, EndRule DEF Cancel

LEMMA ArcIs ==
  ASSUME IInv, NEW s \in Slots, InArc(s)
  PROVE  /\ slot[s].pc = "arc" /\ Busy(s)
         /\ slot[s].p \in {"fill", "ok"} => slot[s].a = "ok"
         /\ slot[s].a = "ok" => slot[s].got = Chunks
BY ArcOp DEF InArc, IInv, Own, ArcOf

LEMMA VacuumKeeps ==
  ASSUME IInv, NEW s \in Slots, Vacuum(s)
  PROVE  IInv'
<1>1. /\ InArc(s) /\ slot[s].a = "vacuum"
      /\ UNCHANGED <<inode, path, handle, dbs, arch, told, made>>
  BY DEF Vacuum
<1>2. slot[s].pc = "arc" /\ slot[s].p \notin {"fill", "ok"}
  BY <1>1, ArcIs
<1> DEFINE y == [slot[s] EXCEPT !.a = "stream", !.view = Tables(s)]
           z == [slot[s] EXCEPT !.a = "err"]
<1>3. slot' = [slot EXCEPT ![s] = y] \/ slot' = [slot EXCEPT ![s] = z]
  BY <1>2 DEF Vacuum
<1>4. /\ SlotShape(y) /\ y.n = slot[s].n /\ y.job = slot[s].job /\ y.h = slot[s].h
      /\ y.pc = "arc" /\ y.p = slot[s].p /\ y.a = "stream" /\ y.view = Tables(s)
      /\ SlotShape(z) /\ z.n = slot[s].n /\ z.job = slot[s].job /\ z.h = slot[s].h
      /\ z.pc = "arc" /\ z.p = slot[s].p /\ z.a = "err"
  BY <1>2, SlotOf DEF SlotShape, Fields
<1> HIDE DEF y, z
<1> QED BY <1>1, <1>2, <1>3, <1>4, ArcLocalKeeps

(* The goroutine, or the caller's Put, fails: a or p is set to "err". *)
LEMMA ArchiveFaultKeeps ==
  ASSUME IInv, NEW s \in Slots, ArchiveFault(s) \/ StreamBroken(s)
  PROVE  IInv'
<1> DEFINE x == [slot[s] EXCEPT !.a = "err"]
<1>1. /\ InArc(s) /\ slot[s].a \in {"vacuum", "stream"} /\ slot' = [slot EXCEPT ![s] = x]
      /\ UNCHANGED <<inode, path, handle, dbs, arch, told, made>>
  BY DEF ArchiveFault, StreamBroken
<1>2. slot[s].pc = "arc" /\ slot[s].p \notin {"fill", "ok"}
  BY <1>1, ArcIs
<1>3. /\ SlotShape(x) /\ x.n = slot[s].n /\ x.job = slot[s].job /\ x.h = slot[s].h
      /\ x.pc = "arc" /\ x.p = slot[s].p /\ x.a = "err"
  BY <1>2, SlotOf DEF SlotShape, Fields
<1> HIDE DEF x
<1> QED BY <1>1, <1>2, <1>3, ArcLocalKeeps

LEMMA StreamKeeps ==
  ASSUME IInv, NEW s \in Slots, Stream(s)
  PROVE  IInv'
<1> DEFINE a == IF slot[s].got + 1 = Chunks THEN "ok" ELSE slot[s].a
           x == [slot[s] EXCEPT !.got = slot[s].got + 1, !.a = a]
<1>1. /\ InArc(s) /\ slot[s].a = "stream" /\ slot[s].p = "copy" /\ slot' = [slot EXCEPT ![s] = x]
      /\ UNCHANGED <<inode, path, handle, dbs, arch, told, made>>
  BY DEF Stream
<1>2. slot[s].pc = "arc"
  BY <1>1 DEF InArc
<1>3. /\ SlotShape(x) /\ x.n = slot[s].n /\ x.job = slot[s].job /\ x.h = slot[s].h
      /\ x.pc = "arc" /\ x.p = "copy" /\ x.view = slot[s].view /\ x.got = slot[s].got + 1 /\ x.a = a
  BY <1>1, <1>2, SlotOf DEF SlotShape, Fields
<1> HIDE DEF x
<1> QED BY <1>1, <1>2, <1>3, ArcLocalKeeps

(* Every archive in the store after a step is one the invariant allows. *)
LEMMA StoreRule ==
  ASSUME IInv, NEW s \in Slots, Frame(s), OldKept(s), arch' = [a \in DOMAIN arch' |-> arch'[a]],
         \A a \in DOMAIN arch' : \E z : z = arch'[a] /\ Archive(z)
  PROVE  Archives'
<1> SUFFICES ASSUME NEW a \in DOMAIN arch' PROVE Archive(arch[a])'
  BY DEF Archives
<1>1. PICK z : z = arch'[a] /\ Archive(z)
  OBVIOUS
<1>2. \A i \in DOMAIN z.snap.entry : Old(i)'
  BY <1>1, OldStays DEF Archive
<1> QED BY <1>1, <1>2 DEF Archive

(* What the caller does to the store with its own archive, or to one whose *)
(* name clashed.                                                           *)
LEMMA PutRule ==
  ASSUME IInv, NEW s \in Slots, InArc(s), NEW x, slot' = [slot EXCEPT ![s] = x],
         SlotShape(x), x.pc = "arc", x.n = slot[s].n, x.job = slot[s].job, x.h = slot[s].h,
         UNCHANGED <<inode, path, handle, dbs, made>>,
         told' = told \/ told' = [told EXCEPT !.clash = told.clash \union {now}],
         ArchivesMild(s), ArcOf(s)', arch' = [a \in DOMAIN arch' |-> arch'[a]],
         \A a \in DOMAIN arch' : \E z : z = arch'[a] /\ Archive(z),
         \A u \in told.uris : u.name \notin told'.clash =>
           u.name \in DOMAIN arch' /\ arch'[u.name].whole /\ arch'[u.name].snap = u.snap
  PROVE  IInv'
<1>1. slot[s].pc = "arc" /\ Busy(s) /\ NeedsHandle(slot[s].job) /\ slot[s].job.op \in {"archive", "backup"}
  BY ArcOp DEF InArc
<1>2. slot'[s] = x /\ Frame(s)
  BY FrameOf
<1>3. Turn(s) /\ OldKept(s)
  BY <1>2, TurnIsOldKept DEF Turn, Minting
<1>4. \A i : Old(i) => Old(i)'
  BY <1>2, <1>3, OldStays
<1>5. Files' /\ Handles' /\ HandlesMild
  BY <1>2, <1>3, FilesStay, HandlesStay
<1>6. Archives'
  BY <1>2, <1>3, StoreRule
<1>7. /\ (\A k \in PerFile : told'[k] = told[k]) /\ told'.uris = told.uris
      /\ told'.undone = told.undone /\ ToldShape(told')
  <2>1. ToldShape(told)
    BY DEF IInv, Telling
  <2> QED BY <2>1 DEF ToldShape, ToldFields, PerFile
<1>8. Telling'
  <2>1. \A f \in DOMAIN inode : Known(f)'
    BY <1>4, <1>7, KnownStays DEF PerFile
  <2> QED BY <1>7, <2>1 DEF IInv, Telling, Addresses
<1>9. WriterOf(s)' /\ FlagOf(s)' /\ Fits(slot[s].job.op, x.pc)
  BY <1>1, <1>2 DEF WriterOf, FlagOf, Fits
<1>10. Own(s)'
  BY <1>1, <1>2, <1>5, <1>9, OnOwn
<1>11. FilesMild(s)
  BY <1>7, FilesSame
<1> QED BY <1>1, <1>2, <1>3, <1>5, <1>6, <1>8, <1>10, <1>11, StepRule

(* The snapshot a call holds, and the name it gave its archive. *)
LEMMA ArcHas ==
  ASSUME IInv, NEW s \in Slots, InArc(s)
  PROVE  /\ slot[s].n \in Nat \ {0} /\ ArcOf(s) /\ slot[s].pc = "arc" /\ Busy(s)
         /\ slot[s].a \in {"stream", "ok"} =>
              Content(slot[s].view) /\ \A i \in DOMAIN slot[s].view.entry : Old(i)
         /\ \A a \in DOMAIN arch : Archive(arch[a])
         /\ arch = [a \in DOMAIN arch |-> arch[a]] /\ told = [f \in ToldFields |-> told[f]]
         /\ \A u \in told.uris : u.name \notin told.clash =>
              u.name \in DOMAIN arch /\ arch[u.name].whole /\ arch[u.name].snap = u.snap
<1>1. slot[s].pc = "arc" /\ Busy(s) /\ made \in Nat
  BY ArcIs, SlotOf
<1>2. ArcOf(s) /\ slot[s].n \in Nat \ {0}
  BY <1>1 DEF IInv, Own, CallOf
<1>3. told = [f \in ToldFields |-> told[f]] /\ Addresses
  BY DEF IInv, Telling, ToldShape
<1> QED BY <1>1, <1>2, <1>3 DEF ArcOf, IInv, Archives, Addresses

(* An archive written under a name, and one removed. *)
LEMMA TarballWritten ==
  ASSUME IInv, NEW s \in Slots, InArc(s), slot[s].a = "ok", NEW name, NEW whole \in BOOLEAN,
         writeTarballStream(s, name, whole)
  PROVE  /\ arch' = [a \in DOMAIN arch' |-> arch'[a]] /\ DOMAIN arch' = DOMAIN arch \union {name}
         /\ \A a \in DOMAIN arch \ {name} : arch'[a] = arch[a]
         /\ arch'[name].by = slot[s].n /\ arch'[name].snap = slot[s].view
         /\ arch'[name].whole = whole
         /\ \A a \in DOMAIN arch' : \E z : z = arch'[a] /\ Archive(z)
<1> DEFINE z == Tarball(s, whole)
<1>1. slot[s].got = Chunks
  BY ArcIs
<1>2. Archive(z) /\ z.by = slot[s].n /\ z.snap = slot[s].view /\ z.whole = whole
  BY <1>1, ArcHas DEF Archive, Tarball
<1>3. arch' = With(arch, name, z)
  BY DEF writeTarballStream
<1> HIDE DEF z
<1>4. /\ arch' = [a \in DOMAIN arch' |-> arch'[a]] /\ DOMAIN arch' = DOMAIN arch \union {name}
      /\ \A a \in DOMAIN arch \ {name} : arch'[a] = arch[a]
      /\ arch'[name] = z
  BY <1>3 DEF With
<1>5. ASSUME NEW a \in DOMAIN arch' PROVE \E y : y = arch'[a] /\ Archive(y)
  <2>1. CASE a = name
    BY <1>2, <1>4, <2>1
  <2>2. CASE a # name
    BY <1>4, <2>2, ArcHas
  <2> QED BY <2>1, <2>2
<1> QED BY <1>2, <1>4, <1>5

LEMMA TarballGone ==
  ASSUME IInv, NEW s \in Slots, InArc(s), NEW name, arch' = Restrict(arch, DOMAIN arch \ {name})
  PROVE  /\ arch' = [a \in DOMAIN arch' |-> arch'[a]] /\ DOMAIN arch' = DOMAIN arch \ {name}
         /\ \A a \in DOMAIN arch \ {name} : arch'[a] = arch[a]
         /\ \A a \in DOMAIN arch' : \E z : z = arch'[a] /\ Archive(z)
<1>1. /\ arch' = [a \in DOMAIN arch' |-> arch'[a]] /\ DOMAIN arch' = DOMAIN arch \ {name}
      /\ \A a \in DOMAIN arch \ {name} : arch'[a] = arch[a]
  BY DEF Restrict
<1>2. ASSUME NEW a \in DOMAIN arch' PROVE \E z : z = arch'[a] /\ Archive(z)
  BY <1>1, <1>2, ArcHas
<1> QED BY <1>1, <1>2

LEMMA PutKeeps ==
  ASSUME IInv, NEW s \in Slots, Put(s)
  PROVE  IInv'
<1>1. /\ InArc(s) /\ slot[s].p = "copy" /\ slot[s].a \in {"ok", "err"}
      /\ UNCHANGED <<inode, path, handle, dbs, made>>
  BY DEF Put, PipeEnds
<1>2. slot[s].pc = "arc" /\ Busy(s)
  BY <1>1, ArcIs
<1>3. ASSUME NEW x, slot' = [slot EXCEPT ![s] = x], x.pc = "arc",
             x.a = slot[s].a, x.got = slot[s].got, x.view = slot[s].view, slot[s].a = "ok"
      PROVE  /\ slot'[s] = x /\ x.got = Chunks
             /\ Content(x.view) /\ \A i \in DOMAIN x.view.entry : Old(i)'
  <2>1. Frame(s) /\ slot'[s] = x
    BY <1>3, FrameOf
  <2>2. OldKept(s)
    BY <1>1, <1>3, <2>1 DEF OldKept, Minting
  <2>3. \A i : Old(i) => Old(i)'
    BY <2>1, <2>2, OldStays
  <2> QED BY <1>1, <1>3, <2>1, <2>3, ArcHas, ArcIs
<1>4. CASE slot[s].a = "err"
  <2> DEFINE x == [slot[s] EXCEPT !.p = "err"]
  <2>1. slot' = [slot EXCEPT ![s] = x] /\ UNCHANGED <<arch, told>>
    BY <1>4 DEF Put, PipeEnds
  <2>2. /\ SlotShape(x) /\ x.n = slot[s].n /\ x.job = slot[s].job /\ x.h = slot[s].h
        /\ x.pc = "arc" /\ x.a = "err" /\ x.p = "err"
    BY <1>2, <1>4, SlotOf DEF SlotShape, Fields
  <2> HIDE DEF x
  <2> QED BY <1>1, <1>2, <2>1, <2>2, ArcLocalKeeps
<1>5. CASE slot[s].a = "ok" /\ now \in DOMAIN arch /\ LocalPut(s)
  <2> DEFINE x == [slot[s] EXCEPT !.p = "err"]
  <2>1. /\ slot' = [slot EXCEPT ![s] = x] /\ arch' = Restrict(arch, DOMAIN arch \ {now})
        /\ told' = [told EXCEPT !.clash = told.clash \union {now}]
    BY <1>5 DEF LocalPut
  <2>2. /\ SlotShape(x) /\ x.n = slot[s].n /\ x.job = slot[s].job /\ x.h = slot[s].h
        /\ x.pc = "arc" /\ x.a = "ok" /\ x.p = "err" /\ x.got = slot[s].got /\ x.view = slot[s].view
    BY <1>2, <1>5, SlotOf DEF SlotShape, Fields
  <2> HIDE DEF x
  <2>3. /\ arch' = [a \in DOMAIN arch' |-> arch'[a]] /\ DOMAIN arch' = DOMAIN arch \ {now}
        /\ \A a \in DOMAIN arch \ {now} : arch'[a] = arch[a]
        /\ \A a \in DOMAIN arch' : \E z : z = arch'[a] /\ Archive(z)
    BY <1>1, <2>1, TarballGone
  <2>4. told'.clash = told.clash \union {now} /\ told'.uris = told.uris
    BY <1>1, <2>1, ArcHas DEF ToldFields, PerFile
  <2>5. ArchivesMild(s)
    BY <2>3, <2>4 DEF ArchivesMild
  <2>6. ArcOf(s)'
    BY ZenonT(30), <1>3, <1>5, <2>1, <2>2 DEF ArcOf
  <2>7. \A u \in told.uris : u.name \notin told'.clash =>
          u.name \in DOMAIN arch' /\ arch'[u.name].whole /\ arch'[u.name].snap = u.snap
    BY <1>1, <2>3, <2>4, ArcHas
  <2> QED BY <1>1, <2>1, <2>2, <2>3, <2>5, <2>6, <2>7, PutRule
<1>6. CASE slot[s].a = "ok" /\ now \notin DOMAIN arch /\ LocalPut(s)
  <2> DEFINE x == [slot[s] EXCEPT !.p = "fill", !.name = now]
  <2>1. slot' = [slot EXCEPT ![s] = x] /\ writeTarballStream(s, now, FALSE) /\ told' = told
    BY <1>6 DEF LocalPut
  <2>2. /\ SlotShape(x) /\ x.n = slot[s].n /\ x.job = slot[s].job /\ x.h = slot[s].h /\ x.name = now
        /\ x.pc = "arc" /\ x.a = "ok" /\ x.p = "fill" /\ x.got = slot[s].got /\ x.view = slot[s].view
    BY ZenonT(30), <1>2, <1>6, SlotOf DEF SlotShape, Fields
  <2> HIDE DEF x
  <2>3. /\ arch' = [a \in DOMAIN arch' |-> arch'[a]] /\ DOMAIN arch' = DOMAIN arch \union {now}
        /\ \A a \in DOMAIN arch \ {now} : arch'[a] = arch[a]
        /\ arch'[now].by = slot[s].n /\ arch'[now].snap = slot[s].view
        /\ \A a \in DOMAIN arch' : \E z : z = arch'[a] /\ Archive(z)
    BY <1>1, <1>6, <2>1, TarballWritten
  <2>4. ArchivesMild(s)
    BY <1>6, <2>1, <2>3 DEF ArchivesMild
  <2>5. \A u \in told.uris : u.name \notin told.clash => u.name # now
    BY <1>1, <1>6, ArcHas
  <2>6. ArcOf(s)'
    <3>1. \A u \in told'.uris : now \notin told'.clash => u.name # now
      BY <2>1, <2>5
    <3>2. /\ slot'[s] = x /\ x.got = Chunks
          /\ Content(x.view) /\ \A i \in DOMAIN x.view.entry : Old(i)'
      BY <1>3, <1>6, <2>1, <2>2
    <3> QED BY <2>2, <2>3, <3>1, <3>2 DEF ArcOf
  <2>7. \A u \in told.uris : u.name \notin told'.clash =>
          u.name \in DOMAIN arch' /\ arch'[u.name].whole /\ arch'[u.name].snap = u.snap
    BY <1>1, <2>1, <2>3, <2>5, ArcHas
  <2> QED BY <1>1, <2>1, <2>2, <2>3, <2>4, <2>6, <2>7, PutRule
<1>7. CASE slot[s].a = "ok" /\ S3Put(s)
  <2> DEFINE x == [slot[s] EXCEPT !.p = "ok", !.name = now]
  <2>1. /\ slot' = [slot EXCEPT ![s] = x] /\ writeTarballStream(s, now, TRUE)
        /\ IF now \in DOMAIN arch THEN told' = [told EXCEPT !.clash = told.clash \union {now}]
                                  ELSE told' = told
    BY <1>7 DEF S3Put
  <2>2. /\ SlotShape(x) /\ x.n = slot[s].n /\ x.job = slot[s].job /\ x.h = slot[s].h /\ x.name = now
        /\ x.pc = "arc" /\ x.a = "ok" /\ x.p = "ok" /\ x.got = slot[s].got /\ x.view = slot[s].view
    BY ZenonT(30), <1>2, <1>7, SlotOf DEF SlotShape, Fields
  <2> HIDE DEF x
  <2>3. /\ arch' = [a \in DOMAIN arch' |-> arch'[a]] /\ DOMAIN arch' = DOMAIN arch \union {now}
        /\ (\A a \in DOMAIN arch \ {now} : arch'[a] = arch[a]) /\ arch'[now].whole
        /\ arch'[now].by = slot[s].n /\ arch'[now].snap = slot[s].view
        /\ \A a \in DOMAIN arch' : \E z : z = arch'[a] /\ Archive(z)
    BY <1>1, <1>7, <2>1, TarballWritten
  <2>4. /\ told.clash \subseteq told'.clash /\ told'.uris = told.uris
        /\ now \in DOMAIN arch => now \in told'.clash
    BY <1>1, <2>1, ArcHas DEF ToldFields, PerFile
  <2>5. ArchivesMild(s)
    BY <2>3, <2>4 DEF ArchivesMild
  <2>6. \A u \in told.uris : u.name \notin told'.clash => u.name # now
    BY <1>1, <2>4, ArcHas
  <2>7. ArcOf(s)'
    <3>1. /\ slot'[s] = x /\ x.got = Chunks
          /\ Content(x.view) /\ \A i \in DOMAIN x.view.entry : Old(i)'
      BY <1>3, <1>7, <2>1, <2>2
    <3> QED BY <2>2, <2>3, <3>1 DEF ArcOf
  <2>8. \A u \in told.uris : u.name \notin told'.clash =>
          u.name \in DOMAIN arch' /\ arch'[u.name].whole /\ arch'[u.name].snap = u.snap
    BY <1>1, <2>3, <2>4, <2>6, ArcHas
  <2> QED BY <1>1, <2>1, <2>2, <2>3, <2>5, <2>7, <2>8, PutRule
<1> QED BY <1>1, <1>4, <1>5, <1>6, <1>7 DEF Put, PipeEnds

(* What the caller holds while its own Put goes on. *)
LEMMA ArcSlot ==
  ASSUME IInv, NEW s \in Slots, InArc(s), UNCHANGED made, NEW x, slot' = [slot EXCEPT ![s] = x],
         x.pc = "arc", x.a = slot[s].a, x.got = slot[s].got, x.view = slot[s].view,
         slot[s].a = "ok"
  PROVE  /\ slot'[s] = x /\ x.got = Chunks
         /\ Content(x.view) /\ \A i \in DOMAIN x.view.entry : Old(i)'
<1>1. Frame(s) /\ slot'[s] = x
  BY FrameOf
<1>2. OldKept(s)
  BY <1>1 DEF OldKept, Minting, InArc
<1>3. \A i : Old(i) => Old(i)'
  BY <1>1, <1>2, OldStays
<1> QED BY <1>1, <1>3, ArcHas, ArcIs

LEMMA WholeSet ==
  ASSUME NEW z, z = [whole |-> z.whole, schema |-> z.schema, full |-> z.full,
                     snap |-> z.snap, by |-> z.by]
  PROVE  [z EXCEPT !.whole = TRUE] = [whole |-> TRUE, schema |-> z.schema, full |-> z.full,
                                      snap |-> z.snap, by |-> z.by]
<1> DEFINE y == [z EXCEPT !.whole = TRUE]
<1>1. /\ DOMAIN y = {"whole", "schema", "full", "snap", "by"} /\ y = [f \in DOMAIN y |-> y[f]]
      /\ y.whole = TRUE /\ y.schema = z.schema /\ y.full = z.full /\ y.snap = z.snap /\ y.by = z.by
  OBVIOUS
<1> HIDE DEF y
<1>2. y = [whole |-> TRUE, schema |-> z.schema, full |-> z.full, snap |-> z.snap, by |-> z.by]
  BY <1>1
<1> QED BY <1>2 DEF y

LEMMA writeTarballKeeps ==
  ASSUME IInv, NEW s \in Slots, writeTarball(s)
  PROVE  IInv'
<1> DEFINE x == [slot[s] EXCEPT !.p = "ok"]
           k == slot[s].name
           mine == k \in DOMAIN arch /\ arch[k].by = slot[s].n
           z == [arch[k] EXCEPT !.whole = TRUE]
<1>1. /\ InArc(s) /\ slot[s].p = "fill" /\ UNCHANGED <<inode, path, handle, dbs, made, told>>
      /\ slot' = [slot EXCEPT ![s] = x] /\ slot[s].a = "ok" /\ slot[s].pc = "arc"
      /\ arch' = IF mine THEN [arch EXCEPT ![k] = z] ELSE arch
  BY ArcIs DEF writeTarball
<1>2. /\ SlotShape(x) /\ x.n = slot[s].n /\ x.job = slot[s].job /\ x.h = slot[s].h
      /\ x.name = k /\ x.pc = "arc" /\ x.a = "ok" /\ x.p = "ok" /\ x.got = slot[s].got
      /\ x.view = slot[s].view
  BY <1>1, SlotOf DEF SlotShape, Fields
<1> HIDE DEF x
<1>3. mine => /\ Archive(z) /\ z.whole /\ z.by = arch[k].by /\ z.snap = arch[k].snap
  <2> SUFFICES ASSUME mine PROVE Archive(z) /\ z.whole /\ z.by = arch[k].by /\ z.snap = arch[k].snap
    OBVIOUS
  <2>1. Archive(arch[k]) /\ arch[k].by # 0
    BY <1>1, ArcHas
  <2> HIDE DEF z
  <2>2. z = [whole |-> TRUE, schema |-> arch[k].schema, full |-> arch[k].full,
             snap |-> arch[k].snap, by |-> arch[k].by]
    BY <2>1, WholeSet DEF Archive, z
  <2> QED BY <2>1, <2>2 DEF Archive
<1> HIDE DEF z
<1>4. /\ arch' = [a \in DOMAIN arch' |-> arch'[a]] /\ DOMAIN arch' = DOMAIN arch
      /\ \A a \in DOMAIN arch : a # k => arch'[a] = arch[a]
      /\ IF mine THEN arch'[k] = z ELSE arch' = arch
  BY <1>1, ArcHas
<1>5. ArcOf(s) /\ \A a \in DOMAIN arch : Archive(arch[a])
  BY <1>1, ArcHas
<1>6. k \notin told.clash => mine /\ arch[k].snap = slot[s].view
  BY <1>1, <1>5 DEF ArcOf
<1>7. \A a \in DOMAIN arch' : \E y : y = arch'[a] /\ Archive(y)
  BY <1>3, <1>4, <1>5
<1>8. ArchivesMild(s)
  BY <1>1, <1>4, ArcHas DEF ArchivesMild
<1>9. ArcOf(s)'
  <2>1. /\ slot'[s] = x /\ x.got = Chunks
        /\ Content(x.view) /\ \A i \in DOMAIN x.view.entry : Old(i)'
    BY <1>1, <1>2, ArcSlot
  <2>2. k \notin told.clash => /\ k \in DOMAIN arch' /\ arch'[k].by = slot[s].n
                               /\ arch'[k].snap = slot[s].view /\ arch'[k].whole
    BY <1>3, <1>4, <1>6
  <2> QED BY <1>1, <1>2, <2>1, <2>2 DEF ArcOf
<1>10. \A u \in told.uris : u.name \notin told'.clash =>
         u.name \in DOMAIN arch' /\ arch'[u.name].whole /\ arch'[u.name].snap = u.snap
  BY <1>1, <1>3, <1>4, ArcHas
<1> QED BY <1>1, <1>2, <1>4, <1>7, <1>8, <1>9, <1>10, PutRule

LEMMA PutFaultKeeps ==
  ASSUME IInv, NEW s \in Slots, PutFault(s)
  PROVE  IInv'
<1> DEFINE x == [slot[s] EXCEPT !.p = "err"]
           k == slot[s].name
<1>1. /\ InArc(s) /\ slot[s].p \in {"copy", "fill"}
      /\ UNCHANGED <<inode, path, handle, dbs, made, told>>
      /\ slot' = [slot EXCEPT ![s] = x] /\ slot[s].pc = "arc"
      /\ IF slot[s].p = "fill" THEN arch' = Restrict(arch, DOMAIN arch \ {k}) ELSE arch' = arch
  BY DEF PutFault, InArc
<1>2. /\ SlotShape(x) /\ x.n = slot[s].n /\ x.job = slot[s].job /\ x.h = slot[s].h
      /\ x.pc = "arc" /\ x.a = slot[s].a /\ x.p = "err" /\ x.got = slot[s].got
      /\ x.view = slot[s].view
  BY <1>1, SlotOf DEF SlotShape, Fields
<1> HIDE DEF x
<1>3. CASE slot[s].p = "copy"
  <2>1. slot[s].a = "ok" => slot[s].got = Chunks
    BY <1>1, ArcIs
  <2> QED BY <1>1, <1>2, <1>3, <2>1, ArcLocalKeeps
<1>4. CASE slot[s].p = "fill"
  <2>1. slot[s].a = "ok" /\ ArcOf(s) /\ Busy(s)
    BY <1>1, <1>4, ArcIs, ArcHas
  <2>2. /\ arch' = [a \in DOMAIN arch' |-> arch'[a]] /\ DOMAIN arch' = DOMAIN arch \ {k}
        /\ \A a \in DOMAIN arch \ {k} : arch'[a] = arch[a]
        /\ \A a \in DOMAIN arch' : \E z : z = arch'[a] /\ Archive(z)
    BY <1>1, <1>4, TarballGone
  <2>3. k \notin told.clash => /\ k \in DOMAIN arch /\ arch[k].by = slot[s].n
                               /\ \A u \in told.uris : u.name # k
    BY <1>1, <1>4, <2>1 DEF ArcOf
  <2>4. ArchivesMild(s)
    BY <1>1, <2>1, <2>2, <2>3 DEF ArchivesMild
  <2>5. ArcOf(s)'
    <3>1. /\ slot'[s] = x /\ x.got = Chunks
          /\ Content(x.view) /\ \A i \in DOMAIN x.view.entry : Old(i)'
      BY <1>1, <1>2, <2>1, ArcSlot
    <3> QED BY <1>2, <3>1 DEF ArcOf
  <2>6. \A u \in told.uris : u.name \notin told'.clash =>
          u.name \in DOMAIN arch' /\ arch'[u.name].whole /\ arch'[u.name].snap = u.snap
    BY <1>1, <2>2, <2>3, ArcHas
  <2> QED BY <1>1, <1>2, <2>2, <2>4, <2>5, <2>6, PutRule
<1> QED BY <1>1, <1>3, <1>4

LEMMA archiveAndAuditKeeps ==
  ASSUME IInv, NEW s \in Slots, archiveAndAudit(s)
  PROVE  IInv'
<1> DEFINE good == ~("err" \in {slot[s].a, slot[s].p})
           u0 == [name |-> slot[s].name, snap |-> slot[s].view]
           y == [slot[s] EXCEPT !.pc = "tick", !.view = Idle.view, !.got = 0, !.name = 0,
                                !.a = "none", !.p = "none"]
<1>1. /\ InArc(s) /\ slot[s].p \in {"ok", "err"} /\ slot[s].a \in {"ok", "err"}
      /\ UNCHANGED <<inode, path, handle, dbs, made, arch>>
      /\ told' = IF good THEN [told EXCEPT !.uris = told.uris \union {u0}] ELSE told
      /\ \E out : AfterArchive(s, out)
  BY DEF archiveAndAudit
<1>2. /\ slot[s].pc = "arc" /\ Busy(s) /\ NeedsHandle(slot[s].job)
      /\ slot[s].job.op \in {"archive", "backup"} /\ ArcOf(s)
  BY <1>1, ArcOp, ArcHas DEF InArc
<1>3. SlotShape(y) /\ y.pc = "tick" /\ y.n = slot[s].n /\ y.job = slot[s].job /\ y.h = slot[s].h
  BY ZenonT(60), <1>2, SlotOf DEF SlotShape, Fields
<1> HIDE DEF y
<1>4. \/ slot[s].job.op = "backup" /\ slot' = [slot EXCEPT ![s] = y]
      \/ \E out : slot' = [slot EXCEPT ![s] = Ended(s, out)]
  BY <1>1 DEF AfterArchive, y
<1>5. Handles' /\ HandlesMild
  BY <1>1, HandlesStay
<1>6. Frame(s) /\ Turn(s) /\ Own(s)'
  <2>1. CASE slot[s].job.op = "backup" /\ slot' = [slot EXCEPT ![s] = y]
    <3>1. slot'[s] = y /\ Frame(s)
      BY <2>1, FrameOf
    <3>2. Turn(s)
      BY <1>1, <1>3, <3>1 DEF Turn, Minting
    <3>3. WriterOf(s)' /\ FlagOf(s)' /\ ArcOf(s)' /\ Fits(slot[s].job.op, y.pc)
      BY <1>3, <2>1, <3>1 DEF WriterOf, FlagOf, ArcOf, Fits
    <3> QED BY <1>1, <1>2, <1>3, <1>5, <3>1, <3>2, <3>3, OnOwn
  <2>2. CASE \E out : slot' = [slot EXCEPT ![s] = Ended(s, out)]
    <3>1. PICK out : slot' = [slot EXCEPT ![s] = Ended(s, out)]
      BY <2>2
    <3>2. slot'[s] = Ended(s, out) /\ Frame(s)
      BY <3>1, FrameOf
    <3> QED BY <1>1, <1>2, <3>2, EndedOwn
  <2> QED BY <1>4, <2>1, <2>2
<1>7. OldKept(s)
  BY <1>6, TurnIsOldKept
<1>8. Files' /\ Archives'
  BY <1>1, <1>6, <1>7, FilesStay, ArchivesStay
<1>9. /\ (\A k \in PerFile : told'[k] = told[k]) /\ told'.clash = told.clash
      /\ told'.undone = told.undone /\ ToldShape(told')
      /\ told'.uris = IF good THEN told.uris \union {u0} ELSE told.uris
  <2>1. ToldShape(told)
    BY DEF IInv, Telling
  <2> QED BY <1>1, <2>1 DEF ToldShape, ToldFields, PerFile
<1>10. good /\ u0.name \notin told.clash =>
         /\ u0.name \in DOMAIN arch /\ arch[u0.name].by = slot[s].n
         /\ arch[u0.name].whole /\ arch[u0.name].snap = u0.snap
  BY <1>1, <1>2 DEF ArcOf
<1> HIDE DEF good, u0
<1>11. Telling'
  <2>1. \A i : Old(i) => Old(i)'
    BY <1>6, <1>7, OldStays
  <2>2. \A u \in told'.uris : u.name \notin told'.clash =>
          u.name \in DOMAIN arch' /\ arch'[u.name].whole /\ arch'[u.name].snap = u.snap
    BY <1>1, <1>9, <1>10, ArcHas
  <2>3. \A f \in DOMAIN inode : Known(f)'
    BY <1>1, <1>9, <2>1, KnownStays DEF PerFile
  <2> QED BY <1>1, <1>9, <2>2, <2>3 DEF IInv, Telling, Addresses
<1>12. FilesMild(s)
  BY <1>1, <1>9, FilesSame
<1>13. ArchivesMild(s)
  BY <1>1, <1>2, <1>9, <1>10 DEF ArchivesMild
<1> QED BY <1>2, <1>5, <1>6, <1>8, <1>11, <1>12, <1>13, StepRule

-----------------------------------------------------------------------------
(* Handles, imports and the supervisor *)

(* A step that touches its own slot and the handles only. *)
LEMMA OwnRule ==
  ASSUME IInv, NEW s \in Slots, Busy(s), Frame(s), Turn(s), UNCHANGED <<inode, path, arch, told>>,
         Handles', HandlesMild, Own(s)'
  PROVE  IInv'
<1>1. Files' /\ Archives' /\ Telling'
  BY FilesStay, ArchivesStay, TellingStays, TurnIsOldKept
<1>2. FilesMild(s) /\ ArchivesMild(s)
  BY FilesSame, ArchivesSame
<1> QED BY <1>1, <1>2, StepRule

LEMMA OpenedOne ==
  ASSUME IInv, NEW f, handle' = Opened(f), f \in DOMAIN inode', DOMAIN inode \subseteq DOMAIN inode',
         dbs' \in {dbs, Len(handle) + 1}
  PROVE  LET k == Len(handle) + 1 IN
         /\ Handles' /\ HandlesMild /\ k \in DOMAIN handle' /\ handle'[k].file = f
<1> DEFINE e == [open |-> TRUE, file |-> f, tx |-> 0]  k == Len(handle) + 1
<1>1. Handles /\ handle' = Append(handle, e) /\ e.file = f
  BY DEF IInv, Opened
<1>2. e = [open |-> e.open, file |-> e.file, tx |-> e.tx]
  OBVIOUS
<1> HIDE DEF e
<1>3. /\ IsSeq(handle') /\ Len(handle) \in Nat /\ DOMAIN handle = 1..Len(handle)
      /\ DOMAIN handle' = 1..k /\ handle'[k] = e
      /\ \A h \in DOMAIN handle : handle'[h] = handle[h]
  BY <1>1, SeqAppend DEF Handles
<1> HIDE DEF k
<1>4. DOMAIN handle' = DOMAIN handle \union {k} /\ dbs' \in {dbs, k}
  BY <1>3 DEF k
<1>5. Handles'
  BY <1>1, <1>2, <1>3, <1>4 DEF Handles
<1>6. HandlesMild
  BY <1>3, <1>4 DEF HandlesMild
<1> QED BY <1>1, <1>3, <1>4, <1>5, <1>6 DEF k

LEMMA ClosedOne ==
  ASSUME IInv, NEW k, handle' = Closed(k), UNCHANGED dbs, DOMAIN inode' = DOMAIN inode
  PROVE  Handles' /\ HandlesMild /\ DOMAIN handle' = DOMAIN handle
<1>v. PICK v : v = FALSE
  OBVIOUS
<1> DEFINE e == [handle[k] EXCEPT !.open = v]
<1>1. Handles /\ IsSeq(handle)
  BY DEF IInv, Handles
<1>2. handle' = [handle EXCEPT ![k] = e]
  BY <1>v DEF Closed
<1>3. k \in DOMAIN handle => /\ e = [open |-> e.open, file |-> e.file, tx |-> e.tx]
                             /\ e.file = handle[k].file
  BY <1>1 DEF Handles
<1> HIDE DEF e
<1>4. /\ IsSeq(handle') /\ DOMAIN handle' = DOMAIN handle
      /\ k \in DOMAIN handle => handle'[k] = e
      /\ \A h \in DOMAIN handle : h # k => handle'[h] = handle[h]
  <2> DEFINE p == [handle EXCEPT ![k] = e]
  <2>1. /\ IsSeq(p) /\ DOMAIN p = DOMAIN handle /\ (k \in DOMAIN handle => p[k] = e)
        /\ \A h \in DOMAIN handle : h # k => p[h] = handle[h]
    BY <1>1, SeqExcept
  <2> HIDE DEF p
  <2>2. handle' = p
    BY <1>2 DEF p
  <2> QED BY <2>1, <2>2
<1>5. ASSUME NEW h \in DOMAIN handle'
      PROVE  /\ handle'[h] = [open |-> handle'[h].open, file |-> handle'[h].file,
                              tx |-> handle'[h].tx]
             /\ handle'[h].file = handle[h].file /\ h \in DOMAIN handle
  BY <1>1, <1>3, <1>4 DEF Handles
<1> QED BY <1>1, <1>4, <1>5 DEF Handles, HandlesMild

LEMMA ImportIs ==
  ASSUME IInv, NEW s \in Slots, slot[s].pc \in {"fetch", "import", "sidecars", "rename", "imported"}
  PROVE  /\ Busy(s) /\ slot[s].job.op = "import" /\ ~NeedsHandle(slot[s].job)
         /\ ImportOf(s) /\ HandleOf(s) /\ CallOf(s)
<1>1. Busy(s)
  BY DEF Busy, Free
<1>2. ImportOf(s) /\ HandleOf(s) /\ CallOf(s)
  BY <1>1 DEF IInv, Own
<1>3. slot[s].job.op = "import"
  BY <1>2 DEF CallOf, Fits
<1> QED BY <1>1, <1>2, <1>3 DEF NeedsHandle

(* An import goes on to its next step. *)
LEMMA ImportOwn ==
  ASSUME IInv, NEW s \in Slots, NEW x, slot' = [slot EXCEPT ![s] = x], SlotShape(x),
         slot[s].pc \in {"fetch", "import", "sidecars", "rename"}, UNCHANGED made,
         x.n = slot[s].n, x.job = slot[s].job,
         x.pc \in {"import", "sidecars", "rename", "imported"},
         x.pc # "imported" => x.h \in DOMAIN handle',
         x.pc \in {"sidecars", "rename"} \/ (x.pc = "import" /\ x.a = "ok") =>
           Content(x.view) /\ \A i \in DOMAIN x.view.entry : Old(i),
         x.pc \in {"sidecars", "rename"} => x.seen = {}
  PROVE  Own(s)' /\ Turn(s) /\ Frame(s) /\ slot'[s] = x /\ \A i : Old(i) => Old(i)'
<1>1. /\ Busy(s) /\ slot[s].job.op = "import" /\ ~NeedsHandle(slot[s].job) /\ CallOf(s)
  BY ImportIs
<1>2. slot'[s] = x /\ Frame(s)
  BY FrameOf
<1>3. Turn(s) /\ OldKept(s)
  BY <1>1, <1>2, TurnIsOldKept DEF Turn, Minting
<1>4. \A i : Old(i) => Old(i)'
  BY <1>2, <1>3, OldStays
<1>5. CallOf(s)' /\ HandleOf(s)'
  BY <1>1, <1>2 DEF CallOf, HandleOf, Fits
<1>6. WriterOf(s)' /\ RecallOf(s)' /\ FlagOf(s)' /\ ArcOf(s)'
  BY <1>2 DEF WriterOf, RecallOf, FlagOf, ArcOf
<1>7. ImportOf(s)'
  BY <1>2, <1>4 DEF ImportOf
<1>8. Own(s)'
  BY <1>2, <1>5, <1>6, <1>7 DEF Own
<1> QED BY <1>2, <1>3, <1>4, <1>8

LEMMA FetchKeeps ==
  ASSUME IInv, NEW s \in Slots, Fetch(s)
  PROVE  IInv'
<1> DEFINE k == Len(handle) + 1
           z == arch[slot[s].job.uri]
           a == IF validateArchive(z) THEN "ok" ELSE "err"
           x == [slot[s] EXCEPT !.pc = "import", !.h = k, !.view = z.snap, !.a = a]
<1>1. /\ slot[s].pc = "fetch" /\ UNCHANGED <<inode, path, dbs, arch, told, made>>
      /\ Busy(s) /\ slot[s].job.op = "import"
  BY ImportIs DEF Fetch
<1>2. CASE Get(slot[s].job.uri)
  <2>1. /\ slot' = [slot EXCEPT ![s] = x] /\ handle' = Opened(path)
        /\ slot[s].job.uri \in DOMAIN arch
    BY <1>2 DEF Fetch, Get
  <2>2. SlotShape(x) /\ x.n = slot[s].n /\ x.job = slot[s].job /\ x.h = k
        /\ x.pc = "import" /\ x.view = z.snap /\ x.a = a
    BY SlotOf DEF SlotShape, Fields
  <2> HIDE DEF x
  <2>3. Handles' /\ HandlesMild /\ k \in DOMAIN handle'
    BY <1>1, <2>1, OpenedOne DEF IInv, Files
  <2>4. a = "ok" => Content(z.snap) /\ \A i \in DOMAIN z.snap.entry : Old(i)
    BY <2>1 DEF IInv, Archives, Archive, validateArchive
  <2> HIDE DEF k, a, z
  <2>5. Own(s)' /\ Turn(s) /\ Frame(s)
    BY <1>1, <2>1, <2>2, <2>3, <2>4, ImportOwn
  <2> QED BY <1>1, <2>3, <2>5, OwnRule
<1>3. CASE ~Get(slot[s].job.uri)
  BY <1>1, <1>3, EndRule DEF Fetch
<1> QED BY <1>2, <1>3

(* A handle is closed by the call that ends. *)
LEMMA CloseEndRule ==
  ASSUME IInv, NEW s \in Slots, Busy(s), slot[s].job.op # "recall", NEW out,
         End(s, out), handle' = Closed(slot[s].h), UNCHANGED <<inode, path, dbs, arch, told, made>>
  PROVE  IInv'
<1>1. slot'[s] = Ended(s, out) /\ Frame(s)
  BY FrameOf DEF End
<1>2. Own(s)' /\ Turn(s)
  BY <1>1, EndedOwn
<1>3. Handles' /\ HandlesMild
  BY ClosedOne
<1> QED BY <1>1, <1>2, <1>3, OwnRule

(* Of an empty file nothing is known to be kept. *)
LEMMA ImportKeeps ==
  ASSUME IInv, NEW s \in Slots, Import(s)
  PROVE  IInv'
<1> DEFINE q == told.kept[File(s)]
           x == [slot[s] EXCEPT !.pc = "sidecars", !.seen = q]
<1>1. /\ slot[s].pc = "import" /\ UNCHANGED <<inode, path, dbs, arch, told, made>>
      /\ Busy(s) /\ slot[s].job.op = "import" /\ ImportOf(s)
      /\ handle' = Closed(slot[s].h) /\ slot[s].h \in DOMAIN handle
  BY ImportIs DEF Import, HandleOf
<1>2. CASE slot[s].a = "ok" /\ DOMAIN Tables(s).entry = {}
  <2>1. slot' = [slot EXCEPT ![s] = x]
    BY <1>2 DEF Import
  <2>2. q = {}
    <3>1. Known(File(s)) /\ Ids(File(s)) = {}
      BY <1>1, <1>2, HandleIs DEF Ids
    <3> QED BY <3>1 DEF Known
  <2>3. /\ SlotShape(x) /\ x.n = slot[s].n /\ x.job = slot[s].job /\ x.h = slot[s].h
        /\ x.pc = "sidecars" /\ x.seen = q /\ x.view = slot[s].view
    BY SlotOf DEF SlotShape, Fields
  <2> HIDE DEF x, q
  <2>4. Handles' /\ HandlesMild /\ DOMAIN handle' = DOMAIN handle
    BY <1>1, ClosedOne
  <2>5. Content(slot[s].view) /\ \A i \in DOMAIN slot[s].view.entry : Old(i)
    BY <1>1, <1>2 DEF ImportOf
  <2>6. Own(s)' /\ Turn(s) /\ Frame(s)
    BY <1>1, <2>1, <2>2, <2>3, <2>4, <2>5, ImportOwn
  <2> QED BY <1>1, <2>4, <2>6, OwnRule
<1>3. CASE ~(slot[s].a = "ok" /\ DOMAIN Tables(s).entry = {})
  <2>1. End(s, {})
    BY <1>3 DEF Import
  <2> QED BY <1>1, <2>1, CloseEndRule
<1> QED BY <1>2, <1>3

LEMMA RemoveSidecarsKeeps ==
  ASSUME IInv, NEW s \in Slots, RemoveSidecars(s)
  PROVE  IInv'
<1> DEFINE x == [slot[s] EXCEPT !.pc = "rename"]
<1>1. /\ slot[s].pc = "sidecars" /\ UNCHANGED <<inode, path, handle, dbs, arch, made>>
      /\ slot' = [slot EXCEPT ![s] = x] /\ Busy(s)
      /\ ImportOf(s) /\ slot[s].h \in DOMAIN handle
  BY ImportIs DEF RemoveSidecars, HandleOf
<1>2. /\ SlotShape(x) /\ x.n = slot[s].n /\ x.job = slot[s].job /\ x.h = slot[s].h
      /\ x.pc = "rename" /\ x.seen = slot[s].seen /\ x.view = slot[s].view
  BY SlotOf DEF SlotShape, Fields
<1> HIDE DEF x
<1>3. Own(s)' /\ Turn(s) /\ Frame(s) /\ \A i : Old(i) => Old(i)'
  BY <1>1, <1>2, ImportOwn DEF ImportOf
<1>4. PICK torn : told' = [told EXCEPT !.torn = torn]
  BY DEF RemoveSidecars
<1>5. /\ (\A k \in PerFile : told'[k] = told[k]) /\ told'.clash = told.clash
      /\ told'.undone = told.undone /\ told'.uris = told.uris /\ ToldShape(told')
  <2>1. ToldShape(told)
    BY DEF IInv, Telling
  <2> QED BY <1>4, <2>1 DEF ToldShape, ToldFields, PerFile
<1>6. Telling'
  <2>1. \A f \in DOMAIN inode : Known(f)'
    BY <1>1, <1>3, <1>5, KnownStays DEF PerFile
  <2> QED BY <1>1, <1>5, <2>1 DEF IInv, Telling, Addresses
<1>7. Files' /\ Archives'
  BY <1>1, <1>3, FilesStay, ArchivesStay, TurnIsOldKept
<1>8. Handles' /\ HandlesMild
  BY <1>1, HandlesStay
<1>9. FilesMild(s) /\ ArchivesMild(s)
  BY <1>1, <1>5, FilesSame, ArchivesSame
<1> QED BY <1>1, <1>3, <1>6, <1>7, <1>8, <1>9, StepRule

LEMMA ImportFaultKeeps ==
  ASSUME IInv, NEW s \in Slots, ImportFault(s)
  PROVE  IInv'
<1>1. /\ Busy(s) /\ slot[s].job.op = "import" /\ End(s, {})
      /\ UNCHANGED <<inode, path, dbs, arch, told, made>>
      /\ IF slot[s].pc = "import" THEN handle' = Closed(slot[s].h) ELSE handle' = handle
  BY ImportIs DEF ImportFault
<1> QED BY <1>1, CloseEndRule, EndRule

LEMMA ImportedKeeps ==
  ASSUME IInv, NEW s \in Slots, Imported(s)
  PROVE  IInv'
BY ImportIs, CloseEndRule DEF Imported

(* A file that a rename puts under the path: what it holds is known to be kept. *)
LEMMA NewFileKnown ==
  ASSUME IInv, NEW c, Content(c), \A i \in DOMAIN c.entry : Old(i)', \A i : Old(i) => Old(i)',
         inode' = Append(inode, c),
         told' = [told EXCEPT !.kept = Append(told.kept, DOMAIN c.entry),
                    !.undone = Append(told.undone, {}), !.gone = Append(told.gone, {}),
                    !.flagged = Append(told.flagged, {})]
  PROVE  LET k == Len(inode) + 1 IN
         /\ IsSeq(inode') /\ DOMAIN inode' = DOMAIN inode \union {k} /\ k \notin DOMAIN inode
         /\ (\A f \in DOMAIN inode : inode'[f] = inode[f]) /\ inode'[k] = c
         /\ ToldShape(told') /\ (\A j \in PerFile : DOMAIN told'[j] = DOMAIN inode')
         /\ told'.uris = told.uris /\ told'.clash = told.clash
         /\ (\A f \in DOMAIN inode : told'.undone[f] = told.undone[f])
         /\ \A f \in DOMAIN inode' : Known(f)'
<1> DEFINE k == Len(inode) + 1
           d == [j \in PerFile |-> IF j = "kept" THEN DOMAIN c.entry ELSE {}]
<1>1. /\ IsSeq(inode) /\ ToldShape(told) /\ \A j \in PerFile : DOMAIN told[j] = DOMAIN inode
  BY DEF IInv, Files, Telling
<1>2. /\ IsSeq(inode') /\ DOMAIN inode = 1..Len(inode) /\ Len(inode) \in Nat
      /\ DOMAIN inode' = 1..k /\ inode'[k] = c /\ \A f \in DOMAIN inode : inode'[f] = inode[f]
  BY <1>1, SeqAppend
<1>3. DOMAIN inode' = DOMAIN inode \union {k} /\ k \notin DOMAIN inode
  BY <1>2
<1>4. ASSUME NEW j \in PerFile
      PROVE  /\ IsSeq(told'[j]) /\ DOMAIN told'[j] = DOMAIN inode' /\ told'[j][k] = d[j]
             /\ \A f \in DOMAIN inode : told'[j][f] = told[j][f]
  <2>1. IsSeq(told[j]) /\ DOMAIN told[j] = DOMAIN inode
    BY <1>1 DEF ToldShape
  <2>2. told'[j] = Append(told[j], d[j])
    BY <1>1 DEF PerFile, ToldShape, ToldFields
  <2> HIDE DEF d
  <2>3. Len(told[j]) \in Nat /\ DOMAIN told[j] = 1..Len(told[j])
    BY <2>1, SeqAppend
  <2>4. Len(told[j]) = Len(inode)
    BY <1>2, <2>1, <2>3
  <2>5. /\ IsSeq(told'[j]) /\ DOMAIN told'[j] = 1..(Len(told[j]) + 1)
        /\ told'[j][Len(told[j]) + 1] = d[j]
        /\ \A f \in DOMAIN told[j] : told'[j][f] = told[j][f]
    <3>1. PICK q, e, p : q = told[j] /\ e = d[j] /\ p = Append(q, e)
      OBVIOUS
    <3>2. IsSeq(q) /\ p = told'[j]
      BY <2>1, <2>2, <3>1
    <3>3. /\ IsSeq(p) /\ DOMAIN p = 1..(Len(q) + 1) /\ p[Len(q) + 1] = e
          /\ \A f \in DOMAIN q : p[f] = q[f]
      <4>1. /\ IsSeq(Append(q, e)) /\ DOMAIN Append(q, e) = 1..(Len(q) + 1)
            /\ Append(q, e)[Len(q) + 1] = e
        BY <3>2, SeqAppend
      <4>2. \A f \in DOMAIN q : Append(q, e)[f] = q[f]
        BY <3>2, SeqAppend
      <4> QED BY <3>1, <4>1, <4>2
    <3> QED BY <3>1, <3>2, <3>3
  <2> QED BY <1>2, <2>1, <2>4, <2>5
<1>5. /\ told'.uris = told.uris /\ told'.clash = told.clash
      /\ told' = [j \in ToldFields |-> told'[j]]
  BY <1>1 DEF ToldShape, ToldFields, PerFile
<1> HIDE DEF k
<1>6. \A f \in DOMAIN inode : Known(f)'
  BY <1>2, <1>4, KnownStays DEF PerFile
<1>7. /\ told'.kept[k] = DOMAIN c.entry /\ told'.undone[k] = {} /\ told'.gone[k] = {}
      /\ told'.flagged[k] = {}
  BY <1>4 DEF PerFile
<1>8. PICK f0 : f0 = k
  OBVIOUS
<1>9. Known(f0)'
  <2>1. Ids(f0)' = DOMAIN c.entry
    BY <1>2, <1>8 DEF Ids
  <2> QED BY <1>7, <1>8, <2>1 DEF Known
<1>10. \A f \in DOMAIN inode' : Known(f)'
  BY <1>3, <1>6, <1>8, <1>9
<1>11. ToldShape(told')
  BY <1>4, <1>5 DEF ToldShape
<1> QED BY <1>2, <1>3, <1>4, <1>5, <1>10, <1>11 DEF k, PerFile

LEMMA ImportRenameKeeps ==
  ASSUME IInv, NEW s \in Slots, ImportRename(s)
  PROVE  IInv'
<1> DEFINE v0 == Idle.view
           k == Len(inode) + 1
           h == Len(handle) + 1
           x == [slot[s] EXCEPT !.pc = "imported", !.h = h, !.view = v0]
<1>c. PICK c : c = slot[s].view
  OBVIOUS
<1>1. /\ slot[s].pc = "rename" /\ UNCHANGED <<dbs, arch, made>>
      /\ inode' = Append(inode, c) /\ path' = k /\ handle' = Opened(k)
      /\ slot' = [slot EXCEPT ![s] = x] /\ Busy(s) /\ ImportOf(s)
      /\ told' = [told EXCEPT !.kept = Append(told.kept, DOMAIN c.entry),
                    !.undone = Append(told.undone, {}), !.gone = Append(told.gone, {}),
                    !.flagged = Append(told.flagged, {})]
  BY <1>c, ImportIs DEF ImportRename
<1> HIDE DEF v0
<1>2. SlotShape(x) /\ x.n = slot[s].n /\ x.job = slot[s].job /\ x.pc = "imported"
  BY SlotOf DEF SlotShape, Fields
<1> HIDE DEF x
<1>3. Own(s)' /\ Turn(s) /\ Frame(s) /\ \A i : Old(i) => Old(i)'
  BY <1>1, <1>2, ImportOwn
<1>4. Content(c) /\ \A i \in DOMAIN c.entry : Old(i)
  BY <1>1, <1>c DEF ImportOf
<1>5. /\ IsSeq(inode') /\ DOMAIN inode' = DOMAIN inode \union {k} /\ k \notin DOMAIN inode
      /\ (\A f \in DOMAIN inode : inode'[f] = inode[f]) /\ inode'[k] = c
      /\ ToldShape(told') /\ (\A j \in PerFile : DOMAIN told'[j] = DOMAIN inode')
      /\ told'.uris = told.uris /\ told'.clash = told.clash
      /\ (\A f \in DOMAIN inode : told'.undone[f] = told.undone[f])
      /\ \A f \in DOMAIN inode' : Known(f)'
  BY <1>1, <1>3, <1>4, NewFileKnown
<1> HIDE DEF k
<1>6. Telling'
  BY <1>1, <1>5 DEF IInv, Telling, Addresses
<1>7. Files'
  <2>1. \A f \in DOMAIN inode : Content(inode'[f]) /\ \A i \in Ids(f)' : Old(i)'
    BY <1>3, <1>5 DEF IInv, Files, Ids
  <2>2. PICK f0 : f0 = k
    OBVIOUS
  <2>3. Content(inode'[f0]) /\ \A i \in Ids(f0)' : Old(i)'
    BY <1>3, <1>4, <1>5, <2>2 DEF Ids
  <2>4. \A f \in DOMAIN inode' : Content(inode'[f]) /\ \A i \in Ids(f)' : Old(i)'
    BY <1>5, <2>1, <2>2, <2>3
  <2> QED BY <1>1, <1>5, <2>4 DEF Files
<1>8. Archives'
  BY <1>1, <1>3, ArchivesStay, TurnIsOldKept
<1>9. Handles' /\ HandlesMild
  BY <1>1, <1>5, OpenedOne
<1>10. FilesMild(s)
  <2>1. ASSUME NEW f \in DOMAIN inode PROVE f \in DOMAIN inode' /\ FileMild(s, f)
    <3>1. /\ f \in DOMAIN inode' /\ Ids(f)' = Ids(f) /\ inode'[f] = inode[f]
          /\ told'.undone[f] = told.undone[f]
      BY <1>5 DEF Ids
    <3> QED BY <3>1 DEF FileMild
  <2> QED BY <2>1 DEF FilesMild
<1>11. ArchivesMild(s)
  BY <1>1, <1>5, ArchivesSame
<1> QED BY <1>1, <1>3, <1>6, <1>7, <1>8, <1>9, <1>10, <1>11, StepRule

LEMMA SupOp ==
  ASSUME IInv, NEW s \in Slots, slot[s].pc \in {"supOpen", "supClose", "closing"}
  PROVE  /\ Busy(s) /\ slot[s].job.op \in {"supOpen", "supClose"} /\ ~NeedsHandle(slot[s].job)
         /\ CallOf(s) /\ Handles /\ (slot[s].pc # "supOpen" => slot[s].job.op = "supClose")
<1>1. Busy(s)
  BY DEF Busy, Free
<1>2. CallOf(s) /\ Handles
  BY <1>1 DEF IInv, Own
<1>3. slot[s].job.op \in {"supOpen", "supClose"} /\ (slot[s].pc # "supOpen" => slot[s].job.op = "supClose")
  BY <1>2 DEF CallOf, Fits
<1> QED BY <1>1, <1>2, <1>3 DEF NeedsHandle

LEMMA OpenKeeps ==
  ASSUME IInv, NEW s \in Slots, Open(s)
  PROVE  IInv'
<1>1. /\ Busy(s) /\ slot[s].job.op # "recall" /\ End(s, {})
      /\ UNCHANGED <<inode, path, arch, told, made>>
  BY SupOp DEF Open
<1>2. CASE UNCHANGED <<handle, dbs>>
  BY <1>1, <1>2, EndRule
<1>3. CASE handle' = Opened(path) /\ dbs' = Len(handle) + 1
  <2>1. slot'[s] = Ended(s, {}) /\ Frame(s)
    BY <1>1, FrameOf DEF End
  <2>2. Own(s)' /\ Turn(s)
    BY <1>1, <2>1, EndedOwn
  <2>3. Handles' /\ HandlesMild
    BY <1>1, <1>3, OpenedOne DEF IInv, Files
  <2> QED BY <1>1, <2>1, <2>2, <2>3, OwnRule
<1> QED BY <1>2, <1>3 DEF Open

LEMMA CloseKeeps ==
  ASSUME IInv, NEW s \in Slots, Close(s)
  PROVE  IInv'
<1> DEFINE x == [slot[s] EXCEPT !.pc = "closing", !.h = dbs]
<1>1. /\ Busy(s) /\ slot[s].job.op = "supClose" /\ ~NeedsHandle(slot[s].job) /\ dbs' = 0
      /\ UNCHANGED <<inode, path, handle, arch, told, made>>
      /\ CallOf(s) /\ Handles
  BY SupOp DEF Close
<1>2. CASE dbs = 0
  BY <1>1, <1>2, EndRule DEF Close
<1>3. CASE dbs # 0
  <2>1. slot' = [slot EXCEPT ![s] = x]
    BY <1>3 DEF Close
  <2>2. SlotShape(x) /\ x.n = slot[s].n /\ x.job = slot[s].job /\ x.pc = "closing" /\ x.h = dbs
    BY SlotOf DEF SlotShape, Fields
  <2> HIDE DEF x
  <2>3. slot'[s] = x /\ Frame(s)
    BY <2>1, FrameOf
  <2>4. Turn(s)
    BY <1>1, <2>2, <2>3 DEF Turn, Minting
  <2>5. Handles' /\ HandlesMild
    BY <1>1 DEF Handles, HandlesMild
  <2>6. CallOf(s)' /\ HandleOf(s)'
    BY <1>1, <1>3, <2>1, <2>2, <2>3 DEF CallOf, HandleOf, Fits
  <2>7. WriterOf(s)' /\ RecallOf(s)' /\ FlagOf(s)' /\ ArcOf(s)' /\ ImportOf(s)'
    BY <1>1, <2>2, <2>3 DEF WriterOf, RecallOf, FlagOf, ArcOf, ImportOf
  <2>8. Own(s)'
    BY <1>1, <2>2, <2>3, <2>6, <2>7 DEF Own
  <2> QED BY <1>1, <2>3, <2>4, <2>5, <2>8, OwnRule
<1> QED BY <1>2, <1>3

LEMMA ClosingKeeps ==
  ASSUME IInv, NEW s \in Slots, Closing(s)
  PROVE  IInv'
<1>1. Busy(s) /\ slot[s].job.op # "recall"
  BY SupOp DEF Closing
<1> QED BY <1>1, CloseEndRule DEF Closing

-----------------------------------------------------------------------------
(* A new call, a crash, the start *)

LEMMA IdleIs == SlotShape(Idle) /\ Idle.pc = "idle" /\ Idle.job.op = "none" /\ Idle.out = {}
BY DEF Idle, SlotShape, Fields

LEMMA AcceptedJob ==
  ASSUME NEW n \in DOMAIN Jobs, NEW job \in Jobs[n], Accepts(job)
  PROVE  /\ Fits(job.op, FirstPc(job)) /\ FirstPc(job) \notin {"idle", "done", "write", "commit"}
         /\ job.op = "remember" => job.row \in Rows
         /\ FirstPc(job) = "query" <=> job.op \in QueryOps
         /\ FirstPc(job) = "fetch" <=> job.op = "import"
         /\ FirstPc(job) \in {"begin", "query", "flagSelect", "arc", "tick", "fetch", "supOpen", "supClose"}
<1>1. /\ job.op \in TxOps \union QueryOps \union
                    {"flag", "archive", "backup", "import", "supOpen", "supClose"}
      /\ job.op = "remember" /\ job.flaw = "none" => job.row \in Rows
  BY JobsAssumption
<1>2. job.op = "remember" => job.flaw = "none"
  <2>1. job.op = "remember" => validate(job)
    BY DEF Accepts
  <2> QED BY <2>1 DEF validate
<1>3. CASE job.op \in TxOps
  <2>1. job.op \notin QueryOps /\ job.op # "import"
    BY <1>3 DEF TxOps, QueryOps
  <2>2. FirstPc(job) = "begin"
    BY <1>3, <2>1 DEF FirstPc, TxOps
  <2> QED BY <1>2, <1>3, <1>1, <2>1, <2>2 DEF Fits
<1>4. CASE job.op \in QueryOps
  BY <1>4 DEF FirstPc, Fits, TxOps, QueryOps
<1>5. CASE job.op \in {"flag", "archive", "backup", "import", "supOpen", "supClose"}
  BY <1>5 DEF FirstPc, Fits, TxOps, QueryOps
<1>6. job.op = "remember" => job.row \in Rows
  BY <1>1, <1>2
<1> QED BY <1>1, <1>3, <1>4, <1>5, <1>6

(* What a call must respect of the file it will work on. *)
LEMMA PastIs ==
  ASSUME IInv, NEW f \in DOMAIN inode
  PROVE  \A i \in Past(f).gone \union Past(f).flagged :
           Old(i) /\ (i \in Ids(f) => i \notin Past(f).gone /\ inode[f].entry[i].review)
<1>1. Known(f)
  BY DEF IInv, Telling
<1>2. \/ Past(f).gone = {} /\ Past(f).flagged = {}
      \/ Past(f).gone = told.gone[f] /\ Past(f).flagged = told.flagged[f]
  BY DEF Past
<1> QED BY <1>1, <1>2 DEF Known

LEMMA LookupKeeps ==
  ASSUME IInv, NEW s \in Slots, NEW job, Lookup(s, job)
  PROVE  IInv'
<1> DEFINE goes == Accepts(job) /\ (NeedsHandle(job) => dbs # 0)
           pc == FirstPc(job)
           f == handle[dbs].file
           P == Past(f)
           x == [Idle EXCEPT !.pc = pc, !.job = job, !.n = made + 1, !.at = now, !.h = dbs,
                             !.gone = P.gone, !.flagged = P.flagged, !.a = "vacuum", !.p = "copy"]
           y == [Idle EXCEPT !.pc = "done", !.job = job]
           z == [Idle EXCEPT !.pc = pc, !.job = job, !.n = made + 1]
           w == IF ~goes THEN y ELSE IF NeedsHandle(job) THEN x ELSE z
<1>1. /\ ~Busy(s) /\ made < Len(Jobs) /\ job \in Jobs[made + 1] /\ made' = made + 1
      /\ slot' = [slot EXCEPT ![s] = w]
      /\ UNCHANGED <<inode, path, handle, dbs, arch, told>>
  BY DEF Lookup, Busy
<1>2. made \in Nat /\ Len(Jobs) \in Nat /\ made + 1 \in DOMAIN Jobs
  <2>1. made \in Nat /\ Len(Jobs) \in Nat /\ DOMAIN Jobs = 1..Len(Jobs)
    BY SlotOf, JobsLen
  <2> QED BY <1>1, <2>1
<1>3. goes => /\ Fits(job.op, pc) /\ pc \notin {"idle", "done", "write", "commit"}
              /\ job.op = "remember" => job.row \in Rows
              /\ pc = "query" <=> job.op \in QueryOps
              /\ pc = "fetch" <=> job.op = "import"
              /\ pc \in {"begin", "query", "flagSelect", "arc", "tick", "fetch", "supOpen", "supClose"}
  BY <1>1, <1>2, AcceptedJob
<1> HIDE DEF pc, P
<1>4. /\ SlotShape(x) /\ x.pc = pc /\ x.job = job /\ x.n = made + 1 /\ x.h = dbs
      /\ x.gone = P.gone /\ x.flagged = P.flagged /\ x.a = "vacuum" /\ x.p = "copy"
      /\ SlotShape(y) /\ y.pc = "done" /\ y.job = job /\ y.out = {}
      /\ SlotShape(z) /\ z.pc = pc /\ z.job = job /\ z.n = made + 1
  BY IdleIs DEF SlotShape, Fields
<1> HIDE DEF x, y, z, goes
<1>5. Frame(s) /\ slot'[s] = w
  BY <1>1, FrameOf
<1>6. SlotShape(w) /\ w.job = job /\ (goes => w.pc = pc /\ w.n = made + 1)
  BY <1>4
<1>7. ~goes => w.pc = "done" /\ w.out = {}
  BY <1>4
<1>8. goes /\ NeedsHandle(job) =>
        w.h = dbs /\ w.gone = P.gone /\ w.flagged = P.flagged /\ w.a = "vacuum" /\ w.p = "copy"
  BY <1>4
<1> HIDE DEF w
<1>9. OldKept(s)
  BY <1>1, <1>3, <1>5, <1>6, <1>7 DEF OldKept, Minting
<1>10. \A i : Old(i) => Old(i)'
  BY <1>5, <1>9, OldStays
<1>11. Handles /\ Handles' /\ HandlesMild
  BY <1>1, HandlesStay DEF IInv
<1>12. Files' /\ Archives' /\ Telling'
  BY <1>1, <1>5, <1>9, FilesStay, ArchivesStay, TellingStays
<1>13. FilesMild(s) /\ ArchivesMild(s)
  BY <1>1, FilesSame, ArchivesSame
<1>14. \A r \in Slots \ {s} : Own(r)'
  <2>1. made' >= made
    BY <1>1, <1>2
  <2> QED BY <1>1, <1>5, <1>9, <1>11, <1>13, <2>1, OthersKeep
<1>15. Own(s)'
  <2>1. CASE ~goes
    BY <1>5, <1>6, <1>7, <2>1 DEF Own, Busy, Free
  <2>2. CASE goes
    <3>1. CallOf(s)'
      BY <1>1, <1>2, <1>3, <1>5, <1>6, <2>2 DEF CallOf
    <3>2. NeedsHandle(job) => dbs \in DOMAIN handle /\ f \in DOMAIN inode
      BY <1>11, <2>2 DEF goes, Handles
    <3>3. HandleOf(s)'
      BY <1>1, <1>3, <1>5, <1>6, <1>8, <2>2, <3>2 DEF HandleOf
    <3>4. WriterOf(s)' /\ FlagOf(s)'
      BY <1>3, <1>5, <1>6, <2>2 DEF WriterOf, FlagOf
    <3>5. ArcOf(s)'
      <4>1. pc = "arc" => NeedsHandle(job)
        BY <1>3, <2>2 DEF Fits, NeedsHandle, TxOps, QueryOps
      <4> QED BY <1>5, <1>6, <1>8, <2>2, <4>1 DEF ArcOf
    <3>6. RecallOf(s)'
      <4>f. PICK g : g = f
        OBVIOUS
      <4> HIDE DEF f
      <4>1. CASE NeedsHandle(job)
        <5>1. \A i \in P.gone \union P.flagged :
                Old(i) /\ (i \in Ids(g) => i \notin P.gone /\ inode[g].entry[i].review)
          BY <3>2, <4>1, <4>f, PastIs DEF P
        <5>2. File(s)' = g /\ Tables(s)' = inode[g] /\ Ids(File(s))' = Ids(g)
          BY <1>1, <1>5, <1>8, <2>2, <4>1, <4>f DEF File, Tables, Ids, f
        <5> QED BY <1>5, <1>8, <1>10, <2>2, <4>1, <5>1, <5>2 DEF RecallOf
      <4>2. CASE ~NeedsHandle(job)
        <5>1. job.op # "recall"
          BY <4>2 DEF NeedsHandle
        <5> QED BY <1>5, <1>6, <5>1 DEF RecallOf
      <4> QED BY <4>1, <4>2
    <3>7. ImportOf(s)'
      BY <1>3, <1>5, <1>6, <2>2 DEF ImportOf
    <3>8. slot'[s].pc # "done"
      BY <1>3, <1>5, <1>6, <2>2
    <3> QED BY <1>5, <1>6, <3>1, <3>3, <3>4, <3>5, <3>6, <3>7, <3>8 DEF Own
  <2> QED BY <2>1, <2>2
<1>16. Apart'
  <2>1. ASSUME NEW q \in Slots \ {s}
        PROVE  /\ slot'[q].pc = slot[q].pc /\ slot'[q].n = slot[q].n
               /\ (Busy(q)' <=> Busy(q)) /\ (Busy(q) => slot[q].n \in 1..made)
               /\ (slot[q].pc = "commit" => File(q)' = File(q))
    <3>1. slot'[q].pc = slot[q].pc /\ slot'[q].n = slot[q].n /\ slot'[q].h = slot[q].h
      BY <1>5 DEF Frame, Fields
    <3>2. Busy(q)' <=> Busy(q)
      BY <3>1 DEF Busy, Free
    <3>3. Busy(q) => slot[q].n \in 1..made
      BY DEF IInv, Own, CallOf
    <3> QED BY <1>1, <3>1, <3>2, <3>3 DEF File
  <2>2. Busy(s)' => slot'[s].n = made + 1
    BY <1>5, <1>6, <1>7 DEF Busy, Free
  <2>3. slot'[s].pc # "commit"
    BY <1>3, <1>5, <1>6, <1>7
  <2>4. ASSUME NEW p \in Slots, NEW r \in Slots, p # r, Busy(p)', Busy(r)'
        PROVE  slot'[p].n # slot'[r].n
    <3>1. CASE p # s /\ r # s
      BY <2>1, <2>4, <3>1 DEF IInv, Apart
    <3>2. CASE p = s \/ r = s
      BY <1>2, <2>1, <2>2, <2>4, <3>2
    <3> QED BY <3>1, <3>2
  <2>5. ASSUME NEW p \in Slots, slot'[p].pc = "commit", NEW r \in Slots \ {p}, slot'[r].pc = "commit"
        PROVE  File(r)' # File(p)'
    <3>1. slot[p].pc = "commit" /\ slot[r].pc = "commit" /\ File(p)' = File(p) /\ File(r)' = File(r)
      BY <2>1, <2>3, <2>5
    <3> QED BY <2>5, <3>1 DEF IInv, Apart, Sole
  <2> QED BY <2>4, <2>5 DEF Apart, Sole
<1>17. slot' = [r \in Slots |-> slot'[r]] /\ made' \in 0..Len(Jobs)
  BY <1>1, <1>2, <1>5 DEF Frame
<1> QED BY <1>11, <1>12, <1>14, <1>15, <1>16, <1>17 DEF IInv

LEMMA DeadHandle ==
  ASSUME NEW g, NEW v, g = [open |-> g.open, file |-> g.file, tx |-> g.tx]
  PROVE  LET y == [g EXCEPT !.open = v, !.tx = 0] IN
         y = [open |-> y.open, file |-> y.file, tx |-> y.tx] /\ y.file = g.file
<1> DEFINE y == [g EXCEPT !.open = v, !.tx = 0]
<1>1. DOMAIN y = {"open", "file", "tx"} /\ y = [f \in DOMAIN y |-> y[f]] /\ y.file = g.file
  OBVIOUS
<1> HIDE DEF y
<1>2. y = [open |-> y.open, file |-> y.file, tx |-> y.tx]
  BY <1>1
<1> QED BY <1>1, <1>2 DEF y

LEMMA CrashKeeps ==
  ASSUME IInv, Crash
  PROVE  IInv'
<1>1. /\ slot' = [s \in Slots |-> Idle] /\ dbs' = 0
      /\ handle' = [h \in DOMAIN handle |-> [handle[h] EXCEPT !.open = FALSE, !.tx = 0]]
      /\ UNCHANGED <<inode, path, arch, made, told>>
  BY DEF Crash
<1>2. \A s \in Slots : slot'[s] = Idle
  BY <1>1
<1>3. \A s \in Slots : Own(s)' /\ ~Busy(s)' /\ ~Minting(s)'
  BY <1>2, IdleIs DEF Own, Busy, Free, Minting
<1>4. \A i : Old(i) => Old(i)'
  BY <1>1, <1>3 DEF Old
<1>5. Apart'
  <2>1. \A s \in Slots : slot'[s].pc = "idle"
    BY <1>2, IdleIs
  <2> QED BY <1>3, <2>1 DEF Apart
<1>7. Files'
  BY <1>1, <1>4 DEF IInv, Files, Ids
<1>8. Archives'
  <2> SUFFICES ASSUME NEW a \in DOMAIN arch' PROVE Archive(arch[a])'
    BY <1>1 DEF IInv, Archives
  <2>1. Archive(arch[a])
    BY <1>1 DEF IInv, Archives
  <2> QED BY <1>1, <1>4, <2>1 DEF Archive
<1>9. Telling'
  <2>1. \A f \in DOMAIN inode : Known(f)'
    BY <1>1, <1>4, KnownStays
  <2> QED BY <1>1, <2>1 DEF IInv, Telling, Addresses
<1>10. Handles'
  <2>1. IsSeq(handle) /\ Handles
    BY DEF IInv, Handles
  <2>2. ASSUME NEW h \in DOMAIN handle
        PROVE  /\ handle'[h] = [open |-> handle'[h].open, file |-> handle'[h].file, tx |-> handle'[h].tx]
               /\ handle'[h].file \in DOMAIN inode'
    BY <1>1, <2>1, DeadHandle DEF Handles
  <2>3. \A h \in DOMAIN handle :
          /\ handle'[h] = [open |-> handle'[h].open, file |-> handle'[h].file, tx |-> handle'[h].tx]
          /\ handle'[h].file \in DOMAIN inode'
    BY <2>2
  <2>4. DOMAIN handle' = DOMAIN handle /\ DOMAIN handle = 1..Len(handle) /\ Len(handle) \in Nat
    BY <1>1, <2>1, SeqAppend
  <2>5. handle' = [h \in 1..Len(handle) |-> handle'[h]]
    BY <1>1, <2>4
  <2>6. IsSeq(handle')
    <3> DEFINE T == {handle'[i] : i \in DOMAIN handle'}
    <3>1. handle' \in [1..Len(handle) -> T]
      BY <2>4, <2>5
    <3>2. handle' \in Seq(T)
      BY <2>4, <3>1
    <3> QED BY <3>2 DEF IsSeq
  <2> QED BY <1>1, <2>3, <2>4, <2>6 DEF Handles
<1> QED BY <1>1, <1>3, <1>5, <1>7, <1>8, <1>9, <1>10 DEF IInv

LEMMA NothingKeeps ==
  ASSUME IInv, UNCHANGED <<inode, path, handle, dbs, slot, arch, made, told>>
  PROVE  IInv'
<1>1. \A i : Old(i) <=> Old(i)'
  BY DEF Old, Minting
<1>2. \A f : Ids(f)' = Ids(f)
  BY DEF Ids
<1>3. ASSUME NEW s \in Slots PROVE Own(s)'
  <2>f. PICK f : f = File(s)
    OBVIOUS
  <2>1. File(s)' = f /\ Tables(s)' = Tables(s) /\ Ids(File(s))' = Ids(File(s))
    BY <2>f DEF Tables, File, Ids
  <2>2. CallOf(s) => CallOf(s)'
    BY DEF CallOf
  <2>3. HandleOf(s) => HandleOf(s)'
    BY DEF HandleOf
  <2>4. WriterOf(s) => WriterOf(s)'
    <3>1. Written(s)' = Written(s) /\ Target(s)' = Target(s)
      BY <2>1 DEF Written, Target
    <3> QED BY <2>1, <2>f, <3>1 DEF WriterOf
  <2>5. RecallOf(s) => RecallOf(s)'
    BY <1>1, <2>1, <2>f DEF RecallOf, Ids, Tables
  <2>6. FlagOf(s) => FlagOf(s)'
    BY <1>1, <2>1, <2>f DEF FlagOf, Ids, Tables
  <2>7. ArcOf(s) => ArcOf(s)'
    BY <1>1 DEF ArcOf
  <2>8. ImportOf(s) => ImportOf(s)'
    BY <1>1 DEF ImportOf
  <2> QED BY <2>2, <2>3, <2>4, <2>5, <2>6, <2>7, <2>8 DEF IInv, Own, Busy, Free
<1>4. Files'
  BY <1>1, <1>2 DEF IInv, Files
<1>5. Archives'
  BY <1>1 DEF IInv, Archives, Archive
<1>6. Handles' /\ Apart'
  BY DEF IInv, Handles, Apart, Sole, File, Busy, Free
<1>7. Telling'
  <2>1. \A f \in DOMAIN inode : Known(f)'
    BY <1>1, KnownStays
  <2> QED BY <2>1 DEF IInv, Telling, Addresses
<1> QED BY <1>3, <1>4, <1>5, <1>6, <1>7 DEF IInv

LEMMA InitIInv == Init => IInv
<1> SUFFICES ASSUME Init PROVE IInv
  OBVIOUS
<1>1. PICK e \in Starts :
        /\ inode = <<[entry |-> e, vec |-> DOMAIN e]>> /\ path = 1
        /\ IF e = <<>> THEN handle = <<>> /\ dbs = 0
                       ELSE handle = <<[open |-> TRUE, file |-> 1, tx |-> 0]>> /\ dbs = 1
        /\ told = [kept |-> <<DOMAIN e>>, undone |-> <<{}>>, gone |-> <<{}>>, flagged |-> <<{}>>,
                   torn |-> {}, uris |-> {}, clash |-> {}]
  BY DEF Init
<1>2. slot = [s \in Slots |-> Idle] /\ arch = Archive0 /\ made = 0
  BY DEF Init
<1>3. \A s \in Slots : Own(s) /\ ~Busy(s) /\ ~Minting(s)
  <2>1. \A s \in Slots : slot[s] = Idle
    BY <1>2
  <2> QED BY <2>1, IdleIs DEF Own, Busy, Free, Minting
<1>4. \A i : i \notin Minted => Old(i)
  BY <1>2, <1>3, JobsLen DEF Old, Minted
<1>5. Entries(e)
  BY StartsAssumption
<1> DEFINE c == [entry |-> e, vec |-> DOMAIN e]
<1>6. inode = <<c>> /\ c.entry = e /\ Content(c)
  BY <1>1, <1>5 DEF Content, Entries
<1> HIDE DEF c
<1>o. \A v : IsSeq(<<v>>) /\ DOMAIN <<v>> = {1} /\ <<v>>[1] = v
  <2> SUFFICES ASSUME NEW v PROVE IsSeq(<<v>>) /\ DOMAIN <<v>> = {1} /\ <<v>>[1] = v
    OBVIOUS
  <2>1. <<v>> \in Seq({v}) /\ DOMAIN <<v>> = {1} /\ <<v>>[1] = v
    OBVIOUS
  <2>2. {<<v>>[i] : i \in DOMAIN <<v>>} = {v}
    BY <2>1
  <2> QED BY <2>1, <2>2 DEF IsSeq
<1>7. Files /\ DOMAIN inode = {1} /\ Ids(1) = DOMAIN e
  <2>1. IsSeq(inode) /\ DOMAIN inode = {1} /\ inode[1] = c
    BY <1>6, <1>o
  <2>2. Ids(1) = DOMAIN e
    BY <1>6, <2>1 DEF Ids
  <2>3. \A i \in Ids(1) : Old(i)
    BY <1>4, <1>5, <2>2 DEF Entries
  <2>4. \A f \in DOMAIN inode : f = 1
    BY <2>1
  <2> QED BY <1>1, <1>6, <2>1, <2>2, <2>3, <2>4 DEF Files
<1>8. Handles
  <2>1. CASE e = <<>>
    BY <1>1, <2>1 DEF Handles, IsSeq
  <2>2. CASE e # <<>>
    <3>1. handle = <<[open |-> TRUE, file |-> 1, tx |-> 0]>> /\ dbs = 1 /\ path = 1
      BY <1>1, <2>2
    <3> DEFINE g == [open |-> TRUE, file |-> 1, tx |-> 0]
    <3>2. g = [open |-> g.open, file |-> g.file, tx |-> g.tx] /\ g.file = 1
      OBVIOUS
    <3>3. handle = <<g>>
      BY <3>1
    <3> HIDE DEF g
    <3>4. IsSeq(handle) /\ DOMAIN handle = {1} /\ handle[1] = g
      BY <1>o, <3>3
    <3> QED BY <1>7, <3>1, <3>2, <3>4 DEF Handles
  <2> QED BY <2>1, <2>2
<1>9. Archives
  <2> SUFFICES ASSUME NEW a \in DOMAIN arch PROVE Archive(arch[a])
    BY <1>2, Archive0Assumption DEF Archives
  <2> DEFINE z == arch[a]
  <2>1. /\ z = [whole |-> z.whole, schema |-> z.schema, full |-> z.full, snap |-> z.snap, by |-> 0]
        /\ z.whole => z.full
        /\ z.snap = [entry |-> z.snap.entry, vec |-> z.snap.vec]
        /\ Entries(z.snap.entry) /\ (z.schema => DOMAIN z.snap.entry = z.snap.vec)
    BY <1>2, Archive0Assumption
  <2> HIDE DEF z
  <2>2. z.by = 0
    BY <2>1
  <2>3. z.schema => Content(z.snap)
    BY <2>1 DEF Entries, Content
  <2>4. \A i \in DOMAIN z.snap.entry : Old(i)
    BY <1>4, <2>1 DEF Entries
  <2>5. Archive(z)
    BY <2>1, <2>2, <2>3, <2>4 DEF Archive
  <2> QED BY <2>5 DEF z
<1>10. Telling
  <2>1. /\ \A k \in {"undone", "gone", "flagged"} : told[k] = <<{}>>
        /\ told["kept"] = <<DOMAIN e>> /\ told = [k \in ToldFields |-> told[k]] /\ told.uris = {}
    <3>1. ToldFields = {"kept", "undone", "gone", "flagged", "torn", "uris", "clash"}
      BY DEF ToldFields, PerFile
    <3>2. PICK d, e1 : d = DOMAIN e /\ e1 = <<{}>>
      OBVIOUS
    <3>3. told = [kept |-> <<d>>, undone |-> e1, gone |-> e1, flagged |-> e1,
                  torn |-> {}, uris |-> {}, clash |-> {}]
      BY <1>1, <3>2
    <3>4. told = [k \in ToldFields |-> told[k]]
      BY <3>1, <3>3
    <3>5. /\ told["kept"] = <<d>> /\ told["undone"] = e1 /\ told["gone"] = e1
          /\ told["flagged"] = e1 /\ told.uris = {}
      BY <3>3
    <3> QED BY <3>2, <3>4, <3>5
  <2>2. \A k \in PerFile : IsSeq(told[k]) /\ DOMAIN told[k] = DOMAIN inode
    <3>1. \A k \in PerFile : k = "kept" \/ k \in {"undone", "gone", "flagged"}
      BY DEF PerFile
    <3> QED BY <1>7, <1>o, <2>1, <3>1
  <2>3. told.undone[1] = {} /\ told.gone[1] = {} /\ told.flagged[1] = {} /\ told.kept[1] = DOMAIN e
    BY <1>o, <2>1
  <2>4. Known(1)
    BY <1>7, <2>3 DEF Known
  <2>5. \A f \in DOMAIN inode : Known(f)
    BY <1>7, <2>4
  <2> QED BY <2>1, <2>2, <2>5 DEF Telling, ToldShape, Addresses
<1>11. Apart
  <2>1. \A s \in Slots : slot[s].pc = "idle"
    BY <1>2, IdleIs
  <2> QED BY <1>3, <2>1 DEF Apart
<1> QED BY <1>2, <1>3, <1>7, <1>8, <1>9, <1>10, <1>11, JobsLen DEF IInv

LEMMA InvStep == IInv /\ [Next]_vars => IInv'
<1> SUFFICES ASSUME IInv, [Next]_vars PROVE IInv'
  OBVIOUS
<1>1. ASSUME NEW s \in Slots, StoreStep(s) PROVE IInv'
  BY <1>1, BeginTxKeeps, ReadInTxKeeps, WriteInTxKeeps, CommitKeeps, LogAppendKeeps, QueryKeeps,
     Query2Keeps, PromotedKeeps, FlagSelectKeeps, FlagEndKeeps, evaluateAndFlagCandidateKeeps
     DEF StoreStep
<1>2. ASSUME NEW s \in Slots, PutStep(s) PROVE IInv'
  BY <1>2, StreamKeeps, ArchiveFaultKeeps, PutKeeps, writeTarballKeeps, archiveAndAuditKeeps,
     VacuumKeeps DEF PutStep
<1>3. ASSUME NEW s \in Slots, OtherStep(s) PROVE IInv'
  BY <1>3, FetchKeeps, ImportKeeps, RemoveSidecarsKeeps, ImportRenameKeeps, ImportedKeeps,
     OpenKeeps, CloseKeeps, ClosingKeeps, CancelKeeps DEF OtherStep
<1>4. ASSUME NEW s \in Slots, Fault(s) PROVE IInv'
  BY <1>4, TxFaultKeeps, QueryFaultKeeps, ArchiveFaultKeeps, PutFaultKeeps, ImportFaultKeeps DEF Fault
<1>5. ASSUME NEW s \in Slots, Tick(s) PROVE IInv'
  BY <1>5, TickKeeps
<1>6. ASSUME NEW s \in Slots, NEW j, Lookup(s, j) PROVE IInv'
  BY <1>6, LookupKeeps
<1>7. CASE Crash
  BY <1>7, CrashKeeps
<1>8. CASE Clock
  BY <1>8, NothingKeeps DEF Clock
<1>9. CASE UNCHANGED vars
  BY <1>9, NothingKeeps DEF vars
<1> QED BY <1>1, <1>2, <1>3, <1>4, <1>5, <1>6, <1>7, <1>8, <1>9 DEF Next, Step

LEMMA Invariance == Spec => []IInv
BY InitIInv, InvStep, PTL DEF Spec

(* The entry and the vector tables hold the same ids, in every file and    *)
(* archive: Remember and Forget write both in one transaction              *)
(* (remember.go, forget.go), and every snapshot and import takes both.     *)
THEOREM TablesInStep == Spec => []RowsInStep
<1>1. IInv => RowsInStep
  <2> SUFFICES ASSUME IInv PROVE RowsInStep
    OBVIOUS
  <2>1. \A f \in DOMAIN inode : DOMAIN inode[f].entry = inode[f].vec
    BY DEF IInv, Files, Content
  <2>2. \A a \in DOMAIN arch : arch[a].schema => DOMAIN arch[a].snap.entry = arch[a].snap.vec
    BY DEF IInv, Archives, Archive, Content
  <2> QED BY <2>1, <2>2 DEF RowsInStep
<1> QED BY <1>1, Invariance, PTL

(* What Remember and Forget report to their callers stays true of the file *)
(* the path names until somebody undoes it, through crashes, reopening and *)
(* other handles, unless an import removed its log under an open handle    *)
(* (remember.go, forget.go).  An import that has counted no entry drops    *)
(* none that had been reported by then (import.go).                        *)
THEOREM AcksHold == Spec => []AckedIsKept
<1>1. IInv => AckedIsKept
  <2> SUFFICES ASSUME IInv PROVE AckedIsKept
    OBVIOUS
  <2>1. path \in DOMAIN inode /\ Known(path) /\ Ids(path) = DOMAIN inode[path].entry
    BY DEF IInv, Files, Telling, Ids
  <2>2. ASSUME NEW s \in Slots, slot[s].pc \in {"sidecars", "rename"} PROVE slot[s].seen = {}
    BY <2>2, ImportIs DEF ImportOf
  <2> QED BY <2>1, <2>2 DEF Known, AckedIsKept
<1> QED BY <1>1, Invariance, PTL

(* A recall returns nothing that was forgotten, and no lesson that was     *)
(* flagged and not cleared, before it began (recall.go's filters).         *)
THEOREM RecallHolds == Spec => []RecallRespects
<1>1. IInv => RecallRespects
  BY DEF IInv, Own, RecallRespects
<1> QED BY <1>1, Invariance, PTL

(* An archive whose address a caller was given is in the store, complete   *)
(* and of the snapshot it took, but for two put in the same second         *)
(* (archivestore's names), and a complete tarball is all of a snapshot.    *)
THEOREM ArchivesHold == Spec => []ArchiveIsWhole
<1>1. IInv => ArchiveIsWhole
  <2> SUFFICES ASSUME IInv PROVE ArchiveIsWhole
    OBVIOUS
  <2>1. \A a \in DOMAIN arch : arch[a].whole => arch[a].full
    BY DEF IInv, Archives, Archive
  <2> QED BY <2>1 DEF IInv, Telling, Addresses, ArchiveIsWhole
<1> QED BY <1>1, Invariance, PTL
=============================================================================
