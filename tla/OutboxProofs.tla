---------------------------- MODULE OutboxProofs ----------------------------
(***************************************************************************)
(* The two ends of the event stream, for any numbers of rows, connections, *)
(* events and faults and any buffer, cache and retry limits: Keep's        *)
(* publisher offers every row whole and, unless a tick was rolled back,    *)
(* once (OfferedOnce), and the core process's consumer publishes an id     *)
(* once per window of its cache and nothing after a Stop (DeliveredOnce).  *)
(*                                                                         *)
(* Neither property is inductive.  The publisher's needs where a row is    *)
(* while its tick is open: a subscriber holds only rows that are stamped,  *)
(* staged or about to be (OnceInv), so the next row of the batch is new to *)
(* it.  The consumer's needs how the cache follows what was published:     *)
(* after the last publish of an id that is forgotten, every id of the full *)
(* cache was published again (Trail and Forgotten), which is the window    *)
(* NoRepeatInWindow counts.                                                *)
(***************************************************************************)
EXTENDS KeepPublish, OutboxConsumer, FunctionTheorems, FiniteSetTheorems,
        SequenceTheorems, TLAPS

(* Sequences.                                                                *)
LEMMA TailIs ==
  ASSUME NEW S, NEW q \in Seq(S), Len(q) >= 1
  PROVE  /\ Tail(q) \in Seq(S) /\ Len(q) = Len(Tail(q)) + 1
         /\ \A m \in 1..Len(Tail(q)) : Tail(q)[m] = q[m + 1]
<1>1. q # <<>> /\ Len(q) \in Nat
  OBVIOUS
<1>2. Tail(q) \in Seq(S) /\ Len(Tail(q)) = Len(q) - 1
  BY <1>1
<1>3. \A m \in 1..Len(Tail(q)) : Tail(q)[m] = q[m + 1]
  BY <1>1, <1>2
<1> QED BY <1>1, <1>2, <1>3

LEMMA Grown ==
  ASSUME NEW S, NEW q \in Seq(S), NEW e \in S
  PROVE  /\ Len(q) \in Nat /\ DOMAIN q = 1..Len(q) /\ Append(q, e) \in Seq(S)
         /\ Len(Append(q, e)) = Len(q) + 1 /\ DOMAIN Append(q, e) = 1..(Len(q) + 1)
         /\ Append(q, e)[Len(q) + 1] = e
         /\ \A i \in 1..Len(q) : i \in 1..(Len(q) + 1) /\ Append(q, e)[i] = q[i]
OBVIOUS

(* A sequence without repeats has as many elements as places. *)
LEMMA AsManyAsPlaces ==
  ASSUME NEW S, NEW q \in Seq(S), IsInjective(q)
  PROVE  IsFiniteSet(ToSet(q)) /\ Cardinality(ToSet(q)) = Len(q)
<1> DEFINE n == Len(q)
<1>1. n \in Nat /\ DOMAIN q = 1..n
  OBVIOUS
<1>2. q \in Bijection(1..n, ToSet(q))
  <2>1. q \in [1..n -> ToSet(q)]
    BY <1>1 DEF ToSet
  <2>2. \A a, b \in 1..n : q[a] = q[b] => a = b
    BY <1>1 DEF IsInjective
  <2>3. \A x \in ToSet(q) : \E a \in 1..n : q[a] = x
    BY <1>1 DEF ToSet
  <2> QED BY <2>1, <2>2, <2>3, Fun_IsBij
<1>3. ExistsBijection(1..n, ToSet(q))
  BY <1>2 DEF ExistsBijection
<1> HIDE DEF n
<1>4. Cardinality(ToSet(q)) = n
  BY <1>1, <1>3, FS_CountingElements
<1>5. IsFiniteSet(ToSet(q))
  BY <1>1, <1>3, FS_NatBijection
<1> QED BY <1>4, <1>5 DEF n

-----------------------------------------------------------------------------
(* The publisher, the registry and the SSE handlers.                         *)

(* The rows the worker's tick has yet to publish are neither stamped nor      *)
(* staged, those it has staged were offered.                                 *)
TickInv ==
  /\ visible \subseteq Rows /\ stamped \subseteq offered /\ offered \subseteq visible
  /\ tick = [pc |-> tick.pc, batch |-> tick.batch, staged |-> tick.staged]
  /\ tick.pc \in {"idle", "publish", "stamp", "stopped"}
  /\ tick.batch \in Seq(visible \ (stamped \cup tick.staged)) /\ IsInjective(tick.batch)
  /\ tick.staged \subseteq offered
  /\ tick.pc = "stamp" => tick.batch # <<>> /\ Head(tick.batch) \in offered
  /\ tick.pc = "idle" => tick.staged = {}

(* The worker publishes only while the registry is open.                     *)
ServerInv ==
  /\ phase \in {"up", "stopping", "failing", "closed", "draining", "down"}
  /\ regOpen \in BOOLEAN /\ (phase = "up" => regOpen)
  /\ faults \in 0..MaxFaults

(* A connection that has not registered has received nothing.                *)
ConnInv ==
  /\ subs \subseteq Conns
  /\ conn \in [Conns -> {"none", "flushed", "streaming", "writing", "ended"}]
  /\ chan \in [Conns -> Seq(Rows)] /\ wire \in [Conns -> Seq(Rows)]
  /\ joined \in [Conns -> SUBSET Rows]
  /\ \A c \in Conns : Len(chan[c]) <= BufSize
  /\ \A c \in subs : conn[c] \in {"streaming", "writing"}
  /\ \A c \in Conns : conn[c] \in {"none", "flushed"} => wire[c] = <<>> /\ chan[c] = <<>>

(* Until a tick is rolled back, what a subscriber of a server that is up has  *)
(* received is stamped, or staged, or the row about to be staged.            *)
Offering ==
  stamped \cup tick.staged \cup IF tick.pc = "stamp" THEN {Head(tick.batch)} ELSE {}
OnceInv ==
  /\ RepeatsOnlyAfterRollback
  /\ faults = 0 /\ phase = "up" => \A c \in subs : ToSet(wire[c] \o chan[c]) \subseteq Offering

PublishInv == TickInv /\ ServerInv /\ ConnInv /\ RegisteredMissesNothing /\ OnceInv

(* An element joins a sequence. *)
LEMMA Joins ==
  ASSUME NEW S, NEW q \in Seq(S), NEW e \in S
  PROVE  /\ ToSet(Append(q, e)) = ToSet(q) \cup {e}
         /\ \A x : Contains(Append(q, e), x) <=> Contains(q, x) \/ x = e
         /\ IsInjective(q) /\ e \notin ToSet(q) => IsInjective(Append(q, e))
<1> DEFINE n == Len(q)  a == Append(q, e)
<1>1. /\ n \in Nat /\ DOMAIN q = 1..n /\ Len(a) = n + 1 /\ DOMAIN a = 1..(n + 1) /\ a[n + 1] = e
      /\ \A i \in 1..n : i \in 1..(n + 1) /\ a[i] = q[i]
  BY Grown
<1> HIDE DEF n, a
<1>2. \A i \in 1..(n + 1) : i = n + 1 \/ i \in 1..n
  BY <1>1
<1>3. n + 1 \in 1..(n + 1)
  BY <1>1
<1>4. ToSet(a) = ToSet(q) \cup {e}
  BY <1>1, <1>2, <1>3 DEF ToSet
<1>5. \A x : Contains(a, x) <=> x \in ToSet(a)
  BY <1>1 DEF Contains, ToSet
<1>6. \A x : Contains(q, x) <=> x \in ToSet(q)
  BY <1>1 DEF Contains, ToSet, n
<1>7. ASSUME IsInjective(q), e \notin ToSet(q) PROVE IsInjective(a)
  <2> SUFFICES ASSUME NEW i \in 1..(n + 1), NEW j \in 1..(n + 1), a[i] = a[j] PROVE i = j
    BY <1>1 DEF IsInjective
  <2>1. \A k \in 1..n : a[k] \in ToSet(q)
    BY <1>1 DEF ToSet
  <2> QED BY <1>1, <1>2, <1>7, <2>1 DEF IsInjective
<1> QED BY <1>4, <1>5, <1>6, <1>7 DEF a

LEMMA HeadAndTail ==
  ASSUME NEW S, NEW q \in Seq(S), q # <<>>, IsInjective(q)
  PROVE  /\ Head(q) \in S /\ Tail(q) \in Seq(S \ {Head(q)}) /\ IsInjective(Tail(q))
<1> DEFINE t == Tail(q)
<1>1. Len(q) \in Nat /\ Len(q) >= 1 /\ DOMAIN q = 1..Len(q) /\ Head(q) = q[1] /\ Head(q) \in S
  OBVIOUS
<1>2. /\ t \in Seq(S) /\ Len(q) = Len(t) + 1
      /\ \A m \in 1..Len(t) : t[m] = q[m + 1]
  BY <1>1, TailIs
<1> HIDE DEF t
<1>3. Len(t) \in Nat /\ DOMAIN t = 1..Len(t)
  BY <1>2
<1>4. \A m \in 1..Len(t) : m + 1 \in 1..Len(q) /\ m + 1 # 1
  BY <1>2, <1>3
<1>5. 1 \in 1..Len(q)
  BY <1>1
<1>6. \A m \in 1..Len(t) : t[m] \in S \ {Head(q)}
  <2> TAKE m \in 1..Len(t)
  <2>1. m + 1 \in DOMAIN q /\ 1 \in DOMAIN q /\ m + 1 # 1 /\ t[m] = q[m + 1]
    BY <1>1, <1>2, <1>4, <1>5
  <2>2. q[m + 1] # q[1]
    BY <2>1 DEF IsInjective
  <2> QED BY <1>1, <1>2, <2>1, <2>2
<1>7. t \in Seq(S \ {Head(q)})
  BY <1>2, <1>3, <1>6
<1>8. IsInjective(t)
  <2> SUFFICES ASSUME NEW i \in 1..Len(t), NEW j \in 1..Len(t), t[i] = t[j] PROVE i = j
    BY <1>3 DEF IsInjective
  <2>1. q[i + 1] = q[j + 1] /\ i + 1 \in DOMAIN q /\ j + 1 \in DOMAIN q
    BY <1>1, <1>2, <1>4
  <2>2. i + 1 = j + 1
    BY <2>1 DEF IsInjective
  <2> QED BY <1>3, <2>2
<1> QED BY <1>1, <1>7, <1>8 DEF t

(* What a connection has received, when the publisher sends and the handler   *)
(* passes on.                                                                *)
LEMMA Sent ==
  ASSUME NEW S, NEW p \in Seq(S), NEW q \in Seq(S), NEW e \in S
  PROVE  p \o Append(q, e) = Append(p \o q, e) /\ p \o q \in Seq(S)
OBVIOUS

LEMMA Moved ==
  ASSUME NEW S, NEW p \in Seq(S), NEW q \in Seq(S), q # <<>>
  PROVE  /\ Append(p, Head(q)) \o Tail(q) = p \o q
         /\ Append(p, Head(q)) \in Seq(S) /\ Tail(q) \in Seq(S) /\ Len(Tail(q)) <= Len(q)
<1> DEFINE h == Head(q)  t == Tail(q)
<1>1. h \in S /\ t \in Seq(S) /\ Len(q) = Len(t) + 1 /\ Len(q) \in Nat /\ Len(t) \in Nat
      /\ h = q[1] /\ \A m \in 1..Len(t) : t[m] = q[m + 1]
  <2>1. Len(q) >= 1
    OBVIOUS
  <2> QED BY <2>1, TailIs
<1> HIDE DEF h, t
<1>2. /\ Append(p, h) \in Seq(S) /\ Len(Append(p, h)) = Len(p) + 1 /\ Len(p) \in Nat
      /\ Append(p, h)[Len(p) + 1] = h /\ \A i \in 1..Len(p) : Append(p, h)[i] = p[i]
  BY <1>1
<1> DEFINE a == Append(p, h)
<1> HIDE DEF a
<1>3. /\ a \o t \in Seq(S) /\ Len(a \o t) = Len(a) + Len(t)
      /\ \A i \in 1..Len(a \o t) : (a \o t)[i] = IF i <= Len(a) THEN a[i] ELSE t[i - Len(a)]
  BY <1>1, <1>2 DEF a
<1>4. /\ p \o q \in Seq(S) /\ Len(p \o q) = Len(p) + Len(q)
      /\ \A i \in 1..Len(p \o q) : (p \o q)[i] = IF i <= Len(p) THEN p[i] ELSE q[i - Len(p)]
  OBVIOUS
<1>5. Len(a) = Len(p) + 1 /\ Len(a \o t) = Len(p \o q)
  BY <1>1, <1>2, <1>3, <1>4 DEF a
<1>6. ASSUME NEW i \in 1..Len(p \o q) PROVE (a \o t)[i] = (p \o q)[i]
  <2>0. i \in Nat /\ i >= 1 /\ i <= Len(p) + Len(q)
    BY <1>1, <1>2, <1>4
  <2>1. CASE i <= Len(p)
    <3>1. i \in 1..Len(p) /\ i <= Len(a)
      BY <1>2, <1>5, <2>0, <2>1
    <3>2. (a \o t)[i] = a[i] /\ (p \o q)[i] = p[i]
      BY <1>3, <1>4, <1>5, <3>1, <2>1
    <3> QED BY <1>2, <3>1, <3>2 DEF a
  <2>2. CASE i = Len(p) + 1
    <3>1. i <= Len(a) /\ ~(i <= Len(p)) /\ i - Len(p) = 1
      BY <1>2, <1>5, <2>2
    <3>2. (a \o t)[i] = a[i] /\ (p \o q)[i] = q[1]
      BY <1>3, <1>4, <1>5, <3>1
    <3>3. a[i] = h
      BY <1>2, <2>2 DEF a
    <3> QED BY <1>1, <3>2, <3>3
  <2>3. CASE i > Len(p) + 1
    <3>1. ~(i <= Len(a)) /\ ~(i <= Len(p)) /\ i - Len(a) \in 1..Len(t)
          /\ (i - Len(a)) + 1 = i - Len(p)
      BY <1>1, <1>2, <1>5, <2>0, <2>3
    <3>2. (a \o t)[i] = t[i - Len(a)] /\ (p \o q)[i] = q[i - Len(p)]
      BY <1>3, <1>4, <1>5, <3>1
    <3>3. t[i - Len(a)] = q[(i - Len(a)) + 1]
      BY <1>1, <3>1
    <3> QED BY <3>1, <3>2, <3>3
  <2>4. i <= Len(p) \/ i = Len(p) + 1 \/ i > Len(p) + 1
    BY <1>2, <2>0
  <2> QED BY <2>1, <2>2, <2>3, <2>4
<1>7. a \o t = p \o q
  <2> DEFINE u == a \o t  v == p \o q
  <2>1. u \in Seq(S) /\ v \in Seq(S) /\ Len(u) = Len(v) /\ \A i \in 1..Len(u) : u[i] = v[i]
    BY <1>3, <1>4, <1>5, <1>6
  <2> HIDE DEF u, v
  <2>2. u = v
    BY <2>1, SeqEqual
  <2> QED BY <2>2 DEF u, v
<1> QED BY <1>1, <1>2, <1>7 DEF a, h, t

LEMMA Cut ==
  ASSUME NEW S, NEW p \in Seq(S), NEW q \in Seq(S), IsInjective(p \o q)
  PROVE  IsInjective(p \o <<>>)
<1>1. p \o <<>> = p /\ DOMAIN p = 1..Len(p) /\ Len(p) \in Nat /\ Len(q) \in Nat
      /\ DOMAIN (p \o q) = 1..(Len(p) + Len(q))
      /\ \A i \in 1..Len(p) : (p \o q)[i] = p[i]
  OBVIOUS
<1>2. \A i \in 1..Len(p) : i \in 1..(Len(p) + Len(q))
  BY <1>1
<1>3. IsInjective(p)
  BY <1>1, <1>2 DEF IsInjective
<1> QED BY <1>1, <1>3

(* A set of rows in ascending order has each of them once. *)
LEMMA OrderedOnce ==
  ASSUME NEW R \in SUBSET Rows, NEW q \in Ordered(R)
  PROVE  q \in Seq(R) /\ IsInjective(q)
<1> DEFINE n == Cardinality(R)
<1>1. n \in Nat
  <2>1. NRows \in Nat
    BY BoundsAssumption
  <2>2. IsFiniteSet(Rows)
    BY <2>1, FS_Interval DEF Rows
  <2> QED BY <2>2, FS_Subset, FS_CardinalityType
<1>2. q \in [1..n -> R] /\ \A i, j \in DOMAIN q : i < j => q[i] < q[j]
  BY DEF Ordered
<1> HIDE DEF n
<1>3. q \in Seq(R) /\ DOMAIN q = 1..n
  BY <1>1, <1>2
<1>4. IsInjective(q)
  <2> SUFFICES ASSUME NEW i \in 1..n, NEW j \in 1..n, q[i] = q[j] PROVE i = j
    BY <1>3 DEF IsInjective
  <2>0. q[i] \in Rows
    BY <1>2
  <2>1. q[i] \in Nat /\ ~(q[i] < q[i])
    BY <2>0 DEF Rows
  <2>2. ~(i < j) /\ ~(j < i)
    BY <1>2, <1>3, <2>1
  <2> QED BY <1>1, <2>2
<1> QED BY <1>3, <1>4

LEMMA ConnRule ==
  ASSUME ConnInv, UNCHANGED <<subs, chan, conn, wire, joined>>
  PROVE  ConnInv'
BY DEF ConnInv

LEMMA HeldRule ==
  ASSUME RegisteredMissesNothing, subs' \subseteq subs, UNCHANGED <<chan, wire, joined, offered>>
  PROVE  RegisteredMissesNothing'
<1> SUFFICES ASSUME NEW c \in subs', NEW r \in offered' \ joined'[c], RowScope[r] = ConnScope[c]
             PROVE  Contains(wire'[c] \o chan'[c], r)
  BY DEF RegisteredMissesNothing
<1>1. wire'[c] \o chan'[c] = wire[c] \o chan[c]
  OBVIOUS
<1>2. Contains(wire[c] \o chan[c], r)
  BY DEF RegisteredMissesNothing
<1> QED BY <1>1, <1>2

LEMMA OnceRule ==
  ASSUME OnceInv, subs' \subseteq subs, UNCHANGED <<chan, wire>>, faults' = 0 => faults = 0,
         phase' = "up" /\ faults' = 0 => phase = "up" /\ Offering \subseteq Offering'
  PROVE  OnceInv'
<1>1. \A c \in Conns : IsInjective(wire'[c] \o chan'[c]) <=> IsInjective(wire[c] \o chan[c])
  OBVIOUS
<1>2. \A c : ToSet(wire'[c] \o chan'[c]) = ToSet(wire[c] \o chan[c])
  OBVIOUS
<1>3. RepeatsOnlyAfterRollback'
  BY <1>1 DEF OnceInv, RepeatsOnlyAfterRollback
<1> QED BY <1>2, <1>3 DEF OnceInv

LEMMA TickRule ==
  ASSUME TickInv, UNCHANGED <<visible, stamped, tick, offered>>
  PROVE  TickInv' /\ Offering' = Offering
<1>1. IsInjective(tick.batch)' <=> IsInjective(tick.batch)
  BY DEF IsInjective
<1> QED BY <1>1 DEF TickInv, Offering

LEMMA TickRecord ==
  ASSUME TickInv
  PROVE  \E pc, batch, staged :
           /\ pc \in {"idle", "publish", "stamp", "stopped"} /\ staged \in SUBSET offered
           /\ batch \in Seq(visible \ (stamped \cup staged))
           /\ tick = [pc |-> pc, batch |-> batch, staged |-> staged]
           /\ tick.pc = pc /\ tick.batch = batch /\ tick.staged = staged
           /\ IsInjective(batch)
           /\ pc = "stamp" => batch # <<>> /\ Head(batch) \in offered
BY DEF TickInv

(* An idle tick holds nothing. *)
LEMMA IdleRule ==
  ASSUME NEW to \in {"idle", "stopped"}, tick' = [pc |-> to, batch |-> <<>>, staged |-> {}],
         visible' \subseteq Rows, stamped' \subseteq offered', offered' \subseteq visible'
  PROVE  TickInv' /\ Offering' = stamped'
<1>1. tick'.pc = to /\ tick'.batch = <<>> /\ tick'.staged = {}
  OBVIOUS
<1>2. IsInjective(<<>>)
  BY DEF IsInjective
<1>3. <<>> \in Seq(visible' \ (stamped' \cup {}))
  OBVIOUS
<1> QED BY <1>1, <1>2, <1>3 DEF TickInv, Offering

LEMMA InsertKeeps ==
  ASSUME PublishInv, NEW r \in Rows, Insert(r)
  PROVE  PublishInv'
<1>1. /\ visible' = visible \cup {r}
      /\ UNCHANGED <<stamped, tick, phase, regOpen, subs, chan, conn, wire, joined, faults, offered>>
  BY DEF Insert, regVars, sseVars
<1>2. TickInv'
  <2>1. IsInjective(tick.batch)' <=> IsInjective(tick.batch)
    BY <1>1 DEF IsInjective
  <2>2. visible \ (stamped \cup tick.staged) \subseteq visible' \ (stamped \cup tick.staged)
    BY <1>1
  <2>3. tick.batch \in Seq(visible' \ (stamped \cup tick.staged))
    BY <2>2 DEF PublishInv, TickInv
  <2> QED BY <1>1, <2>1, <2>3 DEF PublishInv, TickInv
<1>3. ServerInv' /\ ConnInv' /\ RegisteredMissesNothing'
  BY <1>1, ConnRule, HeldRule DEF PublishInv, ServerInv
<1>4. Offering' = Offering
  BY <1>1 DEF Offering
<1>5. OnceInv'
  BY <1>1, <1>4, OnceRule DEF PublishInv
<1> QED BY <1>2, <1>3, <1>5 DEF PublishInv

LEMMA BeginKeeps ==
  ASSUME PublishInv, TickBegin
  PROVE  PublishInv'
<1>1. /\ tick.pc = "idle"
      /\ UNCHANGED <<visible, stamped, phase, regOpen, subs, chan, conn, wire, joined, faults, offered>>
  BY DEF TickBegin, regVars, sseVars
<1>2. PICK q \in Ordered(visible \ stamped) :
        tick' = [pc |-> "publish", batch |-> q, staged |-> {}]
  BY DEF TickBegin
<1>3. q \in Seq(visible \ stamped) /\ IsInjective(q)
  BY OrderedOnce DEF PublishInv, TickInv
<1>4. tick'.pc = "publish" /\ tick'.batch = q /\ tick'.staged = {}
  BY <1>2
<1>5. TickInv'
  <2>1. q \in Seq(visible \ (stamped \cup {}))
    BY <1>3
  <2>2. IsInjective(tick.batch)'
    BY <1>3, <1>4
  <2> QED BY <1>1, <1>2, <1>4, <2>1, <2>2 DEF PublishInv, TickInv
<1>6. OnceInv'
  <2>1. faults = 0 /\ phase = "up" => Offering \subseteq Offering'
    BY <1>1, <1>4 DEF PublishInv, TickInv, Offering
  <2> QED BY <1>1, <2>1, OnceRule DEF PublishInv
<1>7. ServerInv' /\ ConnInv' /\ RegisteredMissesNothing'
  BY <1>1, ConnRule, HeldRule DEF PublishInv, ServerInv
<1> QED BY <1>5, <1>6, <1>7 DEF PublishInv

(* The tick publishes: the next row goes to the subscribers of its scope. *)
LEMMA SkipKeeps ==
  ASSUME PublishInv, TickPublish, Cancelled
  PROVE  PublishInv'
<1>1. /\ tick.pc = "publish" /\ tick.batch # <<>> /\ tick' = [tick EXCEPT !.batch = Tail(@)]
      /\ phase # "up"
      /\ UNCHANGED <<visible, stamped, phase, regOpen, subs, chan, conn, wire, joined, faults, offered>>
  BY DEF TickPublish, Cancelled, regVars, sseVars
<1>2. PICK staged, batch :
        /\ staged \in SUBSET offered /\ batch \in Seq(visible \ (stamped \cup staged))
        /\ tick = [pc |-> "publish", batch |-> batch, staged |-> staged]
        /\ IsInjective(batch) /\ tick.batch = batch
  BY <1>1, TickRecord DEF PublishInv
<1>3. tick' = [pc |-> "publish", batch |-> Tail(batch), staged |-> staged]
  BY <1>1, <1>2
<1>4. Tail(batch) \in Seq(visible \ (stamped \cup staged)) /\ IsInjective(Tail(batch))
  <2> DEFINE S == visible \ (stamped \cup staged)
  <2>1. Tail(batch) \in Seq(S \ {Head(batch)}) /\ IsInjective(Tail(batch))
    BY <1>1, <1>2, HeadAndTail
  <2> QED BY <2>1
<1>5. TickInv'
  <2>1. tick'.pc = "publish" /\ tick'.batch = Tail(batch) /\ tick'.staged = staged
    BY <1>3
  <2>2. IsInjective(tick.batch)'
    BY <1>4, <2>1
  <2> QED BY <1>1, <1>3, <1>4, <2>1, <2>2 DEF PublishInv, TickInv
<1>6. OnceInv'
  BY <1>1, OnceRule DEF PublishInv
<1>7. ServerInv' /\ ConnInv' /\ RegisteredMissesNothing'
  BY <1>1, ConnRule, HeldRule DEF PublishInv, ServerInv
<1> QED BY <1>5, <1>6, <1>7 DEF PublishInv

LEMMA FanoutKeeps ==
  ASSUME PublishInv, TickPublish, ~Cancelled
  PROVE  PublishInv'
<1> DEFINE r == Head(tick.batch)
<1>1. /\ tick.pc = "publish" /\ tick.batch # <<>> /\ tick' = [tick EXCEPT !.pc = "stamp"]
      /\ phase = "up" /\ regOpen /\ Fanout(r) /\ offered' = offered \cup {r}
      /\ UNCHANGED <<visible, stamped, phase, regOpen, conn, wire, joined, faults>>
  BY DEF TickPublish, Cancelled, Fanout, sseVars, PublishInv, ServerInv
<1>2. PICK staged, batch :
        /\ staged \in SUBSET offered /\ batch \in Seq(visible \ (stamped \cup staged))
        /\ tick = [pc |-> "publish", batch |-> batch, staged |-> staged]
        /\ IsInjective(batch) /\ tick.batch = batch /\ tick.staged = staged
  BY <1>1, TickRecord DEF PublishInv
<1>3. tick' = [pc |-> "stamp", batch |-> batch, staged |-> staged]
  BY <1>1, <1>2
<1>4. tick'.pc = "stamp" /\ tick'.batch = batch /\ tick'.staged = staged /\ r = Head(batch)
  BY <1>2, <1>3
<1>5. r \in visible \ (stamped \cup staged) /\ r \in Rows
  <2> DEFINE S == visible \ (stamped \cup staged)
  <2>1. Head(batch) \in S
    BY <1>1, <1>2, HeadAndTail
  <2> QED BY <1>4, <2>1 DEF PublishInv, TickInv
<1> HIDE DEF r
<1>6. TickInv'
  <2>1. IsInjective(tick.batch)'
    BY <1>2, <1>4
  <2>2. tick'.batch # <<>> /\ Head(tick'.batch) \in offered'
    BY <1>1, <1>2, <1>4
  <2> QED BY <1>1, <1>2, <1>3, <1>4, <1>5, <2>1, <2>2 DEF PublishInv, TickInv
<1>7. ServerInv'
  BY <1>1 DEF PublishInv, ServerInv
<1>8. /\ chan \in [Conns -> Seq(Rows)] /\ wire \in [Conns -> Seq(Rows)] /\ subs \subseteq Conns
      /\ subs' = {c \in subs : c \notin Matching(r) \/ HasRoom(c)}
      /\ \A c \in Conns : chan'[c] = IF c \in Matching(r) /\ HasRoom(c)
                                       THEN Append(chan[c], r) ELSE chan[c]
      /\ DOMAIN chan' = Conns /\ chan' = [c \in Conns |-> chan'[c]]
  BY <1>1 DEF PublishInv, ConnInv, Fanout
<1>9. ASSUME NEW c \in Conns, c \in Matching(r), HasRoom(c)
      PROVE  /\ c \in subs /\ RowScope[r] = ConnScope[c] /\ chan'[c] \in Seq(Rows)
             /\ Len(chan'[c]) <= BufSize /\ chan'[c] # <<>>
             /\ wire'[c] \o chan'[c] = Append(wire[c] \o chan[c], r)
             /\ wire[c] \o chan[c] \in Seq(Rows)
  <2>1. chan[c] \in Seq(Rows) /\ wire[c] \in Seq(Rows) /\ chan'[c] = Append(chan[c], r)
    BY <1>8, <1>9
  <2>2. Len(chan[c]) \in Nat /\ Len(chan'[c]) = Len(chan[c]) + 1 /\ chan'[c] \in Seq(Rows)
    BY <1>5, <2>1, Grown
  <2>3. Len(chan'[c]) <= BufSize
    BY <1>9, <2>2, BoundsAssumption DEF HasRoom
  <2>4. chan'[c] # <<>>
    BY <2>1, <2>2
  <2>5. wire'[c] \o chan'[c] = Append(wire[c] \o chan[c], r) /\ wire[c] \o chan[c] \in Seq(Rows)
    <3>1. wire'[c] = wire[c]
      BY <1>1
    <3>2. wire[c] \o Append(chan[c], r) = Append(wire[c] \o chan[c], r)
          /\ wire[c] \o chan[c] \in Seq(Rows)
      BY <1>5, <2>1, Sent
    <3> QED BY <2>1, <3>1, <3>2
  <2> QED BY <1>9, <2>2, <2>3, <2>4, <2>5 DEF Matching
<1>10. ASSUME NEW c \in Conns, ~(c \in Matching(r) /\ HasRoom(c))
       PROVE  chan'[c] = chan[c] /\ wire'[c] \o chan'[c] = wire[c] \o chan[c]
  BY <1>1, <1>8, <1>10
<1>11. ConnInv'
  <2>1. chan' \in [Conns -> Seq(Rows)]
    BY <1>8, <1>9, <1>10
  <2>2. \A c \in Conns : Len(chan'[c]) <= BufSize
    BY <1>9, <1>10 DEF PublishInv, ConnInv
  <2>3. \A c \in Conns : conn[c] \in {"none", "flushed"} => wire[c] = <<>> /\ chan'[c] = <<>>
    BY <1>9, <1>10 DEF PublishInv, ConnInv
  <2> QED BY <1>1, <1>8, <2>1, <2>2, <2>3 DEF PublishInv, ConnInv
<1>12. RegisteredMissesNothing'
  <2> SUFFICES ASSUME NEW c \in subs', NEW x \in offered' \ joined'[c],
                      RowScope[x] = ConnScope[c]
               PROVE  Contains(wire'[c] \o chan'[c], x)
    BY DEF RegisteredMissesNothing
  <2>1. c \in Conns /\ c \in subs /\ (c \in Matching(r) => HasRoom(c))
    BY <1>8
  <2>2. x = r \/ (x \in offered \ joined[c] /\ Contains(wire[c] \o chan[c], x))
    BY <1>1, <2>1 DEF PublishInv, RegisteredMissesNothing
  <2>3. CASE c \in Matching(r)
    <3>1. \A y : Contains(wire'[c] \o chan'[c], y) <=> Contains(wire[c] \o chan[c], y) \/ y = r
      <4> DEFINE w == wire[c] \o chan[c]
      <4>1. w \in Seq(Rows) /\ wire'[c] \o chan'[c] = Append(w, r)
        BY <1>9, <2>1, <2>3
      <4> HIDE DEF w
      <4>2. \A y : Contains(Append(w, r), y) <=> Contains(w, y) \/ y = r
        BY <1>5, <4>1, Joins
      <4> QED BY <4>1, <4>2 DEF w
    <3> QED BY <2>2, <3>1
  <2>4. CASE c \notin Matching(r)
    <3>1. x # r
      BY <2>1, <2>4 DEF Matching
    <3> QED BY <1>10, <2>1, <2>2, <2>4, <3>1
  <2> QED BY <2>3, <2>4
<1>13. OnceInv'
  <2> SUFFICES ASSUME faults = 0 PROVE OnceInv'
    BY <1>1 DEF OnceInv, RepeatsOnlyAfterRollback
  <2>1. Offering = stamped \cup staged /\ Offering' = stamped \cup staged \cup {r}
    BY <1>1, <1>2, <1>4 DEF Offering
  <2>2. \A c \in subs : ToSet(wire[c] \o chan[c]) \subseteq Offering
    BY <1>1 DEF PublishInv, OnceInv
  <2>3. \A c \in Conns : IsInjective(wire[c] \o chan[c])
    BY DEF PublishInv, OnceInv, RepeatsOnlyAfterRollback
  <2>4. ASSUME NEW c \in Conns
        PROVE  /\ IsInjective(wire'[c] \o chan'[c])
               /\ c \in subs => ToSet(wire'[c] \o chan'[c]) \subseteq Offering'
    <3>1. CASE c \in Matching(r) /\ HasRoom(c)
      <4>1. r \notin ToSet(wire[c] \o chan[c])
        BY <1>5, <1>9, <2>1, <2>2, <3>1
      <4>2. /\ ToSet(wire'[c] \o chan'[c]) = ToSet(wire[c] \o chan[c]) \cup {r}
            /\ IsInjective(wire'[c] \o chan'[c])
        <5> DEFINE w == wire[c] \o chan[c]
        <5>1. w \in Seq(Rows) /\ wire'[c] \o chan'[c] = Append(w, r) /\ IsInjective(w)
              /\ r \notin ToSet(w)
          BY <1>9, <2>3, <3>1, <4>1
        <5> HIDE DEF w
        <5>2. ToSet(Append(w, r)) = ToSet(w) \cup {r} /\ IsInjective(Append(w, r))
          BY <1>5, <5>1, Joins
        <5> QED BY <5>1, <5>2 DEF w
      <4> QED BY <1>9, <2>1, <2>2, <3>1, <4>2
    <3>2. CASE ~(c \in Matching(r) /\ HasRoom(c))
      BY <1>10, <2>1, <2>2, <2>3, <3>2
    <3> QED BY <3>1, <3>2
  <2> QED BY <1>8, <2>4 DEF OnceInv, RepeatsOnlyAfterRollback
<1> QED BY <1>6, <1>7, <1>11, <1>12, <1>13 DEF PublishInv

LEMMA StampKeeps ==
  ASSUME PublishInv, TickStamp
  PROVE  PublishInv'
<1>1. /\ tick.pc = "stamp"
      /\ tick' = [pc |-> "publish", batch |-> Tail(tick.batch),
                  staged |-> tick.staged \cup {Head(tick.batch)}]
      /\ UNCHANGED <<visible, stamped, phase, regOpen, subs, chan, conn, wire, joined, faults, offered>>
  BY DEF TickStamp, regVars, sseVars
<1>2. PICK staged, batch :
        /\ staged \in SUBSET offered /\ batch \in Seq(visible \ (stamped \cup staged))
        /\ tick.staged = staged /\ tick.batch = batch
        /\ IsInjective(batch) /\ batch # <<>> /\ Head(batch) \in offered
  BY <1>1, TickRecord DEF PublishInv
<1> DEFINE S == visible \ (stamped \cup staged)  staged2 == staged \cup {Head(batch)}
           S2 == visible \ (stamped \cup staged2)
<1>3. tick' = [pc |-> "publish", batch |-> Tail(batch), staged |-> staged2]
  BY <1>1, <1>2
<1>4. Tail(batch) \in Seq(S2) /\ IsInjective(Tail(batch))
  <2>1. Tail(batch) \in Seq(S \ {Head(batch)}) /\ IsInjective(Tail(batch))
    BY <1>2, HeadAndTail
  <2>2. S \ {Head(batch)} = S2
    OBVIOUS
  <2> QED BY <2>1, <2>2
<1>5. tick'.pc = "publish" /\ tick'.batch = Tail(batch) /\ tick'.staged = staged2
      /\ staged2 \subseteq offered
  BY <1>2, <1>3
<1> HIDE DEF staged2
<1>6. TickInv'
  <2>1. IsInjective(tick.batch)'
    BY <1>4, <1>5
  <2> QED BY <1>1, <1>3, <1>4, <1>5, <2>1 DEF PublishInv, TickInv
<1>7. OnceInv'
  <2>1. Offering' = Offering
    BY <1>1, <1>2, <1>5 DEF Offering, staged2
  <2> QED BY <1>1, <2>1, OnceRule DEF PublishInv
<1>8. ServerInv' /\ ConnInv' /\ RegisteredMissesNothing'
  BY <1>1, ConnRule, HeldRule DEF PublishInv, ServerInv
<1> QED BY <1>6, <1>7, <1>8 DEF PublishInv

LEMMA EndOfTickKeeps ==
  ASSUME PublishInv, TickCommit \/ TickRollback \/ WorkerReturn
  PROVE  PublishInv'
<1>1. UNCHANGED <<visible, phase, regOpen, subs, chan, conn, wire, joined, offered>>
  BY DEF TickCommit, TickRollback, WorkerReturn, regVars, sseVars
<1>2. CASE TickCommit
  <2>1. /\ tick.pc = "publish" /\ stamped' = stamped \cup tick.staged /\ faults' = faults
        /\ tick' = [pc |-> "idle", batch |-> <<>>, staged |-> {}]
    BY <1>2 DEF TickCommit, IdleTick
  <2>2. TickInv' /\ Offering' = stamped'
    BY <1>1, <2>1, IdleRule DEF PublishInv, TickInv
  <2>3. Offering = stamped'
    BY <2>1 DEF Offering
  <2>4. OnceInv'
    BY <1>1, <2>1, <2>2, <2>3, OnceRule DEF PublishInv
  <2>5. ServerInv' /\ ConnInv' /\ RegisteredMissesNothing'
    BY <1>1, <2>1, ConnRule, HeldRule DEF PublishInv, ServerInv
  <2> QED BY <2>2, <2>4, <2>5 DEF PublishInv
<1>3. CASE TickRollback \/ WorkerReturn
  <2>1. PICK to \in {"idle", "stopped"} :
          tick' = [pc |-> to, batch |-> <<>>, staged |-> {}]
    <3>1. CASE TickRollback
      BY <3>1 DEF TickRollback, IdleTick
    <3>2. CASE WorkerReturn
      BY <3>2 DEF WorkerReturn, IdleTick
    <3> QED BY <1>3, <3>1, <3>2
  <2>2. /\ stamped' = stamped /\ faults' \in 0..MaxFaults
        /\ (faults' = 0 => faults = 0 /\ phase # "up")
    <3>1. faults \in 0..MaxFaults /\ MaxFaults \in Nat
      BY BoundsAssumption DEF PublishInv, ServerInv
    <3>2. stamped' = stamped /\ ((phase # "up" /\ faults' = faults)
                                 \/ (faults < MaxFaults /\ faults' = faults + 1))
      BY <1>3 DEF TickRollback, WorkerReturn, Cancelled
    <3> QED BY <3>1, <3>2
  <2>3. TickInv'
    BY <1>1, <2>1, <2>2, IdleRule DEF PublishInv, TickInv
  <2>4. OnceInv'
    BY <1>1, <2>2, OnceRule DEF PublishInv
  <2>5. ServerInv' /\ ConnInv' /\ RegisteredMissesNothing'
    BY <1>1, <2>2, ConnRule, HeldRule DEF PublishInv, ServerInv
  <2> QED BY <2>3, <2>4, <2>5 DEF PublishInv
<1> QED BY <1>2, <1>3

(* The handlers. *)
LEMMA ServedKeeps ==
  ASSUME PublishInv, UNCHANGED <<visible, stamped, tick, phase, regOpen, faults, offered>>,
         ConnInv', RegisteredMissesNothing', OnceInv'
  PROVE  PublishInv'
BY TickRule DEF PublishInv, ServerInv

LEMMA ConnectKeeps ==
  ASSUME PublishInv, NEW c \in Conns, Connect(c)
  PROVE  PublishInv'
<1>1. /\ conn[c] = "none" /\ conn' = [conn EXCEPT ![c] = "flushed"]
      /\ UNCHANGED <<visible, stamped, tick, phase, regOpen, subs, chan, wire, joined, faults, offered>>
  BY DEF Connect, regVars
<1>2. ConnInv'
  BY <1>1 DEF PublishInv, ConnInv
<1>3. RegisteredMissesNothing' /\ OnceInv'
  BY <1>1, TickRule, HeldRule, OnceRule DEF PublishInv
<1> QED BY <1>1, <1>2, <1>3, ServedKeeps

LEMMA RegisterKeeps ==
  ASSUME PublishInv, NEW c \in Conns, Register(c)
  PROVE  PublishInv'
<1>1. /\ conn[c] = "flushed"
      /\ UNCHANGED <<visible, stamped, tick, phase, regOpen, chan, wire, faults, offered>>
  BY DEF Register
<1>2. CASE regOpen
  <2>1. /\ subs' = subs \cup {c} /\ conn' = [conn EXCEPT ![c] = "streaming"]
        /\ joined' = [joined EXCEPT ![c] = offered]
    BY <1>2 DEF Register
  <2>2. c \notin subs /\ wire[c] = <<>> /\ chan[c] = <<>> /\ offered \in SUBSET Rows
    BY <1>1 DEF PublishInv, ConnInv, TickInv
  <2>3. ConnInv'
    BY <1>1, <2>1, <2>2 DEF PublishInv, ConnInv
  <2>4. RegisteredMissesNothing'
    <3> SUFFICES ASSUME NEW d \in subs', NEW r \in offered \ joined'[d], RowScope[r] = ConnScope[d]
                 PROVE  Contains(wire[d] \o chan[d], r)
      BY <1>1 DEF RegisteredMissesNothing
    <3>1. d \in subs /\ joined'[d] = joined[d]
      BY <2>1 DEF PublishInv, ConnInv
    <3> QED BY <3>1 DEF PublishInv, RegisteredMissesNothing
  <2>5. OnceInv'
    <3>1. Offering' = Offering
      BY <1>1, TickRule DEF PublishInv
    <3>2. ToSet(wire[c] \o chan[c]) = {}
      BY <2>2 DEF ToSet
    <3>3. \A d \in subs' : d \in subs \/ d = c
      BY <2>1
    <3>4. \A d : wire'[d] \o chan'[d] = wire[d] \o chan[d]
      BY <1>1
    <3> QED BY <1>1, <3>1, <3>2, <3>3, <3>4 DEF PublishInv, OnceInv, RepeatsOnlyAfterRollback
  <2> QED BY <1>1, <2>3, <2>4, <2>5, ServedKeeps
<1>3. CASE ~regOpen
  <2>1. conn' = [conn EXCEPT ![c] = "ended"] /\ UNCHANGED <<subs, joined>>
    BY <1>3 DEF Register
  <2>2. ConnInv'
    BY <1>1, <2>1 DEF PublishInv, ConnInv
  <2>3. RegisteredMissesNothing' /\ OnceInv'
    BY <1>1, <2>1, TickRule, HeldRule, OnceRule DEF PublishInv
  <2> QED BY <1>1, <2>2, <2>3, ServedKeeps
<1> QED BY <1>2, <1>3

LEMMA TakeKeeps ==
  ASSUME PublishInv, NEW c \in Conns, TakeFrame(c)
  PROVE  PublishInv'
<1>1. /\ conn[c] = "streaming" /\ chan[c] # <<>>
      /\ wire' = [wire EXCEPT ![c] = Append(@, Head(chan[c]))]
      /\ chan' = [chan EXCEPT ![c] = Tail(@)]
      /\ conn' = [conn EXCEPT ![c] = "writing"]
      /\ UNCHANGED <<visible, stamped, tick, phase, regOpen, subs, joined, faults, offered>>
  BY DEF TakeFrame
<1>2. chan[c] \in Seq(Rows) /\ wire[c] \in Seq(Rows) /\ Len(chan[c]) <= BufSize
  BY DEF PublishInv, ConnInv
<1> DEFINE p == wire[c]  q == chan[c]
<1>3. /\ Append(p, Head(q)) \o Tail(q) = p \o q
      /\ Append(p, Head(q)) \in Seq(Rows) /\ Tail(q) \in Seq(Rows) /\ Len(Tail(q)) <= Len(q)
  BY <1>1, <1>2, Moved
<1>4. wire'[c] = Append(p, Head(q)) /\ chan'[c] = Tail(q)
  BY <1>1 DEF PublishInv, ConnInv
<1> HIDE DEF p, q
<1>5. \A d \in Conns : d # c => wire'[d] = wire[d] /\ chan'[d] = chan[d]
  BY <1>1 DEF PublishInv, ConnInv
<1>6. \A d \in Conns : wire'[d] \o chan'[d] = wire[d] \o chan[d]
  BY <1>3, <1>4, <1>5 DEF p, q
<1>7. ConnInv'
  <2>1. Len(chan'[c]) <= BufSize
    <3>1. Len(Tail(q)) \in Nat /\ Len(q) \in Nat
      BY <1>2, <1>3 DEF q
    <3> QED BY <1>2, <1>3, <1>4, <3>1, BoundsAssumption DEF q
  <2>2. chan' \in [Conns -> Seq(Rows)] /\ wire' \in [Conns -> Seq(Rows)]
    BY <1>1, <1>3, <1>4 DEF PublishInv, ConnInv, p, q
  <2> QED BY <1>1, <1>5, <2>1, <2>2 DEF PublishInv, ConnInv
<1>8. RegisteredMissesNothing'
  <2>1. subs \subseteq Conns
    BY DEF PublishInv, ConnInv
  <2> SUFFICES ASSUME NEW d \in subs', NEW r \in offered' \ joined'[d], RowScope[r] = ConnScope[d]
               PROVE  Contains(wire'[d] \o chan'[d], r)
    BY DEF RegisteredMissesNothing
  <2>2. Contains(wire[d] \o chan[d], r)
    BY <1>1 DEF PublishInv, RegisteredMissesNothing
  <2> QED BY <1>1, <1>6, <2>1, <2>2
<1>9. OnceInv'
  <2>1. Offering' = Offering /\ subs \subseteq Conns
    BY <1>1, TickRule DEF PublishInv, ConnInv
  <2> QED BY <1>1, <1>6, <2>1 DEF PublishInv, OnceInv, RepeatsOnlyAfterRollback
<1> QED BY <1>1, <1>7, <1>8, <1>9, ServedKeeps

(* A heartbeat and the end of a write move nothing but the handler. *)
LEMMA BeatKeeps ==
  ASSUME PublishInv, NEW c \in Conns, Heartbeat(c) \/ WriteDone(c)
  PROVE  PublishInv'
<1>1. /\ conn[c] \in {"streaming", "writing"}
      /\ conn' = [conn EXCEPT ![c] = "streaming"] \/ conn' = [conn EXCEPT ![c] = "writing"]
      /\ UNCHANGED <<visible, stamped, tick, phase, regOpen, subs, chan, wire, joined, faults, offered>>
  BY DEF Heartbeat, WriteDone, regVars
<1>2. ConnInv'
  BY <1>1 DEF PublishInv, ConnInv
<1>3. RegisteredMissesNothing' /\ OnceInv'
  BY <1>1, TickRule, HeldRule, OnceRule DEF PublishInv
<1> QED BY <1>1, <1>2, <1>3, ServedKeeps

LEMMA ReturnKeeps ==
  ASSUME PublishInv, NEW c \in Conns, HandlerReturn(c)
  PROVE  PublishInv'
<1>1. /\ c \notin subs /\ conn' = [conn EXCEPT ![c] = "ended"]
      /\ UNCHANGED <<visible, stamped, tick, phase, regOpen, subs, chan, wire, joined, faults, offered>>
  BY DEF HandlerReturn, regVars
<1>2. ConnInv'
  BY <1>1 DEF PublishInv, ConnInv
<1>3. RegisteredMissesNothing' /\ OnceInv'
  BY <1>1, TickRule, HeldRule, OnceRule DEF PublishInv
<1> QED BY <1>1, <1>2, <1>3, ServedKeeps

(* A connection that ends loses what its buffer holds. *)
LEMMA DropRule ==
  ASSUME PublishInv, UNCHANGED <<wire, joined, offered>>, subs' \subseteq subs, NEW D,
         chan' = [c \in Conns |-> IF c \in D THEN <<>> ELSE chan[c]], subs' \cap D = {},
         faults' = 0 => faults = 0,
         phase' = "up" /\ faults' = 0 => subs' = {} \/ (phase = "up" /\ Offering \subseteq Offering')
  PROVE  RegisteredMissesNothing' /\ OnceInv'
<1>1. /\ chan \in [Conns -> Seq(Rows)] /\ wire \in [Conns -> Seq(Rows)] /\ subs \subseteq Conns
  BY DEF PublishInv, ConnInv
<1>2. \A c \in Conns \ D : wire'[c] \o chan'[c] = wire[c] \o chan[c]
  OBVIOUS
<1>3. \A c \in Conns \cap D : wire'[c] \o chan'[c] = wire[c] \o <<>>
  OBVIOUS
<1>4. RegisteredMissesNothing'
  <2> SUFFICES ASSUME NEW d \in subs', NEW r \in offered' \ joined'[d], RowScope[r] = ConnScope[d]
               PROVE  Contains(wire'[d] \o chan'[d], r)
    BY DEF RegisteredMissesNothing
  <2>1. Contains(wire[d] \o chan[d], r)
    BY DEF PublishInv, RegisteredMissesNothing
  <2>2. d \in Conns \ D
    BY <1>1
  <2> QED BY <1>2, <2>1, <2>2
<1>5. OnceInv'
  <2>1. ASSUME faults' = 0, NEW c \in Conns PROVE IsInjective(wire'[c] \o chan'[c])
    <3>1. IsInjective(wire[c] \o chan[c]) /\ wire[c] \in Seq(Rows) /\ chan[c] \in Seq(Rows)
      BY <1>1, <2>1 DEF PublishInv, OnceInv, RepeatsOnlyAfterRollback
    <3>2. CASE c \in D
      <4>1. IsInjective(wire[c] \o <<>>)
        BY <3>1, Cut
      <4> QED BY <1>3, <3>2, <4>1
    <3>3. CASE c \notin D
      BY <1>2, <3>1, <3>3
    <3> QED BY <3>2, <3>3
  <2>2. ASSUME faults' = 0, phase' = "up", NEW c \in subs'
        PROVE  ToSet(wire'[c] \o chan'[c]) \subseteq Offering'
    <3>1. c \in Conns \ D /\ c \in subs
      BY <1>1
    <3>2. ToSet(wire[c] \o chan[c]) \subseteq Offering /\ Offering \subseteq Offering'
      BY <2>2, <3>1 DEF PublishInv, OnceInv
    <3> QED BY <1>2, <3>1, <3>2
  <2> QED BY <2>1, <2>2 DEF OnceInv, RepeatsOnlyAfterRollback
<1> QED BY <1>4, <1>5

LEMMA DisconnectKeeps ==
  ASSUME PublishInv, NEW c \in Conns, Disconnect(c)
  PROVE  PublishInv'
<1>1. /\ conn' = [conn EXCEPT ![c] = "ended"] /\ subs' = subs \ {c}
      /\ chan' = [chan EXCEPT ![c] = <<>>]
      /\ UNCHANGED <<visible, stamped, tick, phase, regOpen, wire, joined, faults, offered>>
  BY DEF Disconnect
<1>2. chan' = [d \in Conns |-> IF d \in {c} THEN <<>> ELSE chan[d]] /\ Offering' = Offering
  BY <1>1, TickRule DEF PublishInv, ConnInv
<1>3. RegisteredMissesNothing' /\ OnceInv'
  BY <1>1, <1>2, DropRule
<1>4. ConnInv'
  <2>1. chan' \in [Conns -> Seq(Rows)] /\ \A d \in Conns : Len(chan'[d]) <= BufSize
    <3>1. Len(<<>>) <= BufSize
      BY BoundsAssumption
    <3> QED BY <1>1, <3>1 DEF PublishInv, ConnInv
  <2> QED BY <1>1, <2>1 DEF PublishInv, ConnInv
<1> QED BY <1>1, <1>3, <1>4, ServedKeeps

(* The server. *)
LEMMA PhaseKeeps ==
  ASSUME PublishInv, StopServer \/ ShutdownHTTP \/ ShutdownDone
  PROVE  PublishInv'
<1>1. /\ phase' \in {"stopping", "failing", "draining", "down"}
      /\ UNCHANGED <<visible, stamped, tick, regOpen, subs, chan, conn, wire, joined, faults, offered>>
  BY DEF StopServer, ShutdownHTTP, ShutdownDone, regVars, sseVars
<1>2. ServerInv'
  BY <1>1 DEF PublishInv, ServerInv
<1> QED BY <1>1, <1>2, TickRule, ConnRule, HeldRule, OnceRule DEF PublishInv

LEMMA CloseRegistryKeeps ==
  ASSUME PublishInv, CloseRegistry
  PROVE  PublishInv'
<1>1. /\ phase' = "closed" /\ regOpen' = FALSE /\ subs' = {}
      /\ UNCHANGED <<visible, stamped, tick, chan, conn, wire, joined, faults, offered>>
  BY DEF CloseRegistry, sseVars
<1>2. ServerInv' /\ ConnInv'
  BY <1>1 DEF PublishInv, ServerInv, ConnInv
<1> QED BY <1>1, <1>2, TickRule, HeldRule, OnceRule DEF PublishInv

LEMMA EndKeepsConns ==
  ASSUME PublishInv, EndProcess, UNCHANGED <<wire, joined>>
  PROVE  ConnInv'
<1>1. /\ conn' = [c \in Conns |-> IF conn[c] = "none" THEN "none" ELSE "ended"]
      /\ subs' = {} /\ chan' = [c \in Conns |-> <<>>]
  BY DEF EndProcess
<1>2. Len(<<>>) <= BufSize /\ <<>> \in Seq(Rows)
  BY BoundsAssumption
<1> QED BY <1>1, <1>2 DEF PublishInv, ConnInv

LEMMA AbandonKeeps ==
  ASSUME PublishInv, Abandon
  PROVE  PublishInv'
<1>1. /\ phase' = "down" /\ EndProcess /\ subs' = {}
      /\ chan' = [c \in Conns |-> IF c \in Conns THEN <<>> ELSE chan[c]]
      /\ UNCHANGED <<visible, stamped, tick, regOpen, wire, joined, faults, offered>>
  BY DEF Abandon, EndProcess
<1>2. ServerInv' /\ ConnInv'
  BY <1>1, EndKeepsConns DEF PublishInv, ServerInv
<1>3. RegisteredMissesNothing' /\ OnceInv'
  BY <1>1, DropRule
<1> QED BY <1>1, <1>2, <1>3, TickRule DEF PublishInv

LEMMA RestartKeeps ==
  ASSUME PublishInv, Restart
  PROVE  PublishInv'
<1>1. /\ phase' = "up" /\ regOpen' = TRUE /\ EndProcess /\ subs' = {}
      /\ tick' = [pc |-> "idle", batch |-> <<>>, staged |-> {}]
      /\ chan' = [c \in Conns |-> IF c \in Conns THEN <<>> ELSE chan[c]]
      /\ UNCHANGED <<visible, stamped, wire, joined, offered>>
      /\ faults' = faults \/ (faults < MaxFaults /\ faults' = faults + 1)
  BY DEF Restart, EndProcess, IdleTick
<1>2. faults' \in 0..MaxFaults /\ (faults' = 0 => faults = 0)
  <2>1. faults \in 0..MaxFaults /\ MaxFaults \in Nat
    BY BoundsAssumption DEF PublishInv, ServerInv
  <2> QED BY <1>1, <2>1
<1>3. ServerInv' /\ ConnInv'
  BY <1>1, <1>2, EndKeepsConns DEF PublishInv, ServerInv
<1>4. RegisteredMissesNothing' /\ OnceInv'
  BY <1>1, <1>2, DropRule
<1>5. TickInv'
  BY <1>1, IdleRule DEF PublishInv, TickInv
<1> QED BY <1>3, <1>4, <1>5 DEF PublishInv

LEMMA InitPublish == PublishInit => PublishInv
<1> SUFFICES ASSUME PublishInit PROVE PublishInv
  OBVIOUS
<1>1. /\ visible = {} /\ stamped = {} /\ offered = {} /\ subs = {} /\ faults = 0
      /\ tick = [pc |-> "idle", batch |-> <<>>, staged |-> {}]
      /\ phase = "up" /\ regOpen = TRUE
      /\ chan = [c \in Conns |-> <<>>] /\ wire = [c \in Conns |-> <<>>]
      /\ conn = [c \in Conns |-> "none"] /\ joined = [c \in Conns |-> {}]
  BY DEF PublishInit, IdleTick
<1>2. TickInv
  <2>1. tick.pc = "idle" /\ tick.batch = <<>> /\ tick.staged = {}
    BY <1>1
  <2>2. IsInjective(tick.batch)
    BY <2>1 DEF IsInjective
  <2> QED BY <1>1, <2>1, <2>2 DEF TickInv
<1>3. ServerInv
  BY <1>1, BoundsAssumption DEF ServerInv
<1>4. ConnInv
  <2>1. Len(<<>>) <= BufSize /\ <<>> \in Seq(Rows)
    BY BoundsAssumption
  <2> QED BY <1>1, <2>1 DEF ConnInv
<1>5. RegisteredMissesNothing
  BY <1>1 DEF RegisteredMissesNothing
<1>6. OnceInv
  <2>1. \A c \in Conns : wire[c] \o chan[c] = <<>>
    BY <1>1
  <2>2. IsInjective(<<>>)
    BY DEF IsInjective
  <2> QED BY <1>1, <2>1, <2>2 DEF OnceInv, RepeatsOnlyAfterRollback
<1> QED BY <1>2, <1>3, <1>4, <1>5, <1>6 DEF PublishInv

LEMMA PublishInvStep ==
  ASSUME PublishInv, [PublishNext]_publishVars
  PROVE  PublishInv'
<1>1. CASE UNCHANGED publishVars
  <2>1. UNCHANGED <<visible, stamped, tick, phase, regOpen, subs, chan, conn, wire, joined, faults, offered>>
    BY <1>1 DEF publishVars, regVars, sseVars
  <2> QED BY <2>1, TickRule, ConnRule, HeldRule, OnceRule DEF PublishInv, ServerInv
<1>2. CASE WorkerStep \/ TickRollback
  BY <1>2, BeginKeeps, SkipKeeps, FanoutKeeps, StampKeeps, EndOfTickKeeps DEF WorkerStep
<1>3. CASE \E c \in Conns : Connect(c) \/ Disconnect(c) \/ HandlerStep(c) \/ Heartbeat(c) \/ WriteDone(c)
  BY <1>3, ConnectKeeps, DisconnectKeeps, RegisterKeeps, TakeKeeps, BeatKeeps, ReturnKeeps DEF HandlerStep
<1>4. CASE StopServer \/ ServerStep \/ Abandon \/ Restart
  BY <1>4, PhaseKeeps, CloseRegistryKeeps, AbandonKeeps, RestartKeeps DEF ServerStep
<1>5. CASE \E r \in Rows : Insert(r)
  BY <1>5, InsertKeeps
<1> QED BY <1>1, <1>2, <1>3, <1>4, <1>5 DEF PublishNext

(* outbox.go, registry.go and server.go: the invariant above, across rollbacks,  *)
(* crashes and restarts.                                                     *)
THEOREM PublishInvariance == PublishSpec => []PublishInv
BY InitPublish, PublishInvStep, PTL DEF PublishSpec

LEMMA PublishOffers == PublishInv => OfferedOnceAndWhole
<1> SUFFICES ASSUME PublishInv PROVE OfferedOnceAndWhole
  OBVIOUS
<1>1. PublishTypeOK
  <2>1. \A i \in DOMAIN tick.batch : tick.batch[i] \in visible \ stamped
    BY DEF PublishInv, TickInv
  <2> QED BY <2>1 DEF PublishInv, TickInv, ServerInv, ConnInv, PublishTypeOK
<1>2. StampedWasOffered /\ RepeatsOnlyAfterRollback
  BY DEF PublishInv, TickInv, OnceInv, StampedWasOffered
<1> QED BY <1>1, <1>2 DEF PublishInv, OfferedOnceAndWhole

(* outbox.go tick, registry.go Publish and server.go Run: what is stamped was    *)
(* offered while the registry was open, a registered subscriber has all of it  *)
(* that is in its scope, and only a rolled-back tick offers a row again.       *)
THEOREM OfferedOnce == PublishSpec => []OfferedOnceAndWhole
BY PublishInvariance, PublishOffers, PTL

-----------------------------------------------------------------------------
(* The consumer.                                                             *)

LoopPcs == {"off", "subscribe", "next", "read", "backoff", "dial", "install", "exit", "done",
            "handle", "try", "publish"}

(* The loop's counters stay below their limits, and the event it is about to  *)
(* publish is not remembered.                                                *)
LoopInv ==
  /\ loop = [pc |-> loop.pc, ev |-> loop.ev, tries |-> loop.tries, attempt |-> loop.attempt]
  /\ loop.pc \in LoopPcs /\ loop.tries \in 0..MaxTries /\ loop.attempt \in 0..MaxAttempts
  /\ At("try") \/ At("publish") => loop.tries < MaxTries /\ ~Seen(loop.ev)
  /\ At("backoff") \/ At("dial") => loop.attempt < MaxAttempts
  /\ At("handle") \/ At("try") \/ At("publish") => loop.ev \in Events

(* Nobody runs before Start, and who returned from Stop saw the loop end.     *)
LifeInv ==
  /\ state \in {"not_started", "started", "stopped"}
  /\ ctxDone \in BOOLEAN /\ stopErr \in BOOLEAN
  /\ stopper \in [Stoppers -> {"idle", "once", "wait", "returned"}]
  /\ state = "not_started" <=> At("off")
  /\ once = "done" => At("done")
  /\ (\E p \in Stoppers : stopper[p] = "returned") => once = "done"

(* A connection that is open is the stream's or, for an instant, the one that *)
(* has just been dialled.                                                    *)
LinkInv ==
  /\ closed \in BOOLEAN /\ conns \in Nat /\ inner \in 0..conns /\ open \subseteq 1..conns
  /\ closed => inner = 0
  /\ At("off") \/ At("subscribe") => ~closed /\ conns = 0
  /\ At("backoff") \/ At("dial") \/ At("install") => inner = 0
  /\ open \subseteq IF At("install") THEN {conns} ELSE {inner}
  /\ At("done") => open = {}

(* The cache holds the last ids published, in the order of their publishing:  *)
(* after a position, every id remembered past that position's own was         *)
(* published again (Trail), and an id is forgotten by a full cache only.      *)
Trail ==
  \A i \in DOMAIN published, m \in DOMAIN cache :
    published[i] \notin NoID =>
      \/ \E l \in m..Len(cache) : cache[l] = published[i]
      \/ \E k \in i+1..Len(published) : published[k] = cache[m]
Forgotten ==
  \A i \in DOMAIN published :
    published[i] \notin NoID => Contains(cache, published[i]) \/ Len(cache) = CacheSize
MemoryInv ==
  /\ cache \in Seq(Events \ NoID) /\ Len(cache) <= CacheSize /\ IsInjective(cache)
  /\ published \in Seq(Events)
  /\ ToSet(cache) \subseteq ToSet(published)
  /\ Trail /\ Forgotten /\ NoRepeatInWindow

ConsumerInv == LoopInv /\ LifeInv /\ LinkInv /\ MemoryInv

Plain == {"subscribe", "next", "read", "install", "exit", "done"}

LEMMA PlainRule ==
  ASSUME LoopInv, NEW to \in Plain, Goto(to)
  PROVE  LoopInv' /\ At(to)'
<1> DEFINE tries == loop.tries  attempt == loop.attempt  ev == loop.ev
<1>1. /\ loop = [pc |-> loop.pc, ev |-> ev, tries |-> tries, attempt |-> attempt]
      /\ tries \in 0..MaxTries /\ attempt \in 0..MaxAttempts
  BY DEF LoopInv
<1> HIDE DEF tries, attempt, ev
<1>2. loop' = [pc |-> to, ev |-> ev, tries |-> tries, attempt |-> attempt]
  BY <1>1 DEF Goto
<1> QED BY <1>1, <1>2 DEF LoopInv, At, Plain, LoopPcs

(* A step of the loop that is under way, and is so afterwards. *)
LEMMA LifeRule ==
  ASSUME LifeInv, ~At("off"), ~At("done"), ~At("off")', stopErr' \in BOOLEAN,
         UNCHANGED <<state, ctxDone, stopper, once>>
  PROVE  LifeInv'
BY DEF LifeInv

LEMMA LinkRule ==
  ASSUME LinkInv, UNCHANGED streamVars, ~At("install"), ~At("off")', ~At("subscribe")',
         ~At("install")', ~At("done")',
         At("backoff")' \/ At("dial")' => At("backoff") \/ At("dial")
  PROVE  LinkInv'
BY DEF LinkInv, streamVars

LEMMA MemoryRule ==
  ASSUME MemoryInv, UNCHANGED <<cache, published>>
  PROVE  MemoryInv'
<1>1. Trail' /\ Forgotten'
  BY DEF MemoryInv, Trail, Forgotten, Contains
<1>2. NoRepeatInWindow'
  BY DEF MemoryInv, NoRepeatInWindow
<1>3. ToSet(cache)' = ToSet(cache) /\ ToSet(published)' = ToSet(published)
      /\ IsInjective(cache)'
  BY DEF MemoryInv, ToSet, IsInjective
<1> QED BY <1>1, <1>2, <1>3 DEF MemoryInv

(* The steps outside the loop. *)
LEMMA CallersKeep ==
  ASSUME ConsumerInv,
         Start \/ ParentCancelled \/ \E p \in Stoppers : Stop(p) \/ StopStep(p)
  PROVE  ConsumerInv'
<1>1. CASE Start
  <2>1. /\ At("off") /\ state' = "started" /\ Goto("subscribe") /\ once # "done"
        /\ UNCHANGED <<ctxDone, stopErr, stopper, once, streamVars, eventVars>>
    BY <1>1 DEF ConsumerInv, LifeInv, Start, At
  <2>2. LoopInv' /\ At("subscribe")'
    BY <2>1, PlainRule DEF ConsumerInv, Plain
  <2>3. LifeInv'
    BY <2>1, <2>2 DEF ConsumerInv, LifeInv, At
  <2>4. LinkInv'
    BY <2>1, <2>2 DEF ConsumerInv, LinkInv, streamVars, At
  <2>5. MemoryInv'
    BY <2>1, MemoryRule DEF ConsumerInv, eventVars
  <2> QED BY <2>2, <2>3, <2>4, <2>5 DEF ConsumerInv
<1>2. CASE ParentCancelled \/ \E p \in Stoppers : Stop(p) \/ StopStep(p)
  <2>1. UNCHANGED <<stopErr, loop, streamVars, eventVars>>
    BY <1>2 DEF ParentCancelled, Stop, StopStep, StopCancel, StopReturn
  <2>2. LoopInv' /\ LinkInv'
    BY <2>1 DEF ConsumerInv, LoopInv, LinkInv, At, Seen, Contains, streamVars, eventVars
  <2>3. MemoryInv'
    BY <2>1, MemoryRule DEF ConsumerInv, eventVars
  <2>4. LifeInv'
    <3>1. CASE ParentCancelled
      BY <2>1, <3>1 DEF ConsumerInv, LifeInv, ParentCancelled, At
    <3>2. ASSUME NEW p \in Stoppers, Stop(p) PROVE LifeInv'
      <4>1. /\ state # "not_started" /\ state' = "stopped"
            /\ stopper' = [stopper EXCEPT ![p] = "once"]
            /\ ctxDone' = ctxDone /\ once' = once
        BY <3>2 DEF Stop
      <4>2. ASSUME NEW q \in Stoppers, stopper'[q] = "returned" PROVE once = "done"
        BY <4>1, <4>2 DEF ConsumerInv, LifeInv
      <4> QED BY <2>1, <4>1, <4>2 DEF ConsumerInv, LifeInv, At
    <3>3. ASSUME NEW p \in Stoppers, StopCancel(p) PROVE LifeInv'
      <4>1. /\ once = "unused" /\ once' = "running" /\ ctxDone' = TRUE /\ state' = state
            /\ stopper' = [stopper EXCEPT ![p] = "wait"]
        BY <3>3 DEF StopCancel
      <4>2. ASSUME NEW q \in Stoppers PROVE stopper'[q] # "returned"
        BY <4>1 DEF ConsumerInv, LifeInv
      <4> QED BY <2>1, <4>1, <4>2 DEF ConsumerInv, LifeInv, At
    <3>4. ASSUME NEW p \in Stoppers, StopReturn(p) PROVE LifeInv'
      BY <2>1, <3>4 DEF ConsumerInv, LifeInv, StopReturn, At
    <3> QED BY <1>2, <3>1, <3>2, <3>3, <3>4 DEF StopStep
  <2> QED BY <2>2, <2>3, <2>4 DEF ConsumerInv
<1> QED BY <1>1, <1>2

(* Connecting: the first time, or after a broken read. *)
LEMMA EndKeeps ==
  ASSUME ConsumerInv, NEW failed \in BOOLEAN, End(failed), ~At("off"), ~At("done"),
         ~At("install"), UNCHANGED <<state, ctxDone, stopper, once, streamVars, eventVars>>
  PROVE  ConsumerInv'
<1>1. LoopInv' /\ At("exit")'
  BY PlainRule DEF ConsumerInv, End, Plain
<1>2. ~At("off")' /\ ~At("done")' /\ ~At("install")' /\ ~At("subscribe")'
      /\ ~At("backoff")' /\ ~At("dial")'
  BY <1>1 DEF At
<1>3. LifeInv'
  <2>1. stopErr' \in BOOLEAN
    BY DEF End
  <2> QED BY <1>2, <2>1, LifeRule DEF ConsumerInv
<1>4. LinkInv'
  BY <1>2, LinkRule DEF ConsumerInv
<1>5. MemoryInv'
  BY MemoryRule DEF ConsumerInv, eventVars
<1> QED BY <1>1, <1>3, <1>4, <1>5 DEF ConsumerInv

LEMMA SubscribeKeeps ==
  ASSUME ConsumerInv, Subscribe
  PROVE  ConsumerInv'
<1>1. At("subscribe") /\ UNCHANGED <<state, ctxDone, stopper, once, closed, eventVars>>
  BY DEF Subscribe
<1>2. CASE Dialled /\ inner' = conns + 1 /\ Goto("next") /\ UNCHANGED stopErr
  <2>1. LoopInv' /\ At("next")'
    BY <1>2, PlainRule DEF ConsumerInv, Plain
  <2>2. LifeInv'
    BY <1>1, <1>2, <2>1, LifeRule DEF ConsumerInv, At, LifeInv
  <2>3. closed = FALSE /\ conns = 0 /\ open = {} /\ closed' = closed
    BY <1>1 DEF ConsumerInv, LinkInv, At
  <2>4. conns' = 1 /\ inner' = 1 /\ open' = {1}
    BY <1>2, <2>3 DEF Dialled
  <2>5. LinkInv'
    <3>1. /\ conns' \in Nat /\ inner' \in 0..conns' /\ open' \subseteq 1..conns'
          /\ ~closed' /\ open' \subseteq {inner'}
      BY <2>3, <2>4
    <3>2. ~At("off")' /\ ~At("subscribe")' /\ ~At("backoff")' /\ ~At("dial")'
          /\ ~At("install")' /\ ~At("done")'
      BY <2>1 DEF At
    <3> QED BY <2>3, <3>1, <3>2 DEF LinkInv
  <2>6. MemoryInv'
    BY <1>1, MemoryRule DEF ConsumerInv, eventVars
  <2> QED BY <2>1, <2>2, <2>5, <2>6 DEF ConsumerInv
<1>3. CASE End(TRUE) /\ UNCHANGED <<inner, open, conns>>
  BY <1>1, <1>3, EndKeeps DEF At, streamVars
<1> QED BY <1>2, <1>3 DEF Subscribe

LEMMA NextKeeps ==
  ASSUME ConsumerInv, NextEvent \/ ReadAborted \/ BackoffAborted \/ DialRefused
  PROVE  ConsumerInv'
<1>1. /\ ~At("off") /\ ~At("done") /\ ~At("install")
      /\ UNCHANGED <<state, ctxDone, stopper, once, streamVars, eventVars>>
      /\ \/ \E failed \in BOOLEAN : End(failed)
         \/ Goto("read") /\ stopErr' = stopErr
  BY DEF NextEvent, ReadAborted, BackoffAborted, DialRefused, At
<1>2. CASE \E failed \in BOOLEAN : End(failed)
  BY <1>1, <1>2, EndKeeps
<1>3. CASE Goto("read") /\ stopErr' = stopErr
  <2>1. LoopInv' /\ At("read")'
    BY <1>3, PlainRule DEF ConsumerInv, Plain
  <2>2. LifeInv'
    BY <1>1, <1>3, <2>1, LifeRule DEF ConsumerInv, At, LifeInv
  <2>3. LinkInv'
    BY <1>1, <2>1, LinkRule DEF ConsumerInv, At
  <2>4. MemoryInv'
    BY <1>1, MemoryRule DEF ConsumerInv, eventVars
  <2> QED BY <2>1, <2>2, <2>3, <2>4 DEF ConsumerInv
<1> QED BY <1>1, <1>2, <1>3

LEMMA LoopRecord ==
  ASSUME LoopInv
  PROVE  \E pc, ev, tries, attempt :
           /\ loop = [pc |-> pc, ev |-> ev, tries |-> tries, attempt |-> attempt]
           /\ loop.ev = ev /\ loop.tries = tries /\ loop.attempt = attempt
           /\ tries \in 0..MaxTries /\ attempt \in 0..MaxAttempts
BY DEF LoopInv

(* A step between two places of the loop's inside. *)
LEMMA InsideKeeps ==
  ASSUME ConsumerInv, LoopInv', ~At("off"), ~At("done"), ~At("install"),
         UNCHANGED <<state, ctxDone, stopErr, stopper, once, streamVars, cache, published>>,
         loop'.pc \in {"next", "handle", "try", "publish", "dial", "backoff"},
         loop'.pc \in {"dial", "backoff"} => At("dial") \/ At("backoff")
  PROVE  ConsumerInv'
<1>1. ~At("off")' /\ ~At("subscribe")' /\ ~At("install")' /\ ~At("done")'
      /\ (At("backoff")' \/ At("dial")' => At("backoff") \/ At("dial"))
  BY DEF At
<1>2. LinkInv'
  BY <1>1, LinkRule DEF ConsumerInv
<1>3. LifeInv'
  BY <1>1, LifeRule DEF ConsumerInv, LifeInv
<1>4. MemoryInv'
  BY MemoryRule DEF ConsumerInv
<1> QED BY <1>2, <1>3, <1>4 DEF ConsumerInv

LEMMA ReadKeeps ==
  ASSUME ConsumerInv, NEW e \in Events, ReadFrame(e)
  PROVE  ConsumerInv'
<1>1. /\ At("read") /\ loop' = [loop EXCEPT !.pc = "handle", !.ev = e]
      /\ UNCHANGED <<state, ctxDone, stopErr, stopper, once, streamVars, cache, published>>
  BY DEF ReadFrame, consumerVars
<1>2. PICK pc, ev, tries, attempt :
        /\ loop = [pc |-> pc, ev |-> ev, tries |-> tries, attempt |-> attempt]
        /\ tries \in 0..MaxTries /\ attempt \in 0..MaxAttempts
  BY LoopRecord DEF ConsumerInv
<1>3. loop' = [pc |-> "handle", ev |-> e, tries |-> tries, attempt |-> attempt]
  BY <1>1, <1>2
<1>4. LoopInv'
  BY <1>2, <1>3 DEF LoopInv, LoopPcs, At
<1> QED BY <1>1, <1>3, <1>4, InsideKeeps DEF At

LEMMA BackoffKeeps ==
  ASSUME ConsumerInv, BackoffOver
  PROVE  ConsumerInv'
<1>1. /\ At("backoff") /\ loop' = [loop EXCEPT !.pc = "dial"]
      /\ UNCHANGED <<state, ctxDone, stopErr, stopper, once, streamVars, cache, published>>
  BY DEF BackoffOver, Goto, consumerVars, eventVars
<1>2. PICK pc, ev, tries, attempt :
        /\ loop = [pc |-> pc, ev |-> ev, tries |-> tries, attempt |-> attempt]
        /\ loop.attempt = attempt
        /\ tries \in 0..MaxTries /\ attempt \in 0..MaxAttempts
  BY LoopRecord DEF ConsumerInv
<1>3. loop' = [pc |-> "dial", ev |-> ev, tries |-> tries, attempt |-> attempt]
  BY <1>1, <1>2
<1>4. LoopInv'
  BY <1>1, <1>2, <1>3 DEF ConsumerInv, LoopInv, LoopPcs, At
<1> QED BY <1>1, <1>3, <1>4, InsideKeeps DEF At

LEMMA BrokenKeeps ==
  ASSUME ConsumerInv, ReadBroken
  PROVE  ConsumerInv'
<1>1. /\ At("read") /\ ~closed /\ open' = open \ {inner} /\ inner' = 0
      /\ loop' = [loop EXCEPT !.pc = "backoff", !.attempt = 0]
      /\ UNCHANGED <<state, ctxDone, stopErr, stopper, once, closed, conns, cache, published>>
  BY DEF ReadBroken, consumerVars, eventVars
<1>2. PICK pc, ev, tries, attempt :
        /\ loop = [pc |-> pc, ev |-> ev, tries |-> tries, attempt |-> attempt]
        /\ tries \in 0..MaxTries /\ attempt \in 0..MaxAttempts
  BY LoopRecord DEF ConsumerInv
<1>3. loop' = [pc |-> "backoff", ev |-> ev, tries |-> tries, attempt |-> 0]
  BY <1>1, <1>2
<1>4. LoopInv'
  <2>1. 0 \in 0..MaxAttempts /\ 0 < MaxAttempts
    BY SizesAssumption
  <2> QED BY <1>2, <1>3, <2>1 DEF LoopInv, LoopPcs, At
<1>5. LifeInv'
  BY <1>1, <1>3, LifeRule DEF ConsumerInv, LifeInv, At
<1>6. LinkInv'
  <2>1. /\ open' = {} /\ inner' = 0 /\ ~closed' /\ conns' = conns /\ conns \in Nat
        /\ closed' \in BOOLEAN
    BY <1>1 DEF ConsumerInv, LinkInv, At
  <2>2. At("backoff")' /\ ~At("off")' /\ ~At("subscribe")' /\ ~At("install")'
    BY <1>3 DEF At
  <2> QED BY <2>1, <2>2 DEF LinkInv
<1>7. MemoryInv'
  BY <1>1, MemoryRule DEF ConsumerInv
<1> QED BY <1>4, <1>5, <1>6, <1>7 DEF ConsumerInv

LEMMA DialKeeps ==
  ASSUME ConsumerInv, DialOk
  PROVE  ConsumerInv'
<1>1. /\ At("dial") /\ Dialled /\ Goto("install")
      /\ UNCHANGED <<state, ctxDone, stopErr, stopper, once, inner, closed, cache, published>>
  BY DEF DialOk, consumerVars, eventVars
<1>2. LoopInv' /\ At("install")'
  BY <1>1, PlainRule DEF ConsumerInv, Plain
<1>3. LifeInv'
  BY <1>1, <1>2, LifeRule DEF ConsumerInv, LifeInv, At
<1>4. LinkInv'
  <2>1. open = {} /\ inner = 0 /\ conns \in Nat /\ closed \in BOOLEAN
    BY <1>1 DEF ConsumerInv, LinkInv, At
  <2>2. /\ open' = {conns'} /\ conns' \in Nat /\ conns' >= 1 /\ inner' = 0
        /\ closed' \in BOOLEAN
    BY <1>1, <2>1 DEF Dialled
  <2> QED BY <1>2, <2>2 DEF LinkInv, At
<1>5. MemoryInv'
  BY <1>1, MemoryRule DEF ConsumerInv
<1> QED BY <1>2, <1>3, <1>4, <1>5 DEF ConsumerInv

LEMMA DialFailsKeeps ==
  ASSUME ConsumerInv, NEW kind \in Kinds, DialFails(kind)
  PROVE  ConsumerInv'
<1>1. At("dial") /\ UNCHANGED <<state, ctxDone, stopper, once, streamVars, eventVars>>
  BY DEF DialFails
<1>2. CASE loop.attempt + 1 < MaxAttempts
  <2>1. loop' = [loop EXCEPT !.pc = "backoff", !.attempt = @ + 1] /\ stopErr' = stopErr
    BY <1>2 DEF DialFails
  <2>2. PICK pc, ev, tries, attempt :
          /\ loop = [pc |-> pc, ev |-> ev, tries |-> tries, attempt |-> attempt]
          /\ loop.attempt = attempt
          /\ tries \in 0..MaxTries /\ attempt \in 0..MaxAttempts
    BY LoopRecord DEF ConsumerInv
  <2>3. loop' = [pc |-> "backoff", ev |-> ev, tries |-> tries, attempt |-> attempt + 1]
    BY <2>1, <2>2
  <2>4. attempt + 1 \in 0..MaxAttempts /\ attempt + 1 < MaxAttempts
    BY <1>2, <2>2, SizesAssumption
  <2>5. LoopInv'
    BY <2>2, <2>3, <2>4 DEF LoopInv, LoopPcs, At
  <2> QED BY <1>1, <2>1, <2>3, <2>5, InsideKeeps DEF At, eventVars
<1>3. CASE ~(loop.attempt + 1 < MaxAttempts)
  <2>1. End(kind = "other")
    BY <1>3 DEF DialFails
  <2> QED BY <1>1, <2>1, EndKeeps DEF At
<1> QED BY <1>2, <1>3

LEMMA InstallKeeps ==
  ASSUME ConsumerInv, Install
  PROVE  ConsumerInv'
<1>1. /\ At("install") /\ inner = 0 /\ open \subseteq {conns} /\ conns \in Nat
      /\ closed \in BOOLEAN /\ UNCHANGED <<state, ctxDone, stopper, once, closed, conns, eventVars>>
  BY DEF ConsumerInv, LinkInv, Install, At
<1>2. MemoryInv'
  BY <1>1, MemoryRule DEF ConsumerInv, eventVars
<1>3. CASE closed
  <2>1. open' = open \ {conns} /\ End(FALSE) /\ inner' = inner
    BY <1>3 DEF Install
  <2>2. LoopInv' /\ At("exit")'
    BY <2>1, PlainRule DEF ConsumerInv, End, Plain
  <2>3. LifeInv'
    BY <1>1, <2>1, <2>2, LifeRule DEF ConsumerInv, LifeInv, End, At
  <2>4. open' = {} /\ inner' = 0 /\ closed' /\ conns' \in Nat /\ closed' \in BOOLEAN
    BY <1>1, <1>3, <2>1
  <2>5. LinkInv'
    BY <2>2, <2>4 DEF LinkInv, At
  <2> QED BY <1>2, <2>2, <2>3, <2>5 DEF ConsumerInv
<1>4. CASE ~closed
  <2>1. inner' = conns /\ Goto("next") /\ open' = open /\ stopErr' = stopErr
    BY <1>4 DEF Install
  <2>2. LoopInv' /\ At("next")'
    BY <2>1, PlainRule DEF ConsumerInv, Plain
  <2>3. LifeInv'
    BY <1>1, <2>1, <2>2, LifeRule DEF ConsumerInv, LifeInv, At
  <2>4. /\ open' \subseteq {inner'} /\ inner' \in 0..conns' /\ ~closed' /\ conns' \in Nat
        /\ open' \subseteq 1..conns'
    BY <1>1, <1>4, <2>1 DEF ConsumerInv, LinkInv
  <2>5. LinkInv'
    BY <1>1, <2>2, <2>4 DEF LinkInv, At
  <2> QED BY <1>2, <2>2, <2>3, <2>5 DEF ConsumerInv
<1> QED BY <1>3, <1>4

LEMMA CloseKeeps ==
  ASSUME ConsumerInv, Exit \/ CloseElsewhere
  PROVE  ConsumerInv'
<1>1. /\ closed' = TRUE /\ inner' = 0 /\ conns' = conns
      /\ open' = IF closed THEN open ELSE open \ {inner}
      /\ UNCHANGED <<state, ctxDone, stopErr, stopper, once, cache, published>>
  BY DEF Exit, CloseElsewhere, CloseStream, consumerVars, eventVars
<1>2. MemoryInv'
  BY <1>1, MemoryRule DEF ConsumerInv
<1>3. CASE Exit
  <2>1. At("exit") /\ Goto("done")
    BY <1>3 DEF Exit
  <2>2. LoopInv' /\ At("done")'
    BY <2>1, PlainRule DEF ConsumerInv, Plain
  <2>3. LifeInv'
    BY <1>1, <2>1, <2>2 DEF ConsumerInv, LifeInv, At
  <2>4. conns \in Nat /\ open' = {}
    BY <1>1, <2>1 DEF ConsumerInv, LinkInv, At
  <2>5. LinkInv'
    BY <1>1, <2>2, <2>4 DEF LinkInv, At
  <2> QED BY <1>2, <2>2, <2>3, <2>5 DEF ConsumerInv
<1>4. CASE CloseElsewhere
  <2>1. conns > 0 /\ ~closed /\ loop' = loop
    BY <1>4 DEF CloseElsewhere
  <2>2. LoopInv' /\ LifeInv'
    BY <1>1, <2>1 DEF ConsumerInv, LoopInv, LifeInv, At, Seen, Contains
  <2>3. LinkInv'
    <3>1. conns \in Nat /\ ~At("off") /\ ~At("subscribe")
      BY <2>1 DEF ConsumerInv, LinkInv
    <3>2. open' \subseteq (IF At("install") THEN {conns} ELSE {}) /\ open' \subseteq 1..conns
      BY <1>1, <2>1 DEF ConsumerInv, LinkInv, At
    <3>3. At("done") => open' = {}
      BY <3>2 DEF At
    <3> QED BY <1>1, <2>1, <3>1, <3>2, <3>3 DEF LinkInv, At
  <2> QED BY <1>2, <2>2, <2>3 DEF ConsumerInv
<1> QED BY <1>3, <1>4

LEMMA HandleKeeps ==
  ASSUME ConsumerInv, HandleEvent
  PROVE  ConsumerInv'
<1> DEFINE to == IF loop.ev \in Malformed \/ Seen(loop.ev) THEN "next" ELSE "try"
<1>1. /\ At("handle") /\ loop' = [loop EXCEPT !.tries = 0, !.pc = to]
      /\ UNCHANGED <<state, ctxDone, stopErr, stopper, once, streamVars, cache, published>>
  BY DEF HandleEvent, consumerVars, eventVars
<1>2. PICK pc, ev, tries, attempt :
        /\ loop = [pc |-> pc, ev |-> ev, tries |-> tries, attempt |-> attempt]
        /\ loop.ev = ev
        /\ tries \in 0..MaxTries /\ attempt \in 0..MaxAttempts
  BY LoopRecord DEF ConsumerInv
<1>3. to \in {"next", "try"} /\ (to = "try" => ~Seen(ev)) /\ ev \in Events
  BY <1>1, <1>2 DEF ConsumerInv, LoopInv
<1> HIDE DEF to
<1>4. loop' = [pc |-> to, ev |-> ev, tries |-> 0, attempt |-> attempt]
  BY <1>1, <1>2
<1>5. LoopInv'
  <2>1. 0 \in 0..MaxTries /\ 0 < MaxTries
    BY SizesAssumption
  <2>2. Seen(ev)' <=> Seen(ev)
    BY <1>1 DEF Seen, Contains
  <2> QED BY <1>2, <1>3, <1>4, <2>1, <2>2 DEF LoopInv, LoopPcs, At, Seen
<1> QED BY <1>1, <1>3, <1>4, <1>5, InsideKeeps DEF At

LEMMA TryKeeps ==
  ASSUME ConsumerInv, TryPublish
  PROVE  ConsumerInv'
<1> DEFINE to == IF ctxDone THEN "next" ELSE "publish"
<1>1. /\ At("try") /\ loop' = [loop EXCEPT !.pc = to]
      /\ UNCHANGED <<state, ctxDone, stopErr, stopper, once, streamVars, cache, published>>
  BY DEF TryPublish, Goto, consumerVars, eventVars
<1>2. PICK pc, ev, tries, attempt :
        /\ loop = [pc |-> pc, ev |-> ev, tries |-> tries, attempt |-> attempt]
        /\ loop.ev = ev /\ loop.tries = tries
        /\ tries \in 0..MaxTries /\ attempt \in 0..MaxAttempts
  BY LoopRecord DEF ConsumerInv
<1>3. to \in {"next", "publish"} /\ ~Seen(ev) /\ ev \in Events /\ tries < MaxTries
  BY <1>1, <1>2 DEF ConsumerInv, LoopInv
<1> HIDE DEF to
<1>4. loop' = [pc |-> to, ev |-> ev, tries |-> tries, attempt |-> attempt]
  BY <1>1, <1>2
<1>5. LoopInv'
  <2>1. Seen(ev)' <=> Seen(ev)
    BY <1>1 DEF Seen, Contains
  <2> QED BY <1>2, <1>3, <1>4, <2>1 DEF LoopInv, LoopPcs, At, Seen
<1> QED BY <1>1, <1>3, <1>4, <1>5, InsideKeeps DEF At

LEMMA FailsKeeps ==
  ASSUME ConsumerInv, NEW kind \in Kinds, PublishFails(kind)
  PROVE  ConsumerInv'
<1>1. /\ At("publish")
      /\ UNCHANGED <<state, ctxDone, stopErr, stopper, once, streamVars, cache, published>>
  BY DEF PublishFails, consumerVars, eventVars
<1>2. PICK pc, ev, tries, attempt :
        /\ loop = [pc |-> pc, ev |-> ev, tries |-> tries, attempt |-> attempt]
        /\ loop.ev = ev /\ loop.tries = tries
        /\ tries \in 0..MaxTries /\ attempt \in 0..MaxAttempts
  BY LoopRecord DEF ConsumerInv
<1>3. ~Seen(ev) /\ ev \in Events /\ tries < MaxTries
  BY <1>1, <1>2 DEF ConsumerInv, LoopInv
<1>4. CASE Goto("next")
  <2>1. LoopInv' /\ At("next")'
    BY <1>4, PlainRule DEF ConsumerInv, Plain
  <2> QED BY <1>1, <2>1, InsideKeeps DEF At
<1>5. CASE loop' = [loop EXCEPT !.tries = @ + 1, !.pc = "try"] /\ tries + 1 # MaxTries
  <2>1. loop' = [pc |-> "try", ev |-> ev, tries |-> tries + 1, attempt |-> attempt]
    BY <1>2, <1>5
  <2>2. tries + 1 \in 0..MaxTries /\ tries + 1 < MaxTries
    BY <1>2, <1>3, <1>5, SizesAssumption
  <2>3. Seen(ev)' <=> Seen(ev)
    BY <1>1 DEF Seen, Contains
  <2>4. LoopInv'
    BY <1>2, <1>3, <2>1, <2>2, <2>3 DEF LoopInv, LoopPcs, At, Seen
  <2> QED BY <1>1, <2>1, <2>4, InsideKeeps DEF At
<1> QED BY <1>2, <1>4, <1>5 DEF PublishFails

(* What the cache holds after an id was recorded. *)
LEMMA RecordedIs ==
  ASSUME MemoryInv, NEW e \in Events, ~Seen(e), e \notin NoID
  PROVE  \E kept \in Seq(Events \ NoID), s \in {0, 1} :
            /\ Recorded(e) = Append(kept, e)
            /\ Len(cache) = Len(kept) + s /\ Len(kept) < CacheSize
            /\ s = 1 <=> Len(cache) = CacheSize
            /\ \A m \in 1..Len(kept) : kept[m] = cache[m + s] /\ kept[m] # e
            /\ \A m, l \in 1..Len(kept) : kept[m] = kept[l] => m = l
<1> DEFINE kept == IF Len(cache) = CacheSize THEN Tail(cache) ELSE cache
           s == IF Len(cache) = CacheSize THEN 1 ELSE 0
<1>1. cache \in Seq(Events \ NoID) /\ Len(cache) <= CacheSize /\ CacheSize \in Nat /\ CacheSize >= 1
      /\ Len(cache) \in Nat /\ DOMAIN cache = 1..Len(cache)
  BY SizesAssumption DEF MemoryInv
<1>2. /\ kept \in Seq(Events \ NoID) /\ Len(cache) = Len(kept) + s /\ Len(kept) < CacheSize
      /\ \A m \in 1..Len(kept) : kept[m] = cache[m + s]
  <2>1. CASE Len(cache) = CacheSize
    <3>1. kept = Tail(cache) /\ s = 1 /\ Len(cache) >= 1
      BY <1>1, <2>1
    <3>2. /\ Tail(cache) \in Seq(Events \ NoID) /\ Len(cache) = Len(Tail(cache)) + 1
          /\ \A m \in 1..Len(Tail(cache)) : Tail(cache)[m] = cache[m + 1]
      BY <1>1, <3>1, TailIs
    <3>3. Len(Tail(cache)) \in Nat
      BY <3>2
    <3> HIDE DEF kept, s
    <3> QED BY <1>1, <2>1, <3>1, <3>2, <3>3
  <2>2. CASE Len(cache) # CacheSize
    <3>1. kept = cache /\ s = 0
      BY <2>2
    <3>2. Len(cache) < CacheSize /\ Len(cache) = Len(cache) + 0
      <4> DEFINE l == Len(cache)
      <4>1. l \in Nat /\ l <= CacheSize /\ l # CacheSize /\ CacheSize \in Nat
        BY <1>1, <2>2
      <4> HIDE DEF l
      <4>2. l < CacheSize /\ l = l + 0
        BY <4>1
      <4> QED BY <4>2 DEF l
    <3>3. \A m \in 1..Len(cache) : cache[m] = cache[m + 0]
      BY <1>1
    <3> HIDE DEF kept, s
    <3> QED BY <1>1, <3>1, <3>2, <3>3
  <2> QED BY <2>1, <2>2
<1>3. \A m \in 1..Len(cache) : cache[m] # e
  BY <1>1 DEF Seen, Contains
<1>4. \A m, l \in 1..Len(cache) : cache[m] = cache[l] => m = l
  BY <1>1 DEF MemoryInv, IsInjective
<1>5. s \in {0, 1} /\ Recorded(e) = Append(kept, e) /\ (s = 1 <=> Len(cache) = CacheSize)
  BY DEF Recorded
<1> HIDE DEF kept, s
<1>6. \A m \in 1..Len(kept) : m + s \in 1..Len(cache)
  BY <1>1, <1>2, <1>5
<1>7. \A m, l \in 1..Len(kept) : kept[m] = kept[l] => m = l
  <2> TAKE m, l \in 1..Len(kept)
  <2> HAVE kept[m] = kept[l]
  <2>1. m + s = l + s
    BY <1>2, <1>4, <1>6
  <2> QED BY <1>1, <1>2, <1>5, <2>1
<1>8. \A m \in 1..Len(kept) : kept[m] # e
  BY <1>2, <1>3, <1>6
<1> QED BY <1>2, <1>5, <1>7, <1>8

(* A publish of an event with an id that is not remembered. *)
LEMMA RememberKeeps ==
  ASSUME MemoryInv, NEW e \in Events, ~Seen(e), e \notin NoID,
         published' = Append(published, e), cache' = Recorded(e)
  PROVE  MemoryInv'
<1>0. PICK kept \in Seq(Events \ NoID), s \in {0, 1} :
        /\ Recorded(e) = Append(kept, e)
        /\ Len(cache) = Len(kept) + s /\ Len(kept) < CacheSize
        /\ s = 1 <=> Len(cache) = CacheSize
        /\ \A m \in 1..Len(kept) : kept[m] = cache[m + s] /\ kept[m] # e
        /\ \A m, l \in 1..Len(kept) : kept[m] = kept[l] => m = l
  BY RecordedIs
<1> DEFINE n == Len(published)  d == Len(kept)
<1>1. /\ cache' = Append(kept, e) /\ kept \in Seq(Events \ NoID)
      /\ Len(cache) = d + s /\ d < CacheSize
      /\ \A m \in 1..d : kept[m] = cache[m + s]
      /\ \A m \in 1..d : kept[m] # e
      /\ \A m, l \in 1..d : kept[m] = kept[l] => m = l
      /\ s \in {0, 1} /\ (s = 1 <=> Len(cache) = CacheSize)
  BY <1>0
<1>2. /\ published \in Seq(Events) /\ n \in Nat /\ DOMAIN published = 1..n
      /\ published' = Append(published, e)
      /\ cache \in Seq(Events \ NoID) /\ DOMAIN cache = 1..Len(cache)
      /\ CacheSize \in Nat /\ CacheSize >= 1 /\ d \in Nat
  <2>1. d \in Nat
    BY <1>1
  <2> QED BY <2>1, SizesAssumption DEF MemoryInv
<1> HIDE DEF d, n
<1>3. /\ Len(published') = n + 1 /\ DOMAIN published' = 1..(n + 1)
      /\ published'[n + 1] = e /\ published' \in Seq(Events)
      /\ \A i \in 1..n : published'[i] = published[i]
  BY <1>2 DEF n
<1>4. /\ Len(cache') = d + 1 /\ DOMAIN cache' = 1..(d + 1)
      /\ cache'[d + 1] = e /\ cache' \in Seq(Events \ NoID)
      /\ \A m \in 1..d : cache'[m] = kept[m]
  BY <1>1 DEF d
<1>5. Len(cache') <= CacheSize
  BY <1>1, <1>2, <1>4
<1>6. IsInjective(cache')
  <2> SUFFICES ASSUME NEW a \in 1..(d + 1), NEW b \in 1..(d + 1), cache'[a] = cache'[b]
               PROVE  a = b
    BY <1>4 DEF IsInjective
  <2>1. (a \in 1..d \/ a = d + 1) /\ (b \in 1..d \/ b = d + 1)
    BY <1>2
  <2> QED BY <1>1, <1>4, <2>1
<1>7. ToSet(cache') \subseteq ToSet(published')
  <2> SUFFICES ASSUME NEW a \in 1..(d + 1) PROVE cache'[a] \in ToSet(published')
    BY <1>4 DEF ToSet
  <2>0. \A x \in 1..(n + 1) : published'[x] \in ToSet(published')
    BY <1>3 DEF ToSet
  <2>1. CASE a = d + 1
    <3>1. n + 1 \in 1..(n + 1)
      BY <1>2
    <3> QED BY <1>3, <1>4, <2>0, <2>1, <3>1
  <2>2. CASE a \in 1..d
    <3>0. a + s \in 1..Len(cache)
      BY <1>1, <1>2, <2>2
    <3>1. a + s \in 1..Len(cache) /\ cache'[a] = cache[a + s]
      BY <1>1, <1>4, <2>2, <3>0
    <3>2. cache[a + s] \in ToSet(published)
      BY <1>2, <3>1 DEF MemoryInv, ToSet
    <3>3. PICK i \in 1..n : published[i] = cache[a + s]
      BY <1>2, <3>2 DEF ToSet
    <3>4. i \in 1..(n + 1) /\ published'[i] = cache'[a]
      BY <1>2, <1>3, <3>1, <3>3
    <3> QED BY <2>0, <3>4
  <2> QED BY <1>2, <2>1, <2>2
<1>8. Trail'
  <2>0. ASSUME \A i \in 1..(n + 1), m \in 1..(d + 1) : published'[i] \notin NoID =>
                 \/ \E l \in m..(d + 1) : cache'[l] = published'[i]
                 \/ \E k \in i+1..(n + 1) : published'[k] = cache'[m]
        PROVE  Trail'
    <3>1. /\ DOMAIN published' = 1..(n + 1) /\ DOMAIN cache' = 1..(d + 1)
          /\ Len(published') = n + 1 /\ Len(cache') = d + 1
      BY <1>3, <1>4
    <3> SUFFICES ASSUME NEW i \in DOMAIN published', NEW m \in DOMAIN cache',
                        published'[i] \notin NoID
                 PROVE  \/ \E l \in m..Len(cache') : cache'[l] = published'[i]
                        \/ \E k \in i+1..Len(published') : published'[k] = cache'[m]
      BY DEF Trail
    <3> HIDE DEF d, n
    <3>2. i \in 1..(n + 1) /\ m \in 1..(d + 1)
      BY <3>1
    <3> QED BY <2>0, <3>1, <3>2
  <2> SUFFICES ASSUME NEW i \in 1..(n + 1), NEW m \in 1..(d + 1), published'[i] \notin NoID
               PROVE  \/ \E l \in m..(d + 1) : cache'[l] = published'[i]
                      \/ \E k \in i+1..(n + 1) : published'[k] = cache'[m]
    BY <2>0
  <2>1. CASE i = n + 1
    <3>1. d + 1 \in m..(d + 1)
      BY <1>2
    <3> QED BY <1>3, <1>4, <2>1, <3>1
  <2>2. CASE i \in 1..n /\ m = d + 1
    <3>1. n + 1 \in i+1..(n + 1)
      BY <1>2, <2>2
    <3> QED BY <1>3, <1>4, <2>2, <3>1
  <2>3. CASE i \in 1..n /\ m \in 1..d
    <3>0. m + s \in 1..Len(cache) /\ i \in 1..n
      BY <1>1, <1>2, <2>3
    <3>1. m + s \in DOMAIN cache /\ cache'[m] = cache[m + s] /\ i \in DOMAIN published
          /\ published'[i] = published[i]
      BY <1>1, <1>2, <1>3, <1>4, <2>3, <3>0
    <3>2. \/ \E l \in (m + s)..Len(cache) : cache[l] = published[i]
          \/ \E k \in i+1..n : published[k] = cache[m + s]
      BY <3>1 DEF MemoryInv, Trail, n
    <3>3. ASSUME NEW l \in (m + s)..Len(cache), cache[l] = published[i]
          PROVE  \E x \in m..(d + 1) : cache'[x] = published'[i]
      <4>1. l - s \in m..(d + 1) /\ l - s \in 1..d /\ (l - s) + s = l
        BY <1>1, <1>2, <2>3
      <4>2. cache'[l - s] = cache[l]
        BY <1>1, <1>4, <4>1
      <4> QED BY <3>1, <3>3, <4>1, <4>2
    <3>4. ASSUME NEW k \in i+1..n, published[k] = cache[m + s]
          PROVE  \E x \in i+1..(n + 1) : published'[x] = cache'[m]
      <4>1. k \in i+1..(n + 1) /\ k \in 1..n
        BY <1>2, <2>3
      <4> QED BY <1>3, <3>1, <3>4, <4>1
    <3> QED BY <3>2, <3>3, <3>4
  <2>4. (i = n + 1 \/ i \in 1..n) /\ (m = d + 1 \/ m \in 1..d)
    BY <1>2
  <2> QED BY <2>1, <2>2, <2>3, <2>4
<1>9. Forgotten'
  <2> SUFFICES ASSUME NEW i \in 1..(n + 1), published'[i] \notin NoID, d + 1 # CacheSize
               PROVE  \E l \in 1..(d + 1) : cache'[l] = published'[i]
    BY <1>3, <1>4 DEF Forgotten, Contains
  <2>1. CASE i = n + 1
    BY <1>2, <1>3, <1>4, <2>1
  <2>2. CASE i \in 1..n
    <3>1. s = 0 /\ Len(cache) # CacheSize
      BY <1>1, <1>2
    <3>2. PICK l \in 1..Len(cache) : cache[l] = published[i]
      BY <1>2, <1>3, <2>2, <3>1 DEF MemoryInv, Forgotten, Contains
    <3>3. l \in 1..d /\ l + s = l
      BY <1>1, <1>2, <3>1
    <3>4. l \in 1..(d + 1) /\ cache'[l] = published'[i]
      BY <1>1, <1>2, <1>3, <1>4, <2>2, <3>2, <3>3
    <3> QED BY <3>4
  <2>3. i = n + 1 \/ i \in 1..n
    BY <1>2
  <2> QED BY <2>1, <2>2, <2>3
<1>10. ASSUME NEW i \in 1..n, published[i] = e
       PROVE  Cardinality({published[k] : k \in i+1..n} \ NoID) >= CacheSize
  <2>1. ~Contains(cache, published[i])
    BY <1>10 DEF Seen
  <2>2. Len(cache) = CacheSize
    BY <1>2, <1>10, <2>1 DEF MemoryInv, Forgotten
  <2>3. \A m \in 1..Len(cache) : \E k \in i+1..n : published[k] = cache[m]
    <3> TAKE m \in 1..Len(cache)
    <3>1. \/ \E l \in m..Len(cache) : cache[l] = published[i]
          \/ \E k \in i+1..n : published[k] = cache[m]
      BY <1>2, <1>10 DEF MemoryInv, Trail, n
    <3>2. \A l \in m..Len(cache) : l \in 1..Len(cache)
      BY <1>2
    <3> QED BY <2>1, <3>1, <3>2 DEF Contains
  <2>4. ToSet(cache) \subseteq {published[k] : k \in i+1..n} \ NoID
    BY <1>2, <2>3 DEF ToSet
  <2>5. Cardinality(ToSet(cache)) = CacheSize
    BY <2>2, AsManyAsPlaces DEF MemoryInv
  <2>6. IsFiniteSet({published[k] : k \in i+1..n})
    <3>1. IsFiniteSet(i+1..n)
      BY <1>2, FS_Interval
    <3> DEFINE I == i+1..n  R == {published[k] : k \in i+1..n}
               f == [k \in I |-> published[k]]
    <3>2. f \in Surjection(I, R)
      <4>1. f \in [I -> R] /\ \A t \in R : \E k \in I : f[k] = t
        OBVIOUS
      <4> QED BY <4>1, Fun_IsSurj
    <3> QED BY <3>1, <3>2, FS_Surjection
  <2>7. IsFiniteSet({published[k] : k \in i+1..n} \ NoID)
    BY <2>6, FS_Difference
  <2> DEFINE T == {published[k] : k \in i+1..n} \ NoID
  <2>8. ToSet(cache) \in SUBSET T /\ IsFiniteSet(T)
    BY <2>4, <2>7
  <2> HIDE DEF T
  <2>9. Cardinality(ToSet(cache)) <= Cardinality(T) /\ Cardinality(T) \in Nat
    BY <2>8, FS_Subset, FS_CardinalityType
  <2> QED BY <1>2, <2>5, <2>9 DEF T
<1>11. NoRepeatInWindow'
  <2> SUFFICES ASSUME NEW i \in 1..(n + 1), NEW j \in 1..(n + 1), i < j,
                      published'[i] = published'[j], published'[i] \notin NoID
               PROVE  Cardinality({published'[k] : k \in i+1..j-1} \ NoID) >= CacheSize
    BY <1>3 DEF NoRepeatInWindow
  <2>1. i \in 1..n /\ i+1..j-1 \subseteq 1..n /\ (j = n + 1 \/ j \in 1..n)
    BY <1>2
  <2>2. {published'[k] : k \in i+1..j-1} = {published[k] : k \in i+1..j-1}
    BY <1>3, <2>1
  <2>3. CASE j = n + 1
    <3>1. published[i] = e /\ j - 1 = n
      BY <1>2, <1>3, <2>1, <2>3
    <3> QED BY <1>10, <2>1, <2>2, <3>1
  <2>4. CASE j \in 1..n
    <3>1. published[i] = published[j] /\ published[i] \notin NoID
      BY <1>3, <2>1, <2>4
    <3>2. Cardinality({published[k] : k \in i+1..j-1} \ NoID) >= CacheSize
      BY <1>2, <2>1, <2>4, <3>1 DEF MemoryInv, NoRepeatInWindow
    <3> QED BY <2>2, <3>2
  <2> QED BY <2>1, <2>3, <2>4
<1> QED BY <1>3, <1>4, <1>5, <1>6, <1>7, <1>8, <1>9, <1>11 DEF MemoryInv
(* A publish of an event without an id. *)
LEMMA NamelessKeeps ==
  ASSUME MemoryInv, NEW e \in Events, e \in NoID,
         published' = Append(published, e), cache' = cache
  PROVE  MemoryInv'
<1> DEFINE n == Len(published)
<1>1. /\ n \in Nat /\ DOMAIN published = 1..n /\ published' \in Seq(Events)
      /\ Len(published') = n + 1 /\ DOMAIN published' = 1..(n + 1)
      /\ published'[n + 1] = e
      /\ \A i \in 1..n : i \in 1..(n + 1) /\ published'[i] = published[i]
  BY Grown DEF MemoryInv
<1> HIDE DEF n
<1>2. \A i \in 1..(n + 1) : published'[i] \notin NoID => i \in 1..n /\ published'[i] = published[i]
  <2> TAKE i \in 1..(n + 1)
  <2>1. i \in 1..n \/ i = n + 1
    BY <1>1
  <2> QED BY <1>1, <2>1
<1>3. ToSet(cache') = ToSet(cache) /\ IsInjective(cache')
  BY DEF MemoryInv, ToSet, IsInjective
<1>4. ToSet(published) \subseteq ToSet(published')
  BY <1>1 DEF ToSet
<1>5. Forgotten'
  <2>1. \A i \in DOMAIN published' : published'[i] \notin NoID =>
           Contains(cache, published'[i]) \/ Len(cache) = CacheSize
    BY <1>1, <1>2 DEF MemoryInv, Forgotten
  <2> QED BY <2>1 DEF Forgotten, Contains
<1>6. Trail'
  <2> SUFFICES ASSUME NEW i \in DOMAIN published', NEW m \in DOMAIN cache,
                      published'[i] \notin NoID
               PROVE  \/ \E l \in m..Len(cache) : cache[l] = published'[i]
                      \/ \E k \in i+1..Len(published') : published'[k] = cache[m]
    BY DEF Trail
  <2>1. i \in 1..n /\ published'[i] = published[i]
    BY <1>1, <1>2
  <2>2. \/ \E l \in m..Len(cache) : cache[l] = published[i]
        \/ \E k \in i+1..n : published[k] = cache[m]
    BY <1>1, <2>1 DEF MemoryInv, Trail, n
  <2>3. ASSUME NEW k \in i+1..n, published[k] = cache[m]
        PROVE  \E x \in i+1..(n + 1) : published'[x] = cache[m]
    <3>1. k \in i+1..(n + 1) /\ k \in 1..n
      BY <1>1, <2>1
    <3> QED BY <1>1, <2>3, <3>1
  <2> QED BY <1>1, <2>1, <2>2, <2>3
<1>7. NoRepeatInWindow'
  <2> SUFFICES ASSUME NEW i \in 1..(n + 1), NEW j \in 1..(n + 1), i < j,
                      published'[i] = published'[j], published'[i] \notin NoID
               PROVE  Cardinality({published'[k] : k \in i+1..j-1} \ NoID) >= CacheSize
    BY <1>1 DEF NoRepeatInWindow
  <2>1. /\ i \in 1..n /\ j \in 1..n /\ published'[i] = published[i]
        /\ published'[j] = published[j]
    BY <1>2
  <2>2. i+1..j-1 \subseteq 1..n
    BY <1>1, <2>1
  <2>3. {published'[k] : k \in i+1..j-1} = {published[k] : k \in i+1..j-1}
    BY <1>1, <2>2
  <2>4. Cardinality({published[k] : k \in i+1..j-1} \ NoID) >= CacheSize
    BY <1>1, <2>1 DEF MemoryInv, NoRepeatInWindow
  <2> QED BY <2>3, <2>4
<1> QED BY <1>1, <1>3, <1>4, <1>5, <1>6, <1>7 DEF MemoryInv

LEMMA OkKeeps ==
  ASSUME ConsumerInv, PublishOk
  PROVE  ConsumerInv'
<1>1. /\ At("publish") /\ published' = Append(published, loop.ev)
      /\ cache' = Recorded(loop.ev) /\ Goto("next")
      /\ UNCHANGED <<state, ctxDone, stopErr, stopper, once, streamVars>>
  BY DEF PublishOk, consumerVars
<1>2. loop.ev \in Events /\ ~Seen(loop.ev)
  BY <1>1 DEF ConsumerInv, LoopInv
<1>3. MemoryInv'
  <2>1. CASE loop.ev \in NoID
    <3>1. cache' = cache
      BY <1>1, <2>1 DEF Recorded
    <3> QED BY <1>1, <1>2, <2>1, <3>1, NamelessKeeps DEF ConsumerInv
  <2>2. CASE loop.ev \notin NoID
    BY <1>1, <1>2, <2>2, RememberKeeps DEF ConsumerInv
  <2> QED BY <2>1, <2>2
<1>4. LoopInv' /\ At("next")'
  BY <1>1, PlainRule DEF ConsumerInv, Plain
<1>5. ~At("off") /\ ~At("done") /\ ~At("install")
  BY <1>1 DEF At
<1>6. ~At("off")' /\ ~At("subscribe")' /\ ~At("backoff")' /\ ~At("dial")'
      /\ ~At("install")' /\ ~At("done")'
  BY <1>4 DEF At
<1>7. LifeInv'
  BY <1>1, <1>5, <1>6, LifeRule DEF ConsumerInv, LifeInv
<1>8. LinkInv'
  BY <1>1, <1>5, <1>6, LinkRule DEF ConsumerInv
<1> QED BY <1>3, <1>4, <1>7, <1>8 DEF ConsumerInv

LEMMA InitConsumer == Init => ConsumerInv
<1> SUFFICES ASSUME Init PROVE ConsumerInv
  OBVIOUS
<1>1. LoopInv
  <2>1. 0 \in 0..MaxTries /\ 0 \in 0..MaxAttempts
    BY SizesAssumption
  <2>2. /\ loop = [pc |-> "off", ev |-> "none", tries |-> 0, attempt |-> 0]
        /\ loop.pc = "off" /\ loop.ev = "none" /\ loop.tries = 0 /\ loop.attempt = 0
    BY DEF Init, Start0
  <2> QED BY <2>1, <2>2 DEF LoopInv, LoopPcs, At
<1>2. LifeInv
  BY DEF Init, Start0, LifeInv, At
<1>3. LinkInv
  <2>1. /\ loop.pc = "off" /\ closed = FALSE /\ conns = 0 /\ inner = 0 /\ open = {}
    BY DEF Init, Start0
  <2>2. 0 \in Nat /\ 0 \in 0..0
    OBVIOUS
  <2> QED BY <2>1, <2>2 DEF LinkInv, At
<1>4. MemoryInv
  <2>1. cache = <<>> /\ published = <<>>
    BY DEF Init
  <2>2. ToSet(cache) = {} /\ IsInjective(cache)
    BY <2>1 DEF ToSet, IsInjective
  <2>3. Len(cache) <= CacheSize
    BY <2>1, SizesAssumption
  <2> QED BY <2>1, <2>2, <2>3 DEF MemoryInv, Trail, Forgotten, NoRepeatInWindow
<1> QED BY <1>1, <1>2, <1>3, <1>4 DEF ConsumerInv

LEMMA ConsumerInvStep ==
  ASSUME ConsumerInv, [Next]_vars
  PROVE  ConsumerInv'
<1>1. CASE Next
  <2>1. CASE Start \/ ParentCancelled \/ \E p \in Stoppers : Stop(p) \/ StopStep(p)
    BY <2>1, CallersKeep
  <2>2. CASE LoopStep
    <3>1. CASE \E kind \in Kinds : DialFails(kind) \/ PublishFails(kind)
      BY <3>1, DialFailsKeeps, FailsKeeps
    <3>2. CASE Subscribe \/ NextEvent \/ ReadAborted \/ BackoffOver \/ BackoffAborted
               \/ DialOk \/ DialRefused
      BY <3>2, SubscribeKeeps, NextKeeps, BackoffKeeps, DialKeeps
    <3>3. CASE Install \/ Exit \/ HandleEvent \/ TryPublish \/ PublishOk
      BY <3>3, InstallKeeps, CloseKeeps, HandleKeeps, TryKeeps, OkKeeps
    <3> QED BY <2>2, <3>1, <3>2, <3>3 DEF LoopStep
  <2>3. CASE ReadBroken \/ CloseElsewhere \/ \E e \in Events : ReadFrame(e)
    BY <2>3, BrokenKeeps, CloseKeeps, ReadKeeps
  <2> QED BY <1>1, <2>1, <2>2, <2>3 DEF Next
<1>2. CASE UNCHANGED vars
  <2>1. UNCHANGED <<state, ctxDone, stopErr, stopper, once, loop, streamVars, cache, published>>
    BY <1>2 DEF vars, consumerVars, eventVars
  <2>2. LoopInv' /\ LifeInv' /\ LinkInv'
    BY <2>1 DEF ConsumerInv, LoopInv, LifeInv, LinkInv, At, Seen, Contains, streamVars
  <2>3. MemoryInv'
    BY <2>1, MemoryRule DEF ConsumerInv
  <2> QED BY <2>2, <2>3 DEF ConsumerInv
<1> QED BY <1>1, <1>2

(* consumer.go and subscribe_resilient.go: the invariant above.               *)
THEOREM ConsumerInvariance == Spec => []ConsumerInv
BY InitConsumer, ConsumerInvStep, PTL DEF Spec

LEMMA ConsumerDelivers == ConsumerInv => DeliveredOnceUntilStopped
<1> SUFFICES ASSUME ConsumerInv PROVE DeliveredOnceUntilStopped
  OBVIOUS
<1>1. TypeOK
  <2>1. ToSet(cache) \subseteq Events \ NoID
    BY DEF ConsumerInv, MemoryInv, ToSet
  <2> QED BY <2>1 DEF ConsumerInv, LoopInv, LifeInv, LinkInv, MemoryInv, TypeOK
<1>2. StopIsFinal
  BY DEF ConsumerInv, LifeInv, LinkInv, StopIsFinal
<1>3. OneConnection
  <2>1. PICK x : open \subseteq {x}
    BY DEF ConsumerInv, LinkInv
  <2>2. Cardinality(open) <= 1
    <3>1. open \in SUBSET {x} /\ IsFiniteSet({x}) /\ Cardinality({x}) = 1
      BY <2>1, FS_Singleton
    <3> QED BY <3>1, FS_Subset
  <2> QED BY <2>2 DEF ConsumerInv, LinkInv, OneConnection
<1>4. NoRepeatInWindow /\ OnlyPublishedIsRemembered
  BY DEF ConsumerInv, MemoryInv, OnlyPublishedIsRemembered
<1> QED BY <1>1, <1>2, <1>3, <1>4 DEF DeliveredOnceUntilStopped

(* consumer.go handleEvent and Stop, subscribe_resilient.go: no id is published *)
(* twice within CacheSize publishes of others, what was given up is not        *)
(* remembered, and a returned Stop leaves no connection and no publish.        *)
THEOREM DeliveredOnce == Spec => []DeliveredOnceUntilStopped
BY ConsumerInvariance, ConsumerDelivers, PTL
=============================================================================
