------------------------------ MODULE EventBus ------------------------------
(***************************************************************************)
(* The in-process pub/sub bus (core/pkg/eventbus/bus.go).                  *)
(*                                                                         *)
(* Publish, Subscribe, unsubscribe and Close run on caller goroutines;     *)
(* every topic has one worker goroutine reading a bounded channel.  One    *)
(* action is one critical section, one channel operation or one handler    *)
(* call.  A section that runs under Bus.mu without blocking is atomic; the *)
(* lock of a topic (topicState.mu) is modelled where Subscribe holds it    *)
(* across the release of Bus.mu, because that is where it matters.         *)
(*                                                                         *)
(* An event is <<publisher, n>>, the n-th Publish of that goroutine.       *)
(*                                                                         *)
(* Operators named Bug... are seeded faults: what the definition after     *)
(* them would be with one line of the code wrong.  No specification uses   *)
(* them; the project's mutation runs do.                                   *)
(***************************************************************************)
EXTENDS Naturals, Sequences, FiniteSets

CONSTANTS
  Topics,       \* the topic names used
  Publishers,   \* goroutines calling Bus.Publish
  Subscribers,  \* handlers, each subscribed at most once (a fresh handler id)
  Closers,      \* goroutines calling Bus.Close
  BufferSize,   \* config.bufferSize, capacity of every topic channel
  MaxPublish    \* bound: Publish calls per publisher

ASSUME BufferAssumption  == BufferSize \in Nat \ {0}
ASSUME PublishAssumption == MaxPublish \in Nat

VARIABLES
  closed,     \* Bus.closed
  done,       \* Bus.done is closed
  topics,     \* keys of Bus.topics
  queue,      \* buffered envelopes of each topic channel
  chClosed,   \* topics whose channel has been closed
  publishWG,  \* the Publish calls Bus.publishWG counts
  once,       \* Bus.closeOnce: "free", "running" or "finished"
  channels,   \* Close's local snapshot of the topic channels
  closer,     \* where each Close call is
  pub,        \* where each publisher is
  ptopic,     \* topic of the current Publish call
  pcount,     \* Publish calls made so far
  worker,     \* where each topic worker is; "none" before it is spawned
  cur,        \* the envelope each worker took from its channel
  snap,       \* handlers still to call for the event being dispatched
  sub,        \* where each subscriber is
  stopic,     \* topic it subscribes to
  subs,       \* topicState.subs
  \* History, read by no action:
  accepted,   \* events whose Publish returned nil, in queue order
  begun,      \* dispatches begun per topic (subscriber list snapshotted)
  delivered,  \* events handed to each subscriber's handler, in order
  since       \* per subscriber: accepted and begun when it was registered

busVars  == <<closed, done, topics, queue, chClosed, publishWG>>
closeVars == <<once, channels, closer>>
pubVars  == <<pub, ptopic, pcount>>
subVars  == <<sub, stopic, subs, since>>
workVars == <<worker, cur, snap, begun, delivered>>
vars == <<busVars, closeVars, pubVars, subVars, workVars, accepted>>

Events == Publishers \X (1..MaxPublish)
NoEvent == <<>>

Init ==
  /\ closed = FALSE /\ done = FALSE
  /\ topics = {} /\ chClosed = {} /\ channels = {}
  /\ queue = [t \in Topics |-> <<>>]
  /\ publishWG = {}
  /\ once = "free"
  /\ closer = [c \in Closers |-> "idle"]
  /\ pub = [p \in Publishers |-> "idle"]
  /\ ptopic \in [Publishers -> Topics]
  /\ pcount = [p \in Publishers |-> 0]
  /\ worker = [t \in Topics |-> "none"]
  /\ cur = [t \in Topics |-> NoEvent]
  /\ snap = [t \in Topics |-> <<>>]
  /\ sub = [s \in Subscribers |-> "idle"]
  /\ stopic \in [Subscribers -> Topics]
  /\ subs = [t \in Topics |-> <<>>]
  /\ accepted = [t \in Topics |-> <<>>]
  /\ begun = [t \in Topics |-> 0]
  /\ delivered = [s \in Subscribers |-> <<>>]
  /\ since = [s \in Subscribers |-> [accepted |-> 0, begun |-> 0]]

-----------------------------------------------------------------------------
(* Topics: installed, with their worker, under Bus.mu *)

install(t) ==
  /\ topics' = topics \cup {t}
  /\ worker' = IF t \in topics THEN worker ELSE [worker EXCEPT ![t] = "recv"]

(* topicState.mu is held by a Subscribe that has released Bus.mu *)
tsLocked(t) == \E s \in Subscribers : sub[s] = "locked" /\ stopic[s] = t

-----------------------------------------------------------------------------
(* Publish *)

Event(p) == <<p, pcount[p]>>

(* Every return after publishWG.Add runs the deferred publishWG.Done *)
Return(p) ==
  /\ pub' = [pub EXCEPT ![p] = "idle"]
  /\ publishWG' = publishWG \ {p}

(* Fast-path check of the closed flag, without a lock *)
PublishCall(p) ==
  /\ pub[p] = "idle" /\ pcount[p] < MaxPublish
  /\ \E t \in Topics : ptopic' = [ptopic EXCEPT ![p] = t]
  /\ pcount' = [pcount EXCEPT ![p] = @ + 1]
  /\ pub' = IF closed THEN pub ELSE [pub EXCEPT ![p] = "register"]
  /\ UNCHANGED <<busVars, closeVars, subVars, workVars, accepted>>

(* Under Bus.mu: re-check closed, register in publishWG *)
PublishRegister(p) ==
  /\ pub[p] = "register"
  /\ IF closed
       THEN /\ pub' = [pub EXCEPT ![p] = "idle"]
            /\ UNCHANGED publishWG
       ELSE /\ pub' = [pub EXCEPT ![p] = "topic"]
            /\ publishWG' = publishWG \cup {p}
  /\ UNCHANGED <<closed, done, topics, queue, chClosed, ptopic, pcount>>
  /\ UNCHANGED <<closeVars, subVars, workVars, accepted>>

BugNoRecheck(p) ==   \* getOrCreateTopic without its closed re-check
  /\ pub[p] = "topic"
  /\ install(ptopic[p])
  /\ pub' = [pub EXCEPT ![p] = "send"]
  /\ UNCHANGED <<closed, done, queue, chClosed, publishWG, ptopic, pcount>>
  /\ UNCHANGED <<closeVars, subVars, cur, snap, begun, delivered, accepted>>

(* Under Bus.mu: an existing topic is used even after Close began; a new   *)
(* one is only installed while the bus is open                             *)
getOrCreateTopic(p) ==
  /\ pub[p] = "topic"
  /\ IF ptopic[p] \in topics \/ ~closed
       THEN /\ install(ptopic[p])
            /\ pub' = [pub EXCEPT ![p] = "send"]
            /\ UNCHANGED publishWG
       ELSE /\ Return(p)
            /\ UNCHANGED <<topics, worker>>
  /\ UNCHANGED <<closed, done, queue, chClosed, ptopic, pcount>>
  /\ UNCHANGED <<closeVars, subVars, cur, snap, begun, delivered, accepted>>

(* A send on the topic channel; on a closed one the process panics *)
Send(p, t) ==
  IF t \in chClosed
    THEN /\ pub' = [pub EXCEPT ![p] = "panicked"]
         /\ UNCHANGED <<publishWG, queue, accepted>>
    ELSE /\ Len(queue[t]) < BufferSize
         /\ queue' = [queue EXCEPT ![t] = Append(@, Event(p))]
         /\ accepted' = [accepted EXCEPT ![t] = Append(@, Event(p))]
         /\ Return(p)

(* First select: non-blocking send, default to the blocking select *)
PublishFast(p) ==
  /\ pub[p] = "send"
  /\ \/ Send(p, ptopic[p])
     \/ /\ ptopic[p] \notin chClosed
        /\ Len(queue[ptopic[p]]) >= BufferSize
        /\ pub' = [pub EXCEPT ![p] = "blocked"]
        /\ UNCHANGED <<publishWG, queue, accepted>>
  /\ UNCHANGED <<closed, done, topics, chClosed, ptopic, pcount>>
  /\ UNCHANGED <<closeVars, subVars, workVars>>

(* Second select: whichever of the send, ctx.Done and Bus.done is ready *)
PublishSlow(p) ==
  /\ pub[p] = "blocked"
  /\ Send(p, ptopic[p])
  /\ UNCHANGED <<closed, done, topics, chClosed, ptopic, pcount>>
  /\ UNCHANGED <<closeVars, subVars, workVars>>

PublishCancelled(p) ==   \* the caller's context may end at any time
  /\ pub[p] = "blocked"
  /\ Return(p)
  /\ UNCHANGED <<closed, done, topics, queue, chClosed, ptopic, pcount>>
  /\ UNCHANGED <<closeVars, subVars, workVars, accepted>>

PublishDone(p) ==
  /\ pub[p] = "blocked" /\ done
  /\ Return(p)
  /\ UNCHANGED <<closed, done, topics, queue, chClosed, ptopic, pcount>>
  /\ UNCHANGED <<closeVars, subVars, workVars, accepted>>

-----------------------------------------------------------------------------
(* Subscribe and unsubscribe *)

SubscribeCall(s) ==
  /\ sub[s] = "idle"
  /\ \E t \in Topics : stopic' = [stopic EXCEPT ![s] = t]
  /\ sub' = [sub EXCEPT ![s] = IF closed THEN "refused" ELSE "enter"]
  /\ UNCHANGED <<busVars, closeVars, pubVars, workVars, subs, since, accepted>>

(* Under Bus.mu: re-check closed, install the topic, take topicState.mu *)
SubscribeLock(s) ==
  /\ sub[s] = "enter"
  /\ IF closed
       THEN /\ sub' = [sub EXCEPT ![s] = "refused"]
            /\ UNCHANGED <<topics, worker>>
       ELSE /\ ~tsLocked(stopic[s])
            /\ install(stopic[s])
            /\ sub' = [sub EXCEPT ![s] = "locked"]
  /\ UNCHANGED <<closed, done, queue, chClosed, publishWG, stopic, subs, since>>
  /\ UNCHANGED <<closeVars, pubVars, cur, snap, begun, delivered, accepted>>

(* Under topicState.mu only: copy-on-write append of the handler *)
SubscribeAppend(s) ==
  /\ sub[s] = "locked"
  /\ sub' = [sub EXCEPT ![s] = "subscribed"]
  /\ subs' = [subs EXCEPT ![stopic[s]] = Append(@, s)]
  /\ since' = [since EXCEPT ![s] = [accepted |-> Len(accepted[stopic[s]]),
                                    begun |-> begun[stopic[s]]]]
  /\ UNCHANGED <<busVars, closeVars, pubVars, workVars, stopic, accepted>>

(* The unsubscribe callback (its body runs once) *)
Unsubscribe(s) ==
  /\ sub[s] = "subscribed"
  /\ ~tsLocked(stopic[s])
  /\ sub' = [sub EXCEPT ![s] = "unsubscribed"]
  /\ \E i \in DOMAIN subs[stopic[s]] :   \* ids are unique: one entry goes
       /\ subs[stopic[s]][i] = s
       /\ subs' = [subs EXCEPT ![stopic[s]] =
                    SubSeq(@, 1, i - 1) \o SubSeq(@, i + 1, Len(@))]
  /\ UNCHANGED <<busVars, closeVars, pubVars, workVars, stopic, since, accepted>>

-----------------------------------------------------------------------------
(* runTopic, the worker of a topic *)

(* range ts.ch: take the oldest envelope *)
WorkerRecv(t) ==
  /\ worker[t] = "recv" /\ queue[t] # <<>>
  /\ cur' = [cur EXCEPT ![t] = Head(queue[t])]
  /\ queue' = [queue EXCEPT ![t] = Tail(@)]
  /\ worker' = [worker EXCEPT ![t] = "snapshot"]
  /\ UNCHANGED <<closed, done, topics, chClosed, publishWG, accepted>>
  /\ UNCHANGED <<closeVars, pubVars, subVars, snap, begun, delivered>>

(* Read the subscriber list under topicState.mu: the dispatch begins *)
WorkerSnapshot(t) ==
  /\ worker[t] = "snapshot" /\ ~tsLocked(t)
  /\ snap' = [snap EXCEPT ![t] = subs[t]]
  /\ begun' = [begun EXCEPT ![t] = @ + 1]
  /\ worker' = [worker EXCEPT ![t] = "dispatch"]
  /\ UNCHANGED <<busVars, closeVars, pubVars, subVars, cur, delivered, accepted>>

(* Call the next handler with the event, or go back to the channel *)
WorkerHandle(t) ==
  /\ worker[t] = "dispatch"
  /\ IF snap[t] = <<>>
       THEN /\ worker' = [worker EXCEPT ![t] = "recv"]
            /\ cur' = [cur EXCEPT ![t] = NoEvent]
            /\ UNCHANGED <<snap, delivered>>
       ELSE /\ delivered' = [delivered EXCEPT ![Head(snap[t])] =
                               Append(@, cur[t])]
            /\ snap' = [snap EXCEPT ![t] = Tail(@)]
            /\ UNCHANGED <<worker, cur>>
  /\ UNCHANGED <<busVars, closeVars, pubVars, subVars, begun, accepted>>

(* The channel is closed and drained: the range loop ends, wg.Done *)
WorkerExit(t) ==
  /\ worker[t] = "recv" /\ queue[t] = <<>> /\ t \in chClosed
  /\ worker' = [worker EXCEPT ![t] = "exited"]
  /\ UNCHANGED <<busVars, closeVars, pubVars, subVars, cur, snap, begun, delivered,
                 accepted>>

-----------------------------------------------------------------------------
(* Close: closeOnce.Do(...); a second caller waits for the first *)

BugCloseFlag(c) ==   \* a closed flag instead of closeOnce: the second
                     \* caller returns before the drain is over
  /\ closer[c] = "idle"
  /\ IF once = "free"
       THEN once' = "running" /\ closer' = [closer EXCEPT ![c] = "mark"]
       ELSE once' = once /\ closer' = [closer EXCEPT ![c] = "returned"]
  /\ UNCHANGED <<busVars, channels, pubVars, subVars, workVars, accepted>>

CloseCall(c) ==
  /\ closer[c] = "idle"
  /\ IF once = "free"
       THEN once' = "running" /\ closer' = [closer EXCEPT ![c] = "mark"]
       ELSE once' = once /\ closer' = [closer EXCEPT ![c] = "wait"]
  /\ UNCHANGED <<busVars, channels, pubVars, subVars, workVars, accepted>>

CloseWait(c) ==
  /\ closer[c] = "wait" /\ once = "finished"
  /\ closer' = [closer EXCEPT ![c] = "returned"]
  /\ UNCHANGED <<busVars, once, channels, pubVars, subVars, workVars, accepted>>

(* Under Bus.mu: flag the bus closed and snapshot its channels *)
CloseMark(c) ==
  /\ closer[c] = "mark"
  /\ closed' = TRUE
  /\ channels' = topics
  /\ closer' = [closer EXCEPT ![c] = "wake"]
  /\ UNCHANGED <<done, topics, queue, chClosed, publishWG, once, accepted>>
  /\ UNCHANGED <<pubVars, subVars, workVars>>

BugNoWake(c) ==   \* Bus.done is never closed
  /\ closer[c] = "wake"
  /\ closer' = [closer EXCEPT ![c] = "drain"]
  /\ UNCHANGED <<busVars, once, channels, pubVars, subVars, workVars, accepted>>

(* close(b.done) *)
CloseWake(c) ==
  /\ closer[c] = "wake"
  /\ done' = TRUE
  /\ closer' = [closer EXCEPT ![c] = "drain"]
  /\ UNCHANGED <<closed, topics, queue, chClosed, publishWG, once, channels>>
  /\ UNCHANGED <<pubVars, subVars, workVars, accepted>>

BugNoBarrier(c) ==   \* channels closed without waiting for publishers
  /\ closer[c] = "drain"
  /\ closer' = [closer EXCEPT ![c] = "close"]
  /\ UNCHANGED <<busVars, once, channels, pubVars, subVars, workVars, accepted>>

(* publishWG.Wait *)
CloseDrain(c) ==
  /\ closer[c] = "drain" /\ publishWG = {}
  /\ closer' = [closer EXCEPT ![c] = "close"]
  /\ UNCHANGED <<busVars, once, channels, pubVars, subVars, workVars, accepted>>

(* close the snapshotted channels one by one, then wg.Wait *)
CloseChannel(c) ==
  /\ closer[c] = "close"
  /\ IF channels = {}
       THEN /\ closer' = [closer EXCEPT ![c] = "join"]
            /\ UNCHANGED <<channels, chClosed>>
       ELSE /\ \E t \in channels : /\ chClosed' = chClosed \cup {t}
                                   /\ channels' = channels \ {t}
            /\ UNCHANGED closer
  /\ UNCHANGED <<closed, done, topics, queue, publishWG, once>>
  /\ UNCHANGED <<pubVars, subVars, workVars, accepted>>

CloseJoin(c) ==
  /\ closer[c] = "join"
  /\ \A t \in Topics : worker[t] \in {"none", "exited"}
  /\ once' = "finished"
  /\ closer' = [closer EXCEPT ![c] = "returned"]
  /\ UNCHANGED <<busVars, channels, pubVars, subVars, workVars, accepted>>

-----------------------------------------------------------------------------
PublisherStep(p) ==
  \/ PublishRegister(p) \/ getOrCreateTopic(p) \/ PublishFast(p)
  \/ PublishSlow(p) \/ PublishDone(p)

SubscriberStep(s) == SubscribeLock(s) \/ SubscribeAppend(s)

WorkerStep(t) ==
  WorkerRecv(t) \/ WorkerSnapshot(t) \/ WorkerHandle(t) \/ WorkerExit(t)

CloserStep(c) ==
  \/ CloseWait(c) \/ CloseMark(c) \/ CloseWake(c) \/ CloseDrain(c)
  \/ CloseChannel(c) \/ CloseJoin(c)

Next ==
  \/ \E p \in Publishers :
       PublishCall(p) \/ PublishCancelled(p) \/ PublisherStep(p)
  \/ \E s \in Subscribers :
       SubscribeCall(s) \/ Unsubscribe(s) \/ SubscriberStep(s)
  \/ \E t \in Topics : WorkerStep(t)
  \/ \E c \in Closers : CloseCall(c) \/ CloserStep(c)

Spec == Init /\ [][Next]_vars

(* Goroutines that are past their call keep running; nobody is obliged to  *)
(* call Publish, Subscribe or Close, or to cancel.  A handler may never    *)
(* return; HandlersReturn is the condition that each one does.             *)
CallerFairness ==
  /\ \A p \in Publishers : WF_vars(PublisherStep(p))
  /\ \A s \in Subscribers : WF_vars(SubscriberStep(s))
  /\ \A c \in Closers : WF_vars(CloserStep(c))

FairSpec == Spec /\ CallerFairness

HandlersReturn == \A t \in Topics : WF_vars(WorkerStep(t))
-----------------------------------------------------------------------------
(* Properties *)

ControlTypes ==
  /\ closed \in BOOLEAN /\ done \in BOOLEAN
  /\ topics \subseteq Topics /\ chClosed \subseteq Topics
  /\ channels \subseteq Topics
  /\ publishWG \subseteq Publishers
  /\ once \in {"free", "running", "finished"}
  /\ closer \in [Closers -> {"idle", "wait", "mark", "wake", "drain", "close",
                             "join", "returned"}]
  /\ pub \in [Publishers -> {"idle", "register", "topic", "send", "blocked",
                             "panicked"}]
  /\ ptopic \in [Publishers -> Topics]
  /\ pcount \in [Publishers -> 0..MaxPublish]
  /\ worker \in [Topics -> {"none", "recv", "snapshot", "dispatch", "exited"}]
  /\ sub \in [Subscribers -> {"idle", "enter", "locked", "subscribed",
                              "unsubscribed", "refused"}]
  /\ stopic \in [Subscribers -> Topics]

ListTypes ==
  /\ snap \in [Topics -> Seq(Subscribers)]
  /\ subs \in [Topics -> Seq(Subscribers)]
  /\ since \in [Subscribers -> [accepted : Nat, begun : Nat]]
  /\ begun \in [Topics -> Nat]

EventTypes ==
  /\ queue \in [Topics -> Seq(Events)]
  /\ \A t \in Topics : Len(queue[t]) <= BufferSize
  /\ cur \in [Topics -> Events \cup {NoEvent}]
  /\ accepted \in [Topics -> Seq(Events)]
  /\ delivered \in [Subscribers -> Seq(Events)]

(* The types of the variables; no topic channel exceeds its capacity *)
TypeOK == ControlTypes /\ ListTypes /\ EventTypes

(* bus.go Close step 3 and its doc: "a `send on closed channel` panic is   *)
(* impossible by construction".  A publisher about to send, on the fast or *)
(* the blocking select, never faces a closed channel, so none panics.      *)
NoSendOnClosedChannel ==
  \A p \in Publishers :
    /\ pub[p] # "panicked"
    /\ pub[p] \in {"send", "blocked"} => ptopic[p] \notin chClosed

(* bus.go getOrCreateTopic and Close step 5: no worker is left reading a   *)
(* channel that Close will not close.  Once Close has snapshotted the      *)
(* channels every topic is in the snapshot or already closed, and when     *)
(* Close has returned every worker has exited.                             *)
NoLeakedWorker ==
  /\ closed => \A t \in Topics :
                 worker[t] # "none" => t \in channels \cup chClosed
  /\ \A c \in Closers : closer[c] = "returned" =>
       \A t \in Topics : worker[t] \in {"none", "exited"}

(* bus.go Publish: "No silent drop ever occurs"; Close: "Close returns     *)
(* only after every event in every queue has been dispatched".  When any   *)
(* Close call has returned, every event whose Publish returned nil has     *)
(* been dispatched, and a subscriber that is still registered got every    *)
(* event accepted after its Subscribe.                                     *)
NoSilentDrop ==
  \A c \in Closers : closer[c] = "returned" =>
    /\ \A t \in Topics : begun[t] = Len(accepted[t]) /\ queue[t] = <<>>
    /\ \A s \in Subscribers : sub[s] = "subscribed" =>
         LET acc == accepted[stopic[s]] IN
         \A i \in since[s].accepted + 1 .. Len(acc) :
           \E j \in 1..Len(delivered[s]) : delivered[s][j] = acc[i]

(* bus.go topicState and Subscribe docs: handlers see the events of their  *)
(* topic in queue order, each at most once, without gaps, and none whose   *)
(* dispatch had begun before they were registered.                         *)
OrderedOnceNoRetroactive ==
  \A s \in Subscribers : delivered[s] # <<>> =>
    LET acc == accepted[stopic[s]] IN
    \E i \in since[s].begun .. Len(acc) :
      /\ i + Len(delivered[s]) <= Len(acc)
      /\ delivered[s] = SubSeq(acc, i + 1, i + Len(delivered[s]))

(* bus.go Close: it wakes blocked publishers, drains the queues and, if    *)
(* handlers return, returns; every concurrent Close call returns with it.  *)
CloseReturns ==
  HandlersReturn => \A c \in Closers : closer[c] # "idle" ~> closer[c] = "returned"

(* bus.go Publish: "the caller never blocks indefinitely on a stalled      *)
(* handler": once Close has begun every blocked Publish returns, even if   *)
(* no handler ever returns.                                  *)
PublishUnblocked ==
  \A p \in Publishers : (pub[p] = "blocked" /\ closed) ~> pub[p] = "idle"

(* bus.go runTopic: if handlers return, every accepted event is eventually *)
(* dispatched, with or without a Close.                                    *)
AcceptedIsDispatched ==
  HandlersReturn => \A t \in Topics : \A n \in 1..(Cardinality(Publishers) * MaxPublish) :
    Len(accepted[t]) >= n ~> begun[t] >= n

(* bus.go Subscribe, Publish, runTopic and Close together: a handler gets  *)
(* exactly the events of its topic from its registration on, in queue      *)
(* order, and when a Close call has returned none of them is still owed.   *)
DeliveryIsExact == OrderedOnceNoRetroactive /\ NoSilentDrop

(* bus.go Publish, runTopic and Close: accepted events are dispatched,     *)
(* blocked publishers are released and every Close call returns.           *)
BusProgress == CloseReturns /\ PublishUnblocked /\ AcceptedIsDispatched
=============================================================================
