--------------------------- MODULE OutboxConsumer ---------------------------
(***************************************************************************)
(* The core process's consumer of Keep's event stream: a loop that reads   *)
(* a self-reconnecting SSE stream and publishes every event on the local   *)
(* bus, with retries and an idempotency cache.                             *)
(*   core/pkg/outbox/consumer.go                                           *)
(*   core/pkg/keepclient/subscribe.go, subscribe_resilient.go              *)
(*                                                                         *)
(* The server and the network are external: frames arrive in any order and *)
(* may repeat, a connection breaks at any point, a dial succeeds, is       *)
(* refused by the server, or fails.  A bus publish succeeds or fails; a    *)
(* full queue makes it fail with the attempt's own deadline.               *)
(***************************************************************************)
EXTENDS Naturals, Sequences, FiniteSets, SequencesExt

CONSTANTS
  Events,       \* event ids the server may send
  NoID,         \* those that arrive without an id: field
  Malformed,    \* those that arrive without an event type
  Stoppers,     \* goroutines that call Stop
  CacheSize,    \* WithIdempotencyCacheSize
  MaxTries,     \* WithMaxPublishRetries
  MaxAttempts,  \* WithMaxReconnectAttempts
  MaxFrames,    \* bound: frames the server sends
  MaxConns      \* bound: connections opened

ASSUME SizesAssumption ==
  {CacheSize, MaxTries, MaxAttempts, MaxConns} \subseteq Nat \ {0}

VARIABLES
  state,      \* Consumer.state
  ctxDone,    \* the loop's context is cancelled, by Stop or its parent
  loop,       \* the loop goroutine: pc, event, tries, attempt, last error kind
  stopErr,    \* Consumer.stopErr is non-nil
  stopper,    \* each Stop call
  once,       \* Consumer.stopOnce
  inner,      \* ResilientStream.stream, 0 for nil
  closed,     \* ResilientStream.closed
  open,       \* connections that are open
  conns,      \* connections opened so far; the last one has this number
  frames,     \* frames received
  cache,      \* lruDedup: ids, oldest first
  published   \* events the bus accepted, in order (history)

consumerVars == <<state, ctxDone, stopErr, stopper, once>>
streamVars == <<inner, closed, open, conns>>
eventVars == <<frames, cache, published>>
vars == <<consumerVars, loop, streamVars, eventVars>>

Start0 == [pc |-> "off", ev |-> "none", tries |-> 0, attempt |-> 0]

Init ==
  /\ state = "not_started" /\ ctxDone = FALSE /\ loop = Start0
  /\ stopErr = FALSE /\ once = "unused"
  /\ stopper = [p \in Stoppers |-> "idle"]
  /\ inner = 0 /\ closed = FALSE /\ open = {} /\ conns = 0
  /\ frames = 0 /\ cache = <<>> /\ published = <<>>

At(pc) == loop.pc = pc
Goto(pc) == loop' = [loop EXCEPT !.pc = pc]

-----------------------------------------------------------------------------
(* Start and Stop *)

Start ==   \* a second Start, or one after Stop, is an error
  /\ state = "not_started"
  /\ state' = "started" /\ Goto("subscribe")
  /\ UNCHANGED <<ctxDone, stopErr, stopper, once, streamVars, eventVars>>

ParentCancelled ==   \* the context given to Start ends
  /\ state # "not_started" /\ ~ctxDone
  /\ ctxDone' = TRUE
  /\ UNCHANGED <<state, stopErr, stopper, once, loop, streamVars, eventVars>>

Stop(p) ==   \* before Start it only returns ErrNotStarted
  /\ stopper[p] = "idle" /\ state # "not_started"
  /\ state' = "stopped"
  /\ stopper' = [stopper EXCEPT ![p] = "once"]
  /\ UNCHANGED <<ctxDone, stopErr, once, loop, streamVars, eventVars>>

BugWaitOnly(p) ==   \* waits without cancelling
  /\ stopper[p] = "once" /\ once = "unused"
  /\ once' = "running"
  /\ stopper' = [stopper EXCEPT ![p] = "wait"]
  /\ UNCHANGED <<state, ctxDone, stopErr, loop, streamVars, eventVars>>

(* stopOnce: the first caller cancels the loop and waits for doneCh *)
StopCancel(p) ==
  /\ stopper[p] = "once" /\ once = "unused"
  /\ once' = "running" /\ ctxDone' = TRUE
  /\ stopper' = [stopper EXCEPT ![p] = "wait"]
  /\ UNCHANGED <<state, stopErr, loop, streamVars, eventVars>>

StopReturn(p) ==   \* the others wait for the first
  /\ \/ stopper[p] = "wait" /\ At("done")
     \/ stopper[p] = "once" /\ once = "done"
  /\ once' = "done"
  /\ stopper' = [stopper EXCEPT ![p] = "returned"]
  /\ UNCHANGED <<state, ctxDone, stopErr, loop, streamVars, eventVars>>

-----------------------------------------------------------------------------
(* The loop.  It ends through "exit", with or without an error. *)

End(failed) ==
  /\ Goto("exit")
  /\ stopErr' = (stopErr \/ failed)

Dialled == conns' = conns + 1 /\ open' = open \cup {conns + 1}

(* The first connection; its failure is an error whatever caused it *)
Subscribe ==
  /\ At("subscribe")
  /\ \/ /\ ~ctxDone /\ Dialled /\ inner' = conns + 1
        /\ Goto("next") /\ UNCHANGED stopErr
     \/ End(TRUE) /\ UNCHANGED <<inner, open, conns>>
  /\ UNCHANGED <<state, ctxDone, stopper, once, closed, eventVars>>

(* The head of ResilientStream.Next *)
NextEvent ==
  /\ At("next")
  /\ IF ctxDone \/ closed THEN End(FALSE)
     ELSE IF inner = 0 THEN End(TRUE)
     ELSE Goto("read") /\ UNCHANGED stopErr
  /\ UNCHANGED <<state, ctxDone, stopper, once, streamVars, eventVars>>

ReadFrame(e) ==
  /\ At("read") /\ frames < MaxFrames
  /\ frames' = frames + 1
  /\ loop' = [loop EXCEPT !.pc = "handle", !.ev = e]
  /\ UNCHANGED <<consumerVars, streamVars, cache, published>>

(* A broken read once the context or the stream has ended *)
ReadAborted ==
  /\ At("read") /\ (ctxDone \/ closed)
  /\ End(FALSE)
  /\ UNCHANGED <<state, ctxDone, stopper, once, streamVars, eventVars>>

(* A broken read otherwise: reconnect drops the connection *)
ReadBroken ==
  /\ At("read") /\ ~ctxDone /\ ~closed
  /\ open' = open \ {inner} /\ inner' = 0
  /\ loop' = [loop EXCEPT !.pc = "backoff", !.attempt = 0]
  /\ UNCHANGED <<consumerVars, closed, conns, eventVars>>

BackoffOver ==
  /\ At("backoff")
  /\ Goto("dial")
  /\ UNCHANGED <<consumerVars, streamVars, eventVars>>

BackoffAborted ==
  /\ At("backoff") /\ (ctxDone \/ closed)
  /\ End(FALSE)
  /\ UNCHANGED <<state, ctxDone, stopper, once, streamVars, eventVars>>

DialOk ==
  /\ At("dial") /\ ~ctxDone /\ conns < MaxConns
  /\ Dialled /\ Goto("install")
  /\ UNCHANGED <<consumerVars, inner, closed, eventVars>>

DialRefused ==   \* a ServerError is not retried
  /\ At("dial") /\ ~ctxDone
  /\ End(TRUE)
  /\ UNCHANGED <<state, ctxDone, stopper, once, streamVars, eventVars>>

(* A transport failure.  The last one decides how the loop takes           *)
(* ErrReconnectExhausted: run() treats any error in the chain that is a    *)
(* cancellation or a deadline, the HTTP client's own timeout included, as  *)
(* a clean end.                                                            *)
DialFails(kind) ==
  /\ At("dial")
  /\ ctxDone <=> kind = "canceled"
  /\ IF loop.attempt + 1 < MaxAttempts
       THEN /\ loop' = [loop EXCEPT !.pc = "backoff", !.attempt = @ + 1]
            /\ UNCHANGED stopErr
       ELSE End(kind = "other")
  /\ UNCHANGED <<state, ctxDone, stopper, once, streamVars, eventVars>>

BugInstallBlind ==   \* does not look at closed again
  /\ At("install")
  /\ inner' = conns /\ Goto("next")
  /\ UNCHANGED <<consumerVars, closed, open, conns, eventVars>>

(* The new connection replaces the old unless the stream was closed *)
Install ==
  /\ At("install")
  /\ IF closed THEN /\ open' = open \ {conns}
                    /\ End(FALSE) /\ UNCHANGED inner
               ELSE /\ inner' = conns
                    /\ Goto("next") /\ UNCHANGED <<open, stopErr>>
  /\ UNCHANGED <<state, ctxDone, stopper, once, closed, conns, eventVars>>

CloseStream ==
  /\ closed' = TRUE /\ inner' = 0
  /\ open' = IF closed THEN open ELSE open \ {inner}
  /\ UNCHANGED conns

(* run returns: the deferred stream.Close, then close(doneCh) *)
Exit ==
  /\ At("exit")
  /\ CloseStream /\ Goto("done")
  /\ UNCHANGED <<consumerVars, eventVars>>

(* Another holder of the stream closes it *)
CloseElsewhere ==
  /\ conns > 0 /\ ~closed
  /\ CloseStream
  /\ UNCHANGED <<consumerVars, loop, eventVars>>

-----------------------------------------------------------------------------
(* handleEvent and publishWithRetry *)

Seen(e) == e \notin NoID /\ Contains(cache, e)

Recorded(e) ==   \* the oldest id gives way
  IF e \in NoID THEN cache
  ELSE Append(IF Len(cache) = CacheSize THEN Tail(cache) ELSE cache, e)

HandleEvent ==
  /\ At("handle")
  /\ loop' = [loop EXCEPT !.tries = 0,
       !.pc = IF loop.ev \in Malformed \/ Seen(loop.ev) THEN "next" ELSE "try"]
  /\ UNCHANGED <<consumerVars, streamVars, eventVars>>

TryPublish ==   \* the backoff before a retry ends, or the context has ended
  /\ At("try")
  /\ Goto(IF ctxDone THEN "next" ELSE "publish")
  /\ UNCHANGED <<consumerVars, streamVars, eventVars>>

PublishOk ==
  /\ At("publish")
  /\ published' = Append(published, loop.ev)
  /\ cache' = Recorded(loop.ev)
  /\ Goto("next")
  /\ UNCHANGED <<consumerVars, streamVars, frames>>

(* A failed attempt.  A cancelled context, or the last try, gives the      *)
(* event up.                                                               *)
PublishFails(kind) ==
  /\ At("publish") /\ (kind = "canceled" => ctxDone)
  /\ IF kind = "canceled" \/ loop.tries + 1 = MaxTries
       THEN Goto("next")
       ELSE loop' = [loop EXCEPT !.tries = @ + 1, !.pc = "try"]
  /\ UNCHANGED <<consumerVars, streamVars, eventVars>>

-----------------------------------------------------------------------------
Kinds == {"other", "deadline", "canceled"}

(* What the loop does by itself, in the end: dials and publishes return *)
LoopStep ==
  \/ Subscribe \/ NextEvent \/ ReadAborted \/ BackoffOver \/ BackoffAborted
  \/ DialOk \/ DialRefused \/ Install \/ Exit \/ HandleEvent \/ TryPublish
  \/ PublishOk
  \/ \E kind \in Kinds : DialFails(kind) \/ PublishFails(kind)

StopStep(p) == StopCancel(p) \/ StopReturn(p)

Next ==
  \/ Start \/ ParentCancelled
  \/ LoopStep \/ ReadBroken \/ CloseElsewhere
  \/ \E e \in Events : ReadFrame(e)
  \/ \E p \in Stoppers : Stop(p) \/ StopStep(p)

Spec == Init /\ [][Next]_vars

(* The loop and the callers of Stop keep running; the HTTP client and the  *)
(* attempt deadline make every dial and publish return.  Nothing obliges   *)
(* the server to send a frame or a connection to break.                    *)
FairSpec ==
  Spec /\ WF_vars(LoopStep) /\ \A p \in Stoppers : WF_vars(StopStep(p))

-----------------------------------------------------------------------------
TypeOK ==
  /\ state \in {"not_started", "started", "stopped"}
  /\ ctxDone \in BOOLEAN /\ stopErr \in BOOLEAN /\ closed \in BOOLEAN
  /\ loop.tries \in 0..MaxTries /\ loop.attempt \in 0..MaxAttempts
  /\ inner \in 0..conns /\ open \subseteq 1..conns
  /\ Len(cache) <= CacheSize /\ IsInjective(cache)
  /\ ToSet(cache) \subseteq Events \ NoID

(* consumer.go handleEvent: between two publishes of one id lie at least   *)
(* CacheSize publishes of other ids; a redelivery inside that window never *)
(* reaches the bus.                                                        *)
NoRepeatInWindow ==
  \A i, j \in DOMAIN published :
    i < j /\ published[i] = published[j] /\ published[i] \notin NoID =>
      Cardinality({published[k] : k \in i+1..j-1} \ NoID) >= CacheSize

(* consumer.go handleEvent: an event that was given up is not remembered,  *)
(* so its redelivery is published.                                         *)
OnlyPublishedIsRemembered == ToSet(cache) \subseteq ToSet(published)

(* consumer.go Stop: when any Stop has returned, the loop is over: nothing *)
(* is published any more and no connection is left open, whoever else      *)
(* closes the stream and wherever in a reconnect it was.                   *)
StopIsFinal ==
  (\E p \in Stoppers : stopper[p] = "returned") => At("done") /\ open = {}

(* subscribe_resilient.go: there is one connection at a time, and none     *)
(* once the loop has ended.                                                *)
OneConnection ==
  /\ Cardinality(open) <= 1
  /\ At("done") => open = {}

(* consumer.go Stop: every call of Stop returns.                           *)
StopReturns ==
  \A p \in Stoppers : stopper[p] # "idle" ~> stopper[p] = "returned"

(* consumer.go handleEvent and Stop, subscribe_resilient.go: an event is   *)
(* published at most once per window of the de-duplication cache, one that *)
(* was given up may be published when it is delivered again, and after a   *)
(* Stop nothing is published and no reconnect it raced leaves a connection.*)
DeliveredOnceUntilStopped ==
  TypeOK /\ NoRepeatInWindow /\ OnlyPublishedIsRemembered /\ StopIsFinal /\ OneConnection
=============================================================================
