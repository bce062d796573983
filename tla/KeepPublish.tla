---------------------------- MODULE KeepPublish ----------------------------
(***************************************************************************)
(* The Keep server's event side: outbox rows written by request handlers,  *)
(* the polling publisher worker, the in-memory subscriber registry, the    *)
(* SSE handlers of /v1/subscribe and the shutdown sequence of Server.Run.  *)
(*   core/internal/keep/publish/outbox.go, registry.go                     *)
(*   core/internal/keep/server/handlers_subscribe.go, server.go            *)
(*                                                                         *)
(* A row is its rank in created_at order.  created_at is the start of the  *)
(* inserting transaction, so rows become visible in any order.  The        *)
(* database is external: a transaction step succeeds, or fails and rolls   *)
(* the tick back.  The process may crash and restart between any steps.    *)
(***************************************************************************)
EXTENDS Naturals, Sequences, FiniteSets, SequencesExt

CONSTANTS
  NRows,       \* rows are 1..NRows
  Conns,       \* SSE connections, each opened at most once
  BufSize,     \* Registry.bufSize, capacity of a subscriber channel
  RowScope,    \* scope of each row
  ConnScope,   \* scope of each connection's claim
  MaxFaults    \* bound: database failures and crashes

ASSUME BoundsAssumption == {NRows, BufSize, MaxFaults} \subseteq Nat

Rows == 1..NRows

VARIABLES
  visible,   \* rows committed by their writers
  stamped,   \* rows with published_at set, committed
  tick,      \* the worker: pc, batch still to publish, rows staged in the tx
  phase,     \* where Server.Run is
  regOpen,   \* ~Registry.closed
  subs,      \* connections registered (their channel is open)
  chan,      \* buffered events of each subscriber channel
  conn,      \* where each SSE handler is
  wire,      \* events each handler took from its channel to write them
  faults,    \* faults so far
  \* History, read by no action:
  offered,   \* rows some Publish fanned out
  joined     \* per connection: the rows offered before it registered

regVars == <<regOpen, subs, chan>>
sseVars == <<conn, wire, joined>>
publishVars == <<visible, stamped, tick, phase, regVars, sseVars, faults, offered>>

IdleTick == [pc |-> "idle", batch |-> <<>>, staged |-> {}]

PublishInit ==
  /\ visible = {} /\ stamped = {} /\ tick = IdleTick
  /\ phase = "up" /\ regOpen = TRUE /\ subs = {}
  /\ chan = [c \in Conns |-> <<>>]
  /\ conn = [c \in Conns |-> "none"]
  /\ wire = [c \in Conns |-> <<>>]
  /\ faults = 0 /\ offered = {}
  /\ joined = [c \in Conns |-> {}]

Insert(r) ==   \* a request handler's transaction commits
  /\ r \notin visible /\ phase # "down"
  /\ visible' = visible \cup {r}
  /\ UNCHANGED <<stamped, tick, phase, regVars, sseVars, faults, offered>>

-----------------------------------------------------------------------------
(* Worker.Run and tick.  The worker context ends when phase leaves "up". *)

Cancelled == phase # "up"

(* ORDER BY created_at: a set of rows as a sequence *)
Ordered(rows) ==
  {q \in [1..Cardinality(rows) -> rows] : \A i, j \in DOMAIN q : i < j => q[i] < q[j]}

(* BeginTx and the SELECT of the unpublished rows *)
TickBegin ==
  /\ tick.pc = "idle" /\ ~Cancelled /\ visible \ stamped # {}
  /\ \E q \in Ordered(visible \ stamped) :
       tick' = [pc |-> "publish", batch |-> q, staged |-> {}]
  /\ UNCHANGED <<visible, stamped, phase, regVars, sseVars, faults, offered>>

Matching(r) == {c \in subs : ConnScope[c] = RowScope[r]}
HasRoom(c) == Len(chan[c]) < BufSize

BugSkipFull(r) ==   \* a full subscriber misses the event but stays
  /\ chan' = [c \in Conns |-> IF c \in Matching(r) /\ HasRoom(c)
                                THEN Append(chan[c], r) ELSE chan[c]]
  /\ UNCHANGED <<regOpen, subs>>

BugBlockingSend(r) ==   \* a full subscriber holds the worker up
  /\ \A c \in Matching(r) : HasRoom(c)
  /\ chan' = [c \in Conns |-> IF c \in Matching(r) THEN Append(chan[c], r) ELSE chan[c]]
  /\ UNCHANGED <<regOpen, subs>>

(* Registry.Publish under Registry.mu: non-blocking sends to the matching  *)
(* subscribers; those whose buffer is full are dropped, their channel      *)
(* closed with what it holds                                               *)
Fanout(r) ==
  /\ chan' = [c \in Conns |-> IF c \in Matching(r) /\ HasRoom(c)
                                THEN Append(chan[c], r) ELSE chan[c]]
  /\ subs' = {c \in subs : c \notin Matching(r) \/ HasRoom(c)}
  /\ UNCHANGED regOpen

(* The next row: skipped when the context has ended, a successful no-op    *)
(* when the registry is closed, else fanned out                            *)
TickPublish ==
  /\ tick.pc = "publish" /\ tick.batch # <<>>
  /\ IF Cancelled
       THEN /\ tick' = [tick EXCEPT !.batch = Tail(@)]
            /\ UNCHANGED <<regVars, offered>>
       ELSE /\ tick' = [tick EXCEPT !.pc = "stamp"]
            /\ IF regOpen
                 THEN /\ Fanout(Head(tick.batch))
                      /\ offered' = offered \cup {Head(tick.batch)}
                 ELSE UNCHANGED <<regVars, offered>>
  /\ UNCHANGED <<visible, stamped, phase, sseVars, faults>>

TickStamp ==   \* UPDATE ... SET published_at, inside the transaction
  /\ tick.pc = "stamp"
  /\ tick' = [pc |-> "publish", batch |-> Tail(tick.batch),
              staged |-> tick.staged \cup {Head(tick.batch)}]
  /\ UNCHANGED <<visible, stamped, phase, regVars, sseVars, faults, offered>>

TickCommit ==
  /\ tick.pc = "publish" /\ tick.batch = <<>>
  /\ stamped' = stamped \cup tick.staged
  /\ tick' = IdleTick
  /\ UNCHANGED <<visible, phase, regVars, sseVars, faults, offered>>

(* A stamp or the commit fails, or the ended context fails it: rollback *)
TickRollback ==
  /\ tick.pc = "stamp" \/ (tick.pc = "publish" /\ tick.batch = <<>>)
  /\ IF Cancelled THEN UNCHANGED faults
                  ELSE faults < MaxFaults /\ faults' = faults + 1
  /\ tick' = IdleTick
  /\ UNCHANGED <<visible, stamped, phase, regVars, sseVars, offered>>

WorkerReturn ==
  /\ tick.pc = "idle" /\ Cancelled
  /\ tick' = [IdleTick EXCEPT !.pc = "stopped"]
  /\ UNCHANGED <<visible, stamped, phase, regVars, sseVars, faults, offered>>

-----------------------------------------------------------------------------
(* handleSubscribe: one handler per connection.  It is "streaming" at its  *)
(* select and "writing" in a socket write, which blocks while the client   *)
(* does not read: the server sets no WriteTimeout.                         *)

Connect(c) ==   \* auth passed, headers flushed; not registered yet
  /\ conn[c] = "none" /\ phase \in {"up", "stopping", "closed"}
  /\ conn' = [conn EXCEPT ![c] = "flushed"]
  /\ UNCHANGED <<visible, stamped, tick, phase, regVars, wire, joined, faults, offered>>

BugLateRegister(c) ==   \* a closed registry still registers
  /\ conn[c] = "flushed"
  /\ subs' = subs \cup {c}
  /\ conn' = [conn EXCEPT ![c] = "streaming"]
  /\ joined' = [joined EXCEPT ![c] = offered]
  /\ UNCHANGED <<visible, stamped, tick, phase, regOpen, chan, wire, faults, offered>>

(* Registry.Subscribe: a closed registry hands out a closed channel *)
Register(c) ==
  /\ conn[c] = "flushed"
  /\ IF regOpen
       THEN /\ subs' = subs \cup {c}
            /\ conn' = [conn EXCEPT ![c] = "streaming"]
            /\ joined' = [joined EXCEPT ![c] = offered]
       ELSE /\ conn' = [conn EXCEPT ![c] = "ended"]
            /\ UNCHANGED <<subs, joined>>
  /\ UNCHANGED <<visible, stamped, tick, phase, regOpen, chan, wire, faults, offered>>

TakeFrame(c) ==   \* an event to write
  /\ conn[c] = "streaming" /\ chan[c] # <<>>
  /\ conn' = [conn EXCEPT ![c] = "writing"]
  /\ wire' = [wire EXCEPT ![c] = Append(@, Head(chan[c]))]
  /\ chan' = [chan EXCEPT ![c] = Tail(@)]
  /\ UNCHANGED <<visible, stamped, tick, phase, regOpen, subs, joined, faults, offered>>

Heartbeat(c) ==   \* the ticker fires: a comment frame to write
  /\ conn[c] = "streaming"
  /\ conn' = [conn EXCEPT ![c] = "writing"]
  /\ UNCHANGED <<visible, stamped, tick, phase, regVars, wire, joined, faults, offered>>

WriteDone(c) ==   \* the client's socket took the frame
  /\ conn[c] = "writing"
  /\ conn' = [conn EXCEPT ![c] = "streaming"]
  /\ UNCHANGED <<visible, stamped, tick, phase, regVars, wire, joined, faults, offered>>

HandlerReturn(c) ==   \* the channel is closed and drained
  /\ conn[c] = "streaming" /\ c \notin subs /\ chan[c] = <<>>
  /\ conn' = [conn EXCEPT ![c] = "ended"]
  /\ UNCHANGED <<visible, stamped, tick, phase, regVars, wire, joined, faults, offered>>

(* The client goes away or a write fails: the handler returns and          *)
(* unsubscribes (or the watchdog does, with the same effect)               *)
Disconnect(c) ==
  /\ conn[c] \in {"flushed", "streaming", "writing"}
  /\ conn' = [conn EXCEPT ![c] = "ended"]
  /\ subs' = subs \ {c}
  /\ chan' = [chan EXCEPT ![c] = <<>>]
  /\ UNCHANGED <<visible, stamped, tick, phase, regOpen, wire, joined, faults, offered>>

-----------------------------------------------------------------------------
(* Server.Run *)

EndProcess ==   \* every connection and all memory of the process is gone
  /\ conn' = [c \in Conns |-> IF conn[c] = "none" THEN "none" ELSE "ended"]
  /\ subs' = {} /\ chan' = [c \in Conns |-> <<>>]

(* ctx.Done (a signal) or ListenAndServe failing: cancel the worker *)
StopServer ==
  /\ phase = "up"
  /\ phase' \in {"stopping", "failing"}
  /\ UNCHANGED <<visible, stamped, tick, regVars, sseVars, faults, offered>>

(* <-workerDone, then Registry.Close *)
CloseRegistry ==
  /\ phase = "stopping" /\ tick.pc = "stopped"
  /\ phase' = "closed"
  /\ regOpen' = FALSE /\ subs' = {}
  /\ UNCHANGED <<visible, stamped, tick, chan, sseVars, faults, offered>>

ShutdownHTTP ==   \* httpSrv.Shutdown closes the listener
  /\ phase = "closed" /\ phase' = "draining"
  /\ UNCHANGED <<visible, stamped, tick, regVars, sseVars, faults, offered>>

ShutdownDone ==   \* ... and waits for the handlers
  /\ phase = "draining" /\ \A c \in Conns : conn[c] \in {"none", "ended"}
  /\ phase' = "down"
  /\ UNCHANGED <<visible, stamped, tick, regVars, sseVars, faults, offered>>

(* shutdownTimeout expires, or Run returns the listener's error: the       *)
(* process exits with handlers still running                               *)
Abandon ==
  /\ phase = "draining" \/ (phase = "failing" /\ tick.pc = "stopped")
  /\ phase' = "down" /\ EndProcess
  /\ UNCHANGED <<visible, stamped, tick, regOpen, wire, joined, faults, offered>>

(* A crash at any point, or a restart after a shutdown *)
Restart ==
  /\ IF phase = "down" THEN UNCHANGED faults
                       ELSE faults < MaxFaults /\ faults' = faults + 1
  /\ phase' = "up" /\ regOpen' = TRUE /\ tick' = IdleTick /\ EndProcess
  /\ UNCHANGED <<visible, stamped, wire, joined, offered>>

-----------------------------------------------------------------------------
WorkerStep == TickBegin \/ TickPublish \/ TickStamp \/ TickCommit \/ WorkerReturn
HandlerStep(c) == Register(c) \/ TakeFrame(c) \/ HandlerReturn(c)
ServerStep == CloseRegistry \/ ShutdownHTTP \/ ShutdownDone

PublishNext ==
  \/ \E r \in Rows : Insert(r)
  \/ WorkerStep \/ TickRollback
  \/ \E c \in Conns : Connect(c) \/ Disconnect(c) \/ HandlerStep(c) \/ Heartbeat(c) \/ WriteDone(c)
  \/ StopServer \/ ServerStep \/ Abandon \/ Restart

PublishSpec == PublishInit /\ [][PublishNext]_publishVars

(* Goroutines of a live process run on and a stopped server is started     *)
(* again; faults, signals, timeouts and clients owe nothing.  Fairness of  *)
(* a handler is strong: its select, which picks among the ready cases at   *)
(* random, comes back to a ready channel between heartbeats.               *)
FairPublish ==
  /\ PublishSpec
  /\ WF_publishVars(WorkerStep) /\ WF_publishVars(ServerStep)
  /\ \A c \in Conns : SF_publishVars(HandlerStep(c))
  /\ WF_publishVars(phase \in {"down", "failing"} /\ (Abandon \/ Restart))

(* A condition, not an assumption: every client reads what it is written   *)
ClientsDrain == \A c \in Conns : WF_publishVars(WriteDone(c))

-----------------------------------------------------------------------------
PublishTypeOK ==
  /\ visible \subseteq Rows /\ stamped \subseteq visible /\ offered \subseteq visible
  /\ tick.pc \in {"idle", "publish", "stamp", "stopped"}
  /\ \A i \in DOMAIN tick.batch : tick.batch[i] \in visible \ stamped
  /\ tick.staged \subseteq visible
  /\ phase \in {"up", "stopping", "failing", "closed", "draining", "down"}
  /\ regOpen \in BOOLEAN /\ subs \subseteq Conns
  /\ \A c \in Conns : Len(chan[c]) <= BufSize
  /\ conn \in [Conns -> {"none", "flushed", "streaming", "writing", "ended"}]
  /\ faults \in 0..MaxFaults

(* outbox.go tick and server.go Run: a row is stamped published only after *)
(* an open registry fanned it out.  Registry.Publish returns nil on a      *)
(* closed registry, so this rests on the order in which Run stops the      *)
(* worker and closes the registry, across crashes and rollbacks.           *)
StampedWasOffered == stamped \subseteq offered

(* registry.go Publish: a subscriber that stays registered has every row   *)
(* of its scope offered since it registered, on the wire or in its buffer; *)
(* being too slow costs it the subscription, never a silent gap.           *)
RegisteredMissesNothing ==
  \A c \in subs : \A r \in offered \ joined[c] :
    RowScope[r] = ConnScope[c] => Contains(wire[c] \o chan[c], r)

(* outbox.go tick: stamping in the transaction that selected the row means *)
(* a connection sees a row twice only if a tick was rolled back.           *)
RepeatsOnlyAfterRollback ==
  faults = 0 => \A c \in Conns : IsInjective(wire[c] \o chan[c])

(* outbox.go Run, registry.go Publish: every visible row is eventually     *)
(* stamped, unless the server is stopped, whatever the clients do: one     *)
(* that no longer reads costs itself its subscription and nobody a row.    *)
EventuallyStamped ==
  \A r \in Rows : r \in visible ~> (r \in stamped \/ phase # "up")

(* server.go Run: closing the registry makes every SSE handler return, the *)
(* ones that register after it too, so while clients read what they are    *)
(* written a shutdown that closed it comes down without its timeout.  A    *)
(* client that does not is left to the timeout (Abandon).                  *)
ShutdownCompletes == ClientsDrain => (phase = "closed" ~> phase \in {"down", "up"})

(* outbox.go, registry.go and server.go together: what is marked published *)
(* was offered while the registry was open, a registered subscriber has    *)
(* all of it, and only a rolled-back tick offers a row again.              *)
OfferedOnceAndWhole ==
  PublishTypeOK /\ StampedWasOffered /\ RegisteredMissesNothing /\ RepeatsOnlyAfterRollback

(* outbox.go Run and server.go Run together: the worker is held up by no    *)
(* client, and the shutdown by none that reads.                            *)
PublisherProgress == EventuallyStamped /\ ShutdownCompletes
=============================================================================
