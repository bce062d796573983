----------------------------- MODULE SlackSocket -----------------------------
(***************************************************************************)
(* Socket mode: a subscription's session loop, the goroutine that reads    *)
(* its connection, the pings, the reconnects, and Stop.                    *)
(*   core/pkg/messenger/slack (subscribe, subscribe_reconnect,             *)
(*   subscribe_envelope)                                                   *)
(*                                                                         *)
(* Connections are opened with SlackClient's Do, behind its rate limiter.  *)
(* Slack is external: it sends every event it has no acknowledgement of    *)
(* once on each connection.  Connections are numbered as they are dialled. *)
(***************************************************************************)
EXTENDS SlackClient, Sequences

CONSTANTS
  Events,       \* what Slack has to deliver: name -> the envelope's form
  MaxAttempts   \* socketMaxReconnectAttempts

ASSUME FaultsAssumption == MaxFaults \in Nat

Sub == 1                   \* the goroutine of SlackClient that runs the loop
Conns == 1..(MaxFaults + 2)
Forms == {"message", "other", "noid"}

VARIABLES
  loop,      \* the session loop: where it stands
  cur,       \* socketSubscription.conn, 0 for nil
  sock,      \* each connection: "none", "open", "mute" (Slack is gone, nothing says
             \* so) or "closed"
  wire,      \* what Slack has sent on each connection
  sentOn,    \* the events Slack has sent on each connection
  pump,      \* the read pump: "off", "reading", "full" (with a result to pass on)
  held,      \* that result
  reads,     \* the channel reads, of capacity 1
  live,      \* the session's context is not cancelled
  ping,      \* "armed": the activity timer runs; "pinged": the pong's deadline
  attempt,   \* reconnect's attempt
  stopErr,   \* the loop gave up
  inHand,    \* the event between its acknowledgement and its handler
  acked,     \* events Slack has an acknowledgement of
  handled,   \* events the handler was given
  stop       \* Stop: "no", "cancelled", "waiting", "returned"

socket == <<loop, cur, sock, wire, sentOn, pump, held, reads, live, ping, attempt,
            stopErr, inHand, acked, handled, stop>>
session == <<pump, held, reads, live, ping>>
network == <<sock, wire, sentOn>>
outcome == <<acked, handled, inHand>>
vars == <<clientVars, socket>>

Init ==
  /\ ClientInit
  /\ loop = "none" /\ cur = 0
  /\ sock = [c \in Conns |-> "none"]
  /\ wire = [c \in Conns |-> <<>>] /\ sentOn = [c \in Conns |-> {}]
  /\ pump = "off" /\ held = "none" /\ reads = <<>> /\ live = FALSE /\ ping = "armed"
  /\ attempt = 0 /\ stopErr = FALSE
  /\ inHand = "none" /\ acked = {} /\ handled = {} /\ stop = "no"

Stopped == stop # "no"
Opened == {c \in Conns : sock[c] # "none"}
Newest == Cardinality(Opened)

\* What was on its way on a connection is lost when it closes.
Drop(c, to) ==
  /\ sock' = [sock EXCEPT ![c] = to]
  /\ wire' = [wire EXCEPT ![c] = <<>>] /\ sentOn' = [sentOn EXCEPT ![c] = {}]

Fault == CanFail /\ faults' = faults + 1
NoFault == UNCHANGED faults
OnlySlot == UNCHANGED <<now, limiter, jobs, slack, stores>>

----------------------------------------------------------------------------
(* Opening a connection: apps.connections.open, the dial, the hello.       *)

Open ==
  /\ jobs' = jobs + 1
  /\ slot' = [slot EXCEPT ![Sub] =
       [Idle EXCEPT !.pc = "wait", !.job = [kind |-> "open"], !.n = jobs + 1,
                    !.method = "apps.connections.open", !.gone = Stopped]]
  /\ loop' = "opening"

Subscribe ==
  /\ loop = "none" /\ Open
  /\ UNCHANGED <<now, limiter, slack, stores, faults, cur, network, session, attempt,
                 stopErr, outcome, stop>>

\* Subscribe's error is returned; the loop counts its attempts, and stops
\* counting when the subscription is stopped.
OpenFailed ==
  IF attempt = 0 THEN loop' = "failed" /\ UNCHANGED <<attempt, stopErr>>
  ELSE /\ attempt' = attempt + 1
       /\ loop' = IF Stopped \/ attempt = MaxAttempts THEN "check" ELSE "sleep"
       /\ stopErr' = (~Stopped /\ attempt = MaxAttempts)

openSocketModeConn ==
  /\ loop = "opening" /\ slot[Sub].pc = "returned"
  /\ slot' = [slot EXCEPT ![Sub] = Idle]
  /\ IF slot[Sub].res = "ok" THEN loop' = "dial" /\ UNCHANGED <<attempt, stopErr>>
                             ELSE OpenFailed
  /\ UNCHANGED <<now, limiter, jobs, slack, stores, faults, cur, network, session,
                 outcome, stop>>

dialWebSocket ==
  /\ loop = "dial"
  /\ \/ /\ sock' = [sock EXCEPT ![Newest + 1] = "open"] /\ loop' = "hello"
        /\ NoFault /\ UNCHANGED <<attempt, stopErr>>
     \/ OpenFailed /\ (Fault \/ (Stopped /\ NoFault)) /\ UNCHANGED sock
  /\ OnlySlot
  /\ UNCHANGED <<slot, cur, wire, sentOn, session, outcome, stop>>

\* A connection that does not say hello in time, or says something else, is
\* closed; the first one becomes the subscription's and its loop starts.
awaitHello ==
  /\ loop = "hello"
  /\ \/ /\ sock[Newest] = "open" /\ NoFault
        /\ loop' = IF attempt = 0 THEN "check" ELSE "swap"
        /\ cur' = IF attempt = 0 THEN Newest ELSE cur
        /\ UNCHANGED <<network, attempt, stopErr>>
     \/ /\ Fault \/ ((Stopped \/ sock[Newest] # "open") /\ NoFault)
        /\ Drop(Newest, "closed")
        /\ OpenFailed /\ UNCHANGED cur
  /\ OnlySlot
  /\ UNCHANGED <<slot, session, outcome, stop>>

swapConn ==
  /\ loop = "swap"
  /\ cur' = Newest /\ loop' = "check"
  /\ UNCHANGED <<clientVars, network, session, attempt, stopErr, outcome, stop>>

\* sessionLoop between two sessions: end, or read from the current connection.
sessionLoop ==
  /\ loop = "check"
  /\ IF (Stopped \/ stopErr) /\ attempt # 0
       THEN loop' = "done" /\ UNCHANGED <<session, attempt>>
       ELSE /\ loop' = "read" /\ pump' = "reading" /\ held' = "none" /\ reads' = <<>>
            /\ live' = TRUE /\ ping' = "armed" /\ attempt' = 1
  /\ UNCHANGED <<clientVars, cur, network, stopErr, outcome, stop>>

----------------------------------------------------------------------------
(* readSession: the pump reads, the loop selects.                          *)

\* The session's context: its own cancellation, or that of the run.
Cancelled == ~live \/ Stopped

PumpReads ==
  /\ pump = "reading"
  /\ \/ /\ cur # 0 /\ sock[cur] = "open" /\ wire[cur] # <<>> /\ ~Cancelled
        /\ held' = Head(wire[cur])
        /\ wire' = [wire EXCEPT ![cur] = Tail(@)]
     \/ /\ cur = 0 \/ sock[cur] = "closed" \/ Cancelled
        /\ held' = "error" /\ UNCHANGED wire
  /\ pump' = "full"
  /\ UNCHANGED <<clientVars, loop, cur, sock, sentOn, reads, live, ping, attempt,
                 stopErr, outcome, stop>>

\* Mutant: the pump waits for room in the channel and for nothing else.
BugPumpBlocks ==
  /\ pump = "full" /\ reads = <<>> /\ reads' = <<held>>
  /\ pump' = IF held = "error" THEN "off" ELSE "reading"
  /\ held' = "none"
  /\ UNCHANGED <<clientVars, loop, cur, network, live, ping, attempt, stopErr,
                 outcome, stop>>

PumpPasses ==
  /\ pump = "full"
  /\ \/ /\ reads = <<>> /\ reads' = <<held>>
        /\ pump' = IF held = "error" THEN "off" ELSE "reading"
     \/ /\ Cancelled /\ pump' = "off" /\ UNCHANGED reads
  /\ held' = "none"
  /\ UNCHANGED <<clientVars, loop, cur, network, live, ping, attempt, stopErr,
                 outcome, stop>>

\* Leave the session: cancel its context, let the pump end, then "next".
Leave(next) == live' = FALSE /\ loop' = next /\ ping' = "armed"

ReadStopped ==
  /\ loop = "read" /\ Stopped
  /\ Leave("drainDone")
  /\ UNCHANGED <<clientVars, cur, network, pump, held, reads, attempt, stopErr,
                 outcome, stop>>

\* The activity timer fires; a ping that cannot be written ends the session.
sendPing ==
  /\ loop = "read" /\ ping = "armed"
  /\ \/ sock[cur] # "closed" /\ ping' = "pinged" /\ NoFault /\ UNCHANGED <<live, loop>>
     \/ /\ Fault \/ ((sock[cur] = "closed" \/ Stopped) /\ NoFault)
        /\ Leave("drain")
  /\ OnlySlot
  /\ UNCHANGED <<slot, cur, network, pump, held, reads, attempt, stopErr, outcome, stop>>

\* Mutant: the pong has no deadline.
BugNoDeadline ==
  /\ loop = "read" /\ ping = "pinged" /\ sock[cur] = "open" /\ Fault
  /\ Leave("drain")
  /\ OnlySlot
  /\ UNCHANGED <<slot, cur, network, pump, held, reads, attempt, stopErr, outcome, stop>>

\* Nothing came before the deadline of the pong.
PongTimeout ==
  /\ loop = "read" /\ ping = "pinged"
  /\ Fault \/ (sock[cur] # "open" /\ NoFault)
  /\ Leave("drain")
  /\ OnlySlot
  /\ UNCHANGED <<slot, cur, network, pump, held, reads, attempt, stopErr, outcome, stop>>

\* A read's result: an error or a disconnect ends the session, a pong and an
\* envelope that does not decode are passed over, an event is next.
ReadResult ==
  /\ loop = "read" /\ reads # <<>>
  /\ reads' = <<>>
  /\ LET x == Head(reads) IN
       CASE x = "error" -> /\ \E next \in {"join", "joinDone"} :
                                (next = "joinDone" => Stopped) /\ Leave(next)
                           /\ UNCHANGED inHand
         [] x = "disconnect" -> Leave("join") /\ UNCHANGED inHand
         [] x \in {"pong", "junk"} -> ping' = "armed" /\ UNCHANGED <<live, loop, inHand>>
         [] OTHER -> ping' = "armed" /\ inHand' = x /\ loop' = "ack" /\ UNCHANGED live
  /\ UNCHANGED <<clientVars, cur, network, pump, held, attempt, stopErr, acked, handled,
                 stop>>

\* Mutant: what is drained is acknowledged as well.
BugAckDrained ==
  /\ loop \in {"drain", "drainDone"}
  /\ \/ /\ reads # <<>> /\ reads' = <<>>
        /\ acked' = acked \cup ({Head(reads)} \cap DOMAIN Events) /\ UNCHANGED loop
     \/ /\ pump = "off" /\ UNCHANGED <<reads, acked>>
        /\ loop' = IF loop = "drain" THEN "teardown" ELSE "done"
  /\ UNCHANGED <<clientVars, cur, network, pump, held, live, ping, attempt, stopErr,
                 handled, inHand, stop>>

\* What the pump had read is thrown away; the session ends when it has ended.
drainReadPump ==
  /\ loop \in {"drain", "drainDone"}
  /\ \/ reads # <<>> /\ reads' = <<>> /\ UNCHANGED loop
     \/ /\ pump = "off" /\ UNCHANGED reads
        /\ loop' = IF loop = "drain" THEN "teardown" ELSE "done"
  /\ UNCHANGED <<clientVars, cur, network, pump, held, live, ping, attempt, stopErr,
                 outcome, stop>>

\* After a read error or a disconnect the loop only waits for the pump, which
\* the cancelled context frees.
JoinPump ==
  /\ loop \in {"join", "joinDone"} /\ pump = "off"
  /\ loop' = IF loop = "join" THEN "teardown" ELSE "done"
  /\ UNCHANGED <<clientVars, cur, network, session, attempt, stopErr, outcome, stop>>

isAckBearing(e) == Events[e] \in {"message", "other"}

\* The acknowledgement goes out on the current connection before the handler
\* is called; one that cannot be written is only logged.
ackEnvelope ==
  /\ loop = "ack"
  /\ \/ /\ isAckBearing(inHand) /\ sock[cur] = "open" /\ NoFault
        /\ acked' = acked \cup {inHand}
     \/ /\ isAckBearing(inHand) /\ UNCHANGED acked
        /\ Fault \/ ((sock[cur] # "open" \/ Stopped) /\ NoFault)
     \/ ~isAckBearing(inHand) /\ NoFault /\ UNCHANGED acked
  /\ loop' = "dispatch"
  /\ OnlySlot
  /\ UNCHANGED <<slot, cur, network, session, attempt, stopErr, handled, inHand, stop>>

\* decodeIncoming: only a message event is the handler's.
decodeIncoming(e) == Events[e] \in {"message", "noid"}

dispatch ==
  /\ loop = "dispatch"
  /\ handled' = IF decodeIncoming(inHand) THEN handled \cup {inHand} ELSE handled
  /\ inHand' = "none" /\ loop' = "read"
  /\ UNCHANGED <<clientVars, cur, network, session, attempt, stopErr, acked, stop>>

----------------------------------------------------------------------------
(* reconnect, and Stop.                                                    *)

tearDownConn ==
  /\ loop = "teardown"
  /\ cur' = 0 /\ Drop(cur, "closed") /\ loop' = "sleep"
  /\ UNCHANGED <<clientVars, session, attempt, stopErr, outcome, stop>>

\* The backoff ends with its delay or, early, with the run's context.
reconnect ==
  /\ loop = "sleep"
  /\ \/ Open
     \/ Stopped /\ loop' = "check" /\ UNCHANGED <<jobs, slot>>
  /\ UNCHANGED <<now, limiter, slack, stores, faults, cur, network, session, attempt,
                 stopErr, outcome, stop>>

\* Stop cancels the run's context, closes the current connection if there is
\* one, and waits for the loop.
runCancel ==
  /\ stop = "no" /\ loop \notin {"none", "failed"} /\ (attempt # 0 \/ cur # 0)
  /\ stop' = "cancelled"
  /\ slot' = [slot EXCEPT ![Sub].gone = slot[Sub].pc # "idle"]
  /\ OnlySlot
  /\ UNCHANGED <<faults, loop, cur, network, session, attempt, stopErr, outcome>>

Stop ==
  /\ \/ /\ stop = "cancelled" /\ stop' = "waiting"
        /\ IF cur # 0 THEN Drop(cur, "closed") ELSE UNCHANGED network
     \/ stop = "waiting" /\ loop = "done" /\ stop' = "returned" /\ UNCHANGED network
  /\ UNCHANGED <<clientVars, loop, cur, session, attempt, stopErr, outcome>>

----------------------------------------------------------------------------
(* Slack.                                                                  *)

Connected == {c \in Conns : sock[c] = "open"} \ (IF loop = "hello" THEN {Newest} ELSE {})

SlackSends(e) ==
  /\ \E c \in Connected :
       /\ e \notin acked /\ e \notin sentOn[c]
       /\ wire' = [wire EXCEPT ![c] = Append(@, e)]
       /\ sentOn' = [sentOn EXCEPT ![c] = @ \cup {e}]
  /\ UNCHANGED <<clientVars, loop, cur, sock, session, attempt, stopErr, outcome, stop>>

SlackPongs ==
  /\ ping = "pinged"
  /\ \E c \in Connected :
       /\ \A i \in DOMAIN wire[c] : wire[c][i] # "pong"
       /\ wire' = [wire EXCEPT ![c] = Append(@, "pong")]
  /\ held # "pong" /\ reads # <<"pong">>
  /\ UNCHANGED <<clientVars, loop, cur, sock, sentOn, session, attempt, stopErr, outcome,
                 stop>>

\* Slack asks for a reconnect, sends something unreadable, or hangs up.
SlackFails ==
  /\ Fault
  /\ \E c \in Connected :
       \/ /\ \E x \in {"disconnect", "junk"} : wire' = [wire EXCEPT ![c] = Append(@, x)]
          /\ UNCHANGED <<sock, sentOn>>
       \/ \E to \in {"mute", "closed"} : Drop(c, to)
  /\ OnlySlot
  /\ UNCHANGED <<slot, loop, cur, session, attempt, stopErr, outcome, stop>>

\* The caller of Subscribe gives up before it has a subscription.
SubscribeCancelled == loop = "opening" /\ attempt = 0 /\ Cancel(Sub) /\ UNCHANGED socket

CallStep == DoStep(Sub) /\ UNCHANGED socket

LoopStep ==
  \/ openSocketModeConn \/ dialWebSocket \/ awaitHello \/ swapConn \/ sessionLoop
  \/ ReadStopped \/ sendPing \/ PongTimeout \/ ReadResult \/ drainReadPump \/ JoinPump
  \/ ackEnvelope \/ dispatch \/ tearDownConn \/ reconnect
PumpStep == PumpReads \/ PumpPasses

Next ==
  \/ Subscribe \/ LoopStep \/ PumpStep \/ CallStep
  \/ Tick /\ UNCHANGED socket
  \/ runCancel \/ Stop
  \/ SlackPongs \/ SlackFails \/ SubscribeCancelled
  \/ \E e \in DOMAIN Events : SlackSends(e)

\* The process's goroutines and timers run; Slack sends what it has and
\* answers pings on a connection that stays open.
Spec ==
  /\ Init /\ [][Next]_vars
  /\ WF_vars(LoopStep) /\ WF_vars(PumpStep) /\ WF_vars(CallStep)
  /\ WF_vars(Tick /\ UNCHANGED socket) /\ WF_vars(Stop)
  /\ SF_vars(ReadResult) /\ SF_vars(ReadStopped)
  /\ WF_vars(SlackPongs) /\ \A e \in DOMAIN Events : WF_vars(SlackSends(e))

----------------------------------------------------------------------------

\* subscribe_reconnect.go, tearDownConn, reconnect: through any number of
\* reconnects Slack never sees two connections of one subscription.
AtMostOneSocket == Cardinality({c \in Conns : sock[c] \in {"open", "mute"}}) <= 1

\* subscribe.go, Stop; subscribe_reconnect.go, drainReadPump: when Stop has
\* returned, both goroutines have ended, and every message Slack was told we
\* have was given to the handler: what was read and thrown away was not
\* acknowledged.
StopIsClean ==
  stop = "returned" =>
    /\ loop = "done" /\ pump = "off"
    /\ \A e \in acked : decodeIncoming(e) => e \in handled

\* subscribe_reconnect.go: a message Slack keeps offering reaches the handler,
\* whatever connections it costs, unless the subscription ends first.
EveryMessageHandled ==
  \A e \in DOMAIN Events :
    loop = "read" /\ Events[e] = "message" ~>
      e \in handled \/ Stopped \/ loop = "done"

\* subscribe.go, Stop: it returns, in a session, in a backoff, and while a
\* connection is being opened behind the rate limiter.
StopReturns == Stopped ~> stop = "returned"

\* subscribe.go, subscribe_reconnect.go: a subscription holds one connection
\* at a time and, once stopped, owes Slack nothing it acknowledged.
SocketIsOwned == AtMostOneSocket /\ StopIsClean
=============================================================================
