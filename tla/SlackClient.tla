----------------------------- MODULE SlackClient -----------------------------
(***************************************************************************)
(* Calls of Slack's Web API and requests from Slack, on concurrent         *)
(* goroutines that share one rate limiter.                                 *)
(*   core/pkg/messenger/slack (client, ratelimiter, send_message,          *)
(*   create_app, install_app, lookup_user, open_im, bot_profile,           *)
(*   conversations_history), core/pkg/messenger/slack/inbound, inbound/dm, *)
(*   inbound/intent                                                        *)
(*                                                                         *)
(* Slack is external: a call may fail before or after it took effect, a    *)
(* delivery is signed when it is sent and may arrive late, and whoever     *)
(* waits for a goroutine may give up.  Time is in ticks.                   *)
(*                                                                         *)
(* A job is a call ([kind |-> "call", op, flaw]) or a request from Slack   *)
(* ([kind |-> "http", route, flaw, type, class, words]); "flaw" says what  *)
(* is wrong with it.  A job's number stands for everything minted for it.  *)
(***************************************************************************)
EXTENDS Integers, FiniteSets, TLC

CONSTANTS
  NSlots,     \* goroutines
  Jobs,       \* what the first, the second ... job may be
  Limits,     \* tier -> [burst, sustained, window]
  SigWindow,  \* handlerConfig.tsWindow
  MaxTime,    \* bound: ticks while nobody sleeps
  MaxJobs,    \* bound: jobs
  MaxFaults   \* bound: failures of Slack, of a store or of a caller

\* NewRateLimiter has a bucket for each of the four tiers, and newBucket makes
\* whatever it is configured with positive.
ASSUME LimitsAssumption ==
  LET Positive == Nat \ {0} IN
  Limits \in [1..4 -> [burst : Positive, sustained : Positive, window : Positive]]
ASSUME JobsAssumption == MaxJobs \in Nat

VARIABLES
  now,      \* the clock
  bucket,   \* RateLimiter.buckets: tier -> [tokens, last]
  slot,     \* each goroutine's job and how far it has got
  jobs,     \* jobs begun so far
  effects,  \* what Slack did: job -> times
  channel,  \* messages in the channel: set of [n, text]
  sunk,     \* jobs whose credentials or tokens the sink stored
  rows,     \* pending_approvals: tokens of open requests
  audit,    \* audit rows: set of [n, what]
  granted,  \* tokens handed out: tier -> number (history)
  rewound,  \* ticks by which lastRefill was ever moved back (history)
  faults    \* faults so far

slack == <<effects, channel>>
stores == <<sunk, rows, audit>>
limiter == <<bucket, granted, rewound>>
clientVars == <<now, limiter, slot, jobs, slack, stores, faults>>

Tiers == DOMAIN Limits
Slots == 1..NSlots

\* Slack's methods and their tiers; one that is not listed has tier 3.
Tier(method) ==
  CASE method \in {"chat.postMessage", "users.info"} -> 4
    [] method = "apps.connections.open" -> 1
    [] method = "apps.manifest.create" -> 2
    [] OTHER -> 3

\* A token is "window" units and a tick adds "sustained" of them.
newBucket(t) == [tokens |-> Limits[t].burst * Limits[t].window, last |-> 0]

Idle == [pc |-> "idle", job |-> [kind |-> "none"], n |-> 0, method |-> "none",
         text |-> "none", clk |-> 0, wake |-> 0, sent |-> 0, ans |-> "none",
         res |-> "none", status |-> 0, gone |-> FALSE, lost |-> FALSE]

ClientInit ==
  /\ now = 0
  /\ bucket = [t \in Tiers |-> newBucket(t)]
  /\ slot = [s \in Slots |-> Idle]
  /\ jobs = 0
  /\ effects = [n \in 1..MaxJobs |-> 0]
  /\ channel = {} /\ sunk = {} /\ rows = {} /\ audit = {}
  /\ granted = [t \in Tiers |-> 0] /\ rewound = [t \in Tiers |-> 0]
  /\ faults = 0

CanFail == faults < MaxFaults

\* Idle goroutines are alike: the next job goes to the first of them.
Free(s) ==
  /\ slot[s].pc \in {"idle", "done"} /\ jobs < MaxJobs
  /\ \A r \in 1..(s - 1) : slot[r].pc \notin {"idle", "done"}

\* The goroutine's job is over; what it came to stays to be looked at.
End(s, res) == [slot[s] EXCEPT !.pc = "done", !.res = res, !.text = "none",
                               !.method = "none", !.sent = 0]

\* A step that may fail does so with TRUE: a fault, unless the goroutine's
\* context is cancelled, which is enough to make it fail.
Attempt(s, failed) ==
  /\ failed => CanFail \/ slot[s].gone
  /\ faults' = IF failed /\ ~slot[s].gone THEN faults + 1 ELSE faults

----------------------------------------------------------------------------
(* What each method does before it calls Slack: "call" it, fail with an    *)
(* "error", or be "ok" with nothing to do.                                 *)

SendMessage(c) == IF c.flaw \in {"empty", "attachments"} THEN "error" ELSE "call"
CreateApp(c) == IF c.flaw = "empty" THEN "error" ELSE "call"
InstallApp(c) == IF c.flaw \in {"empty", "unset", "params"} THEN "error" ELSE "call"
LookupUser(c) == IF c.flaw \in {"empty", "over", "handle", "prefix"} THEN "error" ELSE "call"
OpenIMChannel(c) == IF c.flaw = "empty" THEN "error" ELSE "call"
SetBotProfile(c) ==
  CASE c.flaw = "avatar" -> "error" [] c.flaw = "empty" -> "ok" [] OTHER -> "call"
ConversationsHistory(c) == IF c.flaw = "empty" THEN "error" ELSE "call"

Before(c) ==
  CASE c.op = "send" -> SendMessage(c)
    [] c.op = "createApp" -> CreateApp(c)
    [] c.op = "installApp" -> InstallApp(c)
    [] c.op = "lookupUser" -> LookupUser(c)
    [] c.op = "openIM" -> OpenIMChannel(c)
    [] c.op = "setProfile" -> SetBotProfile(c)
    [] c.op = "history" -> ConversationsHistory(c)
    [] c.op = "allow" -> IF c.flaw = "empty" THEN "error" ELSE "call"

\* routeUserQuery: the form of the query chooses the method.
routeUserQuery(c) ==
  CASE c.flaw = "email" -> "users.lookupByEmail" [] c.flaw = "bot" -> "bots.info"
    [] OTHER -> "users.info"

Method(c) ==
  CASE c.op \in {"send", "allow"} -> "chat.postMessage"
    [] c.op = "createApp" -> "apps.manifest.create"
    [] c.op = "installApp" -> "oauth.v2.access"
    [] c.op = "lookupUser" -> routeUserQuery(c)
    [] c.op = "openIM" -> "conversations.open"
    [] c.op = "setProfile" -> "users.profile.set"
    [] c.op = "history" -> "conversations.history"

BeginCall(s, c) ==
  /\ c.kind = "call" /\ Free(s)
  /\ jobs' = jobs + 1
  /\ slot' = [slot EXCEPT ![s] =
       [Idle EXCEPT !.pc = IF Before(c) = "call" THEN "wait" ELSE "done",
                    !.res = IF Before(c) = "call" THEN "none" ELSE Before(c),
                    !.job = c, !.n = jobs + 1, !.text = "text", !.method = Method(c)]]
  /\ UNCHANGED <<now, limiter, slack, stores, faults>>

\* Whoever the goroutine works for gives up: its context is cancelled.
Cancel(s) ==
  /\ slot[s].pc \notin {"idle", "done"} /\ ~slot[s].gone
  /\ Attempt(s, TRUE)
  /\ slot' = [slot EXCEPT ![s].gone = TRUE]
  /\ UNCHANGED <<now, limiter, jobs, slack, stores>>

----------------------------------------------------------------------------
(* RateLimiter.Wait: read the clock, then take a token under the bucket's  *)
(* lock or learn how long to sleep.                                        *)

Min2(a, b) == IF a < b THEN a ELSE b

\* Mutant: the time of the last refill is only kept when it moves back.
BugCreditTwice(t, clk) ==
  LET lim == Limits[t] b == bucket[t] IN
    IF clk <= b.last THEN [b EXCEPT !.last = clk]
    ELSE [b EXCEPT !.tokens = Min2(lim.burst * lim.window,
                                   b.tokens + (clk - b.last) * lim.sustained)]

refill(t, clk) ==
  LET lim == Limits[t] b == bucket[t] IN
    IF clk <= b.last THEN [b EXCEPT !.last = clk]
    ELSE [tokens |-> Min2(lim.burst * lim.window,
                          b.tokens + (clk - b.last) * lim.sustained),
          last |-> clk]

\* The ticks until the token that is missing is there.
delay(t, tokens) ==
  (Limits[t].window - tokens + Limits[t].sustained - 1) \div Limits[t].sustained

\* A context that is cancelled when Wait looks ends the call.
Wait(s) ==
  /\ slot[s].pc = "wait"
  /\ slot' = [slot EXCEPT ![s].pc = IF slot[s].gone THEN "returned" ELSE "take",
                          ![s].clk = IF slot[s].gone THEN 0 ELSE now,
                          ![s].res = IF slot[s].gone THEN "error" ELSE "none"]
  /\ UNCHANGED <<now, limiter, jobs, slack, stores, faults>>

takeOrDelay(s) ==
  LET t == Tier(slot[s].method)
      b == refill(t, slot[s].clk)
      ok == b.tokens >= Limits[t].window
  IN /\ slot[s].pc = "take"
     /\ bucket' = [bucket EXCEPT ![t] = IF ok THEN [b EXCEPT !.tokens = @ - Limits[t].window]
                                              ELSE b]
     /\ granted' = IF ok THEN [granted EXCEPT ![t] = @ + 1] ELSE granted
     /\ rewound' = IF slot[s].clk < bucket[t].last
                     THEN [rewound EXCEPT ![t] = @ + bucket[t].last - slot[s].clk]
                     ELSE rewound
     /\ slot' = [slot EXCEPT
          ![s].pc = IF slot[s].job.kind = "call" /\ slot[s].job.op = "allow" THEN "done"
                    ELSE IF ok THEN "http" ELSE "sleep",
          ![s].clk = 0,
          ![s].wake = IF ok THEN 0 ELSE now + delay(t, b.tokens),
          ![s].res = IF slot[s].job.kind = "call" /\ slot[s].job.op = "allow"
                       THEN (IF ok THEN "ok" ELSE "error") ELSE "none"]
     /\ UNCHANGED <<now, jobs, slack, stores, faults>>

\* Mutant: the sleep ends with the context only.
BugNoTimer(s) == slot[s].pc = "sleep" /\ slot[s].gone /\ now > slot[s].wake
                 /\ slot' = [slot EXCEPT ![s].pc = "take", ![s].clk = now, ![s].wake = 0]
                 /\ UNCHANGED <<now, limiter, jobs, slack, stores, faults>>

\* The timer of Wait fires; the loop reads the clock again.
Wake(s) ==
  /\ slot[s].pc = "sleep" /\ now >= slot[s].wake
  /\ slot' = [slot EXCEPT ![s].pc = "take", ![s].clk = now, ![s].wake = 0]
  /\ UNCHANGED <<now, limiter, jobs, slack, stores, faults>>

WakeCancelled(s) ==
  /\ slot[s].pc = "sleep" /\ slot[s].gone
  /\ slot' = [slot EXCEPT ![s].pc = "returned", ![s].wake = 0, ![s].res = "error"]
  /\ UNCHANGED <<now, limiter, jobs, slack, stores, faults>>

Tick ==
  /\ \/ now < MaxTime
     \/ \E s \in DOMAIN slot : slot[s].pc = "sleep" /\ slot[s].wake > now
  /\ now' = now + 1
  /\ UNCHANGED <<limiter, slot, jobs, slack, stores, faults>>

----------------------------------------------------------------------------
(* Client.Do after the wait: one request, one answer.                      *)

\* What Slack does with a request it gets.
Effect(s) ==
  /\ effects' = [effects EXCEPT ![slot[s].n] = @ + 1]
  /\ channel' = IF slot[s].method = "chat.postMessage"
                  THEN channel \cup {[n |-> slot[s].n, text |-> slot[s].text]} ELSE channel

\* A refused call, one answered with an error status, or one over Slack's own
\* limit has no effect; an answer that is lost or unreadable had one.
Answers == {"ok", "refused", "status", "limited", "garbled", "lostRequest", "lostAnswer"}
Took == {"ok", "garbled", "lostAnswer"}

\* The token source may fail, and so may the request.
Do(s) ==
  /\ slot[s].pc = "http"
  /\ \/ /\ slot[s].gone
        /\ slot' = [slot EXCEPT ![s].pc = "returned", ![s].res = "error"]
        /\ UNCHANGED <<slack, faults>>
     \/ /\ ~slot[s].gone /\ Attempt(s, TRUE)
        /\ slot' = [slot EXCEPT ![s].pc = "returned", ![s].res = "error"]
        /\ UNCHANGED slack
     \/ \E a \in Answers :
          /\ ~slot[s].gone
          /\ Attempt(s, a # "ok")
          /\ slot' = [slot EXCEPT ![s].pc = "answer", ![s].ans = a]
          /\ IF a \in Took THEN Effect(s) ELSE UNCHANGED slack
  /\ UNCHANGED <<now, limiter, jobs, stores>>

\* Mutant: an answer that cannot be read, or does not come, is asked for again.
BugRetry(s) ==
  /\ slot[s].pc = "answer"
  /\ slot' = [slot EXCEPT ![s].pc = IF slot[s].ans = "ok" THEN "returned" ELSE "http",
                          ![s].ans = "none",
                          ![s].res = IF slot[s].ans = "ok" THEN "ok" ELSE "none"]
  /\ UNCHANGED <<now, limiter, jobs, slack, stores, faults>>

\* Only a 2xx answer whose envelope says ok and decodes is a success, and a
\* context cancelled while it is read may spoil it.
decodeResponse(s) ==
  /\ slot[s].pc = "answer"
  /\ \E failed \in BOOLEAN :
       /\ failed <=> slot[s].ans # "ok" \/ (slot[s].gone /\ failed)
       /\ slot' = [slot EXCEPT ![s].pc = "returned", ![s].ans = "none",
                               ![s].res = IF failed THEN "error" ELSE "ok"]
  /\ UNCHANGED <<now, limiter, jobs, slack, stores, faults>>

\* The method after Do: CreateApp and InstallApp hand what Slack gave them to
\* the sink that is wired, and a sink that fails fails the call.  CreateApp
\* without a sink discards the credentials; InstallApp without one has
\* returned before it called Slack.
Sinks(c) == c.op \in {"createApp", "installApp"} /\ c.flaw # "unset"

AfterCall(s) ==
  /\ slot[s].pc = "returned" /\ slot[s].job.kind = "call"
  /\ IF Sinks(slot[s].job) /\ slot[s].res = "ok"
       THEN \E failed \in BOOLEAN :
              /\ Attempt(s, failed)
              /\ sunk' = IF failed THEN sunk ELSE sunk \cup {slot[s].n}
              /\ slot' = [slot EXCEPT ![s] = End(s, IF failed THEN "error" ELSE "ok")]
       ELSE /\ slot' = [slot EXCEPT ![s] = End(s, slot[s].res)]
            /\ UNCHANGED <<sunk, faults>>
  /\ UNCHANGED <<now, limiter, jobs, slack, rows, audit>>

----------------------------------------------------------------------------
(* Requests from Slack: the signature, the envelope, then the dispatcher.  *)

Deliver(s, d) ==
  /\ d.kind = "http" /\ Free(s)
  /\ jobs' = jobs + 1
  /\ slot' = [slot EXCEPT ![s] = [Idle EXCEPT !.pc = "verify", !.job = d,
                                              !.n = jobs + 1, !.sent = now]]
  /\ UNCHANGED <<now, limiter, slack, stores, faults>>

\* verifySignature: both headers, a timestamp near the clock, the signature.
verifySignature(d, age) ==
  IF d.flaw \in {"header", "stamp", "sig"} \/ age > SigWindow THEN 401 ELSE 0

readVerified(d, age) ==
  CASE d.flaw = "large" -> 413 [] d.flaw = "read" -> 400
    [] OTHER -> verifySignature(d, age)

\* An audit row, unless the append fails; the error is dropped.
AuditAppend(s, what, lost) ==
  /\ Attempt(s, lost)
  /\ audit' = IF lost THEN audit ELSE audit \cup {[n |-> slot[s].n, what |-> what]}

reject(s, code) ==
  \E lost \in BOOLEAN :
    /\ AuditAppend(s, "rejected", lost)
    /\ slot' = [slot EXCEPT ![s] = [End(s, "none") EXCEPT !.status = code]]

\* serveEvents and serveInteractions; "type" is the envelope's, and every
\* interaction is dispatched.
serveEvents(s) ==
  LET d == slot[s].job code == readVerified(d, now - slot[s].sent) IN
    /\ slot[s].pc = "verify"
    /\ IF code # 0 \/ d.flaw = "json" THEN reject(s, IF code # 0 THEN code ELSE 400)
       ELSE /\ slot' = [slot EXCEPT ![s].pc =
                 IF d.route = "events" /\ d.type = "event_callback" THEN "dispatch" ELSE "ack",
                 ![s].sent = 0]
            /\ UNCHANGED <<audit, faults>>
    /\ UNCHANGED <<now, limiter, jobs, slack, sunk, rows>>

\* The envelope is acknowledged whatever came of the dispatch.
appendReceived(s) ==
  /\ slot[s].pc = "ack"
  /\ \E lost \in BOOLEAN : AuditAppend(s, "received", lost)
  /\ slot' = [slot EXCEPT ![s] = [End(s, "none") EXCEPT !.status = 200]]
  /\ UNCHANGED <<now, limiter, jobs, slack, sunk, rows>>

----------------------------------------------------------------------------
(* The Watchmaster's direct messages.                                      *)

\* Parse: the first of these that the text holds.
Parse(words) ==
  IF "propose" \in words THEN "propose" ELSE IF "cost" \in words THEN "cost"
  ELSE IF "health" \in words THEN "health" ELSE IF "list" \in words THEN "list"
  ELSE "unknown"

\* Only a text that a person wrote in a direct message is acted on.
IsDM(d) == d.class = "dm"

DispatchEvent(s) ==
  LET d == slot[s].job IN
    /\ slot[s].pc = "dispatch"
    /\ IF IsDM(d)
         THEN /\ \E lost \in BOOLEAN : AuditAppend(s, "dm_received", lost)
              /\ slot' = [slot EXCEPT
                   ![s].pc = CASE Parse(d.words) = "propose" -> "propose"
                               [] Parse(d.words) = "unknown" -> "wait"
                               [] OTHER -> "tool",
                   ![s].text = "help", ![s].method = "chat.postMessage"]
         ELSE /\ slot' = [slot EXCEPT ![s].pc = "ack"]
              /\ UNCHANGED <<audit, faults>>
    /\ UNCHANGED <<now, limiter, jobs, slack, sunk, rows>>

\* Something went wrong: a row for the audit, an apology for the user.
Apologise(s) ==
  /\ CanFail \/ slot[s].gone
  /\ \E lost \in BOOLEAN :
       /\ lost => slot[s].gone
       /\ audit' = IF lost THEN audit ELSE audit \cup {[n |-> slot[s].n, what |-> "dm_failed"]}
       /\ slot' = [slot EXCEPT ![s].pc = "wait", ![s].text = "apology",
                               ![s].lost = @ \/ lost]
  /\ faults' = IF slot[s].gone THEN faults ELSE faults + 1

handleReadOnly(s) ==
  /\ slot[s].pc = "tool"
  /\ \/ Apologise(s)
     \/ /\ slot' = [slot EXCEPT ![s].pc = "wait", ![s].text = "report"]
        /\ UNCHANGED <<audit, faults>>
  /\ UNCHANGED <<now, limiter, jobs, slack, sunk, rows>>

\* handlePropose: mint a token, propose, render, store the request under the
\* token, then post the card that carries it.
handlePropose(s) ==
  /\ slot[s].pc = "propose"
  /\ \/ Apologise(s) /\ UNCHANGED rows
     \/ /\ rows' = rows \cup {slot[s].n}
        /\ slot' = [slot EXCEPT ![s].pc = "wait", ![s].text = "card"]
        /\ UNCHANGED <<audit, faults>>
  /\ UNCHANGED <<now, limiter, jobs, slack, sunk>>

\* Mutant: the result of the post is not looked at.
BugPostUnchecked(s) ==
  /\ slot[s].pc = "returned" /\ slot[s].job.kind = "http"
  /\ slot' = [slot EXCEPT ![s].pc = "ack"]
  /\ UNCHANGED <<now, limiter, jobs, slack, stores, faults>>

\* After the post: its result decides the row; an apology has had its own.
AfterPost(s) ==
  /\ slot[s].pc = "returned" /\ slot[s].job.kind = "http"
  /\ IF slot[s].text = "apology"
       THEN /\ slot' = [slot EXCEPT ![s].pc = "ack"]
            /\ UNCHANGED <<audit, faults>>
       ELSE \E lost \in BOOLEAN :
              /\ AuditAppend(s, IF slot[s].res = "ok" THEN "dm_dispatched" ELSE "dm_failed", lost)
              /\ slot' = [slot EXCEPT ![s].pc = "ack", ![s].lost = @ \/ lost]
  /\ UNCHANGED <<now, limiter, jobs, slack, sunk, rows>>

----------------------------------------------------------------------------

\* One call of Client.Do.
DoStep(s) ==
  \/ Wait(s) \/ takeOrDelay(s) \/ Wake(s) \/ WakeCancelled(s)
  \/ Do(s) \/ decodeResponse(s)

Step(s) ==
  \/ DoStep(s) \/ AfterCall(s)
  \/ serveEvents(s) \/ appendReceived(s) \/ DispatchEvent(s)
  \/ handleReadOnly(s) \/ handlePropose(s) \/ AfterPost(s)

Begin(s) == jobs < MaxJobs /\ \E j \in Jobs[jobs + 1] : BeginCall(s, j) \/ Deliver(s, j)

ClientNext ==
  \/ \E s \in Slots : Begin(s) \/ Step(s) \/ Cancel(s)
  \/ Tick

ClientSpec ==
  /\ ClientInit /\ [][ClientNext]_clientVars
  /\ WF_clientVars(Tick) /\ \A s \in Slots : WF_clientVars(Step(s))

----------------------------------------------------------------------------

\* ratelimiter.go: a tier hands out its burst and then its sustained rate, and
\* more only by the time that refills moved back: a caller that read the clock
\* before another and reached the bucket after it.
RateKept ==
  \A t \in Tiers :
    granted[t] * Limits[t].window <=
      Limits[t].burst * Limits[t].window + (now + rewound[t]) * Limits[t].sustained

\* client.go, create_app.go, install_app.go: whatever fails on the way, a call
\* takes effect at most once, and a sink holds only what Slack handed out.  A
\* call that reports success took effect; if it installed an app, or created
\* one with a sink wired, what Slack handed back is in the sink.
EffectOnce ==
  /\ \A n \in 1..MaxJobs : effects[n] <= 1
  /\ \A n \in sunk : effects[n] = 1
  /\ \A s \in Slots :
       (slot[s].pc = "done" /\ slot[s].job.kind = "call" /\ slot[s].res = "ok"
          /\ slot[s].job.op # "allow" /\ Before(slot[s].job) = "call")
         => /\ effects[slot[s].n] = 1
            /\ slot[s].job.op = "installApp" \/ Sinks(slot[s].job) => slot[s].n \in sunk

\* dm/dispatcher.go: a card that a person can press has its request stored.
CardHasRow == \A m \in channel : m.text = "card" => m.n \in rows

\* dm/dispatcher.go, inbound/handler.go: a direct message Slack was told 200 of
\* was answered in the channel, or an audit row says why not; only a lost
\* append or a caller that hung up leaves neither.
NoSilentDM ==
  \A s \in Slots :
    (slot[s].pc = "done" /\ slot[s].status = 200 /\ slot[s].job.kind = "http"
       /\ slot[s].job.route = "events" /\ slot[s].job.type = "event_callback"
       /\ IsDM(slot[s].job) /\ ~slot[s].gone /\ ~slot[s].lost)
      => \/ \E m \in channel : m.n = slot[s].n
         \/ [n |-> slot[s].n, what |-> "dm_failed"] \in audit

\* ratelimiter.go, client.go: no call waits for ever for its token, and no
\* request from Slack is left without an answer.
EveryJobEnds == \A s \in Slots : slot[s].pc # "idle" ~> slot[s].pc \in {"idle", "done"}

\* dm/dispatcher.go: nothing a person sees or sends is unaccounted for: cards
\* have their rows, and messages an answer or an audit row.
DMIsAccounted == CardHasRow /\ NoSilentDM
=============================================================================
