----------------------------- MODULE AgentTools -----------------------------
(***************************************************************************)
(* An agent's tool calls: authorisation and dispatch, the coordinator's    *)
(* handlers with their paged scans and their single writes, the Jira and   *)
(* GitHub clients under them, the lesson written when a call fails, the    *)
(* dry run of a proposed tool, and the cron scheduler whose ticks wake the *)
(* coordinator.                                                            *)
(*   core/pkg/runtime/{wired_runtime,tooldispatch,authority,               *)
(*                     tool_error_reflector}.go                            *)
(*   core/pkg/coordinator, core/pkg/jira, core/pkg/github                  *)
(*   core/pkg/approval/dryrun.go                                           *)
(*   core/pkg/cron, core/internal/keep/coordinator_cron_wiring             *)
(*                                                                         *)
(* Jira, GitHub, Slack and the log are external.  A service answers one    *)
(* page at a time from a list that may change between two pages, may send  *)
(* fewer or more items than asked for, and may contradict itself about     *)
(* whether more follow; it never claims the end too early.  A write may    *)
(* fail before or after it took effect.  A "flaw" names the argument that  *)
(* a call's own checks refuse.                                             *)
(***************************************************************************)
EXTENDS Integers, Sequences, FiniteSets, FiniteSetsExt, SequencesExt, Folds

CONSTANTS
  Slots,       \* goroutines that make calls
  Scripts,     \* the workloads tried: in each, what the n-th call may be
  Manifests,   \* name -> [autonomy, toolset, matrix]
  Handlers0,   \* tools registered with the dispatcher at the start
  Lists0,      \* service -> what it lists: issues, messages, pull requests
  Whitelist,   \* the Jira client's fieldWhitelist
  MaxItems,    \* maxOverdueIssues, maxFetchMessages, maxStalePRs
  MaxPages,    \* maxOverduePages, maxFetchPages, maxStalePages
  PageSize,    \* searchPageSize, fetchPageSize, stalePRsPageSize
  MaxAge,      \* maxAgeThresholdDays, maxLookbackMinutes, maxStalePRsAgeDays
  MaxBriefing, \* maxBriefingChars
  MaxArgs,     \* MaxBrokerArgCount
  Now,         \* the time of the scans
  MaxTouches,  \* bound: changes of a service's list
  MaxFires,    \* bound: firings of cron entries
  MaxFaults    \* bound: failures and cancellations

\* A workload is a sequence of sets of calls; Request.Validate knows three modes.
Modes == {"none", "ghost", "scoped"}
ASSUME ScriptsAssumption ==
  \A s \in Scripts : /\ Len(s) \in Nat
                     /\ \A i \in 1 .. Len(s) : \A job \in s[i] : job.op = "dryrun" => job.mode \in Modes

\* Three services list something, and a scan takes at least one item and page.
ASSUME ListsAssumption ==
  /\ DOMAIN Lists0 = {"jira", "slack", "github"}
  /\ \A s \in DOMAIN Lists0 : Lists0[s] \in Seq(Range(Lists0[s]))
ASSUME LimitsAssumption == MaxItems \in Nat \ {0} /\ PageSize \in Nat \ {0}

VARIABLES
  call,      \* each goroutine's call
  handlers,  \* ToolDispatcher.handlers: the tools that have one
  live,      \* the runtime session has not been terminated
  world,     \* service -> list
  effects,   \* writes that took effect: [n, i, what]
  log,       \* lesson_learned rows in Keeper's Log: the calls they are about
  lessons,   \* lessons in the notebook: [n, ev]
  answers,   \* n -> what call n was told (history)
  reports,   \* dry runs announced on the bus: [n, count]
  sched,     \* the Scheduler: state and entries
  firing,    \* fire-time closures in flight
  ticks,     \* events the closures have published
  dropped,   \* entries of registrations that returned an error (history)
  script,    \* the workload
  made, touches, fires, faults

load == <<script, made>>
envVars == <<handlers, live, world, touches>>
notes == <<log, lessons>>
fireVars == <<firing, ticks, dropped, fires>>
cronVars == <<sched, fireVars>>
toolVars == <<envVars, notes, effects, answers, reports>>
agentVars == <<call, load, faults, cronVars, toolVars>>

Idle == [pc |-> "idle", job |-> [op |-> "none"], n |-> 0, ctx |-> TRUE, page |-> 0, cursor |-> 0,
         got |-> {}, want |-> {}, clean |-> TRUE, cut |-> FALSE, err |-> "none", ev |-> 0,
         done |-> <<>>]

AgentInit ==
  /\ call = [c \in Slots |-> Idle]
  /\ handlers = Handlers0 /\ live = TRUE /\ world = Lists0
  /\ effects = {} /\ log = {} /\ lessons = {} /\ answers = <<>> /\ reports = {}
  /\ sched = [state |-> "notStarted", entries |-> {}, next |-> 1]
  /\ firing = {} /\ ticks = {} /\ dropped = {}
  /\ script \in Scripts /\ made = 0 /\ touches = 0 /\ fires = 0 /\ faults = 0

CanFail == faults < MaxFaults
\* A call that was given up fails; another one fails at the cost of a fault.
Fault(c) == IF call[c].ctx THEN CanFail /\ faults' = faults + 1 ELSE UNCHANGED faults
Free(c) == call[c].pc \in {"idle", "done"}

----------------------------------------------------------------------------
(* What the code computes.                                                 *)

\* Supervised agents ask about everything; an autonomous one about what its
\* authority matrix gives to somebody else, an unknown value included.
RequiresApproval(m, tool) ==
  \/ m.autonomy # "autonomous"
  \/ tool \in DOMAIN m.matrix /\ m.matrix[tool] \notin {"self", "watchmaster"}

toolsetContains(m, tool) == tool \in m.toolset

\* Dispatch refuses in this order; "none" hands the call to the handler.
\* Mutant: the approval check is missing.
BugDispatchUnasked(c) ==
  LET j == call[c].job  m == Manifests[j.m] IN
  IF ~call[c].ctx THEN "ctx"
  ELSE IF j.flaw = "name" THEN "invalid"
  ELSE IF ~toolsetContains(m, j.op) THEN "unauthorized"
  ELSE IF j.op \notin handlers THEN "missing"
  ELSE "none"
Dispatch(c) ==
  LET j == call[c].job  m == Manifests[j.m] IN
  IF ~call[c].ctx THEN "ctx"
  ELSE IF j.flaw = "name" THEN "invalid"
  ELSE IF ~toolsetContains(m, j.op) THEN "unauthorized"
  ELSE IF RequiresApproval(m, j.op) THEN "approval"
  ELSE IF j.op \notin handlers THEN "missing"
  ELSE "none"

shouldSkipReflection(err) == err \in {"invalid", "notFound", "terminated", "unauthorized"}

\* The arguments each handler reads, one reader each; any of them may refuse.
overdueArgs  == {"project_key", "assignee_account_id", "status"}
staleArgs    == {"repo_owner", "repo_name", "reviewer_login"}
fetchArgs    == {"lead_user_id"}
recordArgs   == {"summary", "due_at", "source_ref"}
briefingArgs == {"channel_id", "title", "sections"}
nudgeArgs    == {"reviewer_user_id", "text", "title"}
updateArgs   == {"issue_key", "fields"}
ArgsOf == [find_overdue_tickets |-> overdueArgs, find_stale_prs |-> staleArgs,
           fetch_watch_orders |-> fetchArgs, record_watch_order |-> recordArgs,
           post_daily_briefing |-> briefingArgs, nudge_reviewer |-> nudgeArgs,
           update_ticket_field |-> updateArgs]

\* The numeric argument of the scans: an integer from 1 to the maximum.
readAgeThresholdDaysArg(j) ==
  j.op \in {"find_overdue_tickets", "find_stale_prs", "fetch_watch_orders"} => j.age \in 1..MaxAge

\* A text is [plain, meta]: the runes mrkdwn gives a meaning are wrapped in
\* two zero-width spaces each.
escapeMrkdwn(t) == t.plain + 3 * t.meta
SectionRunes(s) ==
  (IF s.heading.plain + s.heading.meta > 0 THEN escapeMrkdwn(s.heading) + 3 ELSE 0)
  + FoldSeq(LAMBDA b, n : n + escapeMrkdwn(b) + 2, 0, s.bullets)
  + (IF s.bullets = <<>> THEN 0 ELSE Len(s.bullets) - 1)
\* A blank line goes before each section unless nothing was written yet.
formatBriefing(title, sections) ==
  FoldLeft(LAMBDA n, s : n + (IF n > 0 THEN 2 ELSE 0) + SectionRunes(s),
           IF title.plain + title.meta > 0 THEN escapeMrkdwn(title) + 2 ELSE 0, sections)

\* What update_ticket_field itself refuses, before the client's whitelist.
reassigns(j) == j.op = "update_ticket_field" /\ "assignee" \in j.fields
tooLong(j) == j.op = "post_daily_briefing" /\ formatBriefing(j.title, j.sections) > MaxBriefing

\* A handler refuses with a ToolResult.Error and a nil error.
Refuses(j) ==
  \/ j.flaw \in ArgsOf[j.op]
  \/ ~readAgeThresholdDaysArg(j)
  \/ reassigns(j) \/ tooLong(j)

\* The arguments the clients' own calls check.
getIssueArgs    == {"issue_key"}
addCommentArgs  == {"issue_key", "body"}
getRefArgs      == {"owner", "repo", "ref"}
createRefArgs   == {"owner", "repo", "ref", "sha"}
putFileArgs     == {"owner", "repo", "path", "message", "branch", "sha"}
pullRequestArgs == {"owner", "repo", "title", "body", "head", "base"}
ClientArgsOf == [GetIssue |-> getIssueArgs, AddComment |-> addCommentArgs, GetRef |-> getRefArgs,
                 CreateRef |-> createRefArgs, CreateOrUpdateFile |-> putFileArgs,
                 CreatePullRequest |-> pullRequestArgs]
fieldWhitelistContains(fields) == fields # {} /\ fields \subseteq Whitelist

----------------------------------------------------------------------------
(* The scans.                                                              *)

ServiceOf == [find_overdue_tickets |-> "jira", fetch_watch_orders |-> "slack", find_stale_prs |-> "github"]
Scans == DOMAIN ServiceOf

\* What the service selects: the JQL's condition, the history since a second,
\* every open pull request.
composeOverdueJQL(j, i) == i.upd < Now - j.age
slackTSFromTime(j, i) == i.upd >= Now - j.age
Listed(j, i) ==
  /\ j.op = "find_overdue_tickets" => composeOverdueJQL(j, i)
  /\ j.op = "fetch_watch_orders" => slackTSFromTime(j, i)

\* A time that does not parse is zero, and zero is never stale; logins are
\* compared without case.
parseTime(i) == IF i.bad THEN 0 ELSE i.upd
EqualFold(a, b) == a[1] = b[1]
matchesStaleFilter(j, i) ==
  /\ parseTime(i) # 0 /\ parseTime(i) < Now - j.age
  /\ \E r \in i.reviewers : EqualFold(r, j.reviewer)
Kept(j, i) == j.op = "find_stale_prs" => matchesStaleFilter(j, i)

\* Where a service's list has what it selects, and what of it a scan keeps,
\* from one place to another.
List(j) == world[ServiceOf[j.op]]
Listing(j, from, to) == {i \in from..to : Listed(j, List(j)[i])}
Keeping(j, from, to) == {i \in Listing(j, from, to) : Kept(j, List(j)[i])}

\* What a scan of the list as it is now should find.
Wanted(j) == {List(j)[i].id : i \in Keeping(j, 1, Len(List(j)))}

\* The answers a service may give: a stretch of its list.  "both": the end and a
\* token; "stuck": more, but no token (GitHub: a next link without a page number).
Search(j, cursor) ==
  {[from |-> cursor + 1, to |-> t, flag |-> f, next |-> t] :
     t \in {u \in {cursor} \union Listing(j, cursor + 1, Len(List(j))) :
              Cardinality(Listing(j, cursor + 1, u)) <= PageSize + 1},
     f \in {"last", "more", "both", "stuck"}}
ListPullRequests(j, page) ==
  {[from |-> (page - 1) * PageSize + 1, to |-> Min({page * PageSize, Len(List(j))}), flag |-> f, next |-> page + 1] :
     f \in {"last", "more", "stuck"}}
Pages(c) ==
  LET j == call[c].job IN
  {r \in IF j.op = "find_stale_prs" THEN ListPullRequests(j, call[c].cursor) ELSE Search(j, call[c].cursor) :
     r.flag = "last" => Listing(j, r.to + 1, Len(List(j))) = {}}

\* The client turns a contradictory answer into an error.
parseLinkHeaderNextPage(r) == r.flag # "stuck"
searchContract(r) == r.flag # "stuck"
Decodes(j, r) ==
  /\ j.op = "find_stale_prs" => parseLinkHeaderNextPage(r)
  /\ j.op = "find_overdue_tickets" => searchContract(r)

\* Items are taken in order until the cap; the place of the last one taken.
Room(c) == MaxItems - Cardinality(call[c].got)
Matching(c, r, i) == Cardinality(Keeping(call[c].job, r.from, i))
AtCap(c, r) == Matching(c, r, r.to) >= Room(c)
CapAt(c, r) == Min({i \in r.from..r.to : Matching(c, r, i) >= Room(c)})
Taken(c, r) ==
  LET j == call[c].job IN
  {<<call[c].page, List(j)[i].id>> : i \in Keeping(j, r.from, IF AtCap(c, r) THEN CapAt(c, r) ELSE r.to)}

\* Mutant: at the cap, the items left on the page are forgotten.
BugCapTail(c, r) == r.flag # "last"
moreAtCap(c, r) == r.flag # "last" \/ Listing(call[c].job, CapAt(c, r) + 1, r.to) # {}

\* How a scan goes on after a page that left room: "whole", "cut" or "next".
paginateOverdue(r)  == CASE r.flag = "last" -> "whole" [] r.flag = "both" -> "cut" [] OTHER -> "next"
paginateHistory(r)  == CASE r.flag = "last" -> "whole" [] r.flag \in {"both", "stuck"} -> "cut" [] OTHER -> "next"
paginateStalePRs(r) == IF r.flag = "last" THEN "whole" ELSE "next"
AfterPage(j, r) ==
  CASE j.op = "find_overdue_tickets" -> paginateOverdue(r)
    [] j.op = "fetch_watch_orders"   -> paginateHistory(r)
    [] j.op = "find_stale_prs"       -> paginateStalePRs(r)

----------------------------------------------------------------------------
(* How a call begins and ends.                                             *)

ToolNames == DOMAIN ArgsOf
ClientCalls == DOMAIN ClientArgsOf
Reads == Scans \union {"GetIssue", "GetRef"}

\* The call is over; its goroutine may make another.
Ended(c, told) == [Idle EXCEPT !.pc = "done", !.job = call[c].job, !.n = call[c].n, !.err = told,
                               !.got = call[c].got, !.want = call[c].want,
                               !.clean = call[c].clean, !.cut = call[c].cut, !.done = call[c].done]
Tell(c, told) ==
  answers' = [n \in DOMAIN answers \union {call[c].n} |-> IF n = call[c].n THEN told ELSE answers[n]]
Answer(c, told) == call' = [call EXCEPT ![c] = Ended(c, told)] /\ Tell(c, told)

FirstPc(op) ==
  CASE op \in ToolNames -> "dispatch"
    [] op \in ClientCalls -> "client"
    [] op = "dryrun" -> "validate"
    [] OTHER -> "cron"

Begin(c) ==
  /\ Free(c) /\ \A d \in Slots : Free(d) => c <= d
  /\ made < Len(script) /\ made' = made + 1
  /\ \E job \in script[made + 1] :
       call' = [call EXCEPT ![c] = [Idle EXCEPT !.pc = FirstPc(job.op), !.job = job, !.n = made + 1]]
  /\ UNCHANGED <<script, cronVars, toolVars, faults>>

\* The caller gives up; the code sees it where it looks at its context.
Cancel(c) ==
  /\ ~Free(c) /\ call[c].pc \notin {"cron", "reg1", "reg2", "unreg"} /\ call[c].ctx
  /\ CanFail /\ faults' = faults + 1
  /\ call' = [call EXCEPT ![c].ctx = FALSE]
  /\ UNCHANGED <<cronVars, toolVars, load>>

\* A call fails with an error: reflected on, unless no tool ran or the call
\* did not come through the runtime.
FailWith(c, err) ==
  IF call[c].job.op \notin ToolNames \/ shouldSkipReflection(err)
    THEN Answer(c, err)
    ELSE /\ call' = [call EXCEPT ![c].pc = "append", ![c].err = err]
         /\ UNCHANGED answers

\* InvokeTool: the session must be live, then the dispatcher decides.
InvokeTool(c) ==
  /\ call[c].pc = "dispatch"
  /\ LET v == IF live THEN Dispatch(c) ELSE "terminated" IN
     IF v = "none" THEN call' = [call EXCEPT ![c].pc = "handler"] /\ UNCHANGED answers
                   ELSE FailWith(c, v)
  /\ UNCHANGED <<cronVars, effects, reports, load, faults, envVars, notes>>

\* A handler looks at its context, reads its arguments, and goes to work.
Handler(c) ==
  /\ call[c].pc = "handler"
  /\ LET j == call[c].job IN
     IF ~call[c].ctx THEN FailWith(c, "ctx")
     ELSE IF Refuses(j) THEN Answer(c, "refused")
     ELSE /\ call' = [call EXCEPT ![c].pc = IF j.op = "fetch_watch_orders" THEN "open"
                                            ELSE IF j.op \in Scans THEN "page" ELSE "write",
                                  ![c].cursor = IF j.op = "find_stale_prs" THEN 1 ELSE 0,
                                  ![c].want = IF j.op \in Scans THEN Wanted(j) ELSE {}]
          /\ UNCHANGED answers
  /\ UNCHANGED <<cronVars, effects, reports, load, faults, envVars, notes>>

\* The direct message with the lead is opened first; three of Slack's errors
\* are answers to the agent rather than failures.
openIMOrLiftRefusal(c) ==
  /\ call[c].pc = "open"
  /\ \/ /\ call[c].ctx
        /\ call' = [call EXCEPT ![c].pc = "page", ![c].want = Wanted(call[c].job)] /\ UNCHANGED <<answers, faults>>
     \/ /\ call[c].ctx /\ CanFail /\ faults' = faults + 1 /\ Answer(c, "refused")
     \/ /\ Fault(c)
        /\ FailWith(c, "tool")
  /\ UNCHANGED <<cronVars, effects, reports, load, envVars, notes>>

\* One page of a scan: asked for, checked, and its items taken.
NextPage(c, op) ==
  /\ call[c].pc = "page" /\ call[c].job.op = op /\ call[c].ctx
  /\ \E r \in Pages(c) :
       LET j == call[c].job  got == call[c].got \union Taken(c, r)  k == call[c].page + 1
           cut == IF AtCap(c, r) THEN moreAtCap(c, r) ELSE AfterPage(j, r) # "whole"
       IN  IF ~Decodes(j, r) THEN FailWith(c, "tool")
           ELSE IF ~AtCap(c, r) /\ AfterPage(j, r) = "next" /\ k < MaxPages
             THEN /\ call' = [call EXCEPT ![c].got = got, ![c].page = k, ![c].cursor = r.next]
                  /\ UNCHANGED answers
             ELSE /\ call' = [call EXCEPT ![c] = [Ended(c, "ok") EXCEPT !.got = got, !.cut = cut]]
                  /\ Tell(c, "ok")
  /\ UNCHANGED <<cronVars, effects, reports, load, faults, envVars, notes>>

FindOverdueTickets(c) == NextPage(c, "find_overdue_tickets")
FetchWatchOrders(c)   == NextPage(c, "fetch_watch_orders")
FindStalePRs(c)       == NextPage(c, "find_stale_prs")

\* The page cannot be had: the caller gave up, the transport failed, the
\* service answered with an error.
PageFails(c) ==
  /\ call[c].pc = "page"
  /\ Fault(c)
  /\ FailWith(c, IF call[c].ctx THEN "tool" ELSE "ctx")
  /\ UNCHANGED <<cronVars, effects, reports, load, envVars, notes>>

\* Somebody changes what a service lists: an issue or a pull request that is
\* touched becomes the newest, a new message comes first.
Touch(s) ==
  /\ touches < MaxTouches /\ touches' = touches + 1
  /\ \E c \in Slots : call[c].pc = "page" /\ ServiceOf[call[c].job.op] = s
  /\ IF s = "slack"
       THEN world' = [world EXCEPT ![s] = <<[id |-> 90 + touches, upd |-> Now]>> \o @]
       ELSE \E i \in DOMAIN world[s] :
              world' = [world EXCEPT ![s] = Append(RemoveAt(@, i), [@[i] EXCEPT !.upd = Now])]
  /\ call' = [c \in Slots |->
       IF call[c].pc = "page" /\ ServiceOf[call[c].job.op] = s
         THEN [call[c] EXCEPT !.clean = FALSE] ELSE call[c]]
  /\ UNCHANGED <<cronVars, handlers, live, effects, answers, reports, load, faults, notes>>

\* The checks of the client that a handler's own checks do not repeat.
clientChecks(j) ==
  /\ j.op = "update_ticket_field" => fieldWhitelistContains(j.fields)
  /\ j.op \in ClientCalls => j.flaw \notin ClientArgsOf[j.op]

Effect(c, what) == [n |-> call[c].n, i |-> call[c].page, what |-> what]

\* One request, never repeated: it succeeds, it fails, or it takes effect and
\* the answer is lost.  Only a call that was not given up can succeed.
Succeeds(c, what) ==
  /\ call[c].ctx /\ Answer(c, "ok")
  /\ effects' = IF call[c].job.op \in Reads THEN effects ELSE effects \union {Effect(c, what)}
  /\ UNCHANGED faults
FailsOrIsLost(c, what) ==
  /\ Fault(c)
  /\ FailWith(c, "tool")
  /\ \/ UNCHANGED effects
     \/ call[c].job.op \notin Reads /\ effects' = effects \union {Effect(c, what)}
Requested(c, what) == Succeeds(c, what) \/ FailsOrIsLost(c, what)

\* The tools that write once.
WriteOnce(c, op) ==
  /\ call[c].pc = "write" /\ call[c].job.op = op
  /\ IF clientChecks(call[c].job) THEN Requested(c, call[c].job.op)
                                  ELSE FailWith(c, "tool") /\ UNCHANGED <<effects, faults>>
  /\ UNCHANGED <<cronVars, reports, load, envVars, notes>>

RecordWatchOrder(c)  == WriteOnce(c, "record_watch_order")
PostDailyBriefing(c) == WriteOnce(c, "post_daily_briefing")
NudgeReviewer(c)     == WriteOnce(c, "nudge_reviewer")
UpdateTicketField(c) == WriteOnce(c, "update_ticket_field")

\* The clients' other calls, made by the daemon rather than through the runtime.
ClientCall(c, op) ==
  /\ call[c].pc = "client" /\ call[c].job.op = op
  /\ IF clientChecks(call[c].job) THEN Requested(c, call[c].job.op)
                                  ELSE FailWith(c, "invalid") /\ UNCHANGED <<effects, faults>>
  /\ UNCHANGED <<cronVars, reports, load, envVars, notes>>

GetIssue(c)           == ClientCall(c, "GetIssue")
AddComment(c)         == ClientCall(c, "AddComment")
GetRef(c)             == ClientCall(c, "GetRef")
CreateRef(c)          == ClientCall(c, "CreateRef")
CreateOrUpdateFile(c) == ClientCall(c, "CreateOrUpdateFile")
CreatePullRequest(c)  == ClientCall(c, "CreatePullRequest")

----------------------------------------------------------------------------
(* Reflection on a failed call, under the context of that call.            *)

\* The lesson_learned row; without it the lesson has no evidence.
\* Mutant: the row is cited although it could not be written.
BugAppendCited(c) ==
  /\ call[c].pc = "append"
  /\ \/ /\ call[c].ctx /\ log' = log \union {call[c].n} /\ UNCHANGED faults
     \/ /\ Fault(c)
        /\ UNCHANGED log
  /\ call' = [call EXCEPT ![c].pc = "embed", ![c].ev = call[c].n]
  /\ UNCHANGED <<cronVars, effects, lessons, answers, reports, load, envVars>>
KeepersLogAppend(c) ==
  /\ call[c].pc = "append"
  /\ \/ /\ call[c].ctx /\ log' = log \union {call[c].n} /\ UNCHANGED faults
        /\ call' = [call EXCEPT ![c].pc = "embed", ![c].ev = call[c].n]
     \/ /\ Fault(c)
        /\ call' = [call EXCEPT ![c].pc = "embed"] /\ UNCHANGED log
  /\ UNCHANGED <<cronVars, effects, lessons, answers, reports, load, envVars>>

\* Without an embedding there is no lesson; the caller is told of the tool.
Embed(c) ==
  /\ call[c].pc = "embed"
  /\ \/ call[c].ctx /\ call' = [call EXCEPT ![c].pc = "remember"] /\ UNCHANGED <<answers, faults>>
     \/ /\ Fault(c)
        /\ Answer(c, call[c].err)
  /\ UNCHANGED <<cronVars, effects, reports, load, envVars, notes>>

Remember(c) ==
  /\ call[c].pc = "remember"
  /\ \/ call[c].ctx /\ lessons' = lessons \union {[n |-> call[c].n, ev |-> call[c].ev]} /\ UNCHANGED faults
     \/ /\ Fault(c)
        /\ UNCHANGED lessons
  /\ Answer(c, call[c].err)
  /\ UNCHANGED <<cronVars, effects, log, reports, load, envVars>>

\* A handler is registered, or the session terminated, while a call is on its
\* way: the only time anybody notices.
Dispatching == \E c \in Slots : call[c].pc = "dispatch"
Register(tool) ==
  /\ Dispatching /\ tool \in ToolNames \ handlers /\ handlers' = handlers \union {tool}
  /\ UNCHANGED <<call, load, faults, cronVars, live, world, effects, answers, reports, touches, notes>>
Terminate ==
  /\ live /\ Dispatching /\ live' = FALSE
  /\ UNCHANGED <<call, load, faults, cronVars, handlers, world, effects, answers, reports, touches, notes>>

----------------------------------------------------------------------------
(* The dry run of a proposed tool: the calls it would make, noted only     *)
(* ("ghost") or made with one argument replaced ("scoped").                *)

validRequest(j) == j.flaw = "none"
Validate(c) ==
  /\ call[c].pc = "validate"
  /\ LET j == call[c].job IN
     IF ~validRequest(j) THEN Answer(c, "invalid")
     ELSE IF ~call[c].ctx THEN Answer(c, "ctx")
     ELSE IF j.mode = "none" THEN Answer(c, "warning")
     ELSE /\ UNCHANGED answers
          /\ call' = [call EXCEPT
               ![c].pc = IF j.mode = "ghost" THEN "gate" ELSE "scope",
               ![c].done = IF j.mode = "ghost" THEN [i \in 1..Len(j.invs) |-> "ghosted"] ELSE <<>>]
  /\ UNCHANGED <<cronVars, effects, reports, load, faults, envVars, notes>>

\* The lead's channel and the sandbox project are looked up and checked.
ScopeResolver(c) ==
  /\ call[c].pc = "scope"
  /\ \/ call' = [call EXCEPT ![c].pc = "invoke"] /\ UNCHANGED <<answers, faults>>
     \/ CanFail /\ faults' = faults + 1 /\ Answer(c, "scope")
  /\ UNCHANGED <<cronVars, effects, reports, load, envVars, notes>>

\* The argument that names the channel or the project is forced to the lead's
\* channel or the sandbox; that may add an argument, and there is a limit.  What
\* the operation touches is the broker's affair: one that names a message or an
\* issue by its key need not heed the argument.
rewriteForScope(inv) == IF inv.own THEN inv ELSE [inv EXCEPT !.args = @ + 1, !.own = TRUE]

sideEffectsFired(c) == \E i \in DOMAIN call[c].done : call[c].done[i] = "sent"

\* The run breaks off: reported when something was already done.
BreakOff(c, err, done) ==
  IF sideEffectsFired(c)
    THEN call' = [call EXCEPT ![c].pc = "publish", ![c].err = err, ![c].done = done] /\ UNCHANGED answers
    ELSE Answer(c, err)

\* One invocation: context, rewrite, forward.
executeScoped(c) ==
  /\ call[c].pc = "invoke"
  /\ LET j == call[c].job  i == call[c].page + 1  done == call[c].done IN
     IF i > Len(j.invs)
       THEN call' = [call EXCEPT ![c].pc = "gate"] /\ UNCHANGED <<answers, effects, faults>>
     ELSE IF ~call[c].ctx THEN BreakOff(c, "ctx", done) /\ UNCHANGED <<effects, faults>>
     ELSE IF rewriteForScope(j.invs[i]).args > MaxArgs THEN BreakOff(c, "invalid", done) /\ UNCHANGED <<effects, faults>>
     ELSE \/ /\ call' = [call EXCEPT ![c].page = i,
                                     ![c].done = Append(done, IF j.forwarder THEN "sent" ELSE "scoped")]
             /\ effects' = IF j.forwarder THEN effects \union {Effect(c, j.invs[i].kind)}
                                          ELSE effects
             /\ UNCHANGED <<answers, faults>>
          \/ /\ j.forwarder /\ CanFail /\ faults' = faults + 1
             /\ BreakOff(c, "forward", Append(done, "failed"))
             /\ effects' \in {effects, effects \union {Effect(c, j.invs[i].kind)}}
  /\ UNCHANGED <<cronVars, reports, load, envVars, notes>>

\* A caller that gave up gets no report, unless something was already done.
\* Mutant: the gate looks only at the context.
BugGate(c) ==
  /\ call[c].pc = "gate"
  /\ IF ~call[c].ctx
       THEN Answer(c, "ctx")
       ELSE call' = [call EXCEPT ![c].pc = "publish"] /\ UNCHANGED answers
  /\ UNCHANGED <<cronVars, effects, reports, load, faults, envVars, notes>>
prePublishGate(c) ==
  /\ call[c].pc = "gate"
  /\ IF ~call[c].ctx /\ ~sideEffectsFired(c)
       THEN Answer(c, "ctx")
       ELSE call' = [call EXCEPT ![c].pc = "publish"] /\ UNCHANGED answers
  /\ UNCHANGED <<cronVars, effects, reports, load, faults, envVars, notes>>

\* The announcement does not depend on the caller's context.
publishDryRun(c) ==
  /\ call[c].pc = "publish"
  /\ \/ /\ reports' = reports \union {[n |-> call[c].n, count |-> Len(call[c].done)]}
        /\ Answer(c, IF call[c].err = "none" THEN "ok" ELSE call[c].err) /\ UNCHANGED faults
     \/ /\ CanFail /\ faults' = faults + 1 /\ Answer(c, "unpublished") /\ UNCHANGED reports
  /\ UNCHANGED <<cronVars, effects, load, envVars, notes>>

----------------------------------------------------------------------------
(* The scheduler.  One lock guards its state and entries.                  *)

Schedule(id) == sched' = [sched EXCEPT !.entries = @ \union {id}, !.next = id + 1]
Unschedule(id) == sched' = [sched EXCEPT !.entries = @ \ {id}]

CronCall(c) ==
  /\ call[c].pc = "cron"
  /\ LET j == call[c].job IN
     \/ /\ j.op = "Schedule"
        /\ IF j.flaw # "none" \/ sched.state = "stopped"
             THEN Answer(c, "invalid") /\ UNCHANGED sched
             ELSE Answer(c, "ok") /\ Schedule(sched.next)
     \/ /\ j.op = "Unschedule"
        /\ IF sched.state = "stopped" THEN Answer(c, "stopped") /\ UNCHANGED sched
                                      ELSE Answer(c, "ok") /\ Unschedule(j.id)
     \/ /\ j.op = "Start"
        /\ IF sched.state # "notStarted" THEN Answer(c, sched.state) /\ UNCHANGED sched
                                         ELSE Answer(c, "ok") /\ sched' = [sched EXCEPT !.state = "started"]
     \/ /\ j.op = "Stop" /\ Answer(c, "ok") /\ sched' = [sched EXCEPT !.state = "stopped"]
     \/ /\ j.op = "RegisterCoordinatorCronTicks"
        /\ call' = [call EXCEPT ![c].pc = "reg1"] /\ UNCHANGED <<sched, answers>>
  /\ UNCHANGED <<fireVars, effects, reports, load, faults, envVars, notes>>

\* The coordinator's two ticks are registered one after the other; when the
\* second is refused the first is taken back, and a failure of that ignored.
RegisterBriefing(c) ==
  /\ call[c].pc = "reg1"
  /\ IF call[c].job.flaw = "briefing" \/ sched.state = "stopped"
       THEN Answer(c, "invalid") /\ UNCHANGED sched
       ELSE /\ Schedule(sched.next) /\ UNCHANGED answers
            /\ call' = [call EXCEPT ![c].pc = "reg2", ![c].ev = sched.next]
  /\ UNCHANGED <<fireVars, effects, reports, load, faults, envVars, notes>>
RegisterSweep(c) ==
  /\ call[c].pc = "reg2"
  /\ IF call[c].job.flaw = "sweep" \/ sched.state = "stopped"
       THEN call' = [call EXCEPT ![c].pc = "unreg"] /\ UNCHANGED <<answers, sched>>
       ELSE Answer(c, "ok") /\ Schedule(sched.next)
  /\ UNCHANGED <<fireVars, effects, reports, load, faults, envVars, notes>>
\* Mutant: the first tick stays registered.
BugHalfRegistered(c) ==
  /\ call[c].pc = "unreg" /\ UNCHANGED sched
  /\ dropped' = dropped \union {call[c].ev} /\ Answer(c, "invalid")
  /\ UNCHANGED <<firing, ticks, fires, effects, reports, load, faults, envVars, notes>>
UndoBriefing(c) ==
  /\ call[c].pc = "unreg"
  /\ IF sched.state = "stopped" THEN UNCHANGED sched ELSE Unschedule(call[c].ev)
  /\ dropped' = dropped \union {call[c].ev} /\ Answer(c, "invalid")
  /\ UNCHANGED <<firing, ticks, fires, effects, reports, load, faults, envVars, notes>>

\* An entry comes due while the scheduler runs: its closure starts.
Fire(e) ==
  /\ sched.state = "started" /\ fires < MaxFires
  /\ fires' = fires + 1 /\ firing' = firing \union {<<e, fires + 1>>}
  /\ UNCHANGED <<call, load, faults, sched, ticks, dropped, toolVars>>

\* The closure publishes; an error is logged and a panic recovered.
\* Mutant: its end is not seen by the scheduler.
BugFireHeld(f) ==
  /\ ticks' = ticks \union {f}
  /\ UNCHANGED <<firing, call, load, faults, sched, dropped, fires, toolVars>>
makeFireFn(f) ==
  /\ firing' = firing \ {f}
  /\ ticks' \in {ticks, ticks \union {f}}
  /\ UNCHANGED <<call, load, faults, sched, dropped, fires, toolVars>>

\* The context that Stop returns is done.
StopDone == sched.state = "stopped" /\ firing = {}

----------------------------------------------------------------------------
Step(c) ==
  \/ InvokeTool(c) \/ Handler(c) \/ openIMOrLiftRefusal(c)
  \/ FindOverdueTickets(c) \/ FetchWatchOrders(c) \/ FindStalePRs(c) \/ PageFails(c)
  \/ RecordWatchOrder(c) \/ PostDailyBriefing(c) \/ NudgeReviewer(c) \/ UpdateTicketField(c)
  \/ GetIssue(c) \/ AddComment(c) \/ GetRef(c) \/ CreateRef(c)
  \/ CreateOrUpdateFile(c) \/ CreatePullRequest(c)
  \/ KeepersLogAppend(c) \/ Embed(c) \/ Remember(c)
  \/ Validate(c) \/ ScopeResolver(c) \/ executeScoped(c) \/ prePublishGate(c) \/ publishDryRun(c)
  \/ CronCall(c) \/ RegisterBriefing(c) \/ RegisterSweep(c) \/ UndoBriefing(c)

AgentNext ==
  \/ \E c \in Slots : Begin(c) \/ Step(c) \/ Cancel(c)
  \/ \E s \in DOMAIN Lists0 : Touch(s)
  \/ \E t \in ToolNames : Register(t)
  \/ Terminate
  \/ \E e \in sched.entries : Fire(e)
  \/ \E f \in firing : makeFireFn(f)

\* A request ends within the HTTP client's timeout, and a closure returns.
Fairness ==
  /\ \A c \in Slots : WF_agentVars(Step(c))
  /\ WF_agentVars(\E f \in firing : makeFireFn(f))

AgentSpec == AgentInit /\ [][AgentNext]_agentVars /\ Fairness

----------------------------------------------------------------------------
(* Properties.                                                             *)

\* A scan that says it is not truncated has returned everything the service
\* lists for it, and no scan returns what does not match or more than the cap,
\* whatever page sizes and end markers the service answered with, as long as
\* the list did not change under the scan (find_overdue_tickets,
\* fetch_watch_orders, find_stale_prs).
Found(c) == {x[2] : x \in call[c].got}
ScanIsHonest ==
  \A c \in Slots :
    (call[c].pc = "done" /\ call[c].job.op \in Scans /\ call[c].err = "ok" /\ call[c].clean) =>
       /\ Found(c) \subseteq call[c].want /\ Cardinality(call[c].got) <= MaxItems
       /\ ~call[c].cut => Found(c) = call[c].want

\* What a call was told is what happened: "ok" from a write means it took
\* effect; a refusal, and every error raised before a handler runs, means that
\* nothing was written outside; and nothing is written for an action that
\* needs somebody's approval or by an agent without the tool.
PreDispatch == {"ctx", "invalid", "unauthorized", "approval", "missing", "terminated", "refused"}
AnswerIsTrue ==
  \A c \in Slots :
    LET j == call[c].job  wrote == \E e \in effects : e.n = call[c].n IN
    /\ call[c].pc = "done" /\ j.op \in ToolNames =>
         /\ call[c].err = "ok" /\ j.op \notin Reads => wrote
         /\ call[c].err \in PreDispatch => ~wrote
    /\ wrote /\ j.op \in ToolNames =>
         /\ ~RequiresApproval(Manifests[j.m], j.op) /\ j.op \in Manifests[j.m].toolset
         /\ j.op = "update_ticket_field" => "assignee" \notin j.fields /\ j.fields \subseteq Whitelist

\* Every lesson has its cause: the call it is about was answered with an
\* error (never with a result, a refusal or an error shouldSkipReflection
\* names), there is one per call, and a cited log row exists
\* (WiredRuntime.InvokeTool, ToolErrorReflector.Reflect).
LessonHasCause ==
  /\ \A l \in lessons :
       /\ l.n \in DOMAIN answers
       /\ answers[l.n] \notin {"ok", "refused"} /\ ~shouldSkipReflection(answers[l.n])
       /\ l.ev # 0 => l.ev = l.n /\ l.ev \in log
  /\ Cardinality({l.n : l \in lessons}) = Cardinality(lessons)

\* Only a scoped dry run writes anything outside (Executor.Execute), and when
\* one of its calls was made and acknowledged, its announcement was published or
\* the caller knows it was not: giving up in between hides nothing.
DryRunIsReported ==
  /\ \A c \in Slots : \A e \in effects :
       call[c].job.op = "dryrun" /\ e.n = call[c].n => call[c].job.mode = "scoped"
  /\ \A c \in Slots :
       call[c].pc = "done" /\ sideEffectsFired(c) =>
         call[c].err = "unpublished" \/ [n |-> call[c].n, count |-> Len(call[c].done)] \in reports

\* A registration that returned an error leaves no tick behind in a scheduler
\* that can still fire, and once the context returned by Stop is done nothing
\* is published any more.
TicksAreOwned ==
  /\ [](sched.state # "stopped" => sched.entries \intersect dropped = {})
  /\ [][StopDone => UNCHANGED ticks]_agentVars

\* Every call is answered, and the context returned by Stop becomes done.
EveryCallEnds ==
  /\ \A c \in Slots : ~Free(c) ~> Free(c)
  /\ (sched.state = "stopped") ~> StopDone
=============================================================================
