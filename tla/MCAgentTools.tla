---------------------------- MODULE MCAgentTools ----------------------------
\* Two callers; scans of at most three items over pages of two, three pages.
EXTENDS AgentTools

T(op, m, flaw) == [op |-> op, m |-> m, flaw |-> flaw, age |-> 3, reviewer |-> <<"ann", "lower">>,
                   fields |-> {"summary"}, title |-> [plain |-> 1, meta |-> 0], sections |-> <<>>]
C(op, flaw) == [op |-> op, flaw |-> flaw]
Text(p, q) == [plain |-> p, meta |-> q]
Section(h, b) == [heading |-> h, bullets |-> b]
Inv(kind, args, own) == [kind |-> kind, args |-> args, own |-> own]

MCManifests ==
  [free   |-> [autonomy |-> "autonomous", toolset |-> DOMAIN ArgsOf,
               matrix |-> [record_watch_order |-> "self"]],
   asks   |-> [autonomy |-> "autonomous", toolset |-> DOMAIN ArgsOf \ {"find_stale_prs"},
               matrix |-> [post_daily_briefing |-> "lead", nudge_reviewer |-> "nobody",
                           record_watch_order |-> "watchmaster"]],
   supervised |-> [autonomy |-> "supervised", toolset |-> DOMAIN ArgsOf, matrix |-> <<>>]]
MCHandlers == DOMAIN ArgsOf \ {"nudge_reviewer"}

Issue(i, t) == [id |-> i, upd |-> t]
PR(i, t, bad, who) == [id |-> i, upd |-> t, bad |-> bad, reviewers |-> who]
Ann == <<"ann", "upper">>
Bob == <<"bob", "lower">>
MCLists ==
  [jira   |-> <<Issue(1, 1), Issue(2, 2), Issue(3, 3), Issue(4, 4), Issue(5, 8)>>,
   slack  |-> <<Issue(1, 8), Issue(2, 8), Issue(3, 7), Issue(4, 2)>>,
   github |-> <<PR(1, 1, FALSE, {Ann}), PR(2, 2, FALSE, {Bob}), PR(3, 3, FALSE, {Ann, Bob}),
                PR(4, 4, TRUE, {Ann}), PR(5, 7, FALSE, {Ann})>>]

Scan1 == {T(op, "free", "none") : op \in Scans}
Aged == {[T(op, "free", "none") EXCEPT !.age = a] : op \in Scans, a \in {0, 4, 8, 9}}
Recent == {[T("fetch_watch_orders", "free", "none") EXCEPT !.age = 1]}
Writes == {T("record_watch_order", "asks", "none"), T("nudge_reviewer", "free", "none"),
           T("nudge_reviewer", "asks", "none"), T("post_daily_briefing", "asks", "none"),
           T("update_ticket_field", "supervised", "none"), T("find_stale_prs", "asks", "none"),
           T("record_watch_order", "free", "name"), T("record_watch_order", "free", "due_at"),
           T("post_daily_briefing", "free", "none")}
     \union {[T("update_ticket_field", "free", "none") EXCEPT !.fields = f] :
               f \in {{"summary"}, {"assignee", "summary"}, {"other"}}}
     \union {[T("post_daily_briefing", "free", "none") EXCEPT !.title = t, !.sections = s] :
               t \in {Text(0, 0), Text(2, 1)},
               s \in {<<Section(Text(1, 0), <<Text(2, 0), Text(0, 1)>>)>>,
                      <<Section(Text(0, 0), <<Text(3, 1)>>), Section(Text(1, 1), <<>>)>>}}
Clients == {C(op, f) : op \in ClientCalls, f \in {"none", "owner", "body"}}
DryRuns == {[op |-> "dryrun", flaw |-> f, mode |-> m, forwarder |-> w, invs |-> v] :
              f \in {"none"}, m \in {"none", "ghost", "scoped"}, w \in BOOLEAN,
              v \in {<<Inv("slack", 1, FALSE), Inv("jira", 2, TRUE)>>,
                     <<Inv("jira", 1, TRUE), Inv("slack", 2, FALSE)>>}}
     \union {[op |-> "dryrun", flaw |-> "request", mode |-> "ghost", forwarder |-> TRUE, invs |-> <<>>]}
Cron == {C("Start", "none"), C("Stop", "none"), C("Schedule", "none"), C("Schedule", "spec"),
         [op |-> "Unschedule", flaw |-> "none", id |-> 1]}
     \union {C("RegisterCoordinatorCronTicks", f) : f \in {"none", "briefing", "sweep"}}

\* Scans alone, and two of one channel, with the service's list changing;
\* writes, two at a time; the daemon's own calls and dry runs beside a tool
\* call; the scheduler.
MCScripts ==
  {<<Scan1 \union Aged>>, <<Recent, Recent>>,
   <<Writes, {T("nudge_reviewer", "free", "none"), C("CreatePullRequest", "none")}>>,
   <<Clients \union DryRuns, {T("record_watch_order", "free", "none")}>>,
   <<{C("Start", "none"), C("RegisterCoordinatorCronTicks", "none")}, Cron, Cron>>}
=============================================================================
