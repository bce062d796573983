# Formal models of watchkeepers

This directory holds TLA+ models of the parts of watchkeepers that carry its
own protocol logic, the TLC configurations that check them on small instances,
and TLAPS proofs of the most important results for every size. The models are
translated from the Go sources under `core/`; each definition that models code
is listed with its file and lines in `PROJECT.json` ("map").

Conventions. One module per component. `MC<Module>.tla` and `MC*.cfg`
instantiate a module for TLC. `<Module>Proofs.tla` holds a module's theorems.
Operators named `Bug...` are seeded faults: what the definition after them would
be with one line of the code wrong. No specification uses them; the mutation
runs listed in `PROJECT.json` put each in place of the definition it alters and
expect the named property to fail. "History" variables record what happened and
are read by no action.

## 1. The system

A *Keep* server owns the shared state (a Postgres database behind a REST API)
and announces changes through a transactional outbox and a server-sent event
stream. A *core* process runs the agents ("watchkeepers"): it follows Keep's
stream, re-publishes every event on an in-process bus, talks to Slack, GitHub
and Jira, and runs agent tools in a TypeScript harness over JSON-RPC. A human
lead approves spawning, retiring and new tools by clicking Slack cards or
merging pull requests.

### 1.1 Inventory

| Component | State it keeps | Operations | Interacts with | What is hard | What makes it correct |
|---|---|---|---|---|---|
| Event bus (`core/pkg/eventbus`) | topics with a bounded channel, a worker and a handler list each; closed flag; publisher wait group | Publish, Subscribe, unsubscribe, Close | every producer and consumer in the process | Close racing Publish, Subscribe and a second Close; handlers added mid-dispatch | no send on a closed channel, no leaked worker, accepted events are delivered in order, once, to the handlers registered |
| Keep outbox publisher and SSE (`core/internal/keep/publish`, `server`) | outbox rows, published_at, subscriber registry, connection buffers | Insert, poll tick, Publish, Subscribe, Close, shutdown | Postgres; outbox consumer | publish before commit; crash or rollback between; slow subscriber dropped; registration racing shutdown | a stamped row was offered to everyone registered; scopes do not leak; shutdown ends |
| Outbox consumer (`core/pkg/outbox`, `keepclient/subscribe*`) | loop state, current connection, last event id, dedup cache | Start, Stop, read, reconnect, publish with retries | Keep SSE; event bus | Stop against a dial or a backoff; redelivery; timeouts mistaken for cancellation | no repeat inside the window, nothing after Stop, Stop returns |
| Spawn and retire sagas (`core/pkg/spawn`) | saga rows, idempotency index, credentials, external artefacts | Kickoff, Runner.Run, step Execute and Compensate | Slack, notebook, runtime, Keep | each step may half-fail; rollback order; repeated approval | steps run once, a completed saga is whole, a failed one leaves nothing but what a failed clean-up left |
| Slack approval dispatcher (`messenger/slack/inbound/approval`) | pending approvals | Insert, Resolve, DispatchInteraction | saga kickoff, replayer | several clicks on one card | a decision is acted on once |
| Tool approval (`core/pkg/approval`) | proposals, decision claims | Record, webhook delivery, card click, MarkDecided, UnmarkDecided | event bus, tool registry | repeated and disagreeing decisions, failing publish after the claim | one terminal event per proposal, never changed |
| Keep's REST store (`keepclient`, `lifecycle`, `internal/keep/server`, `auth`, `db`) | human, watchkeeper, manifest version, knowledge chunk and log rows; pooled connections with a role and scope | every client method, the bearer check, one scoped transaction per request, the write and read handlers | Postgres; everything that stores something | row locks and unique keys, answers lost after a commit, a connection that goes back to the pool dirty | what was acknowledged is stored, once, and seen by later reads; status only moves forward, by its own organization |
| Tool registry (`core/pkg/toolregistry`) | a directory per source, the effective toolset, its revision, refcounts of snapshots in use | SyncOnce, Recompute, Acquire, release | git, file system, event bus | a pull under a scan; two recomputes at once; a snapshot replaced while it is acquired | a sync that was announced is in the toolset; only verified trees are announced; refcounts exact |
| Tool trees (`localpatch`, `hostedexport`, `toolshare`) | live tree of a tool, snapshots per version, export destination, branch and pull request | Install, Rollback, Export, Share | file system, GitHub, Slack, event bus | failure or crash between any two file operations, and the command run after it | what is announced is what is on disk; a replaced version can be rolled back to |
| Slack client and inbound (`messenger/slack`, `inbound`, `inbound/dm`, `inbound/intent`) | token buckets, stored credentials, pending requests, audit rows | the API calls, signed deliveries, direct messages of a lead | Slack, approvals, audit log | concurrent waiters on a bucket, a call that took effect and reports an error, errors swallowed behind a 200 | a tier's rate is kept; no effect twice; every message answered or on record |
| Slack socket mode (`subscribe*.go`) | connection, read pump, ping timer, attempts | Subscribe, session loop, reconnect, Stop | Slack client and limiter | three goroutines waiting for each other; connections that die silently | one connection, nothing acknowledged and lost, Stop returns |
| Notebook (`core/pkg/notebook`, `archivestore`, notebook supervisor) | entries and their vectors in SQLite, handles, archives | Remember, Recall, Forget, Promote, flags, Archive, Import, backup, Open, Close | Keeper's Log, archive store | mirrored rows, two handles on one file, the archive's pipe, a swap on import, crashes | rows in step, what was told is kept, archives whole |
| Agent tools (`runtime`, `coordinator`, `jira`, `github`) | registered handlers, lessons, log rows | InvokeTool, seven coordinator tools, client calls, reflection | Jira, GitHub, Slack, notebook | caps met in the middle of a page, lists that change, writes whose answer is lost | honest scans, true answers, lessons with a cause |
| Dry run (`approval/dryrun.go`) | per call | Execute | broker forwarder, event bus | giving up between a real call and its report | what was done is announced |
| Cron (`cron`, `coordinator_cron_wiring`) | entries, running closures | Schedule, Unschedule, Start, Stop, RegisterCoordinatorCronTicks | event bus | a half registration, Stop against firing entries | no tick of a failed registration; nothing after Stop |
| Proposer, reviewer, capability broker, audit subscriber, LLM accounting | per call or a small table | one call each | GitHub, bus, Slack | partial failure, expiry boundaries | next in the plan |
| Harness host and TypeScript harness | running agents, pending requests | request/response over JSON-RPC | operating system processes | shutdown with requests in flight | each request gets one answer |
| LLM clients, configuration, secrets, logs, metrics, CLI | none | | | none | outside the models |

`PROJECT.json` lists every component with its source files, its status and the
reason when it is not modelled, and 'hazards' lists, line by line, what is hard
to test in this code and which property covers it.

## 2. Modules

| Module | Models | Used by |
|---|---|---|
| `EventBus` | `eventbus/bus.go` | `MCEventBus`, `EventBusProofs` |
| `KeepPublish` | `keep/publish/outbox.go`, `registry.go`, `keep/server/handlers_subscribe.go`, `server.go` (Run) | `MCKeepPublish`, `OutboxProofs` |
| `OutboxConsumer` | `outbox/consumer.go`, `keepclient/subscribe.go`, `subscribe_resilient.go` | `MCOutboxConsumer`, `OutboxProofs` |
| `SpawnSaga` | `spawn/spawnkickoff.go`, `retirekickoff.go`, `saga/*`, the step files, the credential store | `ApprovalDispatch` |
| `ApprovalDispatch` | `messenger/slack/inbound/approval/dispatcher.go`, `spawn/pending_approval_memory.go`, composed with `SpawnSaga` | `MCApprovalDispatch`, `ApprovalDispatchProofs` |
| `ToolApproval` | `approval/proposalstore.go`, `webhook.go`, `callbacks.go` | `MCToolApproval`, `ToolProofs` |
| `OneShotDecision` | what `ToolApproval` promises: a proposal's outcome is set once and stays | refined by `ToolApproval` |
| `ToolRegistry` | `toolregistry/registry.go`, `scheduler.go`, `scanner.go`, `effective.go` | `MCToolRegistry`, `ToolProofs` |
| `ToolTrees` | `localpatch/*`, `hostedexport/exporter.go`, `toolshare/sharer.go` | `MCToolTrees`, `ToolTreesProofs` |
| `KeepStore` | `keepclient` (requests and checks), `lifecycle`, `internal/keep/auth`, `db/scope.go`, `server/middleware.go`, `handlers_write.go`, `handlers_read.go`, `handlers_human.go`, `handlers_cost_rollup.go` | `MCKeepStore`, `KeepStoreProofs` |
| `SlackClient` | `messenger/slack` (limiter, client, the API calls), `inbound`, `inbound/dm`, `inbound/intent` | `MCSlackClient`, `SlackClientProofs`, `SlackSocket` |
| `SlackSocket` | `messenger/slack/subscribe*.go`, composed with `SlackClient` | `MCSlackSocket`, `SlackClientProofs` |
| `Notebook` | `notebook`, `archivestore`, `runtime/notebook_supervisor*.go`, the two lesson tools of `coordinator` | `MCNotebook`, `NotebookProofs` |
| `AgentTools` | `runtime` (wired runtime, dispatch, authority, reflector), `coordinator`, `jira`, `github`, `approval/dryrun.go`, `cron`, `coordinator_cron_wiring` | `MCAgentTools`, `ToolProofs` |

### 2.1 How state and actions correspond to the code

**EventBus.** A goroutine is a program counter (`pub`, `sub`, `closer`,
`worker`). An action is one critical section of `Bus.mu`, one channel operation
or one handler call; a section that cannot block is atomic. `topicState.mu`
appears only where it matters: `Subscribe` keeps it while it lets go of `Bus.mu`
(bus.go:254), so a topic whose subscriber is at "locked" is locked.
`publishWG` is the set of Publish calls the wait group counts, `once` is
`closeOnce`, `channels` the list of channels Close snapshots. Publish has its
fast path, its blocking path, and the two returns on a closed bus. Handlers are
callbacks that return without calling the bus.

**KeepPublish.** A row is its rank in `created_at` order and becomes visible when
its writer commits, in any order. `tick` is the worker's transaction: begin and
select, publish row by row, stamp, commit or roll back. `phase` follows
`Server.Run`: up, stopping (worker still running), closed (registry closed),
draining, down. An SSE handler flushes its 200 before it registers. A frame or a
heartbeat is taken up in one step and written in another (`WriteDone`), which may
never come: the server sets no write timeout, so a client that does not drain its
socket blocks its handler (handlers_subscribe.go:27-30) until `shutdownTimeout`
abandons it. A crash clears everything but `visible` and `stamped`.

**OutboxConsumer.** `loop` is the one goroutine of the consumer, including its
time inside `ResilientStream.Next`: read, back off, dial, install. Each dial and
each publish attempt has three failing outcomes because the code tells them
apart by error kind (`Kinds`). `cache` is the LRU of ids in eviction order.

**SpawnSaga, ApprovalDispatch.** A call is a `Kickoff`, a retire kickoff or a
direct `Runner.Run`, each on its own goroutine; its saga and watchkeeper are
named after it. Steps take effect in `live`, `creds` and `tokens`; a step may
succeed, fail cleanly, fail after its effect (`CreateAppPartial`,
`InstallPartial`), or fail unclearly (recorded in `residue`). `Compensate` walks
the completed steps backwards, and each compensator may fail. A click is resolved
by compare-and-set (`Resolve`) and then runs the kickoff.

**ToolApproval.** A request is a webhook delivery or a card click with a fixed
proposal, decision and route. `decisions` holds the claim that `MarkDecided`
takes and `UnmarkDecided` gives back when looking up the source, syncing or
publishing fails; `events` are the terminal events the bus took.

**ToolRegistry.** Sources are numbered in configuration order. `disk` is what a
scan would find; a pull writes it in two steps under the source's mutex, so a scan
may see it half way. `Recompute` takes `recomputeMu`, scans source by source,
swaps the entry, releases, and announces under `publishMu`. `refs` and `hold` are
the refcount and the callers between the load of the current entry and its
release. Time is abstracted: the grace period is zero or longer than the run.

**ToolTrees.** A directory is a set of files, a file its name and the folder it
came from, so that a mixture of two trees is visible. Each command is a sequence
of file operations or GitHub calls (`op.pc`), and `Fault` ends it before any of
them: an error return and a crash leave the same disk. Commands follow one
another; the source leaves overlapping ones to the operator
(`localpatch/installer.go:335-341`).

**KeepStore.** A slot is a caller and the server goroutine that serves it. `do`
refuses or sends; the server checks the token, decodes, takes a connection from
the pool, sets role and settings (`conn`), runs the handler's statements (`write`
is the change the open transaction will make), commits or rolls back, and
answers. `NextLocks` is what the next statement has to lock: a SELECT FOR UPDATE its
row, an UPDATE its row, an insert its unique key, and the check of a foreign key a share
of the row it names (the lead of an insert and of a lead change, the actor of a log
entry). `locks` is what the transaction has locked so far, and a statement waits for
`BlockedBy`, the callers whose locks conflict. A request, an answer, a statement, a commit
and the client's patience may each fail, and a commit may succeed while its
answer is lost. `known` is what a reader had been told of when it started. A roll-up
counts the calls of the agent it asks for (handlers_cost_rollup.go:227), in a bucket for each day
or week and model. A status change that waited behind a lead change finds the row under its new
lead; Postgres, which joins the old lead's row to it, may answer 404 instead.

**SlackClient.** A slot is a goroutine with one job: an API call or a request from
Slack. `Wait` is three steps, as in the code: read the clock, lock the bucket and
refill, then take a token or sleep; so an overtaken goroutine applies an old reading,
and `rewound` counts the time this credits twice. Slack fails a call before or after its
effect. `CreateApp` hands the credentials to its sink where one is wired; without one
they are discarded and the call succeeds (create_app.go:239), so `EffectOnce` asks for
them only of a call that has a sink. A direct message goes through signature check,
decoding, intent, tool or proposal, reply and audit row, each of which may fail.

**SlackSocket.** The session loop (`loop`), the read pump (`pump`, `held`,
`reads`), the ping timer and Stop. Connections are numbered; a connection is open,
closed, or mute: dead without a word, which only the ping deadline finds out. The
loop opens connections with `SlackClient`'s `Do` in slot 1 and so waits for the
same limiter. Slack repeats an unacknowledged event on every new connection.

**Notebook.** `inode` holds the database files, `path` the one the agent's path
names and `handle` the `*DB` values: an import renames a new file over the path while
an older handle keeps its own. An import opens a handle of its own and nothing keeps it
apart from the other calls: it counts the entries, closes its handle, removes the log of
whatever the path names, renames and opens again, one step each. A transaction is a begin, statements on a private
view and a commit; SQLite's single connection per handle and single writer per
file are guards. `told` is the history, for each file, of what callers were told
and, in `told.undone`, of the ids whose forgetting was committed; `told.torn` are the files
whose log an import removed while a handle had them open. What SQLite makes of such a
file is not known, and nothing is claimed of its entries but that its transactions stay
whole. Archiving is two goroutines and a pipe: the writer, the store's
Put, and the close that passes the error on. A crash drops handles and open
transactions and keeps files and archives.

**AgentTools.** A call goes through `InvokeTool`: authorisation, approval, dispatch,
the handler's argument checks, its pages or its write, and reflection of a failure.
`want` is what the service lists for a scan when it asks for its first page, `clean`
whether the list has stayed the same since, `cut` the handler's "truncated" flag. A
page is a range of positions of the list (`Listing`) and the handler keeps of it what
the query asked for (`Keeping`). Each service sends
pages of any size up to one more than asked for, with or without end markers. Dry
runs and the scheduler are calls as well; `firing` are the scheduler's closures in
flight.

## 3. Runs

Bounds are named constants of the modules. Deadlock checking is off where a run
may end (every caller has made its calls, the server is down).

| Run | Instance | Shows |
|---|---|---|
| `eventbus` | 1 topic with one slot, 2 publishers, 2 subscribers, 2 Close calls | no send on a closed channel, no leaked worker; every handler sees its topic's queue in order, once, without gaps, and nothing accepted is dropped when a Close returns; every Close returns and every accepted event is dispatched if handlers return; Close frees a publisher blocked behind a handler that never does |
| `keep_publish` | 2 rows, a connection in scope and one out of it, one-slot buffers, 1 fault | stamped rows were fanned out by an open registry; a subscriber that stays registered has no gap; repeats only after a rollback; rows get stamped whatever clients do; shutdown comes down without its timeout if clients drain |
| `approval_saga` | 2 calls, a spawn token, another tool's token, a retire token, four spawn steps | one click acts on a token; no step runs twice; a completed saga is whole; a failed one leaves only what a failed clean-up left; every started saga ends |
| `outbox_consumer` | 4 events (one without id, one malformed), a one-entry cache, 2 tries, 2 attempts, 3 frames, 2 connections, 2 Stop callers | no repeat inside the dedup window; failures are not remembered; Stop is final and returns; one connection |
| `tool_approval` | 2 proposals, 3 requests of any kind and route | no claim without an event or a request working on it; implements `OneShotDecision` |
| `tool_registry` | 2 sources (one git), 1 tool, 2 syncs, the bus worker and a direct Recompute, 1 holder | a dispatched sync is in the toolset; the tree announced is the tree verified; events of two revisions do not mix; refcounts exact; Recompute returns |
| `tool_trees` | 3 folders of 2 versions (two of one version with different files), 4 commands, 1 fault anywhere | what is announced is on disk; snapshots are final; a replaced version has a whole snapshot unless a fault cut its own copy short |
| `keep_store` | 2 organizations, 2 watchkeepers, 3 people, 2 connections, and one of three workloads: 2 calls of 42 requests (16 of them refused on the way) and 1 fault; 3 callers with requests for every kind of lock; a writer of entries of 2 agents and 2 models beside their reader, 3 calls | a reader finds what it had been told of, in its scope only, and a roll-up counts its agent's calls once, by day or week and model; a pooled connection carries nothing over; acknowledged is done, refused is not; nobody waits in a circle for a connection, a row, a foreign key or a unique key; status moves one way and by its owner |
| `slack_client` | 2 goroutines, 3 jobs, a burst of one, 1 fault | the rate is kept but for time credited twice; no effect twice, success is an effect; cards have their row and messages an answer or an audit row; every job ends |
| `slack_socket` | 2 events, 2 attempts, up to 4 connections, 2 faults | one connection; nothing acknowledged is thrown away; a message offered again and again is handled; Stop returns |
| `notebook` | 2 goroutines, 3 calls, an empty notebook or one with a lesson and an observation, 1 fault or crash | entry and vector in step; told is kept, of the file the path names; recall respects what was forgotten and flagged; archives whole; every call ends |
| `agent_tools` | 4 workloads: scans of up to 3 items in pages of 2 (two scans of one channel among them), writes two at a time, client calls and dry runs beside a tool call, the scheduler; 1 change of a list, 2 firings, 2 faults | scans that claim to be whole are; answers true; lessons have a cause; dry runs are reported; no tick of a failed registration, none after Stop; every call ends |

A property that is a conjunction (`DeliveryIsExact`, `SnapshotsAreSound`, ...) names
its parts, each defined and stated on its own above it.

Why the bounds are enough. A one-slot queue or buffer or a one-entry cache is at
its limit after one element, so full, drained and evicting states are all
reached. The races are between pairs (two clicks, two Closes, two Recomputes, a
Publish and a Close), and each instance has the pair and a third party where a
bystander could matter. One fault can fall at every step, and the command or
tick after it runs on what it left. `CreateAppPartial` and `InstallPartial` cover a
step failing half way; the instance of `approval_saga` leaves `oauth_install` out
of the wired steps because no approval carries its code, and reaches that step
through direct `Runner.Run` calls. In `keep_store` and `notebook` two callers
meet on the same rows with every pair of operations the request lists name. `keep_store` has
three workloads, and the first call chooses one (`OneWorkload`). In the second
three callers share two connections, so one waits for the pool while the others may
wait for each other's rows; and three is what the circle needs that
handlers_write.go:1050-1057 warns of: without `OF w` a status change has locked the
lead it read while a lead change, which another one moved past that lead, holds the row. In
`agent_tools` a scan over five items in pages of two meets the item cap inside a
page, at a page's end, and together with the page cap.

### 3.1 Fairness

Weak fairness is given to goroutines that are inside a call: the Go scheduler
runs them on, and sync.Mutex and channel operations do not starve a waiter for
ever. Nobody is obliged to call Publish, Close, Stop, SyncOnce or to click, no
server has to send a frame, no connection has to break, and no fault has to
happen.
- Bus handlers may never return. `CloseReturns` and `AcceptedIsDispatched` are
  stated under `HandlersReturn`; `PublishUnblocked` is not.
- In `OutboxConsumer` a dial and a publish attempt end because the HTTP client and
  the attempt both have a timeout (`keepclient/client.go:59`, `consumer.go`).
- `KeepStore` has no fairness: what could keep a request from ending there is a circle of
  waiters or a connection that is never given back, and `NoDeadlock` says that there is
  neither.
- In `SlackClient` time passes (`Tick`) and goroutines go on. In `SlackSocket` Slack
  answers pings on an open connection and goes on offering what was not
  acknowledged; the two cases of the loop's `select` are strongly fair because Go
  chooses among ready cases at random.
- In `Notebook` and `AgentTools` calls run on; nobody has to make one, services need
  not change their lists and entries need not fire.
- In `KeepPublish` a stopped server is started again (its deployment restarts it);
  a signal or a fault owes nothing. An SSE handler that is not blocked in a write runs on,
  strongly fair because Go's `select` chooses among ready cases at random. A write to a
  client owes nothing: `EventuallyStamped` holds without, since fan-out never waits for a
  connection, and `ShutdownCompletes` is stated under `ClientsDrain` (every write that was
  begun ends). With a client that never drains only `shutdownTimeout` ends the drain.

## 4. Where code and comments differ

Met while translating; the models do what the code does, and no property of a passing
run says otherwise.

Event path and spawn:
- A consumer that lost its stream can end silently. When the reconnect attempts
  are used up and the last error is the HTTP client's timeout
  (`keepclient/client.go:59`), it matches `context.DeadlineExceeded` and `run()`
  (consumer.go:408) takes it for a shutdown: no log, `Stop` returns nil. The comment
  at consumer.go:405 says "Context cancellation is a clean shutdown".
- A saga parked in pending stays there. Kickoff's catch-up branch, which
  spawnkickoff.go:264-275 says completes it "rather than parking the saga in
  `pending` forever", cannot be reached by a repeated click: the dispatcher turns
  it away as stale first (dispatcher.go:269).
- A handler that publishes to its own full topic, or calls Close, blocks the only
  goroutine that could make room (bus.go:188). The model's handlers do neither.
- Rows published between the flushed 200 and `Registry.Subscribe`
  (handlers_subscribe.go:71), or while a client reconnects, are not sent to it; the
  stream has no replay.

Tools:
- Revisions can be announced out of order: `recomputeMu` is released before
  `publishMu` is taken (toolregistry/registry.go:339), against the comment at 358,
  "keeps per-topic FIFO order consistent with revision order".
- A version can be lost: a snapshot directory left half written by a failed
  install is taken for the snapshot by the retry (localpatch/snapshot.go:153), which
  then removes the only whole tree. installer.go:11-13 says the installer refuses when
  the prior tree is undecidable "so a rollback target is always available"; here none
  is. `SnapshotsAreKept` therefore excepts the versions of which a fault cut a copy short
  (`torn`), and only those: without the exception TLC finds this behaviour in three
  commands and one fault.
- A duplicate delivery is answered 200 while the first still holds the claim; if
  that one's publish fails, nothing is in flight and no retry is due, although the
  comment at webhook.go:477 says the event "is already in flight (or landed)".
- Two overlapping `Kickoff` calls with one token, outside the dispatcher,
  would both see the row pending (spawnkickoff.go:318); the dispatcher's
  compare-and-set is what prevents it, and `ExecutedOnce` is checked behind it.
- A publish that runs out of tries on its own deadline is dropped without the log
  line outbox/README.md:122 promises (consumer.go:463).
- `replaceLive`'s comment (snapshot.go:167-171) advises to re-run the rollback after
  a crash; `Rollback` refuses a live tree without a readable manifest.
- `Installer` and `Rollbacker` each make a lock table, which the comment at
  installer.go:46 calls shared.
- `Recompute` reads its clock before it waits for the lock (registry.go:323), so the
  grace period of a retired snapshot can be shorter than configured.

Keep's store:
- `retired_at` can be earlier than `spawned_at`: both are the transaction's start.
- SetWatchkeeperLead does not check the new lead's organization, and
  InsertWatchkeeper accepts any existing manifest.
- A Spawn whose activation fails leaves a pending row.

Slack:
- The limiter reads its clock before it locks the bucket (ratelimiter.go:338), so
  the time between two overtaking readings is credited twice; `RateKept` accounts
  for it with `rewound`.
- Stop between `tearDownConn` and `swapConn` leaves the fresh WebSocket open
  (subscribe.go:506-514), until Slack drops it.
- A repeated delivery is handled again: nothing looks at `event_id`.
- A card that cannot be posted leaves a pending row; a sink that fails loses the
  credentials of an app that exists; a caller that hangs up can leave a direct
  message with neither answer nor audit row.

Notebook:
- Two archives of one agent in one second: LocalFS fails on O_EXCL and then removes
  the first one's file (localfs.go:168-169), and S3 overwrites it. The comment at
  localfs.go:44-47 calls Put safe for concurrent use through a temp file and a rename.
  `ArchiveIsWhole` excepts such names.
- An import drops live data: it counts the entries, and later renames over the path,
  with nothing against another handle in between (import.go:97-121). An entry
  acknowledged after the count, or through a handle still open on the replaced file,
  is lost. errors.go:27-28 says "this package itself never drops live data"; it
  does in the model as in the code. `AckedIsKept` is stated of the file the path names.
- Filters are applied after the nearest-neighbour query, so a recall may return
  fewer entries than match; ForgetPendingLesson does not look at needs_review; a
  flagging pass stops at a candidate that was forgotten meanwhile.

Agent tools:
- Calls that need approval, have no handler, or were cancelled before dispatch are
  reflected into lessons, although wired_runtime.go:227-231 says a lesson would be
  noise when "the runtime refused to dispatch at all".
- The error class recorded for every coordinator failure is the wrapper's type.
- Reflection uses the call's own context: a call that was cancelled leaves no lesson.
- Page numbers over a list ordered by `updated` may skip or repeat items when it
  changes (accepted at find_stale_prs.go:410-430); `ScanIsHonest` excepts such scans.
- A scoped dry run forces one argument, the channel or the project
  (dryrun.go:724-729). An operation that names its issue by key or its message by `ts`
  (`transition_issue`, `update_message`) is forwarded with that name, so where it lands is up to
  the broker, although manifest.go:19-22 says writes are "redirected to a sandbox
  project". `DryRunIsReported` says whether a dry run wrote, not where.
- A dry run whose first forwarded call took effect and reported an error announces
  nothing; a tick may fire before a failed registration is undone.

## 5. Proofs

TLAPS proves these theorems for every value of the constants, that is, for any sets of
goroutines, topics, requests, jobs, rows and archives and any bounds on calls and
faults, under the assumptions named below:

| Theorem | Statement |
|---|---|
| `EventBusProofs!TypeCorrect` | `Spec => []TypeOK`, with it that no queue exceeds its capacity |
| `EventBusProofs!SendsAreSafe` | `Spec => []NoSendOnClosedChannel` |
| `EventBusProofs!WorkersAreJoined` | `Spec => []NoLeakedWorker` |
| `EventBusProofs!DeliveryHolds` | `Spec => []DeliveryIsExact` |
| `ToolProofs!ApprovalTypeCorrect` | `ApprovalSpec => []ApprovalTypeOK` |
| `ToolProofs!DecidedOnce` | `ApprovalSpec => []OneEvent` |
| `ToolProofs!AnnouncedStaysClaimed` | `ApprovalSpec => []AnnouncedIsClaimed` |
| `ToolProofs!NoOrphanedClaim` | `ApprovalSpec => []ClaimIsAnnounced` |
| `ToolProofs!ImplementsOneShot` | `ApprovalSpec => OneShot`, the refinement of `OneShotDecision` |
| `ToolTreesProofs!TypeCorrect` | `Spec => []TypeOK` |
| `ToolTreesProofs!AnnouncedThere` | `Spec => []AnnouncedIsThere` |
| `ToolTreesProofs!SnapshotsKept` | `Spec => SnapshotsAreKept`, an action property |
| `KeepStoreProofs!ConnectionsClean` | `Spec => []PooledConnectionsAreClean` |
| `KeepStoreProofs!AnswersAreTrue` | `Spec => []AckIsEffect` |
| `KeepStoreProofs!RowsMoveOneWay` | `Spec => OneWayAndOwned`, an action property |
| `KeepStoreProofs!ReadsAreFresh` | `Spec => []FreshReads` |
| `KeepStoreProofs!NoDeadlocks` | `Spec => []NoDeadlock` |
| `SlackClientProofs!RateHolds` | `ClientSpec => []RateKept` |
| `SlackClientProofs!EffectsAreReal` | `ClientSpec => []EffectOnce` |
| `SlackClientProofs!MessagesAccounted` | `ClientSpec => []DMIsAccounted` |
| `SlackClientProofs!SocketOwned` | `Spec => []SocketIsOwned` |
| `OutboxProofs!OfferedOnce` | `PublishSpec => []OfferedOnceAndWhole` |
| `OutboxProofs!DeliveredOnce` | `Spec => []DeliveredOnceUntilStopped` |
| `NotebookProofs!TablesInStep` | `Spec => []RowsInStep` |
| `NotebookProofs!AcksHold` | `Spec => []AckedIsKept` |
| `NotebookProofs!RecallHolds` | `Spec => []RecallRespects` |
| `ApprovalDispatchProofs!TypeCorrect` | `Spec => []TypeOK` |
| `ApprovalDispatchProofs!DecidedAndRun` | `Spec => []DecidedAndRunOnce` |
| `ApprovalDispatchProofs!SagaEndsWholeOrGone` | `Spec => []SagaOutcome` |
| `ApprovalDispatchProofs!OneCallAtWork` | `Spec => []OneCall`, which no run checks by itself |
| `ToolProofs!AnswersTrue` | `AgentSpec => []AnswerIsTrue` |
| `ToolProofs!LessonsCaused` | `AgentSpec => []LessonHasCause` |
| `ToolProofs!DryRunsReported` | `AgentSpec => []DryRunIsReported` |
| `ToolProofs!TicksOwned` | `AgentSpec => TicksAreOwned`, an action property |
| `ToolProofs!ScansHonest` | `AgentSpec => []ScanIsHonest` |
| `NotebookProofs!ArchivesHold` | `Spec => []ArchiveIsWhole` |
| `ToolProofs!SnapshotsHold` | `Spec => []SnapshotsAreSound` |
| `ToolProofs!RevisionsHold` | `Spec => []RevisionsAreCounted`, which no run checks by itself |

Each inductive invariant was first checked by TLC on the instance of the component's
run. Helper lemmas say what sequences, records and the models' own operators do.

*EventBus.* `NoSendOnClosedChannel` speaks of the moment of the send; what
excludes it is three steps apart. The inductive invariant `IInv` adds
`OnceInv` (closeOnce admits one body, and the closed flag follows its progress),
`BarrierInv` (`publishWG` counts exactly the Publish calls that may still send,
none is left once Close is past its barrier, and none can join after it because
the flag is set) and `WorkerInv` (a worker exists exactly for an installed topic,
and from the flag on Close's list misses no topic). Each action has its own
lemma for types and one for the rest. `DeliveryIsExact` needs `Delivery` on top of
it: the queue is what was accepted less what was taken from it, position by
position (`QueueOf`); a topic's list and the list its worker works through hold
each handler once (`ListOf`); and a handler has seen exactly the events dispatched
since it was registered, but the one in progress if its turn has not come
(`SeenOf`). A worker that exited left an empty queue behind, so nothing is owed
when Close has joined them all. Assumed: `BufferSize` is a positive number,
`MaxPublish` a number.

*KeepPublish.* That no connection sees a row twice is a statement about sequences; what
makes it inductive is where a row is while its tick is open. Until a tick is rolled back,
whatever a registered connection has received is stamped, staged in the transaction, or
the row about to be staged (`OnceInv`), and the rows of the batch still to come are none
of these (`TickInv`), so the next one is new to every connection. A rollback breaks
exactly this, which is why the property excepts it. `StampedWasOffered` needs that the
registry is open whenever the worker may still publish (`ServerInv`): this is the order
in which `Run` cancels the worker, waits for it and only then closes the registry.
Assumed: the number of rows, the buffer size and the bound on faults are numbers.

*OutboxConsumer.* `NoRepeatInWindow` counts what was published between two publishes
of an id, the code looks at a cache. `Trail` ties the two: for a position of what was
published and an id in the cache, either the position's own id stands there or at a newer place of
the cache, or the cached id was published again after it. So when an id has
been forgotten, which happens in a full cache only (`Forgotten`), all `CacheSize` ids of
the cache, which are distinct, were published since. `LinkInv` says that an open
connection is the stream's or the one just dialled, `LifeInv` who may have returned
from `Stop`. Assumed: the cache, the tries and the limits are positive numbers.

*ToolApproval.* `OneEvent` is not inductive: that a publishing request adds the
first event follows from `HolderInv` (who holds the claim holds it alone, for its
own decision, before any event). The refinement maps the abstract outcome to the
event that was published; only `Publish` changes it, from undecided, once. No
assumption on the constants.

*ToolTrees.* What is announced is the source of the command that ends, and what is
on disk is the product of many file operations; the bridge is `CopyInv` (what a copy
has written and what it has yet to write are its source) and `TreesInv` (whatever
the order of commands and faults, a directory holds files of one folder only, so
writing over a file of the same name only adds one). `SnapshotsAreKept` has `KeptInv`
besides: of a version of which no fault has cut a copy short, the live tree and the
snapshot are whole unless the command in progress is at work on them, and a live tree
about to be removed, whole or what an interrupted removal left of it, has its snapshot.
Assumed: a folder's files have known names and include a manifest.

*KeepStore.* Every action is one of eight kinds of steps of one caller, with one
lemma per kind. The invariant says what a caller has while its transaction is open:
its connection and settings (`ConnInv`), its locks (`LocksOf`), the row it locked as it read it (`LockInv`), a
write that is still right when it commits (`WriteInv`), and that no two callers share
a number, a connection, a row lock or a unique key (`Apart`); so a commit changes the
row that was read and keeps the keys unique, and the answer says so (`AckInv`).
`FreshReads` has an invariant of its own, `FreshInv`: a read's answer is right about
the rows its caller knew of from the statement that read them until it is forgotten
(`ReadOf`), although others commit meanwhile, because a commit adds a row under a number nobody
was told of before and changes nothing that a read depends on (`Grows`, lemma
`FreshStays`). The limit of a list is used up when a row it should have had is
missing (`LimitIsUsed`), and among finitely many versions one is newest
(`NewestVersion`). What a roll-up says is compared bucket by bucket, each with its model.
`NoDeadlock` follows from where locks are held: a transaction that has begun its work
(`tx`) holds none yet, one that is done (`commit`) waits for none, and the one in between (`locked`)
needs only a foreign key's share of a row that nobody locks for more. So among any callers the one
furthest on needs none of the others, and if all of them still wait for a connection, it is
others who have them.
Assumed: the pool has a connection, requests are of the routes the server has and version numbers are natural
numbers, the rows there are at the start are finitely many and satisfy the schema
(unique Slack ids, and the CHECK constraints of
`deploy/migrations/002_core_business_tables.sql:51-60`).

*ApprovalDispatch, SpawnSaga.* The argument goes from the click to the artefact. One
click wins a token (`ClickInv`: the compare-and-set stores one decision, and only a
click whose decision was stored goes on), so of the calls with one token all but one
have returned (`OneCall`); a saga is reached through its token or by the call that
inserted it (`SagaInv`), so one call at a time is at work on it (lemma `Alone`). What
there is of the saga is then that call's (`WorkInv`): the stored row and tokens name its
own app and install, and every artefact belongs to a step it has yet to undo or to one
whose clean-up failed. Reverse order enters through `AppFirst`: among the completed steps
the app comes before its installs, because the store refuses a second app, so walking
back meets the installs while the row they need is still there. Assumed: the wired steps
are spawn steps, in any number, any order and with repetitions, except that a profile is
set after an app was created (`spawnkickoff.go:196-199`, and `botprofile_step.go:36-40`,
whose compensator leaves the profile to the app's teardown); retire tokens are tokens;
`None` is neither a call nor a token.

*ToolRegistry.* `SyncedIsVisible` compares a snapshot with a directory that other
goroutines rewrite meanwhile. A source is `Pending` while an announcement of it is owed,
queued, or about to be acted on; one that is not has not changed since the scan under
way read it (`ScanInv`) nor, unless the worker is scanning for it, since the current
snapshot did (`CurrentInv`). The step from the one to the other is the swap, and it holds
because only one recompute scans: this is where `recomputeMu` enters. Events keep their
order because every recompute that swapped has a revision of its own (`RevisionInv`) and
announces it in one piece at the end of what was published (`PublishedInv`). A holder's
count is exact because a load and a release move it by that holder alone. `CountInv`
bounds revisions by the calls that were made for them, so the entry a holder loaded is
one with a count: the model's table of counts, unlike the code's fields, has to be long
enough, and `RevisionsHold` says it is. Assumed: there are finitely many goroutines and
holders, none is `None`, and the worker is not one of the direct callers.

*SlackClient.* `RateKept` follows from `Books`: tokens left and tokens granted are
within burst and rate of the time credited, and `rewound` is the time an overtaking
clock reading credits twice; the arithmetic is nonlinear and rests on two lemmas on
products. For the rest the invariant follows one job through its goroutine (`Own`), and
every step is shown to write under its own number only and to take nothing back
(`Moves`), so that other jobs' parts hold as before. In socket mode the connections are a line in which only the last
may be alive, the newest while it is being greeted and else the subscription's (`Line`), and
`Work` follows an acknowledged message to its handler. Assumed: bursts, rates and
windows are positive numbers.

*Notebook.* Three arguments carry the four theorems. An import may put another file under
the path at any time, so everything is said of each file: a call works on the file its
handle has open (`HandleOf`), and what was told of a file is so of that file (`Known`). A
transaction about to commit wrote what is in its file now (`WriterOf`), because SQLite
lets nobody else write to it meanwhile (`Apart`). And ids are minted once (`Old`), so
what was forgotten does not come back into the file. An import that counted no entry had
nothing to drop then (`ImportOf`); what is told later is beyond it (section 4). `ArcOf` follows the
two goroutines of an archive through the pipe. Each action has a lemma that it keeps
the invariant, by one rule for steps that change the caller only and one for commits.
Assumed: calls and starting entries are of the kinds the code has, and archives there
are at the start were put by another run.

*AgentTools.* Two invariants. `AgentInv` says of each call which operation it is and
what it may have done where it stands (`Own`: a write is recorded under its own
number, at most once, and only where the handler has sent it), that a lesson names a call that
failed in the way it says (`LessonInv`), and that a closure in flight belongs to an
entry or to a call (`TickInv`); every step writes under its caller's name alone, so
the other calls' parts hold as before. `FoundInv` carries the scans. While the list has not
changed, what a scan has found is what the service lists and the handler keeps in
the first so many positions (`PageOf`), and a page moves that limit on, whatever its size,
however the service marks the end. The cases are the ways a page may end: short, at
the page limit, at the item limit within the page, and with or without a next page; in
each, the scan ends either with all of the list or with the flag set
(`HonestOf`). The smallest position at which the item limit is reached comes from
well-foundedness (`WFMin`), which stands in for induction. Assumed: scripts are
finite sequences of sets of jobs and a dry run has one of the modes, there
is a list for each of the three services, and the item limit and page size are positive
numbers.

Every safety property and every action property that a run checks is stated by one of
these theorems. Only model-checked is liveness (`BusProgress`, `PublisherProgress`,
`StartedSagaEnds`, `StopReturns`, `RecomputeReturns`, `EveryCallEnds`, `EveryJobEnds`,
`EveryMessageHandled`): TLAPS has no ENABLED or fairness reasoning here. Nothing is stated of
the sum of a roll-up's tokens (`KeepStore!Tokens`): what a fold over a set computes
needs induction over data.

## 6. What is left out

- Wording, layout and encoding of requests, rows, cards and log lines; a request
  that a check refuses is a "flaw" of the request, not its text.
- Logs and metrics; times, except where a clock or a timeout decides something.
- The database, git, GitHub, Jira, Slack, SQLite and the file system are external:
  a call succeeds or fails, with the outcomes the calling code distinguishes.
- The components with status `not_modelled` in `PROJECT.json`: LLM providers,
  rendering, configuration, wiring and the command line for good, the others until
  they are reached by the plan.

## 7. Plan

Done: the event path (bus, outbox publisher, consumer), spawn and approval, tool
approval, registry and tool trees, Keep's store, Slack client and socket mode,
notebook, agent tools; proofs of every safety property the runs check.

Next, in this order:
1. Decisions and their consequences: what becomes of an approved proposal after its
   event (`ToolApproval` composed with `ToolRegistry` and `ToolTrees`).
2. `Harness`: the JSON-RPC host and the TypeScript side, requests in flight at
   shutdown, with the capability broker's tokens.
3. `EventPipeline`: `KeepPublish`, `OutboxConsumer` and `EventBus` composed behind
   an abstract specification of at-least-once delivery.
4. Audit subscriber, tool proposer and reviewer, LLM accounting.
